------------------------------- MODULE MCApi --------------------------------
(***************************************************************************)
(* The API with an arena of up to three blocks and up to three diagnostics.*)
(***************************************************************************)
EXTENDS Api
=============================================================================
