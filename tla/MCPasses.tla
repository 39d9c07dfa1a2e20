------------------------------ MODULE MCPasses ------------------------------
(***************************************************************************)
(* Small statement sets, for symbols, layout, debug rows and the limits of *)
(* int, and the programs over each: every short one, and every short       *)
(* continuation of the beginnings that matter.                             *)
(***************************************************************************)
EXTENDS Passes

CONSTANTS x, y

Op(kind, reg, imm, sym, text) ==
    [kind |-> kind, reg |-> reg, imm |-> imm, sym |-> sym, text |-> text]
Reg(r)    == Op("REG", r, 0, NoName, "plain")
Im(v)     == Op("IMM", 0, v, NoName, "plain")
Lab(n)    == Op("LABEL", 0, 0, n, "plain")
Rip(n)    == Op("RIP", 0, 0, n, "plain")
Str(l, t) == Op("STRING", 0, l, NoName, t)

Dir(label, d, ops)  == [label |-> label, directive |-> d, opcode |-> "INVALID", ops |-> ops]
Ins(label, op, ops) == [label |-> label, directive |-> "NONE", opcode |-> op, ops |-> ops]
Label(n) == Ins(n, "INVALID", <<>>)
D(d, ops) == Dir(NoName, d, ops)
I(op, ops) == Ins(NoName, op, ops)

MCNames == {x, y}
ProgramsOver(S, max) == UNION {[1 .. n -> S] : n \in 0 .. max}

\* Size and encoding of the instructions below, as a table; 15 bytes stand for
\* a form the encoder refuses.
Size(stmt) ==
    CASE stmt.opcode = "NOP" -> 1
      [] stmt.opcode = "JMP" -> 5
      [] stmt.opcode = "JE"  -> 6
      [] stmt.opcode = "MOV" /\ stmt.ops[2].kind = "RIP" -> 7
      [] stmt.opcode = "MOV" /\ stmt.ops[2].kind = "LABEL" /\ stmt.ops[1].reg = 0 -> 10
      [] OTHER -> MAX_INSTRUCTION_BYTES
Encode(stmt, t) ==
    LET refused == Size(stmt) = MAX_INSTRUCTION_BYTES
    IN  [error |-> refused, len |-> IF refused THEN 0 ELSE Size(stmt)]

\* The table is what Encoder.tla computes, whose operands carry numbers as bytes.
Enc == INSTANCE Encoder

ASSUME TableIsTheEncoder ==
    \A s \in Stmts :
        LET ops == [k \in DOMAIN s.ops |->
                       [kind |-> s.ops[k].kind, reg |-> s.ops[k].reg,
                        imm |-> Enc!Int64(s.ops[k].imm)]]
        IN  /\ Size(s) = Enc!encoder_instruction_size(s.opcode, ops)
            /\ \A t \in INT32_MIN .. INT32_MAX :
                LET enc == Enc!encoder_encode(s.opcode, ops, Enc!Int64(t))
                IN  /\ enc.error = Encode(s, t).error
                    /\ ~enc.error => enc.len = Encode(s, t).len

SymbolStmts ==
    { D("TEXT", <<>>), D("DATA", <<>>),
      D("GLOBAL", <<Lab(x)>>), D("LOCAL", <<Lab(x)>>), D("EXTERNAL", <<Lab(x)>>),
      Dir(x, "DATA", <<>>), Label(x), Ins(y, "NOP", <<>>), Dir(x, "INT64", <<Lab(y), Im(7), Lab(x)>>),
      I("JMP", <<Lab(x)>>), I("JE", <<Lab(y)>>),
      I("MOV", <<Reg(0), Lab(x)>>), I("MOV", <<Reg(16), Lab(y)>>),
      I("MOV", <<Reg(0), Rip(x)>>) }
SymbolPrograms == ProgramsOver(SymbolStmts, 4)
ShortPrograms == ProgramsOver(SymbolStmts, 2)

\* Every data directive, in and out of the sections that take it.
LayoutStmts ==
    { D("TEXT", <<>>), D("DATA", <<>>), D("RODATA", <<>>), D("BSS", <<>>),
      Dir(x, "INT8", <<Im(1), Im(255), Im(3)>>), D("INT16", <<Im(256)>>),
      D("INT8", <<Im(256)>>), D("ALIGNMENT", <<Im(4)>>), D("ALIGNMENT", <<Im(8)>>),
      Dir(y, "ZERO_SPACE", <<Im(3)>>), D("ZERO_SPACE", <<Im(0)>>),
      D("NUL_STRING", <<Str(0, "plain"), Str(2, "nul")>>),
      D("INT64", <<Lab(x)>>), I("NOP", <<>>) }
LayoutPrograms ==
    {<<D("DATA", <<>>)>> \o p : p \in ProgramsOver(LayoutStmts, 4)}
    \cup {<<D("BSS", <<>>)>> \o p : p \in ProgramsOver(LayoutStmts, 3)}

\* File tables, locations and code that makes rows of them.
DebugStmts ==
    { D("TEXT", <<>>), D("DATA", <<>>),
      D("DEBUG_FILE", <<Im(1), Str(3, "plain")>>),
      D("DEBUG_FILE_BYTES", <<Im(2), Str(3, "bytes")>>),
      D("DEBUG_FILE", <<Im(1), Str(3, "nul")>>),
      D("DEBUG_LOCATION", <<Im(1), Im(4), Im(1)>>),
      D("DEBUG_LOCATION", <<Im(2), Im(MaxLine), Im(MaxColumn)>>),
      D("DEBUG_LOCATION", <<Im(0), Im(0), Im(0)>>),
      D("DEBUG_LOCATION", <<Im(1), Im(0), Im(1)>>),
      I("NOP", <<>>), I("JMP", <<Lab(x)>>), Label(x) }
DebugPrograms ==
    ProgramsOver(DebugStmts, 3)
    \cup {<<D("DEBUG_FILE", <<Im(1), Str(3, "plain")>>)>> \o p :
             p \in ProgramsOver(DebugStmts, 4)}

\* Strings at the limit of int: one byte below it, at it, and sizes that wrap to
\* below zero, to zero and to two, with fills that leave room for the last one.
LimitStmts ==
    { D("RODATA", <<>>),
      D("NUL_STRING", <<Str(INT_MAX - 1, "plain")>>),
      Dir(x, "NUL_STRING", <<Str(INT_MAX, "plain")>>),
      D("NUL_STRING", <<Str(15, "plain"), Str(7, "nul"), Str(7, "plain")>>),
      D("NUL_STRING", <<Str(2 * INT_MAX + 1, "plain")>>),
      D("NUL_STRING", <<Str(2 * INT_MAX + 3, "plain")>>),
      D("ZERO_SPACE", <<Im(INT_MAX)>>), D("ZERO_SPACE", <<Im(INT_MAX + 1)>>),
      Dir(y, "INT16", <<Im(1), Im(2), Im(3)>>) }
LimitPrograms ==
    {<<D("DATA", <<>>)>> \o p : p \in ProgramsOver(LimitStmts, 4)}

AllStmts == SymbolStmts \cup LayoutStmts \cup DebugStmts \cup LimitStmts
AllPrograms == SymbolPrograms \cup LayoutPrograms \cup DebugPrograms \cup LimitPrograms
=============================================================================
