------------------------------- MODULE Parser -------------------------------
(***************************************************************************)
(* The parser, src/parser/parser.c, from the lexer's tokens to statements, *)
(* one operand a step, with its recovery at the end of the line.           *)
(*                                                                         *)
(* A token has a type, a value and, as num, the number of an immediate:    *)
(* strtoll reads back the decimal text the lexer wrote.  Its place is its  *)
(* index.  Which spelling the message on a removed one proposes makes no   *)
(* difference here.  The mnemonics and registers are the lexer's, so the   *)
(* parser's tests for unknown ones never fail and are left out.            *)
(***************************************************************************)
EXTENDS Integers, Sequences, FiniteSets

CONSTANTS
    Sources,           \* the token lists to parse
    Arity,             \* ARITY_TABLE: [min, max] of each mnemonic
    Wide,              \* the registers of 64 bits
    LegacyRegisters,   \* words that once named a register
    LegacyDirectives,  \* directives that were removed
    DispMax,           \* INT32_MAX
    MaxImmediate,      \* INT64_MAX
    MaxOperands,       \* MAX_OPERANDS
    MaxErrors          \* NAZM_MAX_ERRORS

VARIABLES
    tokens,
    pos,
    mode,      \* "between" lines, at the "head", in the "operands", "done"
    instr,     \* the statement being read
    syntax_ok,
    out,       \* the statements read
    errors     \* where the recorded diagnostics point, at most MaxErrors

vars == <<tokens, pos, mode, instr, syntax_ok, out, errors>>

DispMin == -DispMax - 1
MinImmediate == -MaxImmediate - 1

LineEnd == {"NEWLINE", "EOF"}
TypeAt(k) == tokens[k].type
cur_type == TypeAt(pos)

\* Wrong form: the line end is skipped with the rest.
sync_past_newline(k) ==
    LET e == CHOOSE n \in k .. Len(tokens) :
                 TypeAt(n) \in LineEnd /\ \A j \in k .. n - 1 : TypeAt(j) \notin LineEnd
    IN  IF TypeAt(e) = "EOF" THEN e ELSE e + 1

\* The first end of a line from k on.
sync_to_newline(k) ==
    CHOOSE e \in DOMAIN tokens :
        /\ e >= k /\ TypeAt(e) \in LineEnd
        /\ \A j \in k .. e - 1 : TypeAt(j) \notin LineEnd

\* The place behind the line that ends at k.
BehindLine(k) == IF TypeAt(k) = "NEWLINE" THEN k + 1 ELSE k

token_error(k) ==
    errors' = IF Len(errors) >= MaxErrors THEN errors ELSE Append(errors, k)

\* `at' is set_instruction_span: the token that diagnostics point at.
NewInstr(k) == [at |-> k, label |-> "", kind |-> "label", name |-> "", ops |-> <<>>]

push_instr(i) == out' = Append(out, i)

-----------------------------------------------------------------------------
(* Operands: what was read, or the token to blame; and the place behind *)

Read(op, next) == [ok |-> TRUE, op |-> op, next |-> next]
Failed(at, next) == [ok |-> FALSE, at |-> at, next |-> next]

\* The least immediate has no negation; the greatest stands in for it.
set_memory_displacement(base, sign, k) ==
    LET n == tokens[k].num
        d == IF sign < 0 /\ n = MinImmediate THEN MaxImmediate ELSE sign * n
    IN  IF d \in DispMin .. DispMax
        THEN Read([kind |-> "mem", base |-> base, disp |-> d], k + 1)
        ELSE Failed(k, sync_to_newline(k))

\* The closing bracket that must follow what was read.
Closed(r) ==
    CASE ~r.ok -> r
      [] r.ok /\ TypeAt(r.next) = "RBRACKET" -> Read(r.op, r.next + 1)
      [] OTHER -> Failed(r.next, sync_to_newline(r.next))

\* [instruction pointer + label], from its first word on.
RipOperand(k) ==
    CASE TypeAt(k + 1) # "PLUS" -> Failed(k + 1, sync_to_newline(k + 1))
      [] TypeAt(k + 1) = "PLUS" /\ TypeAt(k + 2) \notin {"LABEL_REF", "MNEMONIC"}
            -> Failed(k + 2, sync_to_newline(k + 2))
      [] OTHER -> Closed(Read([kind |-> "rip", label |-> tokens[k + 2].value], k + 3))

\* [base], [base + n], [base - n] or [base n], from the register on.
BaseOperand(k) ==
    LET base == tokens[k].value
        sign == IF TypeAt(k + 1) = "MINUS" THEN -1 ELSE 1
    IN  CASE base \notin Wide -> Failed(k, sync_to_newline(k))
          [] base \in Wide /\ TypeAt(k + 1) \in {"PLUS", "MINUS"} ->
                IF TypeAt(k + 2) = "IMMEDIATE"
                THEN Closed(set_memory_displacement(base, sign, k + 2))
                ELSE Failed(k + 2, sync_to_newline(k + 2))
          [] base \in Wide /\ TypeAt(k + 1) = "IMMEDIATE" ->
                Closed(set_memory_displacement(base, 1, k + 1))
          [] OTHER -> Closed(Read([kind |-> "mem", base |-> base, disp |-> 0], k + 1))

\* From the token behind the opening bracket on.
parse_mem_operand(k) ==
    CASE TypeAt(k) = "LABEL_REF" /\ tokens[k].value = "rip" -> RipOperand(k)
      [] TypeAt(k) = "REGISTER" -> BaseOperand(k)
      [] OTHER -> Failed(k, sync_to_newline(k))

parse_operand(k) ==
    LET t == tokens[k] IN
    CASE t.type = "REGISTER" -> Read([kind |-> "reg", reg |-> t.value], k + 1)
      [] t.type = "IMMEDIATE" -> Read([kind |-> "imm", imm |-> t.num], k + 1)
      [] t.type = "STRING" -> Read([kind |-> "string", string |-> t.value], k + 1)
      [] t.type = "LBRACKET" -> parse_mem_operand(k + 1)
      [] t.type = "LABEL_REF" /\ t.value \in LegacyRegisters -> Failed(k, k + 1)
      [] \/ t.type = "MNEMONIC"
         \/ t.type = "LABEL_REF" /\ t.value \notin LegacyRegisters
            -> Read([kind |-> "label", label |-> t.value], k + 1)
      [] OTHER -> Failed(k, k)

-----------------------------------------------------------------------------
Start ==
    /\ pos = 1
    /\ mode = "between"
    /\ instr = NewInstr(1)
    /\ syntax_ok = TRUE
    /\ out = <<>>
    /\ errors = <<>>

Init == tokens \in Sources /\ Start

skip_newlines ==
    /\ mode = "between" /\ cur_type = "NEWLINE"
    /\ pos' = pos + 1
    /\ UNCHANGED <<tokens, mode, instr, syntax_ok, out, errors>>

ParseEnd ==
    /\ mode = "between" /\ cur_type = "EOF"
    /\ mode' = "done"
    /\ UNCHANGED <<tokens, pos, instr, syntax_ok, out, errors>>

\* parse_line up to the head of the statement; a label may stand alone.
LineStart ==
    /\ mode = "between" /\ cur_type \notin LineEnd
    /\ UNCHANGED <<tokens, errors>>
    /\ syntax_ok' = TRUE
    /\ IF cur_type # "LABEL_DEF"
       THEN /\ instr' = NewInstr(pos)
            /\ mode' = "head"
            /\ UNCHANGED <<pos, out>>
       ELSE LET alone == TypeAt(pos + 1) \in LineEnd IN
            /\ instr' = [NewInstr(IF alone THEN pos ELSE pos + 1)
                            EXCEPT !.label = tokens[pos].value]
            /\ IF alone
               THEN push_instr(instr') /\ pos' = BehindLine(pos + 1) /\ UNCHANGED mode
               ELSE pos' = pos + 1 /\ mode' = "head" /\ UNCHANGED out

\* A line that is not a statement: reported, left out, its label with it.
RejectHead ==
    /\ mode = "head"
    /\ \/ cur_type = "DIRECTIVE" /\ tokens[pos].value \in LegacyDirectives
       \/ cur_type \notin {"DIRECTIVE", "MNEMONIC"}
    /\ token_error(pos)
    /\ pos' = BehindLine(sync_to_newline(pos))
    /\ mode' = "between"
    /\ UNCHANGED <<tokens, instr, syntax_ok, out>>

AcceptHead ==
    /\ mode = "head"
    /\ \/ cur_type = "DIRECTIVE" /\ tokens[pos].value \notin LegacyDirectives
       \/ cur_type = "MNEMONIC"
    /\ instr' = [instr EXCEPT !.kind = cur_type, !.name = tokens[pos].value]
    /\ pos' = pos + 1
    /\ mode' = "operands"
    /\ UNCHANGED <<tokens, syntax_ok, out, errors>>

-----------------------------------------------------------------------------
(* The operands of a directive and of an instruction *)

Reading(kind) == mode = "operands" /\ instr.kind = kind /\ cur_type \notin LineEnd

\* Wrong form: the mistake is reported and nothing is skipped.
GiveUpInPlace(at, from) ==
    /\ token_error(at)
    /\ syntax_ok' = FALSE
    /\ UNCHANGED <<pos, instr>>

GiveUp(at, from) ==
    /\ token_error(at)
    /\ pos' = sync_to_newline(from)
    /\ syntax_ok' = FALSE
    /\ UNCHANGED instr

\* The operand at k, when there is room for one more.
TakeOperand(k) ==
    LET r == parse_operand(k) IN
    CASE Len(instr.ops) >= MaxOperands -> GiveUp(k, k)
      [] Len(instr.ops) < MaxOperands /\ r.ok ->
            /\ instr' = [instr EXCEPT !.ops = Append(@, r.op)]
            /\ pos' = r.next
            /\ UNCHANGED <<syntax_ok, errors>>
      [] OTHER -> GiveUp(r.at, r.next)

\* Between the operands of a directive commas may stand or be missing.
DirectiveOperand ==
    /\ Reading("DIRECTIVE")
    /\ IF cur_type = "COMMA"
       THEN pos' = pos + 1 /\ UNCHANGED <<instr, syntax_ok, errors>>
       ELSE TakeOperand(pos)
    /\ UNCHANGED <<tokens, mode, out>>

\* expect_comma, then the operand.
InstructionOperand ==
    /\ Reading("MNEMONIC")
    /\ CASE instr.ops = <<>> -> TakeOperand(pos)
         [] instr.ops # <<>> /\ cur_type = "COMMA" -> TakeOperand(pos + 1)
         [] OTHER -> GiveUp(pos, pos)
    /\ UNCHANGED <<tokens, mode, out>>

\* check_arity, on get_arity of the mnemonic.
ArityHolds(i) ==
    i.kind = "MNEMONIC" => Len(i.ops) \in Arity[i.name].min .. Arity[i.name].max

\* The statement is kept even when its operands were not all read.
EndLine ==
    /\ mode = "operands" /\ cur_type \in LineEnd
    /\ IF syntax_ok /\ ~ArityHolds(instr) THEN token_error(instr.at)
       ELSE UNCHANGED errors
    /\ push_instr(instr)
    /\ pos' = BehindLine(pos)
    /\ mode' = "between"
    /\ UNCHANGED <<tokens, instr, syntax_ok>>

Terminated == mode = "done" /\ UNCHANGED vars

Next ==
    \/ skip_newlines \/ ParseEnd \/ LineStart \/ RejectHead \/ AcceptHead
    \/ DirectiveOperand \/ InstructionOperand \/ EndLine \/ Terminated

Spec == Init /\ [][Next]_vars

-----------------------------------------------------------------------------
(* The grammar of a line, as the sets of its readings *)

\* The 1-based line a token stands on; a NEWLINE ends its line.
LineOf(k) == 1 + Cardinality({j \in 1 .. k - 1 : TypeAt(j) = "NEWLINE"})

\* The lines that hold more than their end, each as its first and last token.
WrittenLines ==
    {l \in (DOMAIN tokens) \X (DOMAIN tokens) :
        /\ l[1] <= l[2]
        /\ \A k \in l[1] .. l[2] : TypeAt(k) \notin LineEnd
        /\ l[1] = 1 \/ TypeAt(l[1] - 1) = "NEWLINE"
        /\ TypeAt(l[2] + 1) \in LineEnd}

TypesOf(i, j) == [n \in 1 .. j - i + 1 |-> TypeAt(i + n - 1)]

\* The operands that tokens i to j spell, none or one.
Spelled(i, j) ==
    LET t == tokens[i]
        types == TypesOf(i, j)
        V(n) == tokens[i + n - 1].value
        N(n) == tokens[i + n - 1].num
        Mem(d) == IF V(2) \in Wide /\ d \in DispMin .. DispMax
                  THEN {[kind |-> "mem", base |-> V(2), disp |-> d]} ELSE {}
    IN  CASE types = <<"REGISTER">> -> {[kind |-> "reg", reg |-> t.value]}
          [] types = <<"IMMEDIATE">> -> {[kind |-> "imm", imm |-> t.num]}
          [] types = <<"STRING">> -> {[kind |-> "string", string |-> t.value]}
          [] types = <<"MNEMONIC">> -> {[kind |-> "label", label |-> t.value]}
          [] types = <<"LABEL_REF">> ->
                {[kind |-> "label", label |-> v] : v \in {t.value} \ LegacyRegisters}
          [] types = <<"LBRACKET", "REGISTER", "RBRACKET">> -> Mem(0)
          [] types = <<"LBRACKET", "REGISTER", "IMMEDIATE", "RBRACKET">> -> Mem(N(3))
          [] types = <<"LBRACKET", "REGISTER", "PLUS", "IMMEDIATE", "RBRACKET">>
                -> Mem(N(4))
          [] types = <<"LBRACKET", "REGISTER", "MINUS", "IMMEDIATE", "RBRACKET">>
                -> Mem(-N(4))
          [] /\ types \in {<<"LBRACKET", "LABEL_REF", "PLUS", w, "RBRACKET">> :
                              w \in {"LABEL_REF", "MNEMONIC"}}
             /\ V(2) = "rip" -> {[kind |-> "rip", label |-> V(4)]}
          [] OTHER -> {}

\* The operand lists that tokens i to j spell: separated by single commas in
\* an instruction, with commas anywhere between them in a directive.
OperandLists(i, j, strict) ==
    LET From[k \in i .. j + 1] ==
            IF k = j + 1 THEN {<<>>}
            ELSE (IF TypeAt(k) = "COMMA" /\ ~strict THEN From[k + 1] ELSE {})
                 \cup UNION {{<<o>> \o rest : o \in Spelled(k, e),
                              rest \in IF strict /\ e < j
                                       THEN IF TypeAt(e + 1) = "COMMA" /\ e + 1 < j
                                            THEN From[e + 2] ELSE {}
                                       ELSE From[e + 1]} : e \in k .. j}
    IN  From[i]

\* The statements that a line spells: none when it is wrong.
Readings(l) ==
    LET labelled == TypeAt(l[1]) = "LABEL_DEF"
        label    == IF labelled THEN tokens[l[1]].value ELSE ""
        h        == IF labelled /\ l[1] < l[2] THEN l[1] + 1 ELSE l[1]
        all      == {[at |-> h, label |-> label, kind |-> TypeAt(h),
                      name |-> tokens[h].value, ops |-> ops] :
                         ops \in OperandLists(h + 1, l[2], TypeAt(h) = "MNEMONIC")}
    IN  CASE labelled /\ h = l[1] -> {[NewInstr(h) EXCEPT !.label = label]}
          [] TypeAt(h) = "DIRECTIVE" ->
                {s \in all : s.name \notin LegacyDirectives /\ Len(s.ops) <= MaxOperands}
          [] TypeAt(h) = "MNEMONIC" ->
                {s \in all : /\ Len(s.ops) >= Arity[s.name].min
                             /\ Len(s.ops) <= Arity[s.name].max}
          [] OTHER -> {}

OnLine(k, l) == LineOf(k) = LineOf(l[1])

(***************************************************************************)
(* A line that follows the grammar gives the one statement it spells,      *)
(* whatever the lines around it hold: recovery behind a mistake never      *)
(* takes a token of the next line, and the statements keep the order of    *)
(* their lines.                                                            *)
(***************************************************************************)
RightLinesAreRead ==
    mode = "done" =>
        /\ \A l \in WrittenLines :
               Readings(l) # {} =>
                   {out[n] : n \in {m \in DOMAIN out : OnLine(out[m].at, l)}} = Readings(l)
        /\ \A n \in 2 .. Len(out) : LineOf(out[n - 1].at) < LineOf(out[n].at)

(***************************************************************************)
(* A line that does not follow the grammar is reported, once, and at one   *)
(* of its own tokens: the recorded diagnostics are those of the first      *)
(* MaxErrors wrong lines, so a wrong source is never accepted.             *)
(***************************************************************************)
WrongLinesAreReported ==
    mode = "done" =>
        LET wrong == {l \in WrittenLines : Readings(l) = {}}
        IN  /\ Len(errors) = IF Cardinality(wrong) < MaxErrors
                             THEN Cardinality(wrong) ELSE MaxErrors
            /\ \A n \in DOMAIN errors :
                   \E l \in wrong :
                       /\ OnLine(errors[n], l)
                       /\ n = 1 + Cardinality({w \in wrong : w[1] < l[1]})

(***************************************************************************)
(* Each written line is read as the grammar says or reported, never both   *)
(* and never neither.                                                      *)
(***************************************************************************)
LinesAreReadOrReported == RightLinesAreRead /\ WrongLinesAreReported
=============================================================================
