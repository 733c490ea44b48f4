------------------------------ MODULE S12xGen ------------------------------
(***************************************************************************)
(* src/s12x/gen.py: reads the timing description of the S12X instructions *)
(* from stdin, one "name expression" line at a time, and prints one C      *)
(* function time_<name> per line, then the table of all of them.  An      *)
(* expression is a comma-separated list of alternatives; each character   *)
(* of an alternative is a bus cycle, a cycle only taken when the operand  *)
(* needs an extension (U, V), or ignored.  The model keeps the generated   *)
(* C statements as records and gives them their C meaning, so that the    *)
(* time a generated function computes can be compared with the expression *)
(* it was generated from.                                                 *)
(***************************************************************************)
EXTENDS Integers, Sequences, SequencesExt, FiniteSets, TLC

CONSTANTS
    Inputs,         \* candidate contents of stdin, as sequences of lines
    NoCond          \* a character that costs nothing

VARIABLES
    input,          \* the lines of stdin
    cnt,            \* the number of the line being read
    syms,           \* the names of the functions generated so far
    out,            \* what was printed: warnings and functions
    phase           \* "read", "done" or "crashed"

vars == <<input, cnt, syms, out, phase>>

\* The conditions under which a character costs a cycle (lines 31-36):
\* "" is always, the others are the C conditions the generated code tests.
Always == ""
Ext8S == "stack_to_ext8(inst)"
Ext8V == "vector_to_ext8(inst)"
CycleChars == {"f", "g", "i", "n", "P", "r"}

\* The prefixes of exp that select the branch and the repeat cases.
Bra == <<"[", "b", "r", "a", "]">>
Rep == <<"[", "r", "e", "p", "]">>

\* The generated statements.
Add(cnd, n) == [op |-> "add", cnd |-> cnd, n |-> n]   \* [if(cnd)] t += n;
Save == [op |-> "save"]            \* old_t = t; t = 0;
MaxOld == [op |-> "maxold"]        \* if(old_t > t) t = old_t;
MaxOldUndeclared == [op |-> "maxundeclared"]  \* if(old_t > t) t = old;
RepAdd == [op |-> "rep"]           \* t += old_t + cnt * t;
Count == [op |-> "count"]          \* cnt = COUNT(exp); if(cnt < 0) throw ...
If(cnd, body) == [op |-> "if", cnd |-> cnd, body |-> body]

-----------------------------------------------------------------------------
\* inc starting a new count at 0 (mutant).
IncFromZero(cnd, cnts) ==
    IF cnd \in DOMAIN cnts THEN [cnts EXCEPT ![cnd] = @ + 1]
    ELSE cnts @@ (cnd :> 0)

\* inc (lines 10-14): the count of cnd is created at 1 or incremented.
Inc(cnd, cnts) ==
    IF cnd \in DOMAIN cnts THEN [cnts EXCEPT ![cnd] = @ + 1]
    ELSE cnts @@ (cnd :> 1)

CondOf(c) ==
    CASE c \in CycleChars -> Always
      [] c = "U"          -> Ext8S
      [] c = "V"          -> Ext8V
      [] OTHER            -> NoCond

\* gen (lines 18-23): one "t += n" per condition that was counted.  The
\* dictionary's key order is Python's; the additions commute, so a fixed
\* order stands for it.
Gen(cnts) ==
    LET keys == SelectSeq(<<Always, Ext8S, Ext8V>>, LAMBDA k : k \in DOMAIN cnts)
    IN  [i \in 1..Len(keys) |-> Add(keys[i], cnts[keys[i]])]

\* scan (lines 27-37): count the characters of one alternative by
\* condition, then print the additions.
Scan(exp) ==
    Gen(FoldLeft(LAMBDA m, c : IF CondOf(c) = NoCond THEN m ELSE Inc(CondOf(c), m),
                 [k \in {} |-> 0], exp))

\* manage_default saving t without resetting it (mutant).
ManageDefaultNoReset(exps) ==
    FlattenSeq([i \in 1..Len(exps) |->
        IF i = 1 THEN Scan(exps[i])
        ELSE <<[op |-> "keep"]>> \o Scan(exps[i]) \o <<MaxOld>>])

\* manage_default (lines 41-50): the first alternative is added to t; each
\* next one is computed from t = 0 after saving t, and the larger is kept.
ManageDefault(exps) ==
    FlattenSeq([i \in 1..Len(exps) |->
        IF i = 1 THEN Scan(exps[i]) ELSE <<Save>> \o Scan(exps[i]) \o <<MaxOld>>])

\* manage_branch (lines 54-60): the taken and the not-taken alternatives,
\* each under its condition; exps[1] (Python's exps[1]) must exist.
ManageBranch(exps) ==
    << If("is_taken", Scan(exps[1]) \o <<Save>>),
       If("is_not_taken", Scan(exps[2])),
       MaxOldUndeclared >>

\* manage_rep (lines 64-72): prefix, repeated body, two suffixes; four
\* alternatives must exist.
ManageRep(exps) ==
    <<Count>> \o Scan(exps[1]) \o <<Save>> \o Scan(exps[2]) \o <<RepAdd>>
    \o Scan(exps[3]) \o Scan(exps[4])

\* The case of an expression (lines 95-100), from the text of exp, that is
\* from its first alternative, and whether it has the alternatives the
\* case indexes (an IndexError otherwise).
Mode(exps) ==
    IF IsPrefix(Bra, exps[1]) THEN "branch"
    ELSE IF IsPrefix(Rep, exps[1]) THEN "rep" ELSE "default"

Needed == [default |-> 1, branch |-> 2, rep |-> 4]

Body(exps) ==
    CASE Mode(exps) = "branch" -> ManageBranch(exps)
      [] Mode(exps) = "rep"    -> ManageRep(exps)
      [] OTHER                 -> ManageDefault(exps)

-----------------------------------------------------------------------------
Init ==
    /\ input \in Inputs
    /\ cnt = 0
    /\ syms = <<>>
    /\ out = <<>>
    /\ phase = "read"

Line == input[cnt + 1]

\* Lines 79-82: an empty or comment line is skipped.
SkipLine ==
    /\ phase = "read" /\ cnt < Len(input)
    /\ Line.kind \in {"empty", "comment"}
    /\ cnt' = cnt + 1
    /\ UNCHANGED <<input, syms, out, phase>>

\* Lines 83-85: a line that is not "name expression" is warned about.
WarnGarbage ==
    /\ phase = "read" /\ cnt < Len(input)
    /\ Line.kind = "garbage"
    /\ cnt' = cnt + 1
    /\ out' = Append(out, [kind |-> "warning", line |-> cnt + 1])
    /\ UNCHANGED <<input, syms, phase>>

\* The function generated without counting the line (mutant).
GenerateFunctionNoCount ==
    /\ phase = "read" /\ cnt < Len(input)
    /\ Line.kind = "inst"
    /\ syms' = Append(syms, Line.name)
    /\ out' = Append(out, [kind |-> "func", name |-> Line.name, mode |-> Mode(Line.exps),
                           exps |-> Line.exps, body |-> Body(Line.exps)])
    /\ UNCHANGED <<input, cnt, phase>>

\* Lines 86-101: the name is recorded, the function printed; a branch or
\* repeat expression with too few alternatives raises IndexError in the
\* middle of the function and ends the script.
GenerateFunction ==
    /\ phase = "read" /\ cnt < Len(input)
    /\ Line.kind = "inst"
    /\ cnt' = cnt + 1
    /\ syms' = Append(syms, Line.name)
    /\ IF Len(Line.exps) >= Needed[Mode(Line.exps)]
         THEN /\ out' = Append(out, [kind |-> "func", name |-> Line.name,
                                     mode |-> Mode(Line.exps), exps |-> Line.exps,
                                     body |-> Body(Line.exps)])
              /\ UNCHANGED phase
         ELSE /\ phase' = "crashed"
              /\ UNCHANGED out
    /\ UNCHANGED input

\* Lines 105-109: at the end of stdin, the table of the functions.
PrintTable ==
    /\ phase = "read" /\ cnt = Len(input)
    /\ phase' = "done"
    /\ out' = Append(out, [kind |-> "table", syms |-> syms])
    /\ UNCHANGED <<input, cnt, syms>>

Next == SkipLine \/ WarnGarbage \/ GenerateFunction \/ PrintTable

\* The script ends after the table or at an exception.
Spec == Init /\ [][Next]_vars

-----------------------------------------------------------------------------
(* The meaning of the generated C, for the statements a default function *)
(* contains, under an assignment of the extension conditions.           *)

Envs == [s8 : BOOLEAN, v8 : BOOLEAN]

Holds(cnd, e) ==
    CASE cnd = Always -> TRUE
      [] cnd = Ext8S  -> e.s8
      [] cnd = Ext8V  -> e.v8

\* One statement on the state [t, old] of the function.
Step(st, s, e) ==
    CASE s.op = "add"    -> IF Holds(s.cnd, e) THEN [st EXCEPT !.t = @ + s.n] ELSE st
      [] s.op = "save"   -> [t |-> 0, old |-> st.t]
      [] s.op = "keep"   -> [t |-> st.t, old |-> st.t]
      [] s.op = "maxold" -> IF st.old > st.t THEN [st EXCEPT !.t = st.old] ELSE st

\* The value a default function returns.
Time(body, e) == FoldLeft(LAMBDA st, s : Step(st, s, e), [t |-> 0, old |-> 0], body).t

\* The reference: the cycles one alternative takes, counted directly.
Cost(alt, e) ==
    Len(SelectSeq(alt, LAMBDA c : c \in CycleChars))
    + (IF e.s8 THEN Len(SelectSeq(alt, LAMBDA c : c = "U")) ELSE 0)
    + (IF e.v8 THEN Len(SelectSeq(alt, LAMBDA c : c = "V")) ELSE 0)

WorstCase(exps, e) ==
    CHOOSE m \in {Cost(exps[i], e) : i \in 1..Len(exps)} :
        \A i \in 1..Len(exps) : Cost(exps[i], e) <= m

-----------------------------------------------------------------------------
(* Properties.                                                             *)

TypeOK ==
    /\ phase \in {"read", "done", "crashed"}
    /\ cnt \in 0..Len(input)
    /\ Len(syms) <= cnt
    /\ \A k \in 1..Len(out) : out[k].kind \in {"warning", "func", "table"}

\* The function manage_default prints for "name a1,a2,...,an" returns, for
\* every value of the extension conditions, the largest number of cycles
\* of the alternatives: the counts scan accumulates per condition, the
\* save-and-reset before each alternative and the comparison after it
\* together compute a maximum.
DefaultTimeIsWorstCase ==
    \A k \in 1..Len(out) :
        out[k].kind = "func" /\ out[k].mode = "default" =>
            \A e \in Envs : Time(out[k].body, e) = WorstCase(out[k].exps, e)

-----------------------------------------------------------------------------
(* Properties the code is found to violate.                               *)

\* The names a generated statement assigns or reads: t and old_t are the
\* function's locals (line 92), cnt is the repeat count (line 65).
Names(st) == IF st.op = "maxundeclared" THEN {"t", "old_t", "old"} ELSE {"t", "old_t", "cnt"}

\* Every statement of a branch or repeat function names only declared
\* variables (lines 55-72 against line 92).
CaseNamesDeclared ==
    \A k \in 1..Len(out) : out[k].kind = "func" =>
        \A j \in 1..Len(out[k].body) :
            LET st == out[k].body[j] IN
            \A s \in IF st.op = "if" THEN Range(st.body) ELSE {st} :
                Names(s) \subseteq {"t", "old_t", "cnt"}

\* The [bra] and [rep] markers (lines 95-98) select the case and cost
\* nothing: the function is the one of the same alternatives without the
\* marker.
Unmarked(exps) == <<SubSeq(exps[1], 6, Len(exps[1]))>> \o Tail(exps)
MarkerCostsNothing ==
    \A k \in 1..Len(out) :
        /\ out[k].kind = "func" /\ out[k].mode = "branch" =>
               out[k].body = ManageBranch(Unmarked(out[k].exps))
        /\ out[k].kind = "func" /\ out[k].mode = "rep" =>
               out[k].body = ManageRep(Unmarked(out[k].exps))

\* The functions of the branch and repeat cases are well formed C that
\* counts only the cycles of their alternatives.
CaseFunctionsSound == CaseNamesDeclared /\ MarkerCostsNothing

=============================================================================
