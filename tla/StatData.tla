----------------------------- MODULE StatData -----------------------------
(***************************************************************************)
(* The Data class of bin/otawa-stat.py: a statistic holder, a partial     *)
(* function from statistic identifiers to numbers.  An absent key reads   *)
(* as 0; set_max and add_val ignore a zero candidate, so they never create *)
(* a key for it.  Blocks, CFGs and the task all own Data instances.       *)
(***************************************************************************)
EXTENDS Integers, TLC

\* Data(): a fresh, empty holder.
NewData == <<>>

\* get_val: the stored value, or 0 when the key is absent (KeyError).
GetVal(d, id) == IF id \in DOMAIN d THEN d[id] ELSE 0

\* set_max written without its "val != 0" guard (mutant).
SetMaxUnguarded(d, id, v) ==
    IF id \in DOMAIN d THEN [d EXCEPT ![id] = IF @ >= v THEN @ ELSE v]
    ELSE (id :> v) @@ d

\* set_max: keep the running maximum; a zero candidate is ignored.
SetMax(d, id, v) ==
    IF v = 0 THEN d
    ELSE IF id \in DOMAIN d THEN [d EXCEPT ![id] = IF @ >= v THEN @ ELSE v]
    ELSE (id :> v) @@ d

\* add_val that overwrites instead of accumulating (mutant).
AddValOverwrite(d, id, v) ==
    IF v = 0 THEN d ELSE (id :> v) @@ d

\* add_val: accumulate; a zero addend is ignored.
AddVal(d, id, v) ==
    IF v = 0 THEN d
    ELSE IF id \in DOMAIN d THEN [d EXCEPT ![id] = @ + v]
    ELSE (id :> v) @@ d
=============================================================================
