---------------------------- MODULE InstallOrder ----------------------------
(***************************************************************************)
(* What bin/otawa-install.py promises of its build loop: packages are     *)
(* completed one at a time, each only once everything it depends on is    *)
(* complete.  The dependency relation may be declared freely while        *)
(* nothing is complete; once a package is complete it is fixed.           *)
(***************************************************************************)
CONSTANT Names      \* package names

VARIABLES
    completed,      \* packages whose download, build and install succeeded
    deps            \* deps[p]: the packages p uses or requires

Init ==
    /\ completed = {}
    /\ deps = [p \in {} |-> {}]

\* The database is (re)read: only possible before any package completes.
Declare ==
    /\ completed = {}
    /\ UNCHANGED completed

\* p completes after all its dependencies.
Complete(p) ==
    /\ p \in DOMAIN deps
    /\ deps[p] \subseteq completed
    /\ completed' = completed \cup {p}
    /\ UNCHANGED deps

Next == Declare \/ \E p \in Names : Complete(p)

Spec == Init /\ [][Next]_<<completed, deps>>
=============================================================================
