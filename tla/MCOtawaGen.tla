----------------------------- MODULE MCOtawaGen -----------------------------
(***************************************************************************)
(* Command lines of otawa-gen.py and directory contents for TLC.          *)
(***************************************************************************)
EXTENDS OtawaGen

\* Option flags with --version, --loader and --script fixed or free.
Opts(v, l, s) == [version : v, loader : l, ilp : BOOLEAN, script : s, force : BOOLEAN]

\* A plain name, a name in a namespace, and a name of the loader's form.
MCFullNames == {<<"p">>, <<"ns", "p">>, <<"elf_1">>}
MCElfs == {0, 1}
Colon == [colon |-> TRUE]
NoColon == [colon |-> FALSE]
MCFileArgs == {<<>>, <<Colon>>}
MCExisting == {"CMakeLists.txt", "p.cpp", "elf_1.eld"}
MCOptions == Opts(BOOLEAN, BOOLEAN, BOOLEAN)

\* The inputs of the runs that exhibit one behaviour each.
\* Extra files with and without ':'.
MCAnyFileArgs == MCFileArgs \cup {<<Colon, NoColon>>}
=============================================================================
