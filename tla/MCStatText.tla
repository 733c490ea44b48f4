----------------------------- MODULE MCStatText -----------------------------
(***************************************************************************)
(* Source files and block line lists for TLC.                             *)
(***************************************************************************)
EXTENDS StatText

\* a.c: an indented line with a "<" and an "&", then a plain line.
MCDisk == ("a.c" :> <<Str("\ta<b&\n"), Str("if a\n")>>)

At(f, l) == [file |-> f, line |-> l]

\* One or two pairs: existing lines, line 0 (no line information), a line
\* past the end, a missing file.
MCBlocks ==
    {<<At("a.c", l)>> : l \in 0..3} \cup {<<At("b.c", 1)>>, <<At("a.c", 2), At("a.c", 2)>>}

\* The inputs that exhibit one finding each.
MCLineOne == {<<At("a.c", 1)>>}
MCModeDot == {"dot"}

\* A plain name and a C++ template instance.
MCLabels == {Str("f"), Str("f<int>")}

MCPaths == <<".">>
=============================================================================
