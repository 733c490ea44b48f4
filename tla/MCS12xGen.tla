----------------------------- MODULE MCS12xGen -----------------------------
(***************************************************************************)
(* Contents of stdin for src/s12x/gen.py, for TLC.                        *)
(***************************************************************************)
EXTENDS S12xGen

\* Alternatives of up to three characters: a cycle, the two conditional
\* cycles, a character that costs nothing, and their mixes (a condition
\* met twice in one alternative, both conditions, all three kinds).
MCAlts == {<<>>, <<"f">>, <<"U">>, <<"V">>, <<"x">>, <<"f", "U">>, <<"U", "V">>, <<"r", "r">>,
           <<"U", "f", "U">>, <<"V", "x", "f">>, <<"f", "U", "V">>}

\* Expressions of one to three alternatives, and of four from a smaller
\* choice.
MCDefaultExps ==
    UNION {[1..n -> MCAlts] : n \in 1..3}
    \cup [1..4 -> {<<"f">>, <<"U">>, <<"U", "f", "U">>, <<"V", "x", "f">>}]

Inst(name, exps) == [kind |-> "inst", name |-> name, exps |-> exps]

\* Every default line, and branch and repeat lines with and without the
\* alternatives their case indexes.
MCDefaultLines == {Inst("ldaa", x) : x \in MCDefaultExps}
MCCaseLines ==
    {Inst("bra", <<Bra \o <<"f">>>>), Inst("bra", <<Bra \o <<"f">>, <<"U">>>>),
     Inst("dbne", <<Rep \o <<"f">>, <<"f">>, <<>>, <<"V">>>>),
     Inst("dbne", <<Rep \o <<"f">>, <<"f">>>>)}
MCOtherLines == {[kind |-> k] : k \in {"empty", "comment", "garbage"}}

\* One line of any kind, or two lines from a smaller choice.
MCInputs ==
    {<<l>> : l \in MCDefaultLines \cup MCCaseLines \cup MCOtherLines}
    \cup {<<a, b>> : a, b \in MCCaseLines \cup MCOtherLines
                              \cup {Inst("ldaa", <<<<"f">>, <<"U">>>>)}}

\* Branch and repeat lines alone, and the repeat lines alone.
MCCaseInputs == {<<l>> : l \in MCCaseLines}
MCRepInputs == {<<Inst("dbne", <<Rep \o <<"f">>, <<"f">>, <<>>, <<"V">>>>)>>}
=============================================================================
