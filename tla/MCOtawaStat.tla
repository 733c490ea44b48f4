---------------------------- MODULE MCOtawaStat ----------------------------
(***************************************************************************)
(* Inputs of otawa-stat.py for TLC: small cfg.xml documents and .csv      *)
(* streams, built with the helpers below.                                 *)
(***************************************************************************)
EXTENDS OtawaStat

\* XML nodes of a <cfg> fragment.
Entry(id) == [tag |-> "entry", id |-> id, call |-> NoAttr, addr |-> NoAttr, size |-> NoAttr, lines |-> <<>>]
Exit(id)  == [tag |-> "exit",  id |-> id, call |-> NoAttr, addr |-> NoAttr, size |-> NoAttr, lines |-> <<>>]
BB(id, addr, size, lines) ==
             [tag |-> "bb", id |-> id, call |-> NoAttr, addr |-> addr, size |-> size, lines |-> lines]
Call(id, target) ==
             [tag |-> "bb", id |-> id, call |-> target, addr |-> NoAttr, size |-> NoAttr, lines |-> <<>>]
Edge(src, tgt) == [source |-> src, target |-> tgt]
Frag(id, ctxAttr, ctxProp, nodes, edges) ==
    [id |-> id, label |-> id, ctxAttr |-> ctxAttr, ctxProp |-> ctxProp, nodes |-> nodes, edges |-> edges]

\* Contexts as OTAWA writes them, and as a .csv field (with quotes).
CtxMain == <<LB, RB>>
CtxF    == <<LB, "f", RB>>
FieldMain == <<Q, Q>>
FieldF    == <<Q, "f", Q>>

\* main: entry -> b1 (0x0, 2 bytes, lines a.c:1,2) -> call g -> b2 (0x2,
\* 2 bytes, line a.c:3) -> exit, context "[]" given as a property;
\* g: entry -> b3 (0x10, 4 bytes, lines a.c:5, b.c:1) -> exit, context
\* "[f]" given as an attribute.  g is declared after main: the call is a
\* forward reference.
MainFrag == Frag("main", NoAttr, CtxMain,
    <<Entry("e1"), BB("b1", <<0>>, 2, <<<<"a.c", 1>>, <<"a.c", 2>>>>), Call("c1", "g"),
      BB("b2", <<2>>, 2, <<<<"a.c", 3>>>>), Exit("x1")>>,
    <<Edge("e1", "b1"), Edge("b1", "c1"), Edge("c1", "b2"), Edge("b2", "x1")>>)
GFrag == Frag("g", CtxF, NoAttr,
    <<Entry("e2"), BB("b3", <<1, 0>>, 4, <<<<"a.c", 5>>, <<"b.c", 1>>>>), Exit("x2")>>,
    <<Edge("e2", "b3"), Edge("b3", "x2")>>)

\* The same task with an edge naming an unknown block.
BadGFrag == [GFrag EXCEPT !.edges = Append(@, Edge("b3", "zz"))]

MCGoodDocs == { [root |-> "cfg-collection", cfgs |-> <<MainFrag, GFrag>>] }

\* Documents read_cfg rejects: an unknown edge target, a missing label, a
\* call to an unknown CFG (a bb node without address), a wrong root.
MCBadDocs ==
    { [root |-> "cfg-collection", cfgs |-> <<MainFrag, BadGFrag>>],
      [root |-> "cfg-collection", cfgs |-> <<[MainFrag EXCEPT !.label = NoAttr], GFrag>>],
      [root |-> "cfg-collection",
       cfgs |-> <<MainFrag, [GFrag EXCEPT !.nodes = Append(@, Call("c9", "nowhere"))]>>],
      [root |-> "html", cfgs |-> <<>>] }

MCDocs == MCGoodDocs \cup MCBadDocs

\* A well formed record line ending with a newline.
Rec(v, addr, field) == [fields |-> 4, value |-> v, addr |-> addr, size |-> 2, ctx |-> field, eol |-> TRUE]

\* Records hitting b1 (0x1) and b2 (0x2) in main's context "[]", b3 (0x12)
\* in g's context "[f]", and 0x12 in main's context (a block of g, a
\* context of main: collected nowhere).
MCRecords ==
    {Rec(4, <<1>>, FieldMain), Rec(9, <<2>>, FieldMain),
     Rec(9, <<1, 2>>, FieldF), Rec(4, <<1, 2>>, FieldMain)}
\* A file whose second line has three fields.
MCBadStreams == {<<Rec(9, <<2>>, FieldMain), [Rec(4, <<1>>, FieldMain) EXCEPT !.fields = 3]>>}

MCStreams ==
    {<<>>} \cup {<<r>> : r \in MCRecords} \cup {<<r1, r2>> : r1, r2 \in MCRecords}
    \cup MCBadStreams

MCStatNames == {"t", "c"}
MCArgLists == {<<>>, <<"t", "c">>}
MCColorStats == {"c"}
MCModes == {"cfg", "source", "list"}
MCSourceMode == {"source"}
MCStatArgs == {<<"t", "c">>}

\* a.c exists and has 7 lines (line 4 and 6 are not covered by any block,
\* line 7 lies past the recolouring arrays); b.c is not on disk.
MCExistingFiles == {"a.c"}
MCFileLen == [f \in MCExistingFiles |-> 7]
MCSourcePath == [f \in MCExistingFiles |-> "name"]
\* a.c named as d/a.c or as /d/a.c.
MCSubdirPath == [f \in MCExistingFiles |-> "subdir"]
MCAbsolutePath == [f \in MCExistingFiles |-> "absolute"]

\* g calls back into main, the first CFG (a recursive entry function).
RecGFrag == [GFrag EXCEPT !.nodes = <<Entry("e2"), Call("c2", "main"),
                                      BB("b3", <<1, 0>>, 4, <<<<"a.c", 5>>>>), Exit("x2")>>,
                          !.edges = <<Edge("e2", "c2"), Edge("c2", "b3"), Edge("b3", "x2")>>]
MCRecDocs == { [root |-> "cfg-collection", cfgs |-> <<MainFrag, RecGFrag>>] }

\* main written without any context: its context is the empty string.
MCNoCtxDocs == { [root |-> "cfg-collection", cfgs |-> <<[MainFrag EXCEPT !.ctxProp = NoAttr], GFrag>>] }

\* b1 has two instructions on line a.c:1.
MCRepeatDocs ==
    { [root |-> "cfg-collection",
       cfgs |-> <<[MainFrag EXCEPT !.nodes[2] = BB("b1", <<0>>, 2, <<<<"a.c", 1>>, <<"a.c", 1>>>>)],
                  GFrag>>] }

\* Streams whose last line may lack its newline.
MCNoEolStreams ==
    {<<r>> : r \in {[x EXCEPT !.eol = e] : x \in MCRecords, e \in BOOLEAN}}

\* No positional statistic (the default, or --all over the directory).
MCNoArgs == {<<>>}

\* The statistic t named twice on the command line.
MCTwiceArgs == {<<"t", "t">>}

\* The inputs of the runs that combine several behaviours.
\* A document read_cfg rejects with a caught KeyError (an edge to an
\* unknown block): read_cfg returns None.
MCKeyErrorDocs == { [root |-> "cfg-collection", cfgs |-> <<MainFrag, BadGFrag>>] }

MCReportDocs == MCGoodDocs \cup MCRecDocs \cup MCRepeatDocs \cup MCKeyErrorDocs
MCRecordDocs == MCGoodDocs \cup MCNoCtxDocs
MCRecordArgs == MCArgLists \cup MCTwiceArgs
MCRecordStreams == MCStreams \cup MCNoEolStreams

=============================================================================
