----------------------------- MODULE OtawaStat -----------------------------
(***************************************************************************)
(* The batch pipeline of bin/otawa-stat.py: read_cfg builds the task from *)
(* stats/cfg.xml in two phases, read_stat feeds every record of every     *)
(* selected statistic into the blocks, and then either output_CFG writes  *)
(* one dot document per CFG and per statistic (each with its own          *)
(* ColorDecorator or BaseDecorator and its aggregates), or output_sources *)
(* writes the annotated listings.  Each action is one iteration of one of *)
(* the code's loops; an uncaught exception or fatal() ends in "crashed".  *)
(***************************************************************************)
EXTENDS Integers, Sequences, SequencesExt, FiniteSets, StatData, ColorMap, StatInput

CONSTANTS
    Docs,           \* candidate contents of stats/cfg.xml
    StatNames,      \* statistics whose .csv file may exist
    Streams,        \* candidate contents of a .csv file
    NoFile,         \* marks a statistic whose .csv file does not exist
    ArgLists,       \* candidate positional statistic arguments
    ColorStats,     \* candidate --color-stat arguments (NoAttr: absent)
    Modes,          \* candidate modes: "cfg" (--cfg), "source", "list" (--list)
    DefaultStat,    \* "ipet-total_time"
    NoLink, NoFill, \* absent attributes of a dot node
    ExistingFiles,  \* source files present on the file system
    FileLen,        \* number of lines of each existing source file
    SourcePath,     \* the form of each existing file's name: "name" (a.c),
                    \* "subdir" (d/a.c) or "absolute" (/d/a.c)
    Blank           \* an empty cell of a listing

VARIABLES
    statDir,    \* whether <task>-otawa/stats is a directory
    doc, csv, stats, main, color, mode,   \* the run's inputs and options
    phase,      \* the step of the pipeline the program is in
    gi, si, ri, \* loop indices: CFG, statistic, record
    cfgMap,     \* read_cfg's cfg_map: CFG id -> index in task
    task,       \* task.cfgs: [id, label, ctx, verts, edges] in document order
    bdata,      \* bdata[g][k]: the Data of block k of CFG g
    agg,        \* aggregates of the current decorator: cmax, csum, tmax, tsum
    dot,        \* written dot documents: <<statistic, name>> -> document
    scan,       \* output_sources' sources, lines, maxv and maxl
    listing,    \* written listings: source file -> page
    cfgRead,    \* read_cfg returned a task (FALSE: it reported an error
                \* and returned None)
    removed     \* output directories this run has removed: "src", or the
                \* statistic s of an <s>-cfg directory

input == <<statDir, doc, csv, stats, main, color, mode>>
vars == <<input, cfgRead, removed, phase, gi, si, ri, cfgMap, task, bdata, agg, dot, scan, listing>>

-----------------------------------------------------------------------------
(* Command line (lines 729-750): the statistics to process and the one    *)
(* that colours.  With no positional statistic, --all takes every .csv    *)
(* of the directory in os.listdir order (any order; get_all_stats, lines  *)
(* 472-477), else the default.  main = stats[0] is taken before           *)
(* --color-stat is looked at; it is NoAttr when the list is empty.        *)

\* get_all_stats (lines 472-477): the names of the .csv files of the stats
\* directory.
AllStats == {s \in StatNames : csv[s] # NoFile}

SelectedStats(args, allFlag) ==
    IF args # <<>> THEN {args}
    ELSE IF allFlag THEN {p \in [1..Cardinality(AllStats) -> AllStats] : IsInjective(p)}
    ELSE {<<DefaultStat>>}

\* --color-stat taken as the main statistic without being added to the
\* list (mutant).
WithColorStatDropped(l, cs) == l

WithColorStat(l, cs) ==
    IF cs = NoAttr \/ cs \in Range(l) THEN l ELSE Append(l, cs)

Init ==
    /\ statDir \in BOOLEAN
    /\ doc \in Docs
    /\ csv \in [StatNames -> Streams \cup {NoFile}]
    /\ \E args \in ArgLists, allFlag \in BOOLEAN, cs \in ColorStats \cup {NoAttr} :
       \E l \in SelectedStats(args, allFlag) :
          /\ stats = IF l = <<>> THEN l ELSE WithColorStat(l, cs)
          /\ main = IF l = <<>> THEN NoAttr ELSE IF cs = NoAttr THEN l[1] ELSE cs
    /\ color \in BOOLEAN
    /\ mode \in Modes
    /\ phase = "args"
    /\ gi = 1 /\ si = 1 /\ ri = 1
    /\ cfgMap = <<>>
    /\ task = <<>>
    /\ bdata = <<>>
    /\ agg = [cmax |-> <<>>, csum |-> <<>>, tmax |-> NewData, tsum |-> NewData]
    /\ dot = <<>>
    /\ scan = [sources |-> <<>>, lines |-> <<>>, maxv |-> <<>>, maxl |-> <<>>]
    /\ listing = <<>>
    /\ cfgRead = TRUE
    /\ removed = {}

\* The checks of the command line (lines 729-758): no stats directory
\* is exit(1); an empty statistic list makes stats[0] raise IndexError;
\* --list prints get_all_stats and ends; otherwise read_cfg starts.
SelectMain ==
    /\ phase = "args"
    /\ phase' = CASE ~statDir       -> "crashed"
                  [] main = NoAttr   -> "crashed"
                  [] mode = "list"   -> "done"
                  [] OTHER           -> "open"
    /\ UNCHANGED <<input, cfgRead, removed, gi, si, ri, cfgMap, task, bdata, agg, dot, scan, listing>>

-----------------------------------------------------------------------------
(* read_cfg, lines 257-332.                                               *)

\* ET.parse and the root tag check: a wrong root raises IOError, which
\* the handlers of ParseError and KeyError do not catch.
OpenDocument ==
    /\ phase = "open"
    /\ phase' = IF doc.root = "cfg-collection" THEN "register" ELSE "crashed"
    /\ UNCHANGED <<input, cfgRead, removed, gi, si, ri, cfgMap, task, bdata, agg, dot, scan, listing>>

\* CFG.__init__ (lines 195-205): no block, no edge yet.
NewCfg(frag) == [id |-> frag.id, label |-> frag.label, ctx |-> FragmentCtx(frag),
                 verts |-> <<>>, edges |-> <<>>]

\* A KeyError anywhere in read_cfg is caught (lines 327-330): error()
\* only writes a message, read_cfg returns None and the script goes on
\* with read_stat (line 767) on a None task.
ReadCfgFails == phase' = "collect" /\ cfgRead' = FALSE

\* Phase 1: one CFG shell per fragment, registered in cfg_map by id.
RegisterCfg ==
    /\ phase = "register"
    /\ gi <= Len(doc.cfgs)
    /\ LET frag == doc.cfgs[gi] IN
       IF frag.id = NoAttr \/ frag.label = NoAttr
       THEN ReadCfgFails /\ UNCHANGED <<gi, cfgMap, task, bdata>>
       ELSE /\ task' = Append(task, NewCfg(frag))
            /\ cfgMap' = (frag.id :> gi) @@ cfgMap
            /\ bdata' = Append(bdata, <<>>)
            /\ gi' = gi + 1
            /\ UNCHANGED <<phase, cfgRead>>
    /\ UNCHANGED <<input, removed, si, ri, agg, dot, scan, listing>>

EndRegister ==
    /\ phase = "register"
    /\ gi > Len(doc.cfgs)
    /\ phase' = "fill"
    /\ gi' = 1
    /\ UNCHANGED <<input, cfgRead, removed, si, ri, cfgMap, task, bdata, agg, dot, scan, listing>>

\* A child node that becomes a block: it has an id and a known tag.
IsBlockNode(n) == n.id # NoAttr /\ n.tag \in {"entry", "exit", "bb"}

\* A bb node whose "call" attribute names a registered CFG is a CallBlock;
\* any other bb node (no call, or an unknown one) becomes a BasicBlock and
\* needs an address and a size.
\* A call resolved only against the CFGs before the current one, as a
\* single-pass build would (mutant).
IsCallNodeBackward(n) ==
    n.tag = "bb" /\ n.call # NoAttr /\ n.call \in DOMAIN cfgMap /\ cfgMap[n.call] < gi

IsCallNode(n) == n.tag = "bb" /\ n.call # NoAttr /\ n.call \in DOMAIN cfgMap
LacksCode(n) == n.tag = "bb" /\ ~IsCallNode(n) /\ (n.addr = NoAttr \/ n.size = NoAttr)

MakeBlock(n) ==
    [kind   |-> IF n.tag = "bb" THEN (IF IsCallNode(n) THEN "call" ELSE "code") ELSE n.tag,
     id     |-> n.id,
     base   |-> IF n.tag = "bb" /\ ~IsCallNode(n) THEN HexVal(n.addr) ELSE 0,
     size   |-> IF n.tag = "bb" /\ ~IsCallNode(n) THEN n.size ELSE 0,
     lines  |-> IF n.tag = "bb" /\ ~IsCallNode(n) THEN n.lines ELSE <<>>,
     callee |-> IF IsCallNode(n) THEN cfgMap[n.call] ELSE 0]

\* Phase 2 for one CFG: its blocks in document order, then its edges; a
\* missing attribute or an edge naming an unknown block id is a KeyError,
\* caught by read_cfg, which then returns None.
FillCfg ==
    /\ phase = "fill"
    /\ gi <= Len(task)
    /\ LET frag    == doc.cfgs[gi]
           nodes   == SelectSeq(frag.nodes, IsBlockNode)
           verts   == [k \in 1..Len(nodes) |-> MakeBlock(nodes[k])]
           blockMap(id) == CHOOSE k \in 1..Len(verts) :
                              verts[k].id = id /\ \A j \in k+1..Len(verts) : verts[j].id # id
           ids     == {v.id : v \in Range(verts)}
       IN  IF \/ \E k \in 1..Len(nodes) : LacksCode(nodes[k])
              \/ \E e \in Range(frag.edges) : e.source \notin ids \/ e.target \notin ids
           THEN ReadCfgFails /\ UNCHANGED <<gi, task, bdata>>
           ELSE /\ task' = [task EXCEPT ![gi].verts = verts,
                            ![gi].edges = [i \in 1..Len(frag.edges) |->
                                             <<blockMap(frag.edges[i].source),
                                               blockMap(frag.edges[i].target)>>]]
                /\ bdata' = [bdata EXCEPT ![gi] = [k \in 1..Len(verts) |-> NewData]]
                /\ gi' = gi + 1
                /\ UNCHANGED <<phase, cfgRead>>
    /\ UNCHANGED <<input, removed, si, ri, cfgMap, agg, dot, scan, listing>>

EndFill ==
    /\ phase = "fill"
    /\ gi > Len(task)
    /\ phase' = "collect"
    /\ UNCHANGED <<input, cfgRead, removed, gi, si, ri, cfgMap, task, bdata, agg, dot, scan, listing>>

-----------------------------------------------------------------------------
(* read_stat, lines 392-400, and the collect methods of Task, CFG and     *)
(* BasicBlock, lines 162-231.                                              *)

\* Containment that also accepts the first address past the block (mutant).
CoversInclusive(b, addr) == b.kind = "code" /\ b.base <= addr /\ addr <= b.base + b.size

\* BasicBlock.collect: point containment of the record's address; the
\* record's own size is ignored.
Covers(b, addr) == b.kind = "code" /\ b.base <= addr /\ addr < b.base + b.size

\* Task.collect: every CFG whose context equals ctx, every block of it.
TaskCollect(d, s, val, addr, ctx) ==
    [g \in 1..Len(task) |->
        IF task[g].ctx = ctx
        THEN [k \in 1..Len(task[g].verts) |->
                 IF Covers(task[g].verts[k], addr) THEN AddVal(d[g][k], s, val) ELSE d[g][k]]
        ELSE d[g]]

\* open() of a missing stats/<stat>.csv: fatal().
StatFileMissing ==
    /\ phase = "collect"
    /\ si <= Len(stats)
    /\ csv[stats[si]] = NoFile
    /\ phase' = "crashed"
    /\ UNCHANGED <<input, cfgRead, removed, gi, si, ri, cfgMap, task, bdata, agg, dot, scan, listing>>

\* One line of the file: four fields (else the assert raises, uncaught),
\* parsed and collected into the task (on None, task.collect raises
\* AttributeError).
CollectRecord ==
    /\ phase = "collect"
    /\ si <= Len(stats)
    /\ csv[stats[si]] # NoFile
    /\ ri <= Len(csv[stats[si]])
    /\ LET rec == csv[stats[si]][ri] IN
       IF rec.fields # 4 \/ ~cfgRead
       THEN /\ phase' = "crashed"
            /\ UNCHANGED <<ri, bdata>>
       ELSE /\ bdata' = TaskCollect(bdata, stats[si], rec.value, HexVal(rec.addr), RecordCtx(rec))
            /\ ri' = ri + 1
            /\ UNCHANGED phase
    /\ UNCHANGED <<input, cfgRead, removed, gi, si, cfgMap, task, agg, dot, scan, listing>>

\* The end of one file; after the last statistic, the chosen output.
EndStatFile ==
    /\ phase = "collect"
    /\ si <= Len(stats)
    /\ csv[stats[si]] # NoFile
    /\ ri > Len(csv[stats[si]])
    /\ si' = IF si = Len(stats) THEN 1 ELSE si + 1
    /\ ri' = 1
    /\ phase' = IF si = Len(stats) THEN (IF mode = "cfg" THEN "decorate" ELSE "scan") ELSE phase
    /\ UNCHANGED <<input, cfgRead, removed, gi, cfgMap, task, bdata, agg, dot, scan, listing>>

-----------------------------------------------------------------------------
(* output_CFG, lines 338-389, called once per statistic with a fresh      *)
(* decorator (lines 769-771): BaseDecorator.__init__ (lines 405-426)      *)
(* computes the aggregates, bb_label (439-442) and ColorDecorator.bb_attrs *)
(* (461-469) decorate the nodes.                                           *)

\* One block's Data folded into an accumulator for every statistic, in the
\* order of the stats list (a statistic listed twice is folded twice).
FoldBlock(Op(_, _, _), acc, bd) ==
    FoldLeft(LAMBDA a, id : Op(a, id, GetVal(bd, id)), acc, stats)

\* BaseDecorator.__init__ that keeps the task sums of the previous
\* decorator instead of a fresh Data (mutant).
BaseDecoratorInitNoReset(prev) ==
    LET cmax == [g \in 1..Len(task) |-> FoldLeft(LAMBDA a, bd : FoldBlock(SetMax, a, bd), NewData, bdata[g])]
        csum == [g \in 1..Len(task) |-> FoldLeft(LAMBDA a, bd : FoldBlock(AddVal, a, bd), NewData, bdata[g])]
    IN  [cmax |-> cmax, csum |-> csum,
         tmax |-> FoldLeft(LAMBDA a, d : FoldBlock(SetMax, a, d), NewData, cmax),
         tsum |-> FoldLeft(LAMBDA a, d : FoldBlock(AddVal, a, d), prev.tsum, csum)]

\* BaseDecorator.__init__: fresh max and sum Data for the task and every
\* CFG, per-CFG max/sum over its blocks, task max/sum over the CFGs.
BaseDecoratorInit(prev) ==
    LET cmax == [g \in 1..Len(task) |-> FoldLeft(LAMBDA a, bd : FoldBlock(SetMax, a, bd), NewData, bdata[g])]
        csum == [g \in 1..Len(task) |-> FoldLeft(LAMBDA a, bd : FoldBlock(AddVal, a, bd), NewData, bdata[g])]
    IN  [cmax |-> cmax, csum |-> csum,
         tmax |-> FoldLeft(LAMBDA a, d : FoldBlock(SetMax, a, d), NewData, cmax),
         tsum |-> FoldLeft(LAMBDA a, d : FoldBlock(AddVal, a, d), NewData, csum)]

\* decorator(s, task, stats), then output_CFG removes and recreates the
\* directory <s>-cfg.
StartOutputCfg ==
    /\ phase = "decorate"
    /\ si <= Len(stats)
    /\ cfgRead
    /\ agg' = BaseDecoratorInit(agg)
    /\ dot' = [k \in {k \in DOMAIN dot : k[1] # stats[si]} |-> dot[k]]
    /\ removed' = removed \cup {stats[si]}
    /\ gi' = 1
    /\ phase' = "render"
    /\ UNCHANGED <<input, cfgRead, si, ri, cfgMap, task, bdata, scan, listing>>

\* On a None task the decorator's constructor raises AttributeError
\* (line 409) before output_CFG is entered.
DecoratorOnNone ==
    /\ phase = "decorate"
    /\ ~cfgRead
    /\ phase' = "crashed"
    /\ UNCHANGED <<input, cfgRead, removed, gi, si, ri, cfgMap, task, bdata, agg, dot, scan, listing>>

\* The value that colours block k of CFG g: a CallBlock shows the max of
\* its callee for the colouring statistic, any other block its own value.
ColourValue(g, k) ==
    IF task[g].verts[k].kind = "call"
    THEN GetVal(agg.cmax[task[g].verts[k].callee], stats[si])
    ELSE GetVal(bdata[g][k], stats[si])

\* The dot attributes of block k of CFG g: its link, its fill and font
\* colours (ColorDecorator, ratio # 0 only) and the values its label shows.
DotNode(g, k) ==
    LET b   == task[g].verts[k]
        v   == ColourValue(g, k)
        mx  == GetVal(agg.tmax, stats[si])
    IN  [kind |-> b.kind,
         link |-> IF b.kind = "call" THEN task[b.callee].id ELSE NoLink,
         fill |-> IF color /\ v # 0 THEN Background(v, mx) ELSE NoFill,
         font |-> IF color /\ v # 0 THEN Foreground(v, mx) ELSE NoFill,
         vals |-> IF b.kind = "code" THEN [id \in Range(stats) |-> GetVal(bdata[g][k], id)]
                  ELSE [id \in {} |-> 0]]

\* Writing block k of CFG g divides by the task sum of every displayed
\* statistic (bb_label, a BasicBlock) and by the task max of the colouring
\* statistic (ColorDecorator.bb_attrs, every block): ZeroDivisionError.
DividesByZero(g, k) ==
    \/ task[g].verts[k].kind = "code" /\ \E id \in Range(stats) : GetVal(agg.tsum, id) = 0
    \/ color /\ GetVal(agg.tmax, stats[si]) = 0

\* The document of one CFG: the first CFG of the task is index.dot, the
\* others <id>.dot.
DocName(g) == IF g = 1 THEN "index" ELSE task[g].id

\* The file is opened and its nodes written in order: when block k raises,
\* the file holds the nodes before k and the run stops (the exception is
\* not caught); otherwise the whole document, edges and label included.
WriteCfgDoc ==
    /\ phase = "render"
    /\ gi <= Len(task)
    /\ LET n    == Len(task[gi].verts)
           bad  == {k \in 1..n : DividesByZero(gi, k)}
           stop == IF bad = {} THEN n + 1 ELSE Min(bad)
       IN  /\ dot' = (<<stats[si], DocName(gi)>> :>
                        [cfg |-> gi, complete |-> bad = {},
                         nodes |-> [k \in 1..stop - 1 |-> DotNode(gi, k)]]) @@ dot
           /\ IF bad = {} THEN gi' = gi + 1 /\ UNCHANGED phase
              ELSE phase' = "crashed" /\ UNCHANGED gi
    /\ UNCHANGED <<input, cfgRead, removed, si, ri, cfgMap, task, bdata, agg, scan, listing>>

EndOutputCfg ==
    /\ phase = "render"
    /\ gi > Len(task)
    /\ si' = si + 1
    /\ phase' = IF si = Len(stats) THEN "done" ELSE "decorate"
    /\ UNCHANGED <<input, cfgRead, removed, gi, ri, cfgMap, task, bdata, agg, dot, scan, listing>>

-----------------------------------------------------------------------------
(* output_sources, lines 525-711 (chosen when --cfg is absent).           *)

\* Every (CFG, block, file, line) of the BasicBlocks' line lists, in the
\* order of the scan loop: CFGs, their blocks, each block's lines.
LineOccurrences ==
    LET perBlock(g, k) == [i \in 1..Len(task[g].verts[k].lines) |->
                              [g |-> g, k |-> k, f |-> task[g].verts[k].lines[i][1],
                               l |-> task[g].verts[k].lines[i][2]]]
        perCfg(g) == FoldLeft(LAMBDA acc, k : acc \o perBlock(g, k), <<>>,
                              SelectSeq([k \in 1..Len(task[g].verts) |-> k],
                                        LAMBDA k : task[g].verts[k].kind = "code"))
    IN  FoldLeft(LAMBDA acc, g : acc \o perCfg(g), <<>>, [g \in 1..Len(task) |-> g])

\* lines[(s, f, l)] accumulated with the block's value of every statistic
\* (the key is created even for a 0 value), maxv[s] the running maximum.
AddLine(acc, o, s) ==
    LET key == <<s, o.f, o.l>>
        v   == (IF key \in DOMAIN acc.lines THEN acc.lines[key] ELSE 0) + GetVal(bdata[o.g][o.k], s)
    IN  [acc EXCEPT !.lines = (key :> v) @@ @,
                    !.maxv  = (s :> IF v >= @[s] THEN v ELSE @[s]) @@ @]

\* One occurrence of the scan: a file seen for the first time is kept if
\* it exists (os.path.isfile); lines of kept files are accumulated.
ScanStep(acc, o) ==
    LET fresh == o.f \notin Range(acc.sources) /\ o.f \in ExistingFiles
        acc1  == IF fresh THEN [acc EXCEPT !.sources = Append(@, o.f), !.maxl = (o.f :> 0) @@ @]
                 ELSE acc
        acc2  == FoldLeft(LAMBDA a, s : AddLine(a, o, s), acc1, stats)
    IN  IF o.f \in Range(acc1.sources)
        THEN [acc2 EXCEPT !.maxl = (o.f :> IF o.l >= @[o.f] THEN o.l ELSE @[o.f]) @@ @]
        ELSE acc1

\* Remove and recreate the src directory, then scan the task (on None,
\* task.cfgs raises AttributeError at line 539) and write index.html.
ScanSources ==
    /\ phase = "scan"
    /\ removed' = removed \cup {"src"}
    /\ IF cfgRead
       THEN /\ scan' = FoldLeft(ScanStep,
                                [sources |-> <<>>, lines |-> <<>>,
                                 maxv |-> [s \in Range(stats) |-> 0], maxl |-> <<>>],
                                LineOccurrences)
            /\ gi' = 1
            /\ phase' = "listing"
       ELSE phase' = "crashed" /\ UNCHANGED <<scan, gi>>
    /\ UNCHANGED <<input, cfgRead, si, ri, cfgMap, task, bdata, agg, dot, listing>>

\* The recolouring array with every entry read from the line before (mutant).
ShadeArrayShifted(f, s) ==
    <<0>> \o [l \in 1..scan.maxl[f] + 1 |->
                 IF <<s, f, l - 1>> \in DOMAIN scan.lines
                 THEN SourceIndex(scan.lines[<<s, f, l - 1>>], scan.maxv[s]) ELSE 0]

\* The recolouring array s<i> of statistic s for file f: a leading 0 for
\* the header row, then one entry for each line 1 .. maxl[f] + 1.
ShadeArray(f, s) ==
    <<0>> \o [l \in 1..scan.maxl[f] + 1 |->
                 IF <<s, f, l>> \in DOMAIN scan.lines
                 THEN SourceIndex(scan.lines[<<s, f, l>>], scan.maxv[s]) ELSE 0]

\* The page of one source file is src/<f>.html (line 578): os.path.join
\* puts a name with a directory part in a directory src/ does not have
\* (open raises IOError), and an absolute name outside the report, next
\* to the source file itself.
\* The listing of one source file: a cell per line and statistic, the
\* recolouring arrays, and the row shades of the closing colorize() call
\* for the main statistic (row 0 is the header; a row past the end of the
\* array reads backgrounds[undefined] and stays unstyled, like entry 0).
WriteListing ==
    /\ phase = "listing"
    /\ gi <= Len(scan.sources)
    /\ LET f   == scan.sources[gi]
           arr == ShadeArray(f, main)
       IN  IF SourcePath[f] = "subdir"
           THEN phase' = "crashed" /\ UNCHANGED <<gi, listing>>
           ELSE /\ listing' = (f :> [inReport |-> SourcePath[f] = "name",
                                    cells  |-> [num \in 1..FileLen[f] |->
                                                  [s \in Range(stats) |->
                                                     IF <<s, f, num>> \in DOMAIN scan.lines
                                                     THEN scan.lines[<<s, f, num>>] ELSE Blank]],
                                    arrays |-> [s \in Range(stats) |-> ShadeArray(f, s)],
                                    shade  |-> [row \in 0..FileLen[f] |->
                                                  IF row < Len(arr) THEN arr[row + 1] ELSE 0]]) @@ listing
                /\ gi' = gi + 1
                /\ UNCHANGED phase
    /\ UNCHANGED <<input, cfgRead, removed, si, ri, cfgMap, task, bdata, agg, dot, scan>>

EndListings ==
    /\ phase = "listing"
    /\ gi > Len(scan.sources)
    /\ phase' = "done"
    /\ UNCHANGED <<input, cfgRead, removed, gi, si, ri, cfgMap, task, bdata, agg, dot, scan, listing>>

-----------------------------------------------------------------------------
Next ==
    \/ SelectMain
    \/ OpenDocument \/ RegisterCfg \/ EndRegister \/ FillCfg \/ EndFill
    \/ StatFileMissing \/ CollectRecord \/ EndStatFile
    \/ StartOutputCfg \/ DecoratorOnNone \/ WriteCfgDoc \/ EndOutputCfg
    \/ ScanSources \/ WriteListing \/ EndListings

\* "done" and "crashed" are the exit of the process: no step follows.
Spec == Init /\ [][Next]_vars

-----------------------------------------------------------------------------
(* Properties.                                                             *)

TypeOK ==
    /\ phase \in {"args", "open", "register", "fill", "collect", "decorate", "render",
                  "scan", "listing", "done", "crashed"}
    /\ gi \in Nat /\ si \in Nat /\ ri \in Nat
    /\ main \in Range(stats) \cup {NoAttr}
    /\ Len(bdata) = Len(task)
    /\ phase \in {"collect", "decorate", "render", "scan", "listing", "done"} =>
          \A g \in 1..Len(task) : Len(bdata[g]) = Len(task[g].verts)
    /\ \A key \in DOMAIN dot : key[1] \in Range(stats)

\* The document is valid: the right root, an id and a label on every
\* fragment, every bb node either calls a CFG of the document or has an
\* address and a size, every edge names blocks of its own fragment.
DocumentValid ==
    /\ doc.root = "cfg-collection"
    /\ \A i \in 1..Len(doc.cfgs) :
          LET frag == doc.cfgs[i]
              ids  == {n.id : n \in {n \in Range(frag.nodes) : IsBlockNode(n)}}
          IN  /\ frag.id # NoAttr /\ frag.label # NoAttr
              /\ \A n \in Range(frag.nodes) :
                    (IsBlockNode(n) /\ n.tag = "bb") =>
                       \/ \E j \in 1..Len(doc.cfgs) : doc.cfgs[j].id = n.call
                       \/ n.addr # NoAttr /\ n.size # NoAttr
              /\ \A e \in Range(frag.edges) : e.source \in ids /\ e.target \in ids

\* The run gets past the command line to read_cfg.
PastCommandLine == statDir /\ main # NoAttr /\ mode # "list"

\* Every fragment has become a CFG holding one block per block node.
Built ==
    /\ Len(task) = Len(doc.cfgs)
    /\ \A g \in 1..Len(task) :
          /\ Len(task[g].verts) = Len(SelectSeq(doc.cfgs[g].nodes, IsBlockNode))
          /\ Len(bdata[g]) = Len(task[g].verts)

\* read_cfg (spec 4.2): once a run is past the command line, a valid
\* document, calls to CFGs declared later included, is always built into
\* a complete task: the run never stops
\* in or after the build with part of the task missing.
ValidDocumentIsBuilt ==
    (DocumentValid /\ PastCommandLine /\ phase \notin {"args", "open", "register", "fill"})
        => Built

\* Every statistic has been read into the blocks.
Collected == phase \in {"decorate", "render", "scan", "listing", "done"}

\* The address range [base, base + size) of a BasicBlock.
InBlock(b, a) == b.kind = "code" /\ a \in b.base..(b.base + b.size - 1)

\* The value of statistic s that the records of its file carry for block k
\* of CFG g: the sum of the records whose context, as the stream format
\* describes it, is the CFG's context and whose address lies in the block.
RecordsFor(g, k, s) ==
    FoldLeft(LAMBDA acc, r :
                acc + IF /\ SpecRecordCtx(r) = FragmentCtx(doc.cfgs[g])
                         /\ InBlock(task[g].verts[k], HexVal(r.addr))
                      THEN r.value ELSE 0,
             0, csv[s])

\* Collection (read_stat, Task/CFG/BasicBlock.collect): once all files are
\* read, every block holds, for every statistic, exactly the sum of the
\* records addressed to it; no record reaches a CFG of another context or
\* a block that does not contain its address, none is lost.
RecordAttribution ==
    Collected =>
        \A g \in 1..Len(task) : \A k \in 1..Len(task[g].verts) : \A s \in Range(stats) :
            GetVal(bdata[g][k], s) = RecordsFor(g, k, s)

\* Reference aggregates of statistic s, from the block values.
BlockVals(g, s) == [k \in 1..Len(bdata[g]) |-> GetVal(bdata[g][k], s)]
RefCfgSum(g, s) == SumFunction(BlockVals(g, s))
RefCfgMax(g, s) == Max(Range(BlockVals(g, s)) \cup {0})
RefTaskSum(s) == SumFunction([g \in 1..Len(task) |-> RefCfgSum(g, s)])
RefTaskMax(s) == Max({RefCfgMax(g, s) : g \in 1..Len(task)} \cup {0})

\* The decorator of every statistic (BaseDecorator.__init__, recomputed for
\* each statistic of output_CFG's loop) holds, while its documents are
\* written, the per-CFG and per-task maxima and sums of the block values.
AggregatesCorrect ==
    phase = "render" =>
        \A s \in Range(stats) :
            /\ \A g \in 1..Len(task) :
                  /\ GetVal(agg.csum[g], s) = RefCfgSum(g, s)
                  /\ GetVal(agg.cmax[g], s) = RefCfgMax(g, s)
            /\ GetVal(agg.tsum, s) = RefTaskSum(s)
            /\ GetVal(agg.tmax, s) = RefTaskMax(s)

\* Palette index i is the nearest to 8 * v / mx: |i - 8v/mx| <= 1/2.
NearestShade(i, v, mx) ==
    /\ i \in 0..PaletteSize - 1
    /\ 2 * i * mx - 2 * (PaletteSize - 1) * v \in -mx..mx

\* The graph view (output_CFG with ColorDecorator): in the document of
\* statistic s, a non-call block is filled iff colouring is on and its
\* value is not 0, and then with the shade nearest to its share of the
\* task maximum of s.
FillIsNearestShade ==
    \A key \in DOMAIN dot : \A k \in DOMAIN dot[key].nodes :
        LET g == dot[key].cfg
            n == dot[key].nodes[k]
            v == GetVal(bdata[g][k], key[1])
        IN  n.kind # "call" =>
               IF color /\ v # 0 THEN NearestShade(n.fill, v, RefTaskMax(key[1]))
               ELSE n.fill = NoFill

\* The value of statistic s that source line l of file f sums: the values
\* of the BasicBlocks whose line list names it, once per occurrence.
LineSlots(f, l) ==
    {t \in UNION {UNION {{<<g, k, i>> : i \in DOMAIN task[g].verts[k].lines} :
                            k \in 1..Len(bdata[g])} : g \in 1..Len(task)} :
        task[t[1]].verts[t[2]].kind = "code" /\ task[t[1]].verts[t[2]].lines[t[3]] = <<f, l>>}
RefLine(s, f, l) == MapThenSumSet(LAMBDA t : GetVal(bdata[t[1]][t[2]], s), LineSlots(f, l))
BlockLines == UNION {UNION {Range(task[g].verts[k].lines) : k \in 1..Len(bdata[g])} : g \in 1..Len(task)}
RefLineMax(s) ==
    Max({RefLine(s, fl[1], fl[2]) : fl \in {x \in BlockLines : x[1] \in ExistingFiles}} \cup {0})

\* The source view (output_sources): in the listing of every existing
\* source file, each line shows for every statistic the value its blocks
\* give it, or an empty cell if no block covers it; and the closing
\* colorize() call shades row n, and no other row, with the palette entry
\* of line n's main-statistic value relative to the largest line value,
\* leaving lines without a value unshaded.
ListingMatchesBlocks ==
    \A f \in DOMAIN listing : \A num \in 1..FileLen[f] :
        /\ \A s \in Range(stats) :
              listing[f].cells[num][s] = IF LineSlots(f, num) = {} THEN Blank ELSE RefLine(s, f, num)
        /\ LET v == RefLine(main, f, num) IN
              IF v = 0 THEN listing[f].shade[num] = 0
              ELSE NearestShade(listing[f].shade[num] - 1, v, RefLineMax(main))

-----------------------------------------------------------------------------
(* Properties the code is found to violate (each checked by its own run). *)

\* Spec 4.5 and 8: the text colour of a shaded node is black exactly when
\* its palette index is below COLOR_TH, as in the source view.
FontFollowsShade ==
    \A key \in DOMAIN dot : \A k \in DOMAIN dot[key].nodes :
        LET n == dot[key].nodes[k] IN
        n.fill # NoFill => n.font = IF n.fill < COLOR_TH THEN "black" ELSE "white"

\* The inputs are well formed: the stats directory exists, the document
\* is read, every statistic file exists and every line has four fields.
WellFormedInput ==
    /\ statDir
    /\ doc.root = "cfg-collection"
    /\ \A i \in 1..Len(doc.cfgs) : doc.cfgs[i].id # NoAttr /\ doc.cfgs[i].label # NoAttr
    /\ \A s \in Range(stats) : csv[s] # NoFile /\ \A r \in Range(csv[s]) : r.fields = 4

\* Spec 4.6 and 7: a run on well formed inputs never aborts; a statistic
\* with no value reads as 0 and its percentages are omitted or shown as 0.
WellFormedRunCompletes ==
    phase = "crashed" => ~WellFormedInput

\* Spec 4.6: a call block links to the document of its callee; once the
\* run is over, every link of a dot document names a document of the same
\* directory.
CallLinksResolve ==
    phase = "done" =>
        \A key \in DOMAIN dot : \A k \in DOMAIN dot[key].nodes :
            dot[key].nodes[k].link # NoLink => <<key[1], dot[key].nodes[k].link>> \in DOMAIN dot

\* Spec 8 (round trip): a CFG with no context receives the records whose
\* context field is empty.
DefaultContextReceivesRecords ==
    Collected =>
        \A g \in 1..Len(task) : \A k \in 1..Len(task[g].verts) : \A s \in Range(stats) :
            FragmentCtx(doc.cfgs[g]) = <<>> =>
                GetVal(bdata[g][k], s) =
                    FoldLeft(LAMBDA acc, r :
                                acc + IF Strip(r.ctx) = <<>> /\ Covers(task[g].verts[k], HexVal(r.addr))
                                      THEN r.value ELSE 0,
                             0, csv[s])

\* Every record reaches the blocks it belongs to, and only them, including
\* the blocks of a CFG without context.
RecordsReachTheirBlocks ==
    /\ RecordAttribution
    /\ DefaultContextReceivesRecords

\* Spec 4.7: the value shown for a source line is the sum of the values of
\* the blocks covering it (a block counts once, however many of its
\* instructions map to the line).
LineValueIsBlockSum ==
    \A f \in DOMAIN listing : \A num \in 1..FileLen[f] : \A s \in Range(stats) :
        LineSlots(f, num) # {} =>
            listing[f].cells[num][s] =
                MapThenSumSet(LAMBDA t : GetVal(bdata[t[1]][t[2]], s),
                              {<<t[1], t[2]>> : t \in LineSlots(f, num)})


\* Spec 7: no partial output is committed for a document whose generation
\* raised a fatal error.  output_CFG opens <id>.dot and writes node after
\* node: every dot document left on disk is complete.
NoPartialDocument ==
    \A key \in DOMAIN dot : dot[key].complete

\* Spec 6: the annotated listings are written, one per source file, into
\* the report beside its index: no page is written outside src/.
ListingsInReport ==
    \A f \in DOMAIN listing : listing[f].inReport

\* Spec 2 (the CFG builder) and 7: a malformed document aborts the whole
\* build.  read_cfg's handlers of ParseError and KeyError return None
\* instead, and the run goes on: a run whose document was rejected must
\* not have removed a directory of the report already on disk.
MalformedDocumentKeepsReport ==
    ~cfgRead => removed = {}

\* The report as spec 4.5, 4.6, 4.7, 6 and 7 describe it: once the run is
\* over every call link names a document of the directory, no dot document
\* is left cut by a failure, every listing is in the report, every line
\* shows the sum of the blocks covering it, and every shaded node is
\* labelled in the font its shade calls for; and a rejected document
\* leaves the earlier report in place.
ReportConsistent ==
    /\ CallLinksResolve
    /\ NoPartialDocument
    /\ ListingsInReport
    /\ LineValueIsBlockSum
    /\ FontFollowsShade
    /\ MalformedDocumentKeepsReport

=============================================================================
