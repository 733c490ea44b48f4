------------------------------ MODULE StatText ------------------------------
(***************************************************************************)
(* The source text otawa-stat.py shows.  With --cfg --source, bb_source   *)
(* (lines 431-437) writes, for every (file, line) pair of a block, the     *)
(* line fetched through the SourceManager (lines 76-120) and escaped by    *)
(* escape_html (lines 48-54) into the dot label.  In source mode,          *)
(* output_sources (lines 664-700) writes every line of a source file into *)
(* its listing, indentation turned into a style, the rest through the     *)
(* file's colorizer (lines 479-518).  Text is a sequence of characters;   *)
(* the HTML a browser or dot reads back is given by Decode.               *)
(***************************************************************************)
EXTENDS Integers, Sequences, SequencesExt, TLC

CONSTANTS
    Disk,           \* the readable files: path -> lines (with their "\n")
    Blocks,         \* candidate line lists of a block: <<[file, line], ...>>
    Paths,          \* the SourceManager's lookup paths, in order
    Labels,         \* candidate CFG labels
    None            \* what load_source and get_line return on failure

VARIABLES
    mode,           \* "dot" (bb_source), "listing" (output_sources) or
                    \* "label" (the closing label of a CFG's document)
    label,          \* the label of the CFG
    bbLines,        \* the (file, line) pairs of the block being labelled
    file,           \* the source file being listed
    i,              \* the index of the next pair, or of the next line
    sources,        \* SourceManager.sources: path -> lines or None
    shown           \* what was written: [at, html] per pair or per line

vars == <<mode, label, bbLines, file, i, sources, shown>>

-----------------------------------------------------------------------------
(* Text.                                                                   *)

Str(s) == [k \in 1..Len(s) |-> SubSeq(s, k, k)]   \* "ab" as <<"a", "b">>

\* s.replace(c, r) for a single character c.
ReplaceChar(s, c, r) == FlattenSeq([k \in 1..Len(s) |-> IF s[k] = c THEN r ELSE <<s[k]>>])

\* escape_html (lines 48-54): the replacements in the order of the code.
EscapeHtml(s) ==
    ReplaceChar(ReplaceChar(ReplaceChar(ReplaceChar(ReplaceChar(s,
        "<", Str("&lt;")), ">", Str("&gt;")), "&", Str("&amp;")),
        " ", Str("&nbsp;")), "\t", FlattenSeq([k \in 1..4 |-> Str("&nbsp;")]))

\* The character references a reader decodes, with the character each
\* stands for.
Entities == {<<Str("&lt;"), "<">>, <<Str("&gt;"), ">">>, <<Str("&amp;"), "&">>,
             <<Str("&nbsp;"), " ">>}
Letters == {"a", "b", "i", "f", "l", "t", "n"}
Malformed == <<"<tag>">>

\* The text an HTML reader shows for s: a known reference is decoded, a
\* lone "&" is kept, a "<" before a letter opens a tag (the text is lost).
RECURSIVE Decode(_)
Decode(s) ==
    IF s = <<>> THEN <<>>
    ELSE IF \E e \in Entities : IsPrefix(e[1], s)
         THEN LET e == CHOOSE e \in Entities : IsPrefix(e[1], s)
                  rest == Decode(SubSeq(s, Len(e[1]) + 1, Len(s)))
              IN  IF rest = Malformed THEN Malformed ELSE <<e[2]>> \o rest
    ELSE IF s[1] = "<" /\ Len(s) > 1 /\ s[2] \in Letters THEN Malformed
    ELSE LET rest == Decode(Tail(s))
         IN  IF rest = Malformed THEN Malformed ELSE <<s[1]>> \o rest

-----------------------------------------------------------------------------
(* The SourceManager.                                                      *)

\* os.path.join(p, path) for a relative path, and the file it opens ("./a.c"
\* is a.c).
Join(p, path) == p \o "/" \o path
IsAbs(path) == Len(path) > 0 /\ SubSeq(path, 1, 1) = "/"
Normal(path) == IF Len(path) > 2 /\ SubSeq(path, 1, 2) = "./" THEN SubSeq(path, 3, Len(path)) ELSE path

\* load_source (lines 81-86): the file's lines, None when open fails.
LoadSource(path) == IF Normal(path) \in DOMAIN Disk THEN Disk[Normal(path)] ELSE None

\* The first lookup path under which path loads (0 if none).
FirstHit(path) ==
    SelectInSeq(Paths, LAMBDA p : LoadSource(Join(p, path)) # None)

\* find_source (lines 88-107): from the cache, else loaded (absolute) or
\* looked up along Paths; the result is cached under path and, when found,
\* under the joined path.
FindLines(path) ==
    IF path \in DOMAIN sources THEN sources[path]
    ELSE IF IsAbs(path) THEN LoadSource(path)
    ELSE IF FirstHit(path) = 0 THEN None
    ELSE LoadSource(Join(Paths[FirstHit(path)], path))

FindCache(path) ==
    IF path \in DOMAIN sources THEN sources
    ELSE IF IsAbs(path) \/ FirstHit(path) = 0 THEN (path :> FindLines(path)) @@ sources
    ELSE (path :> FindLines(path)) @@ (Join(Paths[FirstHit(path)], path) :> FindLines(path)) @@ sources

\* get_line (lines 109-120): lines[line - 1] with Python's indexing, where
\* an index from -len to -1 counts from the end; None out of range.
GetLine(lines, line) ==
    IF lines = None THEN None
    ELSE IF line - 1 \in 0..(Len(lines) - 1) THEN lines[line]
    ELSE IF line - 1 \in -Len(lines)..-1 THEN lines[Len(lines) + line]
    ELSE None

-----------------------------------------------------------------------------
(* The listing.                                                            *)

\* Lines 668-683: the trailing "\n" dropped, leading blanks and tabs taken
\* off (they become a padding style).
Chomp(l) == IF l # <<>> /\ Last(l) = "\n" THEN Front(l) ELSE l
LeadingBlanks(l) ==
    LET k == SelectInSeq(l, LAMBDA c : c \notin {" ", "\t"})
    IN  IF k = 0 THEN Len(l) ELSE k - 1
Unindent(l) == SubSeq(l, LeadingBlanks(l) + 1, Len(l))

\* SyntaxColorizer.colorize and CColorizer.colorize (lines 479-515) write
\* every character of the line unchanged, the C one wrapping keywords,
\* comments and directives in <font>/<b>/<i> tags: the text they show is
\* the line itself.
Colorize(l) == l

-----------------------------------------------------------------------------
Init ==
    /\ mode \in {"dot", "listing", "label"}
    /\ label \in Labels
    /\ bbLines \in Blocks
    /\ file \in DOMAIN Disk
    /\ i = 1
    /\ sources = [p \in {} |-> None]
    /\ shown = <<>>

\* bb_source, one (f, l) pair (lines 433-437): the line, "" when get_line
\* gives None, escaped into the label.
BbSourceLine ==
    /\ mode = "dot" /\ i <= Len(bbLines)
    /\ LET at == bbLines[i]
           t == GetLine(FindLines(at.file), at.line)
       IN  /\ sources' = FindCache(at.file)
           /\ shown' = Append(shown, [at |-> at,
                                      html |-> EscapeHtml(IF t = None THEN <<>> ELSE t)])
    /\ i' = i + 1
    /\ UNCHANGED <<mode, label, bbLines, file>>

\* output_sources, one line of the file (lines 666-700): the row's text.
ListingRow ==
    /\ mode = "listing" /\ i <= Len(Disk[file])
    /\ shown' = Append(shown, [at |-> [file |-> file, line |-> i],
                               html |-> Colorize(Unindent(Chomp(Disk[file][i])))])
    /\ i' = i + 1
    /\ UNCHANGED <<mode, label, bbLines, file, sources>>

\* output_CFG, line 382: the label written as is into dot's HTML label.
WriteCfgLabel ==
    /\ mode = "label" /\ shown = <<>>
    /\ shown' = <<[at |-> label, html |-> label]>>
    /\ UNCHANGED <<mode, label, bbLines, file, i, sources>>

Next == BbSourceLine \/ ListingRow \/ WriteCfgLabel

Spec == Init /\ [][Next]_vars

-----------------------------------------------------------------------------
(* Properties.                                                             *)

\* The line at names in the file (nothing when either does not exist).
LineAt(at) ==
    LET lines == LoadSource(at.file) IN
    IF lines # None /\ at.line \in 1..Len(lines) THEN lines[at.line] ELSE <<>>

\* Spec 4.6 and 4.7: the source snippet of a block (bb_source, lines
\* 431-437) and the text of a listing row (lines 668-693) show the source
\* line: the dot label reads back as the line (a tab as four spaces), or as
\* nothing when the file or the line does not exist, and the listing row
\* reads back as the line without its newline and indentation.
SourceTextShown ==
    \A k \in 1..Len(shown) :
        /\ mode = "dot" =>
              Decode(shown[k].html) = ReplaceChar(LineAt(shown[k].at), "\t", <<" ", " ", " ", " ">>)
        /\ mode = "listing" =>
              Decode(shown[k].html) = Unindent(Chomp(LineAt(shown[k].at)))

\* Spec 4.6 ("output must escape structural metacharacters"): the label of
\* a CFG's document (line 382) reads back as the CFG's label.
CfgLabelShown ==
    mode = "label" => \A k \in 1..Len(shown) : Decode(shown[k].html) = shown[k].at

\* What the dot and HTML outputs show of the program's text is that text.
ShownTextReadsBack == SourceTextShown /\ CfgLabelShown

=============================================================================
