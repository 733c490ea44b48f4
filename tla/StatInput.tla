----------------------------- MODULE StatInput -----------------------------
(***************************************************************************)
(* The two input formats read by bin/otawa-stat.py and their conversions. *)
(*                                                                         *)
(* stats/cfg.xml is a <cfg-collection> of <cfg> fragments; a fragment is  *)
(* a record [id, label, ctxAttr, ctxProp, nodes, edges] where a missing   *)
(* XML attribute is NoAttr.  A child node is a record                     *)
(* [tag, id, call, addr, size, lines]: addr is the hexadecimal address as *)
(* a sequence of digits, lines a sequence of <<file, line>> pairs.  An    *)
(* edge is a record [source, target] of block ids.                        *)
(*                                                                         *)
(* stats/<stat>.csv is a sequence of lines; a line is a record            *)
(* [fields, value, addr, size, ctx, eol]: fields is the number of tab     *)
(* separated fields, ctx the fourth field as written (characters, Q for a *)
(* quote), eol whether the line ends with a newline (only the last line   *)
(* of a file may not).                                                    *)
(***************************************************************************)
EXTENDS Integers, Sequences, SequencesExt

CONSTANT NoAttr

\* The characters of a context string.
Q == "q"
LB == "["
RB == "]"

\* int(text, 16) on a non-empty sequence of hexadecimal digits.
RECURSIVE HexVal(_)
HexVal(digits) ==
    IF digits = <<>> THEN 0 ELSE 16 * HexVal(Front(digits)) + Last(digits)

\* The context of a fragment in read_cfg: the "context" attribute, else the
\* text of its otawa::CONTEXT property, else the empty string.
FragmentCtx(frag) ==
    IF frag.ctxAttr # NoAttr THEN frag.ctxAttr
    ELSE IF frag.ctxProp # NoAttr THEN frag.ctxProp
    ELSE <<>>

\* Python s[1:-1]: drop the first and the last character (empty if shorter).
Strip(s) == SubSeq(s, 2, Len(s) - 1)

\* The context read_stat passes to task.collect: the line loses its last
\* character (l[:-1], meant for the newline), the fourth field loses its
\* first and last characters and is wrapped in brackets ("[%s]").
RecordCtx(rec) ==
    LET field == IF rec.eol THEN rec.ctx ELSE Front(rec.ctx)
    IN  <<LB>> \o Strip(field) \o <<RB>>

\* The context the record stream format describes: the written field with
\* its surrounding quotes stripped, in brackets.
SpecRecordCtx(rec) == <<LB>> \o Strip(rec.ctx) \o <<RB>>
=============================================================================
