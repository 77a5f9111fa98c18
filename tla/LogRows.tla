------------------------------ MODULE LogRows -------------------------------
(***************************************************************************)
(* How the lines of a log are folded into rows (internal/ingest/group.go). *)
(* A line is a record with a kind:                                         *)
(*   "plain"  anything else       "more"  starts with a space or a tab     *)
(*   "start"  Rails "Started .."  "done"  Rails "Completed .."             *)
(*   "blank"  nothing but spaces  "huge"  longer than the scanner's buffer *)
(* and the request id it carries.  Levels and the fields of JSON lines do  *)
(* not change the rows and are left out.                                   *)
(***************************************************************************)
EXTENDS Naturals, Sequences, SequencesExt

CONSTANT MaxRow  \* maxBlockLines: a row never grows past it

ASSUME MaxRowAssumption == MaxRow \in Nat \ {0}

LineKinds == {"plain", "more", "start", "done", "blank", "huge"}

(* grouper: the rows it has emitted and the open one, with the blank lines *)
(* seen since.                                                             *)
grouper == [entries |-> <<>>, raw |-> <<>>, rails |-> FALSE, blanks |-> <<>>]

open(g) == g.raw # <<>>

joins(g, line) ==
    /\ line.id = g.raw[1].id
    /\ Len(g.raw) < MaxRow
    /\ IF g.rails THEN line.kind # "start" ELSE line.kind = "more"

(* Blank lines survive only between two lines of the same row.             *)
push(g, line) == [g EXCEPT !.raw = @ \o g.blanks \o <<line>>, !.blanks = <<>>]

flush(g) == IF open(g) THEN [grouper EXCEPT !.entries = Append(g.entries, g.raw)] ELSE g

add(g, line) ==
    CASE line.kind = "blank" ->
           IF open(g) THEN [g EXCEPT !.blanks = Append(@, line)] ELSE g
      [] line.kind # "blank" /\ open(g) /\ joins(g, line) ->
           IF g.rails /\ line.kind = "done" THEN flush(push(g, line)) ELSE push(g, line)
      [] OTHER -> [push(flush(g), line) EXCEPT !.rails = line.kind = "start"]

(* What a stream would be folded into if the row that is open before a     *)
(* line of cuts were flushed there: the reference every pass is held to.   *)
Cut(lines, cuts) ==
    LET step(g, line) == add(IF line.n \in cuts THEN flush(g) ELSE g, line)
    IN  flush(FoldLeft(step, grouper, lines)).entries

(* A row without its blank lines.                                          *)
Inked(row) == SelectSeq(row, LAMBDA line : line.kind # "blank")
AllInked(rows) == [i \in DOMAIN rows |-> Inked(rows[i])]
=============================================================================
