------------------------------ MODULE LineLog -------------------------------
(***************************************************************************)
(* What log ingest promises of the lines of one log: each of them ends up  *)
(* in a stored row, unless the log was rotated or started over first, and  *)
(* a line that got there is never taken back.                              *)
(***************************************************************************)
CONSTANT Lines

VARIABLE status  \* of each line: "new", "written", "stored" or "rotated"

LineInit == status = [l \in Lines |-> "new"]

Moves == {<<"new", "written">>, <<"written", "stored">>, <<"written", "rotated">>}

(* Lines go their way, several of them in one step: a batch of rows, or a  *)
(* write that first rotates a full log.                                    *)
LineNext ==
    LET before == status
        after == status'
    IN  \A l \in Lines : before[l] = after[l] \/ <<before[l], after[l]>> \in Moves

LineSpec == LineInit /\ [][LineNext]_status /\ \A l \in Lines : status[l] = "written" ~> status[l] # "written"
=============================================================================
