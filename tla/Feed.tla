--------------------------------- MODULE Feed ---------------------------------
(* What a realtime channel promises its subscribers: one that joins starts at   *)
(* most Replay messages back and then sees every message in order, without a   *)
(* gap and without a repeat, until it leaves or is dropped.                    *)
EXTENDS Naturals

CONSTANTS Readers, Replay
VARIABLES
    published,  \* messages published so far
    position    \* reader -> the last message it was given, Away when not joined
Away == "away"

feedVars == <<published, position>>
FeedInit == published = 0 /\ position = [r \in Readers |-> [at |-> Away]]

FeedPublish == published' = published + 1 /\ UNCHANGED position

FeedJoin(r) ==
    /\ position[r].at = Away
    /\ \E back \in 0..Replay :
        /\ back <= published
        /\ position' = [position EXCEPT ![r] = [at |-> "joined", last |-> published - back]]
    /\ UNCHANGED published

FeedGive(r) ==
    /\ position[r].at = "joined" /\ position[r].last < published
    /\ position' = [position EXCEPT ![r].last = @ + 1]
    /\ UNCHANGED published

FeedLeave(r) ==
    /\ position[r].at = "joined"
    /\ position' = [position EXCEPT ![r] = [at |-> Away]]
    /\ UNCHANGED published

FeedNext == FeedPublish \/ \E r \in Readers : FeedJoin(r) \/ FeedGive(r) \/ FeedLeave(r)
FeedSpec == FeedInit /\ [][FeedNext]_feedVars
=============================================================================
