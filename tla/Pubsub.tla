-------------------------------- MODULE Pubsub --------------------------------
(* One hub of the realtime service (pubsub/pubsub.go) and one of its channels   *)
(* beside the rest: subscribers with a bounded queue each and a goroutine that *)
(* writes it out, publishers that never wait for them, the ring of messages    *)
(* replayed to late subscribers, the janitor, and the close of the service.    *)
(* A message is its number on its channel.                                     *)
EXTENDS Naturals, Sequences, FiniteSets, SequencesExt, FiniteSetsExt

CONSTANTS
    Channels,    \* names of the channels of the hub
    Watched,     \* the channel whose feed is looked at
    Subscribers, \* connections, each of one channel at a time
    OutBuffer,   \* messages queued for one subscriber (64 in the code)
    MaxClients,  \* max_clients, 0 for no limit
    Replays,     \* values the config gives `replay`; the first is in force at start
    MaxPublish,  \* bound: messages per channel
    MaxCloses    \* bound: times the service is closed and started again

ASSUME PubsubAssumption ==
    /\ Watched \in Channels /\ OutBuffer \in Nat \ {0} /\ MaxClients \in Nat
    /\ Replays \in Seq(Nat) /\ Replays # <<>>

VARIABLES
    pubRings,     \* channel -> the messages kept for replay; <<>> also for no channel
    pubSubs,      \* channel -> the subscribers registered
    pubClients,   \* the hub's counter of clients
    pubConns,     \* subscriber -> its goroutine: what is left to write, what was written
    pubReplay,    \* the value of Replays in force
    pubCount,     \* channel -> messages published
    pubCloses     \* closes so far

pubVars == <<pubRings, pubSubs, pubClients, pubConns, pubReplay, pubCount, pubCloses>>

Gone == [pc |-> "gone"]
ReplayNow == Replays[pubReplay]

PubInit ==
    /\ pubRings = [c \in Channels |-> <<>>]
    /\ pubSubs = [c \in Channels |-> {}]
    /\ pubClients = 0
    /\ pubConns = [s \in Subscribers |-> Gone]
    /\ pubReplay = 1
    /\ pubCount = [c \in Channels |-> 0]
    /\ pubCloses = 0

\* A subscriber registered without its backlog in the same critical section: it joins
\* now and is given the ring as it was before the last message (mutant).
SubscribeLate(s, c) ==
    /\ pubConns[s] = Gone
    /\ MaxClients = 0 \/ pubClients < MaxClients
    /\ pubSubs' = [pubSubs EXCEPT ![c] = @ \union {s}]
    /\ pubClients' = pubClients + 1
    /\ pubConns' = [pubConns EXCEPT ![s] =
           [pc |-> "open", on |-> c, queue |-> <<>>, quit |-> FALSE,
            last |-> pubCount[c] - Len(pubRings[c]),
            backlog |-> IF pubRings[c] = <<>> THEN <<>> ELSE Front(pubRings[c])]]
    /\ UNCHANGED <<pubRings, pubReplay, pubCount, pubCloses>>

\* subscribe: under the lock the connection is counted, registered and handed the ring.
Subscribe(s, c) ==
    /\ pubConns[s] = Gone
    /\ MaxClients = 0 \/ pubClients < MaxClients
    /\ pubSubs' = [pubSubs EXCEPT ![c] = @ \union {s}]
    /\ pubClients' = pubClients + 1
    /\ LET backlog == IF ReplayNow = 0 THEN <<>> ELSE pubRings[c]
       IN  pubConns' = [pubConns EXCEPT ![s] =
               [pc |-> "open", on |-> c, queue |-> <<>>, quit |-> FALSE,
                last |-> pubCount[c] - Len(backlog), backlog |-> backlog]]
    /\ UNCHANGED <<pubRings, pubReplay, pubCount, pubCloses>>

\* addLocked: the ring takes the message; a full one shifts, and one longer than replay
\* (the config lowered it) keeps its oldest messages but the first, and the new one.
AddToRing(ring, msg) ==
    IF ReplayNow = 0 THEN ring
    ELSE IF Len(ring) >= ReplayNow
         THEN Append(SubSeq(ring, 2, ReplayNow), msg)
         ELSE Append(ring, msg)

\* publish: every registered subscriber with room in its queue gets the message; one
\* without room is dropped, uncounted and told to quit.
Publish(c) ==
    /\ pubCount[c] < MaxPublish
    /\ LET msg == pubCount[c] + 1
           full == {s \in pubSubs[c] : Len(pubConns[s].queue) >= OutBuffer}
       IN  /\ pubRings' = [pubRings EXCEPT ![c] = AddToRing(@, msg)]
           /\ pubConns' = [s \in Subscribers |->
                  CASE s \in full -> [pubConns[s] EXCEPT !.quit = TRUE]
                    [] s \in pubSubs[c] \ full -> [pubConns[s] EXCEPT !.queue = Append(@, msg)]
                    [] OTHER -> pubConns[s]]
           /\ pubSubs' = [pubSubs EXCEPT ![c] = @ \ full]
           /\ pubClients' = pubClients - Cardinality(full)
           /\ pubCount' = [pubCount EXCEPT ![c] = msg]
    /\ UNCHANGED <<pubReplay, pubCloses>>

\* The goroutine writes the backlog, then what is queued, one message at a time.  Told
\* to quit it may still write what is queued: the select takes either.
WriteOut(s) ==
    /\ pubConns[s].pc = "open"
    /\ \/ /\ pubConns[s].backlog # <<>>
          /\ pubConns' = [pubConns EXCEPT ![s].last = Head(pubConns[s].backlog),
                                          ![s].backlog = Tail(@)]
       \/ /\ pubConns[s].backlog = <<>> /\ pubConns[s].queue # <<>>
          /\ pubConns' = [pubConns EXCEPT ![s].last = Head(pubConns[s].queue),
                                          ![s].queue = Tail(@)]
    /\ UNCHANGED <<pubRings, pubSubs, pubClients, pubReplay, pubCount, pubCloses>>

\* The writer ends: the client left, a write failed, or quit was taken.
WriterEnds(s) ==
    /\ pubConns[s].pc = "open"
    /\ pubConns' = [pubConns EXCEPT ![s].pc = "ended"]
    /\ UNCHANGED <<pubRings, pubSubs, pubClients, pubReplay, pubCount, pubCloses>>

\* An unsubscribe that uncounts without looking (mutant).
UnsubscribeBlind(s) ==
    /\ pubConns[s].pc = "ended"
    /\ LET c == pubConns[s].on
       IN  /\ pubSubs' = [pubSubs EXCEPT ![c] = @ \ {s}]
           /\ pubClients' = IF pubClients > 0 THEN pubClients - 1 ELSE 0
    /\ pubConns' = [pubConns EXCEPT ![s] = Gone]
    /\ UNCHANGED <<pubRings, pubReplay, pubCount, pubCloses>>

\* unsubscribe: only a subscriber still registered is uncounted; one dropped by a
\* publisher, or before a close, was already.
Unsubscribe(s) ==
    /\ pubConns[s].pc = "ended"
    /\ LET c == pubConns[s].on
       IN  /\ pubSubs' = [pubSubs EXCEPT ![c] = @ \ {s}]
           /\ pubClients' = IF s \in pubSubs[c] THEN pubClients - 1 ELSE pubClients
    /\ pubConns' = [pubConns EXCEPT ![s] = Gone]
    /\ UNCHANGED <<pubRings, pubReplay, pubCount, pubCloses>>

\* janitor: a channel without subscribers and without messages for an hour is dropped,
\* its ring too.  The hour is any time here.
PruneChannel(c) ==
    /\ pubSubs[c] = {} /\ pubRings[c] # <<>>
    /\ pubRings' = [pubRings EXCEPT ![c] = <<>>]
    /\ UNCHANGED <<pubSubs, pubClients, pubConns, pubReplay, pubCount, pubCloses>>

\* Close: everyone is told to quit, and the hubs are forgotten while their goroutines
\* are still to unsubscribe.
CloseHubs ==
    /\ pubCloses < MaxCloses
    /\ pubCloses' = pubCloses + 1
    /\ pubConns' = [s \in Subscribers |->
           IF \E c \in Channels : s \in pubSubs[c]
           THEN [pubConns[s] EXCEPT !.quit = TRUE] ELSE pubConns[s]]
    /\ pubRings' = [c \in Channels |-> <<>>]
    /\ pubSubs' = [c \in Channels |-> {}]
    /\ pubClients' = 0
    /\ UNCHANGED <<pubReplay, pubCount>>

\* The operator changes `replay`; the next request of the app carries the new config.
SetReplay ==
    /\ pubReplay < Len(Replays)
    /\ pubReplay' = pubReplay + 1
    /\ UNCHANGED <<pubRings, pubSubs, pubClients, pubConns, pubCount, pubCloses>>

PubNext ==
    \/ \E s \in Subscribers :
        \/ \E c \in Channels : Subscribe(s, c)
        \/ WriteOut(s) \/ WriterEnds(s) \/ Unsubscribe(s)
    \/ \E c \in Channels : Publish(c) \/ PruneChannel(c)
    \/ CloseHubs \/ SetReplay
PubSpec == PubInit /\ [][PubNext]_pubVars

-----------------------------------------------------------------------------
(* The counter that max_clients is compared with is the number of registered    *)
(* subscribers, whatever order a drop by a publisher, a client leaving and a    *)
(* close come in (publish, unsubscribe, Close), and the limit holds.           *)
ClientsCounted ==
    /\ pubClients = Cardinality(UNION {pubSubs[c] : c \in Channels})
    /\ MaxClients > 0 => pubClients <= MaxClients

(* The last `replay` messages are replayed to a subscriber that joins late       *)
(* (README.md): the ring ends with the newest message and has no gap.  False   *)
(* once the config has lowered `replay` under a longer ring.                   *)
RingIsLast ==
    \A c \in Channels : \A i \in DOMAIN pubRings[c] :
        pubRings[c][i] = pubCount[c] - Len(pubRings[c]) + i

(* A channel implements the feed: joining, being given the next message and    *)
(* leaving are the only things that happen to a subscriber, so it sees no gap   *)
(* and no repeat from the replayed messages on (subscribe hands out the ring    *)
(* under the lock that publish takes; a slow subscriber is dropped, not skipped). *)
WatchedFeed == INSTANCE Feed WITH
    Readers <- Subscribers, Replay <- Max(ToSet(Replays)), published <- pubCount[Watched],
    position <- [s \in Subscribers |->
        IF pubConns[s] # Gone /\ pubConns[s].pc = "open" /\ pubConns[s].on = Watched
        THEN [at |-> "joined", last |-> pubConns[s].last] ELSE [at |-> "away"]]
FollowsFeed == WatchedFeed!FeedSpec

(* A channel is the feed, and its subscribers are counted (pubsub.go).         *)
FeedKept == FollowsFeed /\ []ClientsCounted
=============================================================================
