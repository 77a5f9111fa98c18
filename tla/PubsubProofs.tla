----------------------------- MODULE PubsubProofs -----------------------------
(* Theorems about Pubsub, for every set of channels and of subscribers, every   *)
(* queue, limit and history of `replay`: the clients are counted, and a channel *)
(* whose `replay` is never lowered is the feed of Feed.                        *)
EXTENDS Pubsub, FiniteSetTheorems, TLAPS

-----------------------------------------------------------------------------
(* The inductive invariant.                                                    *)

Joined == [pc : {"open", "ended"}, on : Channels, queue : Seq(Nat), quit : BOOLEAN,
           last : Int, backlog : Seq(Nat)]

Types ==
    /\ pubRings \in [Channels -> Seq(Nat)]
    /\ pubSubs \in [Channels -> SUBSET Subscribers]
    /\ pubConns \in [Subscribers -> Joined \cup {Gone}]
    /\ pubReplay \in 1..Len(Replays)
    /\ pubCount \in [Channels -> Nat]

(* A registered subscriber has a connection, of that channel.                  *)
Registered ==
    \A c \in Channels : \A s \in pubSubs[c] : pubConns[s] # Gone /\ pubConns[s].on = c

AllSubs == UNION {pubSubs[c] : c \in Channels}

Counted ==
    /\ IsFiniteSet(AllSubs) /\ pubClients = Cardinality(AllSubs)
    /\ MaxClients > 0 => pubClients <= MaxClients

PubInv == Types /\ Registered /\ Counted

(* A ring as the last messages before number n, and no more than `replay`.     *)
LastOf(ring, n) ==
    /\ Len(ring) <= ReplayNow /\ Len(ring) <= n
    /\ \A i \in 1..Len(ring) : ring[i] = (n - Len(ring)) + i

Rings == \A c \in Channels : LastOf(pubRings[c], pubCount[c])

(* What a connection will still be given is every message after its last one.  *)
InOrder(n) ==
    /\ \A i \in 1..Len(n.backlog) : n.backlog[i] = n.last + i
    /\ \A i \in 1..Len(n.queue) : n.queue[i] = n.last + Len(n.backlog) + i
EndOf(n) == n.last + Len(n.backlog) + Len(n.queue)

(* ... up to the newest as long as its subscriber is registered.               *)
Streams ==
    \A s \in Subscribers : pubConns[s] # Gone =>
        /\ InOrder(pubConns[s])
        /\ EndOf(pubConns[s]) <= pubCount[pubConns[s].on]
        /\ s \in pubSubs[pubConns[s].on] => EndOf(pubConns[s]) = pubCount[pubConns[s].on]

FeedInv == PubInv /\ Rings /\ Streams

(* The operator only raises `replay`.                                          *)
RisingReplays == \A i, j \in 1..Len(Replays) : i <= j => Replays[i] <= Replays[j]

-----------------------------------------------------------------------------
(* Facts about replay, rings and connections.                                  *)

LEMMA ReplayFact == pubReplay \in 1..Len(Replays) => ReplayNow \in Nat
BY PubsubAssumption DEF ReplayNow

LEMMA RingTyped ==
    ASSUME pubReplay \in 1..Len(Replays), NEW ring \in Seq(Nat), NEW msg \in Nat
    PROVE  AddToRing(ring, msg) \in Seq(Nat)
<1>1. ReplayNow \in Nat
  BY ReplayFact
<1>2. CASE ReplayNow = 0 \/ ~(Len(ring) >= ReplayNow)
  BY <1>1, <1>2 DEF AddToRing
<1>3. CASE ReplayNow # 0 /\ Len(ring) >= ReplayNow
  <2>1. SubSeq(ring, 2, ReplayNow) \in Seq(Nat)
    BY <1>1, <1>3
  <2> QED
    BY <1>1, <1>3, <2>1 DEF AddToRing
<1> QED
  BY <1>1, <1>2, <1>3

LEMMA RingMoves ==
    ASSUME pubReplay \in 1..Len(Replays), NEW ring \in Seq(Nat), NEW n \in Nat, LastOf(ring, n)
    PROVE  LastOf(AddToRing(ring, n + 1), n + 1)
<1>1. ReplayNow \in Nat /\ Len(ring) \in Nat
  BY ReplayFact
<1>2. CASE ReplayNow = 0
  BY <1>1, <1>2 DEF AddToRing, LastOf
<1> DEFINE new == AddToRing(ring, n + 1)
<1>3. CASE ReplayNow # 0 /\ ~(Len(ring) >= ReplayNow)
  <2>1. /\ Len(new) = Len(ring) + 1 /\ new[Len(ring) + 1] = n + 1
        /\ \A i \in 1..Len(ring) : new[i] = ring[i]
    BY <1>1, <1>3 DEF AddToRing
  <2> HIDE DEF new
  <2>2. ASSUME NEW i \in 1..Len(new)
        PROVE  new[i] = (n + 1 - Len(new)) + i
    <3>1. CASE i = Len(ring) + 1
      BY <1>1, <2>1, <3>1
    <3>2. CASE i \in 1..Len(ring)
      BY <1>1, <2>1, <3>2 DEF LastOf
    <3> QED
      BY <1>1, <2>1, <3>1, <3>2
  <2>3. Len(new) <= ReplayNow /\ Len(new) <= n + 1
    BY <1>1, <1>3, <2>1 DEF LastOf
  <2> QED
    BY <2>2, <2>3 DEF LastOf, new
<1>4. CASE ReplayNow # 0 /\ Len(ring) >= ReplayNow
  <2> DEFINE tail == SubSeq(ring, 2, ReplayNow)
  <2>1. Len(ring) = ReplayNow
    BY <1>1, <1>4 DEF LastOf
  <2>2. /\ tail \in Seq(Nat) /\ Len(tail) = ReplayNow - 1
        /\ \A i \in 1..(ReplayNow - 1) : tail[i] = ring[i + 1]
    BY <1>1, <1>4, <2>1
  <2>3. new = Append(tail, n + 1)
    BY <1>4 DEF AddToRing
  <2> HIDE DEF tail, new
  <2>4. /\ Len(new) = ReplayNow /\ new[ReplayNow] = n + 1
        /\ \A i \in 1..(ReplayNow - 1) : new[i] = ring[i + 1]
    BY <1>1, <1>4, <2>2, <2>3, SMTT(30)
  <2>5. ASSUME NEW i \in 1..Len(new)
        PROVE  new[i] = (n + 1 - Len(new)) + i
    <3>1. CASE i = ReplayNow
      BY <1>1, <2>4, <3>1
    <3>2. CASE i \in 1..(ReplayNow - 1)
      <4>1. new[i] = ring[i + 1] /\ i + 1 \in 1..Len(ring)
        BY <1>1, <2>1, <2>4, <3>2
      <4> QED
        BY <1>1, <2>1, <2>4, <3>2, <4>1 DEF LastOf
    <3> QED
      BY <1>1, <2>4, <3>1, <3>2
  <2>6. Len(new) <= ReplayNow /\ Len(new) <= n + 1
    BY <1>1, <1>4, <2>1, <2>4 DEF LastOf
  <2> QED
    BY <2>5, <2>6 DEF LastOf, new
<1> QED
  BY <1>2, <1>3, <1>4

LEMMA GoneFact == \A n \in Joined : n # Gone
BY DEF Joined, Gone

(* What the steps do to a connection.                                          *)
Told(n) == [n EXCEPT !.quit = TRUE]
Queued(n, msg) == [n EXCEPT !.queue = Append(n.queue, msg)]
Replayed(n) == [n EXCEPT !.last = Head(n.backlog), !.backlog = Tail(n.backlog)]
Given(n) == [n EXCEPT !.last = Head(n.queue), !.queue = Tail(n.queue)]
Ended(n) == [n EXCEPT !.pc = "ended"]

LEMMA ToldFact ==
    ASSUME NEW n \in Joined
    PROVE  /\ Told(n) \in Joined /\ Told(n).pc = n.pc /\ Told(n).on = n.on /\ Told(n).last = n.last
           /\ Told(n).backlog = n.backlog /\ Told(n).queue = n.queue
BY DEF Told, Joined

LEMMA QueuedFact ==
    ASSUME NEW n \in Joined, NEW msg \in Nat
    PROVE  /\ Queued(n, msg) \in Joined /\ Queued(n, msg).pc = n.pc /\ Queued(n, msg).on = n.on
           /\ Queued(n, msg).last = n.last /\ Queued(n, msg).backlog = n.backlog
           /\ Queued(n, msg).queue = Append(n.queue, msg)
<1>1. n.queue \in Seq(Nat) /\ Append(n.queue, msg) \in Seq(Nat)
  BY DEF Joined
<1> QED
  BY <1>1 DEF Queued, Joined

LEMMA ReplayedFact ==
    ASSUME NEW n \in Joined, n.backlog # <<>>
    PROVE  /\ Replayed(n) \in Joined /\ Replayed(n).pc = n.pc /\ Replayed(n).on = n.on
           /\ Replayed(n).last = Head(n.backlog) /\ Replayed(n).backlog = Tail(n.backlog)
           /\ Replayed(n).queue = n.queue
<1>1. Head(n.backlog) \in Int /\ Tail(n.backlog) \in Seq(Nat)
  BY DEF Joined
<1> QED
  BY <1>1 DEF Replayed, Joined

LEMMA GivenFact ==
    ASSUME NEW n \in Joined, n.queue # <<>>
    PROVE  /\ Given(n) \in Joined /\ Given(n).pc = n.pc /\ Given(n).on = n.on
           /\ Given(n).last = Head(n.queue) /\ Given(n).queue = Tail(n.queue)
           /\ Given(n).backlog = n.backlog
<1>1. Head(n.queue) \in Int /\ Tail(n.queue) \in Seq(Nat)
  BY DEF Joined
<1> QED
  BY <1>1 DEF Given, Joined

LEMMA EndedFact ==
    ASSUME NEW n \in Joined
    PROVE  /\ Ended(n) \in Joined /\ Ended(n).pc = "ended" /\ Ended(n).on = n.on
           /\ Ended(n).last = n.last /\ Ended(n).backlog = n.backlog /\ Ended(n).queue = n.queue
BY DEF Ended, Joined

(* Who is connected is told by pc.                                             *)
LEMMA IsJoined ==
    ASSUME Types, NEW s \in Subscribers
    PROVE  /\ pubConns[s] \in Joined \/ pubConns[s] = Gone
           /\ pubConns[s].pc \in {"open", "ended"} => pubConns[s] \in Joined
           /\ pubConns[s] = Gone => pubConns[s].pc = "gone"
BY DEF Types, Gone

-----------------------------------------------------------------------------
(* The clients stay counted.                                                   *)

LEMMA PubInitInv == PubInit => PubInv
<1> SUFFICES ASSUME PubInit PROVE PubInv
  OBVIOUS
<1>1. Types
  BY PubsubAssumption DEF PubInit, Types
<1>2. AllSubs = {}
  BY DEF PubInit, AllSubs
<1> QED
  BY <1>1, <1>2, FS_EmptySet, PubsubAssumption DEF PubInv, Registered, Counted, PubInit

(* A step of one goroutine that leaves the subscriptions alone.                *)
LEMMA OwnStepInv ==
    ASSUME PubInv, NEW s \in Subscribers, pubConns[s] # Gone, NEW n \in Joined, n.on = pubConns[s].on,
           pubConns' = [pubConns EXCEPT ![s] = n],
           UNCHANGED <<pubRings, pubSubs, pubClients, pubReplay, pubCount, pubCloses>>
    PROVE  PubInv'
<1>1. Types'
  BY DEF PubInv, Types
<1>2. Registered'
  BY GoneFact DEF PubInv, Types, Registered
<1>3. Counted'
  BY DEF PubInv, Counted, AllSubs
<1> QED
  BY <1>1, <1>2, <1>3 DEF PubInv

(* Which connection a step of a writer leaves behind.                          *)
LEMMA WriterFact ==
    ASSUME PubInv, NEW s \in Subscribers, WriteOut(s) \/ WriterEnds(s)
    PROVE  /\ pubConns[s] \in Joined /\ pubConns[s].pc = "open"
           /\ UNCHANGED <<pubRings, pubSubs, pubClients, pubReplay, pubCount, pubCloses>>
           /\ \/ /\ pubConns[s].backlog # <<>>
                 /\ pubConns' = [pubConns EXCEPT ![s] = Replayed(pubConns[s])]
              \/ /\ pubConns[s].backlog = <<>> /\ pubConns[s].queue # <<>>
                 /\ pubConns' = [pubConns EXCEPT ![s] = Given(pubConns[s])]
              \/ pubConns' = [pubConns EXCEPT ![s] = Ended(pubConns[s])]
<1>1. pubConns \in [Subscribers -> Joined \cup {Gone}] /\ pubConns[s].pc = "open"
  BY DEF PubInv, Types, WriteOut, WriterEnds
<1>2. pubConns[s] \in Joined
  BY <1>1, IsJoined DEF PubInv
<1> QED
  BY <1>1, <1>2 DEF WriteOut, WriterEnds, Replayed, Given, Ended

LEMMA WriterInv ==
    ASSUME PubInv, NEW s \in Subscribers, WriteOut(s) \/ WriterEnds(s)
    PROVE  PubInv'
<1> DEFINE m == pubConns[s]
<1>1. m \in Joined /\ m # Gone
  BY WriterFact, GoneFact
<1>2. PICK n \in Joined : n.on = m.on /\ pubConns' = [pubConns EXCEPT ![s] = n]
  <2>1. CASE m.backlog # <<>> /\ pubConns' = [pubConns EXCEPT ![s] = Replayed(m)]
    BY <1>1, <2>1, ReplayedFact
  <2>2. CASE m.queue # <<>> /\ pubConns' = [pubConns EXCEPT ![s] = Given(m)]
    BY <1>1, <2>2, GivenFact
  <2>3. CASE pubConns' = [pubConns EXCEPT ![s] = Ended(m)]
    BY <1>1, <2>3, EndedFact
  <2> QED
    BY <2>1, <2>2, <2>3, WriterFact
<1> QED
  BY <1>1, <1>2, WriterFact, OwnStepInv

LEMMA SubscribeInv ==
    ASSUME PubInv, NEW s \in Subscribers, NEW c \in Channels, Subscribe(s, c)
    PROVE  PubInv'
<1> DEFINE backlog == IF ReplayNow = 0 THEN <<>> ELSE pubRings[c]
           n == [pc |-> "open", on |-> c, queue |-> <<>>, quit |-> FALSE,
                 last |-> pubCount[c] - Len(backlog), backlog |-> backlog]
<1>1. backlog \in Seq(Nat) /\ pubCount[c] \in Nat
  BY DEF PubInv, Types
<1>2. n \in Joined /\ n.on = c
  <2> HIDE DEF backlog
  <2>1. pubCount[c] - Len(backlog) \in Int
    BY <1>1
  <2> QED
    BY <1>1, <2>1 DEF Joined
<1>3. /\ pubConns[s] = Gone /\ (MaxClients = 0 \/ pubClients < MaxClients)
      /\ pubSubs' = [pubSubs EXCEPT ![c] = @ \union {s}] /\ pubClients' = pubClients + 1
      /\ pubConns' = [pubConns EXCEPT ![s] = n]
      /\ UNCHANGED <<pubRings, pubReplay, pubCount, pubCloses>>
  BY DEF Subscribe
<1> HIDE DEF backlog, n
<1>4. Types'
  BY <1>2, <1>3 DEF PubInv, Types
<1>5. Registered'
  BY <1>2, <1>3, GoneFact DEF PubInv, Types, Registered
<1>6. s \notin AllSubs
  BY <1>3 DEF PubInv, Registered, AllSubs
<1>7. AllSubs' = AllSubs \cup {s}
  BY <1>3 DEF PubInv, Types, AllSubs
<1>8. Counted'
  BY <1>3, <1>6, <1>7, FS_AddElement, FS_CardinalityType, PubsubAssumption DEF PubInv, Counted
<1> QED
  BY <1>4, <1>5, <1>8 DEF PubInv

(* What a publish does to a connection.                                        *)
LEMMA PublishFact ==
    ASSUME PubInv, NEW c \in Channels, Publish(c)
    PROVE  \E full \in SUBSET pubSubs[c] :
             /\ pubRings' = [pubRings EXCEPT ![c] = AddToRing(pubRings[c], pubCount[c] + 1)]
             /\ pubSubs' = [pubSubs EXCEPT ![c] = pubSubs[c] \ full]
             /\ pubClients' = pubClients - Cardinality(full)
             /\ pubCount' = [pubCount EXCEPT ![c] = pubCount[c] + 1]
             /\ pubReplay' = pubReplay
             /\ pubConns' \in [Subscribers -> Joined \cup {Gone}]
             /\ \A s \in Subscribers :
                   pubConns'[s] = IF s \in full THEN Told(pubConns[s])
                                  ELSE IF s \in pubSubs[c] THEN Queued(pubConns[s], pubCount[c] + 1)
                                       ELSE pubConns[s]
<1> DEFINE msg == pubCount[c] + 1
           full == {s \in pubSubs[c] : Len(pubConns[s].queue) >= OutBuffer}
<1>1. /\ pubRings' = [pubRings EXCEPT ![c] = AddToRing(pubRings[c], msg)]
      /\ pubSubs' = [pubSubs EXCEPT ![c] = pubSubs[c] \ full]
      /\ pubClients' = pubClients - Cardinality(full)
      /\ pubCount' = [pubCount EXCEPT ![c] = msg]
      /\ pubReplay' = pubReplay
      /\ pubConns' = [s \in Subscribers |->
                          CASE s \in full -> Told(pubConns[s])
                            [] s \in pubSubs[c] \ full -> Queued(pubConns[s], msg)
                            [] OTHER -> pubConns[s]]
  BY DEF Publish, PubInv, Types, Told, Queued
<1>2. msg \in Nat
  BY DEF PubInv, Types
<1>3. full \in SUBSET pubSubs[c]
  OBVIOUS
<1> HIDE DEF msg, full
<1>4. \A s \in Subscribers : pubConns'[s] = IF s \in full THEN Told(pubConns[s])
                                  ELSE IF s \in pubSubs[c] THEN Queued(pubConns[s], msg)
                                       ELSE pubConns[s]
  BY <1>1, <1>3
<1>5. \A s \in Subscribers : pubConns'[s] \in Joined \cup {Gone}
  <2> SUFFICES ASSUME NEW s \in Subscribers PROVE pubConns'[s] \in Joined \cup {Gone}
    OBVIOUS
  <2>1. CASE s \in pubSubs[c]
    <3>1. pubConns[s] \in Joined
      BY <2>1 DEF PubInv, Registered, Types
    <3> QED
      BY <1>2, <1>4, <2>1, <3>1, ToldFact, QueuedFact
  <2>2. CASE s \notin pubSubs[c]
    BY <1>3, <1>4, <2>2 DEF PubInv, Types
  <2> QED
    BY <2>1, <2>2
<1>6. pubConns' \in [Subscribers -> Joined \cup {Gone}]
  BY <1>1, <1>5
<1> QED
  BY <1>1, <1>3, <1>4, <1>6 DEF msg

LEMMA PublishInv ==
    ASSUME PubInv, NEW c \in Channels, Publish(c)
    PROVE  PubInv'
<1>1. PICK full \in SUBSET pubSubs[c] :
         /\ pubRings' = [pubRings EXCEPT ![c] = AddToRing(pubRings[c], pubCount[c] + 1)]
         /\ pubSubs' = [pubSubs EXCEPT ![c] = pubSubs[c] \ full]
         /\ pubClients' = pubClients - Cardinality(full)
         /\ pubCount' = [pubCount EXCEPT ![c] = pubCount[c] + 1]
         /\ pubReplay' = pubReplay
         /\ pubConns' \in [Subscribers -> Joined \cup {Gone}]
         /\ \A s \in Subscribers :
               pubConns'[s] = IF s \in full THEN Told(pubConns[s])
                              ELSE IF s \in pubSubs[c] THEN Queued(pubConns[s], pubCount[c] + 1)
                                   ELSE pubConns[s]
  BY PublishFact
<1>2. pubCount[c] + 1 \in Nat /\ pubRings[c] \in Seq(Nat) /\ pubReplay \in 1..Len(Replays)
  BY DEF PubInv, Types
<1>3. AddToRing(pubRings[c], pubCount[c] + 1) \in Seq(Nat)
  BY <1>2, RingTyped
<1>4. Types'
  BY <1>1, <1>2, <1>3 DEF PubInv, Types
<1>5. \A s \in Subscribers : pubConns[s] \in Joined =>
         pubConns'[s] # Gone /\ pubConns'[s].on = pubConns[s].on
  <2> SUFFICES ASSUME NEW s \in Subscribers, pubConns[s] \in Joined
               PROVE  pubConns'[s] # Gone /\ pubConns'[s].on = pubConns[s].on
    OBVIOUS
  <2>1. CASE s \in full
    <3>1. pubConns'[s] = Told(pubConns[s])
      BY <1>1, <2>1
    <3> QED
      BY <3>1, ToldFact, GoneFact
  <2>2. CASE s \notin full /\ s \in pubSubs[c]
    <3>1. pubConns'[s] = Queued(pubConns[s], pubCount[c] + 1)
      BY <1>1, <2>2
    <3> QED
      BY <3>1, <1>2, QueuedFact, GoneFact
  <2>3. CASE s \notin full /\ s \notin pubSubs[c]
    BY <1>1, <2>3, GoneFact
  <2> QED
    BY <2>1, <2>2, <2>3
<1>6. \A d \in Channels : \A s \in pubSubs'[d] : s \in pubSubs[d] /\ s \in Subscribers /\ pubConns[s] \in Joined
  BY <1>1 DEF PubInv, Types, Registered
<1>7. Registered'
  BY <1>5, <1>6 DEF PubInv, Registered
<1>8. full \subseteq AllSubs /\ AllSubs' = AllSubs \ full
  <2>1. full \subseteq AllSubs
    BY <1>1 DEF AllSubs
  <2>2. ASSUME NEW d \in Channels
        PROVE  pubSubs'[d] = pubSubs[d] \ full
    <3>1. CASE d = c
      BY <1>1, <3>1 DEF PubInv, Types
    <3>2. CASE d # c
      <4>1. pubSubs'[d] = pubSubs[d]
        BY <1>1, <3>2 DEF PubInv, Types
      <4>2. \A s \in pubSubs[d] : s \notin pubSubs[c]
        BY <3>2 DEF PubInv, Registered
      <4> QED
        BY <4>1, <4>2
    <3> QED
      BY <3>1, <3>2
  <2>3. AllSubs' = UNION {pubSubs'[d] : d \in Channels}
    BY DEF AllSubs
  <2> QED
    BY <2>1, <2>2, <2>3 DEF AllSubs
<1>9. Counted'
  <2>1. IsFiniteSet(AllSubs') /\ IsFiniteSet(full)
    BY <1>8, FS_Subset DEF PubInv, Counted
  <2>2. Cardinality(full) \in Nat /\ Cardinality(AllSubs') = Cardinality(AllSubs) - Cardinality(full)
    <3>1. AllSubs \cap full = full /\ IsFiniteSet(AllSubs)
      BY <1>8 DEF PubInv, Counted
    <3>2. Cardinality(AllSubs \ full) = Cardinality(AllSubs) - Cardinality(AllSubs \cap full)
      BY <3>1, FS_Difference
    <3> QED
      BY <1>8, <2>1, <3>1, <3>2, FS_CardinalityType
  <2>3. pubClients \in Nat
    BY FS_CardinalityType DEF PubInv, Counted
  <2> QED
    BY <1>1, <2>1, <2>2, <2>3, PubsubAssumption DEF PubInv, Counted
<1> QED
  BY <1>4, <1>7, <1>9 DEF PubInv

LEMMA UnsubscribeInv ==
    ASSUME PubInv, NEW s \in Subscribers, Unsubscribe(s)
    PROVE  PubInv'
<1> DEFINE c == pubConns[s].on
<1>1. pubConns[s] \in Joined /\ pubConns[s] # Gone
  BY IsJoined, GoneFact DEF PubInv, Unsubscribe
<1>2. c \in Channels
  BY <1>1 DEF Joined
<1>3. /\ pubSubs' = [pubSubs EXCEPT ![c] = pubSubs[c] \ {s}]
      /\ pubClients' = IF s \in pubSubs[c] THEN pubClients - 1 ELSE pubClients
      /\ pubConns' = [pubConns EXCEPT ![s] = Gone]
      /\ UNCHANGED <<pubRings, pubReplay, pubCount, pubCloses>>
  BY <1>2 DEF Unsubscribe, PubInv, Types
<1>4. \A d \in Channels : s \in pubSubs[d] => d = c
  BY DEF PubInv, Registered
<1> HIDE DEF c
<1>5. Types'
  BY <1>3 DEF PubInv, Types
<1>6. \A d \in Channels : pubSubs'[d] = pubSubs[d] \ {s}
  BY <1>2, <1>3, <1>4 DEF PubInv, Types
<1>7. Registered'
  BY <1>3, <1>6 DEF PubInv, Types, Registered
<1>8. AllSubs' = AllSubs \ {s} /\ (s \in AllSubs <=> s \in pubSubs[c])
  <2>1. AllSubs' = UNION {pubSubs'[d] : d \in Channels}
    BY DEF AllSubs
  <2> QED
    BY <1>2, <1>4, <1>6, <2>1 DEF AllSubs
<1>9. Counted'
  BY <1>3, <1>8, FS_RemoveElement, FS_CardinalityType, PubsubAssumption DEF PubInv, Counted
<1> QED
  BY <1>5, <1>7, <1>9 DEF PubInv

LEMMA CloseInv ==
    ASSUME PubInv, CloseHubs
    PROVE  PubInv'
<1>1. /\ pubRings' = [c \in Channels |-> <<>>] /\ pubSubs' = [c \in Channels |-> {}]
      /\ pubClients' = 0 /\ UNCHANGED <<pubReplay, pubCount>>
      /\ pubConns' = [s \in Subscribers |->
              IF \E c \in Channels : s \in pubSubs[c] THEN Told(pubConns[s]) ELSE pubConns[s]]
  BY DEF CloseHubs, Told
<1>2. \A s \in Subscribers : (\E c \in Channels : s \in pubSubs[c]) => pubConns[s] \in Joined
  BY DEF PubInv, Types, Registered
<1>3. \A s \in Subscribers : pubConns'[s] \in Joined \cup {Gone}
  BY <1>1, <1>2, ToldFact DEF PubInv, Types
<1>4. pubConns' \in [Subscribers -> Joined \cup {Gone}]
  BY <1>1, <1>3
<1>5. Types'
  BY <1>1, <1>4 DEF PubInv, Types
<1>6. AllSubs' = {}
  BY <1>1 DEF AllSubs
<1> QED
  BY <1>1, <1>5, <1>6, FS_EmptySet, PubsubAssumption DEF PubInv, Registered, Counted

LEMMA QuietInv ==
    ASSUME PubInv, (\E c \in Channels : PruneChannel(c)) \/ SetReplay \/ UNCHANGED pubVars
    PROVE  PubInv'
<1>1. UNCHANGED <<pubSubs, pubClients, pubConns, pubCount>>
  BY DEF PruneChannel, SetReplay, pubVars
<1>2. pubRings' \in [Channels -> Seq(Nat)]
  <2>1. pubRings \in [Channels -> Seq(Nat)] /\ <<>> \in Seq(Nat)
    BY DEF PubInv, Types
  <2>2. CASE UNCHANGED pubRings
    BY <2>1, <2>2
  <2>3. ASSUME NEW c \in Channels, pubRings' = [pubRings EXCEPT ![c] = <<>>]
        PROVE  pubRings' \in [Channels -> Seq(Nat)]
    BY <2>1, <2>3
  <2> QED
    BY <2>2, <2>3 DEF PruneChannel, SetReplay, pubVars
<1>3. pubReplay' \in 1..Len(Replays)
  <2>1. Len(Replays) \in Nat /\ pubReplay \in 1..Len(Replays)
    BY PubsubAssumption DEF PubInv, Types
  <2> QED
    BY <2>1 DEF PruneChannel, SetReplay, pubVars
<1> QED
  BY <1>1, <1>2, <1>3 DEF PubInv, Types, Registered, Counted, AllSubs

LEMMA PubNextInv == PubInv /\ [PubNext]_pubVars => PubInv'
<1> SUFFICES ASSUME PubInv, [PubNext]_pubVars PROVE PubInv'
  OBVIOUS
<1>1. ASSUME NEW s \in Subscribers, NEW c \in Channels, Subscribe(s, c) PROVE PubInv'
  BY <1>1, SubscribeInv
<1>2. ASSUME NEW s \in Subscribers, WriteOut(s) \/ WriterEnds(s) \/ Unsubscribe(s) PROVE PubInv'
  BY <1>2, WriterInv, UnsubscribeInv
<1>3. ASSUME NEW c \in Channels, Publish(c) \/ PruneChannel(c) PROVE PubInv'
  BY <1>3, PublishInv, QuietInv
<1>4. CASE CloseHubs \/ SetReplay \/ UNCHANGED pubVars
  BY <1>4, CloseInv, QuietInv
<1> QED
  BY <1>1, <1>2, <1>3, <1>4 DEF PubNext

(* The counter max_clients is compared with is the number of registered         *)
(* subscribers, and the limit holds (subscribe, publish, unsubscribe, Close).  *)
THEOREM ClientsAreCounted == PubSpec => []ClientsCounted
<1>1. PubInv => ClientsCounted
  BY DEF PubInv, Counted, AllSubs, ClientsCounted
<1> QED
  BY <1>1, PubInitInv, PubNextInv, PTL DEF PubSpec

-----------------------------------------------------------------------------
(* A channel whose `replay` only rises is the feed.                            *)

LEMMA QueuedInOrder ==
    ASSUME NEW n \in Joined, NEW msg \in Nat, InOrder(n), EndOf(n) + 1 = msg
    PROVE  InOrder(Queued(n, msg)) /\ EndOf(Queued(n, msg)) = msg
<1> DEFINE q == Queued(n, msg)
<1>1. /\ n.queue \in Seq(Nat) /\ n.backlog \in Seq(Nat) /\ n.last \in Int
      /\ Len(n.queue) \in Nat /\ Len(n.backlog) \in Nat
  BY DEF Joined
<1>2. q.last = n.last /\ q.backlog = n.backlog /\ q.queue = Append(n.queue, msg)
  BY QueuedFact
<1>3. /\ Len(q.queue) = Len(n.queue) + 1 /\ q.queue[Len(n.queue) + 1] = msg
      /\ \A i \in 1..Len(n.queue) : q.queue[i] = n.queue[i]
  BY <1>1, <1>2
<1> HIDE DEF q
<1>7. /\ EndOf(n) = n.last + Len(n.backlog) + Len(n.queue)
      /\ EndOf(q) = n.last + Len(n.backlog) + Len(q.queue)
  BY <1>2 DEF EndOf
<1>8. \A e, a, b, d : a \in Int /\ b \in Nat /\ d \in Nat /\ e = a + b + d /\ e + 1 = msg =>
         msg = a + b + (d + 1)
  OBVIOUS
<1>9. msg = n.last + Len(n.backlog) + (Len(n.queue) + 1)
  BY <1>1, <1>7, <1>8, SMTT(30)
<1>4. ASSUME NEW i \in 1..Len(q.queue)
      PROVE  q.queue[i] = n.last + Len(n.backlog) + i
  <2>1. CASE i = Len(n.queue) + 1
    <3>1. q.queue[i] = msg
      BY <1>3, <2>1
    <3> QED
      BY <1>9, <2>1, <3>1
  <2>2. CASE i \in 1..Len(n.queue)
    BY <1>3, <2>2 DEF InOrder
  <2> QED
    BY <1>1, <1>3, <2>1, <2>2
<1>5. InOrder(q)
  BY <1>2, <1>4 DEF InOrder
<1>6. EndOf(q) = msg
  BY <1>3, <1>7, <1>9
<1> QED
  BY <1>5, <1>6 DEF q

(* Taking one from the backlog moves the end by nothing.                   *)
LEMMA Shifted ==
    ASSUME NEW a \in Int, NEW b \in Nat, NEW c \in Nat, b >= 1
    PROVE  (a + 1) + (b - 1) + c = a + b + c /\ a < a + b + c
OBVIOUS

LEMMA ReplayedInOrder ==
    ASSUME NEW n \in Joined, n.backlog # <<>>, InOrder(n)
    PROVE  /\ InOrder(Replayed(n)) /\ EndOf(Replayed(n)) = EndOf(n)
           /\ Replayed(n).last = n.last + 1 /\ n.last < EndOf(n)
<1> DEFINE q == Replayed(n)
<1>1. /\ n.queue \in Seq(Nat) /\ n.backlog \in Seq(Nat) /\ n.last \in Int
      /\ Len(n.queue) \in Nat /\ Len(n.backlog) \in Nat
  BY DEF Joined
<1>2. q.last = Head(n.backlog) /\ q.backlog = Tail(n.backlog) /\ q.queue = n.queue
  BY ReplayedFact
<1>3. /\ Len(n.backlog) >= 1 /\ Len(q.backlog) = Len(n.backlog) - 1 /\ q.last = n.backlog[1]
      /\ \A i \in 1..(Len(n.backlog) - 1) : q.backlog[i] = n.backlog[i + 1]
  BY <1>1, <1>2
<1> HIDE DEF q
<1>4. q.last = n.last + 1
  BY <1>1, <1>3 DEF InOrder
<1>5. ASSUME NEW i \in 1..Len(q.backlog)
      PROVE  q.backlog[i] = q.last + i
  <2>1. q.backlog[i] = n.backlog[i + 1] /\ i + 1 \in 1..Len(n.backlog) /\ i \in Nat
    BY <1>1, <1>3
  <2>2. n.backlog[i + 1] = n.last + (i + 1)
    BY <2>1 DEF InOrder
  <2> QED
    BY <1>1, <1>4, <2>1, <2>2, SMTT(30)
<1>6. ASSUME NEW i \in 1..Len(q.queue)
      PROVE  q.queue[i] = q.last + Len(q.backlog) + i
  <2>1. q.queue[i] = n.last + Len(n.backlog) + i
    BY <1>2 DEF InOrder
  <2> QED
    BY <1>1, <1>3, <1>4, <2>1
<1>7. InOrder(q)
  BY <1>5, <1>6 DEF InOrder
<1>8. EndOf(q) = EndOf(n) /\ n.last < EndOf(n)
  <2>1. /\ EndOf(n) = n.last + Len(n.backlog) + Len(n.queue)
        /\ EndOf(q) = q.last + Len(q.backlog) + Len(n.queue)
    BY <1>2 DEF EndOf
  <2>2. EndOf(q) = (n.last + 1) + (Len(n.backlog) - 1) + Len(n.queue)
    BY <1>3, <1>4, <2>1
  <2> QED
    BY <1>1, <1>3, <2>1, <2>2, Shifted
<1> QED
  BY <1>4, <1>7, <1>8 DEF q

LEMMA GivenInOrder ==
    ASSUME NEW n \in Joined, n.backlog = <<>>, n.queue # <<>>, InOrder(n)
    PROVE  /\ InOrder(Given(n)) /\ EndOf(Given(n)) = EndOf(n)
           /\ Given(n).last = n.last + 1 /\ n.last < EndOf(n)
<1> DEFINE q == Given(n)
<1>1. n.queue \in Seq(Nat) /\ Len(n.backlog) = 0 /\ n.last \in Int /\ Len(n.queue) \in Nat
  BY DEF Joined
<1>2. q.last = Head(n.queue) /\ q.queue = Tail(n.queue) /\ q.backlog = n.backlog
  BY GivenFact
<1>3. /\ Len(n.queue) >= 1 /\ Len(q.queue) = Len(n.queue) - 1 /\ q.last = n.queue[1]
      /\ \A i \in 1..(Len(n.queue) - 1) : q.queue[i] = n.queue[i + 1]
  BY <1>1, <1>2
<1> HIDE DEF q
<1>4. q.last = n.last + 1
  BY <1>1, <1>3 DEF InOrder
<1>5. ASSUME NEW i \in 1..Len(q.queue)
      PROVE  q.queue[i] = q.last + Len(q.backlog) + i
  <2>1. q.queue[i] = n.queue[i + 1] /\ i + 1 \in 1..Len(n.queue) /\ i \in Nat
    BY <1>1, <1>3
  <2>2. n.queue[i + 1] = n.last + Len(n.backlog) + (i + 1)
    BY <2>1 DEF InOrder
  <2> QED
    BY <1>1, <1>2, <1>4, <2>1, <2>2
<1>7. InOrder(q)
  BY <1>1, <1>2, <1>5 DEF InOrder
<1>8. EndOf(q) = EndOf(n) /\ n.last < EndOf(n)
  <2>1. /\ EndOf(n) = n.last + Len(n.backlog) + Len(n.queue)
        /\ EndOf(q) = q.last + Len(n.backlog) + Len(q.queue)
    BY <1>2 DEF EndOf
  <2> QED
    BY <1>1, <1>3, <1>4, <2>1
<1> QED
  BY <1>4, <1>7, <1>8 DEF q

LEMMA ToldInOrder ==
    ASSUME NEW n \in Joined, InOrder(n)
    PROVE  /\ InOrder(Told(n)) /\ EndOf(Told(n)) = EndOf(n)
           /\ InOrder(Ended(n)) /\ EndOf(Ended(n)) = EndOf(n)
BY ToldFact, EndedFact DEF InOrder, EndOf

(* A step of one writer.                                                       *)
LEMMA OwnStepStreams ==
    ASSUME FeedInv, NEW s \in Subscribers, pubConns[s] \in Joined,
           NEW n \in Joined, n.on = pubConns[s].on, InOrder(n), EndOf(n) = EndOf(pubConns[s]),
           pubConns' = [pubConns EXCEPT ![s] = n],
           UNCHANGED <<pubRings, pubSubs, pubReplay, pubCount>>
    PROVE  Rings' /\ Streams'
<1>1. Rings'
  BY DEF FeedInv, Rings, LastOf, ReplayNow
<1>2. pubConns'[s] = n /\ \A t \in Subscribers \ {s} : pubConns'[t] = pubConns[t]
  BY DEF FeedInv, PubInv, Types
<1>3. pubConns[s] # Gone
  BY GoneFact
<1>4. Streams'
  BY <1>2, <1>3 DEF FeedInv, Streams, InOrder, EndOf
<1> QED
  BY <1>1, <1>4

LEMMA WriterStreams ==
    ASSUME FeedInv, NEW s \in Subscribers, WriteOut(s) \/ WriterEnds(s)
    PROVE  Rings' /\ Streams'
<1> DEFINE m == pubConns[s]
<1>1. m \in Joined /\ InOrder(m) /\ UNCHANGED <<pubRings, pubSubs, pubReplay, pubCount>>
  BY WriterFact, GoneFact DEF FeedInv, Streams
<1>2. PICK n \in Joined : /\ n.on = m.on /\ InOrder(n) /\ EndOf(n) = EndOf(m)
                          /\ pubConns' = [pubConns EXCEPT ![s] = n]
  <2>1. CASE m.backlog # <<>> /\ pubConns' = [pubConns EXCEPT ![s] = Replayed(m)]
    BY <1>1, <2>1, ReplayedFact, ReplayedInOrder
  <2>2. CASE m.backlog = <<>> /\ m.queue # <<>> /\ pubConns' = [pubConns EXCEPT ![s] = Given(m)]
    BY <1>1, <2>2, GivenFact, GivenInOrder
  <2>3. CASE pubConns' = [pubConns EXCEPT ![s] = Ended(m)]
    BY <1>1, <2>3, EndedFact, ToldInOrder
  <2> QED
    BY <2>1, <2>2, <2>3, WriterFact DEF FeedInv
<1> QED
  BY <1>1, <1>2, OwnStepStreams

(* A subscriber that joins is handed the ring as it is.                        *)
LEMMA JoinFact ==
    ASSUME FeedInv, NEW s \in Subscribers, NEW c \in Channels, Subscribe(s, c)
    PROVE  \E n \in Joined :
              /\ n.pc = "open" /\ n.on = c /\ InOrder(n) /\ EndOf(n) = pubCount[c]
              /\ Len(n.backlog) <= ReplayNow /\ Len(n.backlog) <= pubCount[c]
              /\ n.last = pubCount[c] - Len(n.backlog)
              /\ pubConns[s] = Gone /\ pubConns' = [pubConns EXCEPT ![s] = n]
              /\ pubSubs' = [pubSubs EXCEPT ![c] = pubSubs[c] \cup {s}]
              /\ UNCHANGED <<pubRings, pubReplay, pubCount>>
<1> DEFINE backlog == IF ReplayNow = 0 THEN <<>> ELSE pubRings[c]
           n == [pc |-> "open", on |-> c, queue |-> <<>>, quit |-> FALSE,
                 last |-> pubCount[c] - Len(backlog), backlog |-> backlog]
<1>1. /\ pubCount[c] \in Nat /\ backlog \in Seq(Nat) /\ ReplayNow \in Nat
      /\ pubRings[c] \in Seq(Nat) /\ LastOf(pubRings[c], pubCount[c])
  BY ReplayFact DEF FeedInv, PubInv, Types, Rings
<1>2. LastOf(backlog, pubCount[c])
  BY <1>1 DEF LastOf
<1>3. /\ pubConns[s] = Gone /\ pubConns' = [pubConns EXCEPT ![s] = n]
      /\ pubSubs' = [pubSubs EXCEPT ![c] = pubSubs[c] \cup {s}]
      /\ UNCHANGED <<pubRings, pubReplay, pubCount>>
  BY DEF Subscribe, FeedInv, PubInv, Types
<1> HIDE DEF backlog
<1>4. Len(backlog) \in Nat /\ pubCount[c] - Len(backlog) \in Int
  BY <1>1
<1>5. /\ n \in Joined /\ n.pc = "open" /\ n.on = c /\ n.queue = <<>>
      /\ n.last = pubCount[c] - Len(backlog) /\ n.backlog = backlog
  BY <1>1, <1>4 DEF Joined
<1> HIDE DEF n
<1>6. InOrder(n) /\ EndOf(n) = pubCount[c]
  <2>1. Len(n.queue) = 0
    BY <1>5
  <2>2. \A i \in 1..Len(n.backlog) : n.backlog[i] = n.last + i
    BY <1>2, <1>5 DEF LastOf
  <2>3. InOrder(n)
    BY <2>1, <2>2 DEF InOrder
  <2>4. EndOf(n) = (pubCount[c] - Len(backlog)) + Len(backlog) + 0
    BY <1>5, <2>1 DEF EndOf
  <2> QED
    BY <1>1, <1>4, <2>3, <2>4
<1> QED
  BY <1>2, <1>3, <1>5, <1>6 DEF LastOf

LEMMA SubscribeStreams ==
    ASSUME FeedInv, NEW s \in Subscribers, NEW c \in Channels, Subscribe(s, c)
    PROVE  Rings' /\ Streams'
<1>1. PICK n \in Joined :
         /\ n.on = c /\ InOrder(n) /\ EndOf(n) = pubCount[c]
         /\ pubConns' = [pubConns EXCEPT ![s] = n]
         /\ pubSubs' = [pubSubs EXCEPT ![c] = pubSubs[c] \cup {s}]
         /\ UNCHANGED <<pubRings, pubReplay, pubCount>>
  BY JoinFact
<1>2. Rings'
  BY <1>1 DEF FeedInv, Rings, LastOf, ReplayNow
<1>3. /\ pubConns'[s] = n /\ \A t \in Subscribers \ {s} : pubConns'[t] = pubConns[t]
      /\ \A d \in Channels : pubSubs'[d] \subseteq pubSubs[d] \cup {s}
      /\ pubCount[c] \in Nat
  BY <1>1 DEF FeedInv, PubInv, Types
<1>4. \A t \in Subscribers : pubConns[t] # Gone => pubConns[t].on \in Channels
  BY DEF FeedInv, PubInv, Types, Joined
<1>5. Streams'
  <2> SUFFICES ASSUME NEW t \in Subscribers, pubConns'[t] # Gone
               PROVE  /\ InOrder(pubConns'[t])
                      /\ EndOf(pubConns'[t]) <= pubCount'[pubConns'[t].on]
                      /\ t \in pubSubs'[pubConns'[t].on] => EndOf(pubConns'[t]) = pubCount'[pubConns'[t].on]
    BY DEF Streams, InOrder, EndOf
  <2>1. CASE t = s
    BY <1>1, <1>3, <2>1
  <2>2. CASE t # s
    <3>1. pubConns'[t] = pubConns[t] /\ pubCount' = pubCount
      BY <1>1, <1>3, <2>2
    <3>2. t \in pubSubs'[pubConns[t].on] => t \in pubSubs[pubConns[t].on]
      BY <1>3, <1>4, <2>2, <3>1
    <3> QED
      BY <3>1, <3>2 DEF FeedInv, Streams
  <2> QED
    BY <2>1, <2>2
<1> QED
  BY <1>2, <1>5

LEMMA PublishStreams ==
    ASSUME FeedInv, NEW c \in Channels, Publish(c)
    PROVE  Rings' /\ Streams'
<1>1. PICK full \in SUBSET pubSubs[c] :
         /\ pubRings' = [pubRings EXCEPT ![c] = AddToRing(pubRings[c], pubCount[c] + 1)]
         /\ pubSubs' = [pubSubs EXCEPT ![c] = pubSubs[c] \ full]
         /\ pubCount' = [pubCount EXCEPT ![c] = pubCount[c] + 1]
         /\ pubReplay' = pubReplay
         /\ \A s \in Subscribers :
               pubConns'[s] = IF s \in full THEN Told(pubConns[s])
                              ELSE IF s \in pubSubs[c] THEN Queued(pubConns[s], pubCount[c] + 1)
                                   ELSE pubConns[s]
  BY PublishFact DEF FeedInv
<1>2. /\ pubCount[c] \in Nat /\ pubCount[c] + 1 \in Nat /\ pubRings[c] \in Seq(Nat)
      /\ pubReplay \in 1..Len(Replays) /\ LastOf(pubRings[c], pubCount[c])
      /\ pubCount'[c] = pubCount[c] + 1 /\ pubSubs'[c] = pubSubs[c] \ full
      /\ \A d \in Channels \ {c} : pubCount'[d] = pubCount[d] /\ pubSubs'[d] = pubSubs[d]
  BY <1>1 DEF FeedInv, PubInv, Types, Rings
<1>3. Rings'
  <2>1. LastOf(AddToRing(pubRings[c], pubCount[c] + 1), pubCount[c] + 1)
    BY <1>2, RingMoves
  <2>2. pubRings \in [Channels -> Seq(Nat)]
    BY DEF FeedInv, PubInv, Types
  <2> SUFFICES ASSUME NEW d \in Channels PROVE LastOf(pubRings[d], pubCount[d])'
    BY DEF Rings
  <2>3. CASE d = c
    BY <1>1, <1>2, <2>1, <2>2, <2>3 DEF LastOf, ReplayNow
  <2>4. CASE d # c
    BY <1>1, <1>2, <2>2, <2>4 DEF FeedInv, Rings, LastOf, ReplayNow
  <2> QED
    BY <2>3, <2>4
<1>4. Streams'
  <2> SUFFICES ASSUME NEW t \in Subscribers, pubConns'[t] # Gone
               PROVE  /\ InOrder(pubConns'[t])
                      /\ EndOf(pubConns'[t]) <= pubCount'[pubConns'[t].on]
                      /\ t \in pubSubs'[pubConns'[t].on] => EndOf(pubConns'[t]) = pubCount'[pubConns'[t].on]
    BY DEF Streams, InOrder, EndOf
  <2>1. ASSUME t \in pubSubs[c]
        PROVE  /\ pubConns[t] \in Joined /\ pubConns[t].on = c
               /\ InOrder(pubConns[t]) /\ EndOf(pubConns[t]) = pubCount[c]
    BY <2>1 DEF FeedInv, PubInv, Types, Registered, Streams
  <2>2. CASE t \in full
    <3>1. pubConns'[t] = Told(pubConns[t])
      BY <1>1, <2>2
    <3> QED
      BY <1>2, <2>1, <2>2, <3>1, ToldFact, ToldInOrder
  <2>3. CASE t \notin full /\ t \in pubSubs[c]
    <3>1. pubConns'[t] = Queued(pubConns[t], pubCount[c] + 1)
      BY <1>1, <2>3
    <3>2. InOrder(pubConns'[t]) /\ EndOf(pubConns'[t]) = pubCount[c] + 1 /\ pubConns'[t].on = c
      <4>1. /\ pubConns[t] \in Joined /\ InOrder(pubConns[t]) /\ pubConns[t].on = c
            /\ EndOf(pubConns[t]) + 1 = pubCount[c] + 1
        BY <2>1, <2>3
      <4>2. \A m \in Joined : InOrder(m) /\ EndOf(m) + 1 = pubCount[c] + 1 =>
               /\ InOrder(Queued(m, pubCount[c] + 1)) /\ Queued(m, pubCount[c] + 1).on = m.on
               /\ EndOf(Queued(m, pubCount[c] + 1)) = pubCount[c] + 1
        BY <1>2, QueuedFact, QueuedInOrder
      <4> QED
        BY <3>1, <4>1, <4>2
    <3> QED
      BY <1>2, <3>2
  <2>4. CASE t \notin full /\ t \notin pubSubs[c]
    <3>1. pubConns'[t] = pubConns[t]
      BY <1>1, <2>4
    <3>2. pubConns[t] \in Joined /\ pubConns[t].on \in Channels
      BY <3>1 DEF FeedInv, PubInv, Types, Joined
    <3>3. /\ InOrder(pubConns[t]) /\ EndOf(pubConns[t]) <= pubCount[pubConns[t].on]
          /\ t \in pubSubs[pubConns[t].on] => EndOf(pubConns[t]) = pubCount[pubConns[t].on]
      BY <3>1 DEF FeedInv, Streams
    <3>4. CASE pubConns[t].on # c
      BY <1>2, <3>1, <3>2, <3>3, <3>4
    <3>5. CASE pubConns[t].on = c
      <4>1. EndOf(pubConns[t]) \in Int
        BY <3>2 DEF Joined, EndOf
      <4> QED
        BY <1>2, <2>4, <3>1, <3>3, <3>5, <4>1
    <3> QED
      BY <3>4, <3>5
  <2> QED
    BY <2>2, <2>3, <2>4
<1> QED
  BY <1>3, <1>4

LEMMA UnsubscribeStreams ==
    ASSUME FeedInv, NEW s \in Subscribers, Unsubscribe(s)
    PROVE  Rings' /\ Streams'
<1> DEFINE c == pubConns[s].on
<1>1. c \in Channels
  BY IsJoined DEF FeedInv, PubInv, Unsubscribe, Joined
<1>2. /\ pubSubs' = [pubSubs EXCEPT ![c] = pubSubs[c] \ {s}]
      /\ pubConns' = [pubConns EXCEPT ![s] = Gone]
      /\ UNCHANGED <<pubRings, pubReplay, pubCount>>
  BY <1>1 DEF Unsubscribe, FeedInv, PubInv, Types
<1> HIDE DEF c
<1>3. Rings'
  BY <1>2 DEF FeedInv, Rings, LastOf, ReplayNow
<1>4. /\ pubConns'[s] = Gone /\ \A t \in Subscribers \ {s} : pubConns'[t] = pubConns[t]
      /\ \A d \in Channels : pubSubs'[d] \subseteq pubSubs[d]
  BY <1>2 DEF FeedInv, PubInv, Types
<1>5. \A t \in Subscribers : pubConns[t] # Gone => pubConns[t].on \in Channels
  BY DEF FeedInv, PubInv, Types, Joined
<1>6. Streams'
  BY <1>2, <1>4, <1>5 DEF FeedInv, Streams, InOrder, EndOf
<1> QED
  BY <1>3, <1>6

LEMMA CloseStreams ==
    ASSUME FeedInv, CloseHubs
    PROVE  Rings' /\ Streams'
<1>1. /\ pubRings' = [c \in Channels |-> <<>>] /\ pubSubs' = [c \in Channels |-> {}]
      /\ UNCHANGED <<pubReplay, pubCount>>
      /\ pubConns' = [s \in Subscribers |->
              IF \E c \in Channels : s \in pubSubs[c] THEN Told(pubConns[s]) ELSE pubConns[s]]
  BY DEF CloseHubs, Told
<1>2. ReplayNow \in Nat /\ pubCount \in [Channels -> Nat] /\ ReplayNow' = ReplayNow
  BY <1>1, ReplayFact DEF FeedInv, PubInv, Types, ReplayNow
<1>3. Rings'
  <2>1. \A c \in Channels : Len(pubRings'[c]) = 0
    BY <1>1
  <2> QED
    BY <1>1, <1>2, <2>1 DEF Rings, LastOf
<1>4. \A t \in Subscribers :
         \/ pubConns'[t] = pubConns[t]
         \/ pubConns[t] \in Joined /\ pubConns'[t] = Told(pubConns[t])
  BY <1>1 DEF FeedInv, PubInv, Types, Registered
<1>5. Streams'
  <2> SUFFICES ASSUME NEW t \in Subscribers, pubConns'[t] # Gone
               PROVE  /\ InOrder(pubConns'[t])
                      /\ EndOf(pubConns'[t]) <= pubCount[pubConns'[t].on]
                      /\ t \notin pubSubs'[pubConns'[t].on]
    BY <1>1 DEF Streams, InOrder, EndOf
  <2>1. CASE pubConns'[t] = pubConns[t]
    <3>1. pubConns[t].on \in Channels
      BY <2>1 DEF FeedInv, PubInv, Types, Joined
    <3> QED
      BY <1>1, <2>1, <3>1 DEF FeedInv, Streams
  <2>2. CASE pubConns[t] \in Joined /\ pubConns'[t] = Told(pubConns[t])
    <3>1. pubConns[t].on \in Channels /\ pubConns[t] # Gone
      BY <2>2, GoneFact DEF Joined
    <3>2. InOrder(pubConns[t]) /\ EndOf(pubConns[t]) <= pubCount[pubConns[t].on]
      BY <3>1 DEF FeedInv, Streams
    <3> QED
      BY <1>1, <2>2, <3>1, <3>2, ToldFact, ToldInOrder
  <2> QED
    BY <1>4, <2>1, <2>2
<1> QED
  BY <1>3, <1>5

LEMMA QuietStreams ==
    ASSUME FeedInv, RisingReplays,
           (\E c \in Channels : PruneChannel(c)) \/ SetReplay \/ UNCHANGED pubVars
    PROVE  Rings' /\ Streams'
<1>1. UNCHANGED <<pubSubs, pubConns, pubCount>>
  BY DEF PruneChannel, SetReplay, pubVars
<1>2. Streams'
  BY <1>1 DEF FeedInv, Streams, InOrder, EndOf
<1>3. pubReplay \in 1..Len(Replays) /\ ReplayNow \in Nat /\ Len(Replays) \in Nat
  BY PubsubAssumption, ReplayFact DEF FeedInv, PubInv, Types
<1>4. /\ \A c \in Channels : Len(pubRings[c]) \in Nat /\ pubCount[c] \in Nat
      /\ pubRings \in [Channels -> Seq(Nat)]
  BY DEF FeedInv, PubInv, Types
<1>5. CASE SetReplay
  <2>1. pubReplay' = pubReplay + 1 /\ pubReplay' \in 1..Len(Replays) /\ pubRings' = pubRings
    BY <1>3, <1>5 DEF SetReplay
  <2>2. ReplayNow <= ReplayNow' /\ ReplayNow' \in Nat
    BY <1>3, <2>1, PubsubAssumption DEF RisingReplays, ReplayNow
  <2> QED
    BY <1>1, <1>2, <1>3, <1>4, <2>1, <2>2 DEF FeedInv, Rings, LastOf
<1>6. ASSUME NEW c \in Channels, PruneChannel(c)
      PROVE  Rings'
  <2>1. ReplayNow' = ReplayNow /\ Len(<<>>) = 0
    BY <1>6 DEF PruneChannel, ReplayNow
  <2>2. \A d \in Channels : pubRings'[d] = pubRings[d] \/ pubRings'[d] = <<>>
    BY <1>4, <1>6 DEF PruneChannel
  <2> SUFFICES ASSUME NEW d \in Channels PROVE LastOf(pubRings[d], pubCount[d])'
    BY DEF Rings
  <2>3. CASE pubRings'[d] = pubRings[d]
    BY <1>1, <2>1, <2>3 DEF FeedInv, Rings, LastOf
  <2>4. CASE pubRings'[d] = <<>>
    BY <1>1, <1>3, <1>4, <2>1, <2>4 DEF LastOf
  <2> QED
    BY <2>2, <2>3, <2>4
<1>7. CASE UNCHANGED pubVars
  BY <1>2, <1>7 DEF pubVars, FeedInv, Rings, LastOf, ReplayNow
<1> QED
  BY <1>2, <1>5, <1>6, <1>7

LEMMA FeedInitInv == PubInit => FeedInv
<1> SUFFICES ASSUME PubInit PROVE FeedInv
  OBVIOUS
<1>1. PubInv
  BY PubInitInv
<1>2. ReplayNow \in Nat
  BY <1>1, ReplayFact DEF PubInv, Types
<1>3. Rings
  BY <1>2 DEF PubInit, Rings, LastOf
<1>4. Streams
  BY DEF PubInit, Streams
<1> QED
  BY <1>1, <1>3, <1>4 DEF FeedInv

LEMMA FeedNextInv == RisingReplays /\ FeedInv /\ [PubNext]_pubVars => FeedInv'
<1> SUFFICES ASSUME RisingReplays, FeedInv, [PubNext]_pubVars PROVE Rings' /\ Streams'
  BY PubNextInv DEF FeedInv
<1>1. ASSUME NEW s \in Subscribers, NEW c \in Channels, Subscribe(s, c) PROVE Rings' /\ Streams'
  BY <1>1, SubscribeStreams
<1>2. ASSUME NEW s \in Subscribers, WriteOut(s) \/ WriterEnds(s) \/ Unsubscribe(s) PROVE Rings' /\ Streams'
  BY <1>2, WriterStreams, UnsubscribeStreams
<1>3. ASSUME NEW c \in Channels, Publish(c) \/ PruneChannel(c) PROVE Rings' /\ Streams'
  BY <1>3, PublishStreams, QuietStreams
<1>4. CASE CloseHubs \/ SetReplay \/ UNCHANGED pubVars
  BY <1>4, CloseStreams, QuietStreams
<1> QED
  BY <1>1, <1>2, <1>3, <1>4 DEF PubNext

-----------------------------------------------------------------------------
(* Every step is a step of the feed or changes nothing there.                  *)

(* Where a subscriber is in the watched channel, as WatchedFeed has it.        *)
Pos(s) ==
    IF pubConns[s] # Gone /\ pubConns[s].pc = "open" /\ pubConns[s].on = Watched
    THEN [at |-> "joined", last |-> pubConns[s].last] ELSE [at |-> "away"]
Positions == [s \in Subscribers |-> Pos(s)]
FeedStep == [WatchedFeed!FeedNext]_(WatchedFeed!feedVars)

LEMMA MostReplay ==
    ASSUME RisingReplays, pubReplay \in 1..Len(Replays)
    PROVE  Max(ToSet(Replays)) \in Nat /\ ReplayNow <= Max(ToSet(Replays))
<1> DEFINE S == ToSet(Replays)
           top == Replays[Len(Replays)]
<1>1. Len(Replays) \in Nat \ {0} /\ \A i \in 1..Len(Replays) : Replays[i] \in Nat
  BY PubsubAssumption
<1>2. S = {Replays[i] : i \in 1..Len(Replays)}
  BY PubsubAssumption DEF ToSet
<1>3. top \in S /\ \A x \in S : x \in Nat /\ top >= x
  BY <1>1, <1>2 DEF RisingReplays
<1>4. Max(S) \in S /\ \A y \in S : Max(S) >= y
  <2> HIDE DEF S, top
  <2> QED
    BY <1>3 DEF Max
<1>5. ReplayNow \in S
  BY <1>2 DEF ReplayNow
<1> HIDE DEF S, top
<1> QED
  BY <1>3, <1>4, <1>5 DEF S

LEMMA FeedInitStep == PubInit => WatchedFeed!FeedInit
<1> SUFFICES ASSUME PubInit PROVE WatchedFeed!FeedInit
  OBVIOUS
<1> QED
  BY PubsubAssumption DEF PubInit, WatchedFeed!FeedInit, WatchedFeed!Away

LEMMA PositionStep ==
    ASSUME NEW s \in Subscribers, \A t \in Subscribers \ {s} : pubConns'[t] = pubConns[t]
    PROVE  Positions' = [Positions EXCEPT ![s] = Pos(s)'] /\ Positions[s] = Pos(s)
BY DEF Positions, Pos

(* A step that moves no subscriber of the watched channel.                     *)
LEMMA StutterStep ==
    ASSUME \A s \in Subscribers : Pos(s)' = Pos(s), pubCount'[Watched] = pubCount[Watched]
    PROVE  FeedStep
<1>1. Positions' = Positions
  BY DEF Positions
<1> QED
  BY <1>1 DEF FeedStep, WatchedFeed!feedVars, Positions, Pos

LEMMA GiveStep ==
    ASSUME NEW s \in Subscribers, \A t \in Subscribers \ {s} : pubConns'[t] = pubConns[t],
           pubCount' = pubCount, NEW k \in Int, Pos(s) = [at |-> "joined", last |-> k],
           Pos(s)' = [at |-> "joined", last |-> k + 1], k < pubCount[Watched]
    PROVE  FeedStep
<1>1. Positions' = [Positions EXCEPT ![s] = Pos(s)'] /\ Positions[s] = Pos(s)
  BY PositionStep
<1>2. Positions' = [Positions EXCEPT ![s].last = @ + 1]
  <2>1. [Positions[s] EXCEPT !.last = Positions[s].last + 1] = Pos(s)'
    BY <1>1
  <2>2. Positions \in [Subscribers -> {Positions[t] : t \in Subscribers}]
    BY DEF Positions
  <2> QED
    BY <1>1, <2>1, <2>2
<1>3. WatchedFeed!FeedGive(s)
  BY <1>1, <1>2 DEF WatchedFeed!FeedGive, Positions, Pos
<1> QED
  BY <1>3 DEF FeedStep, WatchedFeed!FeedNext

LEMMA LeaveStep ==
    ASSUME NEW s \in Subscribers, \A t \in Subscribers \ {s} : pubConns'[t] = pubConns[t],
           pubCount' = pubCount, Pos(s).at = "joined", Pos(s)' = [at |-> "away"]
    PROVE  FeedStep
<1>1. Positions' = [Positions EXCEPT ![s] = [at |-> "away"]] /\ Positions[s] = Pos(s)
  BY PositionStep
<1>2. WatchedFeed!FeedLeave(s)
  BY <1>1 DEF WatchedFeed!FeedLeave, WatchedFeed!Away, Positions, Pos
<1> QED
  BY <1>2 DEF FeedStep, WatchedFeed!FeedNext

LEMMA JoinStep ==
    ASSUME NEW s \in Subscribers, \A t \in Subscribers \ {s} : pubConns'[t] = pubConns[t],
           pubCount' = pubCount, Pos(s) = [at |-> "away"],
           NEW back \in 0..Max(ToSet(Replays)), back <= pubCount[Watched],
           Pos(s)' = [at |-> "joined", last |-> pubCount[Watched] - back]
    PROVE  FeedStep
<1>1. Positions' = [Positions EXCEPT ![s] = [at |-> "joined", last |-> pubCount[Watched] - back]]
      /\ Positions[s] = Pos(s)
  BY PositionStep
<1>2. WatchedFeed!FeedJoin(s)
  BY <1>1 DEF WatchedFeed!FeedJoin, WatchedFeed!Away, Positions, Pos
<1> QED
  BY <1>2 DEF FeedStep, WatchedFeed!FeedNext

LEMMA PublishStep ==
    ASSUME \A s \in Subscribers : Pos(s)' = Pos(s), pubCount'[Watched] = pubCount[Watched] + 1
    PROVE  FeedStep
<1>1. Positions' = Positions
  BY DEF Positions
<1>2. WatchedFeed!FeedPublish
  BY <1>1 DEF WatchedFeed!FeedPublish, Positions, Pos
<1> QED
  BY <1>2 DEF FeedStep, WatchedFeed!FeedNext

LEMMA StepFollows ==
    ASSUME RisingReplays, FeedInv, [PubNext]_pubVars
    PROVE  FeedStep
<1>1. ASSUME NEW s \in Subscribers, NEW c \in Channels, Subscribe(s, c)
      PROVE  FeedStep
  <2>1. PICK n \in Joined :
           /\ n.pc = "open" /\ n.on = c /\ Len(n.backlog) <= ReplayNow /\ Len(n.backlog) <= pubCount[c]
           /\ n.last = pubCount[c] - Len(n.backlog)
           /\ pubConns[s] = Gone /\ pubConns' = [pubConns EXCEPT ![s] = n] /\ pubCount' = pubCount
    BY <1>1, JoinFact
  <2>2. pubConns'[s] = n /\ \A t \in Subscribers \ {s} : pubConns'[t] = pubConns[t]
    BY <2>1 DEF FeedInv, PubInv, Types
  <2>3. CASE c = Watched
    <3> DEFINE back == Len(n.backlog)
    <3>1. back \in Nat /\ ReplayNow \in Nat /\ ReplayNow <= Max(ToSet(Replays)) /\ Max(ToSet(Replays)) \in Nat
      BY MostReplay, ReplayFact DEF FeedInv, PubInv, Types, Joined
    <3>2. back \in 0..Max(ToSet(Replays))
      BY <2>1, <3>1
    <3>3. Pos(s) = [at |-> "away"] /\ Pos(s)' = [at |-> "joined", last |-> pubCount[Watched] - back]
      BY <2>1, <2>2, <2>3, GoneFact DEF Pos
    <3> QED
      BY <2>1, <2>2, <2>3, <3>2, <3>3, JoinStep
  <2>4. CASE c # Watched
    <3>1. \A t \in Subscribers : Pos(t)' = Pos(t)
      BY <2>1, <2>2, <2>4 DEF Pos
    <3> QED
      BY <2>1, <3>1, StutterStep
  <2> QED
    BY <2>3, <2>4
<1>2. ASSUME NEW s \in Subscribers, WriteOut(s) \/ WriterEnds(s)
      PROVE  FeedStep
  <2> DEFINE m == pubConns[s]
  <2>1. /\ m \in Joined /\ m # Gone /\ m.pc = "open" /\ m.last \in Int /\ m.on \in Channels
        /\ pubCount' = pubCount /\ pubConns \in [Subscribers -> Joined \cup {Gone}]
        /\ InOrder(m) /\ EndOf(m) <= pubCount[m.on]
    BY <1>2, WriterFact, GoneFact DEF FeedInv, PubInv, Types, Streams, Joined
  <2>2. ASSUME NEW n \in Joined, n.on = m.on, n.pc = "open", n.last = m.last + 1, m.last < EndOf(m),
               pubConns' = [pubConns EXCEPT ![s] = n]
        PROVE  FeedStep
    <3>1. pubConns'[s] = n /\ \A t \in Subscribers \ {s} : pubConns'[t] = pubConns[t]
      BY <2>1, <2>2
    <3>2. CASE m.on = Watched
      <4>1. Pos(s) = [at |-> "joined", last |-> m.last] /\ Pos(s)' = [at |-> "joined", last |-> m.last + 1]
        BY <2>1, <2>2, <3>1, <3>2, GoneFact DEF Pos
      <4>2. m.last < pubCount[Watched]
        <5>1. EndOf(m) \in Int /\ pubCount[Watched] \in Int
          BY <2>1, PubsubAssumption DEF FeedInv, PubInv, Types, Joined, EndOf
        <5> QED
          BY <2>1, <2>2, <3>2, <5>1
      <4> QED
        BY <2>1, <3>1, <4>1, <4>2, GiveStep
    <3>3. CASE m.on # Watched
      <4>1. \A t \in Subscribers : Pos(t)' = Pos(t)
        BY <2>2, <3>1, <3>3 DEF Pos
      <4> QED
        BY <2>1, <4>1, StutterStep
    <3> QED
      BY <3>2, <3>3
  <2>3. CASE m.backlog # <<>> /\ pubConns' = [pubConns EXCEPT ![s] = Replayed(m)]
    <3>1. /\ Replayed(m) \in Joined /\ Replayed(m).on = m.on /\ Replayed(m).pc = "open"
          /\ Replayed(m).last = m.last + 1 /\ m.last < EndOf(m)
      BY <2>1, <2>3, ReplayedFact, ReplayedInOrder
    <3> QED
      BY <2>2, <2>3, <3>1
  <2>4. CASE m.backlog = <<>> /\ m.queue # <<>> /\ pubConns' = [pubConns EXCEPT ![s] = Given(m)]
    <3>1. /\ Given(m) \in Joined /\ Given(m).on = m.on /\ Given(m).pc = "open"
          /\ Given(m).last = m.last + 1 /\ m.last < EndOf(m)
      BY <2>1, <2>4, GivenFact, GivenInOrder
    <3> QED
      BY <2>2, <2>4, <3>1
  <2>5. CASE pubConns' = [pubConns EXCEPT ![s] = Ended(m)]
    <3>1. /\ pubConns'[s] = Ended(m) /\ Ended(m).pc = "ended"
          /\ \A t \in Subscribers \ {s} : pubConns'[t] = pubConns[t]
      BY <2>1, <2>5, EndedFact
    <3>2. Pos(s)' = [at |-> "away"]
      BY <3>1 DEF Pos
    <3>3. CASE m.on = Watched
      BY <2>1, <3>1, <3>2, <3>3, LeaveStep DEF Pos
    <3>4. CASE m.on # Watched
      <4>1. \A t \in Subscribers : Pos(t)' = Pos(t)
        BY <3>1, <3>2, <3>4 DEF Pos
      <4> QED
        BY <2>1, <4>1, StutterStep
    <3> QED
      BY <3>3, <3>4
  <2> QED
    BY <1>2, <2>3, <2>4, <2>5, WriterFact DEF FeedInv
<1>3. ASSUME NEW s \in Subscribers, Unsubscribe(s)
      PROVE  FeedStep
  <2>1. /\ pubConns[s].pc = "ended" /\ pubConns' = [pubConns EXCEPT ![s] = Gone] /\ pubCount' = pubCount
        /\ pubConns \in [Subscribers -> Joined \cup {Gone}]
    BY <1>3 DEF Unsubscribe, FeedInv, PubInv, Types
  <2>2. \A t \in Subscribers : Pos(t)' = Pos(t)
    BY <2>1 DEF Pos
  <2> QED
    BY <2>1, <2>2, StutterStep
<1>4. ASSUME NEW c \in Channels, Publish(c)
      PROVE  FeedStep
  <2>1. PICK full \in SUBSET pubSubs[c] :
         /\ pubCount' = [pubCount EXCEPT ![c] = pubCount[c] + 1]
         /\ \A s \in Subscribers :
               pubConns'[s] = IF s \in full THEN Told(pubConns[s])
                              ELSE IF s \in pubSubs[c] THEN Queued(pubConns[s], pubCount[c] + 1)
                                   ELSE pubConns[s]
    BY <1>4, PublishFact DEF FeedInv
  <2>2. pubCount[c] + 1 \in Nat /\ pubCount \in [Channels -> Nat]
    BY DEF FeedInv, PubInv, Types
  <2>3. ASSUME NEW t \in Subscribers
        PROVE  Pos(t)' = Pos(t)
    <3>1. t \in pubSubs[c] => pubConns[t] \in Joined
      BY DEF FeedInv, PubInv, Types, Registered
    <3>2. CASE t \in full
      <4>1. pubConns'[t] = Told(pubConns[t])
        BY <2>1, <3>2
      <4> QED
        BY <3>1, <3>2, <4>1, ToldFact, GoneFact DEF Pos
    <3>3. CASE t \notin full /\ t \in pubSubs[c]
      <4>1. pubConns'[t] = Queued(pubConns[t], pubCount[c] + 1)
        BY <2>1, <3>3
      <4>2. \A m \in Joined :
               /\ Queued(m, pubCount[c] + 1) \in Joined /\ Queued(m, pubCount[c] + 1).pc = m.pc
               /\ Queued(m, pubCount[c] + 1).on = m.on /\ Queued(m, pubCount[c] + 1).last = m.last
        BY <2>2, QueuedFact
      <4> QED
        BY <3>1, <3>3, <4>1, <4>2, GoneFact DEF Pos
    <3>4. CASE t \notin full /\ t \notin pubSubs[c]
      BY <2>1, <3>4 DEF Pos
    <3> QED
      BY <3>2, <3>3, <3>4
  <2>4. CASE c = Watched
    BY <2>1, <2>2, <2>3, <2>4, PublishStep
  <2>5. CASE c # Watched
    BY <2>1, <2>2, <2>3, <2>5, StutterStep
  <2> QED
    BY <2>4, <2>5
<1>5. CASE CloseHubs
  <2>1. pubCount' = pubCount /\ pubConns' = [s \in Subscribers |->
              IF \E c \in Channels : s \in pubSubs[c] THEN Told(pubConns[s]) ELSE pubConns[s]]
    BY <1>5 DEF CloseHubs, Told
  <2>2. ASSUME NEW t \in Subscribers
        PROVE  Pos(t)' = Pos(t)
    <3>1. CASE pubConns'[t] = pubConns[t]
      BY <3>1 DEF Pos
    <3>2. CASE pubConns[t] \in Joined /\ pubConns'[t] = Told(pubConns[t])
      BY <3>2, ToldFact, GoneFact DEF Pos
    <3> QED
      BY <2>1, <3>1, <3>2 DEF FeedInv, PubInv, Types, Registered
  <2> QED
    BY <2>1, <2>2, StutterStep
<1>6. ASSUME (\E c \in Channels : PruneChannel(c)) \/ SetReplay \/ UNCHANGED pubVars
      PROVE  FeedStep
  <2>1. pubConns' = pubConns /\ pubCount' = pubCount
    BY <1>6 DEF PruneChannel, SetReplay, pubVars
  <2> QED
    BY <2>1, StutterStep DEF Pos
<1> QED
  BY <1>1, <1>2, <1>3, <1>4, <1>5, <1>6 DEF PubNext

(* A channel whose `replay` the operator never lowers gives each subscriber, from *)
(* the replayed messages on, every message once and in order until it leaves or  *)
(* is dropped, and the clients are counted (pubsub.go).  A lowered `replay`      *)
(* leaves a ring with a gap, see RingIsLast.                                    *)
THEOREM ChannelIsFeed == ASSUME RisingReplays PROVE PubSpec => FeedKept
<1>1. PubInit => WatchedFeed!FeedInit
  BY FeedInitStep
<1>2. FeedInv /\ [PubNext]_pubVars => [WatchedFeed!FeedNext]_(WatchedFeed!feedVars)
  BY StepFollows DEF FeedStep
<1>3. FeedInv /\ [PubNext]_pubVars => FeedInv'
  BY FeedNextInv
<1>4. PubSpec => FollowsFeed
  BY <1>1, <1>2, <1>3, FeedInitInv, PTL DEF PubSpec, FollowsFeed, WatchedFeed!FeedSpec
<1> QED
  BY <1>4, ClientsAreCounted, PTL DEF FeedKept
=============================================================================
