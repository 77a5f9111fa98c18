------------------------------ MODULE Notices -------------------------------
(***************************************************************************)
(* The operator webhook and the checks that feed it (notify/notify.go,     *)
(* alerts/alerts.go).  Every part of the daemon sends events; a lock, a    *)
(* quiet period per app and event and a bounded queue stand before the one *)
(* worker that posts them, twice at most.  The alert tick reads a window   *)
(* of the request log and the disks, app by app, under one time.           *)
(***************************************************************************)
EXTENDS Integers, Sequences, FiniteSets

CONSTANTS
  NtApps,        \* apps, and "" for the host
  NtTypes,       \* events the supervisor and the console send
  NtEnabled,     \* notify.events
  QueueLimit,    \* queueSize
  MinInterval,   \* the quiet period
  AlertRate, AlertSlow,  \* the alerts block: percent of errors, p95; 0 is off
  MinRequests,   \* AlertMinRequests
  Windows,       \* what the log may say: [count, errors, p95]
  DiskLimit,     \* disk_alert, a percent; 0 is off
  Disks,         \* readings of the disks: sets of [device, used]
  MaxNtClock, MaxNotices, MaxTicks  \* bounds

ASSUME NoticesAssumption == "" \in NtApps /\ MinInterval \in Nat

VARIABLES
  ntQueue,   \* n.queue
  ntLast,    \* n.last: when the last event of an app and a type was queued
  ntClosed,  \* "open", "closing" in Close, "closed" once the worker ended
  ntHand,    \* the event the worker is posting, with the attempts made
  ntStats,   \* [sent, failed, dropped]
  ntTick,    \* the alert tick: [left, app, now], the checks it has still to make
  ntLog,     \* history: events as they were taken in, and those held back
  ntLeft,    \* what the bounds leave
  ntClock

ntVars == <<ntQueue, ntLast, ntClosed, ntHand, ntStats, ntTick, ntLog, ntLeft, ntClock>>

Never == -1   \* no entry in n.last
NoHand == [tries |-> 0, type |-> "none", app |-> "", time |-> 0]
AllTypes == NtTypes \union {"error-rate", "slow", "disk-low"}

NtInit ==
  /\ ntQueue = <<>> /\ ntLast = [k \in NtApps \X AllTypes |-> Never]
  /\ ntClosed = "open" /\ ntHand = NoHand
  /\ ntStats = [sent |-> 0, failed |-> 0, dropped |-> 0]
  /\ ntTick = [left |-> {}, app |-> "", now |-> 0]
  /\ ntLog = [taken |-> <<>>, held |-> {}]
  /\ ntLeft = [sends |-> MaxNotices, ticks |-> MaxTicks]
  /\ ntClock = 0

-----------------------------------------------------------------------------
(* Send. *)

Debounced(e) ==
  LET last == ntLast[<<e.app, e.type>>]
  IN  MinInterval > 0 /\ last # Never /\ e.time - last < MinInterval

\* A dropped event starts the quiet period as well (mutant).
SendMarks(events) ==
  LET e == Head(events)
      full == Len(ntQueue) >= QueueLimit
  IN
  IF events = <<>> \/ ntClosed # "open" \/ e.type \notin NtEnabled
  THEN UNCHANGED <<ntQueue, ntLast, ntStats, ntLog>>
  ELSE IF Debounced(e)
  THEN ntLog' = [ntLog EXCEPT !.held = @ \union {e}] /\ UNCHANGED <<ntQueue, ntLast, ntStats>>
  ELSE /\ ntLast' = [ntLast EXCEPT ![<<e.app, e.type>>] = e.time]
       /\ IF full
          THEN /\ ntStats' = [ntStats EXCEPT !.dropped = @ + 1]
               /\ UNCHANGED <<ntQueue, ntLog>>
          ELSE /\ ntQueue' = Append(ntQueue, e)
               /\ ntLog' = [ntLog EXCEPT !.taken = Append(@, e)]
               /\ UNCHANGED ntStats

\* At most one event: nothing is sent for an empty sequence.
Send(events) ==
  LET e == Head(events) IN
  IF events = <<>> \/ ntClosed # "open" \/ e.type \notin NtEnabled
  THEN UNCHANGED <<ntQueue, ntLast, ntStats, ntLog>>
  ELSE IF Debounced(e)
  THEN ntLog' = [ntLog EXCEPT !.held = @ \union {e}] /\ UNCHANGED <<ntQueue, ntLast, ntStats>>
  ELSE IF Len(ntQueue) >= QueueLimit
  THEN ntStats' = [ntStats EXCEPT !.dropped = @ + 1] /\ UNCHANGED <<ntQueue, ntLast, ntLog>>
  ELSE /\ ntQueue' = Append(ntQueue, e)
       /\ ntLast' = [ntLast EXCEPT ![<<e.app, e.type>>] = e.time]
       /\ ntLog' = [ntLog EXCEPT !.taken = Append(@, e)]
       /\ UNCHANGED ntStats

Notice(type, app, time) == [type |-> type, app |-> app, time |-> time]

\* The time is read before the lock is taken: two senders may come in the other order.
NtSend ==
  /\ ntLeft.sends > 0 /\ ntLeft' = [ntLeft EXCEPT !.sends = @ - 1]
  /\ \E type \in NtTypes, app \in NtApps \ {""}, time \in {ntClock, ntClock - 1} :
       time >= 0 /\ Send(<<Notice(type, app, time)>>)
  /\ UNCHANGED <<ntClosed, ntHand, ntTick, ntClock>>

-----------------------------------------------------------------------------
(* The alert tick: the disks first, then the apps, all under the time of its start. *)

TickStarts ==
  /\ ntTick.left = {} /\ ntTick.app = "" /\ ntLeft.ticks > 0
  /\ ntLeft' = [ntLeft EXCEPT !.ticks = @ - 1]
  /\ ntTick' = [left |-> NtApps, app |-> "", now |-> ntClock]
  /\ UNCHANGED <<ntQueue, ntLast, ntClosed, ntHand, ntStats, ntLog, ntClock>>

TickDisks ==
  /\ "" \in ntTick.left /\ ntTick' = [ntTick EXCEPT !.left = @ \ {""}]
  /\ \E reading \in Disks :
       Send(IF DiskLimit > 0 /\ \E d \in reading : d.used >= DiskLimit
            THEN <<Notice("disk-low", "", ntTick.now)>> ELSE <<>>)
  /\ UNCHANGED <<ntClosed, ntHand, ntLeft, ntClock>>

\* A window with too few requests never pages.
Paged(w) == w.count > 0 /\ w.count >= MinRequests
ErrorRate(w) == Paged(w) /\ AlertRate > 0 /\ w.errors * 100 >= AlertRate * w.count
SlowP95(w) == Paged(w) /\ AlertSlow > 0 /\ w.p95 >= AlertSlow

\* The two events of one window are two calls of Send.
TickApp ==
  /\ "" \notin ntTick.left /\ ntTick.app = ""
  /\ \E a \in ntTick.left, w \in Windows :
       /\ ntTick' = [ntTick EXCEPT !.left = @ \ {a},
                                  !.app = IF SlowP95(w) THEN a ELSE ""]
       /\ Send(IF ErrorRate(w) THEN <<Notice("error-rate", a, ntTick.now)>> ELSE <<>>)
  /\ UNCHANGED <<ntClosed, ntHand, ntLeft, ntClock>>

TickSlow ==
  /\ ntTick.app # ""
  /\ ntTick' = [ntTick EXCEPT !.app = ""]
  /\ Send(<<Notice("slow", ntTick.app, ntTick.now)>>)
  /\ UNCHANGED <<ntClosed, ntHand, ntLeft, ntClock>>

-----------------------------------------------------------------------------
(* run and post: one event at a time, with one retry. *)

NtTake ==
  /\ ntHand = NoHand /\ ntQueue # <<>>
  /\ ntHand' = [tries |-> 1, type |-> Head(ntQueue).type, app |-> Head(ntQueue).app,
                time |-> Head(ntQueue).time]
  /\ ntQueue' = Tail(ntQueue)
  /\ UNCHANGED <<ntLast, ntClosed, ntStats, ntTick, ntLog, ntLeft, ntClock>>

\* The webhook answers 2xx; or a client error, which is final; or fails, which is tried again.
NtPost ==
  /\ ntHand # NoHand
  /\ \E answer \in {"ok", "refused", "broken"} :
       \/ /\ answer = "broken" /\ ntHand.tries < 2
          /\ ntHand' = [ntHand EXCEPT !.tries = @ + 1] /\ UNCHANGED ntStats
       \/ /\ answer # "broken" \/ ntHand.tries >= 2
          /\ ntHand' = NoHand
          /\ ntStats' = IF answer = "ok" THEN [ntStats EXCEPT !.sent = @ + 1]
                        ELSE [ntStats EXCEPT !.failed = @ + 1]
  /\ UNCHANGED <<ntQueue, ntLast, ntClosed, ntTick, ntLog, ntLeft, ntClock>>

\* Close refuses what comes after it, and waits for the worker to empty the queue.
NtClose ==
  /\ ntClosed = "open" /\ ntClosed' = "closing"
  /\ UNCHANGED <<ntQueue, ntLast, ntHand, ntStats, ntTick, ntLog, ntLeft, ntClock>>

NtWorkerEnds ==
  /\ ntClosed = "closing" /\ ntQueue = <<>> /\ ntHand = NoHand
  /\ ntClosed' = "closed"
  /\ UNCHANGED <<ntQueue, ntLast, ntHand, ntStats, ntTick, ntLog, ntLeft, ntClock>>

NtTime ==
  /\ ntClock < MaxNtClock /\ ntClock' = ntClock + 1
  /\ UNCHANGED <<ntQueue, ntLast, ntClosed, ntHand, ntStats, ntTick, ntLog, ntLeft>>

NtNext ==
  NtSend \/ TickStarts \/ TickDisks \/ TickApp \/ TickSlow \/ NtTake \/ NtPost \/ NtClose \/ NtWorkerEnds
  \/ NtTime

NtSpec == NtInit /\ [][NtNext]_ntVars

-----------------------------------------------------------------------------
(* Properties. *)

\* Every event taken in is still waiting, being posted, or was counted once, and none is left
\* when Close returns.
NoneUncounted ==
  /\ Len(ntLog.taken) = Len(ntQueue) + (IF ntHand = NoHand THEN 0 ELSE 1)
                        + ntStats.sent + ntStats.failed
  /\ ntClosed = "closed" => ntQueue = <<>> /\ ntHand = NoHand

\* "Only a queued event starts the quiet period; a dropped one must not suppress the next."
\* Two events of an app and a type are never taken in closer than the quiet period, and an
\* event held back has one taken in before it for which it is quiet, whatever order the times
\* of the senders come in.
QuietEarned ==
  LET taken == ntLog.taken
      Alike(d, e) == d.app = e.app /\ d.type = e.type
  IN
  /\ \A i, k \in DOMAIN taken :
       MinInterval > 0 /\ i < k /\ Alike(taken[i], taken[k]) => taken[k].time - taken[i].time >= MinInterval
  /\ \A e \in ntLog.held : \E i \in DOMAIN taken :
       Alike(taken[i], e) /\ e.time - taken[i].time < MinInterval

NoticesKept == NoneUncounted /\ QuietEarned
=============================================================================
