----------------------------- MODULE Exceptions -----------------------------
(***************************************************************************)
(* Exceptions of one app: a pass folds the lines of an exception file into *)
(* groups and minutes (internal/ingest: exceptionAggregator) and the log   *)
(* store merges them into its tables (internal/logstore/exceptions.go),    *)
(* next to an operator who resolves, reopens and ignores groups and the    *)
(* retention that removes old minutes.                                     *)
(***************************************************************************)
EXTENDS Naturals, Sequences, SequencesExt, FiniteSets

CONSTANTS
    Uids,        \* fingerprints
    Times,       \* times of occurrences, numbers
    PerMinute,   \* how many of them make a minute
    Dumps,       \* dumps, "" for none
    Users,       \* users, "" for none
    MaxValues,   \* maxExceptionValues
    MaxOccurred  \* bound: occurrences

ASSUME ExceptionsAssumption ==
    /\ Times \subseteq Nat /\ PerMinute \in Nat \ {0}
    /\ MaxValues \in Nat \ {0} /\ MaxOccurred \in Nat

VARIABLES
    excLines,    \* the occurrences the app wrote
    excRead,     \* how many of them are committed
    excGroups,   \* the exceptions table
    excMinutes,  \* the exception_logs table
    excPruned    \* minutes older than this are gone

excVars == <<excLines, excRead, excGroups, excMinutes, excPruned>>

MinuteOf(time) == time \div PerMinute

(* AppendUniqueValues: existing values win, at most MaxValues of them.     *)
AppendUnique(existing, values) ==
    LET one(list, v) == IF v = "" \/ Contains(list, v) \/ Len(list) >= MaxValues THEN list ELSE Append(list, v)
    IN  FoldLeft(one, existing, values)

Least(a, b) == IF a < b THEN a ELSE b
Most(a, b) == IF a > b THEN a ELSE b

(* A group before its first occurrence, and a minute of it.                *)
NoGroup == [count |-> 0, dump |-> "", first |-> 0, last |-> 0, minutes |-> <<>>]
NewMinute(record) == [at |-> MinuteOf(record.time), count |-> 0, owner |-> record.line, users |-> <<>>]

(* exceptionAggregator.add, for one group: the first occurrence of a       *)
(* minute owns its metadata, the first dump that is there wins.            *)
AddMinute(minutes, record) ==
    LET at == MinuteOf(record.time)
        all == IF \E m \in ToSet(minutes) : m.at = at THEN minutes ELSE Append(minutes, NewMinute(record))
    IN  [i \in DOMAIN all |->
            IF all[i].at # at THEN all[i]
            ELSE [all[i] EXCEPT !.count = @ + 1, !.users = AppendUnique(@, <<record.user>>)]]

AddOccurrence(group, record) ==
    [count |-> group.count + 1,
     dump |-> IF group.dump = "" THEN record.dump ELSE group.dump,
     first |-> IF group.count = 0 THEN record.time ELSE Least(group.first, record.time),
     last |-> Most(group.last, record.time),
     minutes |-> AddMinute(group.minutes, record)]

Aggregated(lines, uid) == FoldLeft(AddOccurrence, NoGroup, SelectSeq(lines, LAMBDA r : r.uid = uid))

(* Mutant: the span of a group is what its last batch says.                *)
MergeGroupLast(row, group) ==
    [count |-> row.count + group.count,
     dump |-> IF row.dump = "" THEN group.dump ELSE row.dump,
     first |-> group.first, last |-> group.last,
     resolved |-> row.ignored, ignored |-> row.ignored]

(* saveExceptionGroups, ON CONFLICT: a new occurrence reopens a group that *)
(* is not ignored.                                                         *)
MergeGroup(row, group) ==
    [count |-> row.count + group.count,
     dump |-> IF row.dump = "" THEN group.dump ELSE row.dump,
     first |-> Least(row.first, group.first),
     last |-> Most(row.last, group.last),
     resolved |-> row.ignored, ignored |-> row.ignored]

InsertGroup(group) ==
    [count |-> group.count, dump |-> group.dump, first |-> group.first, last |-> group.last,
     resolved |-> FALSE, ignored |-> FALSE]

(* saveExceptionMinute: metadata is written only on insert.                *)
MergeMinutes(rows, uid, group) ==
    LET fresh == {m \in ToSet(group.minutes) : \A r \in rows : r.uid # uid \/ r.at # m.at}
        row(m) == [uid |-> uid, at |-> m.at, count |-> m.count, owner |-> m.owner, users |-> m.users]
        merged(r) == LET m == CHOOSE x \in ToSet(group.minutes) : x.at = r.at IN
                     [r EXCEPT !.count = @ + m.count, !.users = AppendUnique(@, m.users)]
        hit(r) == r.uid = uid /\ \E m \in ToSet(group.minutes) : m.at = r.at
    IN  {row(m) : m \in fresh} \cup {IF hit(r) THEN merged(r) ELSE r : r \in rows}

NoRow == [count |-> 0]

ExcInit ==
    /\ excLines = <<>> /\ excRead = 0
    /\ excGroups = [u \in Uids |-> NoRow] /\ excMinutes = {} /\ excPruned = 0

(* The app writes an occurrence; lines need not come in order of time.     *)
ExcOccurs(uid, time, dump, user) ==
    /\ Len(excLines) < MaxOccurred
    /\ excLines' = Append(excLines, [line |-> Len(excLines) + 1, uid |-> uid, time |-> time, dump |-> dump, user |-> user])
    /\ UNCHANGED <<excRead, excGroups, excMinutes, excPruned>>

(* tailExceptions and AppendExceptions, in one transaction.                *)
ExcIngest ==
    LET batch == SubSeq(excLines, excRead + 1, Len(excLines))
        uids == {r.uid : r \in ToSet(batch)}
    IN
    /\ batch # <<>>
    /\ excRead' = Len(excLines)
    /\ excGroups' = [u \in Uids |->
           IF u \notin uids THEN excGroups[u]
           ELSE IF excGroups[u] = NoRow THEN InsertGroup(Aggregated(batch, u))
           ELSE MergeGroup(excGroups[u], Aggregated(batch, u))]
    /\ LET merge(rows, u) == MergeMinutes(rows, u, Aggregated(batch, u))
       IN  excMinutes' = FoldLeft(merge, excMinutes, SetToSeq(uids))
    /\ UNCHANGED <<excLines, excPruned>>

(* SetExceptionResolved: reopening also clears is_ignored.                 *)
ExcResolve(uid, on) ==
    /\ excGroups[uid] # NoRow
    /\ excGroups' = [excGroups EXCEPT ![uid].resolved = on, ![uid].ignored = @ /\ on]
    /\ UNCHANGED <<excLines, excRead, excMinutes, excPruned>>

(* Mutant: ignoring leaves the resolved flag alone.                        *)
ExcIgnoreOnly(uid, on) ==
    /\ excGroups[uid] # NoRow
    /\ excGroups' = [excGroups EXCEPT ![uid].ignored = on]
    /\ UNCHANGED <<excLines, excRead, excMinutes, excPruned>>

(* SetExceptionIgnored: ignoring also resolves.                            *)
ExcIgnore(uid, on) ==
    /\ excGroups[uid] # NoRow
    /\ excGroups' = [excGroups EXCEPT ![uid].ignored = on, ![uid].resolved = @ \/ on]
    /\ UNCHANGED <<excLines, excRead, excMinutes, excPruned>>

(* Prune removes the minutes older than the retention; the group stays.    *)
ExcPrune(minute) ==
    /\ minute > excPruned /\ \E r \in excMinutes : r.at < minute
    /\ excPruned' = minute
    /\ excMinutes' = {r \in excMinutes : r.at >= minute}
    /\ UNCHANGED <<excLines, excRead, excGroups>>

ExcNext ==
    \/ \E uid \in Uids, time \in Times, dump \in Dumps, user \in Users : ExcOccurs(uid, time, dump, user)
    \/ ExcIngest
    \/ \E uid \in Uids, on \in BOOLEAN : ExcResolve(uid, on) \/ ExcIgnore(uid, on)
    \/ \E time \in Times : ExcPrune(MinuteOf(time))

-----------------------------------------------------------------------------
(* properties *)

Occurred(uid) == {r \in ToSet(SubSeq(excLines, 1, excRead)) : r.uid = uid}
FirstOf(records) == CHOOSE r \in records : \A s \in records : r.line <= s.line

(* However the occurrences were split into passes and minutes, a group is  *)
(* what they add up to: their number, their span, the first dump, and for  *)
(* every minute retention has not touched their number, the metadata of    *)
(* the first and the first few users.  An ignored group stays resolved.    *)
GroupsExact ==
    \A uid \in Uids : Occurred(uid) # {} =>
        LET all == Occurred(uid)
            row == excGroups[uid]
            dumped == {r \in all : r.dump # ""}
        IN
        /\ row.count = Cardinality(all)
        /\ row.ignored => row.resolved
        /\ \A r \in all : row.first <= r.time /\ r.time <= row.last
        /\ {row.first, row.last} \subseteq {r.time : r \in all}
        /\ row.dump = IF dumped = {} THEN "" ELSE FirstOf(dumped).dump
        /\ \A at \in {MinuteOf(r.time) : r \in all} : at >= excPruned =>
             LET here == {r \in all : MinuteOf(r.time) = at}
                 minute == CHOOSE m \in excMinutes : m.uid = uid /\ m.at = at
             IN  /\ minute.count = Cardinality(here)
                 /\ minute.owner = FirstOf(here).line
                 /\ ToSet(minute.users) \subseteq {r.user : r \in here} \ {""}
                 /\ Len(minute.users) = Least(MaxValues, Cardinality({r.user : r \in here} \ {""}))
=============================================================================
