----------------------------- MODULE EventFilter -----------------------------
(* The filter language of the event console (events/filter.go): one expression  *)
(* has two meanings, a Go predicate (Match) and the text of a DuckDB condition  *)
(* (Where), an index-only expression has a third, the indexes of a day          *)
(* (reader.go), and a funnel chains several (views.go).  A question is a filter *)
(* and some stored events; the module answers it every way the code can.       *)
EXTENDS Naturals, Sequences, FiniteSets, SequencesExt

CONSTANTS
    FlStores,      \* sets of stored events (see FlRow) a question is asked of
    FlFilters,     \* parsed filters: terms, since, from, to
    FlFunnels,     \* funnels: steps (filters), window
    FlNow          \* the time of the question

\* Null is what Parquet stores for an empty optional column.  Words stand for the parts of a name
\* (an event checkout_done is <<"checkout", "done">>), a tag is <<key, value>> or <<label>>.
Null == [is |-> "null"]
Num(n) == [is |-> "number", n |-> n]
Text(s) == [is |-> "text", s |-> s]
FlNone == [is |-> "unset"]

FlRow == [at : Nat, ns : STRING, event : Seq(STRING), user : {Null} \union [is : {"text"}, s : STRING],
          value : {Null} \union [is : {"number"}, n : Nat], tags : SUBSET Seq(STRING),
          data : {Null, FlNone} \union [is : {"number"}, n : Nat] \union [is : {"text"}, s : STRING]]

\* What the parser makes of the terms modelled, every kind but free text (parseToken): a term asks
\* a column for words, never for nothing, and compares with numbers.
FlParsed(t) ==
    /\ t.kind \in {"event", "prefix", "field", "value", "tag", "tagkey", "data"} /\ t.not \in BOOLEAN
    /\ t.kind = "field" => t.field \in {"ns", "user"} /\ Null \notin t.values
    /\ t.kind \in {"value", "data"} => t.op \in {"=", ">", ">=", "<", "<="} /\ t.number \in Nat
FlFilterOk(f) ==
    /\ f.since \in 0 .. FlNow /\ f.from \in Nat /\ f.to \in Nat
    /\ \A i \in DOMAIN f.terms : FlParsed(f.terms[i])

ASSUME EventFilterAssumption ==
    /\ FlNow \in Nat
    /\ \A store \in FlStores : store \subseteq FlRow
    /\ \A f \in FlFilters : FlFilterOk(f)
    /\ \A funnel \in FlFunnels :
         /\ Len(funnel.steps) \in Nat /\ funnel.window \in Nat
         /\ \A n \in 1 .. Len(funnel.steps) : FlFilterOk(funnel.steps[n])

VARIABLES flStore, flAsked, flAnswer
flVars == <<flStore, flAsked, flAnswer>>

-----------------------------------------------------------------------------
(* The Go predicate *)

Compares(x, op, y) == CASE op = "=" -> x = y [] op = ">" -> x > y [] op = ">=" -> x >= y
                        [] op = "<" -> x < y [] op = "<=" -> x <= y

\* A condition on a column that may hold nothing: nothing is never equal to a value.
FieldOf(row, field) == IF field = "ns" THEN Text(row.ns) ELSE row.user

\* The number a data key holds, if it holds one.
NumberOf(v) == IF v.is = "number" THEN {v.n} ELSE {}

TermMatch(t, row) ==
    CASE t.kind = "event"  -> row.event \in t.values
      [] t.kind = "prefix" -> \E p \in t.values : IsPrefix(p, row.event)
      [] t.kind = "field"  -> FieldOf(row, t.field) \in t.values
      [] t.kind = "value"  -> row.value # Null /\ Compares(row.value.n, t.op, t.number)
      [] t.kind = "tag"    -> row.tags \intersect t.values # {}
      [] t.kind = "tagkey" -> \E tag \in row.tags : Len(tag) = 2 /\ tag[1] = t.field
      [] t.kind = "data"   ->
            IF t.op = "=" THEN row.data \notin {Null, FlNone} /\ row.data \in t.values
            ELSE \E x \in NumberOf(row.data) : Compares(x, t.op, t.number)

\* Range: since is counted back from now and only ever narrows from.
RangeFrom(f) ==
    LET since == IF f.since = 0 THEN 0 ELSE FlNow - f.since
    IN  IF since > f.from THEN since ELSE f.from
InRange(f, row) == row.at >= RangeFrom(f) /\ (f.to = 0 \/ row.at < f.to)

TermMatches(f, row) ==
    InRange(f, row) /\ \A i \in DOMAIN f.terms : TermMatch(f.terms[i], row) # f.terms[i].not

-----------------------------------------------------------------------------
(* The SQL: a condition on a null is null, and a row is taken when the whole is true *)

OnNull(v, condition) == IF v \in {Null, FlNone} THEN "null" ELSE IF condition THEN "true" ELSE "false"

TermSql(t, row) ==
    CASE t.kind = "event"  -> OnNull(Num(0), row.event \in t.values)
      [] t.kind = "prefix" -> OnNull(Num(0), \E p \in t.values : IsPrefix(p, row.event))
      [] t.kind = "field"  -> OnNull(FieldOf(row, t.field), FieldOf(row, t.field) \in t.values)
      [] t.kind = "value"  -> OnNull(row.value, row.value # Null /\ Compares(row.value.n, t.op, t.number))
      [] t.kind = "tag"    -> OnNull(Num(0), row.tags \intersect t.values # {})
      [] t.kind = "tagkey" -> OnNull(Num(0), {tag \in row.tags : Len(tag) = 2 /\ tag[1] = t.field} # {})
      [] t.kind = "data"   ->
            IF t.op = "=" THEN OnNull(row.data, row.data \in t.values)
            ELSE IF NumberOf(row.data) = {} THEN "null"
            ELSE OnNull(row.data, \E x \in NumberOf(row.data) : Compares(x, t.op, t.number))

\* A plain NOT, which leaves a null a null (mutant).
NegatedPlain(v) == IF v = "true" THEN "false" ELSE IF v = "false" THEN "true" ELSE "null"
\* Where: NOT coalesce(condition, false).
Negated(v) == IF v = "true" THEN "false" ELSE "true"

Selected(f, row) ==
    /\ f.since = 0 \/ row.at >= FlNow - f.since
    /\ row.at >= f.from /\ (f.to = 0 \/ row.at < f.to)
    /\ \A i \in DOMAIN f.terms :
           LET v == TermSql(f.terms[i], row) IN (IF f.terms[i].not THEN Negated(v) ELSE v) = "true"

-----------------------------------------------------------------------------
(* The indexes of a day: one count per namespace and event *)

IndexOnly(f) == \A i \in DOMAIN f.terms :
    f.terms[i].kind \in {"event", "prefix"} \/ (f.terms[i].kind = "field" /\ f.terms[i].field = "ns")

\* BuildIndex: the rows of a day, by namespace and event.
IndexRows(store) == {[ns |-> r.ns, event |-> r.event,
                      rows |-> {s \in store : s.ns = r.ns /\ s.event = r.event}] : r \in store}

\* only: the filter cut down to the terms the rows of an index can answer, by their positions.
Only(f, kinds) == {i \in DOMAIN f.terms : f.terms[i].kind \in kinds}
NsAllowed(f, ns) == \A i \in {k \in Only(f, {"field"}) : f.terms[k].field = "ns"} :
    (Text(ns) \in f.terms[i].values) # f.terms[i].not
EventAllowed(f, event) == \A i \in Only(f, {"event", "prefix"}) :
    (IF f.terms[i].kind = "event" THEN event \in f.terms[i].values
     ELSE \E p \in f.terms[i].values : IsPrefix(p, event)) # f.terms[i].not

IndexCount(f, store) ==
    UNION {entry.rows : entry \in {e \in IndexRows(store) : NsAllowed(f, e.ns) /\ EventAllowed(f, e.event)}}

-----------------------------------------------------------------------------
(* A funnel: the common table expressions s1 .. sn of FunnelSQL *)

\* The window measured from the previous step instead of from the first (mutant).
FunnelJoinSliding(p, step, window, store) ==
    {r \in store : r.user = p.actor /\ r.at >= p.t /\ r.at <= p.t + window /\ Selected(step, r)}
FunnelJoin(p, step, window, store) ==
    {r \in store : r.user = p.actor /\ r.at >= p.t /\ r.at <= p.t1 + window /\ Selected(step, r)}

Earliest(rows) == CHOOSE x \in {r.at : r \in rows} : \A r \in rows : x <= r.at

\* The actors that reached step n, with the times of their first and their latest step.
Reached(funnel, extra, store) ==
    LET first == {r \in store : r.user # Null /\ Selected(funnel.steps[1], r) /\ Selected(extra, r)}
        s[n \in 1 .. Len(funnel.steps)] ==
            IF n = 1
            THEN {[actor |-> u, t1 |-> Earliest({r \in first : r.user = u}),
                   t |-> Earliest({r \in first : r.user = u})] : u \in {r.user : r \in first}}
            ELSE {[p EXCEPT !.t = Earliest(FunnelJoin(p, funnel.steps[n], funnel.window, store))] :
                    p \in {q \in s[n - 1] : FunnelJoin(q, funnel.steps[n], funnel.window, store) # {}}}
    IN  s

-----------------------------------------------------------------------------
(* A question *)

FlIdle == [kind |-> "none"]
FlInit == flStore = {} /\ flAsked = FlIdle /\ flAnswer = FlIdle

FlAsk ==
    /\ flAsked = FlIdle
    /\ \E store \in FlStores, f \in FlFilters :
        /\ flStore' = store
        /\ flAsked' = [kind |-> "filter", filter |-> f]
        /\ flAnswer' = [go |-> {r \in store : TermMatches(f, r)}, sql |-> {r \in store : Selected(f, r)},
                        index |-> IF IndexOnly(f) THEN IndexCount(f, store) ELSE {}]

FlAskFunnel ==
    /\ flAsked = FlIdle
    /\ \E store \in FlStores, funnel \in FlFunnels, f \in FlFilters :
        /\ f.terms = <<>>
        /\ flStore' = store
        /\ flAsked' = [kind |-> "funnel", funnel |-> funnel, extra |-> f]
        /\ flAnswer' = [reached |-> Reached(funnel, f, store)]

FlNext == FlAsk \/ FlAskFunnel
FlSpec == FlInit /\ [][FlNext]_flVars

-----------------------------------------------------------------------------
(* A filter means one thing: the rows the console lists, the rows DuckDB        *)
(* selects and - for a filter the indexes can answer, over whole days - the     *)
(* rows the summary counts are the same, whatever columns are empty and         *)
(* whichever terms are negated (Match, Where, IndexOnly, Reader.Summary).  And  *)
(* a funnel counts at each step exactly the actors with a chain of events that  *)
(* begins at their first step 1 and stays within the window of it: picking the  *)
(* earliest event at every step loses nobody (FunnelSQL).                      *)
Chain(funnel, store, u, t1, n) ==
    \E c \in [1 .. n -> {r \in store : r.user = u}] :
        /\ c[1].at = t1
        /\ \A i \in 1 .. n : TermMatches(funnel.steps[i], c[i]) /\ c[i].at <= t1 + funnel.window
        /\ \A i \in 1 .. (n - 1) : c[i].at <= c[i + 1].at

OneMeaning ==
    /\ flAsked.kind = "filter" =>
        /\ flAnswer.go = flAnswer.sql
        /\ LET f == flAsked.filter IN
           IndexOnly(f) => flAnswer.go = {r \in flAnswer.index : InRange(f, r)}
    /\ flAsked.kind = "funnel" =>
        LET funnel == flAsked.funnel
            starts(u) == {r \in flStore : r.user = u /\ TermMatches(funnel.steps[1], r) /\ TermMatches(flAsked.extra, r)}
        IN  \A n \in 1 .. Len(funnel.steps) :
                {p.actor : p \in flAnswer.reached[n]} =
                    {u \in {r.user : r \in flStore} \ {Null} :
                        starts(u) # {} /\ Chain(funnel, flStore, u, Earliest(starts(u)), n)}
=============================================================================
