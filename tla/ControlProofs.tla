--------------------------- MODULE ControlProofs ----------------------------
(* Theorems about the control plane - PortRegistry, SignIn, Gateway and       *)
(* Notices - for every set of folders, ports, hosts, browsers, apps and       *)
(* calls, and every setting of their limits.                                  *)
EXTENDS PortRegistry, SignIn, Gateway, Notices, FiniteSetTheorems, NaturalsInduction,
        WellFoundedInduction, TLAPS

-------------------------------------------------------------------------------
(* PortRegistry.  The inductive invariant.                                    *)
(* The inductive invariant.                                                    *)

RegTables == [Keys -> Ports \cup {0}]
RegSessions == [pc : {"none", "clearing", "open"}, claimed : RegTables, handed : RegTables, stale : SUBSET Ports]
RegLedgers == [exists : BOOLEAN, alive : BOOLEAN, ports : SUBSET Ports]

RegTypes ==
    /\ regSessions \in [Folders -> RegSessions]
    /\ regLedgers \in [Folders -> RegLedgers]
    /\ regRecords \in [Folders -> RegTables]
    /\ regUnwritten \subseteq Folders \X Ports

(* A session holds ports only when it is open, and hands out what it holds.    *)
HandsItsOwn ==
    \A f \in Folders :
        /\ regSessions[f].pc # "open" => regSessions[f].claimed = NoPorts
        /\ \A k \in Keys : regSessions[f].handed[k] \in {0, regSessions[f].claimed[k]}

(* What a session holds is in its ledger, where the others look, or its write  *)
(* failed.                                                                     *)
Ledgered ==
    \A f \in Folders : \A p \in PortsOf(regSessions[f].claimed) :
        \/ <<f, p>> \in regUnwritten
        \/ regLedgers[f].exists /\ regLedgers[f].alive /\ p \in regLedgers[f].ports

(* Two sessions hold one port only if the ledger of one could not be written.  *)
HeldOnce ==
    \A f, g \in Folders : f # g =>
        \A p \in PortsOf(regSessions[f].claimed) \cap PortsOf(regSessions[g].claimed) :
            <<f, p>> \in regUnwritten \/ <<g, p>> \in regUnwritten

RegInv == RegTypes /\ HandsItsOwn /\ Ledgered /\ HeldOnce

-----------------------------------------------------------------------------
(* Facts about ports and tables.                                               *)

LEMMA PortsAreNotZero == 0 \notin Ports
BY PortRegistryAssumption DEF Ports

LEMMA PortsIn ==
    ASSUME NEW t \in RegTables
    PROVE  PortsOf(t) \subseteq Ports
BY DEF RegTables, PortsOf

LEMMA NoPortsFact == NoPorts \in RegTables /\ PortsOf(NoPorts) = {}
BY DEF NoPorts, RegTables, PortsOf

LEMMA FreshFact ==
    /\ NoDevSession \in RegSessions /\ NoDevSession.pc = "none" /\ NoDevSession.claimed = NoPorts
    /\ NoDevSession.handed = NoPorts
    /\ NoLedger \in RegLedgers
BY NoPortsFact DEF NoDevSession, RegSessions, NoLedger, RegLedgers

(* One more port in a table.                                                   *)
RegWith(t, k, p) == [t EXCEPT ![k] = p]

LEMMA OneMore ==
    ASSUME NEW t \in RegTables, NEW k \in Keys, NEW p \in Ports
    PROVE  /\ RegWith(t, k, p) \in RegTables /\ RegWith(t, k, p)[k] = p
           /\ \A j \in Keys : j # k => RegWith(t, k, p)[j] = t[j]
           /\ t[k] = 0 => PortsOf(RegWith(t, k, p)) = PortsOf(t) \cup {p}
BY PortsAreNotZero DEF RegTables, PortsOf, RegWith

LEMMA HandedIsHeld ==
    ASSUME RegInv, NEW f \in Folders
    PROVE  PortsOf(regSessions[f].handed) \subseteq PortsOf(regSessions[f].claimed)
BY DEF RegInv, HandsItsOwn, PortsOf

(* Sweeping touches no ledger whose owner lives.                               *)
LEMMA SweptFact ==
    ASSUME RegTypes, NEW f \in Folders
    PROVE  /\ Swept(f) \in [Folders -> RegLedgers]
           /\ Swept(f)[f] = regLedgers[f]
           /\ \A g \in Folders : regLedgers[g].alive => Swept(f)[g] = regLedgers[g]
BY FreshFact DEF RegTypes, Swept

(* A port a claim may pick is held by another session only if that one's       *)
(* ledger could not be written.                                                *)
LEMMA PickedIsFree ==
    ASSUME RegInv, NEW f \in Folders, NEW k, NEW p \in Ports, Pick(f, k, p)
    PROVE  /\ p \notin PortsOf(regSessions[f].claimed)
           /\ \A g \in Folders \ {f} : p \in PortsOf(regSessions[g].claimed) => <<g, p>> \in regUnwritten
<1>1. Usable(f, p)
  BY DEF Pick
<1> QED
  BY <1>1 DEF Usable, HeldByOthers, RegInv, Ledgered

-----------------------------------------------------------------------------
(* The steps.                                                                  *)

LEMMA RegInitInv == RegInit => RegInv
BY FreshFact, NoPortsFact DEF RegInit, RegInv, RegTypes, HandsItsOwn, Ledgered, HeldOnce, NoPorts, RegTables

(* Steps that hand out, give up or clear, but claim nothing new.               *)
RegTidies ==
    /\ regSessions' \in [Folders -> RegSessions]
    /\ regLedgers' \in [Folders -> RegLedgers]
    /\ \A f \in Folders :
          /\ \/ regSessions'[f].claimed = regSessions[f].claimed /\ regSessions'[f].pc = regSessions[f].pc
             \/ regSessions'[f].claimed = NoPorts
          /\ \A k \in Keys : regSessions'[f].handed[k] \in {0, regSessions'[f].claimed[k]}
          /\ regLedgers[f].alive =>
                regLedgers'[f] = regLedgers[f] \/ regSessions'[f].claimed = NoPorts
          /\ \A p \in Ports : <<f, p>> \in regUnwritten =>
                <<f, p>> \in regUnwritten' \/ regSessions'[f].claimed = NoPorts
    /\ regRecords' = regRecords
    /\ regUnwritten' \subseteq regUnwritten

LEMMA RegTidiesInv ==
    ASSUME RegInv, RegTidies
    PROVE  RegInv'
<1>1. RegTypes'
  BY DEF RegInv, RegTypes, RegTidies
<1>2. HandsItsOwn'
  BY DEF RegInv, HandsItsOwn, RegTidies
<1>3. \A f \in Folders : \A p \in PortsOf(regSessions'[f].claimed) :
        /\ p \in PortsOf(regSessions[f].claimed) /\ p \in Ports
        /\ regSessions'[f].claimed # NoPorts
  BY <1>1, NoPortsFact, PortsIn DEF RegTidies, RegTypes, RegSessions
<1>4. Ledgered'
  BY <1>3 DEF RegInv, Ledgered, RegTidies
<1>5. HeldOnce'
  BY <1>3 DEF RegInv, HeldOnce, RegTidies
<1> QED
  BY <1>1, <1>2, <1>4, <1>5 DEF RegInv

LEMMA OpenSessionInv ==
    ASSUME RegInv, NEW f \in Folders, OpenSession(f)
    PROVE  RegInv'
<1> DEFINE s == [pc |-> "clearing", claimed |-> NoPorts, handed |-> NoPorts,
                 stale |-> PortsOf(regRecords[f]) \ HeldByOthers(f)]
<1>1. s \in RegSessions /\ s.claimed = NoPorts /\ s.handed = NoPorts
  BY NoPortsFact, PortsIn DEF RegInv, RegTypes, RegSessions
<1>2. /\ regSessions' = [regSessions EXCEPT ![f] = s] /\ regLedgers' = Swept(f)
      /\ UNCHANGED <<regRecords, regUnwritten>>
  BY DEF OpenSession
<1> HIDE DEF s
<1>3. /\ regSessions' \in [Folders -> RegSessions] /\ regSessions'[f].claimed = NoPorts
      /\ regSessions'[f].handed = NoPorts
      /\ \A g \in Folders \ {f} : regSessions'[g] = regSessions[g]
  BY <1>1, <1>2 DEF RegInv, RegTypes
<1>4. regLedgers' \in [Folders -> RegLedgers] /\ \A g \in Folders : regLedgers[g].alive => regLedgers'[g] = regLedgers[g]
  BY <1>2, SweptFact DEF RegInv
<1>5. RegTidies
  BY <1>2, <1>3, <1>4 DEF RegTidies, RegInv, HandsItsOwn, NoPorts
<1> QED
  BY <1>5, RegTidiesInv

LEMMA ClearStaleInv ==
    ASSUME RegInv, NEW f \in Folders, ClearStale(f)
    PROVE  RegInv'
<1>1. \A x \in RegSessions, pc \in {"open"}, t \in SUBSET Ports :
        /\ [x EXCEPT !.pc = pc] \in RegSessions /\ [x EXCEPT !.pc = pc].claimed = x.claimed
        /\ [x EXCEPT !.pc = pc].handed = x.handed
        /\ [x EXCEPT !.stale = t] \in RegSessions /\ [x EXCEPT !.stale = t].claimed = x.claimed
        /\ [x EXCEPT !.stale = t].handed = x.handed /\ [x EXCEPT !.stale = t].pc = x.pc
  BY DEF RegSessions
<1>2. /\ UNCHANGED <<regLedgers, regRecords, regUnwritten>>
      /\ regSessions[f].claimed = NoPorts
      /\ \/ regSessions' = [regSessions EXCEPT ![f] = [regSessions[f] EXCEPT !.pc = "open"]]
         \/ \E p \in Ports : regSessions' =
                [regSessions EXCEPT ![f] = [regSessions[f] EXCEPT !.stale = regSessions[f].stale \ {p}]]
  <2>1. regSessions[f].pc = "clearing" /\ UNCHANGED <<regLedgers, regRecords, regUnwritten>>
    BY DEF ClearStale
  <2>2. regSessions[f].claimed = NoPorts
    BY <2>1 DEF RegInv, HandsItsOwn
  <2>3. regSessions[f].stale \subseteq Ports
    BY DEF RegInv, RegTypes, RegSessions
  <2>4. \/ regSessions' = [regSessions EXCEPT ![f].pc = "open"]
        \/ \E p \in Ports : regSessions' = [regSessions EXCEPT ![f].stale = @ \ {p}]
    BY <2>3 DEF ClearStale
  <2> QED
    BY <2>1, <2>2, <2>4
<1>3. regSessions[f] \in RegSessions /\ \A p \in Ports : regSessions[f].stale \ {p} \in SUBSET Ports
  BY DEF RegInv, RegTypes, RegSessions
<1>4. PICK n \in RegSessions : /\ regSessions' = [regSessions EXCEPT ![f] = n]
                            /\ n.claimed = NoPorts /\ n.handed = regSessions[f].handed
  <2>1. CASE regSessions' = [regSessions EXCEPT ![f] = [regSessions[f] EXCEPT !.pc = "open"]]
    BY <1>1, <1>2, <1>3, <2>1
  <2>2. ASSUME NEW p \in Ports, regSessions' =
                [regSessions EXCEPT ![f] = [regSessions[f] EXCEPT !.stale = regSessions[f].stale \ {p}]]
        PROVE  \E n \in RegSessions : /\ regSessions' = [regSessions EXCEPT ![f] = n]
                                   /\ n.claimed = NoPorts /\ n.handed = regSessions[f].handed
    <3> DEFINE t == regSessions[f].stale \ {p}
    <3>1. t \in SUBSET Ports
      BY <1>3
    <3> HIDE DEF t
    <3> QED
      BY <1>1, <1>2, <1>3, <2>2, <3>1, ZenonT(40) DEF t
  <2> QED
    BY <1>2, <2>1, <2>2
<1>8. /\ regSessions' \in [Folders -> RegSessions]
      /\ regSessions'[f].claimed = NoPorts /\ regSessions'[f].handed = regSessions[f].handed
      /\ \A g \in Folders \ {f} : regSessions'[g] = regSessions[g]
  BY <1>4 DEF RegInv, RegTypes
<1>5. \A g \in Folders :
        /\ regSessions'[g].claimed = regSessions[g].claimed
        /\ regSessions'[g].handed = regSessions[g].handed
        /\ (regSessions'[g].pc = regSessions[g].pc \/ regSessions'[g].claimed = NoPorts)
  BY <1>2, <1>8
<1>6. \A g \in Folders : \A k \in Keys : regSessions[g].handed[k] \in {0, regSessions[g].claimed[k]}
  BY DEF RegInv, HandsItsOwn
<1>7. RegTidies
  BY <1>2, <1>8, <1>5, <1>6 DEF RegTidies, RegInv, RegTypes
<1> QED
  BY <1>7, RegTidiesInv

LEMMA ClaimAgainInv ==
    ASSUME RegInv, NEW f \in Folders, NEW k \in Keys, ClaimAgain(f, k)
    PROVE  RegInv'
<1> DEFINE p == regSessions[f].claimed[k]
           new(x) == [x EXCEPT !.handed = [x.handed EXCEPT ![k] = p]]
<1>1. regSessions[f] \in RegSessions /\ p \in Ports \cup {0}
  BY DEF RegInv, RegTypes, RegSessions, RegTables
<1>2. ASSUME NEW x \in RegSessions
      PROVE  /\ new(x) \in RegSessions /\ new(x).claimed = x.claimed /\ new(x).pc = x.pc
             /\ new(x).handed = [x.handed EXCEPT ![k] = p] /\ x.handed \in RegTables
  BY <1>1, <1>2 DEF RegSessions, RegTables
<1>3. /\ regSessions' = [regSessions EXCEPT ![f] = new(regSessions[f])]
      /\ UNCHANGED <<regLedgers, regRecords, regUnwritten>>
  BY DEF ClaimAgain
<1> HIDE DEF new
<1>4. /\ regSessions' \in [Folders -> RegSessions]
      /\ regSessions'[f].claimed = regSessions[f].claimed /\ regSessions'[f].pc = regSessions[f].pc
      /\ regSessions'[f].handed = [regSessions[f].handed EXCEPT ![k] = p]
      /\ regSessions[f].handed \in RegTables
      /\ \A g \in Folders \ {f} : regSessions'[g] = regSessions[g]
  BY <1>1, <1>2, <1>3 DEF RegInv, RegTypes
<1>5. \A g \in Folders : /\ regSessions'[g].claimed = regSessions[g].claimed
                       /\ regSessions'[g].pc = regSessions[g].pc
  BY <1>4
<1>6. \A j \in Keys : regSessions'[f].handed[j] = regSessions[f].handed[j] \/ (j = k /\ regSessions'[f].handed[j] = p)
  BY <1>4 DEF RegTables
<1>7. \A g \in Folders : \A j \in Keys : regSessions[g].handed[j] \in {0, regSessions[g].claimed[j]}
  BY DEF RegInv, HandsItsOwn
<1>8. \A g \in Folders : \A j \in Keys : regSessions'[g].handed[j] \in {0, regSessions'[g].claimed[j]}
  <2> SUFFICES ASSUME NEW g \in Folders, NEW j \in Keys
               PROVE  regSessions'[g].handed[j] \in {0, regSessions'[g].claimed[j]}
    OBVIOUS
  <2>1. CASE g # f
    BY <2>1, <1>4, <1>7
  <2>2. CASE g = f
    <3>1. regSessions'[f].claimed[k] = p
      BY <1>5
    <3> HIDE DEF p
    <3>2. CASE j = k
      BY <2>2, <3>1, <3>2, <1>6, <1>7, <1>5
    <3>3. CASE j # k
      BY <2>2, <3>3, <1>5, <1>6, <1>7
    <3> QED
      BY <3>2, <3>3
  <2> QED
    BY <2>1, <2>2
<1>9. RegTidies
  BY <1>3, <1>4, <1>5, <1>8 DEF RegTidies, RegInv, RegTypes
<1> QED
  BY <1>9, RegTidiesInv

(* A session that ends takes its ports along, not its ledger when it is killed. *)
LEMMA SessionEndsInv ==
    ASSUME RegInv, NEW f \in Folders, CloseSession(f) \/ KillSession(f)
    PROVE  RegInv'
<1>1. /\ regSessions' = [regSessions EXCEPT ![f] = NoDevSession]
      /\ regUnwritten' = regUnwritten \ ({f} \X Ports)
      /\ regRecords' = regRecords
  BY DEF CloseSession, KillSession
<1>2. \A l \in RegLedgers : [l EXCEPT !.alive = FALSE] \in RegLedgers
  BY DEF RegLedgers
<1>3. regLedgers' \in [Folders -> RegLedgers] /\ \A g \in Folders \ {f} : regLedgers'[g] = regLedgers[g]
  BY <1>2, FreshFact DEF CloseSession, KillSession, RegInv, RegTypes
<1>4. /\ regSessions' \in [Folders -> RegSessions] /\ regSessions'[f].claimed = NoPorts
      /\ regSessions'[f].handed = NoPorts
      /\ \A g \in Folders \ {f} : regSessions'[g] = regSessions[g]
  BY <1>1, FreshFact DEF RegInv, RegTypes
<1>5. RegTidies
  BY <1>1, <1>3, <1>4 DEF RegTidies, RegInv, RegTypes, HandsItsOwn, NoPorts
<1> QED
  BY <1>5, RegTidiesInv

LEMMA ListenOnInv ==
    ASSUME RegInv, NEW f \in Folders, NEW k \in Keys, ListenOn(f, k) \/ UNCHANGED regVars
    PROVE  RegInv'
BY DEF ListenOn, regVars, RegInv, RegTypes, HandsItsOwn, Ledgered, HeldOnce

(* A claim keeps one more port in memory; the ledger has it or is known not to. *)
RegTakes(f, k, p) ==
    /\ regSessions' \in [Folders -> RegSessions]
    /\ regSessions'[f].claimed = RegWith(regSessions[f].claimed, k, p)
    /\ regSessions'[f].pc = "open"
    /\ \A j \in Keys : \/ regSessions'[f].handed[j] = regSessions[f].handed[j]
                       \/ j = k /\ regSessions'[f].handed[j] = p
    /\ \A g \in Folders \ {f} : regSessions'[g] = regSessions[g]
    /\ regLedgers' \in [Folders -> RegLedgers]
    /\ \A g \in Folders \ {f} : regLedgers[g].alive => regLedgers'[g] = regLedgers[g]
    /\ \/ regLedgers'[f] = [exists |-> TRUE, alive |-> TRUE,
                             ports |-> PortsOf(regSessions[f].claimed) \cup {p}]
       \/ regLedgers'[f] = regLedgers[f] /\ <<f, p>> \in regUnwritten'
    /\ regRecords' \in [Folders -> RegTables]
    /\ regUnwritten \subseteq regUnwritten' /\ regUnwritten' \subseteq Folders \X Ports

LEMMA RegTakesInv ==
    ASSUME RegInv, NEW f \in Folders, NEW k \in Keys, NEW p \in Ports,
           regSessions[f].claimed[k] = 0, Pick(f, k, p), RegTakes(f, k, p)
    PROVE  RegInv'
<1>1. RegTypes'
  BY DEF RegInv, RegTypes, RegTakes
<1>2. regSessions[f].claimed \in RegTables /\ regSessions[f].handed \in RegTables
  BY DEF RegInv, RegTypes, RegSessions
<1>3. /\ PortsOf(regSessions'[f].claimed) = PortsOf(regSessions[f].claimed) \cup {p}
      /\ \A g \in Folders \ {f} : regSessions'[g] = regSessions[g]
  BY <1>2, OneMore DEF RegTakes
<1>4. HandsItsOwn'
  <2> SUFFICES ASSUME NEW g \in Folders
               PROVE  /\ regSessions'[g].pc # "open" => regSessions'[g].claimed = NoPorts
                      /\ \A j \in Keys : regSessions'[g].handed[j] \in {0, regSessions'[g].claimed[j]}
    BY DEF HandsItsOwn, NoPorts
  <2>1. CASE g # f
    BY <2>1, <1>3 DEF RegInv, HandsItsOwn
  <2>2. CASE g = f
    <3> SUFFICES ASSUME NEW j \in Keys
                 PROVE  regSessions'[f].handed[j] \in {0, regSessions'[f].claimed[j]}
      BY <2>2 DEF RegTakes
    <3>1. /\ regSessions'[f].claimed[k] = p
          /\ j # k => regSessions'[f].claimed[j] = regSessions[f].claimed[j]
      BY <1>2, OneMore DEF RegTakes
    <3>2. regSessions[f].handed[j] \in {0, regSessions[f].claimed[j]}
      BY DEF RegInv, HandsItsOwn
    <3> QED
      BY <3>1, <3>2 DEF RegTakes
  <2> QED
    BY <2>1, <2>2
<1>5. Ledgered'
  <2> SUFFICES ASSUME NEW g \in Folders, NEW q \in PortsOf(regSessions'[g].claimed)
               PROVE  \/ <<g, q>> \in regUnwritten'
                      \/ regLedgers'[g].exists /\ regLedgers'[g].alive /\ q \in regLedgers'[g].ports
    BY DEF Ledgered, PortsOf
  <2>1. CASE g # f
    BY <2>1, <1>3 DEF RegInv, Ledgered, RegTakes
  <2>2. CASE g = f
    <3>1. q \in PortsOf(regSessions[f].claimed) \/ q = p
      BY <2>2, <1>3
    <3> QED
      BY <2>2, <3>1 DEF RegInv, Ledgered, RegTakes
  <2> QED
    BY <2>1, <2>2
<1>6. HeldOnce'
  <2>1. /\ \A g \in Folders \ {f} : p \in PortsOf(regSessions[g].claimed) => <<g, p>> \in regUnwritten
        /\ regUnwritten \subseteq regUnwritten'
    BY PickedIsFree DEF RegTakes
  <2> SUFFICES ASSUME NEW g \in Folders, NEW h \in Folders, g # h,
                      NEW q \in PortsOf(regSessions'[g].claimed) \cap PortsOf(regSessions'[h].claimed)
               PROVE  <<g, q>> \in regUnwritten' \/ <<h, q>> \in regUnwritten'
    BY DEF HeldOnce, PortsOf
  <2>2. CASE g = f
    BY <2>1, <2>2, <1>3 DEF RegInv, HeldOnce
  <2>3. CASE h = f
    BY <2>1, <2>3, <1>3 DEF RegInv, HeldOnce
  <2>4. CASE g # f /\ h # f
    BY <2>1, <2>4, <1>3 DEF RegInv, HeldOnce
  <2> QED
    BY <2>2, <2>3, <2>4
<1> QED
  BY <1>1, <1>4, <1>5, <1>6 DEF RegInv

(* What a claim makes of a session: it keeps a port, and gives it to the caller. *)
RegKeeps(s, k, p) == [s EXCEPT !.claimed = RegWith(s.claimed, k, p)]
RegGives(s, k, p) == [s EXCEPT !.handed = RegWith(s.handed, k, p)]

LEMMA ClaimedFact ==
    ASSUME NEW s \in RegSessions, NEW k \in Keys, NEW p \in Ports
    PROVE  /\ RegKeeps(s, k, p) \in RegSessions /\ RegKeeps(s, k, p).claimed = RegWith(s.claimed, k, p)
           /\ RegKeeps(s, k, p).handed = s.handed /\ RegKeeps(s, k, p).pc = s.pc
           /\ RegGives(s, k, p) \in RegSessions /\ RegGives(s, k, p).handed = RegWith(s.handed, k, p)
           /\ RegGives(s, k, p).claimed = s.claimed /\ RegGives(s, k, p).pc = s.pc
<1>1. s.claimed \in RegTables /\ s.handed \in RegTables
  BY DEF RegSessions
<1>2. RegWith(s.claimed, k, p) \in RegTables /\ RegWith(s.handed, k, p) \in RegTables
  BY <1>1, OneMore
<1> QED
  BY <1>2 DEF RegSessions, RegKeeps, RegGives

(* The tables and the ledgers a claim writes.                                  *)
LEMMA WrittenFact ==
    ASSUME RegInv, NEW f \in Folders, NEW k \in Keys, NEW p \in Ports
    PROVE  LET new == [exists |-> TRUE, alive |-> TRUE, ports |-> PortsOf(regSessions[f].claimed) \cup {p}]
           IN  /\ [Swept(f) EXCEPT ![f] = new] \in [Folders -> RegLedgers]
               /\ [Swept(f) EXCEPT ![f] = new][f] = new
               /\ \A g \in Folders \ {f} : regLedgers[g].alive => [Swept(f) EXCEPT ![f] = new][g] = regLedgers[g]
               /\ [regRecords EXCEPT ![f][k] = p] \in [Folders -> RegTables]
<1>1. regSessions[f].claimed \in RegTables
  BY DEF RegInv, RegTypes, RegSessions
<1>2. [exists |-> TRUE, alive |-> TRUE, ports |-> PortsOf(regSessions[f].claimed) \cup {p}] \in RegLedgers
  BY <1>1, PortsIn DEF RegLedgers
<1>3. regRecords[f] \in RegTables /\ [regRecords[f] EXCEPT ![k] = p] \in RegTables
  BY DEF RegInv, RegTypes, RegTables
<1>4. [regRecords EXCEPT ![f][k] = p] \in [Folders -> RegTables]
  BY <1>3 DEF RegInv, RegTypes
<1> QED
  BY <1>2, <1>4, SweptFact DEF RegInv

LEMMA ClaimInv ==
    ASSUME RegInv, NEW f \in Folders, NEW k \in Keys, Claim(f, k)
    PROVE  RegInv'
<1>1. PICK p \in Ports :
        /\ Pick(f, k, p)
        /\ regSessions' = [regSessions EXCEPT ![f].claimed[k] = p, ![f].handed[k] = p]
        /\ regLedgers' = [Swept(f) EXCEPT ![f] =
               [exists |-> TRUE, alive |-> TRUE, ports |-> PortsOf(regSessions[f].claimed) \union {p}]]
        /\ regRecords' = [regRecords EXCEPT ![f][k] = p]
  BY DEF Claim
<1>2. regSessions[f].pc = "open" /\ regSessions[f].claimed[k] = 0 /\ regUnwritten' = regUnwritten
  BY DEF Claim
<1> DEFINE t == RegKeeps(regSessions[f], k, p)
           u == RegGives(t, k, p)
<1>3. regSessions \in [Folders -> RegSessions] /\ regSessions[f] \in RegSessions /\ regSessions[f].handed \in RegTables
  BY DEF RegInv, RegTypes, RegSessions
<1>4. regSessions' = [regSessions EXCEPT ![f] = u]
  BY <1>1, <1>3 DEF RegKeeps, RegGives, RegWith
<1>5. /\ u \in RegSessions /\ u.claimed = RegWith(regSessions[f].claimed, k, p) /\ u.pc = "open"
      /\ u.handed = RegWith(regSessions[f].handed, k, p)
  BY <1>2, <1>3, ClaimedFact
<1> HIDE DEF t, u
<1>6. /\ regSessions' \in [Folders -> RegSessions] /\ regSessions'[f] = u
      /\ \A g \in Folders \ {f} : regSessions'[g] = regSessions[g]
  BY <1>3, <1>4, <1>5
<1>7. \A j \in Keys : u.handed[j] = regSessions[f].handed[j] \/ (j = k /\ u.handed[j] = p)
  BY <1>3, <1>5, OneMore
<1>8. RegTakes(f, k, p)
  BY <1>1, <1>2, <1>5, <1>6, <1>7, WrittenFact, ZenonT(40) DEF RegTakes, RegInv, RegTypes
<1> QED
  BY <1>1, <1>2, <1>8, RegTakesInv

LEMMA ClaimFailsInv ==
    ASSUME RegInv, NEW f \in Folders, NEW k \in Keys, ClaimFails(f, k)
    PROVE  RegInv'
<1>1. PICK p \in Ports :
        /\ Pick(f, k, p)
        /\ regSessions' = [regSessions EXCEPT ![f].claimed[k] = p]
        /\ \/ /\ regLedgers' = Swept(f)
              /\ regUnwritten' = regUnwritten \union {<<f, p>>}
           \/ /\ regLedgers' = [Swept(f) EXCEPT ![f] =
                     [exists |-> TRUE, alive |-> TRUE,
                      ports |-> PortsOf(regSessions[f].claimed) \union {p}]]
              /\ UNCHANGED regUnwritten
  BY DEF ClaimFails
<1>2. regSessions[f].pc = "open" /\ regSessions[f].claimed[k] = 0 /\ regRecords' = regRecords
  BY DEF ClaimFails
<1> DEFINE t == RegKeeps(regSessions[f], k, p)
<1>3. /\ regSessions \in [Folders -> RegSessions] /\ regSessions[f] \in RegSessions
      /\ regSessions' = [regSessions EXCEPT ![f] = t]
  BY <1>1 DEF RegInv, RegTypes, RegKeeps, RegWith
<1>4. /\ t \in RegSessions /\ t.claimed = RegWith(regSessions[f].claimed, k, p) /\ t.pc = "open"
      /\ t.handed = regSessions[f].handed
  BY <1>2, <1>3, ClaimedFact
<1> HIDE DEF t
<1>5. /\ regSessions' \in [Folders -> RegSessions] /\ regSessions'[f] = t
      /\ \A g \in Folders \ {f} : regSessions'[g] = regSessions[g]
  BY <1>3, <1>4
<1>6. CASE regLedgers' = Swept(f) /\ regUnwritten' = regUnwritten \union {<<f, p>>}
  <2>1. RegTakes(f, k, p)
    BY <1>2, <1>4, <1>5, <1>6, SweptFact DEF RegTakes, RegInv, RegTypes
  <2> QED
    BY <1>1, <1>2, <2>1, RegTakesInv
<1>7. CASE /\ regLedgers' = [Swept(f) EXCEPT ![f] =
                     [exists |-> TRUE, alive |-> TRUE,
                      ports |-> PortsOf(regSessions[f].claimed) \union {p}]]
           /\ UNCHANGED regUnwritten
  <2>1. RegTakes(f, k, p)
    BY <1>2, <1>4, <1>5, <1>7, WrittenFact DEF RegTakes, RegInv, RegTypes
  <2> QED
    BY <1>1, <1>2, <2>1, RegTakesInv
<1> QED
  BY <1>1, <1>6, <1>7

LEMMA RegNextInv == RegInv /\ [RegNext]_regVars => RegInv'
<1> SUFFICES ASSUME RegInv, [RegNext]_regVars PROVE RegInv'
  OBVIOUS
<1>1. CASE UNCHANGED regVars
  BY <1>1 DEF regVars, RegInv, RegTypes, HandsItsOwn, Ledgered, HeldOnce
<1>2. ASSUME NEW f \in Folders,
             OpenSession(f) \/ ClearStale(f) \/ CloseSession(f) \/ KillSession(f)
      PROVE  RegInv'
  BY <1>2, OpenSessionInv, ClearStaleInv, SessionEndsInv
<1>3. ASSUME NEW f \in Folders, NEW k \in Keys,
             Claim(f, k) \/ ClaimFails(f, k) \/ ClaimAgain(f, k) \/ ListenOn(f, k)
      PROVE  RegInv'
  BY <1>3, ClaimInv, ClaimFailsInv, ClaimAgainInv, ListenOnInv
<1> QED
  BY <1>1, <1>2, <1>3 DEF RegNext

(* No two sessions of the user hand out one port (Registry.Claim), whatever is  *)
(* closed, killed and swept in between, except one whose ledger write failed.  *)
THEOREM PortsHandedOnce == RegSpec => []HandedOnce
<1>1. RegInv => HandedOnce
  <2> SUFFICES ASSUME RegInv PROVE HandedOnce
    OBVIOUS
  <2> QED
    BY HandedIsHeld DEF RegInv, HeldOnce, HandedOnce
<1> QED
  BY <1>1, RegInitInv, RegNextInv, PTL DEF RegSpec

-------------------------------------------------------------------------------
(* SignIn.  The inductive invariant says where a challenge is - waiting, in   *)
(* one exchange, or spent - and that the cookie it is checked against is in   *)
(* the browser that left.                                                     *)

Challenges == [token : 1 .. MaxStarts, gate : Gates, host : Hosts, expires : Nat]
Links == [token : 1 .. MaxStarts, host : Hosts, gate : Gates, browser : Browsers, email : Emails]
SessionRecords == [gate : Gates, email : Emails \cup {CliEmail}, expires : Nat]
ExchangeCalls == [pc : {"exchange"}, browser : Browsers, host : Hosts, gate : Gates,
                  allow : SUBSET Emails, link : Links]
HandedCalls == [pc : {"handed"}, browser : Browsers, host : Hosts, gate : Gates,
                allow : SUBSET Emails, as : Emails \cup {CliEmail}]

SignTypes ==
    /\ sigOwner \in [Hosts -> Gates]
    /\ sigAllow \in [Gates -> SUBSET Emails]
    /\ sigPending \subseteq Challenges /\ IsFiniteSet(sigPending)
    /\ sigState \in [Browsers -> [Hosts -> [GateKinds -> 0 .. MaxStarts]]]
    /\ sigSessions \in [Browsers -> [Hosts -> SessionRecords \cup {NoSession}]]
    /\ sigCallbacks \subseteq Links
    /\ sigTokens \subseteq [token : 1 .. MaxStarts, expires : Nat]
    /\ sigCalls \in [Calls -> ExchangeCalls \cup HandedCalls \cup {NoCall}]
    /\ sigClock \in Nat /\ sigStarts \in 0 .. MaxStarts
    /\ sigSpent \in [1 .. MaxStarts -> Nat]

Exchanging(q, t) == sigCalls[q].pc = "exchange" /\ sigCalls[q].link.token = t

(* A number is handed out once: to one challenge and its link, or to one link   *)
(* of `dboss login`.                                                            *)
Numbered ==
    /\ \A c \in sigPending : c.token <= sigStarts
    /\ \A l \in sigCallbacks : l.token <= sigStarts
    /\ \A t \in sigTokens : t.token <= sigStarts
    /\ \A q \in Calls : sigCalls[q].pc = "exchange" => sigCalls[q].link \in sigCallbacks
    /\ \A l, m \in sigCallbacks : l.token = m.token => l = m
    /\ \A s, t \in sigTokens : s.token = t.token => s = t
    /\ \A t \in sigTokens : \A l \in sigCallbacks : l.token # t.token
    /\ \A t \in sigTokens : \A c \in sigPending : c.token # t.token

(* The challenge of a link is of its host and gate.                             *)
OfOneSignIn == \A c \in sigPending : \A l \in sigCallbacks : c.token = l.token => c.host = l.host /\ c.gate = l.gate

(* The state cookie with the token of a link is in the browser that left.       *)
InItsBrowser ==
    \A b \in Browsers, h \in Hosts, k \in GateKinds :
        /\ sigState[b][h][k] <= sigStarts
        /\ \A l \in sigCallbacks : sigState[b][h][k] = l.token => l.browser = b

(* What an exchange is about to confirm is what its link was made for.          *)
Confirming ==
    \A q \in Calls : sigCalls[q].pc = "exchange" =>
        /\ sigCalls[q].link.browser = sigCalls[q].browser
        /\ sigCalls[q].link.gate = sigCalls[q].gate
        /\ sigCalls[q].link.host = sigCalls[q].host

(* A session was confirmed to its browser.                                      *)
SessionsEarned ==
    \A b \in Browsers, h \in Hosts : sigSessions[b][h] # NoSession =>
        <<b, sigSessions[b][h].gate, h, sigSessions[b][h].email>> \in sigSigned

(* A challenge is waiting, being exchanged by one request, or spent.            *)
Unspent ==
    /\ \A c \in sigPending : sigSpent[c.token] = 0 /\ \A q \in Calls : ~Exchanging(q, c.token)
    /\ \A t \in sigTokens : sigSpent[t.token] = 0 /\ \A q \in Calls : ~Exchanging(q, t.token)
    /\ \A q \in Calls : sigCalls[q].pc = "exchange" =>
           /\ sigSpent[sigCalls[q].link.token] = 0
           /\ \A r \in Calls \ {q} : ~Exchanging(r, sigCalls[q].link.token)
    /\ \A t \in 1 .. MaxStarts : t > sigStarts => sigSpent[t] = 0

SignInv == /\ SignTypes /\ Numbered /\ OfOneSignIn /\ InItsBrowser /\ Confirming /\ SessionsEarned
           /\ Unspent /\ IdentityEarned /\ SpentOnce

-----------------------------------------------------------------------------
(* Kinds and calls.                                                             *)

LEMMA KindType == ASSUME NEW g \in Gates PROVE Kind(g) \in GateKinds
BY DEF Kind, GateKinds

LEMMA NoExchange ==
    ASSUME NEW c \in ExchangeCalls \cup HandedCalls \cup {NoCall}
    PROVE  /\ c.pc = "exchange" => c \in ExchangeCalls
           /\ c.pc = "handed" => c \in HandedCalls
           /\ c = NoCall => c.pc = "none"
BY DEF ExchangeCalls, HandedCalls, NoCall

LEMMA UnexpiredFinite ==
    ASSUME SignTypes
    PROVE  /\ IsFiniteSet(Unexpired) /\ Unexpired \subseteq sigPending
           /\ Cardinality(Unexpired) \in Nat /\ Cardinality(Unexpired) <= Cardinality(sigPending)
<1>1. Unexpired \subseteq sigPending /\ IsFiniteSet(sigPending)
  BY DEF Unexpired, SignTypes
<1>. QED  BY <1>1, FS_Subset, FS_CardinalityType

-----------------------------------------------------------------------------
(* Every action keeps the invariant.                                            *)

LEMMA SignInitInv == SignInit => SignInv
<1>. SUFFICES ASSUME SignInit PROVE SignInv
  OBVIOUS
<1>. USE SignInAssumption DEF SignInit
<1>1. SignTypes
  BY FS_EmptySet DEF SignTypes, Gates, GateKinds
<1>2. Numbered /\ OfOneSignIn /\ Confirming /\ IdentityEarned
  BY DEF Numbered, OfOneSignIn, Confirming, IdentityEarned, NoCall
<1>3. InItsBrowser
  BY DEF InItsBrowser
<1>4. SessionsEarned
  BY DEF SessionsEarned
<1>5. Unspent
  BY DEF Unspent, NoCall
<1>6. SpentOnce
  BY FS_EmptySet DEF SpentOnce
<1>. QED  BY <1>1, <1>2, <1>3, <1>4, <1>5, <1>6 DEF SignInv

LEMMA SignStartInv ==
    ASSUME SignInv, NEW b \in Browsers, NEW h \in Hosts, SignStart(b, h)
    PROVE  SignInv'
<1>. USE SignInAssumption
<1>. DEFINE g == sigOwner[h]
<1>1. /\ g \in Gates /\ Kind(g) \in GateKinds /\ sigStarts \in Nat /\ sigStarts' = sigStarts + 1
      /\ sigStarts < MaxStarts /\ sigStarts + 1 \in 1 .. MaxStarts
      /\ UNCHANGED <<sigOwner, sigAllow, sigSessions, sigTokens, sigCalls, sigClock, sigRescans,
                      sigFaults, sigSigned, sigSpent>>
  BY KindType DEF SignInv, SignTypes, SignStart
<1>2. CASE Cardinality(Unexpired) >= MaxChallenges
  <2>1. sigPending' = Unexpired /\ UNCHANGED <<sigState, sigCallbacks>>
    BY <1>2 DEF SignStart
  <2>2. IsFiniteSet(sigPending') /\ sigPending' \subseteq sigPending
        /\ Cardinality(sigPending') <= Cardinality(sigPending) /\ Cardinality(sigPending') \in Nat
    BY <2>1, UnexpiredFinite DEF SignInv
  <2>3. SignTypes'
    BY <1>1, <2>1, <2>2 DEF SignInv, SignTypes
  <2>4. Numbered'
    BY <1>1, <2>1, <2>2 DEF SignInv, Numbered, SignTypes, Challenges, Links
  <2>5. OfOneSignIn' /\ InItsBrowser' /\ Confirming' /\ SessionsEarned' /\ IdentityEarned'
    BY <1>1, <2>1, <2>2, SMTT(30) DEF SignInv, OfOneSignIn, InItsBrowser, Confirming, SessionsEarned, IdentityEarned, SignTypes
  <2>6. Unspent'
    BY <1>1, <2>1, <2>2 DEF SignInv, Unspent, Exchanging
  <2>7. SpentOnce'
    <3>1. Cardinality(sigPending) \in Nat
      BY FS_CardinalityType DEF SignInv, SignTypes
    <3>. QED  BY <1>1, <2>2, <3>1 DEF SignInv, SpentOnce
  <2>. QED  BY <2>3, <2>4, <2>5, <2>6, <2>7 DEF SignInv
<1>3. CASE ~(Cardinality(Unexpired) >= MaxChallenges)
  <2>. DEFINE token == sigStarts + 1
              c == [token |-> token, gate |-> g, host |-> h, expires |-> sigClock + StateTTL]
  <2>1. PICK e \in Emails :
          sigCallbacks' = sigCallbacks \cup {[token |-> token, host |-> h, gate |-> g, browser |-> b, email |-> e]}
    BY <1>3, Zenon DEF SignStart
  <2>. DEFINE l == [token |-> token, host |-> h, gate |-> g, browser |-> b, email |-> e]
  <2>2. sigPending' = Unexpired \cup {c} /\ sigCallbacks' = sigCallbacks \cup {l}
        /\ sigState' = [sigState EXCEPT ![b][h][Kind(g)] = token]
    BY <1>3, <2>1 DEF SignStart
  <2>3. c \in Challenges /\ l \in Links
    BY <1>1 DEF SignInv, SignTypes, Challenges, Links
  <2>4. IsFiniteSet(sigPending') /\ Cardinality(sigPending') <= MaxChallenges
    <3>1. IsFiniteSet(Unexpired) /\ Cardinality(Unexpired) \in Nat
      BY UnexpiredFinite DEF SignInv
    <3>. HIDE DEF c
    <3>2. Cardinality(Unexpired \cup {c}) <= Cardinality(Unexpired) + 1 /\ IsFiniteSet(Unexpired \cup {c})
      BY <3>1, FS_AddElement
    <3>3. Cardinality(Unexpired \cup {c}) \in Nat
      BY <3>2, FS_CardinalityType
    <3>. QED  BY <1>3, <2>2, <3>1, <3>2, <3>3
  <2>5. Unexpired \subseteq sigPending
    BY UnexpiredFinite DEF SignInv
  <2>6. c.token = token /\ l.token = token /\ c.host = l.host /\ c.gate = l.gate /\ l.browser = b
    OBVIOUS
  <2>. HIDE DEF c, l
  <2>7. SignTypes'
    <3>1. sigState' \in [Browsers -> [Hosts -> [GateKinds -> 0 .. MaxStarts]]]
      BY <1>1, <2>2 DEF SignInv, SignTypes
    <3>2. sigPending' \subseteq Challenges /\ sigCallbacks' \subseteq Links
      BY <2>2, <2>3, <2>5 DEF SignInv, SignTypes
    <3>. QED  BY <1>1, <2>4, <3>1, <3>2 DEF SignInv, SignTypes
  <2>8. Numbered'
    BY <1>1, <2>2, <2>3, <2>5, <2>6, SMTT(30) DEF SignInv, Numbered, SignTypes, Challenges, Links
  <2>9. OfOneSignIn'
    <3>1. \A d \in Unexpired : d.token # token /\ d \in sigPending
      BY <1>1, <2>5 DEF SignInv, Numbered, SignTypes, Challenges
    <3>2. \A m \in sigCallbacks : m.token # token
      BY <1>1 DEF SignInv, Numbered, SignTypes, Links
    <3>3. \A d \in sigPending : \A m \in sigCallbacks : d.token = m.token => d.host = m.host /\ d.gate = m.gate
      BY DEF SignInv, OfOneSignIn
    <3>4. \A d \in Unexpired \cup {c} : \A m \in sigCallbacks \cup {l} :
            d.token = m.token => d.host = m.host /\ d.gate = m.gate
      BY <2>6, <3>1, <3>2, <3>3
    <3>. QED  BY <2>2, <3>4 DEF OfOneSignIn
  <2>10. InItsBrowser'
    <3>. SUFFICES ASSUME NEW b1 \in Browsers, NEW h1 \in Hosts, NEW k \in GateKinds
                  PROVE  /\ sigState'[b1][h1][k] <= sigStarts + 1
                         /\ \A m \in sigCallbacks' : sigState'[b1][h1][k] = m.token => m.browser = b1
      BY <1>1 DEF InItsBrowser
    <3>1. sigState'[b1][h1][k] = IF b1 = b /\ h1 = h /\ k = Kind(g) THEN token ELSE sigState[b1][h1][k]
      BY <1>1, <2>2, SMTT(30) DEF SignInv, SignTypes
    <3>2. sigState[b1][h1][k] <= sigStarts /\ sigState[b1][h1][k] \in Nat
          /\ \A m \in sigCallbacks : sigState[b1][h1][k] = m.token => m.browser = b1
      BY DEF SignInv, InItsBrowser, SignTypes
    <3>3. \A m \in sigCallbacks : m.token \in Nat /\ m.token <= sigStarts
      BY DEF SignInv, Numbered, SignTypes, Links
    <3>. QED  BY <1>1, <2>2, <2>6, <3>1, <3>2, <3>3
  <2>11. Confirming' /\ SessionsEarned' /\ IdentityEarned'
    BY <1>1 DEF SignInv, Confirming, SessionsEarned, IdentityEarned
  <2>12. Unspent'
    <3>1. sigSpent[token] = 0
      BY <1>1 DEF SignInv, Unspent
    <3>2. \A q \in Calls : ~Exchanging(q, token)
      BY <1>1 DEF SignInv, Numbered, SignTypes, Links, Exchanging
    <3>. QED  BY <1>1, <2>2, <2>5, <2>6, <3>1, <3>2 DEF SignInv, Unspent, Exchanging
  <2>13. SpentOnce'
    BY <1>1, <2>4 DEF SignInv, SpentOnce
  <2>. QED  BY <2>7, <2>8, <2>9, <2>10, <2>11, <2>12, <2>13 DEF SignInv
<1>. QED  BY <1>2, <1>3

(* A state cookie that is cleared names no sign-in.                             *)
LEMMA ClearedState ==
    ASSUME SignTypes, InItsBrowser, NEW b \in Browsers, NEW h \in Hosts, NEW k \in GateKinds,
           sigState' = [sigState EXCEPT ![b][h][k] = 0], UNCHANGED <<sigCallbacks, sigStarts>>
    PROVE  InItsBrowser'
<1>. SUFFICES ASSUME NEW b1 \in Browsers, NEW h1 \in Hosts, NEW k1 \in GateKinds
              PROVE  /\ sigState'[b1][h1][k1] <= sigStarts
                     /\ \A m \in sigCallbacks : sigState'[b1][h1][k1] = m.token => m.browser = b1
  BY DEF InItsBrowser
<1>1. sigState'[b1][h1][k1] = IF b1 = b /\ h1 = h /\ k1 = k THEN 0 ELSE sigState[b1][h1][k1]
  BY DEF SignTypes
<1>2. \A m \in sigCallbacks : m.token # 0
  BY DEF SignTypes, Links
<1>. QED  BY <1>1, <1>2 DEF InItsBrowser, SignTypes

LEMMA SignVerifyInv ==
    ASSUME SignInv, NEW q \in Calls, NEW b \in Browsers, NEW link \in sigCallbacks, SignVerify(q, b, link)
    PROVE  SignInv'
<1>. DEFINE g == sigOwner[link.host]
            call == [pc |-> "exchange", browser |-> b, host |-> link.host, gate |-> g,
                     allow |-> sigAllow[g], link |-> link]
<1>1. /\ link \in Links /\ link.host \in Hosts /\ g \in Gates /\ Kind(g) \in GateKinds /\ sigCalls[q] = NoCall
      /\ sigState[b][link.host][Kind(g)] = link.token
      /\ sigPending' = {c \in sigPending : c.token # link.token}
      /\ UNCHANGED <<sigOwner, sigAllow, sigSessions, sigCallbacks, sigTokens, sigClock,
                     sigStarts, sigRescans, sigFaults, sigSigned, sigSpent>>
  BY KindType DEF SignVerify, SignInv, SignTypes, Links
<1>2. sigPending' \subseteq sigPending /\ IsFiniteSet(sigPending') /\ Cardinality(sigPending') \in Nat
      /\ Cardinality(sigPending) \in Nat /\ Cardinality(sigPending') <= Cardinality(sigPending)
  <2>1. IsFiniteSet(sigPending) /\ sigPending' \subseteq sigPending
    BY <1>1 DEF SignInv, SignTypes
  <2>. QED  BY <2>1, FS_Subset, FS_CardinalityType
<1>3. SpentOnce' /\ SessionsEarned' /\ OfOneSignIn'
  <2>1. SpentOnce'
    BY <1>1, <1>2, SignInAssumption DEF SignInv, SpentOnce
  <2>2. SessionsEarned'
    BY <1>1 DEF SignInv, SessionsEarned
  <2>3. OfOneSignIn'
    BY <1>1, <1>2 DEF SignInv, OfOneSignIn
  <2>. QED  BY <2>1, <2>2, <2>3
<1>4. CASE Matching(link, g) # {}
  <2>1. sigCalls' = [sigCalls EXCEPT ![q] = call] /\ sigState' = sigState
    BY <1>4 DEF SignVerify
  <2>2. PICK c \in sigPending : c.token = link.token /\ c.gate = g /\ c.host = link.host
    BY <1>4 DEF Matching
  <2>3. link.gate = g /\ link.browser = b
    BY <1>1, <2>2 DEF SignInv, OfOneSignIn, InItsBrowser, Links
  <2>4. call \in ExchangeCalls /\ call.pc = "exchange" /\ call.link = link /\ call.browser = b /\ call.gate = g
        /\ call.host = link.host
    BY <1>1 DEF SignInv, SignTypes, ExchangeCalls, Links
  <2>. HIDE DEF call
  <2>5. \A r \in Calls : sigCalls'[r] = IF r = q THEN call ELSE sigCalls[r]
    BY <2>1 DEF SignInv, SignTypes
  <2>6. SignTypes'
    BY <1>1, <1>2, <2>1, <2>4 DEF SignInv, SignTypes
  <2>7. Numbered'
    BY <1>1, <1>2, <2>4, <2>5 DEF SignInv, Numbered
  <2>8. InItsBrowser'
    BY <1>1, <2>1 DEF SignInv, InItsBrowser
  <2>9. Confirming'
    BY <1>1, <2>3, <2>4, <2>5 DEF SignInv, Confirming
  <2>10. IdentityEarned'
    BY <1>1, <2>4, <2>5 DEF SignInv, IdentityEarned
  <2>11. Unspent'
    <3>1. sigSpent[link.token] = 0 /\ \A r \in Calls : ~Exchanging(r, link.token)
      BY <2>2 DEF SignInv, Unspent
    <3>2. \A r \in Calls : \A t : Exchanging(r, t)' <=> IF r = q THEN t = link.token ELSE Exchanging(r, t)
      BY <2>4, <2>5 DEF Exchanging
    <3>3. \A d \in sigPending' : sigSpent'[d.token] = 0 /\ \A r \in Calls : ~Exchanging(r, d.token)'
      BY <1>1, <1>2, <3>2 DEF SignInv, Unspent
    <3>4. \A t \in sigTokens : t.token # link.token
      BY DEF SignInv, Numbered
    <3>5. \A t \in sigTokens' : sigSpent'[t.token] = 0 /\ \A r \in Calls : ~Exchanging(r, t.token)'
      BY <1>1, <3>2, <3>4 DEF SignInv, Unspent
    <3>6. ASSUME NEW r \in Calls, sigCalls'[r].pc = "exchange"
          PROVE  /\ sigSpent'[sigCalls'[r].link.token] = 0
                 /\ \A u \in Calls \ {r} : ~Exchanging(u, sigCalls[r].link.token)'
      <4>1. CASE r = q
        BY <1>1, <2>4, <2>5, <3>1, <3>2, <4>1
      <4>2. CASE r # q
        <5>1. sigCalls'[r] = sigCalls[r] /\ sigCalls[r].pc = "exchange"
          BY <2>5, <3>6, <4>2
        <5>2. sigCalls[r].link.token # link.token
          BY <3>1, <5>1 DEF Exchanging
        <5>. QED  BY <1>1, <3>2, <5>1, <5>2, <4>2 DEF SignInv, Unspent
      <4>. QED  BY <4>1, <4>2
    <3>. QED  BY <1>1, <3>3, <3>5, <3>6 DEF SignInv, Unspent
  <2>. QED  BY <1>3, <2>6, <2>7, <2>8, <2>9, <2>10, <2>11 DEF SignInv
<1>5. CASE Matching(link, g) = {}
  <2>1. sigCalls' = sigCalls /\ sigState' = [sigState EXCEPT ![b][link.host][Kind(g)] = 0]
    BY <1>5 DEF SignVerify
  <2>2. SignTypes'
    BY <1>1, <1>2, <2>1, SignInAssumption DEF SignInv, SignTypes
  <2>3. Numbered' /\ Confirming' /\ IdentityEarned'
    BY <1>1, <1>2, <2>1 DEF SignInv, Numbered, Confirming, IdentityEarned
  <2>4. InItsBrowser'
    BY <1>1, <2>1, ClearedState DEF SignInv
  <2>5. Unspent'
    BY <1>1, <1>2, <2>1 DEF SignInv, Unspent, Exchanging
  <2>. QED  BY <1>3, <2>2, <2>3, <2>4, <2>5 DEF SignInv
<1>. QED  BY <1>4, <1>5

(* A request that ends without a session leaves everything else as it was.      *)
LEMMA EndCall ==
    ASSUME SignInv, NEW q \in Calls, sigCalls' = [sigCalls EXCEPT ![q] = NoCall],
           UNCHANGED <<sigPending, sigTokens, sigSpent, sigStarts, sigCallbacks, sigSigned>>
    PROVE  /\ sigCalls' \in [Calls -> ExchangeCalls \cup HandedCalls \cup {NoCall}]
           /\ Numbered' /\ Confirming' /\ IdentityEarned' /\ Unspent'
<1>1. \A r \in Calls : sigCalls'[r] = IF r = q THEN NoCall ELSE sigCalls[r]
  BY DEF SignInv, SignTypes
<1>2. NoCall.pc = "none"
  BY DEF NoCall
<1>3. sigCalls' \in [Calls -> ExchangeCalls \cup HandedCalls \cup {NoCall}]
  BY DEF SignInv, SignTypes
<1>. HIDE DEF NoCall
<1>4. Numbered' /\ Confirming' /\ IdentityEarned'
  BY <1>1, <1>2 DEF SignInv, Numbered, Confirming, IdentityEarned
<1>5. \A r \in Calls : \A t : Exchanging(r, t)' => r # q /\ Exchanging(r, t)
  BY <1>1, <1>2 DEF Exchanging
<1>6. Unspent'
  <2>1. \A c \in sigPending' : sigSpent'[c.token] = 0 /\ \A r \in Calls : ~Exchanging(r, c.token)'
    BY <1>5 DEF SignInv, Unspent
  <2>2. \A t \in sigTokens' : sigSpent'[t.token] = 0 /\ \A r \in Calls : ~Exchanging(r, t.token)'
    BY <1>5 DEF SignInv, Unspent
  <2>3. ASSUME NEW r \in Calls, sigCalls'[r].pc = "exchange"
        PROVE  /\ sigSpent'[sigCalls'[r].link.token] = 0
               /\ \A u \in Calls \ {r} : ~Exchanging(u, sigCalls[r].link.token)'
    <3>1. r # q /\ sigCalls'[r] = sigCalls[r]
      BY <1>1, <1>2, <2>3
    <3>. QED  BY <1>5, <2>3, <3>1 DEF SignInv, Unspent
  <2>. QED  BY <2>1, <2>2, <2>3 DEF SignInv, Unspent
<1>. QED  BY <1>3, <1>4, <1>6

LEMMA SignExchangeFailsInv ==
    ASSUME SignInv, NEW q \in Calls, SignExchangeFails(q)
    PROVE  SignInv'
<1>. DEFINE call == sigCalls[q]
<1>1. /\ call \in ExchangeCalls /\ call.browser \in Browsers /\ call.host \in Hosts /\ call.gate \in Gates
      /\ Kind(call.gate) \in GateKinds
      /\ sigState' = [sigState EXCEPT ![call.browser][call.host][Kind(call.gate)] = 0]
      /\ sigCalls' = [sigCalls EXCEPT ![q] = NoCall]
      /\ UNCHANGED <<sigOwner, sigAllow, sigPending, sigSessions, sigCallbacks, sigTokens,
                     sigClock, sigStarts, sigRescans, sigSigned, sigSpent>>
  BY NoExchange, KindType DEF SignExchangeFails, SignInv, SignTypes, ExchangeCalls
<1>2. SignTypes'
  BY <1>1, EndCall, SignInAssumption DEF SignInv, SignTypes
<1>3. Numbered' /\ Confirming' /\ IdentityEarned' /\ Unspent'
  BY <1>1, EndCall
<1>4. InItsBrowser'
  BY <1>1, ClearedState DEF SignInv
<1>5. OfOneSignIn' /\ SessionsEarned' /\ SpentOnce'
  BY <1>1 DEF SignInv, OfOneSignIn, SessionsEarned, SpentOnce
<1>. QED  BY <1>2, <1>3, <1>4, <1>5 DEF SignInv

(* What an identity is confirmed by stays confirmed, and what is spent by this   *)
(* exchange was spent by no other.                                              *)
LEMMA SignExchangeInv ==
    ASSUME SignInv, NEW q \in Calls, SignExchange(q)
    PROVE  SignInv'
<1>. DEFINE call == sigCalls[q]
            link == sigCalls[q].link
            email == sigCalls[q].link.email
<1>1. /\ call \in ExchangeCalls /\ call.pc = "exchange" /\ link \in Links /\ email \in Emails
      /\ call.browser \in Browsers /\ call.host \in Hosts /\ call.gate \in Gates
      /\ Kind(call.gate) \in GateKinds /\ link.token \in 1 .. MaxStarts
      /\ call.allow \in SUBSET Emails
      /\ sigState' = [sigState EXCEPT ![call.browser][call.host][Kind(call.gate)] = 0]
      /\ UNCHANGED <<sigOwner, sigAllow, sigPending, sigCallbacks, sigTokens, sigClock,
                     sigStarts, sigRescans, sigFaults>>
  BY NoExchange, KindType DEF SignExchange, SignInv, SignTypes, ExchangeCalls, Links
<1>2. sigState' \in [Browsers -> [Hosts -> [GateKinds -> 0 .. MaxStarts]]]
  BY <1>1, SignInAssumption DEF SignInv, SignTypes
<1>3. InItsBrowser'
  BY <1>1, ClearedState DEF SignInv
<1>4. OfOneSignIn'
  BY <1>1 DEF SignInv, OfOneSignIn
<1>5. CASE ~(email \in call.allow \/ call.gate \in LoginApps)
  <2>1. sigCalls' = [sigCalls EXCEPT ![q] = NoCall] /\ UNCHANGED <<sigSpent, sigSigned, sigSessions>>
    BY <1>5 DEF SignExchange
  <2>2. SignTypes'
    BY <1>1, <1>2, <2>1, EndCall DEF SignInv, SignTypes
  <2>3. Numbered' /\ Confirming' /\ IdentityEarned' /\ Unspent'
    BY <1>1, <2>1, EndCall
  <2>4. SessionsEarned' /\ SpentOnce'
    BY <1>1, <2>1 DEF SignInv, SessionsEarned, SpentOnce
  <2>. QED  BY <1>3, <1>4, <2>2, <2>3, <2>4 DEF SignInv
<1>6. CASE email \in call.allow \/ call.gate \in LoginApps
  <2>. DEFINE who == <<link.browser, link.gate, link.host, email>>
  <2>1. sigSpent' = [sigSpent EXCEPT ![link.token] = @ + 1] /\ sigSigned' = sigSigned \cup {who}
    BY <1>6 DEF SignExchange
  <2>2. who = <<call.browser, call.gate, call.host, email>>
    BY <1>1 DEF SignInv, Confirming
  <2>3. sigSpent[link.token] = 0 /\ \A r \in Calls \ {q} : ~Exchanging(r, link.token)
    BY <1>1 DEF SignInv, Unspent
  <2>4. \A t \in 1 .. MaxStarts : sigSpent'[t] = IF t = link.token THEN 1 ELSE sigSpent[t]
    BY <1>1, <2>1, <2>3 DEF SignInv, SignTypes
  <2>5. sigSpent' \in [1 .. MaxStarts -> Nat]
    BY <1>1, <2>1 DEF SignInv, SignTypes
  <2>6. SpentOnce'
    BY <1>1, <2>4 DEF SignInv, SpentOnce
  <2>7. PICK new \in HandedCalls \cup {NoCall} :
          /\ sigCalls' = [sigCalls EXCEPT ![q] = new]
          /\ new.pc = "handed" => /\ new.browser = call.browser /\ new.host = call.host
                                  /\ new.gate = call.gate /\ new.as = email /\ new.gate \in LoginApps
    <3>1. CASE call.gate \in LoginApps
      <4>. DEFINE handed == [pc |-> "handed", browser |-> call.browser, host |-> call.host,
                             gate |-> call.gate, allow |-> call.allow, as |-> email]
      <4>1. handed \in HandedCalls
        BY <1>1 DEF HandedCalls
      <4>2. sigCalls' = [sigCalls EXCEPT ![q] = handed]
        BY <1>6, <3>1 DEF SignExchange
      <4>3. handed.browser = call.browser /\ handed.host = call.host /\ handed.gate = call.gate
            /\ handed.as = email
        OBVIOUS
      <4>. HIDE DEF handed
      <4>. QED  BY <3>1, <4>1, <4>2, <4>3
    <3>2. CASE call.gate \notin LoginApps
      <4>1. sigCalls' = [sigCalls EXCEPT ![q] = NoCall]
        BY <1>6, <3>2 DEF SignExchange
      <4>2. NoCall.pc # "handed"
        BY DEF NoCall
      <4>. QED  BY <4>1, <4>2
    <3>. QED  BY <3>1, <3>2
  <2>8. new.pc # "exchange" /\ \A r \in Calls : sigCalls'[r] = IF r = q THEN new ELSE sigCalls[r]
    BY <2>7 DEF SignInv, SignTypes, HandedCalls, NoCall
  <2>9. sigSessions' \in [Browsers -> [Hosts -> SessionRecords \cup {NoSession}]] /\ SessionsEarned'
    <3>1. CASE call.gate \in LoginApps
      <4>1. sigSessions' = sigSessions
        BY <1>6, <3>1 DEF SignExchange
      <4>. QED  BY <4>1, <2>1 DEF SignInv, SignTypes, SessionsEarned
    <3>2. CASE call.gate \notin LoginApps
      <4>. DEFINE s == [gate |-> call.gate, email |-> email, expires |-> sigClock + SessionTTL]
      <4>1. sigSessions' = [sigSessions EXCEPT ![call.browser][call.host] = s]
        BY <1>6, <3>2 DEF SignExchange
      <4>2. s \in SessionRecords /\ s.gate = call.gate /\ s.email = email
        BY <1>1, SignInAssumption DEF SignInv, SignTypes, SessionRecords
      <4>. HIDE DEF s
      <4>3. sigSessions' \in [Browsers -> [Hosts -> SessionRecords \cup {NoSession}]]
        BY <1>1, <4>1, <4>2 DEF SignInv, SignTypes
      <4>4. \A b \in Browsers, h \in Hosts :
              sigSessions'[b][h] = IF b = call.browser /\ h = call.host THEN s ELSE sigSessions[b][h]
        BY <1>1, <4>1 DEF SignInv, SignTypes
      <4>5. SessionsEarned'
        BY <2>1, <2>2, <4>2, <4>4 DEF SignInv, SessionsEarned
      <4>. QED  BY <4>3, <4>5
    <3>. QED  BY <3>1, <3>2
  <2>10. SignTypes'
    BY <1>1, <1>2, <2>5, <2>7, <2>9 DEF SignInv, SignTypes
  <2>11. Numbered' /\ Confirming'
    BY <1>1, <2>8 DEF SignInv, Numbered, Confirming
  <2>12. IdentityEarned'
    BY <2>1, <2>2, <2>7, <2>8 DEF SignInv, IdentityEarned
  <2>13. Unspent'
    <3>1. \A r \in Calls : \A t : Exchanging(r, t)' => r # q /\ Exchanging(r, t)
      BY <2>8 DEF Exchanging
    <3>2. \A c \in sigPending : c.token # link.token /\ c.token \in 1 .. MaxStarts
      BY <1>1 DEF SignInv, Unspent, Exchanging, SignTypes, Challenges
    <3>3. \A t \in sigTokens : t.token # link.token /\ t.token \in 1 .. MaxStarts
      BY <1>1 DEF SignInv, Unspent, Exchanging, SignTypes
    <3>4. \A c \in sigPending' : sigSpent'[c.token] = 0 /\ \A r \in Calls : ~Exchanging(r, c.token)'
      BY <1>1, <2>4, <3>1, <3>2 DEF SignInv, Unspent
    <3>5. \A t \in sigTokens' : sigSpent'[t.token] = 0 /\ \A r \in Calls : ~Exchanging(r, t.token)'
      BY <1>1, <2>4, <3>1, <3>3 DEF SignInv, Unspent
    <3>6. ASSUME NEW r \in Calls, sigCalls'[r].pc = "exchange"
          PROVE  /\ sigSpent'[sigCalls'[r].link.token] = 0
                 /\ \A u \in Calls \ {r} : ~Exchanging(u, sigCalls[r].link.token)'
      <4>1. r # q /\ sigCalls'[r] = sigCalls[r] /\ sigCalls[r].pc = "exchange"
        BY <2>8, <3>6
      <4>2. sigCalls[r].link.token # link.token
        BY <2>3, <4>1 DEF Exchanging
      <4>3. sigCalls[r].link.token \in 1 .. MaxStarts
        BY <4>1, NoExchange DEF SignInv, SignTypes, ExchangeCalls, Links
      <4>. QED  BY <2>4, <3>1, <4>1, <4>2, <4>3 DEF SignInv, Unspent
    <3>7. \A t \in 1 .. MaxStarts : t > sigStarts' => sigSpent'[t] = 0
      <4>1. link.token <= sigStarts
        BY <1>1 DEF SignInv, Numbered
      <4>2. sigStarts' = sigStarts /\ sigStarts \in Nat
        BY <1>1 DEF SignInv, SignTypes
      <4>3. \A t \in 1 .. MaxStarts : t > sigStarts => sigSpent[t] = 0 /\ t # link.token
        BY <1>1, <4>1, <4>2 DEF SignInv, Unspent
      <4>. QED  BY <2>4, <4>2, <4>3
    <3>. QED  BY <3>4, <3>5, <3>6, <3>7 DEF Unspent
  <2>. QED  BY <1>3, <1>4, <2>6, <2>9, <2>10, <2>11, <2>12, <2>13 DEF SignInv
<1>. QED  BY <1>5, <1>6

LEMMA SignRequestInv ==
    ASSUME SignInv, NEW q \in Calls, NEW b \in Browsers, NEW h \in Hosts, SignRequest(q, b, h)
    PROVE  SignInv'
<1>. DEFINE s == sigSessions[b][h]
            call == [pc |-> "handed", browser |-> b, host |-> h, gate |-> sigOwner[h],
                     allow |-> sigAllow[sigOwner[h]], as |-> s.email]
<1>1. /\ s \in SessionRecords /\ s # NoSession /\ s.gate = sigOwner[h]
      /\ s.email \in sigAllow[sigOwner[h]] \/ s.email = CliEmail
      /\ sigOwner[h] \in Gates /\ sigAllow[sigOwner[h]] \in SUBSET Emails
  BY DEF SignRequest, Admitted, SessionGood, SignInv, SignTypes
<1>2. sigCalls[q] = NoCall /\ sigCalls' = [sigCalls EXCEPT ![q] = call]
      /\ UNCHANGED <<sigOwner, sigAllow, sigPending, sigState, sigSessions, sigCallbacks, sigTokens,
                     sigClock, sigStarts, sigRescans, sigFaults, sigSigned, sigSpent>>
  BY DEF SignRequest
<1>3. call \in HandedCalls
  BY <1>1 DEF HandedCalls, SessionRecords
<1>4. /\ call.pc = "handed" /\ <<call.browser, call.gate, call.host, call.as>> \in sigSigned
      /\ call.as \in call.allow \/ call.as = CliEmail
  BY <1>1 DEF SignInv, SessionsEarned
<1>. HIDE DEF call
<1>5. \A r \in Calls : sigCalls'[r] = IF r = q THEN call ELSE sigCalls[r]
  BY <1>2 DEF SignInv, SignTypes
<1>6. SignTypes'
  BY <1>2, <1>3 DEF SignInv, SignTypes
<1>7. Numbered' /\ Confirming' /\ OfOneSignIn' /\ InItsBrowser' /\ SessionsEarned' /\ SpentOnce'
  BY <1>2, <1>4, <1>5 DEF SignInv, Numbered, Confirming, OfOneSignIn, InItsBrowser, SessionsEarned, SpentOnce
<1>8. IdentityEarned'
  BY <1>2, <1>4, <1>5 DEF SignInv, IdentityEarned
<1>9. Unspent'
  <2>1. \A r \in Calls : \A t : Exchanging(r, t)' => r # q /\ Exchanging(r, t)
    BY <1>4, <1>5 DEF Exchanging
  <2>2. ASSUME NEW r \in Calls, sigCalls'[r].pc = "exchange"
        PROVE  /\ sigSpent'[sigCalls'[r].link.token] = 0
               /\ \A u \in Calls \ {r} : ~Exchanging(u, sigCalls[r].link.token)'
    <3>1. r # q /\ sigCalls'[r] = sigCalls[r]
      BY <1>4, <1>5, <2>2
    <3>. QED  BY <1>2, <2>1, <2>2, <3>1 DEF SignInv, Unspent
  <2>. QED  BY <1>2, <2>1, <2>2 DEF SignInv, Unspent
<1>. QED  BY <1>6, <1>7, <1>8, <1>9 DEF SignInv

LEMMA SignAnsweredInv ==
    ASSUME SignInv, NEW q \in Calls, SignAnswered(q)
    PROVE  SignInv'
<1>1. sigCalls' = [sigCalls EXCEPT ![q] = NoCall]
      /\ UNCHANGED <<sigOwner, sigAllow, sigPending, sigState, sigSessions, sigCallbacks, sigTokens,
                     sigClock, sigStarts, sigRescans, sigFaults, sigSigned, sigSpent>>
  BY DEF SignAnswered
<1>2. SignTypes'
  BY <1>1, EndCall DEF SignInv, SignTypes
<1>3. Numbered' /\ Confirming' /\ IdentityEarned' /\ Unspent'
  BY <1>1, EndCall
<1>4. OfOneSignIn' /\ InItsBrowser' /\ SessionsEarned' /\ SpentOnce'
  BY <1>1 DEF SignInv, OfOneSignIn, InItsBrowser, SessionsEarned, SpentOnce
<1>. QED  BY <1>2, <1>3, <1>4 DEF SignInv

LEMMA SignOutInv ==
    ASSUME SignInv, NEW b \in Browsers, NEW h \in Hosts, SignOut(b, h)
    PROVE  SignInv'
<1>1. sigSessions' = [sigSessions EXCEPT ![b][h] = NoSession]
      /\ UNCHANGED <<sigOwner, sigAllow, sigPending, sigState, sigCallbacks, sigTokens, sigCalls,
                     sigClock, sigStarts, sigRescans, sigFaults, sigSigned, sigSpent>>
  BY DEF SignOut
<1>2. SignTypes'
  BY <1>1 DEF SignInv, SignTypes
<1>3. \A b1 \in Browsers, h1 \in Hosts :
        sigSessions'[b1][h1] = IF b1 = b /\ h1 = h THEN NoSession ELSE sigSessions[b1][h1]
  BY <1>1 DEF SignInv, SignTypes
<1>4. SessionsEarned'
  BY <1>1, <1>3 DEF SignInv, SessionsEarned
<1>5. Numbered' /\ OfOneSignIn' /\ InItsBrowser' /\ Confirming'
  BY <1>1 DEF SignInv, Numbered, OfOneSignIn, InItsBrowser, Confirming
<1>6. IdentityEarned' /\ SpentOnce' /\ Unspent'
  BY <1>1 DEF SignInv, IdentityEarned, SpentOnce, Unspent, Exchanging
<1>. QED  BY <1>2, <1>4, <1>5, <1>6 DEF SignInv

LEMMA CliIssueInv ==
    ASSUME SignInv, CliIssue
    PROVE  SignInv'
<1>. USE SignInAssumption
<1>. DEFINE new == [token |-> sigStarts + 1, expires |-> sigClock + StateTTL]
<1>1. /\ sigStarts \in Nat /\ sigStarts < MaxStarts /\ sigStarts' = sigStarts + 1
      /\ sigTokens' \subseteq sigTokens \cup {new}
      /\ UNCHANGED <<sigOwner, sigAllow, sigPending, sigState, sigSessions, sigCallbacks, sigCalls,
                     sigClock, sigRescans, sigFaults, sigSigned, sigSpent>>
  BY DEF CliIssue, SignInv, SignTypes
<1>2. new \in [token : 1 .. MaxStarts, expires : Nat] /\ new.token = sigStarts + 1
  BY <1>1 DEF SignInv, SignTypes
<1>. HIDE DEF new
<1>3. SignTypes'
  BY <1>1, <1>2 DEF SignInv, SignTypes
<1>4. Numbered'
  <2>1. \A l \in sigCallbacks : l.token \in Nat /\ l.token <= sigStarts
    BY DEF SignInv, Numbered, SignTypes, Links
  <2>2. \A c \in sigPending : c.token \in Nat /\ c.token <= sigStarts
    BY DEF SignInv, Numbered, SignTypes, Challenges
  <2>3. \A t \in sigTokens : t.token \in Nat /\ t.token <= sigStarts
    BY DEF SignInv, Numbered, SignTypes
  <2>. QED  BY <1>1, <1>2, <2>1, <2>2, <2>3 DEF SignInv, Numbered
<1>5. InItsBrowser'
  BY <1>1 DEF SignInv, InItsBrowser, SignTypes
<1>6. OfOneSignIn' /\ SessionsEarned' /\ Confirming' /\ IdentityEarned' /\ SpentOnce'
  BY <1>1 DEF SignInv, OfOneSignIn, SessionsEarned, Confirming, IdentityEarned, SpentOnce
<1>7. Unspent'
  <2>1. sigSpent[new.token] = 0
    BY <1>1, <1>2 DEF SignInv, Unspent
  <2>2. \A q \in Calls : ~Exchanging(q, new.token)
    BY <1>1, <1>2 DEF SignInv, Numbered, SignTypes, Links, Exchanging
  <2>. QED  BY <1>1, <2>1, <2>2 DEF SignInv, Unspent, Exchanging
<1>. QED  BY <1>3, <1>4, <1>5, <1>6, <1>7 DEF SignInv

LEMMA CliLoginInv ==
    ASSUME SignInv, NEW b \in Browsers, NEW t \in sigTokens, CliLogin(b, t)
    PROVE  SignInv'
<1>. USE SignInAssumption
<1>1. /\ sigTokens' = sigTokens \ {t} /\ t.token \in 1 .. MaxStarts
      /\ UNCHANGED <<sigOwner, sigAllow, sigPending, sigState, sigCallbacks, sigCalls,
                     sigClock, sigStarts, sigRescans, sigFaults>>
  BY DEF CliLogin, SignInv, SignTypes
<1>2. Numbered' /\ OfOneSignIn' /\ InItsBrowser' /\ Confirming'
  BY <1>1 DEF SignInv, Numbered, OfOneSignIn, InItsBrowser, Confirming
<1>3. CASE ~(t.expires > sigClock)
  <2>1. UNCHANGED <<sigSpent, sigSigned, sigSessions>>
    BY <1>3 DEF CliLogin
  <2>2. SignTypes'
    BY <1>1, <2>1 DEF SignInv, SignTypes
  <2>3. SessionsEarned' /\ IdentityEarned' /\ SpentOnce'
    BY <1>1, <2>1 DEF SignInv, SessionsEarned, IdentityEarned, SpentOnce
  <2>4. Unspent'
    BY <1>1, <2>1 DEF SignInv, Unspent, Exchanging
  <2>. QED  BY <1>2, <2>2, <2>3, <2>4 DEF SignInv
<1>4. CASE t.expires > sigClock
  <2>. DEFINE s == [gate |-> Console, email |-> CliEmail, expires |-> sigClock + SessionTTL]
              who == <<b, Console, ConsoleHost, CliEmail>>
  <2>1. /\ sigSpent' = [sigSpent EXCEPT ![t.token] = @ + 1]
        /\ sigSigned' = sigSigned \cup {who}
        /\ sigSessions' = [sigSessions EXCEPT ![b][ConsoleHost] = s]
    BY <1>4 DEF CliLogin
  <2>2. s \in SessionRecords /\ s.gate = Console /\ s.email = CliEmail
    BY DEF SignInv, SignTypes, SessionRecords, Gates
  <2>. HIDE DEF s
  <2>3. \A b1 \in Browsers, h1 \in Hosts :
          sigSessions'[b1][h1] = IF b1 = b /\ h1 = ConsoleHost THEN s ELSE sigSessions[b1][h1]
    BY <2>1 DEF SignInv, SignTypes
  <2>4. \A u \in 1 .. MaxStarts : sigSpent'[u] = IF u = t.token THEN 1 ELSE sigSpent[u]
    BY <1>1, <2>1 DEF SignInv, SignTypes, Unspent
  <2>5. SignTypes'
    <3>1. sigSessions' \in [Browsers -> [Hosts -> SessionRecords \cup {NoSession}]]
      BY <2>1, <2>2 DEF SignInv, SignTypes
    <3>2. sigSpent' \in [1 .. MaxStarts -> Nat]
      BY <1>1, <2>1 DEF SignInv, SignTypes
    <3>. QED  BY <1>1, <3>1, <3>2 DEF SignInv, SignTypes
  <2>6. SessionsEarned'
    BY <2>1, <2>2, <2>3 DEF SignInv, SessionsEarned
  <2>7. IdentityEarned'
    BY <1>1, <2>1 DEF SignInv, IdentityEarned
  <2>8. SpentOnce'
    BY <1>1, <2>4 DEF SignInv, SpentOnce
  <2>9. Unspent'
    <3>1. \A c \in sigPending : c.token # t.token /\ c.token \in 1 .. MaxStarts
      BY DEF SignInv, Numbered, SignTypes, Challenges
    <3>2. \A u \in sigTokens' : u.token # t.token /\ u.token \in 1 .. MaxStarts /\ u \in sigTokens
      BY <1>1 DEF SignInv, Numbered, SignTypes
    <3>3. ASSUME NEW q \in Calls, sigCalls[q].pc = "exchange"
          PROVE  sigCalls[q].link.token # t.token /\ sigCalls[q].link.token \in 1 .. MaxStarts
      BY <3>3 DEF SignInv, Unspent, Exchanging, Numbered, SignTypes, Links
    <3>4. t.token <= sigStarts /\ sigStarts \in Nat
      BY DEF SignInv, Numbered, SignTypes
    <3>5. \A u \in 1 .. MaxStarts : u > sigStarts => sigSpent'[u] = 0
      BY <1>1, <2>4, <3>4 DEF SignInv, Unspent
    <3>. QED  BY <1>1, <2>4, <3>1, <3>2, <3>3, <3>5 DEF SignInv, Unspent, Exchanging
  <2>. QED  BY <1>2, <2>5, <2>6, <2>7, <2>8, <2>9 DEF SignInv
<1>. QED  BY <1>3, <1>4

LEMMA SignWorldInv ==
    ASSUME SignInv, SignRescan \/ SignTick \/ UNCHANGED sigVars
    PROVE  SignInv'
<1>1. UNCHANGED <<sigPending, sigState, sigSessions, sigCallbacks, sigTokens, sigCalls,
                  sigStarts, sigSigned, sigSpent>>
  BY DEF SignRescan, SignTick, sigVars
<1>2. SignTypes'
  <2>1. CASE SignRescan
    <3>1. UNCHANGED sigClock
      BY <2>1 DEF SignRescan
    <3>2. ASSUME NEW g \in AuthApps, NEW e \in Emails, UNCHANGED sigOwner,
                 sigAllow' = [sigAllow EXCEPT ![g] = IF e \in @ THEN @ \ {e} ELSE @ \union {e}]
          PROVE  sigAllow' \in [Gates -> SUBSET Emails]
      BY <3>2 DEF SignInv, SignTypes, Gates
    <3>3. ASSUME NEW h \in Hosts, NEW g \in Gates, sigOwner' = [sigOwner EXCEPT ![h] = g], UNCHANGED sigAllow
          PROVE  sigOwner' \in [Hosts -> Gates]
      BY <3>3 DEF SignInv, SignTypes
    <3>4. sigOwner' \in [Hosts -> Gates] /\ sigAllow' \in [Gates -> SUBSET Emails]
      BY <2>1, <3>2, <3>3 DEF SignRescan, SignInv, SignTypes
    <3>. QED  BY <1>1, <3>1, <3>4 DEF SignInv, SignTypes
  <2>2. CASE SignTick \/ UNCHANGED sigVars
    BY <1>1, <2>2 DEF SignTick, sigVars, SignInv, SignTypes
  <2>. QED  BY <2>1, <2>2
<1>3. Numbered' /\ OfOneSignIn' /\ InItsBrowser' /\ Confirming'
  BY <1>1 DEF SignInv, Numbered, OfOneSignIn, InItsBrowser, Confirming
<1>4. SessionsEarned' /\ IdentityEarned' /\ SpentOnce' /\ Unspent'
  BY <1>1 DEF SignInv, SessionsEarned, IdentityEarned, SpentOnce, Unspent, Exchanging
<1>. QED  BY <1>2, <1>3, <1>4 DEF SignInv

LEMMA SignRestartInv ==
    ASSUME SignInv, SignRestart
    PROVE  SignInv'
<1>1. /\ sigPending' = {} /\ sigTokens' = {} /\ sigCalls' = [q \in Calls |-> NoCall]
      /\ UNCHANGED <<sigOwner, sigAllow, sigState, sigSessions, sigCallbacks, sigClock, sigStarts,
                     sigRescans, sigSigned, sigSpent>>
  BY DEF SignRestart
<1>2. SignTypes'
  BY <1>1, FS_EmptySet DEF SignInv, SignTypes
<1>3. Numbered' /\ OfOneSignIn' /\ InItsBrowser' /\ Confirming'
  BY <1>1 DEF SignInv, Numbered, OfOneSignIn, InItsBrowser, Confirming, NoCall
<1>4. SessionsEarned' /\ IdentityEarned' /\ Unspent'
  BY <1>1 DEF SignInv, SessionsEarned, IdentityEarned, Unspent, NoCall
<1>5. SpentOnce'
  BY <1>1, FS_EmptySet, SignInAssumption DEF SignInv, SpentOnce
<1>. QED  BY <1>2, <1>3, <1>4, <1>5 DEF SignInv

LEMMA SignStepInv == SignInv /\ [SignNext]_sigVars => SignInv'
<1>. SUFFICES ASSUME SignInv, [SignNext]_sigVars PROVE SignInv'
  OBVIOUS
<1>1. ASSUME NEW b \in Browsers, NEW h \in Hosts, SignStart(b, h) \/ SignOut(b, h) PROVE SignInv'
  BY <1>1, SignStartInv, SignOutInv
<1>2. ASSUME NEW b \in Browsers, NEW t \in sigTokens, CliLogin(b, t) PROVE SignInv'
  BY <1>2, CliLoginInv
<1>3. ASSUME NEW q \in Calls, NEW b \in Browsers, NEW h \in Hosts, SignRequest(q, b, h) PROVE SignInv'
  BY <1>3, SignRequestInv
<1>4. ASSUME NEW q \in Calls, NEW b \in Browsers, NEW link \in sigCallbacks, SignVerify(q, b, link)
      PROVE  SignInv'
  BY <1>4, SignVerifyInv
<1>5. ASSUME NEW q \in Calls, SignExchange(q) \/ SignExchangeFails(q) \/ SignAnswered(q) PROVE SignInv'
  BY <1>5, SignExchangeInv, SignExchangeFailsInv, SignAnsweredInv
<1>6. CASE CliIssue
  BY <1>6, CliIssueInv
<1>7. CASE SignRescan \/ SignTick \/ UNCHANGED sigVars
  BY <1>7, SignWorldInv
<1>8. CASE SignRestart
  BY <1>8, SignRestartInv
<1>. QED  BY <1>1, <1>2, <1>3, <1>4, <1>5, <1>6, <1>7, <1>8, Zenon DEF SignNext

(* Nobody is signed in as somebody else or into another gate, and a challenge *)
(* opens one session at most, however callbacks, restarts, sign-outs and      *)
(* expiries interleave (authcog.Callback, verify, exchange, cliLogin).        *)
THEOREM SignedInOnceAsThemselves == SignSpec => []SignInSound
<1>1. SignInv => SignInSound
  BY DEF SignInv, SignInSound
<1>. QED  BY <1>1, SignInitInv, SignStepInv, PTL DEF SignSpec

-------------------------------------------------------------------------------
(* Gateway.  The inductive invariant says of a request at each of its stops   *)
(* which walls it has come through.                                           *)

(* No stage in front turned the request away.                                   *)
LetThrough(r, a) ==
    /\ Canonical(r, a) = "next" /\ Allow(r, a) = "next" /\ Block(r, a) = "next"
    /\ PublicHealth(r, a) = "next" /\ AuthCog(r, a) = "next" /\ SignInGate(r, a) = "next"
    /\ Authorize(r, a) = "next" /\ Maintain(r, a) = "next"

(* ... and the request came to this app.                                        *)
Came(r) == (Cloudflare => r.from = "edge") /\ r.host \in {"www", "app"}

GwPhases == {"idle", "body", "hooks", "forward", "answered"}

(* What is behind the stages is let through by all of them, with the identity   *)
(* dboss gave it; nothing is answered, woken or spilled out of turn.            *)
GwInside ==
    gwPc \in {"body", "hooks", "forward"} =>
        /\ Came(gwReq) /\ LetThrough(gwReq, gwApp)
        /\ gwIdentity = Identity(gwReq, gwApp)
        /\ gwAnswer = "none" /\ ~gwWoken

GwPastBody ==
    gwPc \in {"hooks", "forward"} => ~(On(gwApp, "maxbody") /\ gwReq.body = "over")

(* The pubsub stage answers for its two paths.                                  *)
GwPastHooks ==
    gwPc = "forward" => ~(On(gwApp, "pubsub") /\ gwReq.path \in {"client", "channel"})

GwAnswered ==
    gwPc = "answered" =>
        /\ gwAnswer \in {"file", "app", "published", "stream", "script"} \/ gwWoken =>
               Came(gwReq) /\ LetThrough(gwReq, gwApp)
        /\ gwAnswer \in {"app", "published"} => ~(On(gwApp, "maxbody") /\ gwReq.body = "over")
        /\ gwAnswer = "published" =>
               On(gwApp, "pubsub") /\ gwReq.path = "channel" /\ Has(gwReq, "token") /\ ~Got(gwReq)
        /\ gwAnswer = "stream" => Got(gwReq)
        /\ gwAnswer = "app" \/ gwWoken => ~(On(gwApp, "pubsub") /\ gwReq.path \in {"client", "channel"})
        /\ gwAnswer = "script" => gwReq.path = "client"
        /\ gwAnswer = "file" => Got(gwReq)
        /\ gwWoken => gwAnswer = "starting" /\ (On(gwApp, "button") => gwReq.method = "POST")

GwInv ==
    /\ gwPc \in GwPhases
    /\ gwPc = "idle" => gwAnswer = "none" /\ ~gwWoken /\ gwIdentity = "none"
    /\ gwPc # "idle" => gwReq \in GwRequestType
    /\ gwSpill => gwPc \in {"hooks", "forward"}
    /\ GwInside /\ GwPastBody /\ GwPastHooks /\ GwAnswered

Below == {ss \in Nat \X Nat : ss[1] < ss[2]}
LEMMA BelowWF == IsWellFoundedOn(Below, Nat)
BY NatLessThanWellFounded, Zenon DEF OpToRel, Below

LEMMA LeastNat ==
    ASSUME NEW T, T \subseteq Nat, T # {}
    PROVE  \E n \in T : \A m \in T : n <= m
<1>1. PICK n \in T : \A m \in T : ~ (<<m, n>> \in Below)
  BY BelowWF, WFMin, Zenon
<1>2. ASSUME NEW m \in T PROVE n <= m
  <2>1. <<m, n>> \in Nat \X Nat /\ <<m, n>>[1] = m /\ <<m, n>>[2] = n
    OBVIOUS
  <2>2. ~ (m < n)
    BY <2>1, <1>1 DEF Below
  <2>. QED  BY <2>1, <2>2
<1>. QED  BY <1>2


-----------------------------------------------------------------------------
(* The stages                                                                   *)

GwSaid == {"redirect", "forbidden", "blocked", "up", "down", "not allowed", "sign in", "not proved",
           "signed in", "signed out", "unauthorized", "maintenance"}

LEMMA GwStageAnswers ==
    ASSUME NEW r, NEW a
    PROVE  /\ Canonical(r, a) \in GwSaid \cup {"next"} /\ Allow(r, a) \in GwSaid \cup {"next"}
           /\ Block(r, a) \in GwSaid \cup {"next"} /\ PublicHealth(r, a) \in GwSaid \cup {"next"}
           /\ AuthCog(r, a) \in GwSaid \cup {"next"} /\ SignInGate(r, a) \in GwSaid \cup {"next"}
           /\ Authorize(r, a) \in GwSaid \cup {"next"} /\ Maintain(r, a) \in GwSaid \cup {"next"}
           /\ StaticFiles(r, a) \in {"file", "next"}
           /\ StaticFiles(r, a) = "file" => Got(r)
BY DEF GwSaid, Canonical, Allow, Block, PublicHealth, AuthCog, SignInGate, Authorize, Maintain, StaticFiles

LEMMA GwFront ==
    ASSUME NEW r, NEW a
    PROVE  /\ FrontStage(r, a) \in GwSaid \cup {"next", "file"}
           /\ FrontStage(r, a) \in {"next", "file"} => LetThrough(r, a)
           /\ FrontStage(r, a) = "file" => Got(r)
<1>. DEFINE S == Stages(r, a)
            said == {i \in 1 .. 9 : S[i] # "next"}
<1>1. /\ S[1] = Canonical(r, a) /\ S[2] = Allow(r, a) /\ S[3] = Block(r, a) /\ S[4] = PublicHealth(r, a)
      /\ S[5] = AuthCog(r, a) /\ S[6] = SignInGate(r, a) /\ S[7] = Authorize(r, a)
      /\ S[8] = Maintain(r, a) /\ S[9] = StaticFiles(r, a)
  BY DEF Stages
<1>. HIDE DEF S
<1>2. \A i \in 1 .. 8 : S[i] \in GwSaid \cup {"next"}
  <2>1. \A i \in 1 .. 8 : i = 1 \/ i = 2 \/ i = 3 \/ i = 4 \/ i = 5 \/ i = 6 \/ i = 7 \/ i = 8
    OBVIOUS
  <2>. QED  BY <1>1, <2>1, GwStageAnswers, Zenon
<1>3. S[9] \in {"file", "next"} /\ (S[9] = "file" => Got(r))
  BY <1>1, GwStageAnswers
<1>4. "next" \notin GwSaid /\ "file" \notin GwSaid
  BY DEF GwSaid
<1>5. (\A i \in 1 .. 8 : S[i] = "next") => LetThrough(r, a)
  BY <1>1 DEF LetThrough
<1>. HIDE DEF said
<1>6. CASE said = {}
  <2>1. FrontStage(r, a) = "next"
    BY <1>6 DEF FrontStage, said, S
  <2>2. \A i \in 1 .. 9 : S[i] = "next"
    BY <1>6 DEF said
  <2>. QED  BY <1>5, <2>1, <2>2
<1>7. CASE said # {}
  <2>. DEFINE first == CHOOSE i \in said : \A j \in said : i <= j
  <2>1. \E i \in said : \A j \in said : i <= j
    <3>1. said \subseteq Nat
      BY DEF said
    <3>. QED  BY <1>7, <3>1, LeastNat
  <2>2. first \in said /\ \A j \in said : first <= j
    BY <2>1
  <2>3. FrontStage(r, a) = S[first]
    BY <1>7 DEF FrontStage, said, S
  <2>. HIDE DEF first
  <2>4. first \in 1 .. 9 /\ S[first] # "next"
    BY <2>2 DEF said
  <2>5. CASE first = 9
    <3>1. \A i \in 1 .. 8 : S[i] = "next"
      BY <2>2, <2>5 DEF said
    <3>. QED  BY <1>3, <1>5, <2>3, <2>4, <2>5, <3>1
  <2>6. CASE first # 9
    <3>1. first \in 1 .. 8
      BY <2>4, <2>6
    <3>. QED  BY <1>2, <1>4, <2>3, <2>4, <3>1
  <2>. QED  BY <2>5, <2>6
<1>. QED  BY <1>6, <1>7

-----------------------------------------------------------------------------
(* Every action keeps the invariant.                                            *)

LEMMA GwInitInv == GwInit => GwInv
BY DEF GwInit, GwInv, GwPhases, GwInside, GwPastBody, GwPastHooks, GwAnswered

LEMMA GwArriveInv ==
    ASSUME GwInv, GwArrive
    PROVE  GwInv'
<1>. USE GatewayAssumption
<1>. DEFINE Answer(r, a) ==
              IF Cloudflare /\ r.from # "edge" THEN "refused"
              ELSE IF r.host = "console" THEN "console"
              ELSE IF r.path = "logo" /\ Got(r) THEN "logo"
              ELSE IF r.host = "none" THEN "not found"
              ELSE FrontStage(r, a)
<1>1. PICK r \in GwRequests, a \in GwApps :
        /\ gwReq' = r /\ gwApp' = a
        /\ IF Answer(r, a) # "next"
           THEN gwPc' = "answered" /\ gwAnswer' = Answer(r, a) /\ gwSpill' = FALSE
           ELSE /\ gwPc' = "body" /\ gwIdentity' = Identity(r, a)
                /\ UNCHANGED <<gwAnswer, gwSpill>>
  BY Zenon DEF GwArrive, Reply
<1>2. gwReq' = r /\ gwApp' = a /\ ~gwWoken' /\ r \in GwRequestType /\ gwPc = "idle" /\ gwAnswer = "none" /\ ~gwSpill
  BY <1>1 DEF GwArrive, GwInv
<1>3. \/ gwPc' = "answered" /\ ~gwSpill' /\ gwAnswer' \in GwSaid \cup {"refused", "console", "logo", "not found"}
      \/ gwPc' = "answered" /\ ~gwSpill' /\ gwAnswer' = "file" /\ Came(r) /\ LetThrough(r, a) /\ Got(r)
      \/ gwPc' = "body" /\ ~gwSpill' /\ gwAnswer' = "none" /\ gwIdentity' = Identity(r, a) /\ Came(r) /\ LetThrough(r, a)
  <2>1. CASE Cloudflare /\ r.from # "edge"
    BY <1>1, <2>1
  <2>2. CASE ~(Cloudflare /\ r.from # "edge") /\ (r.host = "console" \/ (r.path = "logo" /\ Got(r)) \/ r.host = "none")
    BY <1>1, <2>2
  <2>3. CASE ~(Cloudflare /\ r.from # "edge") /\ ~(r.host = "console" \/ (r.path = "logo" /\ Got(r)) \/ r.host = "none")
    <3>1. Came(r)
      <4>1. r.host \in {"console", "none", "www", "app"}
        BY <1>2 DEF GwRequestType
      <4>. QED  BY <2>3, <4>1 DEF Came
    <3>2. IF FrontStage(r, a) # "next"
          THEN gwPc' = "answered" /\ gwAnswer' = FrontStage(r, a) /\ ~gwSpill'
          ELSE gwPc' = "body" /\ gwIdentity' = Identity(r, a) /\ gwAnswer' = "none" /\ ~gwSpill'
      <4>1. Answer(r, a) = FrontStage(r, a)
        BY <2>3
      <4>. HIDE DEF Answer
      <4>. QED  BY <1>1, <1>2, <4>1
    <3>. QED  BY <3>1, <3>2, GwFront
  <2>. QED  BY <2>1, <2>2, <2>3
<1>. QED  BY <1>2, <1>3 DEF GwInv, GwPhases, GwInside, GwPastBody, GwPastHooks, GwAnswered, GwSaid

LEMMA GwBufferInv ==
    ASSUME GwInv, GwBuffer \/ \E answer \in {"unreadable", "no buffer"} : GwBufferFails(answer)
    PROVE  GwInv'
<1>1. gwPc = "body" /\ UNCHANGED <<gwReq, gwApp, gwIdentity, gwWoken>>
  BY DEF GwBuffer, GwBufferFails
<1>2. \/ gwPc' = "answered" /\ ~gwSpill' /\ gwAnswer' \in {"too large", "unreadable", "no buffer"}
      \/ /\ gwPc' = "hooks" /\ UNCHANGED gwAnswer
         /\ ~(On(gwApp, "maxbody") /\ gwReq.body = "over")
  BY DEF GwBuffer, GwBufferFails, Reply
<1>. QED  BY <1>1, <1>2 DEF GwInv, GwPhases, GwInside, GwPastBody, GwPastHooks, GwAnswered

LEMMA GwPubsubInv ==
    ASSUME GwInv, GwPubsub
    PROVE  GwInv'
BY DEF GwPubsub, Reply, GwInv, GwPhases, GwInside, GwPastBody, GwPastHooks, GwAnswered

LEMMA GwNotRunningInv ==
    ASSUME GwInv, GwNotRunning
    PROVE  GwInv'
BY DEF GwNotRunning, Pressed, Got, GwRequestType, Reply, GwInv, GwPhases, GwInside, GwPastBody, GwPastHooks, GwAnswered

LEMMA GwForwardInv ==
    ASSUME GwInv, NEW answer \in {"app", "error page", "bad gateway"}, GwForward(answer)
    PROVE  GwInv'
BY DEF GwForward, Reply, GwInv, GwPhases, GwInside, GwPastBody, GwPastHooks, GwAnswered

LEMMA GwDoneInv ==
    ASSUME GwInv, GwDone
    PROVE  GwInv'
BY DEF GwDone, GwInv, GwPhases, GwInside, GwPastBody, GwPastHooks, GwAnswered

LEMMA GwStepInv == GwInv /\ [GwNext]_gwVars => GwInv'
<1>. SUFFICES ASSUME GwInv, [GwNext]_gwVars PROVE GwInv'
  OBVIOUS
<1>1. CASE UNCHANGED gwVars
  BY <1>1 DEF gwVars, GwInv, GwInside, GwPastBody, GwPastHooks, GwAnswered
<1>2. CASE \E answer \in {"app", "error page", "bad gateway"} : GwForward(answer)
  BY <1>2, GwForwardInv
<1>. QED  BY <1>1, <1>2, GwArriveInv, GwBufferInv, GwPubsubInv, GwNotRunningInv, GwDoneInv, Zenon DEF GwNext

-----------------------------------------------------------------------------
(* What the stages and the identity mean.                                       *)

LEMMA GwWalls ==
    ASSUME NEW r \in GwRequestType, NEW a, Came(r), LetThrough(r, a)
    PROVE  /\ r.host = "app" \/ (r.host = "www" /\ ~On(a, "canonical"))
           /\ Cloudflare => r.from = "edge"
           /\ On(a, "allow") => "listed" \in {r.claims, r.from} /\ (Cloudflare \/ r.from = "listed")
           /\ ~(On(a, "deny") /\ r.path = "wp") /\ ~On(a, "maintenance")
           /\ \/ /\ On(a, "basic") => Has(r, "basic")
                 /\ On(a, "auth") => Has(r, "session")
              \/ On(a, "authcog") /\ (r.path = "below" \/ (r.path = "back" /\ Has(r, "proved")))
              \/ Publishes(r, a)
<1>1. /\ r.host = "app" \/ (r.host = "www" /\ ~On(a, "canonical"))
      /\ Cloudflare => r.from = "edge"
  BY DEF Came, LetThrough, Canonical
<1>2. On(a, "allow") => "listed" \in {r.claims, r.from} /\ (Cloudflare \/ r.from = "listed")
  BY DEF LetThrough, Allow, ClientIP
<1>3. ~(On(a, "deny") /\ r.path = "wp") /\ ~On(a, "maintenance")
  BY DEF LetThrough, Block, Maintain
<1>4. CASE Exempt(r, a)
  <2>1. r.path \in {"login", "back"} /\ On(a, "authcog") => r.path = "back" /\ Has(r, "proved")
    BY DEF LetThrough, AuthCog
  <2>. QED  BY <1>1, <1>2, <1>3, <1>4, <2>1 DEF Exempt
<1>5. CASE ~Exempt(r, a)
  <2>1. On(a, "basic") => Has(r, "basic")
    BY <1>5 DEF LetThrough, Authorize
  <2>2. On(a, "auth") => Has(r, "session")
    BY <1>5 DEF LetThrough, SignInGate
  <2>. QED  BY <1>1, <1>2, <1>3, <2>1, <2>2
<1>. QED  BY <1>4, <1>5

LEMMA GwIdentity ==
    ASSUME NEW r, NEW a, LetThrough(r, a), Identity(r, a) # "none"
    PROVE  IF Identity(r, a) = "profile" THEN Has(r, "proved")
           ELSE Identity(r, a) = "email" /\ Has(r, "session")
BY DEF Identity, LetThrough, AuthCog

LEMMA GwInvWalled == GwInv => Walled
<1>. SUFFICES ASSUME GwInv PROVE Walled
  OBVIOUS
<1>. DEFINE r == gwReq
            a == gwApp
            inside == gwPc \in {"body", "hooks", "forward"} \/ gwWoken
                      \/ gwAnswer \in {"file", "app", "published", "stream", "script"}
<1>1. inside => gwPc # "idle" /\ Came(r) /\ LetThrough(r, a) /\ r \in GwRequestType
  BY DEF GwInv, GwPhases, GwInside, GwAnswered
<1>2. inside /\ Publishes(r, a) =>
        On(a, "pubsub") /\ Has(r, "token") /\ r.path = "channel" /\ gwAnswer \notin {"app", "file", "stream"}
  BY DEF Publishes, GwInv, GwPhases, GwInside, GwAnswered
<1>3. gwPc = "forward" /\ gwIdentity # "none" =>
        IF gwIdentity = "profile" THEN Has(r, "proved") ELSE gwIdentity = "email" /\ Has(r, "session")
  BY GwIdentity DEF GwInv, GwInside
<1>4. gwAnswer \in {"app", "published"} => ~(On(a, "maxbody") /\ r.body = "over")
  BY DEF GwInv, GwPhases, GwInside, GwAnswered
<1>5. gwWoken /\ On(a, "button") => r.method = "POST"
  BY DEF GwInv, GwPhases, GwInside, GwAnswered
<1>6. gwSpill => gwPc \in {"hooks", "forward"}
  BY DEF GwInv
<1>7. inside =>
        /\ r.host = "app" \/ (r.host = "www" /\ ~On(a, "canonical"))
        /\ Cloudflare => r.from = "edge"
        /\ On(a, "allow") => "listed" \in {r.claims, r.from} /\ (Cloudflare \/ r.from = "listed")
        /\ ~(On(a, "deny") /\ r.path = "wp") /\ ~On(a, "maintenance")
        /\ \/ /\ On(a, "basic") => Has(r, "basic")
              /\ On(a, "auth") => Has(r, "session")
           \/ On(a, "authcog") /\ (r.path = "below" \/ (r.path = "back" /\ Has(r, "proved")))
           \/ On(a, "pubsub") /\ Has(r, "token") /\ r.path = "channel" /\ gwAnswer \notin {"app", "file", "stream"}
  <2>. HIDE DEF r, a, inside
  <2>. QED  BY <1>1, <1>2, GwWalls
<1>. QED  BY <1>3, <1>4, <1>5, <1>6, <1>7 DEF Walled

(* Whatever app a request names and whatever it carries, it reaches the       *)
(* process, the files, the channels or the start of that app only through     *)
(* the stages in front (initFilters, serve, bufferRequest, forward).          *)
THEOREM AppBehindItsWalls == GwSpec => []Walled
BY GwInitInv, GwStepInv, GwInvWalled, PTL DEF GwSpec

-------------------------------------------------------------------------------
(* Notices.  The inductive invariant says what the table of quiet periods     *)
(* remembers of the events taken in.                                          *)

NtEvents == [type : AllTypes, app : NtApps, time : Nat]
NtLogs == [taken : Seq(NtEvents), held : SUBSET NtEvents]
NtStatsSet == [sent : Nat, failed : Nat, dropped : Nat]
NtHands == [tries : Nat, type : AllTypes \cup {"none"}, app : NtApps, time : Nat]
NtTicks == [left : SUBSET NtApps, app : NtApps, now : Nat]

NtTypesOK ==
    /\ ntQueue \in Seq(NtEvents)
    /\ ntLast \in [NtApps \X AllTypes -> Nat \cup {Never}]
    /\ ntClosed \in {"open", "closing", "closed"}
    /\ ntHand \in NtHands
    /\ ntStats \in NtStatsSet
    /\ ntTick \in NtTicks
    /\ ntLog \in NtLogs
    /\ ntClock \in Nat

OfKey(e) == <<e.app, e.type>>

(* The table of the quiet periods remembers the last event taken in of every    *)
(* app and type, and nothing else.                                              *)
Remembers(taken, last) ==
    \A k \in NtApps \X AllTypes :
        /\ last[k] = Never => \A i \in DOMAIN taken : OfKey(taken[i]) # k
        /\ last[k] # Never => \E i \in DOMAIN taken : OfKey(taken[i]) = k /\ taken[i].time = last[k]
        /\ MinInterval > 0 => \A i \in DOMAIN taken : OfKey(taken[i]) = k => taken[i].time <= last[k]

LastTaken == Remembers(ntLog.taken, ntLast)

(* Two events of an app and a type are a quiet period apart (QuietEarned).      *)
Spaced(taken) ==
    \A i, k \in DOMAIN taken :
        MinInterval > 0 /\ i < k /\ OfKey(taken[i]) = OfKey(taken[k])
          => taken[k].time - taken[i].time >= MinInterval

(* An event held back has one of its key taken in that makes it quiet.          *)
HeldFor(taken, held) ==
    \A e \in held : \E i \in DOMAIN taken :
        OfKey(taken[i]) = OfKey(e) /\ e.time - taken[i].time < MinInterval

NtInv == NtTypesOK /\ LastTaken /\ NoneUncounted /\ QuietEarned

-----------------------------------------------------------------------------
(* Send.                                                                        *)

LEMMA OneEvent ==
    ASSUME NEW e \in NtEvents
    PROVE  /\ Head(<<e>>) = e /\ <<e>> # <<>> /\ OfKey(e) \in NtApps \X AllTypes
           /\ e.time \in Nat /\ e.app \in NtApps /\ e.type \in AllTypes
BY DEF NtEvents, OfKey

LEMMA SendCases ==
    ASSUME NEW events, events = <<>> \/ \E e \in NtEvents : events = <<e>>, Send(events)
    PROVE  \/ UNCHANGED <<ntQueue, ntLast, ntStats, ntLog>>
           \/ \E e \in NtEvents : /\ Debounced(e) /\ ntLog' = [ntLog EXCEPT !.held = @ \cup {e}]
                                  /\ UNCHANGED <<ntQueue, ntLast, ntStats>>
           \/ ntStats' = [ntStats EXCEPT !.dropped = @ + 1] /\ UNCHANGED <<ntQueue, ntLast, ntLog>>
           \/ \E e \in NtEvents :
                /\ ~Debounced(e) /\ ntClosed = "open" /\ ntQueue' = Append(ntQueue, e)
                /\ ntLast' = [ntLast EXCEPT ![<<e.app, e.type>>] = e.time]
                /\ ntLog' = [ntLog EXCEPT !.taken = Append(@, e)]
                /\ UNCHANGED ntStats
<1>1. CASE events = <<>>
  BY <1>1 DEF Send
<1>2. ASSUME NEW e \in NtEvents, events = <<e>>
      PROVE  \/ UNCHANGED <<ntQueue, ntLast, ntStats, ntLog>>
             \/ /\ Debounced(e) /\ ntLog' = [ntLog EXCEPT !.held = @ \cup {e}]
                /\ UNCHANGED <<ntQueue, ntLast, ntStats>>
             \/ ntStats' = [ntStats EXCEPT !.dropped = @ + 1] /\ UNCHANGED <<ntQueue, ntLast, ntLog>>
             \/ /\ ~Debounced(e) /\ ntClosed = "open" /\ ntQueue' = Append(ntQueue, e)
                /\ ntLast' = [ntLast EXCEPT ![<<e.app, e.type>>] = e.time]
                /\ ntLog' = [ntLog EXCEPT !.taken = Append(@, e)]
                /\ UNCHANGED ntStats
  <2>1. Head(events) = e /\ events # <<>>
    BY <1>2, OneEvent
  <2>. QED  BY <2>1, Zenon DEF Send
<1>. QED  BY <1>1, <1>2

LEMMA AppendedTo ==
    ASSUME NEW S, NEW s \in Seq(S), NEW e \in S, NEW t, t = Append(s, e)
    PROVE  /\ t \in Seq(S) /\ Len(s) \in Nat /\ Len(t) = Len(s) + 1
           /\ DOMAIN s = 1 .. Len(s) /\ DOMAIN t = 1 .. Len(s) + 1
           /\ t[Len(s) + 1] = e
           /\ \A i \in 1 .. Len(s) : t[i] = s[i] /\ s[i] \in S
OBVIOUS

LEMMA LogTaken ==
    ASSUME ntLog \in NtLogs, NEW e \in NtEvents,
           ntLog' = [ntLog EXCEPT !.taken = Append(@, e)]
    PROVE  /\ ntLog.taken \in Seq(NtEvents) /\ ntLog'.taken = Append(ntLog.taken, e)
           /\ ntLog'.held = ntLog.held /\ ntLog' \in NtLogs
<1>1. ntLog.taken \in Seq(NtEvents)
  BY DEF NtLogs
<1>. DEFINE longer == Append(ntLog.taken, e)
<1>2. longer \in Seq(NtEvents)
  BY <1>1
<1>3. ntLog' = [ntLog EXCEPT !.taken = longer]
  OBVIOUS
<1>. HIDE DEF longer
<1>4. ntLog'.taken = longer /\ ntLog'.held = ntLog.held
      /\ ntLog' \in NtLogs
  BY <1>2, <1>3 DEF NtLogs
<1>. QED  BY <1>1, <1>4 DEF longer

LEMMA LogHeld ==
    ASSUME ntLog \in NtLogs, NEW e \in NtEvents,
           ntLog' = [ntLog EXCEPT !.held = @ \cup {e}]
    PROVE  /\ ntLog'.taken = ntLog.taken
           /\ ntLog'.held = ntLog.held \cup {e} /\ ntLog' \in NtLogs
BY DEF NtLogs
LEMMA EarnedParts == QuietEarned <=> Spaced(ntLog.taken) /\ HeldFor(ntLog.taken, ntLog.held)
BY DEF QuietEarned, Spaced, HeldFor, OfKey

(* The event taken in is the last of its app and type, at least a quiet period  *)
(* after the one before it.                                                     *)
LEMMA LongerLog ==
    ASSUME MinInterval \in Nat,
           NEW n \in Nat, NEW s, DOMAIN s = 1 .. n, \A i \in 1 .. n : s[i] \in NtEvents,
           NEW t, DOMAIN t = 1 .. n + 1, \A i \in 1 .. n : t[i] = s[i], t[n + 1] \in NtEvents,
           NEW last, \A k \in NtApps \X AllTypes : last[k] \in Nat \cup {Never},
           NEW last2, \A k \in NtApps \X AllTypes :
                         last2[k] = IF k = OfKey(t[n + 1]) THEN t[n + 1].time ELSE last[k],
           \/ MinInterval = 0 \/ last[OfKey(t[n + 1])] = Never
           \/ t[n + 1].time - last[OfKey(t[n + 1])] >= MinInterval,
           Remembers(s, last), Spaced(s), NEW held, HeldFor(s, held)
    PROVE  Remembers(t, last2) /\ Spaced(t) /\ HeldFor(t, held)
<1>. DEFINE e == t[n + 1]
            key == OfKey(e)
<1>1. /\ key \in NtApps \X AllTypes /\ e.time \in Nat /\ Never \notin Nat
      /\ 1 .. n \subseteq 1 .. n + 1 /\ n + 1 \in 1 .. n + 1 /\ n + 1 \notin 1 .. n
      /\ \A i \in 1 .. n + 1 : i \in 1 .. n \/ i = n + 1
  BY OneEvent DEF Never
<1>2. \A i \in 1 .. n : t[i] = s[i] /\ s[i].time \in Nat
  BY OneEvent
<1>. HIDE DEF key
<1>3. ASSUME NEW i \in 1 .. n, OfKey(s[i]) = key, MinInterval > 0
      PROVE  /\ last[key] # Never /\ s[i].time <= last[key]
             /\ e.time - s[i].time >= MinInterval
  <2>1. last[key] # Never /\ s[i].time <= last[key]
    BY <1>1, <1>3 DEF Remembers
  <2>2. last[key] \in Nat /\ e.time - last[key] >= MinInterval
    BY <1>1, <1>3, <2>1 DEF key
  <2>3. s[i].time \in Nat /\ e.time \in Nat
    BY <1>1, <1>2
  <2>. HIDE DEF e
  <2>. QED  BY <2>1, <2>2, <2>3
<1>4. ASSUME NEW k \in NtApps \X AllTypes
      PROVE  /\ last2[k] = Never => \A i \in 1 .. n + 1 : OfKey(t[i]) # k
             /\ last2[k] # Never => \E i \in 1 .. n + 1 : OfKey(t[i]) = k /\ t[i].time = last2[k]
             /\ MinInterval > 0 => \A i \in 1 .. n + 1 : OfKey(t[i]) = k => t[i].time <= last2[k]
  <2>1. CASE k = key
    <3>1. last2[k] = e.time /\ last2[k] # Never
      BY <1>1, <2>1 DEF key
    <3>2. OfKey(t[n + 1]) = k /\ t[n + 1].time = last2[k]
      BY <2>1, <3>1 DEF key
    <3>3. ASSUME MinInterval > 0, NEW i \in 1 .. n + 1, OfKey(t[i]) = k
          PROVE  t[i].time <= last2[k]
      <4>1. CASE i = n + 1
        <5>1. t[i].time = e.time
          BY <4>1
        <5>. HIDE DEF e
        <5>. QED  BY <1>1, <3>1, <5>1
      <4>2. CASE i \in 1 .. n
        <5>1. e.time - s[i].time >= MinInterval /\ t[i].time = s[i].time /\ s[i].time \in Nat
          BY <1>2, <1>3, <2>1, <3>3, <4>2
        <5>. HIDE DEF e
        <5>. QED  BY <1>1, <3>1, <5>1
      <4>. QED  BY <1>1, <4>1, <4>2
    <3>. QED  BY <1>1, <3>1, <3>2, <3>3
  <2>2. CASE k # key
    <3>1. last2[k] = last[k]
      BY <1>1, <2>2 DEF key
    <3>2. \A i \in 1 .. n + 1 : OfKey(t[i]) = k => i \in 1 .. n
      BY <1>1, <2>2 DEF key
    <3>3. /\ last[k] = Never => \A i \in 1 .. n : OfKey(s[i]) # k
          /\ last[k] # Never => \E i \in 1 .. n : OfKey(s[i]) = k /\ s[i].time = last[k]
          /\ MinInterval > 0 => \A i \in 1 .. n : OfKey(s[i]) = k => s[i].time <= last[k]
      BY DEF Remembers
    <3>. QED  BY <1>1, <1>2, <3>1, <3>2, <3>3
  <2>. QED  BY <2>1, <2>2
<1>5. Remembers(t, last2)
  BY <1>4 DEF Remembers
<1>6. ASSUME NEW i \in 1 .. n + 1, NEW k \in 1 .. n + 1, MinInterval > 0, i < k, OfKey(t[i]) = OfKey(t[k])
      PROVE  t[k].time - t[i].time >= MinInterval
  <2>1. i \in 1 .. n
    BY <1>6
  <2>2. CASE k = n + 1
    <3>1. OfKey(s[i]) = key /\ t[i] = s[i]
      BY <1>2, <1>6, <2>1, <2>2 DEF key
    <3>. QED  BY <1>3, <1>6, <2>1, <2>2, <3>1
  <2>3. CASE k \in 1 .. n
    BY <1>2, <1>6, <2>1, <2>3 DEF Spaced
  <2>. QED  BY <1>1, <2>2, <2>3
<1>7. Spaced(t)
  BY <1>6 DEF Spaced
<1>8. HeldFor(t, held)
  <2>. SUFFICES ASSUME NEW d \in held
                PROVE  \E i \in 1 .. n + 1 : OfKey(t[i]) = OfKey(d) /\ d.time - t[i].time < MinInterval
    BY DEF HeldFor
  <2>1. PICK i \in 1 .. n : OfKey(s[i]) = OfKey(d) /\ d.time - s[i].time < MinInterval
    BY DEF HeldFor
  <2>. QED  BY <1>1, <1>2, <2>1
<1>. QED  BY <1>5, <1>7, <1>8

LEMMA TakenIn ==
    ASSUME NtInv, NEW e \in NtEvents, ~Debounced(e),
           ntLast' = [ntLast EXCEPT ![<<e.app, e.type>>] = e.time],
           ntLog' = [ntLog EXCEPT !.taken = Append(@, e)]
    PROVE  LastTaken' /\ QuietEarned'
<1>. DEFINE s == ntLog.taken
            t == ntLog'.taken
            n == Len(s)
            last == ntLast
            last2 == ntLast'
            held == ntLog.held
<1>1. s \in Seq(NtEvents) /\ t = Append(s, e) /\ ntLog'.held = held
  BY LogTaken DEF NtInv, NtTypesOK
<1>2. last \in [NtApps \X AllTypes -> Nat \cup {Never}] /\ MinInterval \in Nat
  BY NoticesAssumption DEF NtInv, NtTypesOK
<1>3. OfKey(e) \in NtApps \X AllTypes /\ OfKey(e) = <<e.app, e.type>> /\ e.time \in Nat
  BY OneEvent DEF OfKey
<1>4. Remembers(s, last) /\ Spaced(s) /\ HeldFor(s, held)
  BY EarnedParts DEF NtInv, LastTaken
<1>5. \A k \in NtApps \X AllTypes : last2[k] = IF k = OfKey(e) THEN e.time ELSE last[k]
  BY <1>2, <1>3
<1>6. \/ MinInterval = 0 \/ last[OfKey(e)] = Never \/ e.time - last[OfKey(e)] >= MinInterval
  <2>1. last[OfKey(e)] \in Nat \cup {Never}
    BY <1>2, <1>3
  <2>2. ~(MinInterval > 0 /\ last[OfKey(e)] # Never /\ e.time - last[OfKey(e)] < MinInterval)
    BY <1>3, Zenon DEF Debounced, last
  <2>. HIDE DEF last
  <2>. QED  BY <1>2, <1>3, <2>1, <2>2
<1>7. Remembers(t, last2) /\ Spaced(t) /\ HeldFor(t, held)
  <2>. HIDE DEF s, t, last, last2, held
  <2>1. /\ n \in Nat /\ DOMAIN s = 1 .. n /\ \A i \in 1 .. n : s[i] \in NtEvents
        /\ DOMAIN t = 1 .. n + 1 /\ \A i \in 1 .. n : t[i] = s[i]
        /\ t[n + 1] = e
    BY <1>1, AppendedTo
  <2>2. \A k \in NtApps \X AllTypes : last[k] \in Nat \cup {Never}
    BY <1>2
  <2>. HIDE DEF n
  <2>3. \/ MinInterval = 0 \/ last[OfKey(t[n + 1])] = Never
        \/ t[n + 1].time - last[OfKey(t[n + 1])] >= MinInterval
    BY <1>6, <2>1
  <2>4. t[n + 1] \in NtEvents
         /\ \A k \in NtApps \X AllTypes : last2[k] = IF k = OfKey(t[n + 1]) THEN t[n + 1].time ELSE last[k]
    BY <1>5, <2>1
  <2>. QED  BY <1>2, <1>4, <2>1, <2>2, <2>3, <2>4, LongerLog, SMTT(30)
<1>8. QuietEarned' <=> Spaced(t) /\ HeldFor(t, ntLog'.held)
  BY DEF QuietEarned, Spaced, HeldFor, OfKey
<1>. QED  BY <1>1, <1>7, <1>8 DEF LastTaken

(* An event held back is quiet for the last one taken in.                       *)
LEMMA HeldBack ==
    ASSUME NtInv, NEW e \in NtEvents, Debounced(e), ntLog' = [ntLog EXCEPT !.held = @ \cup {e}],
           UNCHANGED ntLast
    PROVE  LastTaken' /\ QuietEarned'
<1>1. ntLog'.taken = ntLog.taken /\ ntLog'.held = ntLog.held \cup {e}
  BY LogHeld DEF NtInv, NtTypesOK
<1>2. Remembers(ntLog.taken, ntLast) /\ Spaced(ntLog.taken) /\ HeldFor(ntLog.taken, ntLog.held)
  BY EarnedParts DEF NtInv, LastTaken
<1>3. HeldFor(ntLog.taken, {e})
  <2>1. OfKey(e) \in NtApps \X AllTypes /\ ntLast[OfKey(e)] # Never /\ e.time - ntLast[OfKey(e)] < MinInterval
    BY OneEvent, Zenon DEF Debounced, OfKey
  <2>2. PICK i \in DOMAIN ntLog.taken : OfKey(ntLog.taken[i]) = OfKey(e) /\ ntLog.taken[i].time = ntLast[OfKey(e)]
    BY <1>2, <2>1 DEF Remembers
  <2>. QED  BY <2>1, <2>2 DEF HeldFor
<1>4. HeldFor(ntLog.taken, ntLog'.held)
  BY <1>1, <1>2, <1>3 DEF HeldFor
<1>5. QuietEarned' <=> Spaced(ntLog'.taken) /\ HeldFor(ntLog'.taken, ntLog'.held)
  BY DEF QuietEarned, Spaced, HeldFor, OfKey
<1>. QED  BY <1>1, <1>2, <1>4, <1>5 DEF LastTaken

LEMMA NtAddInv ==
    ASSUME NtInv, NEW events, events = <<>> \/ \E e \in NtEvents : events = <<e>>, Send(events),
           UNCHANGED <<ntClosed, ntHand>>,
           ntTick' \in NtTicks, ntClock' \in Nat
    PROVE  NtInv'
<1>1. CASE UNCHANGED <<ntQueue, ntLast, ntStats, ntLog>>
  BY <1>1 DEF NtInv, NtTypesOK, LastTaken, NoneUncounted, QuietEarned
<1>2. CASE ntStats' = [ntStats EXCEPT !.dropped = @ + 1] /\ UNCHANGED <<ntQueue, ntLast, ntLog>>
  <2>1. /\ ntStats' \in NtStatsSet
        /\ ntStats'.sent = ntStats.sent /\ ntStats'.failed = ntStats.failed
    BY <1>2 DEF NtInv, NtTypesOK, NtStatsSet
  <2>. QED  BY <1>2, <2>1 DEF NtInv, NtTypesOK, LastTaken, NoneUncounted, QuietEarned
<1>3. ASSUME NEW e \in NtEvents, Debounced(e), ntLog' = [ntLog EXCEPT !.held = @ \cup {e}],
             UNCHANGED <<ntQueue, ntLast, ntStats>>
      PROVE  NtInv'
  <2>1. LastTaken' /\ QuietEarned'
    BY <1>3, HeldBack
  <2>2. ntLog'.taken = ntLog.taken /\ ntLog' \in NtLogs
    BY <1>3, LogHeld DEF NtInv, NtTypesOK
  <2>3. NtTypesOK' /\ NoneUncounted'
    BY <1>3, <2>2 DEF NtInv, NtTypesOK, NoneUncounted
  <2>. QED  BY <2>1, <2>3 DEF NtInv
<1>4. ASSUME NEW e \in NtEvents, ~Debounced(e), ntClosed = "open", ntQueue' = Append(ntQueue, e),
             ntLast' = [ntLast EXCEPT ![<<e.app, e.type>>] = e.time],
             ntLog' = [ntLog EXCEPT !.taken = Append(@, e)], UNCHANGED ntStats
      PROVE  NtInv'
  <2>1. LastTaken' /\ QuietEarned'
    BY <1>4, TakenIn
  <2>2. /\ ntLog'.taken = Append(ntLog.taken, e) /\ ntLog.taken \in Seq(NtEvents)
        /\ ntLog' \in NtLogs
    BY <1>4, LogTaken DEF NtInv, NtTypesOK
  <2>3. ntLast' \in [NtApps \X AllTypes -> Nat \cup {Never}]
    BY <1>4, OneEvent DEF NtInv, NtTypesOK
  <2>4. NtTypesOK'
    BY <1>4, <2>2, <2>3 DEF NtInv, NtTypesOK
  <2>5. /\ Len(ntLog'.taken) = Len(ntLog.taken) + 1 /\ Len(ntQueue') = Len(ntQueue) + 1
        /\ Len(ntLog.taken) \in Nat /\ Len(ntQueue) \in Nat
    BY <1>4, <2>2 DEF NtInv, NtTypesOK
  <2>6. NoneUncounted'
    <3>1. ntStats.sent \in Nat /\ ntStats.failed \in Nat
      BY DEF NtInv, NtTypesOK, NtStatsSet
    <3>2. ntHand' = ntHand /\ ntStats' = ntStats /\ ntClosed' # "closed"
      BY <1>4
    <3>3. Len(ntLog.taken) = Len(ntQueue) + (IF ntHand = NoHand THEN 0 ELSE 1) + ntStats.sent + ntStats.failed
      BY DEF NtInv, NoneUncounted
    <3>. DEFINE h == IF ntHand = NoHand THEN 0 ELSE 1
    <3>4. h \in Nat /\ Len(ntLog.taken) = Len(ntQueue) + h + ntStats.sent + ntStats.failed
      BY <3>3
    <3>. HIDE DEF h
    <3>5. Len(ntLog'.taken) = Len(ntQueue') + h + ntStats.sent + ntStats.failed
      BY <2>5, <3>1, <3>4
    <3>. QED  BY <3>2, <3>5 DEF NoneUncounted, h
  <2>. QED  BY <2>1, <2>4, <2>6 DEF NtInv
<1>. QED  BY <1>1, <1>2, <1>3, <1>4, SendCases

-----------------------------------------------------------------------------
(* Every action keeps the invariant.                                            *)

LEMMA NtInitInv == NtInit => NtInv
<1>. SUFFICES ASSUME NtInit PROVE NtInv
  OBVIOUS
<1>1. /\ ntQueue \in Seq(NtEvents) /\ ntClosed \in {"open", "closing", "closed"} /\ ntClock \in Nat
      /\ ntLast \in [NtApps \X AllTypes -> Nat \cup {Never}]
      /\ \A k \in NtApps \X AllTypes : ntLast[k] = Never
  <2>1. /\ ntQueue = <<>> /\ ntLast = [k \in NtApps \X AllTypes |-> Never]
        /\ ntClosed = "open" /\ ntClock = 0
    BY DEF NtInit
  <2>2. ntLast \in [NtApps \X AllTypes -> Nat \cup {Never}]
        /\ \A k \in NtApps \X AllTypes : ntLast[k] = Never
    BY <2>1
  <2>. QED  BY <2>1, <2>2
<1>2. ntHand \in NtHands /\ ntStats \in NtStatsSet /\ ntTick \in NtTicks
  <2>1. ntHand \in NtHands
    BY NoticesAssumption DEF NtInit, NoHand, NtHands
  <2>2. ntStats \in NtStatsSet
    BY DEF NtInit, NtStatsSet
  <2>3. ntTick \in NtTicks
    BY NoticesAssumption DEF NtInit, NtTicks
  <2>. QED  BY <2>1, <2>2, <2>3
<1>3. ntLog \in NtLogs /\ ntLog.taken = <<>> /\ ntLog.held = {}
  <2>1. <<>> \in Seq(NtEvents)
    OBVIOUS
  <2>2. ntLog = [taken |-> <<>>, held |-> {}]
    BY DEF NtInit
  <2>. QED  BY <2>1, <2>2 DEF NtLogs
<1>4. Remembers(ntLog.taken, ntLast) /\ QuietEarned
  BY <1>1, <1>3 DEF Remembers, QuietEarned
<1>5. NoneUncounted
  <2>1. ntHand = NoHand /\ ntQueue = <<>> /\ ntStats.sent = 0 /\ ntStats.failed = 0
        /\ ntClosed = "open"
    BY DEF NtInit
  <2>. QED  BY <1>3, <2>1 DEF NoneUncounted
<1>. QED  BY <1>1, <1>2, <1>3, <1>4, <1>5 DEF NtInv, NtTypesOK, LastTaken

LEMMA NoticeType ==
    ASSUME NEW type \in AllTypes, NEW app \in NtApps, NEW time \in Nat
    PROVE  Notice(type, app, time) \in NtEvents
BY DEF Notice, NtEvents

LEMMA JustBefore ==
    ASSUME NEW c \in Nat, NEW t, t = c \/ t = c - 1, t >= 0
    PROVE  t \in Nat
OBVIOUS

LEMMA CountedOnce ==
    ASSUME NEW q \in Nat, NEW a \in Nat, NEW b \in Nat, NEW c \in Nat, NEW d \in Nat, c + d = a + b + 1
    PROVE  q + 1 + a + b = q + c + d
OBVIOUS

LEMMA NtSendInv ==
    ASSUME NtInv, NtSend
    PROVE  NtInv'
<1>1. PICK type \in NtTypes, app \in NtApps \ {""}, time \in {ntClock, ntClock - 1} :
        time >= 0 /\ Send(<<Notice(type, app, time)>>)
  BY DEF NtSend
<1>2. Notice(type, app, time) \in NtEvents
  <2>1. ntClock \in Nat
    BY DEF NtInv, NtTypesOK
  <2>2. type \in AllTypes /\ app \in NtApps
    BY <1>1 DEF AllTypes
  <2>3. time \in Nat
    <3>1. time = ntClock \/ time = ntClock - 1
      OBVIOUS
    <3>2. time >= 0
      BY <1>1
    <3>. QED  BY <2>1, <3>1, <3>2, JustBefore, Zenon
  <2>. QED  BY <2>2, <2>3, NoticeType
<1>3. UNCHANGED <<ntClosed, ntHand>> /\ ntTick' = ntTick /\ ntClock' = ntClock
  BY DEF NtSend
<1>. QED  BY <1>1, <1>2, <1>3, NtAddInv DEF NtInv, NtTypesOK

LEMMA NtTickInv ==
    ASSUME NtInv, TickDisks \/ TickApp \/ TickSlow
    PROVE  NtInv'
<1>1. ntTick.now \in Nat /\ ntTick.app \in NtApps /\ ntTick.left \subseteq NtApps /\ "" \in NtApps
      /\ ntClock \in Nat /\ UNCHANGED <<ntClosed, ntHand, ntClock>>
  BY NoticesAssumption DEF NtInv, NtTypesOK, TickDisks, TickApp, TickSlow, NtTicks
<1>2. {"disk-low", "error-rate", "slow"} \subseteq AllTypes
  BY DEF AllTypes
<1>3. CASE TickDisks
  <2>1. PICK reading \in Disks :
          Send(IF DiskLimit > 0 /\ \E d \in reading : d.used >= DiskLimit
               THEN <<Notice("disk-low", "", ntTick.now)>> ELSE <<>>)
    BY <1>3 DEF TickDisks
  <2>2. ntTick' \in NtTicks
    BY <1>1, <1>3 DEF TickDisks, NtInv, NtTypesOK, NtTicks
  <2>3. Notice("disk-low", "", ntTick.now) \in NtEvents
    BY <1>1, <1>2, NoticeType
  <2>4. ASSUME NEW events, Send(events), events = <<>> \/ events = <<Notice("disk-low", "", ntTick.now)>>
        PROVE  NtInv'
    BY <1>1, <2>2, <2>3, <2>4, NtAddInv
  <2>. QED  BY <2>1, <2>4
<1>4. CASE TickApp
  <2>1. PICK a \in ntTick.left, w \in Windows :
          /\ ntTick' = [ntTick EXCEPT !.left = @ \ {a}, !.app = IF SlowP95(w) THEN a ELSE ""]
          /\ Send(IF ErrorRate(w) THEN <<Notice("error-rate", a, ntTick.now)>> ELSE <<>>)
    BY <1>4 DEF TickApp
  <2>2. ntTick' \in NtTicks
    BY <1>1, <2>1 DEF NtInv, NtTypesOK, NtTicks
  <2>3. Notice("error-rate", a, ntTick.now) \in NtEvents
    BY <1>1, <1>2, NoticeType
  <2>4. ASSUME NEW events, Send(events), events = <<>> \/ events = <<Notice("error-rate", a, ntTick.now)>>
        PROVE  NtInv'
    BY <1>1, <2>2, <2>3, <2>4, NtAddInv
  <2>. QED  BY <2>1, <2>4
<1>5. CASE TickSlow
  <2>1. Send(<<Notice("slow", ntTick.app, ntTick.now)>>)
    BY <1>5 DEF TickSlow
  <2>2. ntTick' \in NtTicks
    BY <1>1, <1>5 DEF TickSlow, NtInv, NtTypesOK, NtTicks
  <2>3. Notice("slow", ntTick.app, ntTick.now) \in NtEvents
    BY <1>1, <1>2, NoticeType
  <2>. QED  BY <1>1, <2>1, <2>2, <2>3, NtAddInv
<1>. QED  BY <1>3, <1>4, <1>5

LEMMA NtTakeInv ==
    ASSUME NtInv, NtTake
    PROVE  NtInv'
<1>1. /\ ntHand = NoHand /\ ntQueue # <<>> /\ ntQueue' = Tail(ntQueue)
      /\ ntHand' = [tries |-> 1, type |-> Head(ntQueue).type, app |-> Head(ntQueue).app,
                    time |-> Head(ntQueue).time]
      /\ UNCHANGED <<ntLast, ntClosed, ntStats, ntTick, ntLog, ntLeft, ntClock>>
  BY DEF NtTake
<1>2. Head(ntQueue) \in NtEvents /\ ntQueue' \in Seq(NtEvents) /\ Len(ntQueue') = Len(ntQueue) - 1
      /\ Len(ntQueue) \in Nat
  BY <1>1 DEF NtInv, NtTypesOK
<1>3. ntHand' \in NtHands /\ ntHand' # NoHand
  <2>. DEFINE e == Head(ntQueue)
  <2>1. e.time \in Nat /\ e.app \in NtApps /\ e.type \in AllTypes
    BY <1>2, OneEvent
  <2>. HIDE DEF e
  <2>2. ntHand' = [tries |-> 1, type |-> e.type, app |-> e.app, time |-> e.time]
    BY <1>1 DEF e
  <2>3. ntHand' \in NtHands /\ ntHand'.tries = 1
    BY <2>1, <2>2 DEF NtHands
  <2>4. NoHand.tries = 0
    BY DEF NoHand
  <2>. QED  BY <2>3, <2>4
<1>4. NtTypesOK'
  BY <1>1, <1>2, <1>3 DEF NtInv, NtTypesOK
<1>5. NoneUncounted'
  <2>1. ntStats.sent \in Nat /\ ntStats.failed \in Nat /\ (ntClosed' # "closed" \/ ntQueue = <<>>)
    BY <1>1 DEF NtInv, NtTypesOK, NoneUncounted, NtStatsSet
  <2>2. Len(ntLog'.taken) = Len(ntQueue') + 1 + ntStats'.sent + ntStats'.failed
    BY <1>1, <1>2 DEF NtInv, NtTypesOK, NoneUncounted
  <2>. QED  BY <1>1, <1>3, <2>1, <2>2 DEF NoneUncounted
<1>6. LastTaken' /\ QuietEarned'
  BY <1>1 DEF NtInv, LastTaken, QuietEarned
<1>. QED  BY <1>4, <1>5, <1>6 DEF NtInv

LEMMA NtPostInv ==
    ASSUME NtInv, NtPost
    PROVE  NtInv'
<1>1. ntHand # NoHand /\ UNCHANGED <<ntQueue, ntLast, ntClosed, ntTick, ntLog, ntLeft, ntClock>>
  BY DEF NtPost
<1>2. LastTaken' /\ QuietEarned'
  BY <1>1 DEF NtInv, LastTaken, QuietEarned
<1>3. /\ ntStats \in NtStatsSet /\ Len(ntQueue) \in Nat
      /\ ntHand \in NtHands
      /\ ntClosed # "closed"
      /\ Len(ntLog.taken) = Len(ntQueue) + 1 + ntStats.sent + ntStats.failed
  BY <1>1 DEF NtInv, NtTypesOK, NoneUncounted
<1>4. CASE ntHand' = [ntHand EXCEPT !.tries = @ + 1] /\ UNCHANGED ntStats
  <2>1. ntHand' \in NtHands /\ ntHand'.tries # 0
    BY <1>3, <1>4 DEF NtHands
  <2>2. ntHand' # NoHand
    <3>1. NoHand.tries = 0
      BY DEF NoHand
    <3>. QED  BY <2>1, <3>1
  <2>. QED  BY <1>1, <1>2, <1>3, <1>4, <2>1, <2>2 DEF NtInv, NtTypesOK, NoneUncounted
<1>5. CASE /\ ntHand' = NoHand
           /\ \/ ntStats' = [ntStats EXCEPT !.sent = @ + 1]
              \/ ntStats' = [ntStats EXCEPT !.failed = @ + 1]
  <2>1. /\ ntStats' \in NtStatsSet
        /\ ntStats'.sent + ntStats'.failed = ntStats.sent + ntStats.failed + 1
    BY <1>3, <1>5 DEF NtStatsSet
  <2>2. ntHand' \in NtHands
    BY <1>5, NoticesAssumption DEF NoHand, NtHands
  <2>3. Len(ntLog'.taken) = Len(ntQueue') + ntStats'.sent + ntStats'.failed
    <3>1. /\ ntStats.sent \in Nat /\ ntStats.failed \in Nat
          /\ ntStats'.sent \in Nat /\ ntStats'.failed \in Nat
      BY <1>3, <2>1 DEF NtStatsSet
    <3>2. ntLog' = ntLog /\ ntQueue' = ntQueue
      BY <1>1
    <3>3. Len(ntLog.taken) = Len(ntQueue) + 1 + ntStats.sent + ntStats.failed /\ Len(ntQueue) \in Nat
      BY <1>3
    <3>4. ntStats'.sent + ntStats'.failed = ntStats.sent + ntStats.failed + 1
      BY <2>1
    <3>5. Len(ntLog.taken) = Len(ntQueue) + ntStats'.sent + ntStats'.failed
      <4>. DEFINE q == Len(ntQueue)
                  a == ntStats.sent
                  b == ntStats.failed
                  c == ntStats'.sent
                  d == ntStats'.failed
      <4>1. q \in Nat /\ a \in Nat /\ b \in Nat /\ c \in Nat /\ d \in Nat /\ c + d = a + b + 1
        BY <3>1, <3>3, <3>4
      <4>2. Len(ntLog.taken) = q + 1 + a + b
        BY <3>3
      <4>. HIDE DEF q, a, b, c, d
      <4>3. Len(ntLog.taken) = q + c + d
        BY <4>1, <4>2, CountedOnce
      <4>. QED  BY <4>3 DEF q, c, d
    <3>. QED  BY <3>2, <3>5
  <2>4. NoneUncounted'
    BY <1>1, <1>3, <1>5, <2>1, <2>3 DEF NoneUncounted
  <2>5. NtTypesOK'
    BY <1>1, <2>1, <2>2 DEF NtInv, NtTypesOK
  <2>. QED  BY <1>2, <2>4, <2>5 DEF NtInv
<1>. QED  BY <1>4, <1>5 DEF NtPost

LEMMA NtRestInv ==
    ASSUME NtInv, TickStarts \/ NtClose \/ NtWorkerEnds \/ NtTime \/ UNCHANGED ntVars
    PROVE  NtInv'
<1>1. UNCHANGED <<ntQueue, ntLast, ntHand, ntStats, ntLog>>
  BY DEF TickStarts, NtClose, NtWorkerEnds, NtTime, ntVars
<1>2. LastTaken' /\ QuietEarned'
  BY <1>1 DEF NtInv, LastTaken, QuietEarned
<1>3. NtTypesOK'
  <2>1. NtTypesOK
    BY DEF NtInv
  <2>2. ntClock' \in Nat /\ ntClosed' \in {"open", "closing", "closed"}
    <3>1. ntClock \in Nat /\ ntClosed \in {"open", "closing", "closed"}
      BY <2>1 DEF NtTypesOK
    <3>2. ntClock' = ntClock \/ ntClock' = ntClock + 1
      BY DEF TickStarts, NtClose, NtWorkerEnds, NtTime, ntVars
    <3>3. ntClosed' = ntClosed \/ ntClosed' \in {"closing", "closed"}
      BY DEF TickStarts, NtClose, NtWorkerEnds, NtTime, ntVars
    <3>. QED  BY <3>1, <3>2, <3>3
  <2>3. ntTick' \in NtTicks
    <3>1. CASE TickStarts
      BY <2>1, <3>1, NoticesAssumption DEF TickStarts, NtTypesOK, NtTicks
    <3>2. CASE UNCHANGED ntTick
      BY <2>1, <3>2 DEF NtTypesOK
    <3>. QED  BY <3>1, <3>2 DEF NtClose, NtWorkerEnds, NtTime, ntVars
  <2>. QED  BY <1>1, <2>1, <2>2, <2>3 DEF NtTypesOK
<1>4. NoneUncounted'
  BY <1>1 DEF TickStarts, NtClose, NtWorkerEnds, NtTime, ntVars, NtInv, NoneUncounted
<1>. QED  BY <1>2, <1>3, <1>4 DEF NtInv

(* Every event sent is posted, failed, dropped, held back or still in hand,   *)
(* and two alike are a quiet period apart, for any queue length and number    *)
(* of tries (Notifier.Send, quiet, deliver, drain).                           *)
THEOREM NoticesCountedAndSpaced == NtSpec => []NoticesKept
<1>1. NtInv /\ [NtNext]_ntVars => NtInv'
  BY NtSendInv, NtTickInv, NtTakeInv, NtPostInv, NtRestInv, Zenon DEF NtNext
<1>2. NtInv => NoticesKept
  BY DEF NtInv, NoticesKept
<1>. QED  BY <1>1, <1>2, NtInitInv, PTL DEF NtSpec
===============================================================================
