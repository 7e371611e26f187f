---------------------------- MODULE OverlapProofs ----------------------------
(***************************************************************************)
(* Two reconcilers at once.  The invariant of one (IInv of ReconcilerProps)*)
(* does not survive the other; what does, BothInv, only speaks of          *)
(* the state of each process, so no step of the other can break it.        *)
(***************************************************************************)
EXTENDS OverlappingPasses, TLAPS

\* Both processes use the same operations and keys.
LEMMA SameOps == A!Names = Names /\ B!Names = Names /\ A!Types = Types /\ B!Types = Types
                /\ A!Ops = Ops /\ B!Ops = Ops
  <1>1. A!Names = Names /\ B!Names = Names
    BY DEF A!Names, B!Names, Names, A!Fqdn, B!Fqdn, Fqdn
  <1>2. A!Types = Types /\ B!Types = Types /\ A!Phases = Phases /\ B!Phases = Phases
    BY Zenon DEF A!Types, B!Types, Types, A!Phases, B!Phases, Phases
  <1> QED BY <1>1, <1>2, Zenon DEF A!Ops, B!Ops, Ops

\* The shared operators mean the same to both.
LEMMA SameRecords ==
    /\ \A o : A!Key(o) = Key(o) /\ B!Key(o) = Key(o)
    /\ \A f, a, t : A!Desired(f, a, t) = Desired(f, a, t) /\ B!Desired(f, a, t) = Desired(f, a, t)
    /\ A!Absent = Absent /\ B!Absent = Absent /\ A!Keys = Keys /\ B!Keys = Keys
  BY SameOps DEF A!Key, B!Key, Key, A!Desired, B!Desired, Desired, A!DesiredData,
                 B!DesiredData, DesiredData, A!Absent, B!Absent, Absent, A!Keys, B!Keys, Keys

LEMMA BothStart == BothInit => BothInv
  <1> SUFFICES ASSUME BothInit PROVE BothInv
    OBVIOUS
  <1>1. /\ pcA = "idle" /\ todoA = {} /\ curA = NoOp /\ seenA = [f \in Fips |-> NoData]
        /\ pcB = "idle" /\ todoB = {} /\ curB = NoOp /\ seenB = [f \in Fips |-> NoData]
        /\ dns = [k \in Keys |-> Absent] /\ adrift = NoWrite
    BY SameRecords DEF BothInit, A!Init, B!Init, A!NothingSeen, B!NothingSeen, A!NoRecords
  <1> QED BY <1>1 DEF BothInv, ListKept, Listings

\* Every step of a process keeps what is said of it.
LEMMA ListsOfA ==
    ASSUME ListKept(pcA, todoA, curA, seenA), A!Worker \/ A!Failures
    PROVE  ListKept(pcA, todoA, curA, seenA)'
  <1> USE DEF ListKept
  <1>0. ASSUME NEW v, A!EndPass(v) PROVE ListKept(pcA, todoA, curA, seenA)'
    BY <1>0 DEF A!EndPass, A!NothingSeen, Listings
  <1>1. CASE A!MakePlan
    <2>1. PICK name : A!PlanFor(name) BY <1>1 DEF A!MakePlan
    <2>2. /\ todoA' = {} \/ todoA' = A!Plan(seenA, foundA, name)
          /\ seenA' = seenA /\ curA' = curA /\ pcA = "listing" /\ pcA' = "applying"
      BY <1>1, <2>1, SMT DEF A!PlanFor, A!MakePlan, A!CanPlan
    <2>3. /\ A!Plan(seenA, foundA, name) \subseteq Ops
          /\ \A o \in A!Plan(seenA, foundA, name) :
                 o.phase = "delete" <=> o.fip \notin Listed(seenA)
      BY SameOps, SMT DEF A!Plan, A!CreateOps, A!UpdateOps, A!DeleteOps,
                          A!Listed, Listed
    <2>4. todoA' = {} => ListKept(pcA, todoA, curA, seenA)' BY <2>2
    <2>5. todoA' = A!Plan(seenA, foundA, name) => ListKept(pcA, todoA, curA, seenA)'
      BY <2>2, <2>3
    <2> QED BY <2>2, <2>4, <2>5
  <1>2. CASE A!ListFloatingIps
    BY <1>2 DEF A!ListFloatingIps, Listings
  <1>3. CASE A!ListZones
    BY <1>3 DEF A!ListZones
  <1>4. CASE \E z \in A!Zones : A!ListZone(z)
    BY <1>0, <1>4 DEF A!ListZone
  <1>5. CASE A!PlanRaises \/ A!FinishPass \/ A!ListFails \/ A!Crash
    BY <1>0, <1>5 DEF A!PlanRaises, A!FinishPass, A!ListFails, A!Crash
  <1>6. CASE \E o \in todoA : A!BeginOp(o) \/ A!BeginFails(o)
    BY <1>6 DEF A!BeginOp, A!BeginFails, A!Done
  <1>7. CASE A!CreateProjectZone \/ A!FindRecordset \/ A!WriteRecordset
    BY <1>7 DEF A!CreateProjectZone, A!FindRecordset, A!WriteRecordset, A!Done
  <1>8. CASE A!RequestFails \/ A!AnswerLost
    BY <1>8 DEF A!RequestFails, A!AnswerLost, A!Done
  <1> QED
    BY <1>1, <1>2, <1>3, <1>4, <1>5, <1>6, <1>7, <1>8 DEF A!Worker, A!Failures

LEMMA ListsOfB ==
    ASSUME ListKept(pcB, todoB, curB, seenB), B!Worker \/ B!Failures
    PROVE  ListKept(pcB, todoB, curB, seenB)'
  <1> USE DEF ListKept
  <1>0. ASSUME NEW v, B!EndPass(v) PROVE ListKept(pcB, todoB, curB, seenB)'
    BY <1>0 DEF B!EndPass, B!NothingSeen, Listings
  <1>1. CASE B!MakePlan
    <2>1. PICK name : B!PlanFor(name) BY <1>1 DEF B!MakePlan
    <2>2. /\ todoB' = {} \/ todoB' = B!Plan(seenB, foundB, name)
          /\ seenB' = seenB /\ curB' = curB /\ pcB = "listing" /\ pcB' = "applying"
      BY <1>1, <2>1, SMT DEF B!PlanFor, B!MakePlan, B!CanPlan
    <2>3. /\ B!Plan(seenB, foundB, name) \subseteq Ops
          /\ \A o \in B!Plan(seenB, foundB, name) :
                 o.phase = "delete" <=> o.fip \notin Listed(seenB)
      BY SameOps, SMT DEF B!Plan, B!CreateOps, B!UpdateOps, B!DeleteOps,
                          B!Listed, Listed
    <2>4. todoB' = {} => ListKept(pcB, todoB, curB, seenB)' BY <2>2
    <2>5. todoB' = B!Plan(seenB, foundB, name) => ListKept(pcB, todoB, curB, seenB)'
      BY <2>2, <2>3
    <2> QED BY <2>2, <2>4, <2>5
  <1>2. CASE B!ListFloatingIps
    BY <1>2 DEF B!ListFloatingIps, Listings
  <1>3. CASE B!ListZones
    BY <1>3 DEF B!ListZones
  <1>4. CASE \E z \in B!Zones : B!ListZone(z)
    BY <1>0, <1>4 DEF B!ListZone
  <1>5. CASE B!PlanRaises \/ B!FinishPass \/ B!ListFails \/ B!Crash
    BY <1>0, <1>5 DEF B!PlanRaises, B!FinishPass, B!ListFails, B!Crash
  <1>6. CASE \E o \in todoB : B!BeginOp(o) \/ B!BeginFails(o)
    BY <1>6 DEF B!BeginOp, B!BeginFails, B!Done
  <1>7. CASE B!CreateProjectZone \/ B!FindRecordset \/ B!WriteRecordset
    BY <1>7 DEF B!CreateProjectZone, B!FindRecordset, B!WriteRecordset, B!Done
  <1>8. CASE B!RequestFails \/ B!AnswerLost
    BY <1>8 DEF B!RequestFails, B!AnswerLost, B!Done
  <1> QED
    BY <1>1, <1>2, <1>3, <1>4, <1>5, <1>6, <1>7, <1>8 DEF B!Worker, B!Failures

\* A step of a process leaves the recordsets alone, or is a write of what it has in hand.
LEMMA WritesOfA ==
    ASSUME BothInv, A!Worker \/ A!Failures
    PROVE  \/ dns' = dns
           \/ /\ pcA = "writing" /\ curA \in Ops
              /\ handleA = "none" => dns[Key(curA)] = Absent
              /\ dns' = [dns EXCEPT ![Key(curA)] =
                           IF curA.phase = "delete" THEN Absent
                           ELSE Desired(curA.fip, seenA[curA.fip], curA.type)]
  <1>1. CASE pcA = "writing" /\ dns' = A!Applied
    BY <1>1, SameRecords DEF A!Applied, A!Accepted, BothInv, ListKept
  <1>2. \/ dns' = dns
        \/ pcA = "writing" /\ dns' = A!Applied
    <2>1. CASE A!WriteRecordset \/ A!AnswerLost
      BY <2>1 DEF A!WriteRecordset, A!AnswerLost
    <2>2. CASE \/ A!ListFloatingIps \/ A!ListZones \/ (\E z \in A!Zones : A!ListZone(z))
               \/ A!MakePlan \/ A!PlanRaises \/ A!FinishPass \/ A!ListFails \/ A!Crash
      BY <2>2 DEF A!world, A!ListFloatingIps, A!ListZones, A!ListZone, A!MakePlan, A!PlanFor,
                  A!PlanRaises, A!FinishPass, A!ListFails, A!Crash
    <2>3. CASE \/ (\E o \in todoA : A!BeginOp(o) \/ A!BeginFails(o)) \/ A!CreateProjectZone
               \/ A!FindRecordset \/ A!RequestFails
      BY <2>3 DEF A!world, A!BeginOp, A!BeginFails, A!CreateProjectZone, A!FindRecordset,
                  A!RequestFails
    <2> QED BY <2>1, <2>2, <2>3 DEF A!Worker, A!Failures
  <1> QED BY <1>1, <1>2

LEMMA WritesOfB ==
    ASSUME BothInv, B!Worker \/ B!Failures
    PROVE  \/ dns' = dns
           \/ /\ pcB = "writing" /\ curB \in Ops
              /\ handleB = "none" => dns[Key(curB)] = Absent
              /\ dns' = [dns EXCEPT ![Key(curB)] =
                           IF curB.phase = "delete" THEN Absent
                           ELSE Desired(curB.fip, seenB[curB.fip], curB.type)]
  <1>1. CASE pcB = "writing" /\ dns' = B!Applied
    BY <1>1, SameRecords DEF B!Applied, B!Accepted, BothInv, ListKept
  <1>2. \/ dns' = dns
        \/ pcB = "writing" /\ dns' = B!Applied
    <2>1. CASE B!WriteRecordset \/ B!AnswerLost
      BY <2>1 DEF B!WriteRecordset, B!AnswerLost
    <2>2. CASE \/ B!ListFloatingIps \/ B!ListZones \/ (\E z \in B!Zones : B!ListZone(z))
               \/ B!MakePlan \/ B!PlanRaises \/ B!FinishPass \/ B!ListFails \/ B!Crash
      BY <2>2 DEF B!world, B!ListFloatingIps, B!ListZones, B!ListZone, B!MakePlan, B!PlanFor,
                  B!PlanRaises, B!FinishPass, B!ListFails, B!Crash
    <2>3. CASE \/ (\E o \in todoB : B!BeginOp(o) \/ B!BeginFails(o)) \/ B!CreateProjectZone
               \/ B!FindRecordset \/ B!RequestFails
      BY <2>3 DEF B!world, B!BeginOp, B!BeginFails, B!CreateProjectZone, B!FindRecordset,
                  B!RequestFails
    <2> QED BY <2>1, <2>2, <2>3 DEF B!Worker, B!Failures
  <1> QED BY <1>1, <1>2

\* What a process may write is a recordset, or Absent.
LEMMA WrittenTyped ==
    ASSUME NEW pc, NEW todo, NEW cur \in Ops, NEW floatingIps, ListKept(pc, todo, cur, floatingIps)
    PROVE  /\ Key(cur) \in Keys
           /\ (IF cur.phase = "delete" THEN Absent
               ELSE Desired(cur.fip, floatingIps[cur.fip], cur.type)) \in Recordsets \cup {Absent}
           /\ \A handle : WriteOf(cur, floatingIps, handle) \in Writes
  <1>1. cur # NoOp BY OpAssumption
  <1>2. Key(cur) \in Keys BY DEF Key, Keys, Ops
  <1>3. cur.phase # "delete" => Desired(cur.fip, floatingIps[cur.fip], cur.type) \in Recordsets
    BY <1>1 DEF ListKept, Ops, Listed, Desired, DesiredData, Recordsets, Data, Types
  <1> QED BY <1>2, <1>3 DEF WriteOf, Writes

\* What other users do to the recordsets.
LEMMA UsersTyped ==
    ASSUME dns \in [Keys -> Recordsets \cup {Absent}], A!UserActs
    PROVE  dns' \in [Keys -> Recordsets \cup {Absent}]
  <1> DEFINE Typed == dns' \in [Keys -> Recordsets \cup {Absent}]
  <1> USE SameRecords
  <1>1. ASSUME NEW S, A!LoseRecords(S) PROVE Typed
    BY <1>1 DEF A!LoseRecords
  <1>2. ASSUME NEW k \in A!Keys, A!UserDeletes(k) \/ A!UserEdits(k) \/ A!UserCreates(k) PROVE Typed
    <2>1. CASE A!UserDeletes(k) BY <1>1, <2>1 DEF A!UserDeletes
    <2>2. CASE A!UserEdits(k)
      <3>1. dns[k].owner \in Fips \cup {Nobody}
        BY <1>2 DEF Recordsets, Absent
      <3> QED BY <2>2, <3>1 DEF A!UserEdits, Recordsets, Data
    <2>3. CASE A!UserCreates(k) BY <2>3 DEF A!UserCreates, Recordsets, Data
    <2> QED BY <1>2, <2>1, <2>2, <2>3
  <1>3. ASSUME NEW z, A!UserDropsZone(z) PROVE Typed
    BY <1>1, <1>3 DEF A!UserDropsZone
  <1>4. ASSUME NEW f, NEW a, A!Readdress(f, a) PROVE Typed
    BY <1>4 DEF A!Readdress
  <1> QED BY <1>2, <1>3, <1>4 DEF A!UserActs

LEMMA NeutronWritesNothing == A!NeutronActs => dns' = dns
  BY DEF A!NeutronActs, A!Release, A!Allocate

\* Nothing that Neutron or other users do reaches into a process, but for its handle.
LEMMA WorldLeavesA ==
    ASSUME A!NeutronActs \/ A!UserActs
    PROVE  pcA' = pcA /\ todoA' = todoA /\ curA' = curA /\ seenA' = seenA
  <1>1. CASE A!NeutronActs
    BY <1>1 DEF A!NeutronActs, A!Release, A!Allocate, A!process
  <1>2. CASE A!UserActs
    BY <1>2 DEF A!UserActs, A!Readdress, A!UserDeletes, A!UserEdits, A!UserCreates,
                A!UserDropsZone, A!process
  <1> QED BY <1>1, <1>2

LEMMA BothStep == BothInv /\ [BothNext]_bothVars => BothInv'
  <1> SUFFICES ASSUME BothInv, [BothNext]_bothVars PROVE BothInv'
    OBVIOUS
  <1>1. ASSUME AWatches PROVE ListKept(pcA, todoA, curA, seenA)'
    BY <1>1 DEF AWatches, BothInv, ListKept
  <1>2. ASSUME BWatches PROVE ListKept(pcB, todoB, curB, seenB)'
    BY <1>2 DEF BWatches, BothInv, ListKept
  <1>3. ASSUME adrift' = Adrift PROVE adrift' \in Writes \cup {NoWrite}
    BY <1>3 DEF Adrift, BothInv
  <1>4. CASE WorkerA \/ FailureA
    <2>1. (A!Worker \/ A!Failures) /\ BWatches
      BY <1>4 DEF WorkerA, FailureA, A!Failures
    <2>2. dns' \in [Keys -> Recordsets \cup {Absent}]
      BY <2>1, WritesOfA, WrittenTyped DEF BothInv
    <2>3. adrift' \in Writes \cup {NoWrite}
      <3>1. CASE LetGo(pcA, handleA, WriteOf(curA, seenA, handleA))
        <4>1. curA \in Ops BY <3>1 DEF LetGo, BothInv, ListKept
        <4>2. WriteOf(curA, seenA, handleA) \in Writes BY <4>1, WrittenTyped DEF BothInv
        <4> QED BY <3>1, <4>2 DEF LetGo
      <3> QED BY <1>3, <1>4, <3>1 DEF WorkerA, FailureA
    <2> QED BY <1>2, <2>1, <2>2, <2>3, ListsOfA DEF BothInv
  <1>5. CASE WorkerB \/ FailureB
    <2>1. (B!Worker \/ B!Failures) /\ AWatches
      BY <1>5 DEF WorkerB, FailureB, B!Failures
    <2>2. dns' \in [Keys -> Recordsets \cup {Absent}]
      BY <2>1, WritesOfB, WrittenTyped DEF BothInv
    <2>3. adrift' \in Writes \cup {NoWrite}
      <3>1. CASE LetGo(pcB, handleB, WriteOf(curB, seenB, handleB))
        <4>1. curB \in Ops BY <3>1 DEF LetGo, BothInv, ListKept
        <4>2. WriteOf(curB, seenB, handleB) \in Writes BY <4>1, WrittenTyped DEF BothInv
        <4> QED BY <3>1, <4>2 DEF LetGo
      <3> QED BY <1>3, <1>5, <3>1 DEF WorkerB, FailureB
    <2> QED BY <1>1, <2>1, <2>2, <2>3, ListsOfB DEF BothInv
  <1>6. CASE WorldActs
    <2>1. ListKept(pcA, todoA, curA, seenA)'
      <3>1. pcA' = pcA /\ todoA' = todoA /\ curA' = curA /\ seenA' = seenA
        BY <1>6, WorldLeavesA DEF WorldActs
      <3> QED BY <3>1 DEF BothInv, ListKept
    <2>2. dns' \in [Keys -> Recordsets \cup {Absent}]
      BY <1>6, UsersTyped, NeutronWritesNothing DEF WorldActs, BothInv
    <2> QED BY <1>2, <1>3, <1>6, <2>1, <2>2 DEF BothInv, WorldActs
  <1>7. CASE Lands
    BY <1>1, <1>2, <1>7 DEF Lands, BothInv, Writes
  <1>8. CASE UNCHANGED bothVars
    BY <1>8 DEF bothVars, stateA, stateB, BothInv, ListKept
  <1> QED BY <1>4, <1>5, <1>6, <1>7, <1>8 DEF BothNext

-----------------------------------------------------------------------------
\* Two reconcilers and late writes never store anything but a recordset, and each process
\* deletes the records of no floating IP that it has listed, whatever the other does.
THEOREM BothInductive == BothSpec => []BothInv
  <1> QED BY BothStart, BothStep, PTL DEF BothSpec

\* A live floating IP's record is only ever lost to a reconciler whose list is older than
\* the floating IP or that has drawn its name for another one, or to a late write.
THEOREM LostToOlderLists == BothSpec => LostOnlyToOlderList
  <1> DEFINE Kept(k) == dns[k].owner \in A!Live /\ dns'[k].owner # dns[k].owner =>
             \/ TakesAway(pcA, curA, seenA, k) \/ TakesAway(pcB, curB, seenB, k)
             \/ adrift # NoWrite /\ adrift.key = k /\ adrift.recordset.owner # dns[k].owner
  <1>1. BothInv /\ [BothNext]_bothVars => [A!UserActs \/ \A k \in Keys : Kept(k)]_bothVars
    <2> SUFFICES ASSUME BothInv, BothNext, ~A!UserActs,
                        NEW k \in Keys, dns[k].owner \in A!Live, dns'[k].owner # dns[k].owner
                 PROVE  Kept(k)
      OBVIOUS
    <2>1. k \in DOMAIN dns /\ dns[k].owner \in Fips /\ dns[k] # Absent
      BY FipAssumption DEF BothInv, A!Live, Absent
    <2>2. CASE WorkerA \/ FailureA
      <3>1. A!Worker \/ A!Failures BY <2>2 DEF WorkerA, FailureA, A!Failures
      <3> QED BY <2>1, <3>1, WritesOfA, OpAssumption
              DEF BothInv, ListKept, TakesAway, Desired, Absent
    <2>3. CASE WorkerB \/ FailureB
      <3>1. B!Worker \/ B!Failures BY <2>3 DEF WorkerB, FailureB, B!Failures
      <3> QED BY <2>1, <3>1, WritesOfB, OpAssumption
              DEF BothInv, ListKept, TakesAway, Desired, Absent
    <2>4. CASE WorldActs BY <2>4, NeutronWritesNothing DEF WorldActs
    <2>5. CASE Lands BY <2>1, <2>5 DEF Lands, BothInv
    <2> QED BY <2>2, <2>3, <2>4, <2>5 DEF BothNext
  <1> QED BY <1>1, BothInductive, PTL DEF BothSpec, LostOnlyToOlderList
=============================================================================
