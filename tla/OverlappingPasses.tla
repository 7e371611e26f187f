-------------------------- MODULE OverlappingPasses --------------------------
(***************************************************************************)
(* Two reconcilers against one Neutron and one Designate, as when a --once *)
(* run meets the daemon or an old unit outlives a redeployment: nothing in *)
(* the program prevents it.  Each is module Reconciler with process state  *)
(* of its own.  Besides, a write whose client gave it up, or died, may be  *)
(* executed by Designate at any later time.                                *)
(***************************************************************************)
EXTENDS ReconciliationPlanner

CONSTANTS CreateZones, DryRun, Unborn, Gone, NoOp, MaxFaults, MaxEdits,
          NoWrite      \* no write is under way without a client

ASSUME OpAssumption == NoOp \notin Ops

VARIABLES
    neutron, zone, dns, faults, edits,                  \* shared
    pcA, seenA, unlistedA, foundA, todoA, curA, handleA, cleanA, verdictA, disturbedA,
    pcB, seenB, unlistedB, foundB, todoB, curB, handleB, cleanB, verdictB, disturbedB,
    adrift       \* the write that lost its client, or NoWrite

A == INSTANCE ReconcilerProps WITH
    pc <- pcA, seen <- seenA, unlisted <- unlistedA, found <- foundA, todo <- todoA,
    cur <- curA, handle <- handleA, clean <- cleanA, verdict <- verdictA,
    disturbed <- disturbedA
B == INSTANCE ReconcilerProps WITH
    pc <- pcB, seen <- seenB, unlisted <- unlistedB, found <- foundB, todo <- todoB,
    cur <- curB, handle <- handleB, clean <- cleanB, verdict <- verdictB,
    disturbed <- disturbedB

stateA == <<pcA, seenA, unlistedA, foundA, todoA, curA, handleA, cleanA, verdictA,
            disturbedA>>
stateB == <<pcB, seenB, unlistedB, foundB, todoB, curB, handleB, cleanB, verdictB,
            disturbedB>>
bothVars == <<neutron, zone, dns, faults, edits, stateA, stateB, adrift>>

BothInit == A!Init /\ B!Init /\ adrift = NoWrite

-----------------------------------------------------------------------------
(* What the step of one does to the other *)

Deleted(k) == dns[k] # Absent /\ dns'[k] = Absent
\* A recordset that was looked up and is deleted by anybody leaves a stale identifier.
Seen(handle, op) == IF handle = "held" /\ Deleted(Key(op)) THEN "stale" ELSE handle

AWatches ==
    /\ handleA' = Seen(handleA, curA)
    /\ UNCHANGED <<pcA, seenA, unlistedA, foundA, todoA, curA, cleanA, verdictA,
                   disturbedA>>
BWatches ==
    /\ handleB' = Seen(handleB, curB)
    /\ UNCHANGED <<pcB, seenB, unlistedB, foundB, todoB, curB, cleanB, verdictB,
                   disturbedB>>

-----------------------------------------------------------------------------
(* Writes without a client *)

\* The write that goes on when the client of op gives up: a POST if nothing was found,
\* else a PUT or DELETE of the recordset with that identifier.
WriteOf(op, floatingIps, handle) ==
    [key |-> Key(op), post |-> handle = "none",
     recordset |-> IF op.phase = "delete" THEN Absent
                   ELSE Desired(op.fip, floatingIps[op.fip], op.type)]

\* It dies with the recordset it was for.
Adrift == IF adrift # NoWrite /\ ~adrift.post /\ Deleted(adrift.key)
          THEN NoWrite ELSE adrift

LetGo(pc, handle, write) ==
    /\ pc = "writing" /\ handle # "stale" /\ adrift = NoWrite
    /\ adrift' = write

\* Designate executes it after all.
Lands ==
    /\ adrift # NoWrite
    /\ dns' = IF adrift.post /\ (dns[adrift.key] # Absent \/ zone[ZoneOf(adrift.key[1])] = NoZone)
              THEN dns ELSE [dns EXCEPT ![adrift.key] = adrift.recordset]
    /\ adrift' = NoWrite
    /\ AWatches /\ BWatches
    /\ UNCHANGED <<neutron, zone, faults, edits>>

-----------------------------------------------------------------------------
WorkerA == A!Worker /\ BWatches /\ adrift' = Adrift
WorkerB == B!Worker /\ AWatches /\ adrift' = Adrift

\* A request fails or a process dies; its write may go on.
FailureA ==
    /\ \/ A!Failures /\ adrift' = Adrift
       \/ (A!RequestFails \/ A!Crash) /\ LetGo(pcA, handleA, WriteOf(curA, seenA, handleA))
    /\ BWatches
FailureB ==
    /\ \/ B!Failures /\ adrift' = Adrift
       \/ (B!RequestFails \/ B!Crash) /\ LetGo(pcB, handleB, WriteOf(curB, seenB, handleB))
    /\ AWatches

WorldActs == (A!NeutronActs \/ A!UserActs) /\ BWatches /\ adrift' = Adrift

BothNext == WorkerA \/ WorkerB \/ FailureA \/ FailureB \/ WorldActs \/ Lands

\* Both keep running, and a write does not stay under way for ever.
BothSpec ==
    BothInit /\ [][BothNext]_bothVars
             /\ WF_bothVars(WorkerA) /\ WF_bothVars(WorkerB) /\ WF_bothVars(Lands)

-----------------------------------------------------------------------------
\* Although each of two reconcilers, and writes that arrive late, may give a floating IP
\* another name, overwrite what the other has just written or delete what it has found,
\* DNS comes to agree with Neutron once nobody else acts.
ConvergesTogether == A!Converges

\* The process is at a write that may take the record at k away from its floating IP: it
\* deletes it and has not listed that floating IP, or the write is for another one.
TakesAway(pc, cur, floatingIps, k) ==
    /\ pc = "writing" /\ Key(cur) = k
    /\ \/ cur.phase = "delete" /\ dns[k].owner \notin Listed(floatingIps)
       \/ cur.fip # dns[k].owner

\* A live floating IP can lose a record, unlike with one reconciler, but only to one whose
\* list of floating IPs is older than the floating IP, or that has drawn the same name for
\* another one, or to a write that such a one has sent and that arrives late; never
\* because the two gave it two names.
LostOnlyToOlderList ==
    [][A!UserActs \/ \A k \in Keys :
          dns[k].owner \in A!Live /\ dns'[k].owner # dns[k].owner =>
             \/ TakesAway(pcA, curA, seenA, k) \/ TakesAway(pcB, curB, seenB, k)
             \/ adrift # NoWrite /\ adrift.key = k /\ adrift.recordset.owner # dns[k].owner
      ]_bothVars

-----------------------------------------------------------------------------
(* The inductive invariant *)

\* Whatever the other does, a process deletes the records of the floating IPs it has not
\* listed and writes those of the ones it has, and keeps no operation into another pass.
ListKept(pc, todo, cur, floatingIps) ==
    /\ todo \subseteq Ops /\ cur \in Ops \cup {NoOp} /\ floatingIps \in Listings
    /\ pc \in {"zoning", "finding", "writing"} => cur \in Ops
    /\ pc \in {"idle", "zones", "listing"} => todo = {} /\ cur = NoOp
    /\ \A o \in todo \cup ({cur} \ {NoOp}) :
          o.phase = "delete" <=> o.fip \notin Listed(floatingIps)

Writes == [key : Keys, post : BOOLEAN, recordset : Recordsets \cup {Absent}]
BothInv ==
    /\ ListKept(pcA, todoA, curA, seenA) /\ ListKept(pcB, todoB, curB, seenB)
    /\ dns \in [Keys -> Recordsets \cup {Absent}]
    /\ adrift \in Writes \cup {NoWrite}
=============================================================================
