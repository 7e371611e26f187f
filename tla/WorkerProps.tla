----------------------------- MODULE WorkerProps -----------------------------
(* What ReconcilerWorker must satisfy, and the inductive invariant behind it. *)
EXTENDS ReconcilerWorker

\* Every variable has its type.
TypeOK ==
    /\ once \in BOOLEAN /\ main \in MainStates /\ installed \in BOOLEAN
    /\ depth \in 0..MaxSignals /\ handler \in [Handlers -> HandlerStates]
    /\ flag \in BOOLEAN /\ holder \in 0..Free
    /\ waiter \in {"none", "armed", "released"}
    /\ status \in {"running", "killed", "0", "1"}
    /\ signals \in 0..MaxSignals /\ overrun \in 0..2

\* The topmost handler wants the lock that main or a handler below it holds.  Nobody
\* can give it back: the process hangs.
Hung == /\ depth > 0 /\ handler[depth] = "enter"
        /\ holder # Free /\ status = "running"

\* A stop request ends the process, or hangs it in the handler: it is never lost, and
\* never forgotten when the loop goes round.
StopEnds == signals > 0 ~> (status # "running" \/ Hung)

\* However it is interrupted, the worker begins at most one pass after the stop event
\* was set: the signal came between the loop's test and the pass.
AtMostOneMorePass == overrun <= 1

\* When all handlers have returned and a stop was requested, the worker does not sleep
\* out the poll interval: no wakeup falls between the flag's test and the sleep.
NoLostWakeup == flag /\ depth = 0 /\ main = "sleep" => waiter = "released"

\* Until a stop is requested, or unless main never got as far, there is always another
\* pass, whatever the last one raised.
KeepsPolling == []<>(main = "pass") \/ <>(signals > 0 \/ (main = "exited" /\ ~installed))

-----------------------------------------------------------------------------
(* The inductive invariant *)

\* Whoever is inside the lock holds it, and nobody else does.
LockDiscipline ==
    /\ main \in {"locked", "armed", "leave"} <=> holder = 0
    /\ \A i \in Handlers : handler[i] \in {"flag", "notify", "leave"} <=> holder = i
StackDiscipline ==
    /\ \A i \in Handlers : handler[i] = "off" <=> i > depth
    /\ depth <= signals
\* The loop runs with the handlers installed, so only they interrupt it.
LoopInstalled ==
    /\ ~installed => main \in {"setup", "once", "exited"}
    /\ depth > 0 => installed
\* The flag is only set while somebody is to notify or has notified the waiter.
FlagSeen ==
    /\ main = "armed" => ~flag /\ waiter = "armed"
    /\ main = "sleep" /\ flag =>
           waiter = "released" \/ \E i \in Handlers : handler[i] = "notify"
    /\ main = "sleep" => waiter # "none"
OverrunSeen ==
    /\ overrun <= 1
    /\ overrun = 1 => flag /\ main # "begin"

WorkerInv ==
    /\ TypeOK /\ LockDiscipline /\ StackDiscipline
    /\ LoopInstalled /\ FlagSeen /\ OverrunSeen
=============================================================================
