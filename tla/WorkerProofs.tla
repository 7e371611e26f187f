----------------------------- MODULE WorkerProofs -----------------------------
(* Safety of the worker for any number of signals. *)
EXTENDS WorkerProps, TLAPS

LEMMA WorkerInitInv == Init => WorkerInv
  <1> SUFFICES ASSUME Init PROVE WorkerInv  OBVIOUS
  <1> USE WorkerAssumption DEF Init, Free, Handlers
  <1>1. TypeOK
    <2>1. once \in BOOLEAN /\ handler \in [Handlers -> HandlerStates]
      BY DEF HandlerStates
    <2>2. /\ main \in MainStates /\ installed \in BOOLEAN /\ flag \in BOOLEAN
          /\ waiter \in {"none", "armed", "released"}
          /\ status \in {"running", "killed", "0", "1"}
      BY DEF MainStates
    <2>3. /\ depth \in 0..MaxSignals /\ holder \in 0..(MaxSignals + 1)
          /\ signals \in 0..MaxSignals /\ overrun \in 0..2
      BY SMT
    <2> QED BY <2>1, <2>2, <2>3 DEF TypeOK
  <1>2. LockDiscipline BY SMT DEF LockDiscipline
  <1>3. StackDiscipline BY SMT DEF StackDiscipline
  <1>4. LoopInstalled /\ FlagSeen BY SMT DEF LoopInstalled, FlagSeen
  <1>5. OverrunSeen BY DEF OverrunSeen
  <1> QED BY <1>1, <1>2, <1>3, <1>4, <1>5 DEF WorkerInv

\* A step of main: no handler is on the stack, so main is the only one who can hold the
\* lock, and the flag does not change.
LEMMA MainKeepsInv ==
    ASSUME WorkerInv, MainSteps PROVE WorkerInv'
  <1> USE WorkerAssumption
         DEF WorkerInv, TypeOK, LockDiscipline, StackDiscipline, LoopInstalled, FlagSeen,
             OverrunSeen, Free, Handlers, MainStates, HandlerStates, Running, Goto,
             Exit, event, stack
  <1>1. CASE Setup
    <2>1. installed' \in BOOLEAN BY <1>1 DEF Setup
    <2> QED BY <1>1, <2>1, SMT DEF Setup
  <1>2. CASE OnlyPass  BY <1>2, SMT DEF OnlyPass
  <1>3. CASE Check     BY <1>3, SMT DEF Check
  <1>4. CASE BeginPass BY <1>4, SMT DEF BeginPass
  <1>5. CASE EndPass   BY <1>5, SMT DEF EndPass
  <1>6. CASE TakeLock  BY <1>6, SMT DEF TakeLock
  <1>7. CASE TestFlag  BY <1>7, SMT DEF TestFlag
  <1>8. CASE FallAsleep BY <1>8, SMT DEF FallAsleep
  <1>9. CASE WakeUp     BY <1>9, SMT DEF WakeUp
  <1>10. CASE RetakeLock BY <1>10, SMT DEF RetakeLock
  <1>11. CASE LeaveWait  BY <1>11, SMT DEF LeaveWait
  <1> QED
    BY <1>1, <1>2, <1>3, <1>4, <1>5, <1>6, <1>7, <1>8, <1>9, <1>10, <1>11 DEF MainSteps

\* A step of the topmost handler: while it is inside the lock main is not, so the waiter
\* it finds is the one main sleeps on.
LEMMA HandlerKeepsInv ==
    ASSUME WorkerInv, HandlerSteps PROVE WorkerInv'
  <1> USE WorkerAssumption
         DEF WorkerInv, TypeOK, LockDiscipline, StackDiscipline, LoopInstalled, FlagSeen,
             OverrunSeen, Free, Handlers, MainStates, HandlerStates, Moves
  <1>1. CASE HandlerEnters   BY <1>1, SMT DEF HandlerEnters
  <1>2. CASE HandlerSetsFlag BY <1>2, SMT DEF HandlerSetsFlag
  <1>3. CASE HandlerNotifies BY <1>3, SMT DEF HandlerNotifies
  <1>4. CASE HandlerLeaves
    <2>1. depth \in Handlers /\ holder = depth /\ holder # 0 BY <1>4, SMT DEF HandlerLeaves
    <2>2. TypeOK' BY <1>4, <2>1, SMT DEF HandlerLeaves
    <2>3. LockDiscipline' BY <1>4, <2>1, SMT DEF HandlerLeaves
    <2>4. StackDiscipline' BY <1>4, <2>1, SMT DEF HandlerLeaves
    <2>5. LoopInstalled' /\ FlagSeen' BY <1>4, <2>1, SMT DEF HandlerLeaves
    <2> QED BY <1>4, <2>2, <2>3, <2>4, <2>5, SMT DEF HandlerLeaves
  <1> QED BY <1>1, <1>2, <1>3, <1>4 DEF HandlerSteps

\* A signal puts a handler on the stack, outside the lock, or ends the process.
LEMMA SignalKeepsInv ==
    ASSUME WorkerInv, Signal PROVE WorkerInv'
  <1> USE WorkerAssumption
         DEF WorkerInv, TypeOK, LockDiscipline, StackDiscipline, LoopInstalled, FlagSeen,
             OverrunSeen, Free, Handlers, MainStates, HandlerStates, Signal, Exit, event
  <1>1. CASE installed
    <2>1. depth + 1 \in Handlers /\ depth' = depth + 1 /\ depth \in Nat  BY <1>1, SMT
    <2>2. handler' = [handler EXCEPT ![depth + 1] = "enter"]  BY <1>1
    <2>3. TypeOK' BY <1>1, <2>1, <2>2, SMT
    <2>4. LockDiscipline' BY <1>1, <2>1, <2>2, SMT
    <2>5. StackDiscipline' BY <1>1, <2>1, <2>2, SMT
    <2>6. LoopInstalled' /\ FlagSeen' BY <1>1, <2>1, <2>2, SMT
    <2> QED BY <1>1, <2>3, <2>4, <2>5, <2>6
  <1>2. CASE ~installed
    BY <1>2, SMT
  <1> QED BY <1>1, <1>2

\* Whatever the order of main's steps, handlers and signals, the lock is held by whoever
\* is inside it, no wakeup is lost and at most one pass begins after the stop.
THEOREM WorkerInductive == Spec => []WorkerInv
  <1>1. Init => WorkerInv BY WorkerInitInv
  <1>2. WorkerInv /\ [Next]_vars => WorkerInv'
    <2> SUFFICES ASSUME WorkerInv, [Next]_vars PROVE WorkerInv'  OBVIOUS
    <2>1. CASE MainSteps    BY <2>1, MainKeepsInv
    <2>2. CASE HandlerSteps BY <2>2, HandlerKeepsInv
    <2>3. CASE Signal       BY <2>3, SignalKeepsInv
    <2>4. CASE UNCHANGED vars
      BY <2>4 DEF vars, WorkerInv, TypeOK, LockDiscipline, StackDiscipline, LoopInstalled,
                  FlagSeen, OverrunSeen
    <2> QED BY <2>1, <2>2, <2>3, <2>4 DEF Next
  <1> QED BY <1>1, <1>2, PTL DEF Spec

\* A worker that sleeps with the stop flag set and no handler left to run has been woken:
\* a stop request never waits for the poll interval.
THEOREM WakesUp == Spec => []NoLostWakeup
  <1>1. WorkerInv => NoLostWakeup
    BY WorkerAssumption, SMT
    DEF WorkerInv, TypeOK, StackDiscipline, FlagSeen, NoLostWakeup, Handlers
  <1> QED BY <1>1, WorkerInductive, PTL

\* At most one pass begins after the stop event was set.
THEOREM OneMorePass == Spec => []AtMostOneMorePass
  <1>1. WorkerInv => AtMostOneMorePass BY DEF WorkerInv, OverrunSeen, AtMostOneMorePass
  <1> QED BY <1>1, WorkerInductive, PTL
=============================================================================
