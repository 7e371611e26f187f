--------------------------- MODULE ReconcilerWorker ---------------------------
(***************************************************************************)
(* One run of the command: main, the polling loop, the stop event and the  *)
(* signal handler.  There is one thread.  A signal handler runs on top of  *)
(* whatever the thread is doing, between any two of its steps, and a later *)
(* handler on top of an earlier one; only the topmost can move.            *)
(*                                                                         *)
(* threading.Event keeps its flag under a lock that is not reentrant:      *)
(* wait() takes it, tests the flag, adds a waiter, gives it back, sleeps,  *)
(* and takes it once more; set() takes it, sets the flag and wakes the     *)
(* waiter; is_set() does not take it.                                      *)
(***************************************************************************)
EXTENDS Naturals

CONSTANTS
    MaxSignals   \* bound: SIGINT and SIGTERM delivered to this process

ASSUME WorkerAssumption == MaxSignals \in Nat

VARIABLES
    once,        \* --once was given
    main,        \* where main or run_forever is
    installed,   \* _install_signal_handlers has run
    depth,       \* handlers on top of main
    handler,     \* handler[i]: where the i-th of them is
    flag,        \* Event._flag
    holder,      \* who holds the event's lock: Free, 0 (main) or a handler
    waiter,      \* the waiter of wait(): "none", "armed" or "released"
    status,      \* "running", "killed", or the exit status "0" or "1"
    signals,     \* signals delivered so far
    overrun      \* history: passes begun with the flag already set, up to 2

vars == <<once, main, installed, depth, handler, flag, holder, waiter, status,
          signals, overrun>>

Free == MaxSignals + 1
Handlers == 1..MaxSignals
MainStates == {"setup", "once", "check", "begin", "pass", "wait", "locked", "armed",
               "sleep", "retake", "leave", "exited"}
HandlerStates == {"off", "enter", "flag", "notify", "leave"}

Init ==
    /\ once \in BOOLEAN /\ main = "setup" /\ installed = FALSE
    /\ depth = 0 /\ handler = [i \in Handlers |-> "off"]
    /\ flag = FALSE /\ holder = Free /\ waiter = "none"
    /\ status = "running" /\ signals = 0 /\ overrun = 0

Exit(s) == main' = "exited" /\ status' = s
Goto(s) == main' = s /\ UNCHANGED status
event == <<flag, holder, waiter>>
stack == <<depth, handler, signals>>

-----------------------------------------------------------------------------
(* main and run_forever; every step of theirs needs the stack to be empty *)

Running == status = "running" /\ depth = 0

\* load_settings and build_service raise, or main goes on: one pass with --once,
\* handlers and the loop without.
Setup ==
    /\ Running /\ main = "setup"
    /\ \/ Exit("1") /\ UNCHANGED installed
       \/ /\ Goto(IF once THEN "once" ELSE "check")
          /\ installed' = ~once
    /\ UNCHANGED <<once, event, stack, overrun>>

\* reconcile_once with --once: success, an error count, or an exception.
OnlyPass ==
    /\ Running /\ main = "once"
    /\ Exit("0") \/ Exit("1")
    /\ UNCHANGED <<once, installed, event, stack, overrun>>

\* Variant with a bug: the loop does not look at the event.
Check_Never ==
    /\ Running /\ main = "check"
    /\ Goto("begin")
    /\ UNCHANGED <<once, installed, event, stack, overrun>>

\* while not self._stop_requested.is_set()
Check ==
    /\ Running /\ main = "check"
    /\ IF flag THEN Exit("0") ELSE Goto("begin")
    /\ UNCHANGED <<once, installed, event, stack, overrun>>

BeginPass ==
    /\ Running /\ main = "begin"
    /\ Goto("pass")
    /\ overrun' = IF flag /\ overrun < 2 THEN overrun + 1 ELSE overrun
    /\ UNCHANGED <<once, installed, event, stack>>

\* Variant with a bug: an exception of a pass ends the loop.
EndPass_Uncaught ==
    /\ Running /\ main = "pass"
    /\ Goto("wait") \/ Exit("1")
    /\ UNCHANGED <<once, installed, event, stack, overrun>>

\* reconcile_once returns or raises; either way run_forever goes on to the wait.
EndPass ==
    /\ Running /\ main = "pass"
    /\ Goto("wait")
    /\ UNCHANGED <<once, installed, event, stack, overrun>>

-----------------------------------------------------------------------------
(* Event.wait(poll_interval_seconds) *)

TakeLock ==
    /\ Running /\ main = "wait" /\ holder = Free
    /\ holder' = 0 /\ Goto("locked")
    /\ UNCHANGED <<once, installed, flag, waiter, stack, overrun>>

\* With the flag set wait returns at once; otherwise it adds a waiter.
TestFlag ==
    /\ Running /\ main = "locked"
    /\ IF flag THEN Goto("leave") /\ UNCHANGED waiter
               ELSE Goto("armed") /\ waiter' = "armed"
    /\ UNCHANGED <<once, installed, flag, holder, stack, overrun>>

FallAsleep ==
    /\ Running /\ main = "armed"
    /\ holder' = Free /\ Goto("sleep")
    /\ UNCHANGED <<once, installed, flag, waiter, stack, overrun>>

\* The waiter was released, or the poll interval is over.
WakeUp ==
    /\ Running /\ main = "sleep"
    /\ Goto("retake")
    /\ UNCHANGED <<once, installed, event, stack, overrun>>

RetakeLock ==
    /\ Running /\ main = "retake" /\ holder = Free
    /\ holder' = 0 /\ waiter' = "none" /\ Goto("leave")
    /\ UNCHANGED <<once, installed, flag, stack, overrun>>

LeaveWait ==
    /\ Running /\ main = "leave"
    /\ holder' = Free /\ Goto("check")
    /\ UNCHANGED <<once, installed, flag, waiter, stack, overrun>>

-----------------------------------------------------------------------------
(* Signals *)

\* SIGINT or SIGTERM.  Until the handlers are installed, and with --once for good, it
\* ends the process wherever it is.
Signal ==
    /\ status = "running" /\ signals < MaxSignals
    /\ signals' = signals + 1
    /\ IF installed
       THEN /\ depth' = depth + 1 /\ handler' = [handler EXCEPT ![depth + 1] = "enter"]
            /\ UNCHANGED <<main, status>>
       ELSE Exit("killed") /\ UNCHANGED <<depth, handler>>
    /\ UNCHANGED <<once, installed, event, overrun>>

\* The topmost handler moves from one place to the next.
Moves(from, to) ==
    /\ status = "running" /\ depth > 0 /\ handler[depth] = from
    /\ handler' = [handler EXCEPT ![depth] = to]
    /\ UNCHANGED <<once, main, installed, status, signals, overrun>>

\* request_stop calls Event.set, which takes the lock ...
HandlerEnters ==
    /\ Moves("enter", "flag") /\ holder = Free
    /\ holder' = depth
    /\ UNCHANGED <<depth, flag, waiter>>

\* ... sets the flag ...
HandlerSetsFlag ==
    /\ Moves("flag", "notify")
    /\ flag' = TRUE
    /\ UNCHANGED <<depth, holder, waiter>>

\* Variant with a bug: the flag is a plain attribute, and nobody is woken.
HandlerNotifies_Nobody ==
    /\ Moves("notify", "leave")
    /\ UNCHANGED <<depth, flag, holder, waiter>>

\* ... wakes the waiter ...
HandlerNotifies ==
    /\ Moves("notify", "leave")
    /\ waiter' = IF waiter = "armed" THEN "released" ELSE waiter
    /\ UNCHANGED <<depth, flag, holder>>

\* ... and gives the lock back.
HandlerLeaves ==
    /\ Moves("leave", "off")
    /\ depth' = depth - 1 /\ holder' = Free
    /\ UNCHANGED <<flag, waiter>>

-----------------------------------------------------------------------------
MainSteps ==
    \/ Setup \/ OnlyPass \/ Check \/ BeginPass \/ EndPass
    \/ TakeLock \/ TestFlag \/ FallAsleep \/ WakeUp \/ RetakeLock \/ LeaveWait
HandlerSteps == HandlerEnters \/ HandlerSetsFlag \/ HandlerNotifies \/ HandlerLeaves

Next == MainSteps \/ HandlerSteps \/ Signal

Spec == Init /\ [][Next]_vars

\* The thread keeps running and a pass ends; nothing makes a signal come.
FairSpec == Spec /\ WF_vars(MainSteps \/ HandlerSteps)
=============================================================================
