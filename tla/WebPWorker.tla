----------------------------- MODULE WebPWorker -----------------------------
(***************************************************************************)
(* libwebp's worker object: a thread that runs one job at a time for the   *)
(* thread that owns it.  Both wait on the same condition variable; the     *)
(* calls of the owner (Sync, Launch, End) all go through ChangeState.      *)
(*                                                                         *)
(* Every step between two operations on the mutex or on the condition      *)
(* variable is an action.  The job itself is left to the module that uses  *)
(* the worker.                                                             *)
(***************************************************************************)
EXTENDS Integers, FiniteSets

CONSTANT MaxSpurious   \* bound: wakeups without a signal, which POSIX allows

ASSUME SpuriousAssumption == MaxSpurious \in Nat

Threads == {"main", "worker"}

VARIABLES
  status,      \* status_: "NOT_OK", "OK" or "WORK"
  had_error,   \* a job has failed since Reset
  holder,      \* the threads that hold the mutex: at most one
  waiters,     \* the threads that wait on the condition and were not woken
  pc,          \* where each thread is
  target,      \* the status the owner's call asks for
  spurious     \* the spurious wakeups so far

workerVars == <<status, had_error, holder, waiters, pc, target, spurious>>

\* Init: no thread yet.
WorkerInit ==
  /\ status = "NOT_OK"
  /\ had_error = FALSE
  /\ holder = {}
  /\ waiters = {}
  /\ pc = [t \in Threads |-> IF t = "main" THEN "idle" ELSE "none"]
  /\ target = "OK"
  /\ spurious = 0

\* impl_ is not NULL: the thread has come up and has not been joined.
HasThread == pc["worker"] # "none"

Go(t, place) == pc' = [pc EXCEPT ![t] = place]

-----------------------------------------------------------------------------
\* The owner.

\* Reset creates the thread with the mutex held, so that it sees OK first.
ResetOk ==
  /\ status' = "OK"
  /\ had_error' = FALSE
  /\ Go("worker", "start")
  /\ UNCHANGED <<holder, waiters, target, spurious>>

\* The structure, the mutex, the condition or the thread cannot be had.
ResetFails ==
  /\ had_error' = FALSE
  /\ UNCHANGED <<status, holder, waiters, pc, target, spurious>>

\* A call enters ChangeState, which does nothing without a thread.
Call(new_status) ==
  /\ pc["main"] = "idle"
  /\ target' = new_status
  /\ Go("main", IF HasThread THEN "lock" ELSE "returned")
  /\ UNCHANGED <<status, had_error, holder, waiters, spurious>>

\* pthread_mutex_lock, or the way out of pthread_cond_wait.
Acquire(t) ==
  /\ pc[t] \in {"start", "lock", "wait"}
  /\ t \notin waiters
  /\ holder = {}
  /\ holder' = {t}
  /\ Go(t, "check")
  /\ UNCHANGED <<status, had_error, waiters, target, spurious>>

\* pthread_cond_wait gives the mutex up and waits, in one step.
Wait(t) ==
  /\ holder' = {}
  /\ waiters' = waiters \cup {t}
  /\ Go(t, "wait")
  /\ UNCHANGED <<status, had_error, target, spurious>>

\* The loop and the rest of ChangeState: a job that runs is waited for, then
\* the new status is stored and the thread is woken if it has to do something.
MainCheck ==
  /\ pc["main"] = "check"
  /\ \/ /\ status = "WORK"
        /\ Wait("main")
     \/ /\ status # "WORK"
        /\ holder' = {}
        /\ IF status = "OK" /\ target # "OK"
           THEN status' = target /\ Go("main", "signal")
           ELSE UNCHANGED status /\ Go("main", "returned")
        /\ UNCHANGED <<had_error, waiters, target, spurious>>

\* pthread_cond_signal wakes one of those that wait, if there is one.
Wake ==
  \/ waiters = {} /\ UNCHANGED waiters
  \/ \E t \in waiters : waiters' = waiters \ {t}

\* End joins the thread once it has been told to finish.
MainSignal ==
  /\ pc["main"] = "signal"
  /\ Wake
  /\ Go("main", IF target = "NOT_OK" THEN "join" ELSE "returned")
  /\ UNCHANGED <<status, had_error, holder, target, spurious>>

MainJoin ==
  /\ pc["main"] = "join"
  /\ pc["worker"] = "finished"
  /\ pc' = [pc EXCEPT !["main"] = "returned", !["worker"] = "none"]
  /\ UNCHANGED <<status, had_error, holder, waiters, target, spurious>>

Main == Acquire("main") \/ MainCheck \/ MainSignal \/ MainJoin

\* The caller goes on; Sync tells it whether a job has failed.
Return == pc["main"] = "returned" /\ Go("main", "idle")

\* Mutant of SyncOk: the errors of jobs are not asked for.
SyncOkAlways == TRUE

SyncOk == ~had_error

-----------------------------------------------------------------------------
\* The thread: ThreadLoop.

WorkerCheck ==
  /\ pc["worker"] = "check"
  /\ \/ /\ status = "OK"
        /\ Wait("worker")
     \/ /\ status = "WORK"
        /\ Go("worker", "execute")
        /\ UNCHANGED <<status, had_error, holder, waiters, target, spurious>>
     \/ /\ status = "NOT_OK"
        /\ holder' = {}
        /\ Go("worker", "last signal")
        /\ UNCHANGED <<status, had_error, waiters, target, spurious>>

Executing == pc["worker"] = "execute"

\* The job is done, with the mutex held all the time.
JobDone(ok) ==
  /\ Executing
  /\ status' = "OK"
  /\ had_error' = (had_error \/ ~ok)
  /\ holder' = {}
  /\ Go("worker", "signal")
  /\ UNCHANGED <<waiters, target, spurious>>

\* Mutant of WorkerSignal: only the end of the thread is signalled.
WorkerSignalLastOnly ==
  /\ pc["worker"] \in {"signal", "last signal"}
  /\ IF pc["worker"] = "last signal" THEN Wake ELSE UNCHANGED waiters
  /\ Go("worker", IF pc["worker"] = "signal" THEN "start" ELSE "finished")
  /\ UNCHANGED <<status, had_error, holder, target, spurious>>

WorkerSignal ==
  /\ pc["worker"] \in {"signal", "last signal"}
  /\ Wake
  /\ Go("worker", IF pc["worker"] = "signal" THEN "start" ELSE "finished")
  /\ UNCHANGED <<status, had_error, holder, target, spurious>>

Worker == Acquire("worker") \/ WorkerCheck \/ WorkerSignal

SpuriousWakeup ==
  /\ spurious < MaxSpurious
  /\ spurious' = spurious + 1
  /\ \E t \in waiters : waiters' = waiters \ {t}
  /\ UNCHANGED <<status, had_error, holder, pc, target>>

MainPlaces == {"idle", "lock", "wait", "check", "signal", "join", "returned"}

WorkerPlaces ==
  {"none", "start", "wait", "check", "execute", "signal", "last signal", "finished"}

WorkerTypeOK ==
  /\ status \in {"NOT_OK", "OK", "WORK"}
  /\ had_error \in BOOLEAN
  /\ holder \in {{}, {"main"}, {"worker"}}
  /\ waiters \in SUBSET Threads
  /\ pc \in [Threads -> MainPlaces \cup WorkerPlaces]
  /\ pc["main"] \in MainPlaces
  /\ pc["worker"] \in WorkerPlaces
  /\ target \in {"NOT_OK", "OK", "WORK"}
  /\ spurious \in Nat
=============================================================================
