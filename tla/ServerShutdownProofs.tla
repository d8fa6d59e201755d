------------------------ MODULE ServerShutdownProofs ------------------------
(***************************************************************************)
(* Proof that the timer thread is out of the way when the manager's mutex  *)
(* is destroyed.  The fairness of FairSpec plays no part in it.            *)
(***************************************************************************)
EXTENDS ServerShutdown, TLAPS

(* The timer thread takes no further step of its own. *)
TimerStill == terminated \/ handler["timer"] # "none"

Cleaning == {"log_stopped", "clear", "log_cleaned", "close"}

(* The inductive strengthening.  The flag goes down, and the thread id is  *)
(* zeroed, only by a handler: by the one on main, which then goes on to    *)
(* wait, or by one on the timer thread, which keeps that thread still.     *)
FlagInv ==
  ~timer_thread_running => TimerStill \/ handler["main"] \in {"join"} \cup Cleaning
JoinedInv == timer_thread_id = "zero" => TimerStill
CleaningInv == \A t \in Threads : handler[t] \in Cleaning => TimerStill
HandlerType == handler \in [Threads -> HandlerSteps]

ShutdownInv ==
  /\ HandlerType
  /\ timer_thread_id \in {"set", "zero"}
  /\ held \in [Threads -> SUBSET Mutexes]
  /\ FlagInv
  /\ JoinedInv
  /\ CleaningInv
  /\ TimerGoneBeforeDestroy

USE DEF TimerStill, Cleaning, FlagInv, JoinedInv, CleaningInv, HandlerType,
        ShutdownInv, TimerGoneBeforeDestroy, Threads, HandlerSteps

(* A step of either thread's own code preserves the invariant. *)
LEMMA ThreadStepKeepsInv ==
  ASSUME ShutdownInv, NEW t \in Threads, NEW m \in Mutexes,
         Lock(t, m) \/ Unlock(t, m)
  PROVE  ShutdownInv'
<1>1. held' \in [Threads -> SUBSET Mutexes]
  BY DEF Lock, Unlock
<1>2. destroyed => held'["timer"] = held["timer"]
  BY DEF Lock, Unlock, Runs
<1> QED
  BY <1>1, <1>2 DEF Lock, Unlock, flags

(* A step of the handler on either thread preserves the invariant. *)
LEMMA HandlerStepKeepsInv ==
  ASSUME ShutdownInv, NEW t \in Threads, HandlerStep(t)
  PROVE  ShutdownInv'
<1>1. CASE Tests(t)
  <2>1. CASE timer_thread_running
    BY <1>1, <2>1 DEF Tests, Goes, flags
  <2>2. CASE ~timer_thread_running
    <3>1. handler' = [handler EXCEPT ![t] = "clear"]
      BY <1>1, <2>2 DEF Tests, Goes
    <3>2. TimerStill
      BY <1>1, <2>2 DEF Tests, Goes
    <3> QED
      BY <1>1, <2>2, <3>1, <3>2 DEF Tests, flags
  <2> QED
    BY <2>1, <2>2
<1>2. CASE Stops(t)
  <2>1. CASE timer_thread_id = "set"
    BY <1>2, <2>1 DEF Stops, Goes
  <2>2. CASE timer_thread_id # "set"
    <3>1. timer_thread_id = "zero"
      BY <2>2
    <3> QED
      BY <1>2, <2>2, <3>1 DEF Stops, Goes
  <2> QED
    BY <2>1, <2>2
<1>3. CASE Joins(t)
  BY <1>3 DEF Joins, Goes
<1>4. CASE LogsStopped(t)
  BY <1>4 DEF LogsStopped, Goes, flags
<1>5. CASE Clears(t)
  BY <1>5 DEF Clears, Goes, flags, Free
<1>6. CASE LogsCleaned(t)
  BY <1>6 DEF LogsCleaned, Goes, flags
<1>7. CASE Exits(t)
  BY <1>7 DEF Exits, flags
<1> QED
  BY <1>1, <1>2, <1>3, <1>4, <1>5, <1>6, <1>7 DEF HandlerStep

(* However the signals fall, when cleanup_match_manager has destroyed the  *)
(* mutex the timer thread is outside of its critical section and stays     *)
(* there: stop_timer_thread never lets a running one be overtaken.         *)
THEOREM DestroyIsSafe == FairSpec => []TimerGoneBeforeDestroy
<1>1. Init => ShutdownInv
  BY DEF Init
<1>2. ShutdownInv /\ [Next]_vars => ShutdownInv'
  <2> SUFFICES ASSUME ShutdownInv, [Next]_vars PROVE ShutdownInv'
    OBVIOUS
  <2>1. CASE \E t \in Threads, m \in Mutexes : Lock(t, m) \/ Unlock(t, m)
    BY <2>1, ThreadStepKeepsInv
  <2>2. CASE TimerLeaves
    BY <2>2 DEF TimerLeaves, flags
  <2>3. CASE \E t \in Threads : Signal(t)
    BY <2>3 DEF Signal, Runs, flags
  <2>4. CASE \E t \in Threads : HandlerStep(t)
    BY <2>4, HandlerStepKeepsInv
  <2>5. CASE UNCHANGED vars
    BY <2>5 DEF vars, flags
  <2> QED
    BY <2>1, <2>2, <2>3, <2>4, <2>5 DEF Next
<1>3. ShutdownInv => TimerGoneBeforeDestroy
  OBVIOUS
<1> QED
  BY <1>1, <1>2, <1>3, PTL DEF FairSpec
=============================================================================
