--------------------------- MODULE ServerShutdown ---------------------------
(***************************************************************************)
(* How the server goes down: SIGINT or SIGTERM interrupts one of the two   *)
(* threads, whichever the kernel picks, and cleanup_signal_handler         *)
(* (server/main.c) runs on top of it, while the other thread goes on.  A   *)
(* second signal runs the handler a second time, on the other thread: a    *)
(* signal is masked only in the thread that is handling it.  The threads   *)
(* are reduced to the two mutexes they take, g_match_manager.mutex and,    *)
(* inside or outside of it, the logger's log_mutex.                        *)
(* Bound: at most one signal per thread (no handler interrupts a handler). *)
(***************************************************************************)

Threads == {"main", "timer"}
Mutexes == {"manager", "log"}

VARIABLES held,       \* the mutexes each thread's normal code holds
          timer_thread_running,
          timer_thread_id,  \* "set", or "zero" once joined
          terminated, \* the timer thread has left its loop
          destroyed,  \* g_match_manager.mutex has been destroyed
          handler,    \* where each thread's signal handler is
          exited      \* _exit has been called

flags == <<timer_thread_running, timer_thread_id>>
vars == <<held, flags, terminated, destroyed, handler, exited>>

HandlerSteps == {"none", "test", "stop", "join", "log_stopped", "clear",
                 "log_cleaned", "close"}

Init ==
  /\ held = [t \in Threads |-> {}]
  /\ timer_thread_running = TRUE
  /\ timer_thread_id = "set"
  /\ terminated = FALSE
  /\ destroyed = FALSE
  /\ handler = [t \in Threads |-> "none"]
  /\ exited = FALSE

(* An interrupted thread's own code stands still. *)
Runs(t) ==
  /\ ~exited
  /\ handler[t] = "none"
  /\ t = "timer" => ~terminated

Free(m) == \A t \in Threads : m \notin held[t]

(* A request is handled, a check begins, or a line is logged.  log_message *)
(* takes no other mutex.  Locking a destroyed mutex is not guarded against.*)
Lock(t, m) ==
  /\ Runs(t)
  /\ Free(m)
  /\ "log" \notin held[t]
  /\ held' = [held EXCEPT ![t] = @ \cup {m}]
  /\ UNCHANGED <<flags, terminated, destroyed, handler, exited>>

Unlock(t, m) ==
  /\ Runs(t)
  /\ m \in held[t]
  /\ m = "manager" => "log" \notin held[t]
  /\ held' = [held EXCEPT ![t] = @ \ {m}]
  /\ UNCHANGED <<flags, terminated, destroyed, handler, exited>>

(* timer_check_thread leaves its loop and logs that it did. *)
TimerLeaves ==
  /\ Runs("timer")
  /\ ~timer_thread_running
  /\ held["timer"] = {}
  /\ Free("log")
  /\ terminated' = TRUE
  /\ UNCHANGED <<held, flags, destroyed, handler, exited>>

(* A signal arrives at thread t.  Neither thread blocks it. *)
Signal(t) ==
  /\ Runs(t)
  /\ handler' = [handler EXCEPT ![t] = "test"]
  /\ UNCHANGED <<held, flags, terminated, destroyed, exited>>

-----------------------------------------------------------------------------
(* The handler on thread t goes on from step "from" to step "to". *)
Goes(t, from, to) ==
  /\ ~exited
  /\ handler[t] = from
  /\ handler' = [handler EXCEPT ![t] = to]

(* stop_timer_thread looks at the flag: only the first caller stops it. *)
Tests(t) ==
  /\ Goes(t, "test", IF timer_thread_running THEN "stop" ELSE "clear")
  /\ UNCHANGED <<held, flags, terminated, destroyed, exited>>

(* Mutant: stop_timer_thread does not tell the thread to stop. *)
StopsNothing(t) ==
  /\ Goes(t, "stop", IF timer_thread_id = "set" THEN "join" ELSE "clear")
  /\ UNCHANGED <<held, flags, terminated, destroyed, exited>>

(* stop_timer_thread clears the flag and looks for a thread to join. *)
Stops(t) ==
  /\ Goes(t, "stop", IF timer_thread_id = "set" THEN "join" ELSE "clear")
  /\ timer_thread_running' = FALSE
  /\ UNCHANGED <<held, timer_thread_id, terminated, destroyed, exited>>

(* Mutant: the thread is not waited for. *)
JoinsNothing(t) ==
  /\ Goes(t, "join", "log_stopped")
  /\ timer_thread_id' = "zero"
  /\ UNCHANGED <<held, timer_thread_running, terminated, destroyed, exited>>

(* pthread_join waits for the timer thread; called by that thread itself   *)
(* it returns EDEADLK at once, which the code does not look at.            *)
Joins(t) ==
  /\ terminated \/ t = "timer"
  /\ Goes(t, "join", "log_stopped")
  /\ timer_thread_id' = "zero"
  /\ UNCHANGED <<held, timer_thread_running, terminated, destroyed, exited>>

(* LOG_INFO("Timer check thread stopped"). *)
LogsStopped(t) ==
  /\ Free("log")
  /\ Goes(t, "log_stopped", "clear")
  /\ UNCHANGED <<held, flags, terminated, destroyed, exited>>

(* cleanup_match_manager takes the mutex, clears the tables, gives the     *)
(* mutex back and destroys it.                                             *)
Clears(t) ==
  /\ Free("manager")
  /\ Goes(t, "clear", "log_cleaned")
  /\ destroyed' = TRUE
  /\ UNCHANGED <<held, flags, terminated, exited>>

(* LOG_INFO("Match manager cleaned up"). *)
LogsCleaned(t) ==
  /\ Free("log")
  /\ Goes(t, "log_cleaned", "close")
  /\ UNCHANGED <<held, flags, terminated, destroyed, exited>>

(* The sockets are closed, logger_cleanup takes log_mutex, _exit. *)
Exits(t) ==
  /\ ~exited
  /\ handler[t] = "close"
  /\ Free("log")
  /\ exited' = TRUE
  /\ UNCHANGED <<held, flags, terminated, destroyed, handler>>

HandlerStep(t) ==
  \/ Tests(t) \/ Stops(t) \/ Joins(t) \/ LogsStopped(t)
  \/ Clears(t) \/ LogsCleaned(t) \/ Exits(t)

Next ==
  \/ \E t \in Threads, m \in Mutexes : Lock(t, m) \/ Unlock(t, m)
  \/ TimerLeaves
  \/ \E t \in Threads : Signal(t) \/ HandlerStep(t)

(* A thread leaves its critical sections (it logs a bounded number of      *)
(* lines in each), the timer thread reads the flag in every round, and a   *)
(* mutex that is free again and again is got.                              *)
FairSpec ==
  /\ Init /\ [][Next]_vars
  /\ \A t \in Threads, m \in Mutexes : SF_vars(Unlock(t, m))
  /\ SF_vars(TimerLeaves)
  /\ \A t \in Threads : SF_vars(HandlerStep(t))

-----------------------------------------------------------------------------
(* Once the tables are cleared and the mutex destroyed, the timer thread   *)
(* is not in a critical section of it and never will be again, whichever   *)
(* thread cleaned up and however many handlers ran: stop_timer_thread may  *)
(* skip the join only when the timer thread itself is interrupted.         *)
TimerGoneBeforeDestroy ==
  destroyed => /\ "manager" \notin held["timer"]
               /\ terminated \/ handler["timer"] # "none"

Signalled == \E t \in Threads : handler[t] # "none"

(* Signals that find their threads outside of every critical section bring *)
(* the server down.                                                        *)
CleanUnlessHeld ==
  /\ <>Signalled
  /\ [](\A t \in Threads : handler[t] # "none" => held[t] = {})
  => <>exited
=============================================================================
