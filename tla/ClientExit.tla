----------------------------- MODULE ClientExit -----------------------------
(***************************************************************************)
(* How a client goes down: SIGINT or the key for quitting on the UI        *)
(* thread, cleanup_and_exit and handle_sigint (client/main.c),             *)
(* cleanup_network (client/client_network.c), which cancels the network    *)
(* thread wherever it is, and logger_cleanup (common/logger.c).  The       *)
(* network thread blocks all signals, so the handler runs on the UI        *)
(* thread, on top of whatever it is doing, cleaning up included.           *)
(*                                                                         *)
(* The threads are reduced to the mutexes they take: screen_mutex, inside  *)
(* it network_mutex (a screen that shows the state of the connection), and *)
(* inside either the logger's log_mutex.                                   *)
(***************************************************************************)
EXTENDS Naturals

CONSTANT MaxSignals  \* bound: SIGINTs that arrive

ASSUME ExitAssumption == MaxSignals \in Nat

Threads == {"ui", "net"}
Mutexes == {"screen", "network", "log"}
Rank == [screen |-> 1, network |-> 2, log |-> 3]

VARIABLES held,                    \* the mutexes a thread holds
          ui,                      \* where the UI thread's own code is: in its loop,
                                   \* a menu, or a step of cleanup_and_exit
          handler,                 \* where the handler on top of it is, or "none"
          shutdown_requested,
          network_thread_running,
          net,                     \* the network thread: running, cancelling, gone
          exited,                  \* "no", "clean", or "forced" by _exit(1)
          signals                  \* SIGINTs so far

flags == <<shutdown_requested, network_thread_running>>
vars  == <<held, ui, handler, flags, net, exited, signals>>

Init ==
  /\ held = [t \in Threads |-> {}]
  /\ ui = "loop"
  /\ handler = "none"
  /\ shutdown_requested = FALSE
  /\ network_thread_running = TRUE
  /\ net = "running"
  /\ exited = "no"
  /\ signals = 0

Free(m) == \A t \in Threads : m \notin held[t]

(* A thread that goes on with its own code; a cancelled one never does. *)
Runs(t) ==
  /\ exited = "no"
  /\ \/ t = "ui" /\ ui = "loop" /\ handler = "none"
     \/ t = "net" /\ net \in {"running", "cancelling"}

(* Drawing, a handler of a message, a line of the log. *)
Lock(t, m) ==
  /\ Runs(t)
  /\ Free(m)
  /\ \A n \in held[t] : Rank[n] < Rank[m]
  /\ held' = [held EXCEPT ![t] = @ \cup {m}]
  /\ UNCHANGED <<ui, handler, flags, net, exited, signals>>

Unlock(t, m) ==
  /\ Runs(t)
  /\ m \in held[t]
  /\ \A n \in held[t] : Rank[n] <= Rank[m]
  /\ held' = [held EXCEPT ![t] = @ \ {m}]
  /\ UNCHANGED <<ui, handler, flags, net, exited, signals>>

(* network_thread looks at its flag at the head of the loop; leaving, it   *)
(* takes network_mutex and logs.                                           *)
NetEnds ==
  /\ Runs("net")
  /\ ~network_thread_running
  /\ held["net"] = {}
  /\ Free("network") /\ Free("log")
  /\ net' = "gone"
  /\ UNCHANGED <<held, ui, handler, flags, exited, signals>>

(* PTHREAD_CANCEL_ASYNCHRONOUS: the thread ends between any two            *)
(* instructions, and the mutexes it holds stay locked.                     *)
NetCancelled ==
  /\ Runs("net")
  /\ net = "cancelling"
  /\ net' = "gone"
  /\ UNCHANGED <<held, ui, handler, flags, exited, signals>>

-----------------------------------------------------------------------------
(* The handler.                                                            *)

SIGINT ==
  /\ exited = "no" /\ handler = "none"
  /\ signals < MaxSignals
  /\ signals' = signals + 1
  /\ shutdown_requested' = TRUE
  /\ handler' = "log"
  /\ UNCHANGED <<held, ui, network_thread_running, net, exited>>

HandlerLogs ==
  /\ exited = "no" /\ handler = "log"
  /\ Free("log")
  /\ handler' = "trylock"
  /\ UNCHANGED <<held, ui, flags, net, exited, signals>>

(* Mutant: the handler waits for screen_mutex. *)
HandlerLocks ==
  /\ exited = "no" /\ handler = "trylock"
  /\ Free("screen")
  /\ handler' = "none"
  /\ UNCHANGED <<held, ui, flags, net, exited, signals>>

(* A screen_mutex that is free is given back at once, and the interrupted  *)
(* code goes on; one that is held, by whichever thread, ends the process.  *)
HandlerTries ==
  /\ exited = "no" /\ handler = "trylock"
  /\ handler' = IF Free("screen") THEN "none" ELSE "warn"
  /\ UNCHANGED <<held, ui, flags, net, exited, signals>>

HandlerForces ==
  /\ exited = "no" /\ handler = "warn"
  /\ Free("log")
  /\ exited' = "forced"
  /\ UNCHANGED <<held, ui, handler, flags, net, signals>>

Handler == HandlerLogs \/ HandlerTries \/ HandlerForces

-----------------------------------------------------------------------------
(* The UI thread.                                                          *)

UiGoes(from, to) ==
  /\ exited = "no" /\ handler = "none"
  /\ ui = from
  /\ ui' = to

(* After a look at the flag, replay_menu or get_username_dialog: they      *)
(* block in wgetch, and do not look at it themselves.                      *)
EnterMenu ==
  /\ ~shutdown_requested
  /\ held["ui"] = {}
  /\ UiGoes("loop", "menu")
  /\ UNCHANGED <<held, handler, flags, net, exited, signals>>

LeaveMenu ==
  /\ UiGoes("menu", "loop")
  /\ UNCHANGED <<held, handler, flags, net, exited, signals>>

(* cleanup_and_exit is called after a SIGINT, which the loop looks for     *)
(* twice a round, ...                                                      *)
ShutdownSeen ==
  /\ shutdown_requested
  /\ held["ui"] = {}
  /\ UiGoes("loop", "begin")
  /\ UNCHANGED <<held, handler, flags, net, exited, signals>>

(* ... or on 'q' or '3' on the main screen, ... *)
QuitKey ==
  /\ held["ui"] = {}
  /\ UiGoes("loop", "begin")
  /\ UNCHANGED <<held, handler, flags, net, exited, signals>>

(* ... and logs that it begins. *)
BeginCleanup ==
  /\ Free("log")
  /\ UiGoes("begin", "stop")
  /\ UNCHANGED <<held, handler, flags, net, exited, signals>>

(* cleanup_network: the flag goes down and the socket is closed, ... *)
StopNetwork ==
  /\ Free("log")
  /\ UiGoes("stop", "network")
  /\ network_thread_running' = FALSE
  /\ UNCHANGED <<held, handler, shutdown_requested, net, exited, signals>>

(* ... network_mutex is taken and given back, ... *)
MarkDisconnected ==
  /\ Free("network")
  /\ UiGoes("network", "cancel")
  /\ UNCHANGED <<held, handler, flags, net, exited, signals>>

(* ... and after 100 ms the network thread is cancelled, if it is still    *)
(* there, ...                                                              *)
CancelNetwork ==
  /\ Free("log")
  /\ UiGoes("cancel", "join")
  /\ net' = IF net = "running" THEN "cancelling" ELSE net
  /\ UNCHANGED <<held, handler, flags, exited, signals>>

(* ... and joined. *)
JoinNetwork ==
  /\ net = "gone"
  /\ UiGoes("join", "logger")
  /\ UNCHANGED <<held, handler, flags, net, exited, signals>>

(* The rest of cleanup_and_exit: the dialog, the terminal and the log are  *)
(* closed, with lines logged in between.                                   *)
CleanExit ==
  /\ exited = "no" /\ handler = "none" /\ ui = "logger"
  /\ Free("log")
  /\ exited' = "clean"
  /\ UNCHANGED <<held, ui, handler, flags, net, signals>>

Cleanup == BeginCleanup \/ StopNetwork \/ MarkDisconnected \/ CancelNetwork \/ JoinNetwork \/ CleanExit

Next ==
  \/ \E t \in Threads, m \in Mutexes : Lock(t, m) \/ Unlock(t, m)
  \/ NetEnds \/ NetCancelled
  \/ SIGINT \/ Handler
  \/ EnterMenu \/ LeaveMenu \/ ShutdownSeen \/ QuitKey \/ Cleanup

Spec == Init /\ [][Next]_vars

(* A thread leaves its critical sections, a mutex that is free again and   *)
(* again is got, the UI loop comes round to the flag (getch times out) and *)
(* a cancellation takes effect.  Nobody need leave a menu.                 *)
FairSpec ==
  /\ Spec
  /\ \A t \in Threads, m \in Mutexes : SF_vars(Unlock(t, m))
  /\ WF_vars(NetCancelled)
  /\ SF_vars(Handler)
  /\ SF_vars(ShutdownSeen)
  /\ SF_vars(Cleanup)

-----------------------------------------------------------------------------
Asked == shutdown_requested \/ ui \notin {"loop", "menu"}

(* Whoever asks a client to end, by key or by SIGINT, once or again in the *)
(* middle of cleaning up, ends it, unless log_mutex stays locked for ever: *)
(* the signal found the UI thread inside log_message, or the cancellation  *)
(* the network thread.  No other mutex matters: handle_sigint only tries   *)
(* screen_mutex, and cleanup_network is past network_mutex when it         *)
(* cancels.  A menu has to be left first.                                  *)
ExitsUnlessLogHeld ==
  (/\ <>Asked
   /\ []<>(ui # "menu")
   /\ [](handler # "none" => "log" \notin held["ui"])
   /\ [](net = "gone" => "log" \notin held["net"]))
    => <>(exited # "no")
=============================================================================
