---------------------------- MODULE TrayManager -----------------------------
(***************************************************************************)
(* TrayManager on GTK (tray_gtk.cpp) around the daemon of Daemon.tla: the  *)
(* GTK thread from start() to the end of its loop, the Quit item of its    *)
(* menu, and stop(), which both the Quit item and cleanup() call.          *)
(*                                                                         *)
(* Daemon.tla leaves the tray's part of a quit at request_shutdown(), as   *)
(* the trays of the other platforms do.  The GTK item goes on to stop().   *)
(***************************************************************************)
EXTENDS Naturals, Sequences

CONSTANT QueueCapacity

VARIABLES
  state_, event_queue_, queue_mutex_, shutdown_requested_, notified, pc, event,
  tray, avatar, mic, apps, listening, quit, click, pid_file

VARIABLES
  gtk,         \* where the GTK thread is
  gtk_loop,    \* the pointer is set
  leaving,     \* g_main_loop_quit() reached a loop that runs
  terminated   \* std::terminate

D == INSTANCE Daemon

daemonVars ==
  <<state_, event_queue_, queue_mutex_, shutdown_requested_, notified, pc, event,
    tray, avatar, mic, apps, listening, quit, click, pid_file>>
vars == <<daemonVars, gtk, gtk_loop, leaving, terminated>>

TypeOK ==
  /\ D!TypeOK
  /\ gtk \in {"none", "starting", "made", "running", "quit_item", "ended"}
  /\ gtk_loop \in BOOLEAN /\ leaving \in BOOLEAN /\ terminated \in BOOLEAN

Init ==
  /\ D!Init
  /\ gtk = "none" /\ gtk_loop = FALSE /\ leaving = FALSE /\ terminated = FALSE

-----------------------------------------------------------------------------
(* The GTK thread.                                                          *)

(* start() is the last thing initialize() may fail before.                  *)
StartTray ==
  /\ D!Initialize
  /\ gtk' = IF pc' = "run" THEN "starting" ELSE gtk
  /\ UNCHANGED <<gtk_loop, leaving, terminated>>

(* The menu is built before the loop is.                                    *)
MakeLoop ==
  /\ gtk = "starting" /\ gtk' = "made"
  /\ gtk_loop' = TRUE
  /\ UNCHANGED <<daemonVars, leaving, terminated>>

(* g_main_loop_run() forgets a quit that came before it.                    *)
RunLoop ==
  /\ gtk = "made" /\ gtk' = "running"
  /\ UNCHANGED <<daemonVars, gtk_loop, leaving, terminated>>

EndLoop ==
  /\ gtk = "running" /\ leaving
  /\ gtk' = "ended"
  /\ UNCHANGED <<daemonVars, gtk_loop, leaving, terminated>>

(* The Quit item: on_quit_(), which is request_shutdown(), ...              *)
ChooseQuit ==
  /\ gtk = "running" /\ gtk' = "quit_item"
  /\ D!StoreShutdown
  /\ UNCHANGED <<gtk_loop, leaving, terminated>>

RequestShutdown ==
  /\ D!FlagShutdown \/ D!NotifyShutdown
  /\ UNCHANGED <<gtk, gtk_loop, leaving, terminated>>

(* ... then stop(), which joins the GTK thread: the thread itself.  join()  *)
(* throws, and nothing on this thread catches it.                           *)
JoinItself ==
  /\ gtk = "quit_item" /\ quit = "done"
  /\ gtk_loop' = FALSE /\ terminated' = TRUE
  /\ UNCHANGED <<daemonVars, gtk, leaving>>

-----------------------------------------------------------------------------
(* The daemon thread calls stop() in cleanup().                             *)
StopTray ==
  /\ D!StopSources
  /\ gtk_loop' = FALSE
  /\ leaving' = (leaving \/ (gtk_loop /\ gtk \in {"running", "quit_item"}))
  /\ UNCHANGED <<gtk, terminated>>

JoinTray ==
  /\ D!JoinSources
  /\ gtk \in {"none", "ended"}
  /\ UNCHANGED <<gtk, gtk_loop, leaving, terminated>>

DaemonThread ==
  /\ \/ D!MainLoop /\ pc # "init"
     \/ D!Reload \/ D!Handlers
     \/ D!StopHotkey \/ D!StopAudio \/ D!Release
  /\ UNCHANGED <<gtk, gtk_loop, leaving, terminated>>

Others ==
  /\ D!Click \/ D!QueueClick \/ D!Signal \/ \E e \in D!Events : D!HotkeyThread(e)
  /\ UNCHANGED <<gtk, gtk_loop, leaving, terminated>>

GtkThread == MakeLoop \/ RunLoop \/ EndLoop \/ RequestShutdown \/ JoinItself

Running ==
  \/ StartTray \/ StopTray \/ JoinTray \/ DaemonThread
  \/ GtkThread \/ ChooseQuit
  \/ Others

Next ==
  \/ ~terminated /\ Running
  \/ terminated /\ UNCHANGED vars
  \/ pc \in {"failed", "exited"} /\ UNCHANGED vars

Spec == Init /\ [][Next]_vars

(* Threads run until the program ends; users owe nothing.                   *)
Fairness ==
  /\ WF_vars(~terminated /\ (StartTray \/ StopTray \/ JoinTray \/ DaemonThread))
  /\ WF_vars(~terminated /\ GtkThread)
  /\ WF_vars(~terminated /\ D!QueueClick /\ UNCHANGED <<gtk, gtk_loop, leaving, terminated>>)

FairSpec == Spec /\ Fairness

-----------------------------------------------------------------------------
(* The menu's Quit item quits the daemon: cleanup() runs to its end         *)
(* ("exposes menu actions such as open config and quit",                    *)
(* engineering/design-system-audit.md).                                     *)
QuitCompletes == quit = "stored" ~> pc = "exited"
=============================================================================
