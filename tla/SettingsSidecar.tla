-------------------------- MODULE SettingsSidecar --------------------------
(***************************************************************************)
(* `autowhisper config ui` (cli_settings_ui.cpp): one settings server a    *)
(* configuration file.  The sidecar file is locked by the instance that    *)
(* serves and holds its port and token; another instance that finds it     *)
(* locked opens the published URL instead.  An instance may be killed      *)
(* anywhere, which releases the lock and leaves the contents.              *)
(***************************************************************************)
EXTENDS FiniteSets

CONSTANTS
  Instances,  \* processes; one that has ended may be started again
  Nobody,     \* no holder; nothing published
  Stale       \* a URL whose server is gone

ASSUME SidecarAssumption == Nobody \notin Instances /\ Stale \notin Instances \cup {Nobody}

VARIABLES
  ui,       \* where each instance is
  flock,    \* who holds the lock
  sidecar   \* whose URL the file holds

sidecarVars == <<ui, flock, sidecar>>

SidecarTypeOK ==
  /\ ui \in [Instances -> {"none", "waiting", "looking", "locked", "truncated",
                           "bound", "listening", "stopping"}]
  /\ flock \in Instances \cup {Nobody}
  /\ sidecar \in Instances \cup {Nobody, Stale}

SidecarInit ==
  /\ ui = [i \in Instances |-> "none"]
  /\ flock = Nobody /\ sidecar = Nobody

Past(i) == ui[i] \notin {"none", "waiting", "looking"}  \* the lock

Goes(i, from, to) == ui[i] = from /\ ui' = [ui EXCEPT ![i] = to]

(* Where the published URL leads: a bound port queues its connections.      *)
Serves(j) == j \in Instances /\ ui[j] \in {"bound", "listening"}

-----------------------------------------------------------------------------
(* open_sidecar_locked(): the first try at the lock.                        *)
Open(i) ==
  /\ ui[i] = "none"
  /\ IF flock = Nobody
     THEN flock' = i /\ ui' = [ui EXCEPT ![i] = "locked"]
     ELSE ui' = [ui EXCEPT ![i] = "waiting"] /\ UNCHANGED flock
  /\ UNCHANGED sidecar

(* The loop: the lock again, and where it is still held a look for a URL    *)
(* that has been published ...                                              *)
TakeLock(i) ==
  /\ Goes(i, "waiting", "locked")
  /\ flock = Nobody /\ flock' = i
  /\ UNCHANGED sidecar

Look(i) ==
  /\ Goes(i, "waiting", "looking") /\ flock # Nobody
  /\ UNCHANGED <<flock, sidecar>>

(* ... which the browser is sent to, and the process ends ...               *)
HandOver(i) ==
  /\ Goes(i, "looking", "none") /\ sidecar # Nobody
  /\ UNCHANGED <<flock, sidecar>>

NotPublished(i) ==
  /\ Goes(i, "looking", "waiting") /\ sidecar = Nobody
  /\ UNCHANGED <<flock, sidecar>>

(* ... until three seconds have passed.                                     *)
GiveUp(i) == Goes(i, "waiting", "none") /\ UNCHANGED <<flock, sidecar>>

(* Defective: what an earlier instance published stays until the new URL.   *)
KeepsContents(i) == Goes(i, "locked", "truncated") /\ UNCHANGED <<flock, sidecar>>

(* Whatever a former holder published is gone before the port is bound.     *)
Truncate(i) ==
  /\ Goes(i, "locked", "truncated")
  /\ sidecar' = Nobody
  /\ UNCHANGED flock

Bind(i) == Goes(i, "truncated", "bound") /\ UNCHANGED <<flock, sidecar>>

(* write_full(), then the server runs.                                      *)
Publish(i) ==
  /\ Goes(i, "bound", "listening")
  /\ sidecar' = i
  /\ UNCHANGED flock

(* SIGINT or SIGTERM through the pipe: the server stops listening ...       *)
StopServer(i) == Goes(i, "listening", "stopping") /\ UNCHANGED <<flock, sidecar>>

(* ... and the end of a process, wished for, after a failure of ftruncate() *)
(* or bind(), or by a crash: the descriptor closes and with it the lock.    *)
End(i) ==
  /\ Past(i)
  /\ ui' = [ui EXCEPT ![i] = "none"]
  /\ flock' = IF flock = i THEN Nobody ELSE flock
  /\ sidecar' = IF sidecar = i THEN Stale ELSE sidecar

Instance(i) ==
  \/ Open(i) \/ TakeLock(i) \/ Look(i) \/ HandOver(i) \/ NotPublished(i) \/ GiveUp(i)
  \/ Truncate(i) \/ Bind(i) \/ Publish(i) \/ StopServer(i)

-----------------------------------------------------------------------------
(* "The loser never sees a bogus port: it either sees an empty/short file   *)
(* and keeps polling, or it sees fully-populated content written after a    *)
(* successful bind" (docs/plans/2026-04-19-settings-ui-cpp-rewrite-         *)
(* design.md:83).  The code does not keep this: an instance may open a URL  *)
(* whose server is gone.                                                    *)
LoserReadsRealPort ==
  [][\A i \in Instances : HandOver(i) => Serves(sidecar)]_sidecarVars

(* What the code does keep (the truncation before, and the publication      *)
(* after the port is bound): a URL without a server is opened only between  *)
(* the lock and ftruncate() of the next holder, between the end of the      *)
(* server and close(), and where the lock, found held, is free by the time  *)
(* the file is read.                                                        *)
OnlyThreeGaps ==
  [][\A i \in Instances : HandOver(i) =>
       Serves(sidecar) \/ flock = Nobody \/ ui[flock] \in {"locked", "stopping"}]_sidecarVars
=============================================================================
