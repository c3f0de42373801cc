---------------------------- MODULE LiveSettings ----------------------------
(***************************************************************************)
(* From the settings page to the running daemon: instances of the settings *)
(* UI (SettingsSidecar.tla), the handler threads of the one that serves    *)
(* (server.cpp, handlers.cpp) and `autowhisper config set` (cli.cpp), all  *)
(* writing config.toml (ConfigFile.tla), and the daemon, which polls its   *)
(* mtime (maybe_reload_config in daemon.cpp).                              *)
(***************************************************************************)
EXTENDS SettingsSidecar, ConfigFile

CONSTANTS
  Handlers,  \* threads of the HTTP server
  Cli        \* autowhisper config set

ASSUME WritersAssumption == Cli \notin Handlers

VARIABLES
  writer,   \* per writer, its step and the configuration it is to write
  daemon,   \* its step, the hotkeys in force, those just loaded
  behind,   \* history: the file has changed behind the mtime the daemon noted
  spoiled   \* history: the file was left to writers that do not check

vars == <<ui, flock, sidecar, file, ticked, unseen, writer, daemon, behind, spoiled>>

Writers == Handlers \cup {Cli}
Idle == [step |-> "idle", config |-> Empty]

TypeOK ==
  /\ SidecarTypeOK /\ FileTypeOK
  /\ writer \in [Writers -> [step : {"idle", "parse"}, config : {Empty}] \cup
                            [step : {"open", "close"}, config : Configs]]
  /\ daemon \in [step : {"off", "first_poll", "poll", "load", "apply"},
                 hotkeys : Hotkeys, fresh : Hotkeys]
  /\ behind \in BOOLEAN /\ spoiled \in BOOLEAN

Init ==
  /\ SidecarInit /\ FileInit
  /\ writer = [w \in Writers |-> Idle]
  /\ daemon = [step |-> "off", hotkeys |-> Defaults, fresh |-> Defaults]
  /\ behind = FALSE /\ spoiled = FALSE

-----------------------------------------------------------------------------
(* The writers.                                                             *)

Busy(w) == writer[w].step # "idle"
WriterGoes(w, from, to) == writer[w].step = from /\ writer' = [writer EXCEPT ![w].step = to]

(* PUT /api/config.  A body that is no JSON, is mistyped or out of range is *)
(* answered 400 and changes nothing.                                        *)
Put(h) ==
  /\ ~Busy(h) /\ \E i \in Instances : ui[i] = "listening"
  /\ \E c \in Configs :
       Valid(c) /\ writer' = [writer EXCEPT ![h] = [step |-> "open", config |-> c]]
  /\ UNCHANGED <<sidecarVars, fileVars, daemon, behind, spoiled>>

(* config set: the file must load; then it is parsed a second time ...      *)
Set ==
  /\ Loads(file) /\ WriterGoes(Cli, "idle", "parse")
  /\ UNCHANGED <<sidecarVars, fileVars, daemon, behind, spoiled>>

(* ... and must have the section; one field is what was typed, which is     *)
(* never an empty list.                                                     *)
Parse ==
  /\ writer[Cli].step = "parse"
  /\ IF file \in Configs
     THEN \E c \in {[file EXCEPT !.hotkeys = k] : k \in Hotkeys \ {Cleared}} \cup
                   {[file EXCEPT !.number = n] : n \in Numbers} :
            writer' = [writer EXCEPT ![Cli] = [step |-> "open", config |-> c]]
     ELSE writer' = [writer EXCEPT ![Cli] = Idle]
  /\ UNCHANGED <<sidecarVars, fileVars, daemon, behind, spoiled>>

(* The daemon will not look at what this write leaves, unless it is just    *)
(* about to.                                                                *)
Noted == daemon.step \in {"poll", "apply"} /\ ~unseen'

(* The stream is opened ...                                                 *)
OpenFile(w) ==
  /\ WriterGoes(w, "open", "close")
  /\ OpenTruncating
  /\ behind' = Noted
  /\ spoiled' = (spoiled \/ \E v \in Writers \ {w} : writer[v].step = "close")
  /\ UNCHANGED <<sidecarVars, daemon>>

(* ... or cannot be, and nothing has changed ...                            *)
CannotOpen(w) ==
  /\ writer[w].step = "open" /\ writer' = [writer EXCEPT ![w] = Idle]
  /\ UNCHANGED <<sidecarVars, fileVars, daemon, behind, spoiled>>

(* ... and closed; nobody asks whether the text was written.                *)
CloseFile(w) ==
  /\ writer[w].step = "close" /\ writer' = [writer EXCEPT ![w] = Idle]
  /\ \/ /\ WriteOut(writer[w].config)
        /\ behind' = Noted
        /\ spoiled' = (spoiled \/ (w = Cli /\ ~Loads(writer[w].config)))
     \/ /\ spoiled' = TRUE
        /\ UNCHANGED <<fileVars, behind>>
  /\ UNCHANGED <<sidecarVars, daemon>>

-----------------------------------------------------------------------------
(* The instances.                                                           *)

InstanceStep(i) ==
  /\ Instance(i)
  /\ UNCHANGED <<fileVars, writer, daemon, behind, spoiled>>

(* Defective: requests in hand are left to themselves.                      *)
ExitsAtOnce(i) ==
  /\ End(i)
  /\ UNCHANGED <<fileVars, writer, daemon, behind, spoiled>>

(* A stopping server waits for its threads; failures before it listens end  *)
(* the process as well.                                                     *)
Exit(i) ==
  /\ ui[i] # "listening" /\ End(i)
  /\ \A h \in Handlers : ~Busy(h)
  /\ UNCHANGED <<fileVars, writer, daemon, behind, spoiled>>

(* A crash takes the threads along, wherever they are.                      *)
Crash(i) ==
  /\ ui[i] \in {"listening", "stopping"} /\ End(i)
  /\ writer' = [w \in Writers |-> IF w \in Handlers THEN Idle ELSE writer[w]]
  /\ spoiled' = (spoiled \/ \E h \in Handlers : writer[h].step = "close")
  /\ UNCHANGED <<fileVars, daemon, behind>>

-----------------------------------------------------------------------------
(* The daemon.                                                              *)

(* initialize(): a configuration that does not load ends the start.         *)
StartDaemon ==
  /\ daemon.step = "off" /\ Loads(file)
  /\ daemon' = [step |-> "first_poll", hotkeys |-> Loaded(file).hotkeys, fresh |-> Defaults]
  /\ behind' = FALSE
  /\ UNCHANGED <<sidecarVars, fileVars, writer, spoiled>>

StopDaemon ==
  /\ daemon.step \in {"first_poll", "poll"}
  /\ daemon' = [daemon EXCEPT !.step = "off"] /\ behind' = FALSE
  /\ UNCHANGED <<sidecarVars, fileVars, writer, spoiled>>

(* The first mtime is the baseline, whatever has been saved since the start.*)
Baseline ==
  /\ daemon.step = "first_poll"
  /\ daemon' = [daemon EXCEPT !.step = "poll"]
  /\ unseen' = FALSE
  /\ behind' = (~Loads(file) \/ Loaded(file).hotkeys # daemon.hotkeys)
  /\ UNCHANGED <<sidecarVars, file, ticked, writer, spoiled>>

(* A new mtime is noted ...                                                 *)
Poll ==
  /\ daemon.step = "poll" /\ unseen
  /\ daemon' = [daemon EXCEPT !.step = "load"] /\ unseen' = FALSE
  /\ UNCHANGED <<sidecarVars, file, ticked, writer, behind, spoiled>>

(* ... the file is loaded, and one that does not load is left alone ...     *)
Load ==
  /\ daemon.step = "load"
  /\ daemon' = IF Loads(file)
               THEN [daemon EXCEPT !.step = "apply", !.fresh = Loaded(file).hotkeys]
               ELSE [daemon EXCEPT !.step = "poll"]
  /\ behind' = FALSE
  /\ UNCHANGED <<sidecarVars, fileVars, writer, spoiled>>

(* Defective: the mtime is noted when the work is done.                     *)
NotesAfterwards ==
  /\ daemon.step = "apply" /\ unseen' = FALSE
  /\ daemon' = [daemon EXCEPT !.step = "poll", !.hotkeys = daemon.fresh, !.fresh = Defaults]
  /\ UNCHANGED <<sidecarVars, file, ticked, writer, behind, spoiled>>

(* ... and its hotkeys are put in force.                                    *)
Apply ==
  /\ daemon.step = "apply"
  /\ daemon' = [daemon EXCEPT !.step = "poll", !.hotkeys = daemon.fresh, !.fresh = Defaults]
  /\ UNCHANGED <<sidecarVars, fileVars, writer, behind, spoiled>>

Time == Tick /\ UNCHANGED <<sidecarVars, writer, daemon, behind, spoiled>>

Next ==
  \/ \E i \in Instances : InstanceStep(i) \/ Exit(i) \/ Crash(i)
  \/ \E h \in Handlers : Put(h)
  \/ Set \/ Parse
  \/ \E w \in Writers : OpenFile(w) \/ CannotOpen(w) \/ CloseFile(w)
  \/ StartDaemon \/ StopDaemon \/ Baseline \/ Poll \/ Load \/ Apply
  \/ Time

Spec == Init /\ [][Next]_vars

(* process_events() calls maybe_reload_config() at least every 100 ms.      *)
FairSpec == Spec /\ WF_vars(Baseline) /\ WF_vars(Poll) /\ WF_vars(Load) /\ WF_vars(Apply)

-----------------------------------------------------------------------------
(* An instance past the lock holds it, and whoever saves over HTTP does it  *)
(* under that lock (cmd_config_ui, and the wait of listen_after_bind() for  *)
(* its threads): no save of an instance that has ended lands in the file of *)
(* its successor.                                                           *)
UnderLock ==
  /\ \A i \in Instances : Past(i) => flock = i
  /\ \A h \in Handlers :
       Busy(h) => flock \in Instances /\ ui[flock] \in {"listening", "stopping"}

(* What the settings page saves can be loaded again, by the daemon and by   *)
(* the page itself (validate_json() before save()).  Excepted is a file     *)
(* spoiled by two saves at a time, by a crash or a full disk between the    *)
(* truncation and the text, or by `config set` with a value out of range.   *)
UiKeepsFileLoadable ==
  ~spoiled /\ (\A w \in Writers : writer[w].step # "close") =>
    file \in Configs /\ Loads(file)

(* Hotkeys that stay in the file come into force in the running daemon      *)
(* (maybe_reload_config) as loading reads them, an empty list of cancel     *)
(* combos as the default: every save is seen, also one made while the last  *)
(* is being loaded or applied.  Excepted are a file changed behind the      *)
(* mtime already noted, and the one taken for the baseline.                 *)
Stays(h) ==
  /\ daemon.step # "off" /\ ~behind
  /\ Loads(file) /\ Loaded(file).hotkeys = h
SavedIsLive == \A h \in Hotkeys : []<>(Stays(h) => daemon.hotkeys = h)
=============================================================================
