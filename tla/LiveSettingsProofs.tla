------------------------- MODULE LiveSettingsProofs -------------------------
(***************************************************************************)
(* The safety properties of LiveSettings.tla, for any number of instances, *)
(* of handler threads and of hotkeys.                                      *)
(*                                                                         *)
(* The inductive invariant has three parts beside the types.  LockOK ties  *)
(* the lock to the one instance past it, to what the sidecar holds then    *)
(* and to the handlers that are busy.  ContentOK says, while nobody has    *)
(* spoiled the file, that at most one writer has it open, that it is empty *)
(* then and loads otherwise, and that a handler's text will load.          *)
(***************************************************************************)
EXTENDS LiveSettings, TLAPS

LockOK ==
  /\ UnderLock
  /\ flock # Nobody =>
       /\ Past(flock)
       /\ ui[flock] \in {"truncated", "bound"} => sidecar = Nobody
       /\ ui[flock] = "listening" => sidecar = flock

Writing(w) == writer[w].step = "close"

ContentOK ==
  /\ \A h \in Handlers : Busy(h) => Valid(writer[h].config)
  /\ ~spoiled =>
       /\ \A v, w \in Writers : Writing(v) /\ Writing(w) => v = w
       /\ \A w \in Writers : Writing(w) => file = Empty
       /\ (\A w \in Writers : ~Writing(w)) => file \in Configs /\ Loads(file)

IInv == TypeOK /\ LockOK /\ ContentOK

-----------------------------------------------------------------------------
(* Whatever loads has hotkeys.                                              *)
LEMMA LoadedHotkeys ==
  ASSUME NEW c \in Configs \cup {Empty, Broken}, Loads(c) PROVE Loaded(c).hotkeys \in Hotkeys
<1>1. CASE c = Empty \/ c.hotkeys = Cleared
  BY <1>1, ConfigAssumption DEF Loaded
<1>2. CASE c # Empty /\ c.hotkeys # Cleared
  <2>1. c \in Configs
    BY <1>2 DEF Loads
  <2> QED BY <1>2, <2>1 DEF Loaded, Configs
<1> QED BY <1>1, <1>2

(* The invariant holds at the start.                                        *)
LEMMA Initial == Init => IInv
<1> SUFFICES ASSUME Init PROVE IInv
  OBVIOUS
<1> USE DEF Init, SidecarInit, FileInit
<1>1. TypeOK
  <2>1. Idle \in [step : {"idle", "parse"}, config : {Empty}]
    BY DEF Idle
  <2> QED BY <2>1, ConfigAssumption DEF TypeOK, SidecarTypeOK, FileTypeOK
<1>2. LockOK
  BY DEF LockOK, UnderLock, Past, Busy, Writers, Idle
<1>3. ContentOK
  BY ContentAssumption
  DEF ContentOK, Writing, Busy, Writers, Idle, Loads, InRange, Configs
<1> QED BY <1>1, <1>2, <1>3 DEF IInv

-----------------------------------------------------------------------------
(* Types are kept by every step.                                            *)
LEMMA TypeStep == TypeOK /\ [Next]_vars => TypeOK'
<1> SUFFICES ASSUME TypeOK, [Next]_vars PROVE TypeOK'
  OBVIOUS
<1> USE DEF TypeOK, SidecarTypeOK, FileTypeOK
<1>1. ASSUME NEW i \in Instances, InstanceStep(i) PROVE TypeOK'
  BY <1>1 DEF InstanceStep, Instance, Open, TakeLock, Look, HandOver, NotPublished, GiveUp, Truncate,
              Bind, Publish, StopServer, Goes, fileVars
<1>2. ASSUME NEW i \in Instances, Exit(i) PROVE TypeOK'
  BY <1>2 DEF Exit, End, fileVars
<1>3. ASSUME NEW i \in Instances, Crash(i) PROVE TypeOK'
  <2>1. Idle \in [step : {"idle", "parse"}, config : {Empty}]
    BY DEF Idle
  <2> QED BY <1>3, <2>1 DEF Crash, End, fileVars
<1>4. ASSUME NEW h \in Handlers, Put(h) PROVE TypeOK'
  BY <1>4 DEF Put, Writers, sidecarVars, fileVars
<1>5. CASE Set
  <2>1. writer[Cli].step = "idle" /\ writer[Cli].config = Empty
    BY <1>5 DEF Set, WriterGoes, Writers
  <2>2. [writer[Cli] EXCEPT !.step = "parse"] \in [step : {"idle", "parse"}, config : {Empty}]
    BY <2>1 DEF Writers
  <2> QED BY <1>5, <2>2 DEF Set, WriterGoes, Writers, sidecarVars, fileVars
<1>6. CASE Parse
  <2>1. Idle \in [step : {"idle", "parse"}, config : {Empty}]
    BY DEF Idle
  <2>2. ASSUME file \in Configs, NEW k \in Hotkeys PROVE [file EXCEPT !.hotkeys = k] \in Configs
    BY <2>2 DEF Configs
  <2>3. ASSUME file \in Configs, NEW n \in Numbers PROVE [file EXCEPT !.number = n] \in Configs
    BY <2>3 DEF Configs
  <2> QED BY <1>6, <2>1, <2>2, <2>3 DEF Parse, Writers, sidecarVars, fileVars
<1>7. ASSUME NEW w \in Writers, OpenFile(w) PROVE TypeOK'
  <2>1. [writer[w] EXCEPT !.step = "close"] \in [step : {"open", "close"}, config : Configs]
    BY <1>7 DEF OpenFile, WriterGoes
  <2> QED BY <1>7, <2>1 DEF OpenFile, WriterGoes, OpenTruncating, Touch, Noted, sidecarVars
<1>8. ASSUME NEW w \in Writers, CloseFile(w) PROVE TypeOK'
  <2>1. Idle \in [step : {"idle", "parse"}, config : {Empty}]
    BY DEF Idle
  <2>2. writer[w].config \in Configs
    BY <1>8 DEF CloseFile
  <2> QED BY <1>8, <2>1, <2>2 DEF CloseFile, WriteOut, Touch, Noted, sidecarVars, fileVars
<1>9. CASE StartDaemon
  BY <1>9, LoadedHotkeys, ConfigAssumption DEF StartDaemon, sidecarVars, fileVars
<1>10. CASE StopDaemon
  BY <1>10 DEF StopDaemon, sidecarVars, fileVars
<1>11. CASE Baseline
  BY <1>11 DEF Baseline, sidecarVars
<1>12. CASE Poll
  BY <1>12 DEF Poll, sidecarVars
<1>13. CASE Load
  BY <1>13, LoadedHotkeys DEF Load, sidecarVars, fileVars
<1>14. CASE Apply
  BY <1>14, ConfigAssumption DEF Apply, sidecarVars, fileVars
<1>15. CASE Time
  BY <1>15 DEF Time, Tick, sidecarVars
<1>16. CASE UNCHANGED vars
  BY <1>16 DEF vars
<1>17. ASSUME NEW w \in Writers, CannotOpen(w) PROVE TypeOK'
  <2>1. Idle \in [step : {"idle", "parse"}, config : {Empty}]
    BY DEF Idle
  <2> QED BY <1>17, <2>1 DEF CannotOpen, sidecarVars, fileVars
<1> QED BY <1>1, <1>2, <1>3, <1>4, <1>5, <1>6, <1>7, <1>8, <1>9, <1>10, <1>11, <1>12, <1>13,
           <1>14, <1>15, <1>16, <1>17 DEF Next

-----------------------------------------------------------------------------
(* A step of an instance takes the lock only when it is free, and leaves    *)
(* "listening" and "stopping" with the lock only when no handler is busy.   *)
LEMMA LockStep == TypeOK /\ LockOK /\ [Next]_vars => LockOK'
<1> SUFFICES ASSUME TypeOK, LockOK, [Next]_vars PROVE LockOK'
  OBVIOUS
<1> USE SidecarAssumption DEF TypeOK, SidecarTypeOK, LockOK, UnderLock, Past, Busy
<1>1. ASSUME NEW i \in Instances, InstanceStep(i) PROVE LockOK'
  <2>1. UNCHANGED writer
    BY <1>1 DEF InstanceStep
  <2>2. CASE Open(i)
    BY <2>1, <2>2 DEF Open, Writers
  <2>3. CASE TakeLock(i)
    BY <2>1, <2>3 DEF TakeLock, Goes, Writers
  <2>4. CASE Look(i) \/ HandOver(i) \/ NotPublished(i) \/ GiveUp(i)
    BY <2>1, <2>4 DEF Look, HandOver, NotPublished, GiveUp, Goes, Writers
  <2>5. CASE Truncate(i) \/ Bind(i) \/ Publish(i) \/ StopServer(i)
    BY <2>1, <2>5 DEF Truncate, Bind, Publish, StopServer, Goes, Writers
  <2> QED BY <1>1, <2>2, <2>3, <2>4, <2>5 DEF InstanceStep, Instance
<1>2. ASSUME NEW i \in Instances, Exit(i) PROVE LockOK'
  BY <1>2 DEF Exit, End, Writers
<1>3. ASSUME NEW i \in Instances, Crash(i) PROVE LockOK'
  <2>1. \A h \in Handlers : ~Busy(h)'
    BY <1>3 DEF Crash, Idle, Writers
  <2> QED BY <1>3, <2>1 DEF Crash, End
<1>4. ASSUME NEW h \in Handlers, Put(h) PROVE LockOK'
  BY <1>4 DEF Put, Writers, sidecarVars
<1>5. CASE Set \/ Parse
  BY <1>5, WritersAssumption DEF Set, Parse, WriterGoes, Writers, sidecarVars
<1>6. ASSUME NEW w \in Writers, OpenFile(w) \/ CannotOpen(w) \/ CloseFile(w) PROVE LockOK'
  BY <1>6 DEF OpenFile, CannotOpen, CloseFile, WriterGoes, Idle, Writers, sidecarVars
<1>7. CASE UNCHANGED <<sidecarVars, writer>>
  BY <1>7 DEF sidecarVars
<1> QED
  BY <1>1, <1>2, <1>3, <1>4, <1>5, <1>6, <1>7
  DEF Next, StartDaemon, StopDaemon, Baseline, Poll, Load, Apply, Time, vars, sidecarVars

-----------------------------------------------------------------------------
(* What each writer holds of the file is kept by every step.                *)
LEMMA ContentStep == TypeOK /\ ContentOK /\ [Next]_vars => ContentOK'
<1> SUFFICES ASSUME TypeOK, ContentOK, [Next]_vars PROVE ContentOK'
  OBVIOUS
<1> USE DEF TypeOK, FileTypeOK, ContentOK, Busy, Writing, Writers
<1>1. ASSUME NEW i \in Instances, Crash(i) PROVE ContentOK'
  BY <1>1, ContentAssumption DEF Crash, Idle, fileVars
<1>2. ASSUME NEW h \in Handlers, Put(h) PROVE ContentOK'
  BY <1>2 DEF Put, fileVars
<1>3. CASE Set \/ Parse
  BY <1>3, WritersAssumption DEF Set, Parse, WriterGoes, Idle, fileVars
<1>4. ASSUME NEW w \in Writers, OpenFile(w) PROVE ContentOK'
  BY <1>4 DEF OpenFile, WriterGoes, OpenTruncating
<1>5. ASSUME NEW w \in Writers, CloseFile(w) PROVE ContentOK'
  <2>1. \A h \in Handlers : Busy(h)' => Valid(writer[h].config)'
    BY <1>5 DEF CloseFile, Idle
  <2>2. ASSUME ~spoiled'
        PROVE  /\ \A v \in Writers : ~Writing(v)'
               /\ file' = writer[w].config /\ file' \in Configs /\ Loads(file')
    <3>1. ~spoiled /\ file = Empty /\ WriteOut(writer[w].config)
      BY <1>5, <2>2 DEF CloseFile
    <3>2. \A v \in Writers : ~Writing(v)'
      BY <1>5, <3>1 DEF CloseFile, Idle
    <3>3. file' = writer[w].config /\ file' \in Configs
      BY <1>5, <3>1 DEF CloseFile, WriteOut
    <3>4. Loads(writer[w].config)
      <4>1. CASE w = Cli
        BY <1>5, <2>2, <3>1, <4>1 DEF CloseFile
      <4>2. CASE w \in Handlers
        BY <1>5, <3>3, <4>2, ContentAssumption DEF CloseFile, Valid, InRange, Loads
      <4> QED BY <4>1, <4>2
    <3> QED BY <3>2, <3>3, <3>4
  <2> QED BY <2>1, <2>2
<1>6. ASSUME NEW w \in Writers, CannotOpen(w) PROVE ContentOK'
  BY <1>6, ContentAssumption DEF CannotOpen, Idle, fileVars
<1>7. CASE UNCHANGED <<file, writer, spoiled>>
  BY <1>7
<1> QED
  BY <1>1, <1>2, <1>3, <1>4, <1>5, <1>6, <1>7
  DEF Next, InstanceStep, Exit, StartDaemon, StopDaemon, Baseline, Poll, Load, Apply, Time, Tick,
      vars, fileVars

-----------------------------------------------------------------------------
(* Every reachable state satisfies the invariant.                           *)
THEOREM Invariance == Spec => []IInv
<1>1. Init => IInv
  BY Initial
<1>2. IInv /\ [Next]_vars => IInv'
  BY TypeStep, LockStep, ContentStep DEF IInv
<1> QED BY <1>1, <1>2, PTL DEF Spec

(* The variables of the settings server, the file and the daemon keep their *)
(* types.                                                                   *)
THEOREM TypeCorrect == Spec => []TypeOK
<1>1. IInv => TypeOK
  BY DEF IInv
<1> QED BY <1>1, Invariance, PTL

(* However many instances are started and killed, one past the lock holds   *)
(* it, and a save over HTTP happens only under it (cmd_config_ui).          *)
THEOREM SavesUnderLock == Spec => []UnderLock
<1>1. IInv => UnderLock
  BY DEF IInv, LockOK
<1> QED BY <1>1, Invariance, PTL

(* Never two settings servers for one configuration file.                   *)
OneServer ==
  \A i, j \in Instances :
    {ui[i], ui[j]} \subseteq {"truncated", "bound", "listening", "stopping"} => i = j

(* Of all instances of the settings UI (cli_settings_ui.cpp) at most one is *)
(* past the lock and serves.                                                *)
THEOREM OneServerAtATime == Spec => []OneServer
<1>1. IInv => OneServer
  BY DEF IInv, LockOK, UnderLock, OneServer, Past
<1> QED BY <1>1, Invariance, PTL

(* What the settings page saves can be loaded again, unless the file was    *)
(* spoiled (validate_json() before save()).                                 *)
THEOREM SavedFileLoads == Spec => []UiKeepsFileLoadable
<1>1. IInv => UiKeepsFileLoadable
  BY DEF IInv, ContentOK, UiKeepsFileLoadable, Writing
<1> QED BY <1>1, Invariance, PTL

(* The URL an instance opens instead of serving leads to a server, except   *)
(* in the three gaps that the code leaves (the truncation, and the order of *)
(* binding and publishing, in cmd_config_ui).                               *)
THEOREM StaleUrlOnlyInGaps == Spec => OnlyThreeGaps
<1>1. ASSUME IInv, NEW i \in Instances, HandOver(i)
      PROVE  Serves(sidecar) \/ flock = Nobody \/ ui[flock] \in {"locked", "stopping"}
  <2> SUFFICES ASSUME flock # Nobody
               PROVE  Serves(sidecar) \/ ui[flock] \in {"locked", "stopping"}
    OBVIOUS
  <2>1. flock \in Instances /\ Past(flock) /\ sidecar # Nobody
    BY <1>1 DEF IInv, TypeOK, SidecarTypeOK, LockOK, HandOver
  <2>2. ui[flock] \in {"locked", "truncated", "bound", "listening", "stopping"}
    BY <1>1, <2>1 DEF IInv, TypeOK, SidecarTypeOK, Past
  <2> QED BY <1>1, <2>1, <2>2, SidecarAssumption DEF IInv, LockOK, Serves
<1>2. IInv => [\A i \in Instances : HandOver(i) =>
                 Serves(sidecar) \/ flock = Nobody \/ ui[flock] \in {"locked", "stopping"}]_sidecarVars
  BY <1>1
<1> QED BY <1>2, Invariance, PTL DEF OnlyThreeGaps
=============================================================================
