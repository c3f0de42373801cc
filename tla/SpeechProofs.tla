---------------------------- MODULE SpeechProofs ----------------------------
(***************************************************************************)
(* The safety properties of Recording.tla, for every limit of the buffer   *)
(* and every set of playing apps, and of Transcription.tla, for every      *)
(* vocabulary, configuration and transcript: what is said is recorded and  *)
(* what is heard is written.                                               *)
(*                                                                         *)
(* The inductive invariant of a recording says who may touch what while    *)
(* the daemon thread is at each of its places: DeviceOK when the device    *)
(* runs, ChunksOK how many chunks the buffer holds between the two         *)
(* critical sections of audio_callback(), AppsOK that the list of          *)
(* muted_inputs is all it takes to give every app back what its user       *)
(* chose, and TimerOK when the mute timer may still be on its way.         *)
(*                                                                         *)
(* That of a transcription says how far the work of each pass has come:    *)
(* Kept that no token is lost, added or out of place before or behind the  *)
(* position, Apart and NoneJoined that words stay whole, Clean which fillers may still be *)
(* in the text, and Neat which spaces.                                     *)
(***************************************************************************)
EXTENDS Recording, Transcription, SequenceTheorems, WellFoundedInduction, TLAPS

-----------------------------------------------------------------------------
ClosesDevice == {"closing", "cancelling", "cleaning"}
Closed == {"cancel_unmute", "cancel_join", "cancel_restore",
           "end_unmute", "end_join", "end_restore", "destroy", "ended"}
Starting == {"idle", "mute", "mute_join", "mute_start", "open"}

(* The device runs from start_recording() to the end of ma_device_stop(),   *)
(* which is called under lock_; a daemon that was not overtaken by          *)
(* request_shutdown() is never between two recordings with one open.        *)
DeviceOK ==
  /\ lock_ <=> phase \in ClosesDevice
  /\ device <=> recording_ \/ lock_
  /\ ~(recording_ /\ lock_)
  /\ callback # "out" => device
  /\ phase \in Closed => ~recording_
  /\ phase \in Starting /\ ~quit => ~recording_

(* All chunks heard are in the buffer, but for the one in the callback and  *)
(* those past the limit.                                                    *)
ChunksOK ==
  /\ KeepsBeginning
  /\ ~device => buffer_ = << >>
  /\ device /\ callback = "out" =>
       Len(buffer_) = heard \/ (heard >= MaxChunks /\ Len(buffer_) + 1 = MaxChunks)
  /\ callback # "out" =>
       Len(buffer_) + 1 = heard \/ (heard > MaxChunks /\ Len(buffer_) + 1 = MaxChunks)
  /\ callback = "pushing" => Len(buffer_) + 1 = heard /\ heard < MaxChunks

(* An app sounds as its user chose, or is muted and on the list as one that *)
(* was not.                                                                 *)
AppsOK ==
  \A app \in Apps : wanted[app] = (muted[app] /\ <<app, FALSE>> \notin muted_inputs)

Joining == {"mute_join", "unmute_join", "cancel_join", "end_join"}
TimerGone == {"mute_start", "restore", "cancel_restore", "end_restore",
              "close", "closing", "destroy", "ended"}
Restored == {"close", "closing", "destroy", "ended"}

(* A timer on its way is marked active, except while it is being joined; a  *)
(* daemon between two recordings has none and has muted nobody.             *)
TimerOK ==
  /\ mute_timer_active => mute_timer \in {"sleeping", "muting", "clearing"}
  /\ mute_timer \in {"sleeping", "muting", "clearing"} =>
       mute_timer_active \/ phase \in Joining
  /\ phase \in Joining => ~mute_timer_active
  /\ phase \in TimerGone => mute_timer \in {"none", "done"}
  /\ phase \in Restored => muted_inputs = {}
  /\ phase \in {"idle", "mute", "mute_start"} /\ ~quit =>
       mute_timer \in {"none", "done"} /\ muted_inputs = {}
  /\ phase = "mute_join" => quit

IInv == TypeOK /\ DeviceOK /\ ChunksOK /\ AppsOK /\ TimerOK

-----------------------------------------------------------------------------
(* Nothing records, and nothing is muted yet.                               *)
LEMMA Initial == Init => IInv
<1> SUFFICES ASSUME Init PROVE IInv
  OBVIOUS
<1> USE DEF Init, AudioInit, PulseInit
<1>1. TypeOK
  <2>1. buffer_ \in Seq(Nat) /\ Len(buffer_) < MaxChunks
    BY ChunkAssumption, EmptySeq
  <2> QED BY <2>1 DEF TypeOK, AudioTypeOK, PulseTypeOK, Phases
<1>2. DeviceOK /\ TimerOK
  BY DEF DeviceOK, TimerOK, ClosesDevice, Closed, Starting, Joining, TimerGone, Restored
<1>3. ChunksOK
  BY ChunkAssumption DEF ChunksOK, KeepsBeginning
<1>4. AppsOK
  BY DEF AppsOK, PulseTypeOK
<1> QED BY <1>1, <1>2, <1>3, <1>4 DEF IInv

-----------------------------------------------------------------------------
(* One lemma for each part of the invariant.                                *)

(* Every step is one of the audio manager, of the mute manager, or of the   *)
(* daemon thread alone.                                                     *)
AudioAction ==
  StartRecording \/ StopRecording \/ NotRecording \/ DeviceStopped \/ DeviceThread
PulseAction ==
  CallOffTimer \/ JoinTimer \/ StartTimer \/ Unmute \/ Destroy \/ TimerThread
    \/ \E app \in Apps : UserToggles(app)

(* Every step moves the audio manager, the muting, or neither.              *)
LEMMA WhoseStep ==
  Next => \/ AudioAction /\ UNCHANGED pulseVars
          \/ PulseAction /\ UNCHANGED audioVars
          \/ UNCHANGED <<audioVars, pulseVars>>
BY DEF Next, DaemonThread, OtherThreads, User, Start, Stop, Cancel, QuitDuringCancel, Cleanup,
       UnmuteOtherApps, To, Audio, Pulse, NoDevice, AudioAction, PulseAction

(* The types of the two components are kept by their actions.               *)
LEMMA AudioTypes == AudioTypeOK /\ ChunksOK /\ AudioAction => AudioTypeOK'
<1> SUFFICES ASSUME AudioTypeOK, ChunksOK, AudioAction PROVE AudioTypeOK'
  OBVIOUS
<1> USE DEF AudioTypeOK
<1>1. CASE StartRecording \/ DeviceStopped
  <2>1. << >> \in Seq(Nat) /\ Len(<< >>) < MaxChunks
    BY ChunkAssumption, EmptySeq
  <2>2. CASE StartRecording /\ recording_
    BY <2>2 DEF StartRecording, audioVars
  <2>3. CASE StartRecording /\ ~recording_
    <3>1. lock_' = lock_ /\ callback' = callback
      BY <2>3 DEF StartRecording
    <3>2. buffer_' \in Seq(Nat) /\ Len(buffer_') < MaxChunks
      BY <2>1, <2>3 DEF StartRecording
    <3>3. \/ device' = TRUE /\ recording_' = TRUE /\ heard' = 0
          \/ UNCHANGED <<device, recording_, heard>>
      BY <2>3 DEF StartRecording
    <3>4. heard' \in Nat
      BY <3>3
    <3>5. recording_' \in BOOLEAN /\ device' \in BOOLEAN
      BY <3>3
    <3> QED BY <3>1, <3>2, <3>4, <3>5
  <2>4. CASE DeviceStopped
    BY <2>1, <2>4 DEF DeviceStopped
  <2> QED BY <1>1, <2>2, <2>3, <2>4
<1>2. CASE StopRecording \/ NotRecording
  BY <1>2 DEF StopRecording, NotRecording, audioVars
<1>3. CASE EnterCallback \/ CountChunks
  BY <1>3 DEF EnterCallback, CountChunks
<1>4. CASE PushChunk
  <2>1. Len(buffer_) + 1 < MaxChunks
    BY <1>4, ChunkAssumption, LenProperties DEF PushChunk, ChunksOK
  <2>2. Append(buffer_, heard) \in Seq(Nat) /\ Len(Append(buffer_, heard)) = Len(buffer_) + 1
    BY AppendProperties
  <2> QED BY <1>4, <2>1, <2>2 DEF PushChunk
<1> QED BY <1>1, <1>2, <1>3, <1>4 DEF AudioAction, DeviceThread

LEMMA PulseTypes == PulseTypeOK /\ PulseAction => PulseTypeOK'
<1> SUFFICES ASSUME PulseTypeOK, PulseAction PROVE PulseTypeOK'
  OBVIOUS
<1> USE DEF PulseTypeOK
<1>1. CASE CallOffTimer \/ JoinTimer \/ StartTimer \/ Destroy
  BY <1>1 DEF CallOffTimer, JoinTimer, StartTimer, Destroy, Joinable
<1>2. CASE Unmute
  <2>1. muted' \in [Apps -> BOOLEAN]
    BY <1>2 DEF Unmute
  <2> QED BY <1>2, <2>1 DEF Unmute
<1>3. CASE TimerFires \/ TimerEnds
  BY <1>3 DEF TimerFires, TimerEnds
<1>4. CASE DoMute
  <2>1. muted_inputs' \in SUBSET (Apps \X BOOLEAN)
    BY <1>4 DEF DoMute
  <2>2. muted' \in [Apps -> BOOLEAN]
    BY <1>4 DEF DoMute
  <2> QED BY <1>4, <2>1, <2>2 DEF DoMute
<1>5. ASSUME NEW app \in Apps, UserToggles(app) PROVE PulseTypeOK'
  BY <1>5 DEF UserToggles
<1> QED BY <1>1, <1>2, <1>3, <1>4, <1>5 DEF PulseAction, TimerThread

(* One lemma per part of the invariant: it is kept by every step.           *)
LEMMA TypeStep == IInv /\ [Next]_vars => TypeOK'
<1> SUFFICES ASSUME IInv, [Next]_vars PROVE TypeOK'
  OBVIOUS
<1>1. AudioTypeOK /\ PulseTypeOK /\ phase \in Phases /\ quit \in BOOLEAN /\ ChunksOK
  BY DEF IInv, TypeOK
<1>2. UNCHANGED audioVars => AudioTypeOK'
  BY <1>1 DEF AudioTypeOK, audioVars
<1>3. UNCHANGED pulseVars => PulseTypeOK'
  BY <1>1 DEF PulseTypeOK, pulseVars
<1>4. phase' \in Phases /\ quit' \in BOOLEAN
  BY <1>1 DEF Phases, Next, DaemonThread, OtherThreads, User, Start, Stop, Cancel, QuitDuringCancel,
              Cleanup, UnmuteOtherApps, To, vars
<1> QED BY <1>1, <1>2, <1>3, <1>4, WhoseStep, AudioTypes, PulseTypes DEF vars, TypeOK

LEMMA DeviceStep == IInv /\ [Next]_vars => DeviceOK'
<1> SUFFICES ASSUME IInv, [Next]_vars PROVE DeviceOK'
  OBVIOUS
<1> USE DEF IInv, TypeOK, AudioTypeOK, DeviceOK, ClosesDevice, Closed, Starting
<1>1. CASE DaemonThread
  <2> USE DEF To, Audio, Pulse, NoDevice, audioVars
  <2>1. CASE Start
    BY <2>1 DEF Start, StartRecording
  <2>2. CASE Stop
    BY <2>2 DEF Stop, UnmuteOtherApps, StopRecording, NotRecording, DeviceStopped
  <2>3. CASE Cancel
    BY <2>3 DEF Cancel, UnmuteOtherApps, StopRecording, NotRecording, DeviceStopped
  <2>4. CASE QuitDuringCancel
    BY <2>4 DEF QuitDuringCancel
  <2>5. CASE Cleanup
    BY <2>5 DEF Cleanup, UnmuteOtherApps, StopRecording, NotRecording, DeviceStopped
  <2> QED BY <1>1, <2>1, <2>2, <2>3, <2>4, <2>5 DEF DaemonThread
<1>2. CASE OtherThreads
  BY <1>2 DEF OtherThreads, DeviceThread, EnterCallback, CountChunks, PushChunk, audioVars
<1>3. CASE User \/ UNCHANGED vars
  BY <1>3 DEF User, vars, audioVars
<1> QED BY <1>1, <1>2, <1>3 DEF Next

(* The buffer is emptied only while no callback runs, and grows by the      *)
(* chunk that was counted.                                                  *)
LEMMA ChunksStep == IInv /\ [Next]_vars => ChunksOK'
<1> SUFFICES ASSUME IInv, [Next]_vars PROVE ChunksOK'
  OBVIOUS
<1>1. AudioTypeOK /\ DeviceOK /\ ChunksOK
  BY DEF IInv, TypeOK
<1>2. Len(buffer_) \in Nat /\ MaxChunks \in Nat \ {0} /\ heard \in Nat
  BY <1>1, LenProperties, ChunkAssumption DEF AudioTypeOK
<1>3. CASE UNCHANGED audioVars
  BY <1>1, <1>3 DEF ChunksOK, KeepsBeginning, audioVars
<1>4. CASE StartRecording \/ DeviceStopped
  BY <1>1, <1>2, <1>4 DEF StartRecording, DeviceStopped, ChunksOK, KeepsBeginning, DeviceOK, audioVars
<1>5. CASE StopRecording
  BY <1>1, <1>2, <1>5 DEF StopRecording, ChunksOK, KeepsBeginning, DeviceOK
<1>6. CASE NotRecording
  BY <1>3, <1>6 DEF NotRecording
<1>7. CASE EnterCallback
  BY <1>1, <1>2, <1>7 DEF EnterCallback, ChunksOK, KeepsBeginning
<1>8. CASE CountChunks
  BY <1>1, <1>2, <1>8 DEF CountChunks, ChunksOK, KeepsBeginning, DeviceOK
<1>9. CASE PushChunk
  <2>1. buffer_ \in Seq(Nat) /\ Len(buffer_) + 1 = heard /\ heard < MaxChunks /\ device
    BY <1>1, <1>9 DEF PushChunk, ChunksOK, AudioTypeOK, DeviceOK
  <2>2. /\ Len(buffer_') = heard
        /\ buffer_'[heard] = heard
        /\ \A i \in 1 .. Len(buffer_) : buffer_'[i] = buffer_[i]
    BY <1>2, <1>9, <2>1, AppendProperties DEF PushChunk
  <2>3. \A i \in 1 .. Len(buffer_') : buffer_'[i] = i
    BY <1>1, <1>2, <2>1, <2>2 DEF ChunksOK, KeepsBeginning
  <2> QED BY <1>2, <1>9, <2>1, <2>2, <2>3 DEF PushChunk, ChunksOK, KeepsBeginning
<1> QED
  BY <1>3, <1>4, <1>5, <1>6, <1>7, <1>8, <1>9, WhoseStep DEF AudioAction, DeviceThread, vars

(* Muting puts an app on the list with what it was, and unmuting goes by    *)
(* that list, however often an app was put there.                           *)
LEMMA AppsStep == IInv /\ [Next]_vars => AppsOK'
<1> SUFFICES ASSUME IInv, [Next]_vars PROVE AppsOK'
  OBVIOUS
<1> SUFFICES ASSUME NEW app \in Apps
             PROVE  wanted'[app] = (muted'[app] /\ <<app, FALSE>> \notin muted_inputs')
  BY DEF AppsOK
<1>1. /\ muted \in [Apps -> BOOLEAN] /\ wanted \in [Apps -> BOOLEAN]
      /\ wanted[app] = (muted[app] /\ <<app, FALSE>> \notin muted_inputs)
  BY DEF IInv, AppsOK, TypeOK, PulseTypeOK
<1>2. CASE UNCHANGED <<muted, wanted, muted_inputs>>
  BY <1>1, <1>2
<1>3. CASE DoMute
  <2>1. <<app, FALSE>> \in muted_inputs' <=> <<app, FALSE>> \in muted_inputs \/ ~muted[app]
    BY <1>1, <1>3 DEF DoMute
  <2> QED BY <1>1, <1>3, <2>1 DEF DoMute
<1>4. CASE Unmute
  BY <1>1, <1>4 DEF Unmute
<1>5. ASSUME NEW other \in Apps, UserToggles(other)
      PROVE  wanted'[app] = (muted'[app] /\ <<app, FALSE>> \notin muted_inputs')
  BY <1>1, <1>5 DEF UserToggles
<1>6. PulseAction => \/ UNCHANGED <<muted, wanted, muted_inputs>>
                     \/ DoMute \/ Unmute \/ \E other \in Apps : UserToggles(other)
  BY DEF PulseAction, TimerThread, CallOffTimer, JoinTimer, StartTimer, Destroy, TimerFires, TimerEnds
<1> QED BY <1>2, <1>3, <1>4, <1>5, <1>6, WhoseStep DEF vars, pulseVars

LEMMA TimerStep == IInv /\ [Next]_vars => TimerOK'
<1> SUFFICES ASSUME IInv, [Next]_vars PROVE TimerOK'
  OBVIOUS
<1>0. /\ mute_timer_active \in BOOLEAN
      /\ mute_timer \in {"none", "sleeping", "muting", "clearing", "done"}
      /\ TimerOK
  BY DEF IInv, TypeOK, PulseTypeOK
<1> USE <1>0 DEF TimerOK, Joining, TimerGone, Restored
<1>1. CASE DaemonThread
  <2>0. Unmute => UNCHANGED <<mute_timer, mute_timer_active>> /\ muted_inputs' = {}
    BY DEF Unmute
  <2> USE DEF To, Audio, Pulse, NoDevice, pulseVars
  <2>1. CASE Start
    BY <2>1 DEF Start, CallOffTimer, JoinTimer, StartTimer, Joinable
  <2>2. CASE Stop
    BY <2>0, <2>2 DEF Stop, UnmuteOtherApps, CallOffTimer, JoinTimer, Joinable
  <2>3. CASE Cancel
    BY <2>0, <2>3 DEF Cancel, UnmuteOtherApps, CallOffTimer, JoinTimer, Joinable
  <2>4. CASE QuitDuringCancel
    BY <2>4 DEF QuitDuringCancel
  <2>5. CASE Cleanup
    BY <2>0, <2>5 DEF Cleanup, UnmuteOtherApps, CallOffTimer, JoinTimer, Destroy, Joinable
  <2> QED BY <1>1, <2>1, <2>2, <2>3, <2>4, <2>5 DEF DaemonThread
<1>2. CASE OtherThreads
  BY <1>2 DEF OtherThreads, TimerThread, TimerFires, DoMute, TimerEnds, pulseVars
<1>3. CASE User \/ UNCHANGED vars
  BY <1>3 DEF User, UserToggles, vars, pulseVars
<1> QED BY <1>1, <1>2, <1>3 DEF Next

-----------------------------------------------------------------------------
(* The inductive invariant of recording and muting (audio.cpp,              *)
(* pulseaudio.cpp, handlers of daemon.cpp) holds in every reachable state.  *)
THEOREM Invariance == Spec => []IInv
<1>1. IInv /\ [Next]_vars => IInv'
  BY TypeStep, DeviceStep, ChunksStep, AppsStep, TimerStep DEF IInv
<1> QED BY Initial, <1>1, PTL DEF Spec

(* The buffer never reaches the limit, and every variable keeps its type.   *)
THEOREM TypeCorrect == Spec => []TypeOK
<1>1. IInv => TypeOK
  BY DEF IInv
<1> QED BY <1>1, Invariance, PTL

(* What is kept is the beginning of the recording without a gap             *)
(* (audio_callback), though the limit is tested in one critical section and *)
(* the chunk pushed in another.                                             *)
THEOREM BeginningKept == Spec => []KeepsBeginning
<1>1. IInv => KeepsBeginning
  BY DEF IInv, ChunksOK
<1> QED BY <1>1, Invariance, PTL

(* Between recordings every app sounds as its user chose, wherever the      *)
(* timer was when the recording ended (unmute_other_apps).                  *)
THEOREM AppsRestored == Spec => []AppsAsWanted
<1>1. IInv => AppsAsWanted
  <2> SUFFICES ASSUME IInv, phase = "ended" \/ (phase = "idle" /\ ~quit)
               PROVE  muted = wanted /\ mute_timer \in {"none", "done"}
    BY DEF AppsAsWanted
  <2>1. mute_timer \in {"none", "done"} /\ muted_inputs = {}
    BY DEF IInv, TimerOK, TimerGone, Restored
  <2>2. \A app \in Apps : wanted[app] = muted[app]
    BY <2>1 DEF IInv, AppsOK, TypeOK, PulseTypeOK
  <2>3. muted \in [Apps -> BOOLEAN] /\ wanted \in [Apps -> BOOLEAN]
    BY DEF IInv, TypeOK, PulseTypeOK
  <2> QED BY <2>1, <2>2, <2>3
<1> QED BY <1>1, Invariance, PTL

(* The device runs during a recording only, outlives its callback, and is   *)
(* never left open by stop_recording() or cleanup().                        *)
THEOREM DeviceIsClosed == Spec => []DeviceClosed
<1>1. IInv => DeviceClosed
  BY DEF IInv, TypeOK, AudioTypeOK, DeviceOK, DeviceClosed, ClosesDevice, Closed, Starting
<1> QED BY <1>1, Invariance, PTL

-----------------------------------------------------------------------------
(* Every set of numbers has a least one.                                    *)
LEMMA LeastNumber ==
  ASSUME NEW T \in SUBSET Nat, T # {} PROVE \E m \in T : \A n \in T : m <= n
<1> DEFINE R == OpToRel(<, Nat)
<1>1. IsWellFoundedOn(R, Nat)
  BY NatLessThanWellFounded
<1>2. PICK m \in T : \A n \in T : ~ (<<n, m>> \in R)
  <2> HIDE DEF R
  <2> QED BY <1>1, WFMin, Zenon
<1>3. \A n \in T : n < m => <<n, m>> \in R
  BY SMT DEF OpToRel
<1> HIDE DEF R
<1>4. \A n \in T : ~(n < m)
  BY <1>2, <1>3, Zenon
<1> QED BY <1>4

(* The run of tokens before a place, and the one after it.                  *)
LEMMA RunFromIs ==
  ASSUME NEW seq, NEW set, NEW first \in Nat \ {0}
  PROVE  LET i == RunFrom(seq, set, first)
         IN  /\ i \in 1 .. first /\ \A j \in i .. first - 1 : seq[j] \in set
             /\ i = 1 \/ seq[i - 1] \notin set
<1> DEFINE T == {i \in 1 .. first : \A j \in i .. first - 1 : seq[j] \in set}
<1>1. PICK m \in T : \A n \in T : m <= n
  <2>1. first \in T /\ T \in SUBSET Nat
    OBVIOUS
  <2> HIDE DEF T
  <2> QED BY <2>1, LeastNumber
<1>2. m = 1 \/ seq[m - 1] \notin set
  <2> SUFFICES ASSUME m # 1, seq[m - 1] \in set PROVE FALSE
    OBVIOUS
  <2>1. m - 1 \in T
    OBVIOUS
  <2> QED BY <1>1, <2>1
<1> QED BY <1>1, <1>2 DEF RunFrom

LEMMA RunToIs ==
  ASSUME NEW seq, NEW set, Len(seq) \in Nat, NEW last \in 0 .. Len(seq)
  PROVE  LET i == RunTo(seq, set, last)
         IN  /\ i \in last .. Len(seq) /\ \A j \in last + 1 .. i : seq[j] \in set
             /\ i = Len(seq) \/ seq[i + 1] \notin set
<1> DEFINE T == {i \in last .. Len(seq) : i = Len(seq) \/ seq[i + 1] \notin set}
<1>1. PICK m \in T : \A n \in T : m <= n
  <2>1. Len(seq) \in T /\ T \in SUBSET Nat
    OBVIOUS
  <2> HIDE DEF T
  <2> QED BY <2>1, LeastNumber
<1>2. ASSUME NEW j \in last + 1 .. m PROVE seq[j] \in set
  <2>1. m \in last .. Len(seq)
    OBVIOUS
  <2>2. j - 1 \in last .. Len(seq) /\ j - 1 < m /\ (j - 1) + 1 = j
    BY <2>1
  <2>3. j - 1 \notin T
    <3> HIDE DEF T
    <3> QED BY <1>1, <2>1, <2>2
  <2> QED BY <2>2, <2>3
<1> QED BY <1>1, <1>2 DEF RunTo

(* find_phrase() returns the first place where the phrase stands, or none.  *)
LEMMA FindPhraseIs ==
  ASSUME NEW seq, NEW phrase, NEW from \in Nat \ {0}, Len(seq) \in Nat, Len(phrase) \in Nat
  PROVE  LET i == FindPhrase(seq, phrase, from)
         IN  \/ i = 0 /\ Hits(seq, phrase, from) = {}
             \/ /\ i \in Hits(seq, phrase, from) /\ i \in from .. Len(seq) + 1 - Len(phrase)
                /\ \A j \in Hits(seq, phrase, from) : i <= j
<1> DEFINE T == Hits(seq, phrase, from)
<1>1. T \in SUBSET Nat /\ T \subseteq from .. Len(seq) + 1 - Len(phrase)
  BY DEF Hits
<1>2. CASE T = {}
  BY <1>2 DEF FindPhrase
<1>3. CASE T # {}
  <2>1. \E m \in T : \A n \in T : m <= n
    <3> HIDE DEF T
    <3> QED BY <1>1, <1>3, LeastNumber
  <2> QED BY <1>1, <1>3, <2>1 DEF FindPhrase
<1> QED BY <1>2, <1>3

(* What becomes of the tokens before, in and after the place.               *)
Spliced(seq, first, last, others, new) ==
  LET shift == Len(others) - (last - first + 1)
  IN  /\ Len(new) = Len(seq) + shift
      /\ \A i \in 1 .. Len(new) :
           new[i] = IF i < first THEN seq[i]
                    ELSE IF i < first + Len(others) THEN others[i - first + 1]
                    ELSE seq[i - shift]

LEMMA SpliceIs ==
  ASSUME NEW S, NEW seq \in Seq(S), NEW others \in Seq(S),
         NEW first \in 1 .. Len(seq) + 1, NEW last \in first - 1 .. Len(seq)
  PROVE  /\ Splice(seq, first, last, others) \in Seq(S)
         /\ Spliced(seq, first, last, others, Splice(seq, first, last, others))
<1> DEFINE a == SubSeq(seq, 1, first - 1)
           b == SubSeq(seq, last + 1, Len(seq))
<1>0. Len(seq) \in Nat /\ Len(others) \in Nat /\ \A i \in 1 .. Len(seq) : seq[i] \in S
  BY LenProperties
<1>1. /\ a \in Seq(S) /\ Len(a) = first - 1 /\ \A i \in 1 .. first - 1 : a[i] = seq[i]
  BY <1>0, SubSeqProperties
<1>2. /\ b \in Seq(S) /\ Len(b) = Len(seq) - last
      /\ \A i \in 1 .. Len(seq) - last : b[i] = seq[last + i]
  <2>1. \A i \in last + 1 .. Len(seq) : seq[i] \in S
    BY <1>0
  <2>2. /\ b \in Seq(S) /\ Len(b) = IF last + 1 <= Len(seq) THEN Len(seq) - (last + 1) + 1 ELSE 0
        /\ \A i \in 1 .. Len(seq) - (last + 1) + 1 : b[i] = seq[last + 1 + i - 1]
    BY <2>1, <1>0, SubSeqProperties
  <2> QED BY <1>0, <2>2
<1> HIDE DEF a, b
<1>3. /\ a \o others \in Seq(S) /\ Len(a \o others) = Len(a) + Len(others)
      /\ \A i \in 1 .. Len(a) + Len(others) :
           (a \o others)[i] = IF i <= Len(a) THEN a[i] ELSE others[i - Len(a)]
  BY <1>1, ConcatProperties, Zenon
<1> DEFINE c == a \o others
<1>4. /\ c \o b \in Seq(S) /\ Len(c \o b) = Len(c) + Len(b)
      /\ \A i \in 1 .. Len(c) + Len(b) :
           (c \o b)[i] = IF i <= Len(c) THEN c[i] ELSE b[i - Len(c)]
  <2>1. c \in Seq(S)
    BY <1>3
  <2> HIDE DEF c
  <2> QED BY <1>2, <2>1, ConcatProperties, Zenon
<1>5. Splice(seq, first, last, others) = c \o b
  BY DEF Splice, a, b
<1> DEFINE new == c \o b
           shift == Len(others) - (last - first + 1)
<1>6. Len(c) = first - 1 + Len(others)
  BY <1>1, <1>3
<1>7. ASSUME NEW i \in 1 .. Len(seq) + shift
      PROVE  new[i] = IF i < first THEN seq[i]
                      ELSE IF i < first + Len(others) THEN others[i - first + 1]
                      ELSE seq[i - shift]
  <2>1. new[i] = IF i <= Len(c) THEN c[i] ELSE b[i - Len(c)]
    <3>1. i \in 1 .. Len(c) + Len(b)
      BY <1>0, <1>2, <1>6
    <3> HIDE DEF c
    <3> QED BY <1>4, <3>1
  <2>2. i <= Len(c) => c[i] = IF i < first THEN seq[i] ELSE others[i - first + 1]
    <3>1. i <= Len(c) => c[i] = IF i <= Len(a) THEN a[i] ELSE others[i - Len(a)]
      BY <1>0, <1>1, <1>3
    <3>2. i - Len(a) = i - first + 1
      BY <1>0, <1>1
    <3> QED BY <1>0, <1>1, <3>1, <3>2
  <2>3. i > Len(c) => b[i - Len(c)] = seq[i - shift]
    <3>1. i > Len(c) => i - Len(c) \in 1 .. Len(seq) - last
      BY <1>0, <1>6
    <3>2. last + (i - Len(c)) = i - shift
      BY <1>0, <1>6
    <3> HIDE DEF c, shift
    <3> QED BY <1>2, <3>1, <3>2
  <2> HIDE DEF new, c
  <2> QED BY <1>0, <1>6, <2>1, <2>2, <2>3
<1>8. Len(new) = Len(seq) + shift
  <2> HIDE DEF c
  <2> QED BY <1>0, <1>2, <1>4, <1>6
<1>9. Spliced(seq, first, last, others, new)
  <2> HIDE DEF new
  <2> QED BY <1>7, <1>8 DEF Spliced
<1> QED BY <1>4, <1>5, <1>9

-----------------------------------------------------------------------------
(* Spaces, breaks and marks are no words; lower case keeps words and others *)
(* apart and forgets a capital.                                             *)
LEMMA TokenFacts ==
  /\ Space \notin Words /\ Break \notin Words
  /\ \A token \in Closing : token \notin Words
  /\ Space # Break
  /\ \A token \in Tokens : Small(token) \in Tokens
  /\ \A token : Small(token) \in Words <=> token \in Words
  /\ \A token : token \notin Words => Small(token) = token
  /\ \A word \in Words : Upper[word] \in Words /\ Small(Upper[word]) = Small(word)
<1>1. Space # Break
  BY Zenon DEF Space, Break
<1> QED BY <1>1, VocabularyAssumption DEF Small, Tokens, Closing, White

LEMMA RulesType ==
  ASSUME formatting \in FormattingConfig, NEW name
  PROVE  /\ RulesOf(name) \in Seq(Entries)
         /\ \A k \in 1 .. Len(RulesOf(name)) :
              /\ RulesOf(name)[k].from \in Seq(Tokens) /\ Len(RulesOf(name)[k].from) >= 1
              /\ RulesOf(name)[k].to \in Seq(Tokens) /\ Apart(RulesOf(name)[k].to)
<1>1. \A seq \in Phrases : seq \in Seq(Tokens) /\ Len(seq) >= 1
  <2> SUFFICES ASSUME NEW seq \in Phrases PROVE seq \in Seq(Tokens) /\ Len(seq) >= 1
    OBVIOUS
  <2> QED BY EmptySeq, LenProperties DEF Phrases
<1>2. Commands \in Seq(Entries)
  <2>1. \A seq \in Seq({Break}) : seq \in Texts
    <3> SUFFICES ASSUME NEW seq \in Seq({Break}) PROVE seq \in Texts
      OBVIOUS
    <3>1. \A i \in 1 .. Len(seq) : seq[i] \in {Break}
      OBVIOUS
    <3>2. seq \in Seq(Tokens)
      <4> Break \in Tokens
        BY DEF Tokens, White
      <4> QED OBVIOUS
    <3>3. Len(seq) \in Nat
      OBVIOUS
    <3>4. \A i \in 1 .. Len(seq) - 1 : seq[i] \notin Words
      <4>1. Break \notin Words
        BY TokenFacts
      <4> QED BY <3>1, <3>3, <4>1
    <3> QED BY <3>2, <3>4 DEF Texts, Apart
  <2> DEFINE C == [from : Phrases, to : Seq({Break}) \ {<< >>}]
  <2>2. C \subseteq Entries
    BY <2>1 DEF Entries
  <2>3. Commands \in Seq(C)
    BY RuleAssumption
  <2> HIDE DEF C
  <2> QED BY <2>2, <2>3
<1>3. [k \in 1 .. Len(Fillers) |-> [from |-> <<Fillers[k]>>, to |-> << >>]] \in Seq(Entries)
  <2>1. << >> \in Texts
    BY DEF Texts, Apart
  <2>2. \A k \in 1 .. Len(Fillers) : <<Fillers[k]>> \in Phrases
    BY RuleAssumption DEF Phrases, Tokens
  <2> QED BY <2>1, <2>2, RuleAssumption DEF Entries
<1>4. RulesOf(name) \in Seq(Entries)
  BY <1>2, <1>3 DEF RulesOf, FormattingConfig
<1>5. \A k \in 1 .. Len(RulesOf(name)) : RulesOf(name)[k] \in Entries
  BY <1>4
<1> QED BY <1>1, <1>4, <1>5 DEF Entries, Texts

LEMMA Ranks ==
  /\ Rank("dictionary") = 1 /\ Rank("fillers") = 2 /\ Rank("commands") = 3
  /\ Rank("spaces") = 4 /\ Rank("trim") = 5 /\ Rank("capitals") = 6 /\ Rank("written") = 7
  /\ Passes[2] = "fillers" /\ Passes[3] = "commands" /\ Passes[4] = "spaces"
  /\ Passes[5] = "trim" /\ Passes[6] = "capitals" /\ Passes[7] = "written"
BY DEF Rank, Passes

(* Whether the configuration names a token does not depend on its case.     *)
LEMMA NamedWhateverItsCase ==
  ASSUME NEW a \in Tokens, NEW b \in Tokens, Small(a) = Small(b), Named(a)
  PROVE  Named(b)
<1>1. a \notin Words => b = a
  BY TokenFacts
<1>2. CASE a \notin Words
  BY <1>1, <1>2
<1>3. CASE a \in Words
  <2>1. a \notin White /\ a \notin Closing
    BY <1>3, VocabularyAssumption
  <2> QED BY <2>1 DEF Named, Closing, Delimiters
<1> QED BY <1>2, <1>3

-----------------------------------------------------------------------------
(* What holds throughout: the types, ...                                    *)
TextTypeOK ==
  /\ formatting \in FormattingConfig /\ transcript \in Texts
  /\ text \in Seq(Tokens)
  /\ origin \in Seq(0 .. Len(transcript)) /\ Len(origin) = Len(text)
  /\ pass \in {"dictionary", "fillers", "commands", "spaces", "trim", "capitals", "written"}
  /\ rule \in 1 .. Len(Rules) + 1
  /\ pos \in 1 .. Len(text) + 1 /\ (pass = "trim" => pos = 1)

(* ... that every token is accounted for, ...                               *)
Kept == InOrder /\ Heard /\ Complete

(* ... that no filler is left among those dealt with, and ahead only where  *)
(* remove_fillers() has yet to look, ...                                    *)
Clean ==
  formatting.remove_fillers =>
    \A f \in 1 .. Len(Fillers) : \A i \in 1 .. Len(text) :
      Small(text[i]) = Fillers[f] =>
        \/ pass = "dictionary"
        \/ pass = "fillers" /\ (f > rule \/ (f = rule /\ i >= pos))

(* ... and that normalize() leaves no space over behind it.                 *)
Neat ==
  /\ \A i \in 1 .. Len(text) :
       text[i] = Space =>
         \/ pass \in {"dictionary", "fillers", "commands"}
         \/ pass = "spaces" /\ i >= pos
         \/ SpaceBetween(i)
  /\ pass \in {"capitals", "written"} /\ text # << >> => text[Len(text)] \notin White

TextInv == TextTypeOK /\ Kept /\ Apart(text) /\ NoneJoined /\ Clean /\ Neat

-----------------------------------------------------------------------------
(* Tokens give way to others.  It keeps the types ...                       *)
LEMMA RewriteType ==
  ASSUME TextTypeOK, pass # "trim", NEW first \in 1 .. Len(text) + 1,
         NEW last \in first - 1 .. Len(text), NEW others \in Seq(Tokens),
         Rewrite(first, last, others)
  PROVE  /\ TextTypeOK' /\ pos' = first + Len(others)
         /\ Spliced(text, first, last, others, text')
         /\ Spliced(origin, first, last, [k \in 1 .. Len(others) |-> 0], origin')
<1> DEFINE zeros == [k \in 1 .. Len(others) |-> 0]
<1>0. Len(text) \in Nat /\ Len(others) \in Nat /\ Len(transcript) \in Nat
  BY DEF TextTypeOK, Texts
<1>1. text' \in Seq(Tokens) /\ Spliced(text, first, last, others, text')
  <2>1. text' = Splice(text, first, last, others) /\ text \in Seq(Tokens)
    BY DEF Rewrite, TextTypeOK
  <2> QED BY <2>1, SpliceIs
<1>2. /\ origin' \in Seq(0 .. Len(transcript)) /\ Spliced(origin, first, last, zeros, origin')
      /\ Len(zeros) = Len(others) /\ Len(origin) = Len(text)
  <2>1. /\ origin' = Splice(origin, first, last, zeros) /\ origin \in Seq(0 .. Len(transcript))
        /\ Len(origin) = Len(text)
    BY DEF Rewrite, TextTypeOK
  <2>2. zeros \in Seq(0 .. Len(transcript)) /\ Len(zeros) = Len(others)
    BY <1>0
  <2>3. first \in 1 .. Len(origin) + 1 /\ last \in first - 1 .. Len(origin)
    BY <2>1
  <2> HIDE DEF zeros
  <2> QED BY <2>1, <2>2, <2>3, SpliceIs
<1>3. /\ pos' = first + Len(others) /\ pos' \in 1 .. Len(text') + 1
      /\ Len(origin') = Len(text')
  <2> HIDE DEF zeros
  <2> QED BY <1>0, <1>1, <1>2 DEF Rewrite, Spliced
<1>4. Rules' = Rules
  BY DEF Rewrite, Rules, RulesOf
<1> QED BY <1>1, <1>2, <1>3, <1>4 DEF TextTypeOK, Rewrite

(* A token names or supplies the same as long as the configuration does.    *)
LEMMA SameConfiguration ==
  ASSUME formatting' = formatting
  PROVE  /\ \A name : RulesOf(name)' = RulesOf(name)
         /\ \A token : (Named(token)' <=> Named(token)) /\ (Supplied(token)' <=> Supplied(token))
<1>1. \A name : RulesOf(name)' = RulesOf(name)
  BY DEF RulesOf
<1>2. \A token : Named(token)' <=> Named(token)
  BY <1>1 DEF Named, Deletes
<1>3. \A token : Supplied(token)' <=> Supplied(token)
  BY DEF Supplied
<1> QED BY <1>1, <1>2, <1>3

(* What follows a token that was there before is what followed it, or is    *)
(* set apart, or is no word.                                                *)
LEMMA RewriteJoins ==
  ASSUME TextTypeOK, NoneJoined, pass # "trim", NEW first \in 1 .. Len(text) + 1,
         NEW last \in first - 1 .. Len(text), NEW others \in Seq(Tokens),
         Rewrite(first, last, others),
         \/ Len(others) # 0 \/ first = 1 \/ last = Len(text)
         \/ text[first - 1] \in White \/ text[last + 1] \notin Words \cup Symbols
         \/ text[last + 1] \in Symbols /\ (Deletes("dictionary") \/ Deletes("fillers"))
  PROVE  NoneJoined'
<1> DEFINE shift == Len(others) - (last - first + 1)
           zeros == [k \in 1 .. Len(others) |-> 0]
           Deleting == Deletes("dictionary") \/ Deletes("fillers")
<1>1. /\ Len(text) \in Nat /\ Len(others) \in Nat /\ Len(origin) = Len(text)
      /\ Len(zeros) = Len(others) /\ \A k \in 1 .. Len(others) : zeros[k] = 0
  BY DEF TextTypeOK
<1>2. Spliced(text, first, last, others, text') /\ Spliced(origin, first, last, zeros, origin')
  BY RewriteType
<1> HIDE DEF zeros
<1>3. /\ Len(text') = Len(text) + shift /\ Len(origin') = Len(text')
      /\ \A k \in 1 .. Len(text') :
           /\ k < first => text'[k] = text[k] /\ origin'[k] = origin[k]
           /\ k >= first /\ k < first + Len(others) => origin'[k] = 0
           /\ k >= first + Len(others) =>
                text'[k] = text[k - shift] /\ origin'[k] = origin[k - shift]
  <2>1. Len(text') = Len(text) + shift /\ Len(origin') = Len(text')
    BY <1>1, <1>2 DEF Spliced
  <2> SUFFICES ASSUME NEW k \in 1 .. Len(text')
               PROVE  /\ k < first => text'[k] = text[k] /\ origin'[k] = origin[k]
                      /\ k >= first /\ k < first + Len(others) => origin'[k] = 0
                      /\ k >= first + Len(others) =>
                           text'[k] = text[k - shift] /\ origin'[k] = origin[k - shift]
    BY <2>1
  <2>2. k >= first /\ k < first + Len(others) =>
          origin'[k] = zeros[k - first + 1] /\ k - first + 1 \in 1 .. Len(others)
    BY <1>1, <1>2, <2>1 DEF Spliced
  <2>3. /\ k < first => text'[k] = text[k] /\ origin'[k] = origin[k]
        /\ k >= first + Len(others) =>
             text'[k] = text[k - shift] /\ origin'[k] = origin[k - shift]
    BY <1>1, <1>2, <2>1 DEF Spliced
  <2> QED BY <1>1, <2>2, <2>3
<1>4. Deletes("dictionary")' = Deletes("dictionary") /\ Deletes("fillers")' = Deletes("fillers")
  BY SameConfiguration DEF Rewrite, Deletes
<1> SUFFICES ASSUME NEW k \in 1 .. Len(text') - 1,
                    text'[k] \notin White, text'[k + 1] \in Words \cup Symbols,
                    origin'[k] # 0, origin'[k + 1] # 0
             PROVE  origin'[k + 1] = origin'[k] + 1 \/ (text'[k + 1] \in Symbols /\ Deleting)
  BY <1>4 DEF NoneJoined, Joined, AsSpoken
<1>5. k \in 1 .. Len(text') /\ k + 1 \in 1 .. Len(text')
  BY <1>1, <1>3
<1>6. ASSUME NEW i \in 1 .. Len(text) - 1, text[i] = text'[k], text[i + 1] = text'[k + 1],
             origin[i] = origin'[k], origin[i + 1] = origin'[k + 1]
      PROVE  origin'[k + 1] = origin'[k] + 1 \/ (text'[k + 1] \in Symbols /\ Deleting)
  BY <1>6 DEF NoneJoined, Joined, AsSpoken
<1> HIDE DEF Deleting
<1>7. Len(text') = Len(text) + shift /\ k <= Len(text') - 1
  <2> HIDE DEF shift
  <2> QED BY <1>1, <1>3
<1>8. CASE k + 1 < first
  <2>1. /\ k \in 1 .. Len(text) - 1 /\ text[k] = text'[k] /\ origin[k] = origin'[k]
        /\ text[k + 1] = text'[k + 1] /\ origin[k + 1] = origin'[k + 1]
    BY <1>1, <1>3, <1>5, <1>8
  <2> QED BY <1>6, <2>1
<1>9. CASE k >= first + Len(others)
  <2>1. k - shift \in 1 .. Len(text) - 1 /\ (k + 1) - shift = (k - shift) + 1
    BY <1>1, <1>3, <1>9
  <2>2. k + 1 >= first + Len(others)
    BY <1>1, <1>9
  <2> HIDE DEF shift
  <2>3. /\ text[k - shift] = text'[k] /\ origin[k - shift] = origin'[k]
        /\ text[(k - shift) + 1] = text'[k + 1] /\ origin[(k - shift) + 1] = origin'[k + 1]
    BY <1>3, <1>5, <1>9, <2>1, <2>2
  <2> QED BY <1>6, <2>1, <2>3
<1>10. CASE k + 1 = first /\ Len(others) = 0
  <2>1. (k + 1) - shift = last + 1 /\ k = first - 1 /\ last < Len(text) /\ first # 1
    <3>1. shift = first - last - 1 /\ k = first - 1 /\ k >= 1 /\ first \in Int /\ last \in Int
      BY <1>1, <1>10
    <3> HIDE DEF shift
    <3>2. first - 1 <= (Len(text) + (first - last - 1)) - 1
      BY <1>7, <3>1
    <3>3. last < Len(text)
      BY <1>1, <3>1, <3>2
    <3> QED BY <3>1, <3>3
  <2>2. text'[k] = text[first - 1] /\ text'[k + 1] = text[last + 1]
    <3> HIDE DEF shift
    <3> QED BY <1>1, <1>3, <1>5, <1>10, <2>1
  <2> QED BY <1>10, <2>1, <2>2 DEF Deleting
<1>11. ~(k >= first /\ k < first + Len(others))
       /\ ~(k + 1 >= first /\ k + 1 < first + Len(others))
  BY <1>3, <1>5
<1> QED BY <1>1, <1>8, <1>9, <1>10, <1>11

(* ... what is still there, and in its order ...                            *)
LEMMA RewriteKept ==
  ASSUME TextTypeOK, Kept, pass # "trim", NEW first \in 1 .. Len(text) + 1,
         NEW last \in first - 1 .. Len(text), NEW others \in Seq(Tokens),
         Rewrite(first, last, others),
         \A i \in first .. last : Named(text[i]),
         \A i \in 1 .. Len(others) : Supplied(others[i])
  PROVE  Kept'
<1> DEFINE shift == Len(others) - (last - first + 1)
           zeros == [k \in 1 .. Len(others) |-> 0]
<1>0. /\ Len(text) \in Nat /\ Len(others) \in Nat /\ Len(origin) = Len(text)
      /\ \A i \in 1 .. Len(text) : text[i] \in Tokens /\ origin[i] \in 0 .. Len(transcript)
      /\ \A i \in 1 .. Len(transcript) : transcript[i] \in Tokens
  <2>1. /\ text \in Seq(Tokens) /\ origin \in Seq(0 .. Len(transcript))
        /\ Len(origin) = Len(text) /\ transcript \in Seq(Tokens)
    BY DEF TextTypeOK, Texts
  <2>2. \A i \in 1 .. Len(text) : text[i] \in Tokens
    BY <2>1
  <2>3. \A i \in 1 .. Len(text) : origin[i] \in 0 .. Len(transcript)
    BY <2>1
  <2> QED BY <2>1, <2>2, <2>3
<1> DEFINE Was(k) == IF k < first THEN k ELSE k - shift
           Stays(k) == k < first \/ k >= first + Len(others)
<1>1. /\ Len(text') = Len(text) + shift
      /\ \A k \in 1 .. Len(text') :
           /\ text'[k] = IF Stays(k) THEN text[Was(k)] ELSE others[k - first + 1]
           /\ origin'[k] = IF Stays(k) THEN origin[Was(k)] ELSE 0
  <2>1. /\ Spliced(text, first, last, others, text') /\ Spliced(origin, first, last, zeros, origin')
    BY RewriteType
  <2>2. Len(zeros) = Len(others) /\ \A i \in 1 .. Len(others) : zeros[i] = 0
    BY <1>0
  <2> HIDE DEF zeros
  <2>3. Len(text') = Len(text) + shift /\ Len(origin') = Len(text')
    BY <1>0, <2>1, <2>2 DEF Spliced
  <2> SUFFICES ASSUME NEW k \in 1 .. Len(text')
               PROVE  /\ text'[k] = IF Stays(k) THEN text[Was(k)] ELSE others[k - first + 1]
                      /\ origin'[k] = IF Stays(k) THEN origin[Was(k)] ELSE 0
    BY <2>3
  <2>4. text'[k] = IF Stays(k) THEN text[Was(k)] ELSE others[k - first + 1]
    BY <1>0, <2>1, <2>3 DEF Spliced
  <2>5. /\ Stays(k) => origin'[k] = origin[Was(k)]
        /\ ~Stays(k) => origin'[k] = zeros[k - first + 1]
    BY <1>0, <2>1, <2>2, <2>3 DEF Spliced
  <2>6. ~Stays(k) => k - first + 1 \in 1 .. Len(others)
    BY <1>0, <2>3
  <2> QED BY <2>2, <2>4, <2>5, <2>6
<1>2. \A k \in 1 .. Len(text') : Stays(k) => Was(k) \in 1 .. Len(text)
  BY <1>0, <1>1
<1>3. \A k \in 1 .. Len(text') : ~Stays(k) => Supplied(text'[k])
  <2> SUFFICES ASSUME NEW k \in 1 .. Len(text'), ~Stays(k) PROVE Supplied(text'[k])
    OBVIOUS
  <2>1. k - first + 1 \in 1 .. Len(others)
    BY <1>0, <1>1
  <2>2. text'[k] = others[k - first + 1]
    BY <1>1
  <2> QED BY <2>1, <2>2
<1>4. InOrder'
  <2> SUFFICES ASSUME NEW j \in 1 .. Len(text'), NEW k \in 1 .. Len(text'),
                      j < k, origin'[j] # 0, origin'[k] # 0
               PROVE  origin'[j] < origin'[k]
    BY DEF InOrder
  <2>1. Stays(j) /\ Stays(k)
    BY <1>1
  <2>2. /\ Was(j) \in 1 .. Len(text) /\ Was(k) \in 1 .. Len(text)
        /\ origin'[j] = origin[Was(j)] /\ origin'[k] = origin[Was(k)]
    <3> HIDE DEF Was, Stays
    <3> QED BY <1>1, <1>2, <2>1
  <2>3. Was(j) < Was(k)
    BY <1>0, <1>1, <2>1
  <2> HIDE DEF Was
  <2> QED BY <2>2, <2>3 DEF Kept, InOrder
<1>5. Heard'
  <2> SUFFICES ASSUME NEW k \in 1 .. Len(text')
               PROVE  IF origin'[k] = 0 THEN Supplied(text[k])'
                      ELSE Small(text'[k]) = Small(transcript'[origin'[k]])
    BY DEF Heard, Small
  <2>1. transcript' = transcript /\ formatting' = formatting
    BY DEF Rewrite
  <2>2. Supplied(text[k])' <=> Supplied(text'[k])
    BY <2>1, SameConfiguration
  <2> HIDE DEF Was, Stays
  <2>3. CASE Stays(k)
    <3>1. IF origin[Was(k)] = 0 THEN Supplied(text[Was(k)])
          ELSE Small(text[Was(k)]) = Small(transcript[origin[Was(k)]])
      BY <1>2, <2>3 DEF Kept, Heard
    <3> QED BY <1>1, <2>1, <2>2, <2>3, <3>1
  <2>4. CASE ~Stays(k)
    BY <1>1, <1>3, <2>2, <2>4
  <2> QED BY <2>3, <2>4
<1>6. Complete'
  <2> SUFFICES ASSUME NEW i \in 1 .. Len(transcript), ~Named(transcript[i])
               PROVE  \E k \in 1 .. Len(text') : origin'[k] = i
    <3>1. transcript' = transcript /\ formatting' = formatting
      BY DEF Rewrite
    <3>2. \A i \in 1 .. Len(transcript) : Named(transcript[i])' <=> Named(transcript[i])
      BY <3>1, SameConfiguration
    <3> QED BY <3>1, <3>2 DEF Complete
  <2>1. PICK k \in 1 .. Len(text) : origin[k] = i
    BY DEF Kept, Complete
  <2>2. ~Named(text[k])
    <3>1. Small(text[k]) = Small(transcript[i]) /\ i # 0
      BY <2>1 DEF Kept, Heard
    <3> QED BY <1>0, <3>1, NamedWhateverItsCase
  <2>3. CASE k < first
    <3>1. k \in 1 .. Len(text') /\ Stays(k) /\ Was(k) = k
      BY <1>0, <1>1, <2>3
    <3> HIDE DEF Was, Stays
    <3> QED BY <1>1, <2>1, <3>1
  <2>4. CASE k > last
    <3>1. k + shift \in 1 .. Len(text') /\ Stays(k + shift) /\ Was(k + shift) = k
      BY <1>0, <1>1, <2>4
    <3> HIDE DEF Was, Stays, shift
    <3> QED BY <1>1, <2>1, <3>1
  <2>5. ~(k \in first .. last)
    BY <2>2
  <2> QED BY <2>3, <2>4, <2>5
<1> QED BY <1>4, <1>5, <1>6 DEF Kept

(* ... and that words stand apart.                                          *)
LEMMA SplicedApart ==
  ASSUME NEW seq, NEW others, NEW new, Len(seq) \in Nat, Len(others) \in Nat,
         NEW first \in 1 .. Len(seq) + 1, NEW last \in first - 1 .. Len(seq),
         Spliced(seq, first, last, others, new), Apart(seq), Apart(others),
         IF Len(others) = 0
         THEN \/ first = 1 \/ last = Len(seq)
              \/ seq[first - 1] \notin Words \/ seq[last + 1] \notin Words
         ELSE /\ first = 1 \/ seq[first - 1] \notin Words \/ others[1] \notin Words
              /\ \/ last = Len(seq) \/ seq[last + 1] \notin Words
                 \/ others[Len(others)] \notin Words
  PROVE  Apart(new)
<1> DEFINE shift == Len(others) - (last - first + 1)
<1>1. /\ Len(new) = Len(seq) + shift
      /\ \A i \in 1 .. Len(new) :
           new[i] = IF i < first THEN seq[i]
                    ELSE IF i < first + Len(others) THEN others[i - first + 1]
                    ELSE seq[i - shift]
  BY DEF Spliced
<1>2. Len(new) \in Nat
  BY <1>1
<1> SUFFICES ASSUME NEW i \in 1 .. Len(new) - 1
             PROVE  new[i] \notin Words \/ new[i + 1] \notin Words
  BY DEF Apart
<1>3. i \in 1 .. Len(new) /\ i + 1 \in 1 .. Len(new)
  BY <1>2
<1>4. CASE i + 1 < first
  <2>1. new[i] = seq[i] /\ new[i + 1] = seq[i + 1] /\ i \in 1 .. Len(seq) - 1
    BY <1>1, <1>3, <1>4
  <2> QED BY <2>1 DEF Apart
<1>5. CASE i + 1 = first /\ Len(others) > 0
  <2>1. (i + 1) - first + 1 = 1 /\ i = first - 1
    BY <1>5
  <2>2. new[i] = seq[first - 1] /\ new[i + 1] = others[1]
    BY <1>1, <1>3, <1>5, <2>1
  <2> QED BY <1>5, <2>2
<1>6. CASE i + 1 = first /\ Len(others) = 0
  <2>1. (i + 1) - shift = last + 1 /\ i = first - 1 /\ last < Len(seq)
    BY <1>1, <1>6
  <2>2. new[i] = seq[first - 1] /\ new[i + 1] = seq[last + 1]
    BY <1>1, <1>3, <1>6, <2>1
  <2> QED BY <1>6, <2>1, <2>2
<1>7. CASE i >= first /\ i + 1 < first + Len(others)
  <2>1. i - first + 1 \in 1 .. Len(others) - 1 /\ (i + 1) - first + 1 = (i - first + 1) + 1
    BY <1>7
  <2>2. new[i] = others[i - first + 1] /\ new[i + 1] = others[(i - first + 1) + 1]
    BY <1>1, <1>3, <1>7, <2>1
  <2> QED BY <2>1, <2>2 DEF Apart
<1>8. CASE i >= first /\ i + 1 = first + Len(others)
  <2>1. /\ Len(others) > 0 /\ last < Len(seq) /\ i < first + Len(others)
        /\ i - first + 1 = Len(others) /\ (i + 1) - shift = last + 1
    <3>1. i = first + Len(others) - 1 /\ Len(new) = Len(seq) + shift
      BY <1>1, <1>8
    <3> QED BY <1>8, <3>1
  <2>2. new[i] = others[i - first + 1]
    BY <1>1, <1>3, <1>8, <2>1
  <2>3. new[i + 1] = seq[(i + 1) - shift]
    <3>1. ~(i + 1 < first) /\ ~(i + 1 < first + Len(others))
      BY <1>8
    <3> HIDE DEF shift
    <3> QED BY <1>1, <1>3, <3>1
  <2> HIDE DEF shift
  <2> QED BY <2>1, <2>2, <2>3
<1>9. CASE i >= first + Len(others)
  <2>1. i - shift \in 1 .. Len(seq) - 1 /\ (i + 1) - shift = (i - shift) + 1
    BY <1>1, <1>9
  <2>2. new[i] = seq[i - shift] /\ new[i + 1] = seq[(i - shift) + 1]
    BY <1>1, <1>3, <1>9, <2>1
  <2> HIDE DEF shift
  <2> QED BY <2>1, <2>2 DEF Apart
<1> QED BY <1>4, <1>5, <1>6, <1>7, <1>8, <1>9

(* Every token of the new text was in the old one or has been added.        *)
LEMMA SplicedFrom ==
  ASSUME NEW seq, NEW others, NEW new, Len(seq) \in Nat, Len(others) \in Nat,
         NEW first \in 1 .. Len(seq) + 1, NEW last \in first - 1 .. Len(seq),
         Spliced(seq, first, last, others, new), NEW i \in 1 .. Len(new)
  PROVE  \/ i < first /\ i \in 1 .. Len(seq) /\ new[i] = seq[i]
         \/ \E j \in 1 .. Len(others) : i = first - 1 + j /\ new[i] = others[j]
         \/ i >= first + Len(others) /\ \E j \in last + 1 .. Len(seq) : new[i] = seq[j]
<1> DEFINE shift == Len(others) - (last - first + 1)
<1>1. CASE i < first
  BY <1>1 DEF Spliced
<1>2. CASE i >= first /\ i < first + Len(others)
  <2>1. i - first + 1 \in 1 .. Len(others) /\ i = first - 1 + (i - first + 1)
    BY <1>2 DEF Spliced
  <2>2. new[i] = others[i - first + 1]
    BY <1>2 DEF Spliced
  <2> QED BY <2>1, <2>2
<1>3. CASE i >= first + Len(others)
  <2>1. i - shift \in last + 1 .. Len(seq)
    BY <1>3 DEF Spliced
  <2>2. new[i] = seq[i - shift]
    BY <1>3 DEF Spliced
  <2> HIDE DEF shift
  <2> QED BY <1>3, <2>1, <2>2
<1> QED BY <1>1, <1>2, <1>3 DEF Spliced

-----------------------------------------------------------------------------
(* The place where a rule applies: the tokens of its phrase, between ends   *)
(* of words, and each of them named.                                        *)
LEMMA FoundIs ==
  ASSUME TextTypeOK, Finds
  PROVE  /\ rule \in 1 .. Len(Rules) /\ Rule.from \in Seq(Tokens) /\ Len(Rule.from) >= 1
         /\ Rule.to \in Seq(Tokens) /\ Apart(Rule.to)
         /\ Found \in pos .. Len(text) /\ Last \in Found .. Len(text)
         /\ Found \in Hits(text, Rule.from, pos)
         /\ \A j \in Hits(text, Rule.from, pos) : Found <= j
         /\ Found = 1 \/ text[Found - 1] \notin Words
         /\ Last = Len(text) \/ text[Last + 1] \notin Words
         /\ \A i \in Found .. Last : Named(text[i])
<1>1. /\ rule \in 1 .. Len(Rules) /\ Rule.from \in Seq(Tokens) /\ Len(Rule.from) >= 1
      /\ Rule.to \in Seq(Tokens) /\ Apart(Rule.to) /\ Len(Rule.from) \in Nat
  <2>1. Len(Rules) \in Nat /\ rule \in 1 .. Len(Rules)
    BY RulesType DEF TextTypeOK, Finds, Rules
  <2>2. /\ Rule.from \in Seq(Tokens) /\ Len(Rule.from) >= 1
        /\ Rule.to \in Seq(Tokens) /\ Apart(Rule.to)
    <3>1. formatting \in FormattingConfig
      BY DEF TextTypeOK
    <3> QED BY <2>1, <3>1, RulesType DEF Rules, Rule
  <2> HIDE DEF Rule
  <2> QED BY <2>1, <2>2
<1>2. pos \in Nat \ {0} /\ Len(text) \in Nat
  BY DEF TextTypeOK
<1>3. /\ Found \in Hits(text, Rule.from, pos) /\ Found \in pos .. Len(text) + 1 - Len(Rule.from)
      /\ \A j \in Hits(text, Rule.from, pos) : Found <= j
  <2> HIDE DEF Rule
  <2> QED BY <1>1, <1>2, FindPhraseIs DEF Found, Finds
<1>4. Found \in pos .. Len(text) /\ Last \in Found .. Len(text)
  BY <1>1, <1>2, <1>3 DEF Last
<1>5. /\ Found = 1 \/ text[Found - 1] \notin Words
      /\ Last = Len(text) \/ text[Last + 1] \notin Words
      /\ \A k \in 1 .. Len(Rule.from) : Small(text[Found + k - 1]) = Rule.from[k]
  <2>1. Last + 1 = Found + Len(Rule.from) /\ Found \in Nat /\ Last \in Nat
    BY <1>1, <1>2, <1>4 DEF Last
  <2> HIDE DEF Found, Last, Rule
  <2> QED BY <1>2, <1>3, <1>4, <2>1 DEF Hits
<1>6. ASSUME NEW i \in Found .. Last PROVE Named(text[i])
  <2>1. i - Found + 1 \in 1 .. Len(Rule.from) /\ Found + (i - Found + 1) - 1 = i
    BY <1>1, <1>2, <1>4 DEF Last
  <2>2. Small(text[i]) = Rule.from[i - Found + 1]
    <3> HIDE DEF Found, Rule
    <3> QED BY <1>5, <2>1
  <2>3. /\ pass \in {"dictionary", "fillers", "commands"}
        /\ rule \in DOMAIN RulesOf(pass) /\ RulesOf(pass)[rule] = Rule
        /\ i - Found + 1 \in DOMAIN RulesOf(pass)[rule].from
    BY <1>1, <2>1, RulesType DEF Finds, UsesRules, Rules, Rule, TextTypeOK
  <2> HIDE DEF Found, Rule
  <2> QED BY <2>2, <2>3 DEF Named
<1> QED BY <1>1, <1>3, <1>4, <1>5, <1>6

(* What goes with erased words.                                             *)
LEMMA EraseWordHoleIs ==
  ASSUME TextTypeOK, NEW first \in 1 .. Len(text), NEW last \in first .. Len(text)
  PROVE  LET hole == EraseWordHole(text, first, last)
         IN  /\ hole.first \in 1 .. first /\ hole.last \in last .. Len(text)
             /\ \A i \in hole.first .. hole.last :
                  \/ i \in first .. last \/ text[i] \in White
                  \/ i = last + 1 /\ text[i] = Comma
             /\ \/ hole.others = <<Space>>
                \/ /\ hole.others = << >>
                   /\ \/ hole.first = 1 \/ hole.last = Len(text)
                      \/ text[hole.last + 1] \notin Words
<1> DEFINE comma == PastComma(text, last)
           begin == RunFrom(text, White, first)
           end == RunTo(text, White, comma)
<1>1. Len(text) \in Nat
  BY DEF TextTypeOK
<1>2. comma \in last .. Len(text) /\ (comma = last \/ (comma = last + 1 /\ text[comma] = Comma))
  BY <1>1 DEF PastComma
<1>3. /\ begin \in 1 .. first /\ \A j \in begin .. first - 1 : text[j] \in White
  BY RunFromIs
<1>4. /\ end \in comma .. Len(text) /\ \A j \in comma + 1 .. end : text[j] \in White
  <2> HIDE DEF comma
  <2>1. comma \in 0 .. Len(text)
    BY <1>1, <1>2
  <2> QED BY <1>1, <2>1, RunToIs
<1>5. /\ EraseWordHole(text, first, last).first = begin
      /\ EraseWordHole(text, first, last).last = end
      /\ EraseWordHole(text, first, last).others =
           IF begin > 1 /\ end < Len(text) /\ text[end + 1] \in Words THEN <<Space>> ELSE << >>
  BY DEF EraseWordHole
<1> HIDE DEF comma, begin, end
<1>6. \A i \in begin .. end :
        \/ i \in first .. last \/ text[i] \in White
        \/ i = last + 1 /\ text[i] = Comma
  BY <1>1, <1>2, <1>3, <1>4
<1>7. end \in last .. Len(text)
  BY <1>1, <1>2, <1>4
<1> QED BY <1>1, <1>3, <1>5, <1>6, <1>7

(* The clause that a command may be.                                        *)
LEMMA ClauseIs ==
  ASSUME TextTypeOK, NEW first \in 1 .. Len(text), NEW last \in first .. Len(text)
  PROVE  LET clause == Clause(text, first, last)
         IN  /\ clause.first \in 1 .. first /\ clause.end \in last .. Len(text)
             /\ \A i \in clause.first .. clause.end :
                  i \in first .. last \/ text[i] \in White \cup Delimiters
<1> DEFINE left == RunFrom(text, White, first)
           right == RunTo(text, White, last)
           delimited == right < Len(text) /\ text[right + 1] \in Delimiters
           end == RunTo(text, White, right + 1)
<1>1. Len(text) \in Nat
  BY DEF TextTypeOK
<1>2. left \in 1 .. first /\ \A j \in left .. first - 1 : text[j] \in White
  BY RunFromIs
<1>3. right \in last .. Len(text) /\ \A j \in last + 1 .. right : text[j] \in White
  <2>1. last \in 0 .. Len(text)
    BY <1>1
  <2> QED BY <1>1, <2>1, RunToIs
<1>4. /\ Clause(text, first, last).first = left
      /\ Clause(text, first, last).end = IF delimited THEN end ELSE right
  BY DEF Clause
<1>5. delimited => /\ end \in right + 1 .. Len(text)
                   /\ \A j \in right + 2 .. end : text[j] \in White
  <2> HIDE DEF right
  <2> SUFFICES ASSUME delimited PROVE /\ end \in right + 1 .. Len(text)
                                      /\ \A j \in (right + 1) + 1 .. end : text[j] \in White
    BY <1>1, <1>3
  <2>1. right + 1 \in 0 .. Len(text)
    BY <1>1, <1>3
  <2> QED BY <1>1, <2>1, RunToIs
<1> HIDE DEF left, right, end
<1>6. CASE delimited
  <2>1. \A i \in left .. end : i \in first .. last \/ text[i] \in White \cup Delimiters
    BY <1>1, <1>2, <1>3, <1>5, <1>6
  <2> QED BY <1>1, <1>2, <1>3, <1>4, <1>5, <1>6, <2>1
<1>7. CASE ~delimited
  <2>1. \A i \in left .. right : i \in first .. last \/ text[i] \in White \cup Delimiters
    BY <1>1, <1>2, <1>3
  <2> QED BY <1>1, <1>2, <1>3, <1>4, <1>7, <2>1
<1> QED BY <1>6, <1>7

-----------------------------------------------------------------------------
(* A filler in the text is a place where its rule applies, for words stand  *)
(* apart, and no such place has been passed.                                *)
LEMMA FillersAreFound ==
  ASSUME TextTypeOK, Apart(text), Clean, pass = "fillers", rule <= Len(Rules)
  PROVE  /\ formatting.remove_fillers /\ Len(Rules) = Len(Fillers) /\ Rule.to = << >>
         /\ \A i \in 1 .. Len(text) :
              Small(text[i]) = Fillers[rule] => i >= pos /\ i \in Hits(text, Rule.from, pos)
<1>1. /\ rule \in Nat \ {0} /\ pos \in Nat \ {0} /\ Len(text) \in Nat
      /\ formatting.remove_fillers \in BOOLEAN
  <2>1. Len(Rules) \in Nat
    BY RulesType DEF TextTypeOK, Rules
  <2> QED BY <2>1 DEF TextTypeOK, FormattingConfig
<1>2. formatting.remove_fillers
  <2>1. ~formatting.remove_fillers => Rules = << >>
    BY DEF Rules, RulesOf
  <2> QED BY <1>1, <2>1
<1>3. Rules = [k \in 1 .. Len(Fillers) |-> [from |-> <<Fillers[k]>>, to |-> << >>]]
  BY <1>2 DEF Rules, RulesOf
<1>4. /\ Len(Rules) = Len(Fillers) /\ rule \in 1 .. Len(Fillers) /\ Fillers[rule] \in Words
      /\ Rule = [from |-> <<Fillers[rule]>>, to |-> << >>]
  <2>1. Len(Fillers) \in Nat /\ \A k \in 1 .. Len(Fillers) : Fillers[k] \in Words
    BY RuleAssumption
  <2>2. Len(Rules) = Len(Fillers)
    BY <1>3, <2>1
  <2> QED BY <1>1, <1>3, <2>1, <2>2 DEF Rule
<1>5. ASSUME NEW i \in 1 .. Len(text), Small(text[i]) = Fillers[rule]
      PROVE  i >= pos /\ i \in Hits(text, Rule.from, pos)
  <2>1. i >= pos
    <3>1. pass # "dictionary"
      OBVIOUS
    <3> QED BY <1>1, <1>2, <1>4, <1>5, <3>1 DEF Clean
  <2>2. text[i] \in Words
    BY <1>4, <1>5, TokenFacts
  <2>3. i = 1 \/ text[i - 1] \notin Words
    <3>1. i # 1 => i - 1 \in 1 .. Len(text) - 1 /\ (i - 1) + 1 = i
      BY <1>1
    <3> QED BY <2>2, <3>1 DEF Apart
  <2>4. i + 1 > Len(text) \/ text[i + 1] \notin Words
    BY <1>1, <2>2 DEF Apart
  <2>5. Len(Rule.from) = 1 /\ Rule.from[1] = Fillers[rule]
    BY <1>4
  <2>6. \A k \in 1 .. Len(Rule.from) : Small(text[i + k - 1]) = Rule.from[k]
    BY <1>1, <1>5, <2>5
  <2> HIDE DEF Rule
  <2> QED BY <1>1, <2>1, <2>3, <2>4, <2>5, <2>6 DEF Hits
<1> QED BY <1>2, <1>4, <1>5

(* ... no filler comes back ...                                             *)
LEMMA RewriteClean ==
  ASSUME TextTypeOK, Clean, pass # "trim", NEW first \in 1 .. Len(text) + 1,
         NEW last \in first - 1 .. Len(text), NEW others \in Seq(Tokens),
         Rewrite(first, last, others),
         pass = "dictionary" \/ \A j \in 1 .. Len(others) : others[j] \notin Words,
         pass = "fillers" => \A i \in 1 .. first - 1 : Small(text[i]) # Fillers[rule]
  PROVE  Clean'
<1>1. /\ formatting' = formatting /\ pass' = pass /\ rule' = rule /\ pos' = first + Len(others)
      /\ Spliced(text, first, last, others, text') /\ Len(text) \in Nat /\ Len(others) \in Nat
  BY RewriteType DEF Rewrite, TextTypeOK
<1>2. CASE pass = "dictionary"
  BY <1>1, <1>2 DEF Clean
<1>3. CASE pass # "dictionary"
  <2> SUFFICES ASSUME formatting.remove_fillers, NEW f \in 1 .. Len(Fillers),
                      NEW i \in 1 .. Len(text'), Small(text'[i]) = Fillers[f]
               PROVE  pass = "fillers" /\ (f > rule \/ (f = rule /\ i >= first + Len(others)))
    BY <1>1 DEF Clean, Small
  <2>1. text'[i] \in Words
    BY RuleAssumption, TokenFacts
  <2>2. \A j \in 1 .. Len(text) :
          Small(text[j]) = Fillers[f] => pass = "fillers" /\ (f > rule \/ f = rule)
    BY <1>3 DEF Clean
  <2>3. \/ i < first /\ i \in 1 .. Len(text) /\ text'[i] = text[i]
        \/ \E j \in 1 .. Len(others) : i = first - 1 + j /\ text'[i] = others[j]
        \/ i >= first + Len(others) /\ \E j \in last + 1 .. Len(text) : text'[i] = text[j]
    <3>1. /\ Spliced(text, first, last, others, text')
          /\ Len(text) \in Nat /\ Len(others) \in Nat
      BY <1>1
    <3> QED BY ONLY <3>1, SplicedFrom,
                    first \in 1 .. Len(text) + 1, last \in first - 1 .. Len(text),
                    i \in 1 .. Len(text')
  <2>4. CASE i < first /\ i \in 1 .. Len(text) /\ text'[i] = text[i]
    <3>1. i \in 1 .. first - 1
      BY <2>4
    <3>2. pass = "fillers" => Small(text[i]) # Fillers[rule]
      BY <3>1
    <3> QED BY <2>2, <2>4, <3>2
  <2>5. CASE \E j \in 1 .. Len(others) : i = first - 1 + j /\ text'[i] = others[j]
    BY <1>3, <2>1, <2>5
  <2>6. CASE i >= first + Len(others) /\ \E j \in last + 1 .. Len(text) : text'[i] = text[j]
    <3>1. PICK j \in last + 1 .. Len(text) : text'[i] = text[j]
      BY <2>6
    <3>2. j \in 1 .. Len(text)
      BY <1>1
    <3> QED BY <2>2, <2>6, <3>1, <3>2
  <2> QED BY <2>3, <2>4, <2>5, <2>6
<1> QED BY <1>2, <1>3

(* ... and the end is nearer.                                               *)
LEMMA RewriteNearer ==
  ASSUME TextTypeOK, pass # "trim", NEW first \in 1 .. Len(text) + 1,
         NEW last \in first - 1 .. Len(text), NEW others \in Seq(Tokens),
         Rewrite(first, last, others), last >= pos
  PROVE  Nearer
<1>1. /\ pass' = pass /\ rule' = rule /\ pos' = first + Len(others)
      /\ Len(text') = Len(text) + (Len(others) - (last - first + 1))
      /\ Len(text) \in Nat /\ Len(others) \in Nat /\ pos \in Nat
  <2>1. Spliced(text, first, last, others, text') /\ pos' = first + Len(others)
    BY RewriteType
  <2>2. Len(text') = Len(text) + (Len(others) - (last - first + 1))
    BY <2>1 DEF Spliced
  <2>3. Len(text) \in Nat /\ pos \in Nat
    BY DEF TextTypeOK
  <2> QED BY <2>1, <2>2, <2>3 DEF Rewrite
<1>2. Ahead' < Ahead /\ Ahead' >= 0
  BY <1>1 DEF Ahead
<1> QED BY <1>1, <1>2 DEF Nearer

-----------------------------------------------------------------------------
(* Each step keeps what holds throughout, and comes nearer to the end.      *)
LEMMA EraseKeeps ==
  ASSUME TextInv, Erase PROVE TextInv' /\ Nearer
<1> DEFINE hole == EraseWordHole(text, Found, Last)
<1>1. /\ TextTypeOK /\ Kept /\ Apart(text) /\ NoneJoined /\ Clean /\ Finds
      /\ pass \in {"dictionary", "fillers"} /\ Rule.to = << >>
      /\ Rewrite(hole.first, hole.last, hole.others)
  BY DEF TextInv, Erase, Finds, UsesRules
<1>2. /\ Found \in pos .. Len(text) /\ Last \in Found .. Len(text) /\ rule \in 1 .. Len(Rules)
      /\ \A i \in Found .. Last : Named(text[i]) /\ pos \in Nat \ {0} /\ Len(text) \in Nat
      /\ \A j \in Hits(text, Rule.from, pos) : Found <= j
  BY <1>1, FoundIs DEF TextTypeOK
<1>3. /\ hole.first \in 1 .. Found /\ hole.last \in Last .. Len(text)
      /\ \A i \in hole.first .. hole.last :
           \/ i \in Found .. Last \/ text[i] \in White
           \/ i = Last + 1 /\ text[i] = Comma
      /\ \/ hole.others = <<Space>>
         \/ /\ hole.others = << >>
            /\ \/ hole.first = 1 \/ hole.last = Len(text)
               \/ text[hole.last + 1] \notin Words
  <2>1. Found \in 1 .. Len(text) /\ Last \in Found .. Len(text)
    BY <1>2
  <2> HIDE DEF Found, Last
  <2> QED BY <1>1, <2>1, EraseWordHoleIs
<1>4. Deletes(pass)
  <2>1. rule \in DOMAIN RulesOf(pass) /\ RulesOf(pass)[rule].to = << >>
    BY <1>1, <1>2, RulesType DEF Rules, Rule, TextTypeOK
  <2> QED BY <2>1 DEF Deletes
<1>5. \A i \in hole.first .. hole.last : Named(text[i])
  <2> HIDE DEF hole, Found, Last
  <2> QED BY <1>1, <1>2, <1>3, <1>4 DEF Named
<1> DEFINE first == hole.first
           last == hole.last
           others == hole.others
<1>6. /\ first \in 1 .. Len(text) + 1 /\ last \in first - 1 .. Len(text) /\ last >= pos
      /\ first <= Found
  <2> HIDE DEF hole, Found, Last
  <2> QED BY <1>2, <1>3
<1>7. /\ others \in Seq(Tokens) /\ \A j \in 1 .. Len(others) : others[j] = Space
      /\ Len(others) \in Nat
  <2>1. Space \in Tokens
    BY DEF Tokens, White
  <2>2. <<Space>> \in Seq(Tokens) /\ Len(<<Space>>) = 1 /\ <<Space>>[1] = Space
    BY <2>1
  <2>3. << >> \in Seq(Tokens) /\ Len(<< >>) = 0
    OBVIOUS
  <2>4. others = <<Space>> \/ others = << >>
    BY <1>3
  <2>5. \A j \in 1 .. 1 : <<Space>>[j] = Space
    OBVIOUS
  <2> HIDE DEF others
  <2>6. CASE others = <<Space>>
    <3>1. Len(others) = 1 /\ others \in Seq(Tokens)
      BY <2>2, <2>6
    <3>2. \A j \in 1 .. 1 : others[j] = Space
      BY <2>5, <2>6
    <3> QED BY <3>1, <3>2
  <2>7. CASE others = << >>
    BY <2>3, <2>7
  <2> QED BY <2>4, <2>6, <2>7
<1>8. IF Len(others) = 0
      THEN \/ first = 1 \/ last = Len(text)
           \/ text[first - 1] \notin Words \/ text[last + 1] \notin Words
      ELSE others[1] \notin Words /\ others[Len(others)] \notin Words
  <2>1. others = <<Space>> \/ (others = << >> /\ (\/ first = 1 \/ last = Len(text)
                                                  \/ text[last + 1] \notin Words))
    BY <1>3
  <2>2. Len(<<Space>>) = 1 /\ <<Space>>[1] = Space /\ Len(<< >>) = 0
    OBVIOUS
  <2> HIDE DEF first, last, others
  <2> QED BY <2>1, <2>2, TokenFacts
<1>9. Rewrite(first, last, others) /\ \A i \in first .. last : Named(text[i])
  BY <1>1, <1>5
<1>10. \/ Len(others) # 0 \/ first = 1 \/ last = Len(text)
       \/ text[last + 1] \notin Words \cup Symbols
       \/ text[last + 1] \in Symbols /\ (Deletes("dictionary") \/ Deletes("fillers"))
  <2>1. \/ Len(others) = 1 \/ first = 1 \/ last = Len(text) \/ text[last + 1] \notin Words
    <3>1. Len(<<Space>>) = 1
      OBVIOUS
    <3> QED BY <1>3, <3>1
  <2>2. Deletes("dictionary") \/ Deletes("fillers")
    BY <1>1, <1>4
  <2> HIDE DEF first, last, others
  <2> QED BY <2>1, <2>2
<1> HIDE DEF first, last, others
<1>11. NoneJoined'
  BY <1>1, <1>6, <1>7, <1>9, <1>10, RewriteJoins
<1>12. TextTypeOK' /\ Spliced(text, first, last, others, text')
  BY <1>1, <1>6, <1>7, <1>9, RewriteType
<1>13. Kept'
  <2>1. \A j \in 1 .. Len(others) : Supplied(others[j])
    BY <1>7 DEF Supplied, White
  <2> QED BY <1>1, <1>6, <1>7, <1>9, <2>1, RewriteKept
<1>14. Apart(text')
  <2>1. Apart(others)
    BY <1>7, TokenFacts DEF Apart
  <2> QED BY <1>1, <1>2, <1>6, <1>7, <1>8, <1>12, <2>1, SplicedApart
<1>15. Clean'
  <2>1. \A j \in 1 .. Len(others) : others[j] \notin Words
    BY <1>7, TokenFacts
  <2>2. ASSUME pass = "fillers", NEW i \in 1 .. first - 1 PROVE Small(text[i]) # Fillers[rule]
    <3> SUFFICES ASSUME Small(text[i]) = Fillers[rule] PROVE FALSE
      OBVIOUS
    <3>1. i \in 1 .. Len(text) /\ i < Found
      BY <1>2, <1>6
    <3>2. i \in Hits(text, Rule.from, pos)
      BY <1>1, <1>2, <2>2, <3>1, FillersAreFound
    <3> QED BY <1>2, <3>1, <3>2
  <2> QED BY <1>1, <1>6, <1>7, <1>9, <2>1, <2>2, RewriteClean
<1>16. Neat'
  <2>1. pass' = pass
    BY <1>9 DEF Rewrite
  <2> QED BY <1>1, <2>1 DEF Neat
<1>17. Nearer
  BY <1>1, <1>6, <1>7, <1>9, RewriteNearer
<1> QED BY <1>12, <1>13, <1>14, <1>15, <1>16, <1>17, <1>11 DEF TextInv, Apart

(* What apply_dictionary() writes is its entry, but for a capital.          *)
LEMMA PreserveIs ==
  ASSUME NEW to \in Seq(Tokens), Len(to) >= 1, Apart(to), NEW spoken
  PROVE  /\ Preserve(to, spoken) \in Seq(Tokens) /\ Len(Preserve(to, spoken)) = Len(to)
         /\ Apart(Preserve(to, spoken))
         /\ \A j \in 1 .. Len(to) : Small(Preserve(to, spoken)[j]) = Small(to[j])
<1>1. Len(to) \in Nat /\ to[1] \in Tokens
  OBVIOUS
<1>2. CASE ~(to[1] \in Words /\ Capital(spoken))
  <2>1. Preserve(to, spoken) = to
    BY <1>2 DEF Preserve
  <2> QED BY <2>1
<1>3. CASE to[1] \in Words /\ Capital(spoken)
  <2> DEFINE new == [to EXCEPT ![1] = Upper[to[1]]]
  <2>1. Preserve(to, spoken) = new
    BY <1>3 DEF Preserve
  <2>2. Upper[to[1]] \in Words /\ Small(Upper[to[1]]) = Small(to[1])
    BY <1>3, TokenFacts
  <2>3. /\ new \in Seq(Tokens) /\ Len(new) = Len(to)
        /\ \A j \in 1 .. Len(to) : new[j] = IF j = 1 THEN Upper[to[1]] ELSE to[j]
    BY <1>1, <2>2 DEF Tokens
  <2> HIDE DEF new
  <2>4. \A j \in 1 .. Len(to) :
          Small(new[j]) = Small(to[j]) /\ (new[j] \in Words <=> to[j] \in Words)
    BY <1>3, <2>2, <2>3
  <2>5. Apart(new)
    BY <1>1, <2>3, <2>4 DEF Apart
  <2> QED BY <2>1, <2>3, <2>4, <2>5
<1> QED BY <1>2, <1>3

LEMMA ReplaceKeeps ==
  ASSUME TextInv, Replace PROVE TextInv' /\ Nearer
<1> DEFINE others == Preserve(Rule.to, text[Found])
<1>1. /\ TextTypeOK /\ Kept /\ Apart(text) /\ NoneJoined /\ Clean /\ Finds
      /\ pass = "dictionary" /\ Rule.to # << >> /\ Rewrite(Found, Last, others)
  BY DEF TextInv, Replace
<1>2. /\ Found \in pos .. Len(text) /\ Last \in Found .. Len(text) /\ rule \in 1 .. Len(Rules)
      /\ \A i \in Found .. Last : Named(text[i]) /\ pos \in Nat \ {0} /\ Len(text) \in Nat
      /\ Found = 1 \/ text[Found - 1] \notin Words
      /\ Last = Len(text) \/ text[Last + 1] \notin Words
      /\ Rule.to \in Seq(Tokens) /\ Apart(Rule.to)
  BY <1>1, FoundIs DEF TextTypeOK
<1>3. Len(Rule.to) >= 1
  <2> HIDE DEF Rule
  <2> QED BY <1>1, <1>2, EmptySeq, LenProperties
<1>4. /\ others \in Seq(Tokens) /\ Len(others) = Len(Rule.to) /\ Apart(others)
      /\ \A j \in 1 .. Len(others) : Small(others[j]) = Small(Rule.to[j])
  <2> HIDE DEF Rule
  <2> QED BY <1>2, <1>3, PreserveIs
<1>5. \A j \in 1 .. Len(others) : Supplied(others[j])
  <2>1. /\ rule \in DOMAIN formatting.dictionary /\ formatting.dictionary[rule] = Rule
        /\ DOMAIN Rule.to = 1 .. Len(others)
    <3>1. Rules = formatting.dictionary
      BY <1>1 DEF Rules, RulesOf
    <3>2. DOMAIN Rules = 1 .. Len(Rules)
      BY <1>1, RulesType DEF Rules, TextTypeOK
    <3>3. DOMAIN Rule.to = 1 .. Len(others)
      <4> HIDE DEF others, Rule
      <4> QED BY <1>2, <1>4
    <3> QED BY <1>2, <3>1, <3>2, <3>3 DEF Rule
  <2> HIDE DEF others, Rule
  <2> QED BY <1>4, <2>1 DEF Supplied
<1>6. Found \in 1 .. Len(text) + 1 /\ Last \in Found - 1 .. Len(text) /\ Last >= pos
  <2> HIDE DEF Found, Last
  <2> QED BY <1>2
<1> HIDE DEF others, Found, Last
<1>7. TextTypeOK' /\ Spliced(text, Found, Last, others, text')
  BY <1>1, <1>4, <1>6, RewriteType
<1>8. Kept'
  BY <1>1, <1>2, <1>4, <1>5, <1>6, RewriteKept
<1>9. Apart(text')
  <2>1. Len(others) \in Nat /\ Len(others) # 0
    BY <1>3, <1>4
  <2> QED BY <1>1, <1>2, <1>4, <1>6, <1>7, <2>1, SplicedApart
<1>10. NoneJoined'
  <2>1. Len(others) # 0
    BY <1>3, <1>4
  <2> QED BY <1>1, <1>4, <1>6, <2>1, RewriteJoins
<1>11. pass' = pass
  BY <1>1 DEF Rewrite
<1>12. Clean' /\ Neat'
  BY <1>1, <1>11 DEF Clean, Neat
<1>13. Nearer
  BY <1>1, <1>4, <1>6, RewriteNearer
<1> QED BY <1>7, <1>8, <1>9, <1>12, <1>13, <1>10 DEF TextInv, Apart

(* What becomes of the case of a text does not matter to what it keeps.     *)
LEMMA KeptWhateverTheCase ==
  ASSUME TextTypeOK, Kept, formatting' = formatting, transcript' = transcript, origin' = origin,
         Len(text') = Len(text),
         \A k \in 1 .. Len(text) : text'[k] \in Tokens /\ Small(text'[k]) = Small(text[k])
  PROVE  Kept'
<1>1. InOrder'
  BY DEF Kept, InOrder
<1>2. Complete'
  BY SameConfiguration DEF Kept, Complete
<1>3. Heard'
  <2> SUFFICES ASSUME NEW k \in 1 .. Len(text)
               PROVE  IF origin[k] = 0 THEN Supplied(text[k])'
                      ELSE Small(text'[k]) = Small(transcript[origin[k]])
    BY DEF Heard, Small
  <2>1. IF origin[k] = 0 THEN Supplied(text[k]) ELSE Small(text[k]) = Small(transcript[origin[k]])
    BY DEF Kept, Heard
  <2>2. Supplied(text[k]) => Supplied(text'[k])
    <3>1. text[k] \in White => text'[k] = text[k]
      BY TokenFacts, VocabularyAssumption
    <3> QED BY <3>1 DEF Supplied
  <2>3. Supplied(text[k])' <=> Supplied(text'[k])
    BY SameConfiguration
  <2> QED BY <2>1, <2>2, <2>3
<1> QED BY <1>1, <1>2, <1>3 DEF Kept

LEMMA SameTextJoins ==
  ASSUME NoneJoined, formatting' = formatting, text' = text, origin' = origin
  PROVE  NoneJoined'
BY SameConfiguration DEF NoneJoined, Joined, AsSpoken, Deletes

(* Nothing is replaced and the search goes on further behind.              *)
LEMMA GoToKeeps ==
  ASSUME TextTypeOK, Kept, Apart(text), NoneJoined, pass # "trim",
         NEW position \in pos + 1 .. Len(text) + 1,
         GoTo(position)
  PROVE  TextTypeOK' /\ Kept' /\ Apart(text') /\ NoneJoined' /\ Nearer
<1>1. /\ formatting' = formatting /\ transcript' = transcript /\ text' = text /\ origin' = origin
      /\ pass' = pass /\ rule' = rule /\ pos' = position
  BY DEF GoTo
<1>2. pos \in Nat \ {0} /\ Len(text) \in Nat
  BY DEF TextTypeOK
<1>3. TextTypeOK'
  <2>1. Rules' = Rules
    BY <1>1 DEF Rules, RulesOf
  <2>2. pos' \in 1 .. Len(text') + 1
    BY <1>1, <1>2
  <2> QED BY <1>1, <2>1, <2>2 DEF TextTypeOK
<1>4. Kept'
  BY <1>1, KeptWhateverTheCase DEF TextTypeOK
<1>5. Nearer
  BY <1>1, <1>2 DEF Nearer, Ahead
<1>6. NoneJoined'
  BY <1>1, SameTextJoins
<1> QED BY <1>1, <1>3, <1>4, <1>5, <1>6

LEMMA ObeyKeeps ==
  ASSUME TextInv, Obey PROVE TextInv' /\ Nearer
<1> DEFINE clause == Clause(text, Found, Last)
<1>1. TextTypeOK /\ Kept /\ Apart(text) /\ NoneJoined /\ Clean /\ Finds /\ pass = "commands"
  BY DEF TextInv, Obey
<1>2. /\ Found \in pos .. Len(text) /\ Last \in Found .. Len(text) /\ rule \in 1 .. Len(Rules)
      /\ \A i \in Found .. Last : Named(text[i]) /\ pos \in Nat \ {0} /\ Len(text) \in Nat
  BY <1>1, FoundIs DEF TextTypeOK
<1>3. CASE GoTo(Last + 1)
  <2>1. Last + 1 \in pos + 1 .. Len(text) + 1
    <3> HIDE DEF Found, Last
    <3> QED BY <1>2
  <2> HIDE DEF Last
  <2>2. TextTypeOK' /\ Kept' /\ Apart(text') /\ NoneJoined' /\ Nearer
    BY <1>1, <1>3, <2>1, GoToKeeps
  <2>3. Clean' /\ Neat'
    BY <1>1, <1>3 DEF GoTo, Clean, Neat, Small
  <2> QED BY <2>2, <2>3 DEF TextInv, Apart
<1>4. CASE Rewrite(clause.first, clause.end, Rule.to)
  <2> DEFINE first == clause.first
             last == clause.end
             others == Rule.to
  <2>1. /\ first \in 1 .. Found /\ last \in Last .. Len(text)
        /\ \A i \in first .. last : i \in Found .. Last \/ text[i] \in White \cup Delimiters
    <3>1. Found \in 1 .. Len(text) /\ Last \in Found .. Len(text)
      BY <1>2
    <3> HIDE DEF Found, Last
    <3> QED BY <1>1, <3>1, ClauseIs
  <2>2. /\ others \in Seq({Break}) /\ Len(others) >= 1 /\ Len(others) \in Nat
        /\ formatting.spoken_commands
    <3>1. formatting.spoken_commands \in BOOLEAN
      BY <1>1 DEF TextTypeOK, FormattingConfig
    <3>2. formatting.spoken_commands /\ Rules = Commands
      <4>1. ~formatting.spoken_commands => Len(Rules) = 0
        BY <1>1 DEF Rules, RulesOf
      <4> QED BY <1>1, <1>2, <3>1, <4>1 DEF Rules, RulesOf
    <3>3. Rule \in [from : Phrases, to : Seq({Break}) \ {<< >>}]
      <4> DEFINE C == [from : Phrases, to : Seq({Break}) \ {<< >>}]
      <4>1. Commands \in Seq(C) /\ rule \in 1 .. Len(Commands) /\ Rule = Commands[rule]
        BY <1>2, <3>2, RuleAssumption DEF Rule
      <4> HIDE DEF C, Rule
      <4>2. Rule \in C
        BY <4>1
      <4> QED BY <4>2 DEF C
    <3>4. Rule.to \in Seq({Break}) /\ Rule.to # << >>
      BY <3>3
    <3> HIDE DEF Rule
    <3> QED BY <3>2, <3>4, EmptySeq, LenProperties
  <2>3. \A j \in 1 .. Len(others) : others[j] = Break
    <3> HIDE DEF others
    <3> QED BY <2>2
  <2>4. others \in Seq(Tokens) /\ Apart(others)
    <3>1. Break \in Tokens /\ Break \notin Words
      BY TokenFacts DEF Tokens, White
    <3> HIDE DEF others
    <3> QED BY <2>2, <2>3, <3>1 DEF Apart
  <2>5. /\ first \in 1 .. Len(text) + 1 /\ last \in first - 1 .. Len(text) /\ last >= pos
    <3> HIDE DEF clause, Found, Last
    <3> QED BY <1>2, <2>1
  <2>6. \A i \in first .. last : Named(text[i])
    <3> HIDE DEF clause, Found, Last
    <3> QED BY <1>2, <2>1, <2>2 DEF Named
  <2>7. Rewrite(first, last, others)
    BY <1>4
  <2> HIDE DEF first, last, others
  <2>8. TextTypeOK' /\ Spliced(text, first, last, others, text')
    BY <1>1, <2>4, <2>5, <2>7, RewriteType
  <2>9. Kept'
    <3>1. \A j \in 1 .. Len(others) : Supplied(others[j])
      BY <2>3 DEF Supplied, White
    <3> QED BY <1>1, <2>4, <2>5, <2>6, <2>7, <3>1, RewriteKept
  <2>10. Apart(text')
    <3>1. others[1] \notin Words /\ others[Len(others)] \notin Words /\ Len(others) # 0
      BY <2>2, <2>3, TokenFacts
    <3> QED BY <1>1, <1>2, <2>2, <2>4, <2>5, <2>8, <3>1, SplicedApart
  <2>11. Clean'
    <3>1. \A j \in 1 .. Len(others) : others[j] \notin Words
      BY <2>3, TokenFacts
    <3> QED BY <1>1, <2>4, <2>5, <2>7, <3>1, RewriteClean
  <2>12. NoneJoined'
    <3>1. Len(others) # 0
      BY <2>2
    <3> QED BY <1>1, <2>4, <2>5, <2>7, <3>1, RewriteJoins
  <2>13. Neat'
    <3>1. pass' = pass
      BY <2>7 DEF Rewrite
    <3> QED BY <1>1, <3>1 DEF Neat
  <2>14. Nearer
    BY <1>1, <2>4, <2>5, <2>7, RewriteNearer
  <2> QED BY <2>8, <2>9, <2>10, <2>11, <2>13, <2>14, <2>12 DEF TextInv, Apart
<1> QED BY <1>3, <1>4 DEF Obey

LEMMA NextPassKeeps ==
  ASSUME TextTypeOK, Kept, Apart(text), NoneJoined, pass # "written", NextPass
  PROVE  TextTypeOK' /\ Kept' /\ Apart(text') /\ NoneJoined' /\ Nearer
<1>1. /\ formatting' = formatting /\ transcript' = transcript /\ text' = text /\ origin' = origin
      /\ pass' = Passes[Rank(pass) + 1] /\ rule' = 1 /\ pos' = 1
  BY DEF NextPass
<1>2. /\ pass' \in {"fillers", "commands", "spaces", "trim", "capitals", "written"}
      /\ Rank(pass') > Rank(pass)
  <2>1. pass \in {"dictionary", "fillers", "commands", "spaces", "trim", "capitals"}
    BY DEF TextTypeOK
  <2> QED BY <1>1, <2>1, Ranks
<1>3. TextTypeOK'
  <2>1. Rules' = RulesOf(pass')
    BY <1>1, SameConfiguration DEF Rules
  <2>2. Len(RulesOf(pass')) \in Nat
    BY RulesType DEF TextTypeOK
  <2>3. rule' \in 1 .. Len(Rules') + 1
    BY <1>1, <2>1, <2>2
  <2> QED BY <1>1, <1>2, <2>3 DEF TextTypeOK
<1>4. Kept'
  BY <1>1, KeptWhateverTheCase DEF TextTypeOK
<1>5. NoneJoined'
  BY <1>1, SameTextJoins
<1> QED BY <1>1, <1>2, <1>3, <1>4, <1>5 DEF Nearer

LEMMA NextRuleKeeps ==
  ASSUME TextInv, NextRule PROVE TextInv' /\ Nearer
<1>1. /\ TextTypeOK /\ Kept /\ Apart(text) /\ NoneJoined /\ Clean
      /\ UsesRules /\ rule <= Len(Rules) /\ Found = 0 /\ rule' = rule + 1 /\ pos' = 1
      /\ formatting' = formatting /\ transcript' = transcript /\ text' = text
      /\ origin' = origin /\ pass' = pass
  BY DEF TextInv, NextRule
<1>2. Len(Rules) \in Nat /\ rule \in Nat \ {0} /\ pos \in Nat \ {0} /\ Len(text) \in Nat
  <2>1. Len(Rules) \in Nat
    BY <1>1, RulesType DEF TextTypeOK, Rules
  <2> QED BY <1>1, <2>1 DEF TextTypeOK
<1>3. TextTypeOK'
  <2>1. Rules' = Rules
    BY <1>1, SameConfiguration DEF Rules
  <2>2. rule' \in 1 .. Len(Rules') + 1 /\ pos' \in 1 .. Len(text') + 1 /\ pass' # "trim"
    BY <1>1, <1>2, <2>1 DEF UsesRules
  <2> QED BY <1>1, <2>2 DEF TextTypeOK
<1>4. Kept'
  BY <1>1, KeptWhateverTheCase DEF TextTypeOK
<1>5. Clean'
  <2> SUFFICES ASSUME formatting.remove_fillers, NEW f \in 1 .. Len(Fillers),
                      NEW i \in 1 .. Len(text), Small(text[i]) = Fillers[f], pass # "dictionary"
               PROVE  pass = "fillers" /\ (f > rule' \/ (f = rule' /\ i >= pos'))
    BY <1>1 DEF Clean, Small
  <2>1. pass = "fillers" /\ (f > rule \/ f = rule)
    BY <1>1 DEF Clean
  <2>2. f # rule
    <3> SUFFICES ASSUME f = rule PROVE FALSE
      OBVIOUS
    <3>1. i \in Hits(text, Rule.from, pos)
      BY <1>1, <2>1, FillersAreFound
    <3>2. Len(Rule.from) \in Nat
      <4>1. rule \in 1 .. Len(Rules) /\ formatting \in FormattingConfig
        BY <1>1, <1>2 DEF TextTypeOK
      <4>2. Rule.from \in Seq(Tokens)
        BY <4>1, RulesType DEF Rules, Rule
      <4> HIDE DEF Rule
      <4> QED BY <4>2
    <3>3. Hits(text, Rule.from, pos) = {} \/ Found \in pos .. Len(text) + 1 - Len(Rule.from)
      <4> HIDE DEF Rule
      <4> QED BY <1>2, <3>2, FindPhraseIs DEF Found
    <3> HIDE DEF Rule, Found
    <3> QED BY <1>1, <1>2, <3>1, <3>2, <3>3
  <2>3. f \in Nat
    BY RuleAssumption
  <2> QED BY <1>1, <1>2, <2>1, <2>2, <2>3
<1>6. Neat'
  BY <1>1 DEF Neat, UsesRules
<1>7. Nearer
  BY <1>1, <1>2 DEF Nearer
<1>8. NoneJoined'
  BY <1>1, SameTextJoins
<1> QED BY <1>1, <1>3, <1>4, <1>5, <1>6, <1>7, <1>8 DEF TextInv

LEMMA EndOfRulesKeeps ==
  ASSUME TextInv, EndOfRules PROVE TextInv' /\ Nearer
<1>1. /\ TextTypeOK /\ Kept /\ Apart(text) /\ NoneJoined /\ Clean
      /\ pass \in {"dictionary", "fillers", "commands"} /\ rule > Len(Rules) /\ NextPass
  BY DEF TextInv, EndOfRules, UsesRules
<1>2. TextTypeOK' /\ Kept' /\ Apart(text') /\ NoneJoined' /\ Nearer
  BY <1>1, NextPassKeeps
<1>3. /\ formatting' = formatting /\ text' = text /\ rule' = 1 /\ pos' = 1
      /\ pass' = CASE pass = "dictionary" -> "fillers" [] pass = "fillers" -> "commands"
                    [] OTHER -> "spaces"
  BY <1>1, Ranks DEF NextPass
<1>4. Clean'
  <2> SUFFICES ASSUME formatting.remove_fillers, NEW f \in 1 .. Len(Fillers),
                      NEW i \in 1 .. Len(text), Small(text[i]) = Fillers[f]
               PROVE  pass' = "fillers" /\ (f > 1 \/ (f = 1 /\ i >= 1))
    BY <1>3 DEF Clean, Small
  <2>1. Len(Fillers) \in Nat
    BY RuleAssumption
  <2>2. CASE pass = "dictionary"
    BY <1>3, <2>1, <2>2
  <2>3. CASE pass = "fillers"
    <3>1. Len(Rules) = Len(Fillers)
      BY <2>1, <2>3 DEF Rules, RulesOf
    <3>2. f > rule \/ f = rule
      BY <1>1, <2>3 DEF Clean
    <3>3. Len(Rules) \in Nat /\ rule \in Nat
      BY <1>1, <2>1, <3>1 DEF TextTypeOK
    <3> QED BY <1>1, <2>1, <3>1, <3>2, <3>3
  <2>4. CASE pass = "commands"
    BY <1>1, <2>4 DEF Clean
  <2> QED BY <1>1, <2>2, <2>3, <2>4
<1>5. Neat'
  <2>1. Len(text) \in Nat /\ \A i \in 1 .. Len(text) : i >= 1
    BY <1>1 DEF TextTypeOK
  <2> QED BY <1>1, <1>3, <2>1 DEF Neat
<1> QED BY <1>2, <1>4, <1>5 DEF TextInv, Apart

LEMMA TrimEndKeeps ==
  ASSUME TextInv, TrimEnd PROVE TextInv' /\ Nearer
<1>1. /\ TextTypeOK /\ Kept /\ Apart(text) /\ NoneJoined /\ Clean /\ Neat
      /\ pass = "trim" /\ pos = 1 /\ Len(text) \in Nat /\ Len(origin) = Len(text)
  BY DEF TextInv, TrimEnd, TextTypeOK
<1>2. CASE text # << >> /\ text[Len(text)] \in White
  <2>1. /\ text' = SubSeq(text, 1, Len(text) - 1) /\ origin' = SubSeq(origin, 1, Len(text) - 1)
        /\ formatting' = formatting /\ transcript' = transcript
        /\ pass' = pass /\ rule' = rule /\ pos' = pos
    BY <1>1, <1>2 DEF TrimEnd
  <2>2. Len(text) >= 1
    <3>1. text \in Seq(Tokens)
      BY <1>1 DEF TextTypeOK
    <3> QED BY <1>1, <1>2, <3>1, EmptySeq, LenProperties
  <2>3. /\ text' \in Seq(Tokens) /\ Len(text') = Len(text) - 1
        /\ \A i \in 1 .. Len(text) - 1 : text'[i] = text[i]
    BY <1>1, <2>1, <2>2 DEF TextTypeOK
  <2>4. /\ origin' \in Seq(0 .. Len(transcript)) /\ Len(origin') = Len(text) - 1
        /\ \A i \in 1 .. Len(text) - 1 : origin'[i] = origin[i]
    BY <1>1, <2>1, <2>2 DEF TextTypeOK
  <2>5. TextTypeOK'
    <3>1. Rules' = Rules
      BY <2>1, SameConfiguration DEF Rules
    <3>2. pos' \in 1 .. Len(text') + 1
      BY <1>1, <2>1, <2>2, <2>3
    <3> QED BY <1>1, <2>1, <2>3, <2>4, <3>1, <3>2 DEF TextTypeOK
  <2>6. InOrder'
    <3> SUFFICES ASSUME NEW j \in 1 .. Len(text) - 1, NEW k \in 1 .. Len(text) - 1,
                        j < k, origin[j] # 0, origin[k] # 0
                 PROVE  origin[j] < origin[k]
      BY <2>3, <2>4 DEF InOrder
    <3>1. j \in 1 .. Len(text) /\ k \in 1 .. Len(text)
      BY <1>1
    <3> QED BY <1>1, <3>1 DEF Kept, InOrder
  <2>7. Heard'
    <3> SUFFICES ASSUME NEW k \in 1 .. Len(text) - 1
                 PROVE  IF origin[k] = 0 THEN Supplied(text[k])'
                        ELSE Small(text[k]) = Small(transcript[origin[k]])
      BY <2>1, <2>3, <2>4 DEF Heard, Small
    <3>1. Supplied(text[k])' <=> Supplied(text[k])
      BY <2>1, <2>3, SameConfiguration
    <3> QED BY <1>1, <3>1 DEF Kept, Heard
  <2>8. Complete'
    <3> SUFFICES ASSUME NEW i \in 1 .. Len(transcript), ~Named(transcript[i])
                 PROVE  \E k \in 1 .. Len(text) - 1 : origin[k] = i
      <4>1. \A i \in 1 .. Len(transcript) : Named(transcript[i])' <=> Named(transcript[i])
        BY <2>1, SameConfiguration
      <4> QED BY <2>1, <2>3, <2>4, <4>1 DEF Complete
    <3>1. PICK k \in 1 .. Len(text) : origin[k] = i
      BY <1>1 DEF Kept, Complete
    <3>2. k # Len(text)
      <4> SUFFICES ASSUME k = Len(text) PROVE FALSE
        OBVIOUS
      <4>1. Small(text[k]) = Small(transcript[i])
        BY <1>1, <3>1 DEF Kept, Heard
      <4>2. text[k] \in Tokens /\ transcript[i] \in Tokens
        BY <1>1 DEF TextTypeOK, Texts
      <4> QED BY <1>2, <4>1, <4>2, NamedWhateverItsCase DEF Named
    <3> QED BY <1>1, <3>1, <3>2
  <2>9. Apart(text') /\ Clean'
    BY <1>1, <2>1, <2>3 DEF Apart, Clean, Small
  <2>10. NoneJoined'
    <3>1. Deletes("dictionary")' = Deletes("dictionary") /\ Deletes("fillers")' = Deletes("fillers")
      BY <2>1, SameConfiguration DEF Deletes
    <3>2. \A k \in 1 .. Len(text') - 1 :
            /\ k \in 1 .. Len(text) - 1 /\ text'[k] = text[k] /\ text'[k + 1] = text[k + 1]
            /\ origin'[k] = origin[k] /\ origin'[k + 1] = origin[k + 1]
      <4> SUFFICES ASSUME NEW k \in 1 .. Len(text') - 1
                   PROVE  /\ k \in 1 .. Len(text) - 1 /\ text'[k] = text[k]
                          /\ text'[k + 1] = text[k + 1] /\ origin'[k] = origin[k]
                          /\ origin'[k + 1] = origin[k + 1]
        OBVIOUS
      <4>1. k \in 1 .. Len(text) - 1 /\ k + 1 \in 1 .. Len(text) - 1
        <5>1. Len(text') = Len(text) - 1
          BY <2>3
        <5> QED BY <1>1, <5>1
      <4> QED BY <2>3, <2>4, <4>1
    <3> QED BY <1>1, <3>1, <3>2 DEF NoneJoined, Joined, AsSpoken
  <2>11. Neat'
    BY <1>1, <2>1, <2>3 DEF Neat, SpaceBetween
  <2>12. Nearer
    BY <1>1, <2>1, <2>2, <2>3 DEF Nearer, Ahead
  <2> QED BY <2>5, <2>6, <2>7, <2>8, <2>9, <2>11, <2>12, <2>10 DEF TextInv, Kept, Apart
<1>3. CASE ~(text # << >> /\ text[Len(text)] \in White)
  <2>1. NextPass
    BY <1>1, <1>3 DEF TrimEnd
  <2>2. TextTypeOK' /\ Kept' /\ Apart(text') /\ NoneJoined' /\ Nearer
    BY <1>1, <2>1, NextPassKeeps
  <2>3. formatting' = formatting /\ text' = text /\ pass' = "capitals"
    BY <1>1, <2>1, Ranks DEF NextPass
  <2>4. Clean'
    BY <1>1, <2>3 DEF Clean, Small
  <2>5. Neat'
    BY <1>1, <1>3, <2>3 DEF Neat, SpaceBetween
  <2> QED BY <2>2, <2>4, <2>5 DEF TextInv, Apart
<1> QED BY <1>2, <1>3

LEMMA CapitalizeKeeps ==
  ASSUME TextInv, Capitalize PROVE TextInv' /\ Nearer
<1>1. /\ TextTypeOK /\ Kept /\ Apart(text) /\ NoneJoined /\ Clean /\ Neat /\ pass = "capitals"
      /\ pos \in Nat \ {0} /\ Len(text) \in Nat /\ pos <= Len(text) + 1
  BY DEF TextInv, Capitalize, TextTypeOK
<1>2. CASE pos > Len(text) /\ NextPass
  <2>1. TextTypeOK' /\ Kept' /\ Apart(text') /\ NoneJoined' /\ Nearer
    BY <1>1, <1>2, NextPassKeeps
  <2>2. formatting' = formatting /\ text' = text /\ pass' = "written"
    BY <1>1, <1>2, Ranks DEF NextPass
  <2>3. Clean'
    BY <1>1, <2>2 DEF Clean, Small
  <2>4. Neat'
    BY <1>1, <2>2 DEF Neat, SpaceBetween
  <2> QED BY <2>1, <2>3, <2>4 DEF TextInv, Apart
<1>3. CASE ~(pos > Len(text) /\ NextPass)
  <2>1. /\ pos \in 1 .. Len(text) /\ pos' = pos + 1
        /\ formatting' = formatting /\ transcript' = transcript /\ origin' = origin
        /\ pass' = pass /\ rule' = rule
    BY <1>1, <1>3 DEF Capitalize
  <2>2. /\ text' \in Seq(Tokens) /\ Len(text') = Len(text)
        /\ \A k \in 1 .. Len(text) :
             \/ text'[k] = text[k]
             \/ text[k] \in Words /\ text'[k] = Upper[text[k]]
    <3>1. text \in Seq(Tokens)
      BY <1>1 DEF TextTypeOK
    <3>2. CASE text[pos] \in Words /\ Begins(text, pos)
      <4>1. text' = [text EXCEPT ![pos] = Upper[text[pos]]]
        BY <1>1, <1>3, <3>2 DEF Capitalize
      <4>2. Upper[text[pos]] \in Tokens
        BY <3>2, TokenFacts DEF Tokens
      <4> QED BY <2>1, <3>1, <3>2, <4>1, <4>2
    <3>3. CASE ~(text[pos] \in Words /\ Begins(text, pos))
      <4>1. text' = text
        BY <1>1, <1>3, <3>3 DEF Capitalize
      <4> QED BY <3>1, <4>1
    <3> QED BY <3>2, <3>3
  <2>3. \A k \in 1 .. Len(text) :
          /\ text'[k] \in Tokens /\ Small(text'[k]) = Small(text[k])
          /\ text'[k] \in Words <=> text[k] \in Words
          /\ text[k] \notin Words => text'[k] = text[k]
    BY <2>2, TokenFacts
  <2>4. TextTypeOK'
    <3>1. Rules' = Rules
      BY <2>1, SameConfiguration DEF Rules
    <3>2. pos' \in 1 .. Len(text') + 1
      BY <1>1, <2>1, <2>2
    <3> QED BY <1>1, <2>1, <2>2, <3>1, <3>2 DEF TextTypeOK
  <2>5. Kept'
    BY <1>1, <2>1, <2>2, <2>3, KeptWhateverTheCase
  <2>6. Apart(text')
    BY <1>1, <2>2, <2>3 DEF Apart
  <2>7. Clean'
    <3> SUFFICES ASSUME formatting.remove_fillers, NEW f \in 1 .. Len(Fillers),
                        NEW i \in 1 .. Len(text), Small(text'[i]) = Fillers[f]
                 PROVE  FALSE
      BY <2>1, <2>2 DEF Clean, Small
    <3>1. Small(text[i]) = Fillers[f]
      BY <2>3
    <3> QED BY <1>1, <3>1 DEF Clean
  <2>8. \A token \in White \cup Closing : \A k \in 1 .. Len(text) :
          text'[k] = token <=> text[k] = token
    <3>1. \A token \in White \cup Closing : token \notin Words
      BY VocabularyAssumption
    <3> QED BY <2>3, <3>1
  <2>9. Neat'
    <3>1. \A k \in 1 .. Len(text) : (text'[k] \in White <=> text[k] \in White)
                                 /\ (text'[k] \in Closing <=> text[k] \in Closing)
      BY <2>8
    <3>2. \A k \in 1 .. Len(text) : text'[k] = Space <=> text[k] = Space
      BY <2>8 DEF White
    <3>3. ASSUME NEW i \in 1 .. Len(text), text'[i] = Space PROVE SpaceBetween(i)'
      <4>1. SpaceBetween(i)
        BY <1>1, <3>2, <3>3 DEF Neat
      <4> QED BY <1>1, <2>2, <3>1, <4>1 DEF SpaceBetween
    <3>4. text' # << >> => text'[Len(text')] \notin White
      <4> SUFFICES ASSUME text' # << >> PROVE text'[Len(text)] \notin White
        BY <2>2
      <4>1. Len(text) >= 1
        BY <1>1, <2>2, EmptySeq, LenProperties
      <4>2. text # << >>
        BY <4>1
      <4> QED BY <1>1, <3>1, <4>1, <4>2 DEF Neat
    <3> QED BY <2>2, <3>3, <3>4 DEF Neat
  <2>10. Nearer
    BY <1>1, <2>1, <2>2 DEF Nearer, Ahead
  <2>11. NoneJoined'
    <3>1. Deletes("dictionary")' = Deletes("dictionary") /\ Deletes("fillers")' = Deletes("fillers")
      BY <2>1, SameConfiguration DEF Deletes
    <3>2. \A k \in 1 .. Len(text) :
            /\ text'[k] \in White <=> text[k] \in White
            /\ text'[k] \in Symbols <=> text[k] \in Symbols
      BY <2>2, TokenFacts, VocabularyAssumption
    <3>3. \A k \in 1 .. Len(text) - 1 :
            /\ k \in 1 .. Len(text) /\ k + 1 \in 1 .. Len(text)
            /\ text'[k + 1] \in Words \cup Symbols <=> text[k + 1] \in Words \cup Symbols
      <4>1. \A k \in 1 .. Len(text) - 1 : k \in 1 .. Len(text) /\ k + 1 \in 1 .. Len(text)
        BY <1>1
      <4> QED BY <2>3, <3>2, <4>1
    <3> SUFFICES ASSUME NEW k \in 1 .. Len(text) - 1,
                        text'[k] \notin White, text'[k + 1] \in Words \cup Symbols,
                        origin[k] # 0, origin[k + 1] # 0
                 PROVE  \/ origin[k + 1] = origin[k] + 1
                        \/ text'[k + 1] \in Symbols /\ (Deletes("dictionary") \/ Deletes("fillers"))
      BY <2>1, <2>2, <3>1 DEF NoneJoined, Joined, AsSpoken
    <3>4. /\ text[k] \notin White /\ text[k + 1] \in Words \cup Symbols
          /\ text[k + 1] \in Symbols => text'[k + 1] \in Symbols
      <4>1. k \in 1 .. Len(text) /\ k + 1 \in 1 .. Len(text)
        BY <3>3
      <4>2. text[k] \notin White
        BY <3>2, <4>1
      <4>3. text[k + 1] \in Words \cup Symbols
        BY <3>3
      <4>4. text[k + 1] \in Symbols => text'[k + 1] \in Symbols
        BY <3>2, <4>1
      <4> QED BY <4>2, <4>3, <4>4
    <3>5. \/ origin[k + 1] = origin[k] + 1
          \/ text[k + 1] \in Symbols /\ (Deletes("dictionary") \/ Deletes("fillers"))
      BY <1>1, <3>4 DEF NoneJoined, Joined, AsSpoken
    <3> QED BY <3>4, <3>5
  <2> QED BY <2>4, <2>5, <2>6, <2>7, <2>9, <2>10, <2>11 DEF TextInv, Apart
<1> QED BY <1>2, <1>3

LEMMA CollapseKeeps ==
  ASSUME TextInv, Collapse PROVE TextInv' /\ Nearer
<1>1. /\ TextTypeOK /\ Kept /\ Apart(text) /\ NoneJoined /\ Clean /\ Neat /\ pass = "spaces"
      /\ pos \in Nat \ {0} /\ Len(text) \in Nat /\ pos <= Len(text) + 1
  BY DEF TextInv, Collapse, TextTypeOK
<1>2. CASE pos > Len(text) /\ NextPass
  <2>1. TextTypeOK' /\ Kept' /\ Apart(text') /\ NoneJoined' /\ Nearer
    BY <1>1, <1>2, NextPassKeeps
  <2>2. formatting' = formatting /\ text' = text /\ pass' = "trim"
    BY <1>1, <1>2, Ranks DEF NextPass
  <2>3. Clean'
    BY <1>1, <2>2 DEF Clean, Small
  <2>4. Neat'
    BY <1>1, <1>2, <2>2 DEF Neat, SpaceBetween
  <2> QED BY <2>1, <2>3, <2>4 DEF TextInv, Apart
<1>3. CASE pos <= Len(text) /\ text[pos] # Space /\ GoTo(pos + 1)
  <2>1. TextTypeOK' /\ Kept' /\ Apart(text') /\ NoneJoined' /\ Nearer
    BY <1>1, <1>3, GoToKeeps
  <2>2. formatting' = formatting /\ text' = text /\ pass' = pass /\ pos' = pos + 1 /\ rule' = rule
    BY <1>3 DEF GoTo
  <2>3. Clean'
    BY <1>1, <2>2 DEF Clean, Small
  <2>4. Neat'
    <3> SUFFICES ASSUME NEW i \in 1 .. Len(text), text[i] = Space, ~(i >= pos + 1)
                 PROVE  SpaceBetween(i)
      BY <1>1, <2>2 DEF Neat, SpaceBetween
    <3> QED BY <1>1, <1>3 DEF Neat
  <2> QED BY <2>1, <2>3, <2>4 DEF TextInv, Apart
<1>4. CASE /\ pos <= Len(text) /\ text[pos] = Space
           /\ LET last == RunTo(text, {Space}, pos)
              IN  Rewrite(pos, last, OneSpace(text, pos, last))
  <2> DEFINE last == RunTo(text, {Space}, pos)
             others == OneSpace(text, pos, last)
             shift == Len(others) - (last - pos + 1)
  <2>1. Rewrite(pos, last, others)
    BY <1>4
  <2>2. /\ last \in pos .. Len(text) /\ \A j \in pos .. last : text[j] = Space
        /\ last = Len(text) \/ text[last + 1] # Space
    <3>1. pos \in 0 .. Len(text)
      BY <1>1, <1>4
    <3>2. /\ last \in pos .. Len(text) /\ \A j \in pos + 1 .. last : text[j] \in {Space}
          /\ last = Len(text) \/ text[last + 1] \notin {Space}
      BY <1>1, <3>1, RunToIs
    <3> HIDE DEF last
    <3> QED BY <1>1, <1>4, <3>2
  <2> HIDE DEF last
  <2> DEFINE none == \/ pos = 1 \/ text[pos - 1] = Break
                     \/ last < Len(text) /\ text[last + 1] \in Closing \cup {Break}
  <2>3. others = IF none THEN << >> ELSE <<Space>>
    BY DEF OneSpace
  <2> HIDE DEF others
  <2>4. /\ others \in Seq(Tokens) /\ Len(others) = IF none THEN 0 ELSE 1
        /\ \A j \in 1 .. Len(others) : others[j] = Space
    <3>1. /\ << >> \in Seq(Tokens) /\ Len(<< >>) = 0
          /\ <<Space>> \in Seq(Tokens) /\ Len(<<Space>>) = 1 /\ <<Space>>[1] = Space
      BY DEF Tokens, White
    <3>2. CASE none
      BY <2>3, <3>1, <3>2
    <3>3. CASE ~none
      <4>1. Len(others) = 1 /\ others[1] = Space /\ others \in Seq(Tokens)
        BY <2>3, <3>1, <3>3
      <4> QED BY <3>3, <4>1
    <3> QED BY <3>2, <3>3
  <2>5. pos \in 1 .. Len(text) + 1 /\ last \in pos - 1 .. Len(text) /\ pass # "trim" /\ last >= pos
    BY <1>1, <2>2
  <2>6. TextTypeOK' /\ Spliced(text, pos, last, others, text') /\ pos' = pos + Len(others)
    BY <1>1, <2>1, <2>4, <2>5, RewriteType
  <2>7. Kept'
    <3>1. \A i \in pos .. last : Named(text[i])
      BY <2>2 DEF Named, White
    <3>2. \A j \in 1 .. Len(others) : Supplied(others[j])
      BY <2>4 DEF Supplied, White
    <3> QED BY <1>1, <2>1, <2>4, <2>5, <3>1, <3>2, RewriteKept
  <2>8. Apart(text')
    <3>1. \A token \in Closing \cup {Break, Space} : token \notin Words
      BY TokenFacts
    <3>2. IF Len(others) = 0
          THEN \/ pos = 1 \/ last = Len(text)
               \/ text[pos - 1] \notin Words \/ text[last + 1] \notin Words
          ELSE others[1] \notin Words /\ others[Len(others)] \notin Words
      BY <2>4, <3>1
    <3>3. Apart(others)
      BY <2>4 DEF Apart
    <3>4. Len(others) \in Nat
      BY <2>4
    <3> QED BY <1>1, <2>5, <2>6, <3>2, <3>3, <3>4, SplicedApart
  <2>9. Clean'
    <3>1. \A j \in 1 .. Len(others) : others[j] \notin Words
      BY <2>4, TokenFacts
    <3> QED BY <1>1, <2>1, <2>4, <2>5, <3>1, RewriteClean
  <2>10. NoneJoined'
    <3>1. \/ Len(others) # 0 \/ pos = 1 \/ text[pos - 1] \in White
          \/ text[last + 1] \notin Words \cup Symbols
      <4>1. \A token \in Closing \cup {Break} : token \notin Words \cup Symbols
        BY VocabularyAssumption DEF White
      <4> QED BY <2>4, <4>1 DEF White
    <3> QED BY <1>1, <2>1, <2>4, <2>5, <3>1, RewriteJoins
  <2>11. \A i \in 1 .. Len(text) : text[i] = Space /\ i < pos => SpaceBetween(i)
    BY <1>1 DEF Neat
  <2>12. pos > 1 => text[pos - 1] # Space
    <3> SUFFICES ASSUME pos > 1, text[pos - 1] = Space PROVE FALSE
      OBVIOUS
    <3>1. pos - 1 \in 1 .. Len(text) /\ pos - 1 # Len(text) /\ (pos - 1) + 1 = pos
      BY <1>1, <1>4
    <3>2. text[(pos - 1) + 1] \notin White
      BY <1>1, <2>11, <3>1 DEF SpaceBetween
    <3> QED BY <1>4, <3>1, <3>2 DEF White
  <2>13. ASSUME NEW i \in 1 .. Len(text'), text'[i] = Space, i < pos'
         PROVE  SpaceBetween(i)'
    <3>1. /\ Len(text') = Len(text) + shift
          /\ \A k \in 1 .. Len(text') : k < pos => text'[k] = text[k]
          /\ \A k \in 1 .. Len(text') : k >= pos + Len(others) => text'[k] = text[k - shift]
      <4>1. Len(text') = Len(text) + shift /\ Len(others) \in Nat
        BY <2>4, <2>6 DEF Spliced
      <4>2. \A k \in 1 .. Len(text') : k < pos => text'[k] = text[k]
        BY <2>6 DEF Spliced
      <4>3. \A k \in 1 .. Len(text') : k >= pos + Len(others) => text'[k] = text[k - shift]
        BY <1>1, <2>6, <4>1 DEF Spliced
      <4> QED BY <4>1, <4>2, <4>3
    <3>2. CASE i < pos
      <4>1. i \in 1 .. Len(text) /\ text[i] = Space /\ SpaceBetween(i)
        BY <1>1, <2>11, <2>13, <3>1, <3>2
      <4>2. i # pos - 1
        BY <1>1, <2>12, <3>2, <4>1
      <4>3. /\ i > 1 /\ text'[i - 1] = text[i - 1] /\ text[i - 1] \notin White
            /\ text[i + 1] \notin White \cup Closing
        <5>1. i # Len(text) /\ i > 1 /\ i - 1 \in 1 .. Len(text')
          BY <1>1, <1>4, <3>2, <4>1 DEF SpaceBetween
        <5>2. text'[i - 1] = text[i - 1]
          BY <1>1, <3>1, <3>2, <4>1, <5>1
        <5> QED BY <4>1, <5>1, <5>2 DEF SpaceBetween
      <4>4. i = Len(text') \/ text'[i + 1] = text[i + 1]
        <5>1. i # Len(text') => i + 1 \in 1 .. Len(text') /\ i + 1 < pos
          <6>1. Len(text') \in Nat
            BY <2>6 DEF TextTypeOK
          <6> QED BY <1>1, <3>2, <4>2, <6>1
        <5> QED BY <3>1, <5>1
      <4> QED BY <4>3, <4>4 DEF SpaceBetween
    <3>3. CASE i >= pos
      <4>1. Len(others) = 1 /\ i = pos
        BY <1>1, <2>4, <2>6, <2>13, <3>3
      <4>2. ~none
        <5> SUFFICES ASSUME none PROVE FALSE
          OBVIOUS
        <5>1. Len(others) = 0
          BY <2>4
        <5> QED BY <4>1, <5>1
      <4>3. i > 1 /\ text'[i - 1] \notin White
        <5>1. pos > 1 /\ text[pos - 1] \notin White
          BY <1>1, <2>12, <4>2 DEF White
        <5>2. text'[pos - 1] = text[pos - 1]
          BY <1>1, <3>1, <4>1, <5>1
        <5> QED BY <4>1, <5>1, <5>2
      <4>4. i = Len(text') \/ text'[i + 1] \notin White \cup Closing
        <5> SUFFICES ASSUME i # Len(text') PROVE text'[pos + 1] \notin White \cup Closing
          BY <4>1
        <5>1. /\ pos + 1 \in 1 .. Len(text') /\ pos + 1 >= pos + Len(others)
              /\ (pos + 1) - shift = last + 1 /\ last < Len(text)
          <6>1. shift = pos - last /\ last \in Nat /\ pos \in Nat /\ pos \in 1 .. Len(text')
            BY <1>1, <2>2, <4>1
          <6>2. Len(text') = Len(text) + (pos - last) /\ pos # Len(text')
            BY <3>1, <4>1, <6>1
          <6> HIDE DEF shift
          <6> QED BY <1>1, <4>1, <6>1, <6>2
        <5>2. text'[pos + 1] = text[last + 1]
          <6> HIDE DEF shift
          <6> QED BY <3>1, <5>1
        <5>3. text[last + 1] # Space /\ text[last + 1] \notin Closing \cup {Break}
          BY <2>2, <4>2, <5>1
        <5> QED BY <5>2, <5>3 DEF White
      <4> QED BY <4>3, <4>4 DEF SpaceBetween
    <3> QED BY <1>1, <3>2, <3>3, <2>6
  <2>14. Neat'
    <3>1. pass' = pass
      BY <2>1 DEF Rewrite
    <3>2. Len(text') \in Nat /\ pos' \in Nat
      BY <2>6 DEF TextTypeOK
    <3> QED BY <1>1, <2>13, <3>1, <3>2 DEF Neat
  <2>15. Nearer
    BY <1>1, <2>1, <2>4, <2>5, RewriteNearer
  <2> QED BY <2>6, <2>7, <2>8, <2>9, <2>14, <2>15, <2>10 DEF TextInv, Apart
<1> QED BY <1>1, <1>2, <1>3, <1>4 DEF Collapse

LEMMA InitHolds ==
  ASSUME TextInit PROVE TextInv
<1>1. /\ formatting \in FormattingConfig /\ transcript \in Texts /\ text = transcript
      /\ origin = [i \in 1 .. Len(transcript) |-> i] /\ pass = "dictionary" /\ rule = 1 /\ pos = 1
  BY TranscriptAssumption, FormattingAssumption DEF TextInit
<1>2. transcript \in Seq(Tokens) /\ Len(transcript) \in Nat /\ Apart(transcript)
  BY <1>1 DEF Texts
<1>3. TextTypeOK
  <2>1. Len(Rules) \in Nat
    BY <1>1, RulesType DEF Rules
  <2>2. origin \in Seq(0 .. Len(transcript)) /\ Len(origin) = Len(text)
    BY <1>1, <1>2
  <2> QED BY <1>1, <1>2, <2>1, <2>2 DEF TextTypeOK
<1>4. Kept
  BY <1>1, <1>2 DEF Kept, InOrder, Heard, Complete
<1>5. NoneJoined
  <2>1. \A k \in 1 .. Len(text) - 1 : origin[k] = k /\ origin[k + 1] = k + 1
    BY <1>1, <1>2
  <2> QED BY <2>1 DEF NoneJoined, AsSpoken
<1> QED BY <1>1, <1>2, <1>3, <1>4, <1>5 DEF TextInv, Clean, Neat

LEMMA StepHolds ==
  ASSUME TextInv, [TextNext]_textVars PROVE TextInv' /\ (Nearer \/ UNCHANGED textVars)
<1>1. CASE Process
  BY <1>1, EraseKeeps, ReplaceKeeps, ObeyKeeps, NextRuleKeeps, EndOfRulesKeeps, CollapseKeeps,
     TrimEndKeeps, CapitalizeKeeps DEF Process
<1>2. CASE UNCHANGED textVars
  <2>1. /\ formatting' = formatting /\ transcript' = transcript /\ text' = text
        /\ origin' = origin /\ pass' = pass /\ rule' = rule /\ pos' = pos
    BY <1>2 DEF textVars
  <2>2. TextTypeOK'
    BY <2>1, SameConfiguration DEF TextInv, TextTypeOK, Rules
  <2>3. Kept'
    BY <2>1, KeptWhateverTheCase DEF TextInv, TextTypeOK
  <2>4. Clean' /\ Neat'
    BY <2>1 DEF TextInv, Clean, Neat, SpaceBetween, Small
  <2>5. NoneJoined'
    BY <2>1, SameTextJoins DEF TextInv
  <2> QED BY <1>2, <2>1, <2>2, <2>3, <2>4, <2>5 DEF TextInv, Apart
<1> QED BY <1>1, <1>2 DEF TextNext, Written

(* The inductive invariant, from the transcript to the text written.        *)
THEOREM TextInvariance == TextSpec => []TextInv
BY InitHolds, StepHolds, PTL DEF TextSpec

(* process() takes nothing from a transcript that its configuration does    *)
(* not name, adds nothing that it does not supply, joins no word to what    *)
(* it was set apart from, and leaves no filler and no space over, for every *)
(* transcript of words, marks and symbols, every dictionary, list of        *)
(* fillers and list of commands.                                            *)
THEOREM PipelineIsFaithful == TextSpec => []PipelineFaithful
<1>1. TextInv => PipelineFaithful
  <2> SUFFICES ASSUME TextInv, pass = "written" PROVE PipelineFaithful
    BY DEF PipelineFaithful
  <2>1. \A i \in 1 .. Len(text) : text[i] = Space => SpaceBetween(i)
    BY DEF TextInv, Neat
  <2>2. text # << >> => text[Len(text)] \notin White
    BY DEF TextInv, Neat
  <2>3. Len(text) \in Nat
    BY DEF TextInv, TextTypeOK
  <2>4. \A i \in 1 .. Len(text) : text[i] = Space => i < Len(text)
    <3> SUFFICES ASSUME NEW i \in 1 .. Len(text), text[i] = Space, i = Len(text) PROVE FALSE
      BY <2>3
    <3>1. text # << >>
      BY <2>3
    <3> QED BY <2>2, <3>1 DEF White
  <2>5. formatting.remove_fillers => \A i \in 1 .. Len(text) : ~FillerAt(i)
    <3>1. DOMAIN Fillers = 1 .. Len(Fillers)
      BY RuleAssumption
    <3> QED BY <3>1 DEF TextInv, Clean, FillerAt
  <2> QED BY <2>1, <2>2, <2>4, <2>5 DEF TextInv, Kept, PipelineFaithful
<1> QED BY <1>1, TextInvariance, PTL

(* No loop of process() runs forever: each step comes nearer to the end,    *)
(* whatever the dictionary writes for what it finds.                        *)
THEOREM ProcessEnds == TextSpec => ComesToAnEnd
<1>1. TextInv /\ [TextNext]_textVars => [Nearer]_textVars
  BY StepHolds
<1> QED BY <1>1, TextInvariance, PTL DEF TextSpec, ComesToAnEnd
=============================================================================
