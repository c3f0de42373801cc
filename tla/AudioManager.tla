---------------------------- MODULE AudioManager ----------------------------
(***************************************************************************)
(* AudioManager (audio.cpp): the daemon thread starts and stops the        *)
(* capture device, whose own thread runs audio_callback() for every chunk  *)
(* of samples.  lock_ guards buffer_; stop_recording() holds it while      *)
(* ma_device_stop() waits for the callback to return, and the callback     *)
(* takes it twice.                                                         *)
(***************************************************************************)
EXTENDS Naturals, Sequences

CONSTANT MaxChunks  \* max_samples_, counted in chunks

ASSUME ChunkAssumption == MaxChunks \in Nat \ {0}

VARIABLES
  recording_,
  buffer_,    \* the chunks, each by its number since the recording began
  lock_,      \* stop_recording() holds the lock
  device,     \* the capture device runs
  callback,   \* where the device thread is in audio_callback()
  heard       \* chunks the device has delivered to this recording

audioVars == <<recording_, buffer_, lock_, device, callback, heard>>

AudioTypeOK ==
  /\ recording_ \in BOOLEAN /\ lock_ \in BOOLEAN /\ device \in BOOLEAN
  /\ buffer_ \in Seq(Nat) /\ Len(buffer_) < MaxChunks
  /\ callback \in {"out", "counting", "pushing"}
  /\ heard \in Nat

AudioInit ==
  /\ recording_ = FALSE /\ lock_ = FALSE /\ device = FALSE
  /\ buffer_ = << >>
  /\ callback = "out" /\ heard = 0

(* start_recording(): no effect on a recording in progress, or when the     *)
(* device will not open or start.                                           *)
StartRecording ==
  /\ ~lock_
  /\ \/ recording_ /\ UNCHANGED audioVars
     \/ /\ ~recording_
        /\ buffer_' = << >>
        /\ \/ device' = TRUE /\ recording_' = TRUE /\ heard' = 0
           \/ UNCHANGED <<device, recording_, heard>>
        /\ UNCHANGED <<lock_, callback>>

(* stop_recording(), up to the call of ma_device_stop().                    *)
StopRecording ==
  /\ ~lock_ /\ recording_
  /\ recording_' = FALSE /\ lock_' = TRUE
  /\ UNCHANGED <<buffer_, device, callback, heard>>

NotRecording == ~lock_ /\ ~recording_ /\ UNCHANGED audioVars

(* ma_device_stop() returns once no callback runs; the chunks are returned. *)
DeviceStopped ==
  /\ lock_ /\ callback = "out"
  /\ device' = FALSE
  /\ buffer_' = << >> /\ lock_' = FALSE
  /\ UNCHANGED <<recording_, callback, heard>>

(* audio_callback() goes on only while recording_.                          *)
EnterCallback ==
  /\ device /\ recording_ /\ callback = "out"
  /\ heard <= MaxChunks   \* bound: the chunks past the limit are all alike
  /\ callback' = "counting" /\ heard' = heard + 1
  /\ UNCHANGED <<recording_, buffer_, lock_, device>>

(* Defective: the chunk that reaches the limit is still taken.              *)
CountsOneTooMany ==
  /\ callback = "counting" /\ ~lock_
  /\ callback' = IF Len(buffer_) + 1 > MaxChunks THEN "out" ELSE "pushing"
  /\ UNCHANGED <<recording_, buffer_, lock_, device, heard>>

(* The total is taken under lock_, which is then released.                  *)
CountChunks ==
  /\ callback = "counting" /\ ~lock_
  /\ callback' = IF Len(buffer_) + 1 >= MaxChunks THEN "out" ELSE "pushing"
  /\ UNCHANGED <<recording_, buffer_, lock_, device, heard>>

(* Defective: a full buffer gives up its oldest chunk.                      *)
PushesRolling ==
  /\ callback = "pushing" /\ ~lock_
  /\ buffer_' = IF Len(buffer_) + 2 >= MaxChunks THEN Append(Tail(buffer_), heard)
                ELSE Append(buffer_, heard)
  /\ callback' = "out"
  /\ UNCHANGED <<recording_, lock_, device, heard>>

PushChunk ==
  /\ callback = "pushing" /\ ~lock_
  /\ buffer_' = Append(buffer_, heard)
  /\ callback' = "out"
  /\ UNCHANGED <<recording_, lock_, device, heard>>

DeviceThread == EnterCallback \/ CountChunks \/ PushChunk

-----------------------------------------------------------------------------
(* What is kept is the beginning of the recording without a gap, cut at     *)
(* max_samples_: the limit test and the push are two critical sections, and *)
(* chunks of an earlier recording may not leak into this one.               *)
KeepsBeginning ==
  /\ Len(buffer_) < MaxChunks
  /\ \A i \in 1..Len(buffer_) : buffer_[i] = i
=============================================================================
