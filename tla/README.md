# AutoWhisper in TLA+

AutoWhisper is a native dictation program: hold a hotkey, speak, let go, and the
transcript is typed into the focused window. This directory holds TLA+ models of
its core, the TLC configurations that check them and TLAPS proofs about them.
File and line references are to the repository; `src/...` is its C++ source.

## 1. The system

| Component | State it keeps | Operations | Talks to |
|---|---|---|---|
| Hotkey matching `src/hotkey/hotkey_common.cpp` | cached modifiers, `trigger_pressed_`, `active_trigger_`, parsed combos, all under `mutex_` | the four stroke handlers, `set_config`, `reset_input_state` | calls the daemon's callback under `mutex_` |
| Hotkey listeners `src/hotkey/platform/*` | listener thread, X connections / event tap / hook | `start`, `stop`, the platform callback | reports strokes to the matcher |
| Daemon `src/daemon/*` | atomic `state_`, `event_queue_` under `queue_mutex_`, `shutdown_requested_`, `config_` | `process_events`, `handle_start/stop/cancel`, `on_hotkey_event`, `request_shutdown`, `maybe_reload_config`, `cleanup` | drives every other component from one thread |
| Audio capture `src/audio/*` | `recording_`, `buffer_` under `lock_`, the miniaudio device | `start_recording`, `stop_recording`, `audio_callback`, `trim_silence` | device thread |
| Muting `src/pulseaudio/*` | `mute_timer`, `mute_timer_active`, `muted_inputs` | `mute_other_apps`, `unmute_other_apps`, `do_mute`, `cleanup` | PulseAudio server; a timer thread |
| Tray `src/tray/*` | shown state, GTK thread and loop | `start`, `stop`, `set_state`, the menu items | Quit calls `request_shutdown` |
| Companion avatar `src/avatar/*` | requested state, `AvatarStateMachine`, window thread | `set_state`, `tick`, the click | a click queues START or STOP |
| Configuration `src/config/*` | `config.toml`, schema | `load`, `save`, `validate_all` | polled by the daemon, written by the settings server |
| Output `src/output/*` | `last_outcome_` | `inject` with clipboard fallbacks | subprocess helper, platform APIs |
| Transcript pipeline `src/pipeline/*` | none | `process` | between inference and output |
| Inference and runtime `src/inference/*`, `src/runtime/*` | the loaded model | `load`, `transcribe` | whisper.cpp |
| Local service `src/protocol/*`, `integrations/fabric` | one request at a time; on the client the child process and its reply queue | stdio requests, client retry and restart | parent application |
| Settings UI `src/settings/*`, `src/cli/cli_settings_ui.cpp` | sidecar file under `flock`, HTTP server | single-instance hand-over, `GET/PUT /api/config` | writes `config.toml` |
| Models `src/models/*` | model files in the cache | `download_model`, `is_model_downloaded` | curl/wget |
| Subprocess `src/util/subprocess.cpp` | pipes, child | `run_command`, deadlines | output, tray, daemon |
| Feedback `src/feedback/*` | playback lock | tones in detached threads | playback device |

Five threads meet in the daemon process: the daemon thread (event loop and all
handlers), the hotkey listener, the avatar's window thread, the tray's GTK thread,
and the capture device's thread; the mute timer adds a short-lived one, and signals
interrupt any of them. What is hard follows from that: `state_` is read in one place
and stored in another while `request_shutdown()` stores to it from the tray; two
mutexes are taken in nested order from two sides; the configuration is exchanged
under a held chord; the device callback needs the lock its stopper holds; a boolean
decides who joins the mute timer.

What makes each component correct:

* hotkeys: what is cached agrees with the keyboard; events alternate as those of a
  switch; letting go ends the press; a new configuration inherits no old press;
* daemon: the documented cycle IDLE, RECORDING, PROCESSING, IDLE; quiet when idle; no
  open microphone that the tray does not show; nothing left behind at exit; shutdown
  and processing end;
* the two together: recording exactly while the trigger is pressed, no deadlock;
* audio: the beginning of the recording without a gap, cut at the limit; device closed
  after; stopping ends;
* muting: every app sounds as its user chose once the recording is over; muting never
  ends the program;
* listener and tray: `stop()` returns, whatever the X server or the menu does; a listener
  that was given up is never heard again;
* local service: a transcript is the caller's own; one fault of the child goes unnoticed;
  no child and no temporary recording stays behind; calls come back;
* settings: one settings server a configuration file; what the page saves loads again and
  comes into force; a second instance is sent to a server that is there;
* output: the text arrives once, the outcome tells what happened, nothing is left of a
  tool, and a tool that hangs delays a dictation only until its deadline;
* avatar: beside an idle daemon the companion comes to rest;
* pipeline: no word is lost, joined or reordered that the configuration does not name.

## 2. Modules

| Module | Models | Kind |
|---|---|---|
| `Trigger` | what the daemon relies on from the hotkeys: a two-position switch | abstract specification |
| `HotkeyManager` | `hotkey_common.cpp`, and the keyboard that the platform listeners report | component |
| `HotkeyManagerProofs` | theorems about `HotkeyManager` | proofs |
| `DictationCycle` | the daemon's cycle of `engineering/architecture.md` with the microphone | abstract specification |
| `Daemon` | `daemon.cpp`: queue, loop, handlers, shutdown, cleanup | component |
| `DaemonProofs` | theorems about `Daemon` | proofs |
| `PushToTalk` | `HotkeyManager` and `Daemon` composed along the callback and `set_config()` | composition |
| `PushToTalkProofs` | theorems about `PushToTalk` | proofs |
| `AudioManager` | `audio.cpp`: recording, lock, device thread | component |
| `PulseAudioManager` | `pulseaudio.cpp`: timer thread, mute flags in the sound server | component |
| `Recording` | both of them driven in the order of the handlers of `daemon.cpp` | composition |
| `HotkeyListener` | `hotkey_x11.cpp`: listener thread, callback, bounded `stop()`, on an X server that may hang | component |
| `HotkeyListenerProofs` | theorems about `HotkeyListener` | proofs |
| `TrayManager` | `tray_gtk.cpp`: GTK thread, Quit item, `stop()`, around `Daemon` | composition |
| `StdioServer` | the child `autowhisper serve --stdio`: `local_protocol.cpp`, `autowhisper_runtime.cpp` | component |
| `LocalServiceClient` | `LocalServiceClient` of `protocol.py`: start, request, retry, stop | component |
| `LocalService` | `AutoWhisperProvider` of `provider.py` on the two above | composition |
| `LocalServiceProofs` | theorems about `LocalService` | proofs |
| `SettingsSidecar` | `cli_settings_ui.cpp`: lock, publication and hand-over of the settings server | component |
| `ConfigFile` | `config.cpp`: what loads, what may be saved, how it is written, and its mtime | component |
| `LiveSettings` | both with the HTTP handlers, `config set` and the daemon's polling | composition |
| `LiveSettingsProofs` | theorems about `LiveSettings` | proofs |
| `Subprocess` | `subprocess.cpp`: pipes, poll loop, deadline, the child | component |
| `OutputManager` | `output_common.cpp`, `output_x11.cpp`: `inject()` with its fallbacks, over `Subprocess` | component |
| `AvatarTicker` | `avatar_core.cpp`: requests, tick, latches | component |
| `Dictation` | what reaches the window and the clipboard in a dictation, and what is reported of it | abstract specification |
| `Delivery` | the handlers of `daemon.cpp` around `OutputManager` and `AvatarTicker` | composition |
| `DeliveryProofs` | theorems about `Delivery` | proofs |
| `TranscriptPipeline` | what `transcript_pipeline.cpp` looks for in a text and what it writes instead | operators |
| `Transcription` | `process()`, one replacement after another | component |
| `SpeechProofs` | theorems about `Recording` and `Transcription` | proofs |
| `MCHotkeyManager`, `MCPushToTalk` | keyboards and configurations for TLC | model-checking modules |
| `MCSpeech` | `Recording` and `Transcription` side by side, with vocabulary and transcripts for TLC | model-checking module |

Operators whose comment begins with "Defective:" are not part of any specification.
Each stands before the definition it resembles and changes it as a plausible bug
would; with it in that definition's place TLC finds one of the properties violated,
which shows that the property depends on the code.

### HotkeyManager

One action per handler, since every handler runs under `mutex_`. `held` is the physical
keyboard: two keys may carry one name (`keycode_to_modifier` in `hotkey_x11.cpp` folds
left and right), a press of a held key is auto-repeat, and strokes go on while the
listener is stopped, when the handlers return at once. `sent` is the event the last step
passed to `callback_`. Combos are sequences of tokens; `Parse` is `KeyCombo::parse`, which
throws (`NoCombo`) for an empty combo or a token that is no modifier before the last
one. The constructor rejects a configuration with such a combo (`WellFormed`);
`set_config()` drops it. No configuration has an empty list of cancel combos, because
loading one gives the default (`get_string_array` in `config.cpp`). Aliases ("control", "escape") are taken as already normalised,
and key names as canonical. `ResetInputState` is called by the macOS tap callback; the
strokes that went unseen are the arbitrary change of `held`.

### Daemon

The daemon thread walks along `pc`; every load or store of `state_`, every acquisition
of `queue_mutex_` and every call to a device is a step of its own, so that the other
threads come between. `queue_mutex_` is a flag because the other holders take and give it
up inside one step. `wait_for` is `Block` and `Wake`: `Wake` needs a notification or the
100 ms, and a notification to a daemon that is not blocked is lost. A click on the
avatar is two steps (`Click` reads `state_`, `QueueClick` queues), a quit three
(`StoreShutdown`, `FlagShutdown`, `NotifyShutdown`), a signal one. The avatar and the tray
run from the end of `initialize()`, the hotkey listener from `run()`; `cleanup()` stops the
listener first, and clicks and quits may still begin while it does. A device
that does not open, a recording that is too short, an empty transcript, an exception
and a failed injection are alternatives of their steps. `apps` and `mic` are what the
daemon last asked of the mute and audio managers, whose threads are in `Recording`.
On GTK the Quit item goes on to stop its own tray after `request_shutdown()`; this module
ends the tray's part there, which is all the other platforms' trays do, and `TrayManager`
models the rest.

The branch of `handle_stop()` for audio that is empty after trimming is not an action:
`trim_silence()` returns silent audio whole, and a recording that passed the test of its
duration is not empty.

### PushToTalk

A stroke that sends an event is two steps: the handler (which from then on holds
`mutex_`: `calling`) and `on_hotkey_event()`. `Reconfigure` is the reload step of the daemon
thread together with `set_config()`, which waits for `mutex_`. `disturbed` is a history
variable: it remembers, until both sides rest in agreement, that something happened
which is known to part trigger and recording (a full queue, a configuration saved or an
event stream interrupted in mid-press, a click on the companion). Shutdown is left out,
it is checked in `Daemon`.

### AudioManager, PulseAudioManager, Recording

A chunk is its number since the recording began; the device delivers chunks of one
size, so `max_samples_` is counted in chunks. The callback has two critical sections,
counting and pushing. miniaudio is not part of the repository: `ma_device_stop()` is
modelled from its use, as a call that returns when no callback runs, which is also what
the code relies on when it frees the buffer after it. The sound server is the mute flag
of each app (`muted`) beside what the user chose (`wanted`); the user toggles apps that
are not muted on their behalf at the time. `Recording` takes the mute setting as on
(it is off by default) and the managers as initialised. `aborted` stands for
`std::terminate`.

Nothing of a recording but its sound reaches the text, and whisper.cpp in between may make
any transcript of it. `MCSpeech` therefore puts `Recording` and `Transcription` side by side
for one run of TLC: a behaviour is one of the sound or one of the text (`medium`), and the
other rests at its beginning.

### HotkeyListener

`HotkeyManager` takes `start()` and `stop()` as single steps; this module is what is inside
them on X11. `impls[i]` is the i-th `Impl`: its thread, `x_mutex`, the two connections, the
record context, the back pointer to the manager (FALSE when null), and the server's side of
it (`enabled`: the stream runs; `nudged`: a request to end it is on the control connection,
not yet served). The thread walks from `XOpenDisplay` to its exit; a step that waits for
the server needs `~hung`, and each may fail as the code handles it. `nudge_record_shutdown()`
is two steps, so that the lock is what keeps the thread from closing the connection in
between. The 500 ms try-lock is the absence of a wait: `stop()` nudges when the lock is
free and otherwise only lets time pass. `Expire` is the 5 s bound; it needs a server that
hangs, which states the timing assumption that a nudged listener on a live server exits
within 5 s. `record_callback()` is three steps, as it tests `manager` and `running_`, may ask
the server for the keyboard map, and reads `manager` again; `crashed` records a call through
the null pointer. `matched` stands for the match state, by the listeners whose strokes it
stems from. Left out: the IO error handler (a connection that dies), `signal_stop()`, which
nothing calls, and a second `start()` without `stop()`, which nothing does.

### TrayManager

`Daemon` with the GTK thread beside it. The thread builds the menu, sets `gtk_loop`
(`MakeLoop`), then runs the loop; a `g_main_loop_quit()` before that is lost. The Quit item is
the three steps of `request_shutdown()` and then `stop()` on the GTK thread itself
(`JoinItself`). `cleanup()`'s `tray_->stop()` is `StopTray` and `JoinTray`.

### StdioServer, LocalServiceClient, LocalService

`call[t]` is thread t's way through `provider.py` and `protocol.py`: the provider's lock, the
choice of the client for its model, the conversion, two attempts, and the end. Each wait
and each point at which a lock is taken or given up is a step. `responses[k]` is the stdout
of client k's child together with the reading thread and the queue it fills, so that the
end of a child and the reader's word for it are one step. A child loads its model, then
answers line by line; it may die between any two steps (`Die`), and a child that never
answers is one that takes no step. Ids are compared by `Valid`; `FreshId` is an id that
nothing in flight carries. A line longer than 1 MiB is answered with the null id, which
matches no request: that input ("huge") is the exception in `OneFaultSurvived`. `fault` remembers
whether the current attempt met a fault of the child. `SIGKILL` is taken to work.

A request is written to a pipe that has no time limit (`protocol.py:347`); the one of
`_request_locked()` covers the wait for the answer only. An ordinary line fits into the pipe
and is written at once (`Write`). A line that does not is a step of waiting ("writing"), which
ends when the child has read it, or enough of it (`Written`, `Drained`), or has died. With a
child that hangs it never ends and its locks stay taken: that is the exception of
`CallsReturn`. The run shows that calls come back, also from a child that hangs, as long as the
lines fit into the pipe.

What the model shows on the way, without a run of its own: a text that is no UTF-8 ends the
service, because `dump()` throws outside every handler; a child that is stopped after a
failure gets no polite request and is waited for a whole timeout before SIGTERM; and a
thread may wait for a lock as long as others keep taking it, so `CallsReturn` starts where
the lock is held. Left out: `capabilities()`, which nothing in the integration calls, and
the field-by-field checks of a request, whose outcomes are one with the other answers.

### SettingsSidecar, ConfigFile, LiveSettings

An instance of `config ui` goes from `Open` to the lock, or waits for it and looks at the
sidecar; with the lock it truncates, binds and publishes. `End` closes the descriptor, and
with it the lock, and leaves the contents as `Stale`. `Exit` is an end by itself, for which
the server has waited for its handlers; `Crash` takes them along. A configuration is its
hotkeys and one number, which stands for every checked field ("good", out of range,
mistyped). `save()` is two steps, `OpenFile` (which truncates) and `CloseFile` (which may fail
without anybody noticing); between them anybody may read. Two texts written over each
other may leave `Broken`. The mtime is `unseen` (not the one the daemon noted) and `ticked` (the
clock has moved since): two writes in one tick look like one. The daemon notes an mtime
(`Poll`), loads (`Load`) and applies (`Apply`); `behind` remembers a change under an mtime it
had already noted, `spoiled` that the file was left to writers that do not check.

A list in the file that is empty loads as its default (`get_string_array`, `config.cpp:75`).
An empty list of triggers cannot be saved (`config.cpp:341`), an empty list of cancel combos can:
`Cleared` stands for hotkeys that have one, and `Loaded` makes the default of them. A page that
clears the list therefore finds "esc" back after the next load; what `SavedIsLive` says comes
into force is what loading reads.

What the code does and no document speaks of: between truncation and text the file is empty,
and an empty file loads as all defaults, so a daemon that reads it then takes the default
hotkeys until it sees the next mtime (for good if the text follows in the same tick);
`save()` does not test its stream, so a full disk leaves a truncated file and an answer 204;
the first mtime is the baseline, so a save between `Config::load()` and the first tick is
never applied; `config set` accepts a value out of range, after which neither the daemon, nor
`config set`, nor `GET /api/config` can load the file; two saves at a time may leave a file
that does not parse. These last two, the crash and the full disk are what `UiKeepsFileLoadable`
excepts (`spoiled`), so it says that validation stands before every save and nothing about a
save being atomic, which it is not. A `PUT` replaces the whole
configuration: nothing compares it with what has been saved since the page was loaded.

The hand-over is documented otherwise than it works. The design document has the loser always
read a real port (`LoserReadsRealPort`, refuted by the run `hand_over`); the code leaves three
gaps, which `OnlyThreeGaps` names: the URL of a former holder before `ftruncate()`, the URL of a
server that is ending, and a lock released between the failed try and the reading.

### Subprocess, OutputManager, AvatarTicker, Delivery

`Subprocess` has one child at a time. `stdin` counts chunks written and read; `output` is
stdout and stderr together, which are treated alike; `held` says that something the child
left in the background keeps the other end. The poll loop is `WriteInput`, `OutputEnds`, `Reap`
and `Pumped`, `TimeOut` is the deadline. `OutputManager` decides by `pc` which command runs and
where its return goes; the tools (`Finds`, `Owns`, `TypesPart`, `Presses`) act on `window` and
`clipboard`, and may do so and still fail, hang, or be killed. `inject_xtest()` passes over
characters that have no key, and nobody reads the results of its X calls (`output_x11.cpp:122`
to `150`): once it has a display and a focused window it reports success, whether all of the
text is in the window, some of it or none (`Blind`), and Return follows. `AvatarTicker` has the request, which the
latest one overwrites, the tick, and the two latches; `Effective` is what is drawn.
`Delivery` drives all of them in the order of `handle_start()`, `handle_stop()` and `handle_cancel()`; the
events and the other threads are in `Daemon`.

`Dictation` is what `Delivery` promises, and `IsDictation` that it does so. It has no tools, no
commands and no companion: only the phase the user is in, the configuration, what the window
shows, whether Return was pressed, whether the clipboard is still the user's own, and the
report. Window and clipboard change in the phase "delivering" alone, which under the mapping
(`Phase`) begins with `inject()` and ends with its outcome; the text is pasted only with all of
it on the clipboard; the clipboard is spared unless `also_copy_to_clipboard` or the method asks
for it, or typing failed. `Shown` maps the window: a text whose typing came to an end half-way
(`mistyped`) is "slipped", the only text that may be followed by a paste; that a slip shows at
the return of the tool and not when it types is why the abstract one types first and slips
later. After XTest the window is "typed" or "missed": the report of an injection is true of
what was attempted, and the text may be missing without anybody knowing. That is the one thing
in which `Dictation` does not promise a true report. The restart of a daemon that ended in mid-delivery (`StartAgain`) is the abstract `Crash`.

What the modules show on the way: a tool that exits before it has read its input raises
SIGPIPE in the daemon, which ignores it nowhere although the write loop has a branch for
the error (`killed`; the service unit restarts on failure, which SIGPIPE is not); a tool that
typed part of the text and failed is followed by a paste of the whole text (`mistyped`); a tool
that finishes at its deadline is reported failed; a Writing request followed by another
within one tick of 33 ms is never shown, Error is always followed by Idle a few lines
later, and the latch shows "writing" after a delivery that failed; after a recording shorter than
`MIN_DURATION` (`daemon.cpp:249`) the companion stays Thinking (`hurried`), while
`design/avatar-companion.md` line 38 gives "Idle" for "daemon idle". Not in the model: the
pipes are inherited by whatever another thread starts at the time (one child at a time
here), the clipboard may change during `paste_delay`, and the exit of a child and the
closing of its files are one step.

### TranscriptPipeline, Transcription

A text is a sequence of tokens: words, spaces, line breaks, closing marks, and symbols, which
are everything else: opening quotes and brackets, currency signs, and every letter outside
ASCII, which `is_word_char` takes for the end of a word. Two words without a token between them
are one longer word, which is what `Apart` rules out. Words and their upper and lower case, the
symbols, the quotes among them, the fillers, the commands, the dictionary and the transcript
are constants. `TranscriptPipeline` holds the helpers (`FindPhrase`, `EraseWordHole`, `Preserve`, `Clause`,
`OneSpace` and `Begins` are the searches and replacements of the functions of
`transcript_pipeline.cpp`), and `Transcription` the loops around them: `pass`, `rule` and `pos` say
which stage is at work, which of its entries it applies and from where `find_phrase()` goes on.
Each turn of a loop is a step: `Erase` (`remove_fillers`, and an entry of the dictionary that
deletes), `Replace` (`apply_dictionary`), `Obey` (`apply_spoken_commands`), `Collapse`, `TrimEnd` and
`Capitalize` (`normalize`, in place instead of into a second string). A pass that the
configuration turns off has no rules, and a language whose fillers are unknown is
`remove_fillers` off.

`origin` is a history variable: where each token of the text stood in the transcript, or that
it was added. `PipelineFaithful` states with it what the user is promised of the text written:
its tokens come from the transcript, in order and but for their case, or from the
configuration; of the transcript nothing is missing that the configuration does not name; no
word is joined to what it was not joined to, no filler stays and no space is left over. Of
symbols the code does not keep as much (`NoneJoined`): where a filler or a phrase of the
dictionary is deleted before one, it comes to stand against what precedes the hole, so that
"costs um $5" is written "costs$5". `ComesToAnEnd` says of every
step that it comes nearer to the end: the dictionary may write what it looks for (`a => a a`),
and what ends the loop is only that the search goes on behind it. Along the way: line breaks
of commands in a row collapse ("new paragraph, new line" gives one break), because the white
space before a command is taken with it, and removing a filler may make a spoken command of
what stands around it. Not in the model: tabs, a semicolon apart from a comma and a question
mark apart from an exclamation mark, and the capital of a word that begins with an apostrophe
or a digit.

## 3. Runs

| Run | Module, configuration | Bounds | Shows |
|---|---|---|---|
| `hotkey` | `MCHotkeyManager` | 3 modifier keys under 2 names, 2 other keys, 4 configurations | passes: `CachedModifiersAreHeld`, `ChordHoldsTrigger`, `PressIsOfCurrentConfig`, refinement `IsSwitch` |
| `daemon` | `Daemon`, `MCDaemon.cfg` | queue of 2 | passes: `TypeOK`, `IdleIsQuiet`, `OpenMicIsShown`, `NothingRefused`, `CleanExit`, refinement `FollowsCycle`, liveness `ShutdownCompletes`, `ProcessingEnds` |
| `push_to_talk` | `MCPushToTalk` | 1 modifier, 1 key, 2 configurations, queue of 2 | passes: `RecordsWhilePressed`, `LockOrder` |
| `speech` | `MCSpeech` | limit of 4 chunks, 2 apps; up to 3 phrases of 7, each with 3 marks, 3 formattings | passes: `TypeOK`, `KeepsBeginning`, `AppsAsWanted`, `DeviceClosed`, `PipelineFaithful`, action property `ComesToAnEnd` |
| `recording_stuck` | `MCRecordingStuck.cfg` | limit of 2 chunks, 1 app | violates `StopEnds` |
| `mute_aborts` | `MCMuteAborts.cfg` | the same | violates `NeverAborts` |
| `hotkey_listener` | `HotkeyListener`, `MCHotkeyListener.cfg` | 3 Impls, 2 hangs of the server | passes: `NudgeIsOnOpenDisplay`, `MatchStateIsCurrent`, `StoppedIsClosed`, liveness `StopReturns` |
| `tray_quit` | `TrayManager`, `MCTrayQuit.cfg` | queue of 1 | violates `QuitCompletes` |
| `local_service` | `LocalService`, `MCLocalService.cfg` | 2 threads, 2 clients, 2 models, 2 inputs | passes: `TypeOK`, `OwnTranscript`, `OneFaultSurvived`, `NoOrphan`, `RecordingRemoved`, liveness `CallsReturn` |
| `live_settings` | `LiveSettings`, `MCLiveSettings.cfg` | 2 instances, 1 handler, `config set`, 3 hotkeys | passes: `UnderLock`, `UiKeepsFileLoadable`, action property `OnlyThreeGaps`, liveness `SavedIsLive` |
| `hand_over` | `LiveSettings`, `MCHandOver.cfg` | the same | violates `LoserReadsRealPort` |
| `delivery` | `Delivery`, `MCDelivery.cfg` | input of 2 chunks, pipe of 1 | passes: `TypeOK`, `NothingLeft`, `OutcomeTrue`, refinement `IsDictation`, liveness `DeliveryEnds`, `CompanionRests` |

Why the bounds are enough:

* The matcher looks at sets of modifier names and at one key. Two keys with one name and
  one with another show every way cache and keyboard can differ; the four configurations
  cover modifier-only and key chords, both modes, several triggers, escape on and off, and
  combos that do not parse.
* `on_hotkey_event()` tests for 100. The queue is read from one end and written at the
  other, and with 2 it is empty, partly filled and full, with drops, at every `pc`. The
  safety properties are proved for every capacity.
* Chunks up to one past the limit meet every comparison of `audio_callback()`: `heard`
  stops there (the bound in `EnterCallback`), as later chunks are all refused alike.
  Recordings follow each other without bound. The properties are proved for every limit.
* One app that plays and one its user had muted are the two cases of `was_muted`; the
  run takes all four initial settings of the two. They are proved for any set of apps.
* Abandoning a listener takes one hang, so with two hangs and three Impls two abandoned
  threads run on beside the live one. An Impl is reused without bound while `stop()` joins
  its thread. The last Impl is never started, so that `stop()` always finds a next one
  (`Start`). The safety properties are proved for any number of both.
* Two threads with two models are enough for every conflict over a client: one uses it,
  the other wants it for the same model, for another one, or closes it. A client object is
  used again once nobody refers to it, so two suffice for a stale one and its successor.
  The safety properties are proved for any number of threads, clients, models and inputs.
* Two instances are one with the lock and one without; each may end and start again
  without bound. One handler and `config set` are two writers at a time; the safety
  properties are proved for any number of both. Two hotkeys tell
  the file from the daemon, and the third is the cleared list that loads as the default.
* An input of two chunks through a pipe of one chunk makes the writer wait, lets the tool die
  before, between and after the chunks, and lets the deadline fall on each of these.
  Dictations follow each other without bound. The safety properties are proved for every
  length of the text and every capacity of a pipe.
* Three phrases put every one of them between two others, with and without punctuation:
  a rule of the pipeline looks at most at the neighbours of a phrase. Two of them begin with
  an opening quote and one with a symbol that is none. Both properties are proved for every transcript, vocabulary and configuration.

`TrayManager` runs with deadlock checking off because the program really stops: when a signal
comes before the GTK loop exists, `cleanup()` finds nothing to quit and then joins a thread
whose loop nobody ends.

In `speech` the sound may rest at any time, because the program ends, aborts, or, as
`recording_stuck` shows, stops in `stop_recording()`; the text may rest only when it is
written (`Written`), so that a pass which gets stuck is a deadlock TLC reports. In the other
passing runs the end of the program is a stuttering step (`Ended`, `Failed`), so a deadlock
would be reported.

### Disagreements found

1. `recording_stuck`: `stop_recording()` calls `ma_device_stop()` under `lock_`
   (`audio.cpp:159`); a callback past its test of `recording_` waits for that lock. The
   cycle of `engineering/architecture.md` line 81 never gets from PROCESSING to IDLE.
2. `mute_aborts`: the mute timer clears `mute_timer_active` when it ends, and only a set flag
   makes anybody join it (`pulseaudio.cpp:173`, `199`, `228`). The next recording assigns to a
   joinable `std::thread`, or the destructor destroys one: `std::terminate`. Only with
   `mute_other_apps = true` and a PulseAudio server.
3. `tray_quit`: on GTK the Quit item joins the thread it runs on (`tray_gtk.cpp:185`, `207`).
   `join()` throws, and the program ends in `std::terminate` with `cleanup()` unfinished.
   `docs/hotkey-resume-deadlock.md` describes that exception for an earlier version and calls
   it resolved.
4. `hand_over`: a second instance of the settings UI may open a URL without a server
   (`cli_settings_ui.cpp:194`). `docs/plans/2026-04-19-settings-ui-cpp-rewrite-design.md` says "The
   loser never sees a bogus port" (line 83) and "the loser always reads a real port or times
   out" (line 194). TLC's trace meets a server that has stopped listening and not yet given
   up the lock; what a former holder published, read before the next one truncates it, is
   another.

The others come from reading the modules and have no run. Every injection through XTest is
reported INJECTED, also when no character of the text had a key, where `output.h` line 30 says
"Direct synthesized-input typing succeeded". `erase_word_hole()` keeps a symbol or a word that
begins with a quote or a letter outside ASCII apart from nothing, where its comment
(`transcript_pipeline.cpp:48` to `51`) promises a space when "a word would otherwise butt against
the previous character". In push-to-talk mode a chord with a
key (Ctrl+Alt+Space, the default on Windows) must be released key first: if a modifier goes
first, `on_key_release()` no longer matches the combo (`hotkey_common.cpp:255`) and the daemon keeps
recording, where README.md line 33 says "hold Shift+Super (Ctrl+Alt+Space on Windows), speak,
release"; and a modifier-only trigger in toggle mode cannot be toggled off
(`hotkey_common.cpp:193`). A recording that is too short leaves the companion Thinking, as said
under `Delivery`.

`AppsAsWanted` is stated for behaviours that have not aborted, which includes every first
recording and every recording that ended before its timer fired.

## 4. Fairness

`Daemon!Fairness` is weak fairness of the daemon thread (a thread that can run does; devices,
model and output tools return, the last under the timeouts of the subprocess helper), of a
click already begun and of a quit already begun. Users and signals owe nothing, and no
scheduling order between threads is assumed. `ShutdownCompletes` needs the 100 ms timeout
of `wait_for`: a signal notifies nobody. `Recording!FairSpec` is weak fairness of the daemon
thread inside a handler, and of the device and timer threads together; between handlers a
recording may last as long as its user likes. `HotkeyListener!Fairness` is strong for each
listener thread, which only matters where it waits for `x_mutex`: `stop()` sleeps 50 ms
without the lock after each nudge, so a waiting thread gets it. The server serves each
connection while it answers and need not recover; without the retry of the nudge, or with
a nudge that waits for the lock without bound, `StopReturns` fails.

`LocalService!FairSpec` is weak fairness of each thread of the provider: it runs, and its
timeouts expire. A child owes nothing (it may hang for good) and a lock is fair to nobody.
`LiveSettings!FairSpec` is weak fairness of the daemon's four polling steps, which
`process_events()` takes at least every 100 ms; writers and instances owe nothing. `SavedIsLive`
therefore says that hotkeys which stay in the file come into force, not that a save happens.
`Delivery!FairSpec` is weak fairness of the daemon thread once it has a recording (between
recordings it owes nothing), of the caller's poll loop, of the tools, of the avatar's tick and
of its latches. Tools may hang instead (`Hangs` has no fairness), and the deadline is only
promised when one does: that `DeliveryEnds` holds so is what shows that a process left on the
pipes does not cost the timeout.

## 5. Proofs

`tlapm` checks every theorem; no fact is assumed beyond the named assumptions on constants
(`KeyboardAssumption`, `ConfigAssumption`, `NoComboAssumption`, `QueueAssumption`,
`ImplsAssumption`, `HangsAssumption`, `ChunkAssumption`, `PipeAssumption`; of the settings
`SidecarAssumption`, `ConfigAssumption`, `ContentAssumption`, `WritersAssumption`; of the local
service `ModelAssumption`, `ThreadAssumption`, `ClientAssumption`; of the pipeline
`VocabularyAssumption`, `RuleAssumption`, `TranscriptAssumption`, `FormattingAssumption`), which TLC
evaluates for the instances it checks. A limit or a capacity is a positive number; the assumptions on settings
and on the local service say no more than that special values are none of the ordinary ones
(and that the default hotkeys and those with a cleared list are hotkeys); those on the pipeline say that a word is no mark and no symbol,
that lower case forgets a capital, that a phrase to be found is not empty and that a command
stands for at least one line break.

**HotkeyManagerProofs**, for every keyboard, naming of modifiers and set of configurations:
`TypeCorrect`, `CacheIsSound`, `ChordIsHeld`, `PressIsCurrent`, and `ImplementsSwitch` (the
refinement of `Trigger`). The inductive invariant is the conjunction of the four
properties and `StoppedIsClear`: a stopped listener has an empty cache. Without it the
cache would be unsound at once, because keys are released unseen while the listener is
stopped, and so would the chord of a press in progress. The lemmas `ParseType`, `FirstHit`,
`TriggerCombosType` and `TriggerFound` say what the matcher returns: a configured combo whose
modifiers are exactly the pressed ones; `PressHolds` and `ReleaseHolds` say how the names of
the held keys change with a stroke, two keys with one name included.

**DaemonProofs**, for every capacity of the queue: `TypeCorrect`, `IdleQuiet`, `MicShown`,
`NeverRefuses`, `ExitsClean`, and `ImplementsCycle` (the refinement of `DictationCycle`). None of
these properties is inductive: each speaks of a moment between events, and what holds
then is the result of a handler's last steps. The strengthening `IInv` says it per
label: `Progress` ties `state_`, tray, microphone and muted apps to `pc` as long as no
shutdown was asked for; `Teardown` says what `cleanup()` has already released at each of its
steps, whatever `state_` holds by then; `Busy` says that during shutdown too the daemon
dispatches no event while it processes. There is one lemma per party (queue, click,
quit and signal, main loop, handlers, cleanup), and the frame lemmas `QueueTypes` and
`HandlerTypes` keep the typing argument out of them.

**HotkeyListenerProofs**, for any number of Impls and of hangs: `TypeCorrect`, `NudgeSafe`,
`OnlyCurrentIsHeard`, `StopCloses`. The invariant speaks of every Impl: `LockOK` (the lock is
the thread's at three places, or the nudge's), `OpenOK` (what is open at each place) and
`OwnerOK` (an Impl before `impl_` has no manager, one after it has no thread), and of the caller
(`CallerOK`). `OneImplStep` is the frame lemma: a step of one thread keeps the invariant when
what it makes of its own Impl is sound, and `GotoStep` its special case for steps that only
move on. Without `OwnerOK` the property about abandoned threads could not be proved, because
nothing else rules out that a callback belongs to a thread left behind.

**LiveSettingsProofs**, for any number of instances, handler threads and hotkeys: `TypeCorrect`,
`SavesUnderLock`, `OneServerAtATime`, `SavedFileLoads`, `StaleUrlOnlyInGaps`. The inductive
invariant is the types with `LockOK` and `ContentOK`. `LockOK` adds to `UnderLock` what the sidecar
holds while the holder of the lock is between truncation and the end of the server; without
it nothing says that a URL which was read is the holder's own. `ContentOK` adds to
`UiKeepsFileLoadable` that an unspoiled file has one writer at most and is empty exactly while that
one has it open, and that what a handler is about to write was validated; without the
first part a second text could fall into the first.

**PushToTalkProofs**, for every keyboard, set of configurations and capacity of the queue:
`RecordsPressed`, `LocksInOrder`, `ImplementsDaemon`, `ImplementsHotkeys`, `DaemonKeepsPromises`
and `HotkeysKeepPromises`. `RecordsWhilePressed`
compares the trigger with a daemon at rest, and between the two lies a queue of any length.
What makes it inductive is `Bound`: what the daemon will be doing once it has handled
everything. It is decided by the last event (the one a handler is about to queue, else the
last in the queue, else the one in hand, else where the daemon thread is), because START
leaves a daemon recording and STOP and CANCEL leave it idle whatever came before;
`StrokeSends` says that a handler's event and the new value of `trigger_pressed_` fit together.
`LockOrder` follows from `DaemonOK`, which ties `queue_mutex_` to the two places where the
loop holds it. The two refinements map the composition's variables to those of `Daemon` and
`HotkeyManager` by name: composing them has given neither side a behaviour it did not have.
`DaemonKeepsPromises` and `HotkeysKeepPromises` draw the conclusion and restate the theorems of
DaemonProofs and HotkeyManagerProofs of the composition, under its own assumptions
(`CleanExit` apart, as shutdown is left out here). The proof modules are instantiated for that
(`DP`, `HP`), and `SameDaemon` and `SameHotkeys` say that what they bring are the same specifications.

**SpeechProofs**, of `Recording` for every limit of the buffer and set of apps: `TypeCorrect`,
`BeginningKept`, `AppsRestored`, `DeviceIsClosed`. The invariant says at each place of the daemon
thread who may touch what: `DeviceOK` when the device runs and who holds `lock_`; `ChunksOK`
that the buffer lacks just the chunk of a callback between its two critical sections, or
those past the limit (without it a test made in one section says nothing of the push in the
other); `AppsOK` that `muted_inputs` is all it takes to give each app back what its user
chose; `TimerOK` that a timer on its way is marked active, except while it is being joined.
`AppsOK` alone does not give `AppsAsWanted`: it takes `TimerOK` to know that no timer mutes after
the list has been worked off.

Of `Transcription`, for every transcript, vocabulary, dictionary and list of fillers and
commands: `PipelineIsFaithful` and `ProcessEnds`. Induction over the length of a text is out of
the prover's reach, so the loops are steps and the induction is that of the invariant
`TextInv`. It says how far each pass has come. `Kept` accounts for every token (in order, heard or
supplied, none missing that is not named) between any two replacements; `Clean` says which
fillers may still be in the text, and where; `Neat` which spaces. `Clean` needs `Apart`: only
because words stand apart is a filler in the text always a place that `find_phrase()` finds
(`FillersAreFound`), and only because nothing is erased without `Space` between what it joins
does `Apart` survive (`SplicedApart`). `NoneJoined` does so by `RewriteJoins`: what comes to stand
against a token that was there before is what followed it, or is set apart, or is a symbol
behind a phrase that was deleted. The lemmas `RewriteType`, `RewriteKept`, `RewriteClean` and
`RewriteNearer` say once what any replacement of tokens by others does to each part; there is
one lemma per action (`...Keeps`). That a search finds the first place, and that a run of white
space has an end, are facts about the least member of a set of numbers (`LeastNumber`, from
the well-foundedness of `<`), which stands in for the induction over data that is not to be
had. The invariant was checked on the bounds of `speech` before it was proved.

**LocalServiceProofs**, for any number of threads, clients, models and inputs: `TypeCorrect`,
`OwnTranscripts`, `SurvivesOneFault`, `NoOrphans`, `RecordingsRemoved`. The properties speak of one
call, and what could spoil them is another. `Ownership` is what keeps callers apart: no two
threads refer to one client, because a thread has either the provider's lock or has taken the
client out of the provider to close it. So the state of a client, its child and the lines
between them is told by where its only user is (`Used`) or is that of rest (`AtRest`).
`Used` says when the client's lock is held, that at most one line is on its way, that a line
in the queue answers the request in hand, and that an attempt which fails has met a fault;
`AtRest` that a client given back has no unread line, without which the next call could be
told what the last one asked. `OwnStep` and `ChildStep` are the frame lemmas: a step inside
one call, or of one child, leaves every other client as it was; `ProviderMove` is the one for
steps that move the provider's client.

**DeliveryProofs**, for every length of the text and capacity of a pipe: `TypeCorrect`,
`NothingIsLeft`, `OutcomesTrue`, `IsDeliveredOnce`, and `ImplementsDictation` (the refinement of
`Dictation`, of which `IsDeliveredOnce` states one consequence in terms of the window itself).
The invariant has two halves. `ToolsOK` is about
the call of a tool: what is open and who lives at each step, and (`InputOK`) that the input is
closed only when all of it has been written, which is why a tool that takes the selection at
the end of its input takes all of the text. `Texts` tells from where `inject()` is, and from
whether the tool has done its work (`Worked`), what can be in the window and on the clipboard;
a return code of 0 is turned into an outcome only because `Worked` survives from the child's
work over its exit to the return of the call. `Steady` is the frame lemma between the halves:
reading, exiting, hanging, reaping and the deadline change neither text nor `Worked` for the
better. Before it was proved, this invariant was checked on the bounds of the run `delivery`.
The refinement needs `Wished` besides: which configuration leads to each place of `inject()`,
that the clipboard is untouched until a copy or a failed injection, and that an attempt which
slipped has left something in the window. What XTest typed is any of `Blind` throughout: the
theorems say of an injection through it that the text was sent once, and not that it arrived. `View` and `ViewNext` evaluate the mapping from
the invariant before and after a step, `NotSeen` covers the steps of tools and companion that
the user does not see, and one lemma per action (`...Seen`) names the abstract step it is;
`EveryStepFits` puts them together.

Only model-checked: the liveness properties, since fairness and ENABLED are outside the
prover's reach (`ShutdownCompletes`, `ProcessingEnds`, `StopReturns`, `CallsReturn`, `SavedIsLive`,
`DeliveryEnds`, `CompanionRests`). Every other property of a passing run is a theorem. That the
variant of `ComesToAnEnd` never decreases without end is not stated: it is a triple of numbers
in lexicographic order, of which the first two are bounded above.

## 6. Plan

The lifetime of the feedback threads is what is left.

## 7. Not modelled, and why

* What whisper.cpp, miniaudio and the sound server compute: external; only what the code
  relies on at the call.
* The rasteriser, the settings page, layout, wording and logs: no state that other parts
  read.
* `doctor`, `capabilities`, the word-error-rate tool, service units and most of the command line
  (not `config set` and `serve`): straight-line input and output.
* The download of models: one process in the foreground runs one command; that a partial
  file stands under the final name after a crash is listed among the hazards.
* Finding the configuration file, tokens and the Host check of the settings server, the
  macOS and Windows ways of output, `run_passthrough()`: no state that other parts read, or
  the same control over other calls.
* `trim_silence()` and the peak meter: arithmetic on samples.
* SHA-256: a published algorithm.
* Tones: no component waits for them. The lifetime of their detached threads is listed
  among the hazards in `PROJECT.json`.
* The iOS application, the site and the packaging share no code with the daemon.
* macOS moves the daemon loop to a worker thread and takes signals from a dispatch
  source; `Daemon` follows the Linux arrangement.
