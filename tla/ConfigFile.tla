----------------------------- MODULE ConfigFile -----------------------------
(***************************************************************************)
(* config.toml (config.cpp): what loading makes of it, what may be saved,  *)
(* and how it is written, which is in place: opening truncates the file,   *)
(* and the text follows when the stream is closed.                         *)
(*                                                                         *)
(* A configuration is its hotkeys and one number.  The number stands for   *)
(* every checked field: it may be good, out of range or of a wrong type.   *)
(* The clock of the file's mtime is coarse: two writes in one tick have    *)
(* one mtime.                                                              *)
(***************************************************************************)
CONSTANTS
  Hotkeys,
  Defaults,  \* the hotkeys of a configuration that names none
  Cleared,   \* the same with an empty list of cancel combos
  Empty,     \* what is left by opening the file for writing
  Broken     \* what is left of two texts written over each other

VARIABLES
  file,    \* a configuration, Empty, or Broken
  ticked,  \* the clock has moved since the file's mtime
  unseen   \* the mtime is not the one the daemon has noted

fileVars == <<file, ticked, unseen>>

ASSUME ConfigAssumption == {Defaults, Cleared} \subseteq Hotkeys /\ Empty # Broken

Numbers == {"good", "out_of_range", "mistyped"}
Configs == [hotkeys : Hotkeys, number : Numbers]

ASSUME ContentAssumption == Empty \notin Configs /\ Broken \notin Configs

FileTypeOK ==
  /\ file \in Configs \cup {Empty, Broken}
  /\ ticked \in BOOLEAN /\ unseen \in BOOLEAN

FileInit ==
  /\ file \in {c \in Configs : c.number = "good"}
  /\ ticked = TRUE /\ unseen = TRUE

(* validate_all() wants every field in its range or among its names;        *)
(* json_to_config(), before it, wants each to be of its type.               *)
InRange(config) == config.number # "out_of_range"
WellTyped(config) == config.number # "mistyped"

(* Config::load(): an absent or mistyped field is its default, so that an   *)
(* empty file is all defaults; a field out of range and a text that does    *)
(* not parse are errors.  An empty list is its default as well, although    *)
(* an empty list of cancel combos can be saved.                             *)
Loads(content) == content # Broken /\ (content # Empty => InRange(content))

Loaded(content) ==
  [hotkeys |-> IF content = Empty \/ content.hotkeys = Cleared THEN Defaults ELSE content.hotkeys,
   number |-> "good"]

(* Defective: the ranges are left to the next load.                         *)
ChecksTypesOnly(config) == WellTyped(config)

(* validate_json(), whose second half save() repeats.                       *)
Valid(config) == WellTyped(config) /\ InRange(config)

(* Every write sets the mtime to the present tick.                          *)
Touch ==
  /\ unseen' = (unseen \/ ticked)
  /\ ticked' = FALSE

(* std::ofstream opens the file.                                            *)
OpenTruncating == file' = Empty /\ Touch

(* It is closed.  When another writer has been there since this one opened  *)
(* the file, the end of the other's text may stay behind the new one.       *)
WriteOut(config) ==
  /\ \/ file' = config
     \/ file # Empty /\ file' = Broken
  /\ Touch

Tick == ~ticked /\ ticked' = TRUE /\ UNCHANGED <<file, unseen>>
=============================================================================
