------------------------------ MODULE MCSpeech ------------------------------
(***************************************************************************)
(* What becomes of speech: the sound that is recorded (Recording.tla) and  *)
(* the text that is written (Transcription.tla), side by side, with the    *)
(* vocabulary, the transcripts and the formattings of the speech run.      *)
(* Whisper is between them, and what it makes of a recording may be any    *)
(* transcript, so a behaviour is one of the sound or one of the text while *)
(* the other rests at its beginning.                                       *)
(***************************************************************************)
EXTENDS Recording, Transcription

VARIABLE medium

speechVars == <<vars, textVars, medium>>

SilentInit == Init /\ \A app \in Apps : ~wanted[app]
EmptyInit ==
  /\ transcript = << >> /\ formatting = CHOOSE f \in Formattings : TRUE
  /\ TextInit

SpeechInit ==
  \/ medium = "sound" /\ Init /\ EmptyInit
  \/ medium = "text" /\ SilentInit /\ TextInit

(* A daemon thread inside stop_recording() may wait forever (see            *)
(* MCRecordingStuck.cfg), so the sound may rest at any time.  The text may  *)
(* only when it is written: one that got stuck would be a deadlock.         *)
Sound == medium = "sound" /\ (Next \/ UNCHANGED vars) /\ UNCHANGED <<textVars, medium>>
Text == medium = "text" /\ TextNext /\ UNCHANGED <<vars, medium>>

SpeechNext == Sound \/ Text

SpeechSpec == SpeechInit /\ [][SpeechNext]_speechVars

-----------------------------------------------------------------------------

Capitals == [word |-> "Word", teh |-> "Teh", the |-> "The", um |-> "Um",
             new |-> "New", line |-> "Line", paragraph |-> "Paragraph"]

MCWords == DOMAIN Capitals \cup {Capitals[w] : w \in DOMAIN Capitals}
MCUpper == [w \in MCWords |-> IF w \in DOMAIN Capitals THEN Capitals[w] ELSE w]
MCLower ==
  [w \in MCWords |-> IF w \in DOMAIN Capitals THEN w
                     ELSE CHOOSE v \in DOMAIN Capitals : Capitals[v] = w]

MCSymbols == {"$", "quote"}
MCQuotes == {"quote"}

MCFillers == <<"um">>
MCCommands == << [from |-> <<"new", " ", "paragraph">>, to |-> <<"\n", "\n">>],
                 [from |-> <<"new", " ", "line">>, to |-> <<"\n">>] >>

(* What was said: each of these with nothing or a mark after it, and a      *)
(* space between one and the next.                                          *)
Said == {<<"word">>, <<"quote", "Teh">>, <<"um">>, <<"quote", "um">>, <<"$", "line">>,
         <<"new", " ", "line">>, <<"new", " ", "paragraph">>}
After == {<< >>, <<",">>, <<".">>, <<"!">>}
Pieces == {said \o mark : said \in Said, mark \in After}

MCTranscripts ==
  {<< >>} \cup Pieces
          \cup {a \o <<" ">> \o b : a, b \in Pieces}
          \cup {a \o <<" ">> \o b \o <<" ">> \o c : a, b, c \in Pieces}

MCFormattings ==
  {[dictionary |-> << [from |-> <<"teh">>, to |-> <<"the">>],
                      [from |-> <<"word", " ", "new">>, to |-> <<"teh", " ", "new">>] >>,
    remove_fillers |-> TRUE, spoken_commands |-> TRUE],
   [dictionary |-> << [from |-> <<"teh">>, to |-> << >>] >>,
    remove_fillers |-> TRUE, spoken_commands |-> FALSE],
   [dictionary |-> << >>, remove_fillers |-> FALSE, spoken_commands |-> TRUE]}
=============================================================================
