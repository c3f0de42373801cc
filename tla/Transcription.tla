--------------------------- MODULE Transcription ---------------------------
(***************************************************************************)
(* Whisper returns a transcript and process() (transcript_pipeline.cpp)    *)
(* turns it into the text to inject, in one pass after another.            *)
(***************************************************************************)
EXTENDS TranscriptPipeline

CONSTANTS
  Transcripts,  \* what transcribe() may return
  Formattings   \* the FormattingConfigs in use

ASSUME TranscriptAssumption == \A transcript \in Transcripts : transcript \in Texts
ASSUME FormattingAssumption == \A formatting \in Formattings : formatting \in FormattingConfig

VARIABLES
  formatting,  \* config_
  transcript,
  text,        \* what has become of it
  origin,      \* history: per token of the text its place in the transcript, 0 for none
  pass,        \* which of the passes is at work
  rule,        \* the dictionary entry, filler or command it is at
  pos          \* where in the text it goes on

textVars == <<formatting, transcript, text, origin, pass, rule, pos>>

TextInit ==
  /\ formatting \in Formattings /\ transcript \in Transcripts
  /\ text = transcript /\ origin = [i \in 1 .. Len(transcript) |-> i]
  /\ pass = "dictionary" /\ rule = 1 /\ pos = 1

-----------------------------------------------------------------------------
Passes == <<"dictionary", "fillers", "commands", "spaces", "trim", "capitals", "written">>

Rank(name) == CHOOSE i \in DOMAIN Passes : Passes[i] = name

(* The rules of a pass.  A filler is a word that is written as nothing.     *)
RulesOf(name) ==
  CASE name = "dictionary" -> formatting.dictionary
    [] name = "fillers" /\ formatting.remove_fillers ->
         [k \in 1 .. Len(Fillers) |-> [from |-> <<Fillers[k]>>, to |-> << >>]]
    [] name = "commands" /\ formatting.spoken_commands -> Commands
    [] OTHER -> << >>

Rules == RulesOf(pass)
Rule == Rules[rule]
Found == FindPhrase(text, Rule.from, pos)
Last == Found + Len(Rule.from) - 1

UsesRules == pass \in {"dictionary", "fillers", "commands"}
Finds == UsesRules /\ rule <= Len(Rules) /\ Found # 0

(* Tokens first..last are replaced, and the search goes on behind them.     *)
Rewrite(first, last, others) ==
  /\ text' = Splice(text, first, last, others)
  /\ origin' = Splice(origin, first, last, [k \in 1 .. Len(others) |-> 0])
  /\ pos' = first + Len(others)
  /\ UNCHANGED <<formatting, transcript, pass, rule>>

GoTo(position) ==
  pos' = position /\ UNCHANGED <<formatting, transcript, text, origin, pass, rule>>

NextPass ==
  /\ pass' = Passes[Rank(pass) + 1] /\ rule' = 1 /\ pos' = 1
  /\ UNCHANGED <<formatting, transcript, text, origin>>

-----------------------------------------------------------------------------
(* remove_fillers, and an entry of the dictionary that deletes.             *)
Erase ==
  /\ Finds /\ pass # "commands" /\ Rule.to = << >>
  /\ LET hole == EraseWordHole(text, Found, Last)
     IN  Rewrite(hole.first, hole.last, hole.others)

(* Defective: what was written is searched again.                           *)
ReplacesAgain ==
  /\ Finds /\ pass = "dictionary" /\ Rule.to # << >>
  /\ LET others == Preserve(Rule.to, text[Found])
     IN /\ text' = Splice(text, Found, Last, others)
        /\ origin' = Splice(origin, Found, Last, [k \in 1 .. Len(others) |-> 0])
  /\ pos' = Found
  /\ UNCHANGED <<formatting, transcript, pass, rule>>

Replace ==
  /\ Finds /\ pass = "dictionary" /\ Rule.to # << >>
  /\ Rewrite(Found, Last, Preserve(Rule.to, text[Found]))

Obey ==
  /\ Finds /\ pass = "commands"
  /\ LET clause == Clause(text, Found, Last)
     IN IF IsClause(text, clause.first, clause.last)
        THEN Rewrite(clause.first, clause.end, Rule.to)
        ELSE GoTo(Last + 1)

NextRule ==
  /\ UsesRules /\ rule <= Len(Rules) /\ Found = 0
  /\ rule' = rule + 1 /\ pos' = 1
  /\ UNCHANGED <<formatting, transcript, text, origin, pass>>

EndOfRules == UsesRules /\ rule > Len(Rules) /\ NextPass

Collapse ==
  /\ pass = "spaces"
  /\ \/ pos > Len(text) /\ NextPass
     \/ pos <= Len(text) /\ text[pos] # Space /\ GoTo(pos + 1)
     \/ /\ pos <= Len(text) /\ text[pos] = Space
        /\ LET last == RunTo(text, {Space}, pos)
           IN  Rewrite(pos, last, OneSpace(text, pos, last))

TrimEnd ==
  /\ pass = "trim"
  /\ IF text # << >> /\ text[Len(text)] \in White
     THEN /\ text' = SubSeq(text, 1, Len(text) - 1)
          /\ origin' = SubSeq(origin, 1, Len(text) - 1)
          /\ UNCHANGED <<formatting, transcript, pass, rule, pos>>
     ELSE NextPass

Capitalize ==
  /\ pass = "capitals"
  /\ \/ pos > Len(text) /\ NextPass
     \/ /\ pos <= Len(text) /\ pos' = pos + 1
        /\ text' = IF text[pos] \in Words /\ Begins(text, pos)
                   THEN [text EXCEPT ![pos] = Upper[text[pos]]] ELSE text
        /\ UNCHANGED <<formatting, transcript, origin, pass, rule>>

Written == pass = "written" /\ UNCHANGED textVars

Process ==
  \/ Erase \/ Replace \/ Obey \/ NextRule \/ EndOfRules
  \/ Collapse \/ TrimEnd \/ Capitalize

TextNext == Process \/ Written

TextSpec == TextInit /\ [][TextNext]_textVars

-----------------------------------------------------------------------------
(* What the configuration names: what it may take from a transcript.        *)
Deletes(name) == \E k \in DOMAIN RulesOf(name) : RulesOf(name)[k].to = << >>
Named(token) ==
  \/ token \in White
  \/ token = Comma /\ (Deletes("dictionary") \/ Deletes("fillers"))
  \/ token \in Delimiters /\ formatting.spoken_commands
  \/ \E name \in {"dictionary", "fillers", "commands"} :
       \E k \in DOMAIN RulesOf(name) :
         \E j \in DOMAIN RulesOf(name)[k].from : Small(token) = RulesOf(name)[k].from[j]

(* What it may add.                                                         *)
Supplied(token) ==
  \/ token \in White
  \/ \E k \in DOMAIN formatting.dictionary : \E j \in DOMAIN formatting.dictionary[k].to :
       Small(token) = Small(formatting.dictionary[k].to[j])

(* Every token comes from the transcript, but for its case, or from the     *)
(* configuration, in the order of the transcript, ...                       *)
InOrder ==
  \A j, k \in 1 .. Len(text) :
    j < k /\ origin[j] # 0 /\ origin[k] # 0 => origin[j] < origin[k]
Heard ==
  \A k \in 1 .. Len(text) :
    IF origin[k] = 0 THEN Supplied(text[k]) ELSE Small(text[k]) = Small(transcript[origin[k]])

(* ... and none is missing that the configuration does not name.            *)
Complete ==
  \A i \in 1 .. Len(transcript) :
    Named(transcript[i]) \/ \E k \in 1 .. Len(text) : origin[k] = i

(* ... A word or a symbol is joined to nothing that it was not joined to,   *)
(* except that a symbol comes to stand against what precedes a phrase that  *)
(* was deleted: "costs um $5" becomes "costs$5", for erase_word_hole() sets *)
(* apart only what is_word_char() knows.  Its comment promises a space      *)
(* whenever "a word would otherwise butt against the previous character",   *)
(* and a word may begin with a quote or with a letter outside ASCII.        *)
Joined(k) == text[k] \notin White /\ text[k + 1] \in Words \cup Symbols
AsSpoken(k) ==
  origin[k] # 0 /\ origin[k + 1] # 0 => origin[k + 1] = origin[k] + 1
NoneJoined ==
  \A k \in 1 .. Len(text) - 1 :
    Joined(k) => \/ AsSpoken(k)
                 \/ text[k + 1] \in Symbols /\ (Deletes("dictionary") \/ Deletes("fillers"))

FillerAt(i) == \E f \in DOMAIN Fillers : Small(text[i]) = Fillers[f]

(* A space stands between two words of a line, or after a mark.             *)
SpaceBetween(i) ==
  /\ i > 1 /\ text[i - 1] \notin White
  /\ i = Len(text) \/ text[i + 1] \notin White \cup Closing

(* process() takes nothing from a transcript that its configuration does    *)
(* not name and puts nothing in that it does not supply, whatever the       *)
(* passes do to each other's work: what is left stands in its order, words  *)
(* apart as they were spoken, no filler stays and no space is left over.    *)
PipelineFaithful ==
  pass = "written" =>
    /\ InOrder /\ Heard /\ Complete
    /\ Apart(text) /\ NoneJoined
    /\ formatting.remove_fillers => \A i \in 1 .. Len(text) : ~FillerAt(i)
    /\ \A i \in 1 .. Len(text) : text[i] = Space => i < Len(text) /\ SpaceBetween(i)
    /\ text # << >> => text[Len(text)] \notin White

(* Every step of process() comes nearer to its end, for no rule is applied  *)
(* to what it has written (the loops around find_phrase()): the passes come *)
(* in order, in each the rules, and for each rule the text that lies ahead  *)
(* grows shorter.                                                           *)
Ahead == Len(text) + 1 - pos
Nearer ==
  \/ Rank(pass') > Rank(pass)
  \/ pass' = pass /\ rule' > rule /\ rule' <= Len(Rules) + 1
  \/ pass' = pass /\ rule' = rule /\ Ahead' < Ahead /\ Ahead' >= 0

ComesToAnEnd == [][Nearer]_textVars
=============================================================================
