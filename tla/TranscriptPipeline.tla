------------------------- MODULE TranscriptPipeline -------------------------
(***************************************************************************)
(* What the stages of the pipeline (transcript_pipeline.cpp) look for in a *)
(* text, and what they put in its place.                                   *)
(*                                                                         *)
(* A text is a sequence of tokens: words, spaces, line breaks, marks that  *)
(* close a clause or a sentence, and symbols, which are everything else.   *)
(* A word is a run of what is_word_char() knows, ASCII letters, digits and *)
(* hyphens, with apostrophes after the first, so a letter outside ASCII is *)
(* a symbol.  A semicolon is treated as a comma, a question mark as an     *)
(* exclamation mark, a tab as a space.  Two words without a token between  *)
(* them are one longer word, so in a text words stand apart.               *)
(***************************************************************************)
EXTENDS Naturals, Sequences

CONSTANTS
  Words,     \* every spelling of every word
  Lower,     \* to_lower() of a word
  Upper,     \* a word with a capital at its beginning
  Symbols,   \* currency signs, brackets, quotes, letters outside ASCII
  Quotes,    \* those that the first letter of a sentence may come after
  Fillers,   \* kEnglishFillers, in order
  Commands   \* what may be spoken and the line breaks it stands for, in order

Space == " "
Break == "\n"
Comma == ","
White == {Space, Break}
Delimiters == {Comma, ".", ":"}
Closing == Delimiters \cup {"!"}
Tokens == Words \cup White \cup Closing \cup Symbols

Apart(text) == \A i \in 1 .. Len(text) - 1 : text[i] \notin Words \/ text[i + 1] \notin Words

Texts == {text \in Seq(Tokens) : Apart(text)}
Phrases == Seq(Tokens) \ {<< >>}

(* What a stage searches for, in lower case, and what it writes instead.   *)
Entries == [from : Phrases, to : Texts]

FormattingConfig ==
  [dictionary : Seq(Entries), remove_fillers : BOOLEAN, spoken_commands : BOOLEAN]

ASSUME VocabularyAssumption ==
  /\ Words \cap (White \cup Closing \cup Symbols) = {}
  /\ Symbols \cap (White \cup Closing) = {} /\ Quotes \subseteq Symbols
  /\ Lower \in [Words -> Words] /\ Upper \in [Words -> Words]
  /\ \A word \in Words : Lower[Upper[word]] = Lower[word]

ASSUME RuleAssumption ==
  /\ Fillers \in Seq(Words)
  /\ Commands \in Seq([from : Phrases, to : Seq({Break}) \ {<< >>}])

Small(token) == IF token \in Words THEN Lower[token] ELSE token

(* The first letter is one with two cases, and a capital.                   *)
Capital(token) ==
  token \in Words /\ Upper[token] = token /\ Upper[Lower[token]] # Lower[token]

-----------------------------------------------------------------------------
(* find_phrase: whole words, whatever their case; 0 for npos.               *)
Hits(text, phrase, from) ==
  {i \in from .. Len(text) + 1 - Len(phrase) :
     LET end == i + Len(phrase)
     IN /\ \A k \in 1 .. Len(phrase) : Small(text[i + k - 1]) = phrase[k]
        /\ i = 1 \/ text[i - 1] \notin Words
        /\ end > Len(text) \/ text[end] \notin Words}

FindPhrase(text, phrase, from) ==
  LET hits == Hits(text, phrase, from)
  IN  IF hits = {} THEN 0 ELSE CHOOSE i \in hits : \A j \in hits : i <= j

(* Where the run of tokens in set that ends before first begins, and where  *)
(* the one that begins after last ends.                                     *)
RunFrom(text, set, first) ==
  CHOOSE i \in 1 .. first : /\ \A j \in i .. first - 1 : text[j] \in set
                            /\ i = 1 \/ text[i - 1] \notin set
RunTo(text, set, last) ==
  CHOOSE i \in last .. Len(text) : /\ \A j \in last + 1 .. i : text[j] \in set
                                   /\ i = Len(text) \/ text[i + 1] \notin set

(* Tokens first..last give way to others.                                   *)
Splice(text, first, last, others) ==
  SubSeq(text, 1, first - 1) \o others \o SubSeq(text, last + 1, Len(text))

-----------------------------------------------------------------------------
(* erase_word_hole: with the words goes a comma and the white space on both *)
(* sides; a space keeps a word apart from what precedes it, and nothing     *)
(* keeps a symbol.                                                          *)
PastComma(text, last) == IF last < Len(text) /\ text[last + 1] = Comma THEN last + 1 ELSE last

(* Defective: what follows the hole is not set apart from what precedes it. *)
PunchesHole(text, first, last) ==
  [first |-> RunFrom(text, White, first), last |-> RunTo(text, White, PastComma(text, last)),
   others |-> << >>]

EraseWordHole(text, first, last) ==
  LET begin == RunFrom(text, White, first)
      end == RunTo(text, White, PastComma(text, last))
      glued == begin > 1 /\ end < Len(text) /\ text[end + 1] \in Words
  IN  [first |-> begin, last |-> end, others |-> IF glued THEN <<Space>> ELSE << >>]

(* apply_dictionary: what is written in lower case takes over the capital   *)
(* of what was spoken.                                                      *)
Preserve(to, spoken) ==
  IF to[1] \in Words /\ Capital(spoken) THEN [to EXCEPT ![1] = Upper[to[1]]] ELSE to

(* apply_spoken_commands: a phrase is a command only when it is a clause of *)
(* its own; the break takes the place of the white space before it, also of *)
(* breaks, and of the delimiter after it.                                   *)
IsClause(text, first, last) ==
  /\ first = 1 \/ text[first - 1] \in Delimiters
  /\ last = Len(text) \/ text[last + 1] \in Delimiters \/ Capital(text[last + 1])

Clause(text, first, last) ==
  LET left == RunFrom(text, White, first)
      right == RunTo(text, White, last)
      delimited == right < Len(text) /\ text[right + 1] \in Delimiters
  IN  [first |-> left, last |-> right,
       end |-> IF delimited THEN RunTo(text, White, right + 1) ELSE right]

(* normalize: of the spaces first..last between two words one stays, at the *)
(* beginning of a line and before a mark or the end of a line none does.    *)
OneSpace(text, first, last) ==
  IF \/ first = 1 \/ text[first - 1] = Break
     \/ last < Len(text) /\ text[last + 1] \in Closing \cup {Break}
  THEN << >> ELSE <<Space>>

(* Only spaces and quotes since the beginning, a sentence's end or a break. *)
Begins(text, i) ==
  \A j \in 1 .. i - 1 :
    (\A k \in j + 1 .. i - 1 : text[k] \in {Space} \cup Quotes) =>
      text[j] \in {Space, Break, ".", "!"} \cup Quotes
=============================================================================
