\* Chunks 4 and 5 meet the limit; an app that plays and one that the user had muted.
SPECIFICATION SpeechSpec
CONSTANTS
  MaxChunks = 4
  Apps = {app1, app2}
  Words <- MCWords
  Lower <- MCLower
  Upper <- MCUpper
  Symbols <- MCSymbols
  Quotes <- MCQuotes
  Fillers <- MCFillers
  Commands <- MCCommands
  Transcripts <- MCTranscripts
  Formattings <- MCFormattings
INVARIANTS
  TypeOK
  KeepsBeginning
  AppsAsWanted
  DeviceClosed
  PipelineFaithful
PROPERTIES
  ComesToAnEnd
