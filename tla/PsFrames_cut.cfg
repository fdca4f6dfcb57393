SPECIFICATION PSpec
CONSTANTS
  Scenes <- MCScenes
  MaxPayload <- MCMaxPayload
INVARIANTS FramesExact NalusExact RepackedExact
PROPERTY ReadsOn
