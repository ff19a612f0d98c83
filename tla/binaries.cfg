SPECIFICATION Spec
CONSTANTS
  CannotOpen = CannotOpen
  Files <- Binaries
  Assembly <- Samples
INVARIANTS
  LoadsWhatWasAssembled
  ListingShowsBinary
  StatusTellsTheTruth
  KnownWordsAreEncodings
