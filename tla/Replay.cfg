SPECIFICATION FairSessionSpec
CONSTANTS
  Stamps <- MCStamps
  NoSeek = NoSeek
INVARIANTS PositionFollows
PROPERTIES RequestsServed
