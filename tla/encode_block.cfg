CONSTANTS
  MinMatch = 3
  SearchTail = 5
  Window = 9
  OptimalML = 4
  ExactLL = 1
  ExactM = 1
  ExactPairs <- MCExactPairs
  Base = 5
  HashRead = 4
  HashBytes = 4
  Buckets = {0, 1, 2, 3}
  Hash <- MCHash
  Unset = unset
  SkipStrength = 1
  MidSkip = 1
  LazyEnough = 6
  NextBelow = 5
  Attempts = 8
  OptWindow = 6
  MaxCand = 3
  Cut = 10
  BtMaxLen = 5
  Sufficient = 7
  SkipLen = 4
  SubLen = 4
  MtabCols = 2
  NearDist = 3
  Scale = 8
  PSeq = 4
  PEsc = 8
  PShort = 4
  Inf = 1000000
  Length = 14
  LongLength = 22
  Inputs <- MCInputs
  Levels = {"fast", "mid", "lazy", "chain", "opt"}
SPECIFICATION EncodeSpec
INVARIANTS RoundTrip ReadsInside PriceIsSize MatchesTrue
PROPERTIES EmitsRepeats FindsLongest SearchesForward SearchImplements Termination
