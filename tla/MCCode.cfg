\* Code and memory come to an end, and the look-ups are bounded.
CHECK_DEADLOCK FALSE
CONSTANTS
  ModuleBase = 10
  ImageSize = 2
  Reach = 11
  Scratch = 7
  Granularity = 2
  MaxLen = 3
  Hooks <- MCHooks
  MaxCode = 2
  None = None
  Handles = {h1, h2, h3}
  Names = {"@@"}
  LocalNames = {".in"}
  MaxSize = 4
  Top = 100
  NearSize = 2
  ShortReach = 1
  Immediates = {0, 1}
  MaxDepth = 3
  MaxScopes = 1
  MaxAnonymous = 3
  AssignTo = {"jumped to"}
  \* Every way to hash three keys, in a table that grows.
  Keys = {k1, k2, k3}
  Hashes = {0, 1, 2, 3}
  InitialSize = 1
  NoItem = NoItem
  Free = Free
  Eol = Eol
  Raw = Raw
  Constructed = Constructed
  \* Two look-ups with a patch of the code between them.
  Base = 2
  DigitValue <- Binary
  Signatures <- MCSignatures
  Counts = {1, 2}
  Bytes = {1, 2}
  HeaderSize = 2
  SizeOfCode = 3
  SizeOfImage = 6
  Width = 2
  MaxFinds = 2
  MaxPatches = 1
  \* Blocks grow by two cells and are cut when they have more than one to spare.
  Items = {a, b, c}
  nGrow = 2
  nShrink = 1
  MaxCount = 4
  Sizes = {1, 3}
SPECIFICATION MCSpec
INVARIANTS TrampolineHolds ReferencesAreResolved AnswersAreMatches TableIsSound
PROPERTY ImplementsSequence
