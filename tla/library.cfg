SPECIFICATION Spec
\* A screen of two panels and two labels.
CONSTANTS
  BorderWidth = 1
  Root = "screen"
  Panels = {"p", "q"}
  Leaves = {"a", "b"}
  Id <- SomeIds
  Axis <- SomeAxes
  Starts <- SomeStarts
  Widths = {4}
  Spaces = {1}
  Sides = {1, 3}
  Aligns = {"Streatch"}
  Points <- SomePoints
  Nobody = "nobody"
  MaxChanges = 3
\* A box of three characters with a placeholder of one, and seven keys.
CONSTANTS
  Char = {"x", "y"}
  Nul = "0"
  Hint <- SomeHint
  MaxLength = 3
  LabelWidth = 2
  MaxKeys = 7
CONSTANTS
  Value = {"x", "y"}
  Moved = "moved"
  Capacities = {1, 2, 3}
  Limits = {0, 1, 2}
  MaxQueued = 2
CONSTANTS
  Thread = {"t", "u"}
  Kind = {"manual", "token", "guarded"}
  MaxConnections = 2
  MaxCalls = 2
\* Two byte buffers.
CONSTANTS
  Byte = {"a", "b"}
  NullByte = "0"
  Garbage = "garbage"
  Word = 16
  Buffers = {"x", "y"}
  Values <- SomeValues
  Sizes = {1, 3}
  MaxOps = 4
\* Collectors of two threads.
CONSTANTS
  Tid = {"t", "u"}
  MaxCollectors <- FourAndTwo
  MaxReading = 1
  MaxCollects = 1
\* Grids of up to six cells, and a screen of four columns.
CONSTANTS
  Cell = {"x"}
  Blank = "blank"
  Shapes <- SomeShapes
  Pads = {0, 1}
  MaxSize = 6
  Columns = 4
  Narrow = {"a", "b"}
  Wide = {"W"}
  Zero = {"z"}
  NoChar = "0"
  Space = "space"
  Strings <- SomeStrings
  Half = "half"
\* A program with up to three arguments, and two command lines.
CONSTANTS
  Names = {"n", "m", "k"}
  Texts <- SomeTexts
  Numbers <- SomeNumbers
  Unset <- NoWord
  MaxArguments = 3
  MaxParses = 2
INVARIANTS RepackReachesRoot FramesFit HitIsShown EditsTheText RingIsDeque ReadsWhatWasWritten FlushShowsTheBuffer SlotsFollowConnections GetsWhatWasGiven GivesBack EndsWell ReportsTheCall
CHECK_DEADLOCK FALSE
