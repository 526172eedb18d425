SPECIFICATION Spec
CONSTANTS
  Paths = {"p"}
  Nowhere = "nowhere"
  Frames = {main, ad, widget}
  Prompts = {q}
  Call = 2
  PageBurst = 4
  PageRefill = 2
  FrameBurst = 2
  FrameRefill = 1
  ReplyBurst = 0
  ReplyRefill = 0
  MaxInFlight = 1
  WriteBurst = 2
  WriteRefill = 2
  MaxHandles = 2
  MaxChunks = 2
  MaxSize = 1
  MaxStaged = 1
SYMMETRY FrameSymmetry
INVARIANTS
  SavedIsWhole
  FrameShare
CHECK_DEADLOCK FALSE
