CONSTANTS
  Types <- EditorTypes
  MaxBlocks = 3
  MaxLinks = 2
  MaxLoads = 1
  Nobody = Nobody
  Flows <- MCFlows
  SubFlow <- MCSubFlow
  Rounds = 2
  MaxRuns = 2
  MaxStops = 1
  MaxEdits = 1
  MaxVisits = 8
  MaxRows = 3
  MaxRequests = 3
  MaxDrafts = 3
  NoId = NoId
  Views <- AllViews
  ToolRounds = 2
  MaxCalls = 2
  MaxChats = 3
  Turns <- MCTurns
  MaxForced = 3
  MaxActions = 2
  Pages <- TwoPages
  StoredLast = 4
  SentLast = 4
  MaxQuestions = 3
  MaxMoves = 2
SPECIFICATION InterfaceSpec
CHECK_DEADLOCK FALSE
INVARIANTS WorkflowsSound AssistantsSound
PROPERTIES WorkEnds BrokenIsNeverAnswered
