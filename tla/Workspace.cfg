CONSTANTS
  NoConn = NoConn
  NoEntry = NoEntry
  None = None
  Handlers = {h1, h2, h3}
  Careful = {h1, h2}
  Statements = 2
  MaxIdle = 1
  Readers = {r1, r2}
  Writers = {w1, w2}
  Acting = {{w1, w2}, {w1}}
  Ttl = 2
  Flight = 1
  MaxTime = 4
  Members = {u1, u2}
  Follows = {u1}
  MaxFolders = 3
  MaxRequests = 1
  MaxDeletions = 1
  Parts = {"pool", "cache", "tree"}
SPECIFICATION WorkspaceSpec
CHECK_DEADLOCK FALSE
INVARIANTS PoolSound ReadsSound TreeSound
PROPERTIES HandlersEnd DeletionKeepsToItself
