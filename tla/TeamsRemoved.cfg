CONSTANTS
  Users = {u1, u2, u3}
  Teams = {t1}
  Colls = {}
  NoTeam = NoTeam
  NoKey = NoKey
  NoRow = NoRow
  NoBlob = NoBlob
  NoRequest = NoRequest
  Idle = Idle
  MaxTvk = 1
  MaxDek = 0
SPECIFICATION TeamsSpec
SYMMETRY UserSymmetry
PROPERTY RemovedCannotDecrypt
