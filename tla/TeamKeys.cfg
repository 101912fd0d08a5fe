CONSTANTS
  Users = {u1, u2, u3}
  Teams = {t1}
  Colls = {c1}
  NoTeam = NoTeam
  NoKey = NoKey
  NoRow = NoRow
  NoBlob = NoBlob
  MaxTvk = 3
  MaxDek = 2
SPECIFICATION Spec
SYMMETRY UserSymmetry
INVARIANT TeamKeysSound
PROPERTIES DeksSurviveRotation RotationServesUnlocked
