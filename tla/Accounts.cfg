CONSTANTS
  Keys = {k1, k2}
  MaxRefreshes = 2
  MaxFailed = 2
  LockTicks = 2
  NoRow = NoRow
  States = {a, b, c}
  Threads = {t1, t2}
  MaxNames = 3
  Free = Free
  MaxResends = 3
  NoToken = NoToken
  Traffic = {{"password"}, {"sso"}, {"mail"}}
SPECIFICATION AccountsSpec
CHECK_DEADLOCK FALSE
INVARIANTS SessionsSound SignInsSound VerificationSound
PROPERTIES ImplementsLimit TrafficServed
