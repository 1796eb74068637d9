\* CurioMembership, two signed rates a minute apart, submitted in the opposite order.
\* Otherwise as MCCurioMembership.cfg.
CONSTANTS
  admin = admin
  a1 = a1
  f1 = f1
  f2 = f2
  u1 = u1
  Admin = admin
  Accounts = {a1}
  Receivers = {f1, f2}
  Zero = Zero
  Uuids = {u1}
  Rates = {1, 2}
  InitRate = 1
  InitTime <- MCInitTime
  Jumps <- MCJumps
  AdminLevels = {0, 1, 2, 255}
  MaxBlocks = 3
  MaxSigned = 2
  MaxPays = 2
SPECIFICATION Spec
PROPERTY RateNeverOlder
CHECK_DEADLOCK FALSE
