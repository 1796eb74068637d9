\* CurioMembership: an admin and one other sender, two receivers, one UUID, two
\* signed rates, three blocks of 1, 36 minutes or 65536 days, two payments.
CONSTANTS
  admin = admin
  a1 = a1
  f1 = f1
  f2 = f2
  u1 = u1
  Admin = admin
  Accounts = {a1}
  Receivers = {f1, f2}
  Zero = Zero
  Uuids = {u1}
  Rates = {1, 2}
  InitRate = 1
  InitTime <- MCInitTime
  Jumps <- MCJumps
  AdminLevels = {0, 1, 2, 255}
  MaxBlocks = 3
  MaxSigned = 2
  MaxPays = 2
SPECIFICATION Spec
INVARIANT TypeOK
CHECK_DEADLOCK FALSE
