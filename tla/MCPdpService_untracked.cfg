\* One create request and up to two failing calls: the insert that records the sent
\* transaction can fail after SenderETH.Send succeeded.

CONSTANTS
  r1 = r1
  r2 = r2
  r3 = r3
  ps1 = ps1
  rt1 = rt1
  p1 = p1
  Reqs = {r1}
  ProofSetIds = {ps1}
  RootIds = {rt1}
  Pieces = {p1}
  NoPiece = NoPiece
  Bad = Bad
  MaxSubroots = 2
  MaxFaults = 2
SPECIFICATION Spec
INVARIANT CreatedTracked
SYMMETRY MCSymmetry
CHECK_DEADLOCK FALSE
