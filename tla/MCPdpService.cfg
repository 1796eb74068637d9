\* PDP service: three concurrent requests of any kind, one proof set, one root
\* id, one stored piece, up to two subroots, two failing store or chain calls.
CONSTANTS
  r1 = r1
  r2 = r2
  r3 = r3
  ps1 = ps1
  rt1 = rt1
  p1 = p1
  Reqs = {r1, r2, r3}
  ProofSetIds = {ps1}
  RootIds = {rt1}
  Pieces = {p1}
  NoPiece = NoPiece
  Bad = Bad
  MaxSubroots = 2
  MaxFaults = 2
SPECIFICATION Spec
SYMMETRY MCSymmetry
INVARIANT TypeOK TrackedIffCreated
CHECK_DEADLOCK FALSE
