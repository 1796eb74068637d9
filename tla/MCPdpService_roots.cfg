\* Two concurrent requests, no failing calls, a missing piece: the add loop stops
\* after a stored subroot, and adds and deletes of one root id interleave.

CONSTANTS
  r1 = r1
  r2 = r2
  r3 = r3
  ps1 = ps1
  rt1 = rt1
  p1 = p1
  Reqs = {r1, r2}
  ProofSetIds = {ps1}
  RootIds = {rt1}
  Pieces = {p1}
  NoPiece = NoPiece
  Bad = Bad
  MaxSubroots = 2
  MaxFaults = 0
SPECIFICATION Spec
INVARIANT RootWhole
SYMMETRY MCSymmetry
CHECK_DEADLOCK FALSE
