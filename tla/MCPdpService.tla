---------------------------- MODULE MCPdpService ----------------------------
(* Instantiates PdpService for TLC: the constants come from the .cfg files. *)
EXTENDS PdpService, TLC

CONSTANTS r1, r2, r3, ps1, rt1, p1

MCSymmetry == Permutations(Reqs)
=============================================================================
