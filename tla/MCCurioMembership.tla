------------------------- MODULE MCCurioMembership -------------------------
(* Instantiates CurioMembership for TLC: the constants come from the .cfg files. *)
EXTENDS CurioMembership, TLC

CONSTANTS admin, a1, f1, f2, u1

\* deployed in mid-2025; jumps of a minute, of a 36-minute gap and of 65536 days
MCInitTime == 560 * Day
MCJumps == {1, 36, UInt16 * Day}
=============================================================================
