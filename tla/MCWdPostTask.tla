---------------------------- MODULE MCWdPostTask ----------------------------
(***************************************************************************)
(* Instances of WdPostTask for TLC: two miners, two workers, a proving     *)
(* period of two deadlines of two epochs (WPoStProvingPeriod = 4) and a    *)
(* challenge lookback of one epoch, so that a chain of a few epochs        *)
(* crosses deadlines and elapses a whole period.                           *)
(***************************************************************************)
EXTENDS WdPostTask, TLC

CONSTANTS m1, m2

\* both miners proving from epoch 1
MCFirstPeriodLive == [m \in Miners |-> 1]
\* m2 starts proving two epochs after m1
MCFirstPeriodLate == [m \in Miners |-> IF m = m1 THEN 1 ELSE 3]
\* m1: one partition per deadline; m2: one in deadline 0, none in 1
MCNPart == [m \in Miners |-> IF m = m1 THEN [d \in 0..D-1 |-> 1]
                                      ELSE [d \in 0..D-1 |-> IF d = 0 THEN 1 ELSE 0]]

MCSymmetry == Permutations(Workers)
=============================================================================
