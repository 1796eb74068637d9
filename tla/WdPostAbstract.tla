---------------------------- MODULE WdPostAbstract ----------------------------
(***************************************************************************)
(* What the WindowPoSt scheduler promises, without heads, workers, bids or *)
(* the runtime (spec.md 1, 4.4, 8.1, 8.5): partition identities are        *)
(* queued, a queued identity is proved at most once, and an identity is    *)
(* retired for good (deleted after success or a stale reap, or given up).  *)
(* A proof is never written for an identity that has been retired, and     *)
(* nothing leaves the queue except by retiring. WdPostTask implements it   *)
(* under the mapping in WdPostTask.Abs. With AtMostOnce FALSE a pending    *)
(* identity may be proved again (at-least-once delivery of the proof, the *)
(* promise that survives a worker crash); the rest is unchanged.           *)
(***************************************************************************)
EXTENDS Sequences, SequencesExt

CONSTANTS
  Ids,          \* partition identities (sp_id, period start, deadline, partition)
  AtMostOnce    \* whether a pending identity is proved at most once

VARIABLES
  queued,   \* identities that have had a task row
  proved,   \* wdpost_proofs, as the identities proved, in order
  retired   \* identities whose task has finished for good

absVars == <<queued, proved, retired>>

Init ==
  /\ queued = {}
  /\ proved = <<>>
  /\ retired = {}

\* the watcher proposes identities; known ones are kept as they are
Queue(S) ==
  /\ queued' = queued \cup S
  /\ UNCHANGED <<proved, retired>>

\* a proof of a queued identity that is still pending
Prove(id) ==
  /\ id \in queued \ retired
  /\ AtMostOnce => id \notin ToSet(proved)
  /\ proved' = Append(proved, id)
  /\ UNCHANGED <<queued, retired>>

Retire(id) ==
  /\ id \in queued \ retired
  /\ retired' = retired \cup {id}
  /\ UNCHANGED <<queued, proved>>

Next ==
  \/ \E S \in SUBSET Ids : S # {} /\ Queue(S)
  \/ \E id \in Ids : Prove(id) \/ Retire(id)

Spec == Init /\ [][Next]_absVars
=============================================================================
