----------------------------- MODULE PdpService -----------------------------
(***************************************************************************)
(* The PDP HTTP service (src/pdp/handlers.go): concurrent requests that    *)
(* create a proof set (build and send an Ethereum transaction, then record *)
(* it in message_waits_eth and pdp_proofset_creates in one database        *)
(* transaction), add a root subroot by subroot, delete a root and delete a *)
(* proof set. The stores are the handlers' interfaces (ProofSetStore,      *)
(* PieceStore); their implementations are not in the repository, so a     *)
(* store call does what its name says or fails.                            *)
(*                                                                         *)
(* A request is one goroutine of net/http; it keeps the handler's program  *)
(* point, its inputs and its response code. Strings (CIDs, hashes,         *)
(* addresses, labels) are abstracted to model values.                      *)
(***************************************************************************)
EXTENDS Integers, Sequences, FiniteSets

CONSTANTS
  Reqs,          \* concurrent HTTP requests
  ProofSetIds,   \* proof set ids a request may name
  RootIds,       \* root ids a request may name
  Pieces,        \* piece CIDs the PieceStore holds
  NoPiece,       \* a piece CID the PieceStore does not hold
  Bad,           \* a path parameter strconv.ParseInt rejects
  MaxSubroots,   \* bound: subroots in one add request
  MaxFaults      \* bound: failing store, database or chain calls

VARIABLES
  req,        \* request -> [kind, pc, code, ps, root, subs, i]
  sent,       \* requests whose createProofSet transaction was sent
  msgWaits,   \* message_waits_eth rows (by the request that sent the tx)
  creates,    \* pdp_proofset_creates rows (same key)
  proofSets,  \* proof sets in the ProofSetStore
  roots,      \* ProofSetStore roots: [ps, root, k (subroot position), by]
  faults      \* failed calls so far (bounded)

vars == <<req, sent, msgWaits, creates, proofSets, roots, faults>>

Kinds == {"create", "addRoot", "delRoot", "delSet", "ping", "getSet", "getRoot"}

\* request bodies: up to n subroots, each naming a piece
SubSeqsOf(S, n) == UNION {[1..k -> S] : k \in 0..n}

Fresh == [kind |-> "none", pc |-> "new", code |-> 0, ps |-> Bad, root |-> Bad,
          subs |-> <<>>, i |-> 1]

Fault == faults' = faults + 1
CanFail == faults < MaxFaults

Respond(r, c) == req' = [req EXCEPT ![r].pc = "done", ![r].code = c]

ASSUME /\ NoPiece \notin Pieces
       /\ Bad \notin ProofSetIds \cup RootIds
       /\ MaxSubroots >= 1 /\ MaxFaults \in Nat

(***************************************************************************)
(* The store interfaces ProofSetStore and PieceStore. Their               *)
(* implementations are not in the repository: a call does what its name  *)
(* says (its failure is a fault of the calling action).                    *)
(***************************************************************************)
\* PDPProofSetRoot: one row per subroot; SubrootOffset is the position k
RootRow(ps, rt, k, by) == [ps |-> ps, root |-> rt, k |-> k, by |-> by]

HasPiece(s) == s \in Pieces
StoreGetProofSet(ps) == ps \in proofSets
AddProofSetRoot(row) == roots' = roots \cup {row}
DeleteProofSetRoot(ps, rt) == roots' = {x \in roots : x.ps # ps \/ x.root # rt}
StoreDeleteProofSet(ps) ==
  /\ proofSets' = proofSets \ {ps}
  /\ roots' = {x \in roots : x.ps # ps}

(***************************************************************************)
(* A client sends a request: its route and its inputs.                     *)
(***************************************************************************)
Arrive(r) ==
  /\ req[r].pc = "new"
  /\ \E k \in Kinds, ps \in ProofSetIds \cup {Bad}, rt \in RootIds \cup {Bad},
        subs \in SubSeqsOf(Pieces \cup {NoPiece}, MaxSubroots) :
       /\ k \in {"create", "delSet", "ping", "getSet"} => rt = Bad /\ subs = <<>>
       /\ k \in {"create", "ping"} => ps = Bad
       /\ k \in {"delRoot", "getRoot"} => subs = <<>>
       /\ k = "addRoot" => rt # Bad   \* rootId is in the JSON body; a bad body is subs = <<>>
       /\ req' = [req EXCEPT ![r] = [Fresh EXCEPT !.kind = k, !.pc = "start",
                                      !.ps = ps, !.root = rt, !.subs = subs]]
  /\ UNCHANGED <<sent, msgWaits, creates, proofSets, roots, faults>>

(***************************************************************************)
(* handleCreateProofSet, steps 1-4: the JWT, the body and its              *)
(* recordKeeper address, the sender address from eth_keys, binding the     *)
(* contract and building the unsent transaction. Nothing is written; each  *)
(* step can end the request with 401, 400 or 500.                          *)
(***************************************************************************)
\* getSenderAddress: no eth_keys row with role 'pdp', or the query fails
GetSenderAddressFails(r) == CanFail /\ Respond(r, 500) /\ Fault

CreatePrepare(r) ==
  /\ req[r].kind = "create" /\ req[r].pc = "start"
  /\ \/ Respond(r, 401) /\ UNCHANGED faults     \* verifyJWTToken
     \/ Respond(r, 400) /\ UNCHANGED faults     \* body, recordKeeper
     \/ GetSenderAddressFails(r)
     \/ CanFail /\ Respond(r, 500) /\ Fault     \* binding the contract, building the tx
     \/ req' = [req EXCEPT ![r].pc = "send"] /\ UNCHANGED faults
  /\ UNCHANGED <<sent, msgWaits, creates, proofSets, roots>>

\* step 5: SenderETH.Send signs and sends the transaction
CreateSend(r) ==
  /\ req[r].kind = "create" /\ req[r].pc = "send"
  /\ \/ /\ sent' = sent \cup {r}
        /\ req' = [req EXCEPT ![r].pc = "record"]
        /\ UNCHANGED faults
     \/ CanFail /\ Respond(r, 500) /\ Fault /\ UNCHANGED sent
  /\ UNCHANGED <<msgWaits, creates, proofSets, roots>>

(***************************************************************************)
(* insertMessageWaitsAndProofsetCreate: both inserts in one transaction;  *)
(* the callback returns false on either error and the transaction rolls   *)
(* back.                                                                   *)
(***************************************************************************)
\* mutant: the message_waits_eth row survives a failed second insert
InsertMessageWaitsNoRollback(r) ==
  \/ msgWaits' = msgWaits \cup {r} /\ creates' = creates \cup {r} /\ UNCHANGED faults
  \/ CanFail /\ Fault /\ msgWaits' = msgWaits \cup {r} /\ UNCHANGED creates
  \/ CanFail /\ Fault /\ UNCHANGED <<msgWaits, creates>>

InsertMessageWaitsAndProofsetCreate(r) ==
  \/ msgWaits' = msgWaits \cup {r} /\ creates' = creates \cup {r} /\ UNCHANGED faults
  \/ CanFail /\ Fault /\ UNCHANGED <<msgWaits, creates>>

\* step 6 and 7: record the sent transaction, answer 201 or 500
CreateRecord(r) ==
  /\ req[r].kind = "create" /\ req[r].pc = "record"
  /\ InsertMessageWaitsAndProofsetCreate(r)
  /\ Respond(r, IF msgWaits' = msgWaits \cup {r} /\ creates' = creates \cup {r}
                THEN 201 ELSE 500)
  /\ UNCHANGED <<sent, proofSets, roots>>

(***************************************************************************)
(* handleAddRootToProofSet: parse the proof set id, decode the body        *)
(* (rootCid set, at least one subroot), then for each subroot in order:    *)
(* HasPiece, GetPieceRefIDByPieceCID, AddProofSetRoot, returning at the    *)
(* first failure; 201 after the last.                                      *)
(***************************************************************************)
\* mutant: the strconv.ParseInt error on the proof set id is not checked
AddRootStartNoParse(r) ==
  /\ req[r].kind = "addRoot" /\ req[r].pc = "start"
  /\ IF req[r].subs = <<>>
     THEN Respond(r, 400)
     ELSE req' = [req EXCEPT ![r].pc = "loop"]
  /\ UNCHANGED <<sent, msgWaits, creates, proofSets, roots, faults>>

AddRootStart(r) ==
  /\ req[r].kind = "addRoot" /\ req[r].pc = "start"
  /\ IF req[r].ps = Bad \/ req[r].subs = <<>>
     THEN Respond(r, 400)
     ELSE req' = [req EXCEPT ![r].pc = "loop"]
  /\ UNCHANGED <<sent, msgWaits, creates, proofSets, roots, faults>>

AddRootStep(r) ==
  /\ req[r].kind = "addRoot" /\ req[r].pc = "loop"
  /\ LET i == req[r].i
         s == req[r].subs[i]
     IN \/ CanFail /\ Fault /\ Respond(r, 500) /\ UNCHANGED roots   \* a store call fails
        \/ /\ ~HasPiece(s)                                        \* piece not found
           /\ Respond(r, 400) /\ UNCHANGED <<roots, faults>>
        \/ /\ HasPiece(s)
           /\ AddProofSetRoot(RootRow(req[r].ps, req[r].root, i, r))
           /\ req' = [req EXCEPT ![r].i = i + 1,
                                 ![r].pc = IF i = Len(req[r].subs) THEN "done" ELSE "loop",
                                 ![r].code = IF i = Len(req[r].subs) THEN 201 ELSE 0]
           /\ UNCHANGED faults
  /\ UNCHANGED <<sent, msgWaits, creates, proofSets>>

(***************************************************************************)
(* handleDeleteProofSetRoot: parse both ids, DeleteProofSetRoot, 204.      *)
(***************************************************************************)
DeleteRoot(r) ==
  /\ req[r].kind = "delRoot" /\ req[r].pc = "start"
  /\ \/ /\ req[r].ps = Bad \/ req[r].root = Bad
        /\ Respond(r, 400) /\ UNCHANGED <<roots, faults>>
     \/ /\ req[r].ps # Bad /\ req[r].root # Bad
        /\ \/ /\ DeleteProofSetRoot(req[r].ps, req[r].root)
              /\ Respond(r, 204) /\ UNCHANGED faults
           \/ CanFail /\ Fault /\ Respond(r, 500) /\ UNCHANGED roots
  /\ UNCHANGED <<sent, msgWaits, creates, proofSets>>

(***************************************************************************)
(* handleDeleteProofSet: parse the id, DeleteProofSet, 204.                *)
(***************************************************************************)
DeleteProofSet(r) ==
  /\ req[r].kind = "delSet" /\ req[r].pc = "start"
  /\ \/ req[r].ps = Bad /\ Respond(r, 400) /\ UNCHANGED <<proofSets, roots, faults>>
     \/ /\ req[r].ps # Bad
        /\ \/ /\ StoreDeleteProofSet(req[r].ps)
              /\ Respond(r, 204) /\ UNCHANGED faults
           \/ CanFail /\ Fault /\ Respond(r, 500) /\ UNCHANGED <<proofSets, roots>>
  /\ UNCHANGED <<sent, msgWaits, creates>>

\* handlePing: the JWT check, then 200
Ping(r) ==
  /\ req[r].kind = "ping" /\ req[r].pc = "start"
  /\ Respond(r, 401) \/ Respond(r, 200)
  /\ UNCHANGED <<sent, msgWaits, creates, proofSets, roots, faults>>

(***************************************************************************)
(* handleGetProofSet: parse the id; any ProofSetStore.GetProofSet error is *)
(* answered 404; a failing JSON encoding 500; otherwise 200. Nothing is    *)
(* written.                                                                *)
(***************************************************************************)
GetProofSet(r) ==
  /\ req[r].kind = "getSet" /\ req[r].pc = "start"
  /\ \/ req[r].ps = Bad /\ Respond(r, 400) /\ UNCHANGED faults
     \/ /\ req[r].ps # Bad
        /\ \/ ~StoreGetProofSet(req[r].ps) /\ Respond(r, 404) /\ UNCHANGED faults
           \/ CanFail /\ Fault /\ (Respond(r, 404) \/ Respond(r, 500))
           \/ StoreGetProofSet(req[r].ps) /\ Respond(r, 200) /\ UNCHANGED faults
  /\ UNCHANGED <<sent, msgWaits, creates, proofSets, roots>>

\* handleGetProofSetRoot: its parsing and lookup are commented out; 200, no body
GetProofSetRoot(r) ==
  /\ req[r].kind = "getRoot" /\ req[r].pc = "start"
  /\ Respond(r, 200)
  /\ UNCHANGED <<sent, msgWaits, creates, proofSets, roots, faults>>

Init ==
  /\ req = [r \in Reqs |-> Fresh]
  /\ sent = {} /\ msgWaits = {} /\ creates = {}
  /\ proofSets = ProofSetIds
  /\ roots = {}
  /\ faults = 0

\* the steps of the handler goroutine serving request r
Handle(r) ==
  \/ CreatePrepare(r) \/ CreateSend(r) \/ CreateRecord(r)
  \/ AddRootStart(r) \/ AddRootStep(r) \/ DeleteRoot(r) \/ DeleteProofSet(r)
  \/ Ping(r) \/ GetProofSet(r) \/ GetProofSetRoot(r)

Next == \E r \in Reqs : Arrive(r) \/ Handle(r)

Spec == Init /\ [][Next]_vars

-----------------------------------------------------------------------------
TypeOK ==
  /\ \A r \in Reqs :
       /\ req[r].kind \in Kinds \cup {"none"}
       /\ req[r].pc \in {"new", "start", "send", "record", "loop", "done"}
       /\ req[r].code \in {0, 200, 201, 204, 400, 401, 404, 500}
       /\ req[r].i \in 1..(MaxSubroots + 1)
  /\ sent \subseteq Reqs /\ msgWaits \subseteq sent /\ creates \subseteq sent
  /\ proofSets \subseteq ProofSetIds
  /\ \A x \in roots : x.ps \in ProofSetIds /\ x.root \in RootIds /\ x.by \in Reqs
  /\ faults \in 0..MaxFaults

(***************************************************************************)
(* A create request's answer is true to what is tracked: the message       *)
(* watcher and the proof-set creation watcher both see exactly the         *)
(* transactions of the create requests answered 201. A failure between or *)
(* within insertMessageWaitsAndProofsetCreate's two inserts leaves neither *)
(* row, and a request answered 500, which its client may retry, leaves no *)
(* tracking row behind.                                                    *)
(***************************************************************************)
TrackedIffCreated ==
  /\ msgWaits = creates
  /\ creates = {r \in Reqs : req[r].kind = "create" /\ req[r].code = 201}

(***************************************************************************)
(* A proof-set creation that reached the chain is tracked: once its        *)
(* request has been answered, the transaction sent by handleCreateProofSet *)
(* has its message_waits_eth row.                                          *)
(***************************************************************************)
CreatedTracked ==
  \A r \in sent : req[r].pc = "done" => r \in msgWaits

(***************************************************************************)
(* A root is stored whole: once the add request that stored a subroot has  *)
(* been answered, whatever its answer, the root holds every subroot of     *)
(* that request and none of another request's. Checks both a failure in   *)
(* the middle of handleAddRootToProofSet's loop and concurrent add and     *)
(* delete requests for the same root id.                                   *)
(***************************************************************************)
RootWhole ==
  \A x \in roots : req[x.by].pc = "done" =>
    /\ \A k \in 1..Len(req[x.by].subs) :
         RootRow(x.ps, x.root, k, x.by) \in roots
    /\ \A y \in roots : y.ps = x.ps /\ y.root = x.root => y.by = x.by
=============================================================================
