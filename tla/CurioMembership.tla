--------------------------- MODULE CurioMembership ---------------------------
(***************************************************************************)
(* The CurioMembership contract (src/unnamed/part_001): an admin, a funds *)
(* receiver, an exchange rate set from messages an off-chain signer signs, *)
(* and a payment record per membership UUID written by pay or by the       *)
(* admin. Each external function is one atomic transaction; a failed       *)
(* require reverts it, which is the action not being enabled.             *)
(*                                                                         *)
(* Time is block.timestamp in minutes since 2024-01-01 00:00 UTC (the      *)
(* contract's 1704067200): the windows are 35 and 40 minutes and a day is  *)
(* 1440. A signed rateAndTimestamp (rate << 64 | timestamp) is kept as     *)
(* its two fields: the contract's mask and shift recover them exactly for  *)
(* every timestamp below 2^64 and rate below 2^192. ECDSA.recover(...) ==  *)
(* signer is membership of the message in the set the signer has signed.   *)
(***************************************************************************)
EXTENDS Integers, FiniteSets

CONSTANTS
  Admin,        \* the deployer, adminGLOBAL
  Accounts,     \* other senders
  Receivers,    \* addresses fundsReceiver may be set to
  Zero,         \* address(0)
  Uuids,        \* membership UUIDs
  Rates,        \* exchange rates the signer signs
  InitRate,     \* constructor inExchangeRate
  InitTime,     \* block.timestamp at deployment, also inLastUpdateTimestamp
  Jumps,        \* how far block.timestamp can move between two transactions
  AdminLevels,  \* uint8 levels the admin writes (any uint8 is accepted)
  MaxBlocks,    \* bound: blocks explored
  MaxSigned,    \* bound: signed messages
  MaxPays       \* bound: successful pay transactions

ASSUME AdminLevels \subseteq 0..255

Day == 1440
UInt16 == 2^16
Senders == {Admin} \cup Accounts
NoRecord == [daysSince2024 |-> 0, level |-> 0, payer |-> Zero]

VARIABLES
  now,            \* block.timestamp of the next transaction
  fundsReceiver,  \* fundsReceiverGLOBAL
  rate,           \* exchangeRateGLOBAL
  updatedTime,    \* updatedTimeGLOBAL
  records,        \* paymentRecords (the zero record where unset)
  signed,         \* messages [rate, ts] the signer has signed (off-chain)
  balance,        \* what each receiver has been forwarded
  pays,           \* successful pay transactions so far (bounded)
  blocks          \* blocks so far (bounded)

vars == <<now, fundsReceiver, rate, updatedTime, records, signed, balance, pays, blocks>>

\* mutant: the day count is stored without the uint16 conversion
updateRecordNoTrunc(uuid, level, wallet) ==
  /\ records' = [records EXCEPT ![uuid] = [daysSince2024 |-> now \div Day,
                                           level |-> level, payer |-> wallet]]

\* updateRecord: uint16((block.timestamp - 1704067200) / 1 days) truncates
updateRecord(uuid, level, wallet) ==
  /\ records' = [records EXCEPT ![uuid] = [daysSince2024 |-> (now \div Day) % UInt16,
                                           level |-> level, payer |-> wallet]]

\* a new block: time moves forward
Tick ==
  /\ blocks < MaxBlocks
  /\ \E d \in Jumps : now' = now + d
  /\ blocks' = blocks + 1
  /\ UNCHANGED <<fundsReceiver, rate, updatedTime, records, signed, balance, pays>>

\* the off-chain signer signs the current rate with the current time
Sign ==
  /\ Cardinality(signed) < MaxSigned
  /\ \E r \in Rates : signed' = signed \cup {[rate |-> r, ts |-> now]}
  /\ UNCHANGED <<now, fundsReceiver, rate, updatedTime, records, balance, pays, blocks>>

changeFundsReceiver(sender, new) ==
  /\ sender = Admin
  /\ new # Zero
  /\ fundsReceiver' = new
  /\ UNCHANGED <<now, rate, updatedTime, records, signed, balance, pays, blocks>>

setExchangeRate(m) ==
  /\ now <= m.ts + 35
  /\ m \in signed
  /\ rate' = m.rate /\ updatedTime' = m.ts
  /\ UNCHANGED <<now, fundsReceiver, records, signed, balance, pays, blocks>>

adminUpdateMapping(sender, uuid, level, payer) ==
  /\ sender = Admin
  /\ updateRecord(uuid, level, payer)
  /\ UNCHANGED <<now, fundsReceiver, rate, updatedTime, signed, balance, pays, blocks>>

\* pay: level 2 is compared first, then level 1, else revert
pay(sender, uuid, value) ==
  /\ pays < MaxPays
  /\ now <= updatedTime + 40
  /\ value \in {rate * 2000, rate * 500}
  /\ updateRecord(uuid, IF value = rate * 2000 THEN 2 ELSE 1, sender)
  /\ balance' = [balance EXCEPT ![fundsReceiver] = @ + value]
  /\ pays' = pays + 1
  /\ UNCHANGED <<now, fundsReceiver, rate, updatedTime, signed, blocks>>

\* any signed message, and a forged one for each rate and time
Messages == signed \cup {[rate |-> r, ts |-> now] : r \in Rates}

\* a payment of either level at any signed rate, or of a wrong amount
Values == {r * k : r \in Rates \cup {InitRate}, k \in {500, 2000}} \cup {1}

Init ==
  /\ now = InitTime
  /\ fundsReceiver \in Receivers
  /\ rate = InitRate /\ updatedTime = InitTime
  /\ records = [u \in Uuids |-> NoRecord]
  /\ signed = {}
  /\ balance = [a \in Receivers |-> 0]
  /\ pays = 0
  /\ blocks = 0

Next ==
  \/ Tick \/ Sign
  \/ \E s \in Senders, a \in Receivers \cup {Zero} : changeFundsReceiver(s, a)
  \/ \E m \in Messages : setExchangeRate(m)
  \/ \E s \in Senders, u \in Uuids, l \in AdminLevels, p \in Accounts : adminUpdateMapping(s, u, l, p)
  \/ \E s \in Senders, u \in Uuids, v \in Values : pay(s, u, v)

Spec == Init /\ [][Next]_vars

-----------------------------------------------------------------------------
TypeOK ==
  /\ now >= InitTime /\ blocks \in 0..MaxBlocks
  /\ fundsReceiver \in Receivers
  /\ rate \in Rates \cup {InitRate} /\ updatedTime \in InitTime..now
  /\ \A u \in Uuids : records[u].daysSince2024 \in 0..(UInt16 - 1)
                      /\ records[u].level \in 0..255
  /\ pays \in 0..MaxPays

(***************************************************************************)
(* The exchange rate only moves forward: setExchangeRate never replaces    *)
(* the rate with one signed earlier than the one in force (the "too old"   *)
(* check is there to keep stale rates out).                                *)
(***************************************************************************)
RateNeverOlder == [][updatedTime' >= updatedTime]_vars
=============================================================================
