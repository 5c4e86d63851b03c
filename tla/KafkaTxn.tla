------------------------------ MODULE KafkaTxn -------------------------------
(***************************************************************************)
(* The transactions of the only transactional id the forwarders of this    *)
(* repository use, on top of KafkaGroup.  The coordinator and the producer *)
(* library are not part of the repository.                                 *)
(*                                                                         *)
(* initTransactions gives the producer a new epoch, which fences every     *)
(* earlier one, and aborts what was ongoing; so does the coordinator when a *)
(* transaction takes too long.  Offsets sent to a transaction are pending  *)
(* until it ends; a consumer waits for that before it starts from them.    *)
(* Only what is committed is in the output, as a read_committed consumer    *)
(* sees it: for every input partition, the offsets of its records.         *)
(***************************************************************************)
EXTENDS KafkaGroup, Sequences

CONSTANT MaxEpochs  \* bound: producers started and transactions timed out

ASSUME EpochAssumption == MaxEpochs \in Nat

VARIABLES
  epoch,     \* of the transactional id
  myEpoch,   \* the epoch each process's producer got, or None
  sent,      \* records of the ongoing transaction, by input partition
  pending,   \* offsets of the ongoing transaction, or None
  out        \* committed records of the output topic, by input partition

txnVars == <<epoch, myEpoch, sent, pending, out>>

Empty     == [tp \in Partitions |-> <<>>]
NoOffsets == [tp \in Partitions |-> None]

TxnInit ==
  /\ epoch = 0
  /\ myEpoch = [c \in Consumers |-> None]
  /\ sent = Empty /\ pending = NoOffsets /\ out = Empty

Ongoing   == sent # Empty
Fenced(c) == myEpoch[c] # epoch

\* The ongoing transaction ends and its epoch with it.
Abort ==
  /\ epoch < MaxEpochs
  /\ epoch' = epoch + 1
  /\ sent' = Empty /\ pending' = NoOffsets
  /\ UNCHANGED out

InitTransactions(c) ==
  /\ Abort
  /\ myEpoch' = [myEpoch EXCEPT ![c] = epoch']

TxnTimeout == Ongoing /\ Abort /\ UNCHANGED myEpoch

\* send: what a fenced producer sends goes nowhere.
Send(c, tp, offset) ==
  /\ sent' = IF Fenced(c) THEN sent ELSE [sent EXCEPT ![tp] = Append(@, offset)]
  /\ UNCHANGED <<epoch, myEpoch, pending, out>>

\* sendOffsetsToTransaction succeeds.
MaySendOffsets(c) == ~ Fenced(c) /\ MayCommit(c)
SendOffsets(offsets) ==
  /\ pending' = [tp \in Partitions |-> IF offsets[tp] # None THEN offsets[tp] ELSE pending[tp]]
  /\ UNCHANGED <<epoch, myEpoch, sent, out>>

\* commitTransaction succeeds.
CommitTxn ==
  /\ out' = [tp \in Partitions |-> out[tp] \o sent[tp]]
  /\ committed' = [tp \in Partitions |-> IF pending[tp] # None THEN pending[tp] ELSE committed[tp]]
  /\ sent' = Empty /\ pending' = NoOffsets
  /\ UNCHANGED <<epoch, myEpoch, end, generation, known, assigned, position>>
=============================================================================
