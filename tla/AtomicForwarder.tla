--------------------------- MODULE AtomicForwarder ---------------------------
(***************************************************************************)
(* AtomicForwarder of Kafka/NSDS_kafka_tutorial: it polls topicA, sends    *)
(* every record to topicB and commits the offsets, records and offsets in  *)
(* one transaction.  Processes of the same group may be started more than  *)
(* once, crash at any point, or lag behind and be replaced; all use the    *)
(* same transactional id.  Any exception ends the process.                 *)
(***************************************************************************)
EXTENDS KafkaTxn

CONSTANT FirstOffset  \* the group's committed offset before it is ever used, or None

ASSUME FirstOffsetAssumption == FirstOffset \in {0, None}

VARIABLES
  pc,     \* where each process is: "down", "poll", "send" or "commit"
  start,  \* its positions before it polled the batch it has in hand
  done,   \* in each partition, the next record of that batch it has to send
  first   \* history: the first offset of a partition anybody polled, or None

vars == <<groupVars, txnVars, pc, start, done, first>>

NoBatch == [tp \in Partitions |-> None]

Init ==
  /\ GroupInit(FirstOffset)
  /\ TxnInit
  /\ pc = [c \in Consumers |-> "down"]
  /\ start = [c \in Consumers |-> NoBatch]
  /\ done = [c \in Consumers |-> NoBatch]
  /\ first = [tp \in Partitions |-> None]

\* The process subscribes and calls initTransactions before its first poll.
Start(c) ==
  /\ pc[c] = "down"
  /\ InitTransactions(c)
  /\ pc' = [pc EXCEPT ![c] = "poll"]
  /\ UNCHANGED <<groupVars, start, done, first>>

Join ==
  /\ \E members \in SUBSET {c \in Consumers : pc[c] = "poll"} : Rebalance(members)
  /\ UNCHANGED <<txnVars, pc, start, done, first>>

\* Inside poll; offsets that are pending in a transaction are waited for.
ResetOffset(c, tp) ==
  /\ pc[c] = "poll"
  /\ pending[tp] = None
  /\ FetchOffset(c, tp)
  /\ UNCHANGED <<txnVars, pc, start, done, first>>

\* poll and beginTransaction.  A poll that times out changes nothing: the transaction
\* of an empty batch sends no offsets and does not reach the coordinator.
Poll(c) ==
  /\ pc[c] = "poll" /\ known[c] # None
  /\ \E to \in Fetched(c) :
       /\ to # position[c]
       /\ Fetch(c, to)
       /\ first' = [tp \in Partitions |->
            IF first[tp] = None /\ position[c][tp] < to[tp] THEN position[c][tp] ELSE first[tp]]
  /\ pc' = [pc EXCEPT ![c] = "send"]
  /\ start' = [start EXCEPT ![c] = position[c]]
  /\ done' = [done EXCEPT ![c] = position[c]]
  /\ UNCHANGED txnVars

\* Mutant: the loop goes one record too far.
SendOneMore(c) ==
  /\ pc[c] = "send"
  /\ \E tp \in Partitions :
       /\ done[c][tp] <= position[c][tp]
       /\ Send(c, tp, done[c][tp])
       /\ done' = [done EXCEPT ![c][tp] = @ + 1]
  /\ UNCHANGED <<groupVars, pc, start, first>>

\* One record of the loop over the batch.
SendRecord(c) ==
  /\ pc[c] = "send"
  /\ \E tp \in Partitions :
       /\ done[c][tp] < position[c][tp]
       /\ Send(c, tp, done[c][tp])
       /\ done' = [done EXCEPT ![c][tp] = @ + 1]
  /\ UNCHANGED <<groupVars, pc, start, first>>

\* The process ends.
Die(c) ==
  /\ Leave(c)
  /\ pc' = [pc EXCEPT ![c] = "down"]
  /\ start' = [start EXCEPT ![c] = NoBatch]
  /\ done' = [done EXCEPT ![c] = NoBatch]
  /\ UNCHANGED <<txnVars, first>>

\* Mutant: the offsets are those of the last records, not the next ones.
LastOffsets(c) ==
  [tp \in Partitions |-> IF start[c][tp] < position[c][tp] THEN position[c][tp] - 1 ELSE None]

\* Mutant: no offsets are sent.
NoBatchOffsets(c) == NoBatch

\* For every partition with records in the batch, the offset after the last one.
BatchOffsets(c) ==
  [tp \in Partitions |-> IF start[c][tp] < position[c][tp] THEN position[c][tp] ELSE None]

\* Mutant: the offsets are sent from inside the loop.
SendOffsetsEarly(c) ==
  /\ pc[c] = "send"
  /\ \/ /\ MaySendOffsets(c)
        /\ SendOffsets(BatchOffsets(c))
        /\ pc' = [pc EXCEPT ![c] = "commit"]
        /\ UNCHANGED <<groupVars, start, done, first>>
     \/ ~ MaySendOffsets(c) /\ Die(c)

SendOffsetsToTransaction(c) ==
  /\ pc[c] = "send" /\ done[c] = position[c]
  /\ \/ /\ MaySendOffsets(c)
        /\ SendOffsets(BatchOffsets(c))
        /\ pc' = [pc EXCEPT ![c] = "commit"]
        /\ UNCHANGED <<groupVars, start, done, first>>
     \/ ~ MaySendOffsets(c) /\ Die(c)

CommitTransaction(c) ==
  /\ pc[c] = "commit"
  /\ \/ /\ ~ Fenced(c)
        /\ CommitTxn
        /\ pc' = [pc EXCEPT ![c] = "poll"]
        /\ start' = [start EXCEPT ![c] = NoBatch]
        /\ done' = [done EXCEPT ![c] = NoBatch]
        /\ UNCHANGED first
     \/ Fenced(c) /\ Die(c)

Crash(c) == pc[c] # "down" /\ Die(c)

Next ==
  \/ \E tp \in Partitions : Produce(tp) /\ UNCHANGED <<txnVars, pc, start, done, first>>
  \/ Join
  \/ \E c \in Consumers, tp \in Partitions : ResetOffset(c, tp)
  \/ \E c \in Consumers :
       \/ Start(c) \/ Poll(c) \/ SendRecord(c) \/ SendOffsetsToTransaction(c)
       \/ CommitTransaction(c) \/ Crash(c)
  \/ TxnTimeout /\ UNCHANGED <<groupVars, pc, start, done, first>>

Spec == Init /\ [][Next]_vars

(***************************************************************************)
(* Properties                                                              *)
(***************************************************************************)

MaybeOffset == 0 .. MaxRecords \cup {None}

TypeOK ==
  /\ end \in [Partitions -> 0 .. MaxRecords]
  /\ committed \in [Partitions -> MaybeOffset]
  /\ generation \in 0 .. MaxGenerations
  /\ known \in [Consumers -> 0 .. MaxGenerations \cup {None}]
  /\ assigned \in [Consumers -> SUBSET Partitions]
  /\ position \in [Consumers -> [Partitions -> MaybeOffset]]
  /\ epoch \in 0 .. MaxEpochs
  /\ myEpoch \in [Consumers -> 0 .. MaxEpochs \cup {None}]
  /\ sent \in [Partitions -> Seq(0 .. MaxRecords)]
  /\ pending \in [Partitions -> MaybeOffset]
  /\ out \in [Partitions -> Seq(0 .. MaxRecords)]
  /\ pc \in [Consumers -> {"down", "poll", "send", "commit"}]
  /\ start \in [Consumers -> [Partitions -> MaybeOffset]]
  /\ done \in [Consumers -> [Partitions -> MaybeOffset]]
  /\ first \in [Partitions -> MaybeOffset]
  /\ \A c \in Consumers, tp \in Partitions : pc[c] \in {"send", "commit"} =>
       /\ start[c][tp] <= done[c][tp] /\ done[c][tp] <= position[c][tp]
       /\ start[c][tp] = None => position[c][tp] = None

\* AtomicForwarder.java:32, "non voglio che in topicB ci siano doppi msgs": the records
\* of a partition are in the output in order and without duplicates or gaps between
\* them, whichever processes crash, are fenced or lose the partition on the way.
Contiguous ==
  \A tp \in Partitions : \A i \in 1 .. Len(out[tp]) - 1 : out[tp][i + 1] = out[tp][i] + 1

\* The committed offset is that of the record after the last in the output: the two
\* move together, so that nobody who takes over repeats or skips a record.
OffsetsMatchOutput ==
  \A tp \in Partitions :
    committed[tp] = IF out[tp] = <<>> THEN FirstOffset ELSE out[tp][Len(out[tp])] + 1

\* AtomicForwarder.java:32, "o msgs mancanti": the output begins with the first record
\* that any process of the group polled.
NothingMissing ==
  \A tp \in Partitions : out[tp] # <<>> => out[tp][1] = first[tp]

\* The forwarder implements the exactly-once log.
Log == INSTANCE ExactlyOnce
ImplementsExactlyOnce == Log!Spec
=============================================================================
