------------------------- MODULE PerRecordForwarder --------------------------
(***************************************************************************)
(* C2 of exercises 3 and 4 of the Kafka lab: a consumer of topicA that     *)
(* sends a result to topicB for every record, with the offsets sent and    *)
(* the transaction committed inside the loop over the batch, and begun     *)
(* outside of it.  What the result is (in exercise 4, a count) is left     *)
(* out.                                                                    *)
(***************************************************************************)
EXTENDS KafkaTxn

VARIABLES
  pc,        \* where each process is: "down", "poll", "send", "offsets" or "commit"
  begun,     \* its producer has a transaction that it has not committed
  done,      \* in each partition, the next record of the batch
  batch      \* for every partition with records in the batch, the offset after the last

procVars == <<pc, begun, done, batch>>
vars     == <<groupVars, txnVars, procVars>>

ForwarderProcsInit ==
  /\ TxnInit
  /\ pc = [c \in Consumers |-> "down"]
  /\ begun = [c \in Consumers |-> FALSE]
  /\ done = [c \in Consumers |-> NoOffsets]
  /\ batch = [c \in Consumers |-> NoOffsets]

Init == GroupInit(0) /\ ForwarderProcsInit

Start(c) ==
  /\ pc[c] = "down"
  /\ InitTransactions(c)
  /\ pc' = [pc EXCEPT ![c] = "poll"]
  /\ UNCHANGED <<groupVars, begun, done, batch>>

Join ==
  /\ \E members \in SUBSET {c \in Consumers : pc[c] = "poll"} : Rebalance(members)
  /\ UNCHANGED <<txnVars, procVars>>

\* Inside poll.  The consumer reads uncommitted offsets too: it does not wait for them.
ResetOffset(c, tp) ==
  /\ pc[c] = "poll"
  /\ FetchOffset(c, tp)
  /\ UNCHANGED <<txnVars, procVars>>

\* An exception ends the process.
Die(c) ==
  /\ Leave(c)
  /\ pc' = [pc EXCEPT ![c] = "down"]
  /\ begun' = [begun EXCEPT ![c] = FALSE]
  /\ done' = [done EXCEPT ![c] = NoOffsets]
  /\ batch' = [batch EXCEPT ![c] = NoOffsets]
  /\ UNCHANGED txnVars

\* poll, and a transaction begins.  One that was begun for a batch without records is
\* still there, and beginTransaction throws.
Poll(c) ==
  /\ pc[c] = "poll" /\ known[c] # None /\ ~ begun[c]
  /\ \E to \in Fetched(c) :
       /\ Fetch(c, to)
       /\ batch' = [batch EXCEPT ![c] =
            [tp \in Partitions |-> IF position[c][tp] < to[tp] THEN to[tp] ELSE None]]
       /\ pc' = [pc EXCEPT ![c] = IF to = position[c] THEN "poll" ELSE "send"]
  /\ begun' = [begun EXCEPT ![c] = TRUE]
  /\ done' = [done EXCEPT ![c] = position[c]]
  /\ UNCHANGED txnVars

BeginTwice(c) == pc[c] = "poll" /\ known[c] # None /\ begun[c] /\ Die(c)

\* send throws when no transaction was begun.
SendRecord(c) ==
  /\ pc[c] = "send"
  /\ \/ /\ begun[c]
        /\ \E tp \in Partitions :
             /\ done[c][tp] < batch[c][tp]
             /\ Send(c, tp, done[c][tp])
             /\ done' = [done EXCEPT ![c][tp] = @ + 1]
        /\ pc' = [pc EXCEPT ![c] = "offsets"]
        /\ UNCHANGED <<groupVars, begun, batch>>
     \/ ~ begun[c] /\ Die(c)

\* Mutants: no offsets, and those of the last records instead of the next ones.
NoBatchOffsets(c) == NoOffsets
LastOffsets(c)    == [tp \in Partitions |-> IF batch[c][tp] = None THEN None ELSE batch[c][tp] - 1]

\* The offsets of the whole batch, for each of its records.
BatchOffsets(c) == batch[c]

SendOffsetsToTransaction(c) ==
  /\ pc[c] = "offsets"
  /\ \/ /\ MaySendOffsets(c)
        /\ SendOffsets(BatchOffsets(c))
        /\ pc' = [pc EXCEPT ![c] = "commit"]
        /\ UNCHANGED <<groupVars, begun, done, batch>>
     \/ ~ MaySendOffsets(c) /\ Die(c)

MoreToSend(c) == \E tp \in Partitions : done[c][tp] < batch[c][tp]

CommitTransaction(c) ==
  /\ pc[c] = "commit"
  /\ \/ /\ ~ Fenced(c)
        /\ CommitTxn
        /\ begun' = [begun EXCEPT ![c] = FALSE]
        /\ pc' = [pc EXCEPT ![c] = IF MoreToSend(c) THEN "send" ELSE "poll"]
        /\ UNCHANGED <<done, batch>>
     \/ Fenced(c) /\ Die(c)

Crash(c) == pc[c] # "down" /\ Die(c)

Next ==
  \/ \E tp \in Partitions : Produce(tp) /\ UNCHANGED <<txnVars, procVars>>
  \/ Join
  \/ \E c \in Consumers, tp \in Partitions : ResetOffset(c, tp)
  \/ \E c \in Consumers :
       \/ Start(c) \/ Poll(c) \/ BeginTwice(c) \/ SendRecord(c) \/ SendOffsetsToTransaction(c)
       \/ CommitTransaction(c) \/ Crash(c)
  \/ TxnTimeout /\ UNCHANGED <<groupVars, procVars>>

Spec == Init /\ [][Next]_vars

(***************************************************************************)
(* Properties                                                              *)
(***************************************************************************)

MaybeOffset == 0 .. MaxRecords \cup {None}

TypeOK ==
  /\ pc \in [Consumers -> {"down", "poll", "send", "offsets", "commit"}]
  /\ begun \in [Consumers -> BOOLEAN]
  /\ done \in [Consumers -> [Partitions -> MaybeOffset]]
  /\ batch \in [Consumers -> [Partitions -> MaybeOffset]]
  /\ sent \in [Partitions -> Seq(0 .. MaxRecords)]
  /\ out \in [Partitions -> Seq(0 .. MaxRecords)]
  /\ \A c \in Consumers : pc[c] \in {"offsets", "commit"} => begun[c]

\* No record is in the output twice, and those of a partition are in order: at most
\* once, in spite of crashes and of the offsets committed too early.
ForwardedAtMostOnce ==
  \A tp \in Partitions : \A i, j \in 1 .. Len(out[tp]) : i < j => out[tp][i] < out[tp][j]

\* The output never gets ahead of the committed offset: whoever takes over does not
\* forward again what is there.
OffsetsCoverOutput ==
  \A tp \in Partitions : \A i \in 1 .. Len(out[tp]) : out[tp][i] < committed[tp]

\* ES3/C2.java:118, the commit "garantendo END TO END Semantic": when no process has a
\* batch in hand, every record behind the committed offset is in the output.
NothingLost ==
  (\A c \in Consumers : pc[c] \in {"down", "poll"})
    => \A tp \in Partitions : Len(out[tp]) = committed[tp]
=============================================================================
