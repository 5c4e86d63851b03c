----------------------------- MODULE AtMostOnce ------------------------------
(***************************************************************************)
(* AtMostOncePrinter of Kafka/NSDS_kafka_eval_group25: any number of       *)
(* processes of one consumer group poll records, commit their offsets with *)
(* commitSync, and only then print those whose value is above a threshold. *)
(* A process may crash at any point and be started again; one that was     *)
(* left out of a rebalance dies of the exception commitSync throws.        *)
(***************************************************************************)
EXTENDS KafkaGroup

CONSTANTS
  Value,       \* the value of each record
  Threshold

ASSUME ValueAssumption == Value \in [Records -> Int] /\ Threshold \in Int

VARIABLES
  printerAt, \* where each process is: "down", "poll", "commit" or "print"
  toPrint,   \* records of the last poll it still has to go through
  printed    \* history: how many times each record was printed

printerVars == <<groupVars, printerAt, toPrint, printed>>

PrinterInit ==
  /\ GroupInit(None)
  /\ printerAt = [c \in Consumers |-> "down"]
  /\ toPrint = [c \in Consumers |-> {}]
  /\ printed = [r \in Records |-> 0]

\* A process starts and subscribes.
PrinterStart(c) ==
  /\ printerAt[c] = "down"
  /\ printerAt' = [printerAt EXCEPT ![c] = "poll"]
  /\ UNCHANGED <<groupVars, toPrint, printed>>

PrintersJoin ==
  /\ \E members \in SUBSET {c \in Consumers : printerAt[c] = "poll"} : Rebalance(members)
  /\ UNCHANGED <<printerAt, toPrint, printed>>

\* Inside poll, as long as a partition has no position.
PrinterResetOffset(c, tp) ==
  /\ printerAt[c] = "poll"
  /\ FetchOffset(c, tp)
  /\ UNCHANGED <<printerAt, toPrint, printed>>

\* Mutant: printing comes before committing.
PrintFirst(c) ==
  /\ printerAt[c] = "poll" /\ known[c] # None
  /\ \E to \in Fetched(c) :
       /\ toPrint' = [toPrint EXCEPT ![c] = {}]
       /\ printed' = [r \in Records |->
            IF r \in Between(c, to) /\ Value[r] > Threshold THEN printed[r] + 1 ELSE printed[r]]
       /\ Fetch(c, to)
  /\ printerAt' = [printerAt EXCEPT ![c] = "commit"]

PrinterPoll(c) ==
  /\ printerAt[c] = "poll" /\ known[c] # None
  /\ \E to \in Fetched(c) :
       /\ toPrint' = [toPrint EXCEPT ![c] = Between(c, to)]
       /\ Fetch(c, to)
  /\ printerAt' = [printerAt EXCEPT ![c] = "commit"]
  /\ UNCHANGED printed

\* Mutant: the exception of commitSync is swallowed.
CommitSyncOrGoOn(c) ==
  /\ printerAt[c] = "commit"
  /\ IF MayCommit(c) THEN CommitPositions(c) ELSE UNCHANGED groupVars
  /\ printerAt' = [printerAt EXCEPT ![c] = "print"]
  /\ UNCHANGED <<toPrint, printed>>

\* Mutant: the exception is swallowed, and offsets are committed outside the group.
CommitAnyway(c) ==
  /\ printerAt[c] = "commit"
  /\ CommitPositions(c)
  /\ printerAt' = [printerAt EXCEPT ![c] = "print"]
  /\ UNCHANGED <<toPrint, printed>>

CommitSync(c) ==
  /\ printerAt[c] = "commit"
  /\ \/ /\ MayCommit(c)
        /\ CommitPositions(c)
        /\ printerAt' = [printerAt EXCEPT ![c] = "print"]
        /\ UNCHANGED toPrint
     \/ /\ ~ MayCommit(c)
        /\ Leave(c)
        /\ printerAt' = [printerAt EXCEPT ![c] = "down"]
        /\ toPrint' = [toPrint EXCEPT ![c] = {}]
  /\ UNCHANGED printed

\* Mutant: the loop ends at the first record over the threshold.
PrintFirstRecord(c) ==
  /\ printerAt[c] = "print"
  /\ \E r \in toPrint[c] :
       /\ toPrint' = [toPrint EXCEPT ![c] = @ \ {r}]
       /\ printed' = [printed EXCEPT ![r] = @ + 1]
  /\ printerAt' = [printerAt EXCEPT ![c] = "poll"]
  /\ UNCHANGED groupVars

\* One record of the loop over the batch, each partition in the order of offsets.
PrintRecord(c) ==
  /\ printerAt[c] = "print"
  /\ \/ \E r \in toPrint[c] :
          /\ \A q \in toPrint[c] : q[1] = r[1] => r[2] <= q[2]
          /\ toPrint' = [toPrint EXCEPT ![c] = @ \ {r}]
          /\ printed' = [printed EXCEPT ![r] = IF Value[r] > Threshold THEN @ + 1 ELSE @]
          /\ UNCHANGED printerAt
     \/ /\ toPrint[c] = {}
        /\ printerAt' = [printerAt EXCEPT ![c] = "poll"]
        /\ UNCHANGED <<toPrint, printed>>
  /\ UNCHANGED groupVars

PrinterCrash(c) ==
  /\ printerAt[c] # "down"
  /\ Leave(c)
  /\ printerAt' = [printerAt EXCEPT ![c] = "down"]
  /\ toPrint' = [toPrint EXCEPT ![c] = {}]
  /\ UNCHANGED printed

PrinterNext ==
  \/ PrintersJoin
  \/ \E c \in Consumers, tp \in Partitions : PrinterResetOffset(c, tp)
  \/ \E tp \in Partitions : Produce(tp) /\ UNCHANGED <<printerAt, toPrint, printed>>
  \/ \E c \in Consumers : PrinterStart(c) \/ PrinterPoll(c) \/ CommitSync(c) \/ PrintRecord(c) \/ PrinterCrash(c)

PrinterSpec == PrinterInit /\ [][PrinterNext]_printerVars

(***************************************************************************)
(* Properties                                                              *)
(***************************************************************************)

PrinterTypeOK ==
  /\ end \in [Partitions -> 0 .. MaxRecords]
  /\ committed \in [Partitions -> 0 .. MaxRecords \cup {None}]
  /\ generation \in 0 .. MaxGenerations
  /\ known \in [Consumers -> 0 .. MaxGenerations \cup {None}]
  /\ assigned \in [Consumers -> SUBSET Partitions]
  /\ position \in [Consumers -> [Partitions -> 0 .. MaxRecords \cup {None}]]
  /\ printerAt \in [Consumers -> {"down", "poll", "commit", "print"}]
  /\ toPrint \in [Consumers -> SUBSET Records]
  /\ printed \in [Records -> Nat]
  /\ \A c \in Consumers : printerAt[c] \in {"down", "poll"} => toPrint[c] = {}

\* README: all consumers are in one group "because every message must be printed 0
\* or 1 times"; and that must survive crashes, restarts and rebalances while a
\* process is between its poll, its commit and its prints.
PrintedAtMostOnce == \A r \in Records : printed[r] <= 1

\* A record that was printed, or that some process is about to print, is behind the
\* group's committed offset: nobody who takes over the partition will poll it.
PrintedIsCommitted ==
  \A r \in Records :
    printed[r] > 0 \/ (\E c \in Consumers : printerAt[c] = "print" /\ r \in toPrint[c])
      => r[2] < committed[r[1]]

\* The committed offset of a partition never goes back, although processes that
\* were left out of the group still hold older positions.
CommitsAdvance == [][\A tp \in Partitions : committed[tp] <= committed'[tp]]_printerVars
=============================================================================
