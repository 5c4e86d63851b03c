----------------------------- MODULE KafkaGroup ------------------------------
(***************************************************************************)
(* A consumer group of one topic, as the Kafka clients of this repository  *)
(* use it: the brokers and the client library are not part of the          *)
(* repository.  The log of a partition is known by its end; records are    *)
(* named by partition and offset.                                          *)
(*                                                                         *)
(* A rebalance gives every partition to a member of the new generation.    *)
(* Consumers take part in it inside poll; one that is busy elsewhere is    *)
(* left out and does not know: it still believes in its old assignment,    *)
(* and finds out when it commits.  A consumer that gets a partition has to *)
(* ask where to start: at the group's committed offset or, if there is     *)
(* none, where auto.offset.reset says.                                     *)
(***************************************************************************)
EXTENDS Integers, FiniteSets

CONSTANTS
  Consumers, Partitions,
  AutoOffsetReset,  \* "latest" or "earliest"
  MaxRecords,       \* bound: records per partition
  MaxGenerations    \* bound: rebalances

ASSUME GroupAssumption ==
  /\ AutoOffsetReset \in {"latest", "earliest"}
  /\ MaxRecords \in Nat /\ MaxGenerations \in Nat

None    == -1
Offsets == 0 .. MaxRecords - 1
Records == Partitions \X Offsets

VARIABLES
  end,         \* next offset of each partition
  committed,   \* committed offset of the group in each partition, or None
  generation,  \* of the group
  known,       \* the generation each consumer last joined, or None
  assigned,    \* the partitions each consumer believes are its own
  position     \* the next offset each consumer fetches from each partition, or None

groupVars == <<end, committed, generation, known, assigned, position>>

GroupInit(offset) ==
  /\ end = [tp \in Partitions |-> 0]
  /\ committed = [tp \in Partitions |-> offset]
  /\ generation = 0
  /\ known = [c \in Consumers |-> None]
  /\ assigned = [c \in Consumers |-> {}]
  /\ position = [c \in Consumers |-> [tp \in Partitions |-> None]]

\* Somebody writes a record to the topic.
Produce(tp) ==
  /\ end[tp] < MaxRecords
  /\ end' = [end EXCEPT ![tp] = @ + 1]
  /\ UNCHANGED <<committed, generation, known, assigned, position>>

\* The consumers in "members" form the next generation.
Regroup(members) ==
  /\ generation < MaxGenerations
  /\ members # {}
  /\ generation' = generation + 1
  /\ known' = [c \in Consumers |-> IF c \in members THEN generation' ELSE known[c]]
  /\ \E owner \in [Partitions -> members] :
       assigned' = [c \in Consumers |->
         IF c \in members THEN {tp \in Partitions : owner[tp] = c} ELSE assigned[c]]
  /\ position' = [c \in Consumers |->
       IF c \in members THEN [tp \in Partitions |-> None] ELSE position[c]]
  /\ UNCHANGED end

Rebalance(members) == Regroup(members) /\ UNCHANGED committed

StartOffset(tp) ==
  IF committed[tp] # None THEN committed[tp]
  ELSE IF AutoOffsetReset = "earliest" THEN 0 ELSE end[tp]

\* poll: c finds out where to start.
FetchOffset(c, tp) ==
  /\ tp \in assigned[c] /\ position[c][tp] = None
  /\ position' = [position EXCEPT ![c][tp] = StartOffset(tp)]
  /\ UNCHANGED <<end, committed, generation, known, assigned>>

Consuming(c) == {tp \in assigned[c] : position[c][tp] # None}

\* poll: the new positions of c, when it gets some of the records that are there
\* (and none when it times out).
Fetched(c) ==
  {to \in [Partitions -> 0 .. MaxRecords \cup {None}] :
     \A tp \in Partitions :
       IF tp \in Consuming(c) THEN position[c][tp] <= to[tp] /\ to[tp] <= end[tp]
                              ELSE to[tp] = position[c][tp]}

\* The records between c's position and the positions "to".
Between(c, to) ==
  {r \in Records : r[1] \in Consuming(c) /\ position[c][r[1]] <= r[2] /\ r[2] < to[r[1]]}

Fetch(c, to) ==
  /\ position' = [position EXCEPT ![c] = to]
  /\ UNCHANGED <<end, committed, generation, known, assigned>>

\* The coordinator refuses the commit of a consumer that is not in the generation.
MayCommit(c) == known[c] = generation

\* commitSync: the offsets of everything c has polled.
CommitPositions(c) ==
  /\ committed' = [tp \in Partitions |-> IF tp \in Consuming(c) THEN position[c][tp] ELSE committed[tp]]
  /\ UNCHANGED <<end, generation, known, assigned, position>>

\* With automatic commits: before it joins again, a member commits what it has; others are
\* refused.
CommitAndJoin(members) ==
  /\ Regroup(members)
  /\ committed' = [tp \in Partitions |->
       IF \E c \in members : MayCommit(c) /\ tp \in Consuming(c)
       THEN position[CHOOSE c \in members : MayCommit(c) /\ tp \in Consuming(c)][tp]
       ELSE committed[tp]]

\* The consumer's process ends; the group finds out at the next rebalance.
Leave(c) ==
  /\ known' = [known EXCEPT ![c] = None]
  /\ assigned' = [assigned EXCEPT ![c] = {}]
  /\ UNCHANGED <<end, committed, generation, position>>
=============================================================================
