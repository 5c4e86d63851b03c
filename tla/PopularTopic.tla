---------------------------- MODULE PopularTopic -----------------------------
(***************************************************************************)
(* PopularTopicConsumer of Kafka/NSDS_kafka_eval_group25: a consumer that  *)
(* counts the records of every key in memory, while the library commits    *)
(* its positions from inside poll once the commit interval is over.  All   *)
(* processes are in one group, the alternative the README describes for    *)
(* topics with one partition; a single process is the README's first       *)
(* solution.  What is kept of countMap is how often each record was        *)
(* counted.                                                                *)
(***************************************************************************)
EXTENDS KafkaGroup

VARIABLES
  at,       \* where each process is: "down", "poll" or "count"
  toCount,    \* records of the last poll it still has to count
  count,    \* how many times each process has counted each record since its start
  counted,  \* history: the records that some process has counted
  missed    \* history: the processes that were left out of a rebalance since their start

counterProcVars == <<at, toCount, count, counted, missed>>
counterVars     == <<groupVars, counterProcVars>>

NotCounted == [r \in Records |-> 0]

CounterProcsInit ==
  /\ at = [c \in Consumers |-> "down"]
  /\ toCount = [c \in Consumers |-> {}]
  /\ count = [c \in Consumers |-> NotCounted]
  /\ counted = {}
  /\ missed = {}

CounterInit == GroupInit(None) /\ CounterProcsInit

StartCounter(c) ==
  /\ at[c] = "down"
  /\ at' = [at EXCEPT ![c] = "poll"]
  /\ UNCHANGED <<groupVars, toCount, count, counted, missed>>

JoinCounters ==
  /\ \E members \in SUBSET {c \in Consumers : at[c] = "poll"} :
       /\ CommitAndJoin(members)
       /\ missed' = missed \cup {c \in Consumers \ members : known[c] # None}
  /\ UNCHANGED <<at, toCount, count, counted>>

ResetPosition(c, tp) ==
  /\ at[c] = "poll"
  /\ FetchOffset(c, tp)
  /\ UNCHANGED <<at, toCount, count, counted, missed>>

\* Mutant: positions are committed in the background, whatever the process is doing.
BackgroundCommit(c) ==
  /\ at[c] # "down" /\ MayCommit(c)
  /\ CommitPositions(c)
  /\ UNCHANGED <<at, toCount, count, counted, missed>>

\* Inside poll, when the interval is over.  A commit that is refused is only logged.
AutoCommit(c) ==
  /\ at[c] = "poll" /\ MayCommit(c)
  /\ CommitPositions(c)
  /\ UNCHANGED <<at, toCount, count, counted, missed>>

PollRecords(c) ==
  /\ at[c] = "poll" /\ known[c] # None
  /\ \E to \in Fetched(c) :
       /\ to # position[c]
       /\ Fetch(c, to)
       /\ toCount' = [toCount EXCEPT ![c] = Between(c, to)]
  /\ at' = [at EXCEPT ![c] = "count"]
  /\ UNCHANGED <<count, counted, missed>>

\* One record of the loop over the toCount: countMap.compute.
Count(c) ==
  /\ at[c] = "count"
  /\ \E r \in toCount[c] :
       /\ \A q \in toCount[c] : q[1] = r[1] => r[2] <= q[2]
       /\ count' = [count EXCEPT ![c][r] = @ + 1]
       /\ counted' = counted \cup {r}
       /\ toCount' = [toCount EXCEPT ![c] = @ \ {r}]
  /\ at' = [at EXCEPT ![c] = IF toCount'[c] = {} THEN "poll" ELSE "count"]
  /\ UNCHANGED <<groupVars, missed>>

CrashCounter(c) ==
  /\ at[c] # "down"
  /\ Leave(c)
  /\ at' = [at EXCEPT ![c] = "down"]
  /\ toCount' = [toCount EXCEPT ![c] = {}]
  /\ count' = [count EXCEPT ![c] = NotCounted]
  /\ missed' = missed \ {c}
  /\ UNCHANGED counted

CounterNext ==
  \/ JoinCounters
  \/ \E tp \in Partitions : Produce(tp) /\ UNCHANGED counterProcVars
  \/ \E c \in Consumers, tp \in Partitions : ResetPosition(c, tp)
  \/ \E c \in Consumers : StartCounter(c) \/ AutoCommit(c) \/ PollRecords(c) \/ Count(c) \/ CrashCounter(c)

CounterSpec == CounterInit /\ [][CounterNext]_counterVars

(***************************************************************************)
(* Properties                                                              *)
(***************************************************************************)

CounterTypeOK ==
  /\ end \in [Partitions -> 0 .. MaxRecords]
  /\ committed \in [Partitions -> 0 .. MaxRecords \cup {None}]
  /\ position \in [Consumers -> [Partitions -> 0 .. MaxRecords \cup {None}]]
  /\ at \in [Consumers -> {"down", "poll", "count"}]
  /\ toCount \in [Consumers -> SUBSET Records]
  /\ count \in [Consumers -> [Records -> 0 .. MaxGenerations]]
  /\ missed \in SUBSET Consumers
  /\ \A c \in Consumers : at[c] = "count" <=> toCount[c] # {}

\* With the policy "earliest" and commits only from inside poll, no record is skipped:
\* what is behind the committed offset was counted by somebody, whatever crashed.
NothingSkipped == \A r \in Records : r[2] < committed[r[1]] => r \in counted

\* A process counts no record twice, even if it loses a partition and gets it back, as
\* long as it takes part in every rebalance: it has always committed before.
CountedOnce == \A c \in Consumers \ missed, r \in Records : count[c][r] <= 1
=============================================================================
