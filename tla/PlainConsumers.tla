----------------------------- MODULE PlainConsumers ---------------------------
(***************************************************************************)
(* Consumers of the Kafka tutorial that keep no account of what they did   *)
(* with a record.  C2 of Lab1/ES1 and ES2 ("forward") sends a result to    *)
(* topicB for every record, without waiting for the producer, whose buffer *)
(* is sent in the background; the library commits the positions from       *)
(* inside poll.  BasicConsumerManual ("manual") prints, and calls          *)
(* commitSync after every commitEvery records, in the middle of a batch if *)
(* need be.  The group has been used before.                               *)
(***************************************************************************)
EXTENDS KafkaGroup

CONSTANT commitEvery

ASSUME CommitEveryAssumption == commitEvery \in Nat \ {0}

VARIABLES
  program,
  doing,         \* what each process does: "down", "poll", "work" or "commit"
  inHand,        \* the records of its last poll it still has to go through
  buffer,        \* the records in its producer's buffer
  numConsumed,
  output,        \* history: the records in topicB, or printed
  dropped        \* history: the records that a process had when it ended, in hand or in its buffer

plainProcVars == <<program, doing, inHand, buffer, numConsumed, output, dropped>>
plainVars     == <<groupVars, plainProcVars>>

PlainProcsInit ==
  /\ program \in {"forward", "manual"}
  /\ doing = [c \in Consumers |-> "down"]
  /\ inHand = [c \in Consumers |-> {}]
  /\ buffer = [c \in Consumers |-> {}]
  /\ numConsumed = [c \in Consumers |-> 0]
  /\ output = {} /\ dropped = {}

StartPlain(c) ==
  /\ doing[c] = "down"
  /\ doing' = [doing EXCEPT ![c] = "poll"]
  /\ UNCHANGED <<groupVars, program, inHand, buffer, numConsumed, output, dropped>>

JoinPlain ==
  /\ \E members \in SUBSET {c \in Consumers : doing[c] = "poll"} :
       IF program = "forward" THEN CommitAndJoin(members) ELSE Rebalance(members)
  /\ UNCHANGED plainProcVars

ResetPlain(c, tp) ==
  /\ doing[c] = "poll"
  /\ FetchOffset(c, tp)
  /\ UNCHANGED plainProcVars

\* Mutant: the positions are committed in the background, whatever the process does.
CommitsAnytime(c) ==
  /\ program = "forward" /\ doing[c] # "down" /\ MayCommit(c)
  /\ CommitPositions(c)
  /\ UNCHANGED plainProcVars

\* Inside poll, when the interval is over.
CommitsInPoll(c) ==
  /\ program = "forward" /\ doing[c] = "poll" /\ MayCommit(c)
  /\ CommitPositions(c)
  /\ UNCHANGED plainProcVars

PollPlain(c) ==
  /\ doing[c] = "poll" /\ known[c] # None
  /\ \E to \in Fetched(c) :
       /\ to # position[c]
       /\ Fetch(c, to)
       /\ inHand' = [inHand EXCEPT ![c] = Between(c, to)]
  /\ doing' = [doing EXCEPT ![c] = "work"]
  /\ UNCHANGED <<program, buffer, numConsumed, output, dropped>>

\* The next record of the batch, each partition in the order of offsets.
Goes(c, r) ==
  /\ doing[c] = "work" /\ r \in inHand[c]
  /\ \A q \in inHand[c] : q[1] = r[1] => r[2] <= q[2]
  /\ inHand' = [inHand EXCEPT ![c] = @ \ {r}]

GoesOn(c) == IF inHand'[c] = {} THEN "poll" ELSE "work"

\* producer.send() puts it into the buffer.
Forward(c) ==
  /\ program = "forward"
  /\ \E r \in Records : Goes(c, r) /\ buffer' = [buffer EXCEPT ![c] = @ \cup {r}]
  /\ doing' = [doing EXCEPT ![c] = GoesOn(c)]
  /\ UNCHANGED <<groupVars, program, numConsumed, output, dropped>>

\* The producer's thread sends the buffer, each partition in order.
BufferSent(c) ==
  /\ \E r \in buffer[c] :
       /\ \A q \in buffer[c] : q[1] = r[1] => r[2] <= q[2]
       /\ buffer' = [buffer EXCEPT ![c] = @ \ {r}]
       /\ output' = output \cup {r}
  /\ UNCHANGED <<groupVars, program, doing, inHand, numConsumed, dropped>>

PrintPlain(c) ==
  /\ program = "manual"
  /\ \E r \in Records : Goes(c, r) /\ output' = output \cup {r}
  /\ numConsumed' = [numConsumed EXCEPT ![c] = @ + 1]
  /\ doing' = [doing EXCEPT ![c] = IF numConsumed'[c] = commitEvery THEN "commit" ELSE GoesOn(c)]
  /\ UNCHANGED <<groupVars, program, buffer, dropped>>

\* The process ends: it crashes, or commitSync throws.
Ends(c) ==
  /\ Leave(c)
  /\ doing' = [doing EXCEPT ![c] = "down"]
  /\ dropped' = dropped \cup inHand[c] \cup buffer[c]
  /\ inHand' = [inHand EXCEPT ![c] = {}]
  /\ buffer' = [buffer EXCEPT ![c] = {}]
  /\ numConsumed' = [numConsumed EXCEPT ![c] = 0]
  /\ UNCHANGED <<program, output>>

\* commitSync() without arguments: the positions after the whole batch.
CommitPlain(c) ==
  /\ doing[c] = "commit"
  /\ \/ /\ MayCommit(c) /\ CommitPositions(c)
        /\ numConsumed' = [numConsumed EXCEPT ![c] = 0]
        /\ doing' = [doing EXCEPT ![c] = IF inHand[c] = {} THEN "poll" ELSE "work"]
        /\ UNCHANGED <<program, inHand, buffer, output, dropped>>
     \/ ~ MayCommit(c) /\ Ends(c)

CrashPlain(c) == doing[c] # "down" /\ Ends(c)

PlainNext ==
  \/ \E tp \in Partitions : Produce(tp) /\ UNCHANGED plainProcVars
  \/ JoinPlain
  \/ \E c \in Consumers, tp \in Partitions : ResetPlain(c, tp)
  \/ \E c \in Consumers :
       \/ StartPlain(c) \/ CommitsInPoll(c) \/ PollPlain(c) \/ Forward(c) \/ BufferSent(c)
       \/ PrintPlain(c) \/ CommitPlain(c) \/ CrashPlain(c)

(***************************************************************************)
(* Properties                                                              *)
(***************************************************************************)

\* A record that the group will not be given again is in the output, or a process has it
\* still, or had it when it ended: nothing else loses one, whether a process was left out of
\* a rebalance, commits for a partition it lost, or commits what it has not gone through.
LostOnlyWithProcess ==
  \A r \in Records : r[2] < committed[r[1]] =>
    \/ r \in output \cup dropped
    \/ \E c \in Consumers : r \in buffer[c] \/ (program = "manual" /\ r \in inHand[c])
=============================================================================
