---------------------------- MODULE KafkaLabsProof ----------------------------
(***************************************************************************)
(* The consumers of one group, for every number of processes, partitions,  *)
(* records, rebalances and crashes.  The popular-topic consumer skips      *)
(* nothing that was committed and counts no record twice while it takes    *)
(* part in every rebalance; what the plain consumers lose is what a        *)
(* process had when it ended; the per-record forwarder puts no record out  *)
(* twice and never gets ahead of the committed offsets; and the            *)
(* at-most-once printer prints no record twice.                            *)
(***************************************************************************)
EXTENDS MCKafkaLabs, AtMostOnce, SequenceTheorems, TLAPS

(***************************************************************************)
(* The popular-topic consumer (PopularTopic)                               *)
(***************************************************************************)

USE GroupAssumption

(***************************************************************************)
(* The inductive invariant.                                                *)
(***************************************************************************)

\* The kinds of values, and what a process may have in each place of its loop.
Kinds ==
  /\ end \in [Partitions -> 0 .. MaxRecords]
  /\ committed \in [Partitions -> MaybeOffset]
  /\ generation \in Nat
  /\ known \in [Consumers -> Nat \cup {None}]
  /\ assigned \in [Consumers -> SUBSET Partitions]
  /\ position \in [Consumers -> [Partitions -> MaybeOffset]]
  /\ at \in [Consumers -> {"down", "poll", "count"}]
  /\ toCount \in [Consumers -> SUBSET Records]
  /\ count \in [Consumers -> [Records -> Nat]]
  /\ missed \in SUBSET Consumers
  /\ \A c \in Consumers : known[c] <= generation
  /\ \A c \in Consumers : known[c] = None => assigned[c] = {}
  /\ \A c \in Consumers : at[c] = "down" => known[c] = None
  /\ \A c \in Consumers : at[c] # "count" => toCount[c] = {}

\* What a process has polled was counted, unless it still has to count it.
PolledIsCounted ==
  \A c \in Consumers, r \in Records :
    r[1] \in Consuming(c) /\ r[2] < position[c][r[1]] => r \in counted \cup toCount[c]

SkipInv == Kinds /\ PolledIsCounted /\ NothingSkipped

\* The members of the present generation share out the partitions, and what they have
\* polled is not behind what is committed.
Shared ==
  \A c, d \in Consumers : c # d /\ MayCommit(c) /\ MayCommit(d) => assigned[c] \cap assigned[d] = {}

NotBehind ==
  \A c \in Consumers : MayCommit(c) => \A tp \in Consuming(c) : committed[tp] <= position[c][tp]

\* A record that c will not get again: it is committed, or c has polled it.
Passed(c, r) ==
  \/ r[2] < committed[r[1]]
  \/ MayCommit(c) /\ r[1] \in Consuming(c) /\ r[2] < position[c][r[1]]

\* The process c was in every rebalance since its start.
InPlace(c) ==
  /\ known[c] \in {None, generation}
  /\ \A r \in Records : count[c][r] <= 1
  /\ \A r \in Records : count[c][r] = 1 => Passed(c, r)
  /\ \A r \in toCount[c] :
       count[c][r] = 0 /\ MayCommit(c) /\ r[1] \in Consuming(c) /\ r[2] < position[c][r[1]]

OnceInv == Kinds /\ Shared /\ NotBehind /\ \A c \in Consumers \ missed : InPlace(c)

(***************************************************************************)
(* Kinds of values.                                                        *)
(***************************************************************************)

LEMMA KindsInit == CounterInit => Kinds
  BY DEF CounterInit, GroupInit, CounterProcsInit, Kinds, MaybeOffset, None, NotCounted

\* A rebalance: its members know the new generation and share the partitions.
LEMMA JoinFacts ==
  ASSUME Kinds, NEW members \in SUBSET {c \in Consumers : at[c] = "poll"}, CommitAndJoin(members)
  PROVE  /\ generation' = generation + 1
         /\ known' = [c \in Consumers |-> IF c \in members THEN generation + 1 ELSE known[c]]
         /\ position' = [c \in Consumers |->
              IF c \in members THEN [tp \in Partitions |-> None] ELSE position[c]]
         /\ assigned' \in [Consumers -> SUBSET Partitions]
         /\ \A c \in Consumers \ members : assigned'[c] = assigned[c]
         /\ \A c, d \in members : c # d => assigned'[c] \cap assigned'[d] = {}
         /\ end' = end
<1>1. PICK owner \in [Partitions -> members] :
        assigned' = [c \in Consumers |->
          IF c \in members THEN {tp \in Partitions : owner[tp] = c} ELSE assigned[c]]
  BY DEF CommitAndJoin, Regroup
<1>2. assigned' \in [Consumers -> SUBSET Partitions]
  BY <1>1 DEF Kinds
<1>. QED
  BY <1>1, <1>2 DEF CommitAndJoin, Regroup

\* What a rebalance commits of a partition: the position of a member that may commit it, or
\* nothing new.
LEMMA JoinCommits ==
  ASSUME NEW members \in SUBSET Consumers, CommitAndJoin(members), NEW tp \in Partitions
  PROVE  \/ \E c \in members : MayCommit(c) /\ tp \in Consuming(c) /\ committed'[tp] = position[c][tp]
         \/ /\ ~ \E c \in members : MayCommit(c) /\ tp \in Consuming(c)
            /\ committed'[tp] = committed[tp]
<1> DEFINE m == CHOOSE c \in members : MayCommit(c) /\ tp \in Consuming(c)
<1>1. committed'[tp] = IF \E c \in members : MayCommit(c) /\ tp \in Consuming(c)
                       THEN position[m][tp] ELSE committed[tp]
  BY DEF CommitAndJoin
<1>2. CASE \E c \in members : MayCommit(c) /\ tp \in Consuming(c)
  <2>1. m \in members /\ MayCommit(m) /\ tp \in Consuming(m)
    BY <1>2
  <2>. QED
    BY <1>1, <1>2, <2>1
<1>3. CASE ~ \E c \in members : MayCommit(c) /\ tp \in Consuming(c)
  BY <1>1, <1>3
<1>. QED
  BY <1>2, <1>3

LEMMA JoinKinds == ASSUME Kinds, JoinCounters PROVE Kinds'
<1>1. PICK members \in SUBSET {c \in Consumers : at[c] = "poll"} :
        /\ CommitAndJoin(members)
        /\ missed' = missed \cup {c \in Consumers \ members : known[c] # None}
  BY DEF JoinCounters
<1>2. UNCHANGED <<at, toCount, count, counted>>
  BY DEF JoinCounters
<1>3. committed' \in [Partitions -> MaybeOffset]
  <2>1. ASSUME NEW tp \in Partitions PROVE committed'[tp] \in MaybeOffset
    <3>1. \/ \E c \in members : committed'[tp] = position[c][tp]
          \/ committed'[tp] = committed[tp]
      BY <1>1, JoinCommits
    <3>. QED
      BY <3>1 DEF Kinds
  <2>2. committed' = [tp \in Partitions |-> committed'[tp]]
    BY <1>1 DEF CommitAndJoin
  <2>. QED
    BY <2>1, <2>2
<1>4. \A c \in members : c \in Consumers /\ at[c] = "poll"
  OBVIOUS
<1>5. /\ generation' = generation + 1
      /\ known' = [c \in Consumers |-> IF c \in members THEN generation + 1 ELSE known[c]]
      /\ position' = [c \in Consumers |->
           IF c \in members THEN [tp \in Partitions |-> None] ELSE position[c]]
      /\ assigned' \in [Consumers -> SUBSET Partitions]
      /\ \A c \in Consumers \ members : assigned'[c] = assigned[c]
      /\ end' = end
  BY <1>1, JoinFacts
<1>6. position' \in [Consumers -> [Partitions -> MaybeOffset]] /\ missed' \in SUBSET Consumers
  BY <1>1, <1>5 DEF Kinds, MaybeOffset, None
<1>7. known' \in [Consumers -> Nat \cup {None}] /\ generation' \in Nat
  BY <1>5 DEF Kinds
<1>8. ASSUME NEW c \in Consumers PROVE known'[c] <= generation'
  <2>1. generation \in Nat /\ known[c] \in Int /\ known[c] <= generation
    BY DEF Kinds, None
  <2>. QED
    BY <1>5, <2>1
<1>9. \A c \in Consumers : known'[c] = None => assigned'[c] = {}
  <2>1. \A c \in members : known'[c] # None
    BY <1>4, <1>5 DEF Kinds, None
  <2>2. \A c \in Consumers \ members : known'[c] = known[c] /\ assigned'[c] = assigned[c]
    BY <1>5
  <2>. QED
    BY <2>1, <2>2 DEF Kinds
<1>10. \A c \in Consumers : at'[c] = "down" => known'[c] = None
  BY <1>2, <1>4, <1>5 DEF Kinds
<1>. QED
  BY <1>2, <1>3, <1>5, <1>6, <1>7, <1>8, <1>9, <1>10 DEF Kinds

LEMMA OffsetFacts ==
  ASSUME Kinds, NEW tp \in Partitions
  PROVE  /\ StartOffset(tp) \in 0 .. MaxRecords
         /\ committed[tp] <= StartOffset(tp)
  BY DEF StartOffset, Kinds, MaybeOffset, None

LEMMA ResetKinds ==
  ASSUME Kinds, NEW c \in Consumers, NEW tp \in Partitions, ResetPosition(c, tp)
  PROVE  Kinds'
<1>1. StartOffset(tp) \in MaybeOffset
  BY OffsetFacts DEF MaybeOffset
<1>2. /\ position' = [position EXCEPT ![c][tp] = StartOffset(tp)]
      /\ UNCHANGED <<end, committed, generation, known, assigned, at, toCount, count, counted, missed>>
  BY DEF ResetPosition, FetchOffset
<1>. QED
  BY <1>1, <1>2 DEF Kinds

\* What a poll changes.
PollsTo(c, to) ==
  /\ \A tp \in Partitions :
       IF tp \in Consuming(c) THEN position[c][tp] <= to[tp] /\ to[tp] # None
                              ELSE to[tp] = position[c][tp]
  /\ position' = [position EXCEPT ![c] = to]
  /\ toCount' = [toCount EXCEPT ![c] = Between(c, to)]
  /\ at' = [at EXCEPT ![c] = "count"]
  /\ at[c] = "poll" /\ known[c] # None
  /\ UNCHANGED <<end, committed, generation, known, assigned, count, counted, missed>>

LEMMA PollFacts ==
  ASSUME Kinds, NEW c \in Consumers, PollRecords(c)
  PROVE  \E to \in [Partitions -> MaybeOffset] : PollsTo(c, to)
<1>1. PICK to \in Fetched(c) :
        /\ to # position[c]
        /\ Fetch(c, to)
        /\ toCount' = [toCount EXCEPT ![c] = Between(c, to)]
  BY DEF PollRecords
<1>2. to \in [Partitions -> MaybeOffset]
  BY DEF Fetched, MaybeOffset
<1>3. ASSUME NEW tp \in Partitions
      PROVE  IF tp \in Consuming(c) THEN position[c][tp] <= to[tp] /\ to[tp] # None
                                    ELSE to[tp] = position[c][tp]
  BY <1>2 DEF Fetched, Consuming, Kinds, MaybeOffset, None
<1>. QED
  BY <1>1, <1>2, <1>3 DEF PollRecords, Fetch, PollsTo

LEMMA PollKinds == ASSUME Kinds, NEW c \in Consumers, PollRecords(c) PROVE Kinds'
<1>1. PICK to \in [Partitions -> MaybeOffset] : PollsTo(c, to)
  BY PollFacts
<1>2. Between(c, to) \in SUBSET Records
  BY DEF Between
<1>. QED
  BY <1>1, <1>2 DEF Kinds, PollsTo

LEMMA CommitKinds == ASSUME Kinds, NEW c \in Consumers, AutoCommit(c) PROVE Kinds'
  BY DEF AutoCommit, CommitPositions, Kinds

LEMMA CountKinds == ASSUME Kinds, NEW c \in Consumers, Count(c) PROVE Kinds'
<1>1. PICK r \in toCount[c] :
        /\ count' = [count EXCEPT ![c][r] = @ + 1]
        /\ toCount' = [toCount EXCEPT ![c] = @ \ {r}]
  BY DEF Count
<1>2. /\ at' = [at EXCEPT ![c] = IF toCount'[c] = {} THEN "poll" ELSE "count"]
      /\ UNCHANGED <<end, committed, generation, known, assigned, position, missed>>
      /\ at[c] = "count"
  BY DEF Count, groupVars
<1>3. r \in Records
  BY DEF Kinds
<1>4. count' \in [Consumers -> [Records -> Nat]]
  BY <1>1, <1>3 DEF Kinds
<1>. QED
  BY <1>1, <1>2, <1>3, <1>4 DEF Kinds

LEMMA StartKinds == ASSUME Kinds, NEW c \in Consumers, StartCounter(c) PROVE Kinds'
  BY DEF StartCounter, Kinds, groupVars

LEMMA CrashKinds == ASSUME Kinds, NEW c \in Consumers, CrashCounter(c) PROVE Kinds'
  BY DEF CrashCounter, Leave, Kinds, NotCounted, None

LEMMA ProduceKinds ==
  ASSUME Kinds, NEW tp \in Partitions, Produce(tp), UNCHANGED counterProcVars
  PROVE  Kinds'
  BY DEF Produce, counterProcVars, Kinds

LEMMA KindsStep == Kinds /\ [CounterNext]_counterVars => Kinds'
<1> SUFFICES ASSUME Kinds, [CounterNext]_counterVars PROVE Kinds'
  OBVIOUS
<1>1. CASE UNCHANGED counterVars
  BY <1>1 DEF counterVars, groupVars, counterProcVars, Kinds
<1>2. CASE CounterNext
  BY <1>2, JoinKinds, ProduceKinds, ResetKinds, StartKinds, CommitKinds, PollKinds, CountKinds, CrashKinds
  DEF CounterNext
<1>. QED
  BY <1>1, <1>2

(***************************************************************************)
(* Nothing is skipped: a process commits what it has polled, in poll, when *)
(* it has counted all of it.                                               *)
(***************************************************************************)

LEMMA SkipInit == CounterInit => SkipInv
<1> SUFFICES ASSUME CounterInit PROVE SkipInv
  OBVIOUS
<1>1. PolledIsCounted /\ NothingSkipped
  BY DEF CounterInit, GroupInit, CounterProcsInit, PolledIsCounted, NothingSkipped, Consuming, None, Records, Offsets
<1>. QED
  BY <1>1, KindsInit DEF SkipInv

\* What a process commits in poll was counted.
LEMMA CommitsCounted ==
  ASSUME SkipInv, NEW c \in Consumers, at[c] = "poll", NEW r \in Records, r[1] \in Consuming(c),
         r[2] < position[c][r[1]]
  PROVE  r \in counted
  BY DEF SkipInv, Kinds, PolledIsCounted

LEMMA JoinSkip == ASSUME SkipInv, JoinCounters PROVE SkipInv'
<1>1. PICK members \in SUBSET {c \in Consumers : at[c] = "poll"} : CommitAndJoin(members)
  BY DEF JoinCounters
<1>2. UNCHANGED <<at, toCount, count, counted>>
  BY DEF JoinCounters
<1>3. Kinds'
  BY JoinKinds DEF SkipInv
<1>4. /\ \A c \in Consumers \ members : assigned'[c] = assigned[c] /\ position'[c] = position[c]
      /\ \A c \in members, tp \in Partitions : position'[c][tp] = None
  BY <1>1, JoinFacts DEF SkipInv
<1>5. ASSUME NEW r \in Records, r[2] < committed'[r[1]] PROVE r \in counted
  <2>1. r[1] \in Partitions
    BY DEF Records
  <2>2. CASE \E c \in members : r[1] \in Consuming(c) /\ committed'[r[1]] = position[c][r[1]]
    BY <1>5, <2>2, CommitsCounted
  <2>3. CASE committed'[r[1]] = committed[r[1]]
    BY <1>5, <2>3 DEF SkipInv, NothingSkipped
  <2>. QED
    BY <1>1, <2>1, <2>2, <2>3, JoinCommits
<1>6. PolledIsCounted'
  BY <1>2, <1>4 DEF SkipInv, PolledIsCounted, Consuming, Records
<1>. QED
  BY <1>2, <1>3, <1>5, <1>6 DEF SkipInv, NothingSkipped

LEMMA ResetSkip ==
  ASSUME AutoOffsetReset = "earliest", SkipInv, NEW c \in Consumers, NEW tp \in Partitions,
         ResetPosition(c, tp)
  PROVE  SkipInv'
<1>1. /\ tp \in assigned[c] /\ position[c][tp] = None
      /\ position' = [position EXCEPT ![c][tp] = StartOffset(tp)]
      /\ UNCHANGED <<committed, assigned, toCount, counted>>
  BY DEF ResetPosition, FetchOffset
<1>2. Kinds'
  BY ResetKinds DEF SkipInv
<1>3. ASSUME NEW r \in Records, r[1] = tp, r[2] < StartOffset(tp) PROVE r \in counted
  <2>1. r[2] \in Nat /\ ~ (r[2] < 0)
    BY DEF Records, Offsets
  <2>2. committed[tp] # None
    BY <1>3, <2>1 DEF StartOffset
  <2>. QED
    BY <1>3, <2>2 DEF StartOffset, SkipInv, NothingSkipped
<1>4. PolledIsCounted'
  <2> SUFFICES ASSUME NEW d \in Consumers, NEW r \in Records,
                      r[1] \in Consuming(d)', r[2] < position'[d][r[1]]
               PROVE  r \in counted \cup toCount[d]
    BY <1>1 DEF PolledIsCounted
  <2>1. r[1] \in Partitions
    BY DEF Records
  <2>2. CASE d = c /\ r[1] = tp
    BY <1>1, <1>3, <2>2 DEF SkipInv, Kinds
  <2>3. CASE ~ (d = c /\ r[1] = tp)
    <3>1. position'[d][r[1]] = position[d][r[1]]
      BY <1>1, <2>1, <2>3 DEF SkipInv, Kinds
    <3>. QED
      BY <1>1, <3>1 DEF SkipInv, PolledIsCounted, Consuming
  <2>. QED
    BY <2>2, <2>3
<1>. QED
  BY <1>1, <1>2, <1>4 DEF SkipInv, NothingSkipped

LEMMA PollSkip == ASSUME SkipInv, NEW c \in Consumers, PollRecords(c) PROVE SkipInv'
<1>1. PICK to \in [Partitions -> MaybeOffset] : PollsTo(c, to)
  BY PollFacts DEF SkipInv
<1>2. Kinds'
  BY PollKinds DEF SkipInv
<1>3. PolledIsCounted'
  <2> SUFFICES ASSUME NEW d \in Consumers, NEW r \in Records,
                      r[1] \in Consuming(d)', r[2] < position'[d][r[1]]
               PROVE  r \in counted \cup toCount'[d]
    BY <1>1 DEF PolledIsCounted, PollsTo
  <2>1. r[1] \in Partitions /\ r[2] \in Int
    BY DEF Records, Offsets
  <2>2. CASE d = c
    <3>1. position'[c] = to /\ toCount'[c] = Between(c, to)
      BY <1>1 DEF PollsTo, SkipInv, Kinds
    <3>2. r[1] \in Consuming(c)
      BY <1>1, <2>1, <2>2, <3>1 DEF PollsTo, Consuming
    <3>3. CASE r[2] < position[c][r[1]]
      BY <1>1, <3>2, <3>3, CommitsCounted DEF PollsTo
    <3>4. CASE position[c][r[1]] <= r[2]
      BY <2>2, <3>1, <3>2, <3>4 DEF Between
    <3>5. position[c][r[1]] \in Int
      BY <2>1 DEF SkipInv, Kinds, MaybeOffset, None
    <3>. QED
      BY <2>1, <2>2, <3>3, <3>4, <3>5
  <2>3. CASE d # c
    BY <1>1, <2>3 DEF PollsTo, SkipInv, Kinds, PolledIsCounted, Consuming
  <2>. QED
    BY <2>2, <2>3
<1>. QED
  BY <1>1, <1>2, <1>3 DEF SkipInv, NothingSkipped, PollsTo

LEMMA CommitSkip == ASSUME SkipInv, NEW c \in Consumers, AutoCommit(c) PROVE SkipInv'
<1>1. Kinds'
  BY CommitKinds DEF SkipInv
<1>2. /\ at[c] = "poll"
      /\ committed' = [tp \in Partitions |-> IF tp \in Consuming(c) THEN position[c][tp] ELSE committed[tp]]
      /\ UNCHANGED <<assigned, position, toCount, counted>>
  BY DEF AutoCommit, CommitPositions
<1>3. NothingSkipped'
  <2> SUFFICES ASSUME NEW r \in Records, r[2] < committed'[r[1]] PROVE r \in counted
    BY <1>2 DEF NothingSkipped
  <2>1. r[1] \in Partitions
    BY DEF Records
  <2>. QED
    BY <1>2, <2>1, CommitsCounted DEF SkipInv, NothingSkipped
<1>4. PolledIsCounted'
  BY <1>2 DEF SkipInv, PolledIsCounted, Consuming
<1>. QED
  BY <1>1, <1>3, <1>4 DEF SkipInv

LEMMA CountSkip == ASSUME SkipInv, NEW c \in Consumers, Count(c) PROVE SkipInv'
<1>1. Kinds'
  BY CountKinds DEF SkipInv
<1>2. PICK r \in toCount[c] : counted' = counted \cup {r} /\ toCount' = [toCount EXCEPT ![c] = @ \ {r}]
  BY DEF Count
<1>3. UNCHANGED <<committed, assigned, position>>
  BY DEF Count, groupVars
<1>4. \A d \in Consumers : counted \cup toCount[d] \subseteq counted' \cup toCount'[d]
  BY <1>2 DEF SkipInv, Kinds
<1>5. PolledIsCounted'
  BY <1>3, <1>4 DEF SkipInv, PolledIsCounted, Consuming
<1>. QED
  BY <1>1, <1>2, <1>3, <1>5 DEF SkipInv, NothingSkipped

LEMMA CrashSkip == ASSUME SkipInv, NEW c \in Consumers, CrashCounter(c) PROVE SkipInv'
<1>1. Kinds'
  BY CrashKinds DEF SkipInv
<1>2. /\ assigned' = [assigned EXCEPT ![c] = {}]
      /\ toCount' = [toCount EXCEPT ![c] = {}]
      /\ UNCHANGED <<committed, position, counted>>
  BY DEF CrashCounter, Leave
<1>3. PolledIsCounted'
  <2>1. Consuming(c)' = {}
    BY <1>2 DEF SkipInv, Kinds, Consuming
  <2>2. \A d \in Consumers : d # c => Consuming(d)' = Consuming(d) /\ toCount'[d] = toCount[d]
    BY <1>2 DEF SkipInv, Kinds, Consuming
  <2>. QED
    BY <1>2, <2>1, <2>2 DEF SkipInv, PolledIsCounted
<1>. QED
  BY <1>1, <1>2, <1>3 DEF SkipInv, NothingSkipped

LEMMA SkipStep ==
  ASSUME AutoOffsetReset = "earliest"
  PROVE  SkipInv /\ [CounterNext]_counterVars => SkipInv'
<1> SUFFICES ASSUME SkipInv, [CounterNext]_counterVars PROVE SkipInv'
  OBVIOUS
<1>1. ASSUME UNCHANGED <<committed, assigned, position, toCount, counted>> PROVE SkipInv'
  <2>1. Kinds'
    BY KindsStep DEF SkipInv
  <2>. QED
    BY <1>1, <2>1 DEF SkipInv, PolledIsCounted, NothingSkipped, Consuming
<1>2. CASE UNCHANGED counterVars
  BY <1>1, <1>2 DEF counterVars, groupVars, counterProcVars
<1>3. CASE \E tp \in Partitions : Produce(tp) /\ UNCHANGED counterProcVars
  BY <1>1, <1>3 DEF Produce, counterProcVars
<1>4. CASE \E c \in Consumers : StartCounter(c)
  BY <1>1, <1>4 DEF StartCounter, groupVars
<1>. QED
  BY <1>2, <1>3, <1>4, JoinSkip, ResetSkip, CommitSkip, PollSkip, CountSkip, CrashSkip DEF CounterNext

(***************************************************************************)
(* Nothing is counted twice: a process in every rebalance gives up its     *)
(* partitions only with their positions committed, and nobody else commits *)
(* them meanwhile.                                                         *)
(***************************************************************************)

LEMMA OnceInit == CounterInit => OnceInv
<1> SUFFICES ASSUME CounterInit PROVE OnceInv
  OBVIOUS
<1>1. /\ \A c \in Consumers : known[c] = None /\ assigned[c] = {} /\ toCount[c] = {}
      /\ \A c \in Consumers, r \in Records : count[c][r] = 0
  BY DEF CounterInit, GroupInit, CounterProcsInit, NotCounted
<1>2. \A c \in Consumers : InPlace(c)
  BY <1>1 DEF InPlace
<1>3. Shared /\ NotBehind
  BY <1>1 DEF Shared, NotBehind, Consuming
<1>. QED
  BY <1>2, <1>3, KindsInit DEF OnceInv

\* A process stays in place while its positions and the committed offsets only advance.
LEMMA StaysInPlace ==
  ASSUME Kinds, Kinds', NEW c \in Consumers, InPlace(c),
         UNCHANGED <<known[c], generation, count[c], toCount[c]>>,
         \A tp \in Partitions : committed[tp] <= committed'[tp],
         \A tp \in Consuming(c) : tp \in Consuming(c)' /\ position[c][tp] <= position'[c][tp]
  PROVE  InPlace(c)'
<1>1. ASSUME NEW tp \in Partitions
      PROVE  /\ committed[tp] \in Int /\ committed'[tp] \in Int
             /\ position[c][tp] \in Int /\ position'[c][tp] \in Int
  BY DEF Kinds, MaybeOffset, None
<1>2. \A r \in Records : r[1] \in Partitions /\ r[2] \in Int
  BY DEF Records, Offsets
<1>3. MayCommit(c)' = MayCommit(c)
  BY DEF MayCommit
<1>4. \A r \in Records : r[1] \in Consuming(c) /\ r[2] < position[c][r[1]] =>
                           r[1] \in Consuming(c)' /\ r[2] < position'[c][r[1]]
  BY <1>1, <1>2
<1>5. \A r \in Records : Passed(c, r) => Passed(c, r)'
  BY <1>1, <1>2, <1>3, <1>4 DEF Passed
<1>6. toCount[c] \subseteq Records
  BY DEF Kinds
<1>. QED
  BY <1>3, <1>4, <1>5, <1>6 DEF InPlace

LEMMA JoinOnce == ASSUME OnceInv, JoinCounters PROVE OnceInv'
<1>1. PICK members \in SUBSET {c \in Consumers : at[c] = "poll"} :
        /\ CommitAndJoin(members)
        /\ missed' = missed \cup {c \in Consumers \ members : known[c] # None}
  BY DEF JoinCounters
<1>2. UNCHANGED <<at, toCount, count, counted>>
  BY DEF JoinCounters
<1>3. Kinds /\ Kinds'
  BY JoinKinds DEF OnceInv
<1>4. /\ generation' = generation + 1
      /\ known' = [c \in Consumers |-> IF c \in members THEN generation + 1 ELSE known[c]]
      /\ \A c \in members, tp \in Partitions : position'[c][tp] = None
      /\ \A c, d \in members : c # d => assigned'[c] \cap assigned'[d] = {}
  BY <1>1, <1>3, JoinFacts
<1>5. \A c \in Consumers : MayCommit(c)' <=> c \in members
  <2> SUFFICES ASSUME NEW c \in Consumers PROVE MayCommit(c)' <=> c \in members
    OBVIOUS
  <2>1. generation \in Nat /\ known[c] \in Int /\ known[c] <= generation
    BY <1>3 DEF Kinds, None
  <2>. QED
    BY <1>4, <2>1 DEF MayCommit
<1>6. Shared' /\ NotBehind'
  BY <1>3, <1>4, <1>5 DEF Shared, NotBehind, Consuming, Kinds
<1>7. ASSUME NEW tp \in Partitions PROVE committed[tp] <= committed'[tp]
  <2>1. committed[tp] \in Int
    BY <1>3 DEF Kinds, MaybeOffset, None
  <2>. QED
    BY <1>1, <2>1, JoinCommits DEF OnceInv, NotBehind
<1>8. ASSUME NEW c \in Consumers \ missed' PROVE InPlace(c)'
  <2>1. InPlace(c) /\ (c \in members \/ known[c] = None)
    BY <1>1, <1>8 DEF OnceInv
  <2>2. known'[c] \in {None, generation'}
    BY <1>4, <2>1
  <2>3. MayCommit(c) => c \in members
    BY <1>3, <2>1 DEF MayCommit, Kinds, None
  <2>4. ASSUME NEW r \in Records, Passed(c, r) PROVE r[2] < committed'[r[1]]
    <3>1. r[1] \in Partitions /\ r[2] \in Int
      BY DEF Records, Offsets
    <3>2. CASE r[2] < committed[r[1]]
      <4>1. committed[r[1]] \in Int /\ committed'[r[1]] \in Int
        BY <1>3, <3>1 DEF Kinds, MaybeOffset, None
      <4>. QED
        BY <1>7, <3>1, <3>2, <4>1
    <3>3. CASE MayCommit(c) /\ r[1] \in Consuming(c) /\ r[2] < position[c][r[1]]
      <4>1. c \in members
        BY <2>3, <3>3
      <4>2. PICK d \in members : MayCommit(d) /\ r[1] \in Consuming(d) /\ committed'[r[1]] = position[d][r[1]]
        BY <1>1, <3>1, <3>3, <4>1, JoinCommits
      <4>3. d = c
        BY <3>3, <4>2 DEF OnceInv, Shared, Consuming
      <4>. QED
        BY <3>3, <4>2, <4>3
    <3>. QED
      BY <2>4, <3>2, <3>3 DEF Passed
  <2>5. toCount'[c] = {}
    BY <1>2, <1>3, <2>1, <2>3 DEF InPlace, Kinds
  <2>. QED
    BY <1>2, <2>1, <2>2, <2>4, <2>5 DEF InPlace, Passed
<1>. QED
  BY <1>3, <1>6, <1>8 DEF OnceInv

LEMMA ResetOnce ==
  ASSUME OnceInv, NEW c \in Consumers, NEW tp \in Partitions, ResetPosition(c, tp)
  PROVE  OnceInv'
<1>1. /\ tp \in assigned[c] /\ position[c][tp] = None
      /\ position' = [position EXCEPT ![c][tp] = StartOffset(tp)]
      /\ UNCHANGED <<committed, generation, known, assigned, toCount, count, missed>>
  BY DEF ResetPosition, FetchOffset
<1>2. Kinds /\ Kinds'
  BY ResetKinds DEF OnceInv
<1>3. StartOffset(tp) \in 0 .. MaxRecords /\ committed[tp] <= StartOffset(tp)
  BY <1>2, OffsetFacts
<1>4. \A q \in Partitions : committed[q] \in Int
  BY <1>2 DEF Kinds, MaybeOffset, None
<1>5. \A d \in Consumers, q \in Partitions :
        position'[d][q] = IF d = c /\ q = tp THEN StartOffset(tp) ELSE position[d][q]
  BY <1>1, <1>2 DEF Kinds
<1>6. \A d \in Consumers : \A q \in Consuming(d) : q \in Partitions /\ q \in Consuming(d)' /\ position'[d][q] = position[d][q]
  BY <1>1, <1>2, <1>5 DEF Consuming, Kinds
<1>7. \A d \in Consumers : \A q \in Consuming(d)' : q \in Consuming(d) \/ (d = c /\ q = tp)
  BY <1>1, <1>2, <1>5 DEF Consuming, Kinds
<1>8. Shared'
  BY <1>1 DEF OnceInv, Shared, MayCommit
<1>9. NotBehind'
  BY <1>1, <1>3, <1>5, <1>6, <1>7 DEF OnceInv, NotBehind, MayCommit
<1>10. ASSUME NEW d \in Consumers \ missed PROVE InPlace(d)'
  <2>1. \A q \in Consuming(d) : q \in Consuming(d)' /\ position[d][q] <= position'[d][q]
    <3>1. \A q \in Partitions : position[d][q] \in Int
      BY <1>2 DEF Kinds, MaybeOffset, None
    <3>. QED
      BY <1>6, <3>1
  <2>2. \A q \in Partitions : committed[q] <= committed'[q]
    BY <1>1, <1>4
  <2>. QED
    BY <1>1, <1>2, <2>1, <2>2, StaysInPlace DEF OnceInv
<1>. QED
  BY <1>1, <1>2, <1>8, <1>9, <1>10 DEF OnceInv

LEMMA CommitOnce == ASSUME OnceInv, NEW c \in Consumers, AutoCommit(c) PROVE OnceInv'
<1>1. Kinds /\ Kinds'
  BY CommitKinds DEF OnceInv
<1>2. /\ MayCommit(c)
      /\ committed' = [tp \in Partitions |-> IF tp \in Consuming(c) THEN position[c][tp] ELSE committed[tp]]
      /\ UNCHANGED <<generation, known, assigned, position, toCount, count, missed>>
  BY DEF AutoCommit, CommitPositions
<1>3. \A tp \in Partitions : committed[tp] \in Int
                           /\ \A d \in Consumers : position[d][tp] \in Int
  BY <1>1 DEF Kinds, MaybeOffset, None
<1>4. \A tp \in Partitions : committed[tp] <= committed'[tp]
  BY <1>2, <1>3 DEF OnceInv, NotBehind
<1>5. \A d \in Consumers : Consuming(d)' = Consuming(d) /\ MayCommit(d)' = MayCommit(d)
  BY <1>2 DEF Consuming, MayCommit
<1>6. Shared'
  BY <1>2, <1>5 DEF OnceInv, Shared
<1>7. ASSUME NEW d \in Consumers, MayCommit(d), NEW tp \in Consuming(d)
      PROVE  committed'[tp] <= position[d][tp]
  <2>1. tp \in Partitions
    BY <1>1 DEF Consuming, Kinds
  <2>2. CASE tp \in Consuming(c)
    <3>1. d = c
      BY <1>2, <1>7, <2>2 DEF OnceInv, Shared, Consuming
    <3>. QED
      BY <1>2, <1>3, <2>1, <2>2, <3>1
  <2>3. CASE tp \notin Consuming(c)
    BY <1>2, <1>7, <2>1, <2>3 DEF OnceInv, NotBehind
  <2>. QED
    BY <2>2, <2>3
<1>8. NotBehind'
  BY <1>2, <1>5, <1>7 DEF NotBehind
<1>9. ASSUME NEW d \in Consumers \ missed PROVE InPlace(d)'
  <2>1. \A q \in Consuming(d) : q \in Consuming(d)' /\ position[d][q] <= position'[d][q]
    BY <1>1, <1>2, <1>3, <1>5 DEF Consuming, Kinds
  <2>. QED
    BY <1>1, <1>2, <1>4, <2>1, StaysInPlace DEF OnceInv
<1>. QED
  BY <1>1, <1>2, <1>6, <1>8, <1>9 DEF OnceInv

LEMMA PollOnce == ASSUME OnceInv, NEW c \in Consumers, PollRecords(c) PROVE OnceInv'
<1>1. Kinds /\ Kinds'
  BY PollKinds DEF OnceInv
<1>2. PICK to \in [Partitions -> MaybeOffset] : PollsTo(c, to)
  BY <1>1, PollFacts
<1>3. /\ position' = [position EXCEPT ![c] = to]
      /\ toCount' = [toCount EXCEPT ![c] = Between(c, to)]
      /\ known[c] # None
      /\ UNCHANGED <<committed, generation, known, assigned, count, missed>>
  BY <1>2 DEF PollsTo
<1>4. \A tp \in Partitions : committed[tp] \in Int /\ to[tp] \in Int
                           /\ \A d \in Consumers : position[d][tp] \in Int
  BY <1>1 DEF Kinds, MaybeOffset, None
<1>5. \A d \in Consumers : MayCommit(d)' = MayCommit(d)
  BY <1>3 DEF MayCommit
<1>6. \A d \in Consumers : d # c => position'[d] = position[d] /\ toCount'[d] = toCount[d]
  BY <1>1, <1>3 DEF Kinds
<1>7. position'[c] = to /\ toCount'[c] = Between(c, to)
  BY <1>1, <1>3 DEF Kinds
<1>8. ASSUME NEW d \in Consumers
      PROVE  /\ Consuming(d)' = Consuming(d) /\ Consuming(d) \subseteq Partitions
             /\ \A tp \in Consuming(d) : position[d][tp] <= position'[d][tp]
  <2>1. CASE d = c
    BY <1>1, <1>2, <1>3, <1>4, <1>7, <2>1 DEF Consuming, PollsTo, Kinds
  <2>2. CASE d # c
    BY <1>1, <1>3, <1>4, <1>6, <2>2 DEF Consuming, Kinds
  <2>. QED
    BY <2>1, <2>2
<1>9. Shared'
  BY <1>3, <1>5 DEF OnceInv, Shared
<1>10. NotBehind'
  <2> SUFFICES ASSUME NEW d \in Consumers, MayCommit(d), NEW tp \in Consuming(d)
               PROVE  committed[tp] <= position'[d][tp]
    BY <1>3, <1>5, <1>8 DEF NotBehind
  <2>1. tp \in Partitions /\ position[d][tp] <= position'[d][tp] /\ committed[tp] <= position[d][tp]
    BY <1>8 DEF OnceInv, NotBehind
  <2>2. position'[d][tp] \in Int
    BY <1>1, <2>1 DEF Kinds, MaybeOffset, None
  <2>. QED
    BY <1>4, <2>1, <2>2
<1>11. \A tp \in Partitions : committed[tp] <= committed'[tp]
  BY <1>3, <1>4
<1>12. ASSUME NEW d \in Consumers \ missed, d # c PROVE InPlace(d)'
  <2>1. InPlace(d) /\ UNCHANGED <<known[d], generation, count[d], toCount[d]>>
    BY <1>3, <1>6, <1>12 DEF OnceInv
  <2>. QED
    BY <1>1, <1>8, <1>11, <2>1, StaysInPlace
<1>13. ASSUME c \notin missed PROVE InPlace(c)'
  <2>1. InPlace(c) /\ MayCommit(c)
    BY <1>3, <1>13 DEF OnceInv, InPlace, MayCommit
  <2>2. ASSUME NEW r \in Records
        PROVE  /\ r[1] \in Partitions /\ r[2] \in Int
               /\ Passed(c, r) => Passed(c, r)'
    <3>1. r[1] \in Partitions /\ r[2] \in Int
      BY DEF Records, Offsets
    <3>. QED
      BY <1>3, <1>4, <1>5, <1>7, <1>8, <3>1 DEF Passed
  <2>3. ASSUME NEW r \in Between(c, to)
        PROVE  count[c][r] = 0 /\ r[1] \in Consuming(c) /\ r[2] < to[r[1]]
    <3>1. /\ r \in Records /\ r[1] \in Consuming(c)
          /\ position[c][r[1]] <= r[2] /\ r[2] < to[r[1]]
      BY DEF Between
    <3>2. committed[r[1]] <= position[c][r[1]]
      BY <2>1, <3>1 DEF OnceInv, NotBehind
    <3>3. ~ Passed(c, r)
      BY <1>4, <2>2, <3>1, <3>2 DEF Passed
    <3>4. count[c][r] \in Nat /\ count[c][r] <= 1 /\ count[c][r] # 1
      BY <1>1, <2>1, <3>1, <3>3 DEF InPlace, Kinds
    <3>. QED
      BY <3>1, <3>4
  <2>. QED
    BY <1>3, <1>5, <1>7, <1>8, <2>1, <2>2, <2>3 DEF InPlace
<1>. QED
  BY <1>1, <1>3, <1>9, <1>10, <1>12, <1>13 DEF OnceInv

LEMMA CountOnce == ASSUME OnceInv, NEW c \in Consumers, Count(c) PROVE OnceInv'
<1>1. Kinds /\ Kinds'
  BY CountKinds DEF OnceInv
<1>2. PICK r \in toCount[c] :
        /\ count' = [count EXCEPT ![c][r] = @ + 1]
        /\ toCount' = [toCount EXCEPT ![c] = @ \ {r}]
  BY DEF Count
<1>3. UNCHANGED <<committed, generation, known, assigned, position, missed>>
  BY DEF Count, groupVars
<1>4. \A d \in Consumers : Consuming(d)' = Consuming(d) /\ MayCommit(d)' = MayCommit(d)
  BY <1>3 DEF Consuming, MayCommit
<1>5. Shared' /\ NotBehind'
  BY <1>3, <1>4 DEF OnceInv, Shared, NotBehind
<1>6. \A d \in Consumers, q \in Records : Passed(d, q)' = Passed(d, q)
  BY <1>3, <1>4 DEF Passed
<1>7. ASSUME NEW d \in Consumers \ missed PROVE InPlace(d)'
  <2>1. InPlace(d)
    BY DEF OnceInv
  <2>2. CASE d # c
    <3>1. count'[d] = count[d] /\ toCount'[d] = toCount[d] /\ toCount[d] \subseteq Records
      BY <1>1, <1>2, <2>2 DEF Kinds
    <3>. QED
      BY <1>3, <1>4, <1>6, <2>1, <3>1 DEF InPlace
  <2>3. CASE d = c
    <3>1. r \in Records /\ toCount[c] \subseteq Records
      BY <1>1 DEF Kinds
    <3>2. \A q \in Records : count'[c][q] = IF q = r THEN count[c][r] + 1 ELSE count[c][q]
      BY <1>1, <1>2, <3>1 DEF Kinds
    <3>3. toCount'[c] = toCount[c] \ {r}
      BY <1>1, <1>2 DEF Kinds
    <3>4. count[c][r] = 0 /\ Passed(c, r)
      BY <2>1, <2>3 DEF InPlace, Passed
    <3>. QED
      BY <1>3, <1>4, <1>6, <2>1, <2>3, <3>1, <3>2, <3>3, <3>4 DEF InPlace
  <2>. QED
    BY <2>2, <2>3
<1>. QED
  BY <1>1, <1>3, <1>5, <1>7 DEF OnceInv

LEMMA CrashOnce == ASSUME OnceInv, NEW c \in Consumers, CrashCounter(c) PROVE OnceInv'
<1>1. Kinds /\ Kinds'
  BY CrashKinds DEF OnceInv
<1>2. /\ known' = [known EXCEPT ![c] = None]
      /\ assigned' = [assigned EXCEPT ![c] = {}]
      /\ toCount' = [toCount EXCEPT ![c] = {}]
      /\ count' = [count EXCEPT ![c] = NotCounted]
      /\ missed' = missed \ {c}
      /\ UNCHANGED <<committed, generation, position>>
  BY DEF CrashCounter, Leave
<1>3. ~ MayCommit(c)'
  BY <1>1, <1>2 DEF MayCommit, Kinds, None
<1>4. ASSUME NEW d \in Consumers, d # c
      PROVE  /\ Consuming(d)' = Consuming(d) /\ MayCommit(d)' = MayCommit(d)
             /\ UNCHANGED <<assigned[d], known[d], count[d], toCount[d]>>
  BY <1>1, <1>2, <1>4 DEF Consuming, MayCommit, Kinds
<1>5. Shared'
  BY <1>3, <1>4 DEF OnceInv, Shared
<1>6. NotBehind'
  BY <1>2, <1>3, <1>4 DEF OnceInv, NotBehind
<1>7. InPlace(c)'
  BY <1>1, <1>2 DEF InPlace, NotCounted, Kinds
<1>8. ASSUME NEW d \in Consumers \ missed', d # c PROVE InPlace(d)'
  <2>1. \A tp \in Partitions : committed[tp] \in Int /\ position[d][tp] \in Int
    BY <1>1 DEF Kinds, MaybeOffset, None
  <2>2. \A tp \in Partitions : committed[tp] <= committed'[tp]
    BY <1>2, <2>1
  <2>3. \A tp \in Consuming(d) : tp \in Consuming(d)' /\ position[d][tp] <= position'[d][tp]
    BY <1>1, <1>2, <1>4, <1>8, <2>1 DEF Consuming, Kinds
  <2>4. InPlace(d) /\ UNCHANGED <<known[d], generation, count[d], toCount[d]>>
    BY <1>2, <1>4, <1>8 DEF OnceInv
  <2>. QED
    BY <1>1, <2>2, <2>3, <2>4, StaysInPlace
<1>. QED
  BY <1>1, <1>5, <1>6, <1>7, <1>8 DEF OnceInv

LEMMA OnceStep == OnceInv /\ [CounterNext]_counterVars => OnceInv'
<1> SUFFICES ASSUME OnceInv, [CounterNext]_counterVars PROVE OnceInv'
  OBVIOUS
<1>1. ASSUME UNCHANGED <<committed, generation, known, assigned, position, toCount, count, missed>>
      PROVE  OnceInv'
  <2>1. Kinds'
    BY KindsStep DEF OnceInv
  <2>2. \A c \in Consumers : Consuming(c)' = Consuming(c) /\ MayCommit(c)' = MayCommit(c)
    BY <1>1 DEF Consuming, MayCommit
  <2>3. \A c \in Consumers, r \in Records : Passed(c, r)' = Passed(c, r)
    BY <1>1, <2>2 DEF Passed
  <2>. QED
    BY <1>1, <2>1, <2>2, <2>3 DEF OnceInv, Shared, NotBehind, InPlace, Kinds
<1>2. CASE UNCHANGED counterVars
  BY <1>1, <1>2 DEF counterVars, groupVars, counterProcVars
<1>3. CASE \E tp \in Partitions : Produce(tp) /\ UNCHANGED counterProcVars
  BY <1>1, <1>3 DEF Produce, counterProcVars
<1>4. CASE \E c \in Consumers : StartCounter(c)
  BY <1>1, <1>4 DEF StartCounter, groupVars
<1>. QED
  BY <1>2, <1>3, <1>4, JoinOnce, ResetOnce, CommitOnce, PollOnce, CountOnce, CrashOnce DEF CounterNext

(***************************************************************************)
(* The theorems.                                                           *)
(***************************************************************************)

\* PopularTopicConsumer with automatic commits and "earliest": whatever crashes or moves,
\* what is behind the committed offset was counted by some process.
THEOREM NothingIsSkipped ==
  ASSUME AutoOffsetReset = "earliest"
  PROVE  CounterSpec => []NothingSkipped
<1>1. SkipInv => NothingSkipped
  BY DEF SkipInv
<1>2. SkipInv /\ [CounterNext]_counterVars => SkipInv'
  BY SkipStep
<1>. QED
  BY <1>1, <1>2, SkipInit, PTL DEF CounterSpec

\* PopularTopicConsumer: a process that takes part in every rebalance counts no record twice,
\* under either policy, although it starts again from the committed offset each time.
THEOREM NothingCountedTwice == CounterSpec => []CountedOnce
<1>1. OnceInv => CountedOnce
  BY DEF OnceInv, InPlace, CountedOnce
<1>. QED
  BY <1>1, OnceInit, OnceStep, PTL DEF CounterSpec

\* The same of the executions of the labs' programs that are of this one.
THEOREM CountsAreExact ==
  ASSUME AutoOffsetReset = "earliest"
  PROVE  McSpec => []CountsExact
<1> DEFINE Inv == running = "popular_topic" => SkipInv /\ OnceInv
<1>1. McInit => Inv
  BY SkipInit, OnceInit DEF McInit, CounterInit
<1>2. Inv /\ [McNext]_allVars => Inv'
  <2> SUFFICES ASSUME Inv, [McNext]_allVars, running' = "popular_topic" PROVE SkipInv' /\ OnceInv'
    OBVIOUS
  <2>1. running = "popular_topic" /\ [CounterNext]_counterVars
    BY DEF McNext, Counters, Forwarders, Plain, allVars, vars, counterVars
  <2>. QED
    BY <2>1, SkipStep, OnceStep
<1>3. Inv => CountsExact
  BY DEF CountsExact, SkipInv, OnceInv, InPlace, CountedOnce
<1>. QED
  BY <1>1, <1>2, <1>3, PTL DEF McSpec

(***************************************************************************)
(* The plain consumers (PlainConsumers)                                    *)
(***************************************************************************)

(***************************************************************************)
(* The inductive invariant.                                                *)
(***************************************************************************)

PlainKinds ==
  /\ end \in [Partitions -> 0 .. MaxRecords]
  /\ committed \in [Partitions -> 0 .. MaxRecords]
  /\ assigned \in [Consumers -> SUBSET Partitions]
  /\ position \in [Consumers -> [Partitions -> MaybeOffset]]
  /\ program \in {"forward", "manual"}
  /\ doing \in [Consumers -> {"down", "poll", "work", "commit"}]
  /\ inHand \in [Consumers -> SUBSET Records]
  /\ buffer \in [Consumers -> SUBSET Records]
  /\ \A c \in Consumers : doing[c] \in {"down", "poll"} => inHand[c] = {}
  /\ \A c \in Consumers : doing[c] = "commit" => program = "manual"

\* A record that is not lost without a process ending.
Accounted(r) ==
  \/ r \in output \cup dropped
  \/ \E c \in Consumers : r \in buffer[c] \/ (program = "manual" /\ r \in inHand[c])

\* What a process has polled is accounted for, unless it still has to go through it.
PolledIsAccounted ==
  \A c \in Consumers, r \in Records :
    r[1] \in Consuming(c) /\ r[2] < position[c][r[1]] => Accounted(r) \/ r \in inHand[c]

CommittedIsAccounted == \A r \in Records : r[2] < committed[r[1]] => Accounted(r)

PlainInv == PlainKinds /\ PolledIsAccounted /\ CommittedIsAccounted

(***************************************************************************)
(* Steps that leave positions and committed offsets alone.                 *)
(***************************************************************************)

\* Then it is enough that a record goes from one place to the next.
LEMMA SamePositions ==
  ASSUME PlainInv, PlainKinds', UNCHANGED <<committed, position>>,
         \A c \in Consumers : assigned'[c] \subseteq assigned[c],
         \A r \in Records : Accounted(r) => Accounted(r)',
         \A c \in Consumers : \A r \in inHand[c] : Accounted(r)' \/ r \in inHand'[c]
  PROVE  PlainInv'
<1>1. \A c \in Consumers : Consuming(c)' \subseteq Consuming(c)
  BY DEF Consuming
<1>2. PolledIsAccounted'
  BY <1>1 DEF PlainInv, PolledIsAccounted
<1>3. CommittedIsAccounted'
  BY DEF PlainInv, CommittedIsAccounted
<1>. QED
  BY <1>2, <1>3 DEF PlainInv

LEMMA ForwardPlain == ASSUME PlainInv, NEW c \in Consumers, Forward(c) PROVE PlainInv'
<1>1. PICK r \in Records : Goes(c, r) /\ buffer' = [buffer EXCEPT ![c] = @ \cup {r}]
  BY DEF Forward
<1>2. /\ inHand' = [inHand EXCEPT ![c] = @ \ {r}]
      /\ doing' = [doing EXCEPT ![c] = IF inHand'[c] = {} THEN "poll" ELSE "work"]
      /\ UNCHANGED <<end, committed, assigned, position, program, output, dropped>>
      /\ program = "forward"
  BY <1>1 DEF Forward, Goes, GoesOn, groupVars
<1>3. PlainKinds'
  BY <1>1, <1>2 DEF PlainInv, PlainKinds
<1>4. \A q \in Records : Accounted(q) => Accounted(q)'
  BY <1>1, <1>2 DEF Accounted, PlainInv, PlainKinds
<1>5. \A d \in Consumers : \A q \in inHand[d] : Accounted(q)' \/ q \in inHand'[d]
  BY <1>1, <1>2 DEF Accounted, PlainInv, PlainKinds
<1>. QED
  BY <1>2, <1>3, <1>4, <1>5, SamePositions

LEMMA SentPlain == ASSUME PlainInv, NEW c \in Consumers, BufferSent(c) PROVE PlainInv'
<1>1. PICK r \in buffer[c] : buffer' = [buffer EXCEPT ![c] = @ \ {r}] /\ output' = output \cup {r}
  BY DEF BufferSent
<1>2. UNCHANGED <<end, committed, assigned, position, program, doing, inHand, dropped>>
  BY DEF BufferSent, groupVars
<1>3. PlainKinds'
  BY <1>1, <1>2 DEF PlainInv, PlainKinds
<1>4. \A q \in Records : Accounted(q) => Accounted(q)'
  BY <1>1, <1>2 DEF Accounted, PlainInv, PlainKinds
<1>. QED
  BY <1>2, <1>3, <1>4, SamePositions

LEMMA PrintsPlain == ASSUME PlainInv, NEW c \in Consumers, PrintPlain(c) PROVE PlainInv'
<1>1. PICK r \in Records : Goes(c, r) /\ output' = output \cup {r}
  BY DEF PrintPlain
<1>2. /\ inHand' = [inHand EXCEPT ![c] = @ \ {r}]
      /\ doing' = [doing EXCEPT ![c] =
           IF numConsumed'[c] = commitEvery THEN "commit" ELSE IF inHand'[c] = {} THEN "poll" ELSE "work"]
      /\ UNCHANGED <<end, committed, assigned, position, program, buffer, dropped>>
      /\ program = "manual"
  BY <1>1 DEF PrintPlain, Goes, GoesOn, groupVars
<1>3. PlainKinds'
  BY <1>1, <1>2 DEF PlainInv, PlainKinds
<1>4. \A q \in Records : Accounted(q) => Accounted(q)'
  BY <1>1, <1>2 DEF Accounted, PlainInv, PlainKinds
<1>5. \A d \in Consumers : \A q \in inHand[d] : Accounted(q)' \/ q \in inHand'[d]
  BY <1>1, <1>2 DEF Accounted, PlainInv, PlainKinds
<1>. QED
  BY <1>2, <1>3, <1>4, <1>5, SamePositions

LEMMA EndsPlain == ASSUME PlainInv, NEW c \in Consumers, Ends(c) PROVE PlainInv'
<1>1. /\ assigned' = [assigned EXCEPT ![c] = {}]
      /\ doing' = [doing EXCEPT ![c] = "down"]
      /\ dropped' = dropped \cup inHand[c] \cup buffer[c]
      /\ inHand' = [inHand EXCEPT ![c] = {}]
      /\ buffer' = [buffer EXCEPT ![c] = {}]
      /\ UNCHANGED <<end, committed, position, program, output>>
  BY DEF Ends, Leave
<1>2. PlainKinds'
  BY <1>1 DEF PlainInv, PlainKinds
<1>3. \A q \in Records : Accounted(q) => Accounted(q)'
  BY <1>1 DEF Accounted, PlainInv, PlainKinds
<1>4. \A d \in Consumers : \A q \in inHand[d] : Accounted(q)' \/ q \in inHand'[d]
  BY <1>1 DEF Accounted, PlainInv, PlainKinds
<1>5. \A d \in Consumers : assigned'[d] \subseteq assigned[d]
  BY <1>1 DEF PlainInv, PlainKinds
<1>. QED
  BY <1>1, <1>2, <1>3, <1>4, <1>5, SamePositions

(***************************************************************************)
(* Steps that poll and commit.                                             *)
(***************************************************************************)

\* What a process may commit is accounted for: it is in poll, with nothing in hand, or it is
\* the manual consumer, and a record in hand counts.
LEMMA CommitsAccounted ==
  ASSUME PlainInv, NEW c \in Consumers, doing[c] = "poll" \/ doing[c] = "commit",
         NEW r \in Records, r[1] \in Consuming(c), r[2] < position[c][r[1]]
  PROVE  Accounted(r)
<1>1. Accounted(r) \/ r \in inHand[c]
  BY DEF PlainInv, PolledIsAccounted
<1>. QED
  BY <1>1 DEF PlainInv, PlainKinds, Accounted

\* The commit of a process that is in poll, or of the manual consumer.
LEMMA PositionsCommitted ==
  ASSUME PlainInv, NEW c \in Consumers, doing[c] = "poll" \/ doing[c] = "commit",
         CommitPositions(c), PlainKinds', UNCHANGED <<program, inHand, buffer, output, dropped>>
  PROVE  PlainInv'
<1>1. /\ committed' = [tp \in Partitions |-> IF tp \in Consuming(c) THEN position[c][tp] ELSE committed[tp]]
      /\ UNCHANGED <<assigned, position>>
  BY DEF CommitPositions
<1>2. \A r \in Records : Accounted(r)' = Accounted(r)
  BY DEF Accounted
<1>3. CommittedIsAccounted'
  <2> SUFFICES ASSUME NEW r \in Records, r[2] < committed'[r[1]] PROVE Accounted(r)
    BY <1>2 DEF CommittedIsAccounted
  <2>1. r[1] \in Partitions
    BY DEF Records
  <2>. QED
    BY <1>1, <2>1, CommitsAccounted DEF PlainInv, CommittedIsAccounted
<1>4. PolledIsAccounted'
  BY <1>1, <1>2 DEF PlainInv, PolledIsAccounted, Consuming
<1>. QED
  BY <1>3, <1>4 DEF PlainInv

\* Committed offsets stay in their range.
LEMMA CommitsInRange ==
  ASSUME PlainKinds, NEW c \in Consumers, CommitPositions(c)
  PROVE  committed' \in [Partitions -> 0 .. MaxRecords]
  BY DEF CommitPositions, PlainKinds, Consuming, MaybeOffset, None

LEMMA InPollPlain == ASSUME PlainInv, NEW c \in Consumers, CommitsInPoll(c) PROVE PlainInv'
<1>1. /\ doing[c] = "poll" /\ CommitPositions(c)
      /\ UNCHANGED <<end, assigned, position, program, doing, inHand, buffer, output, dropped>>
  BY DEF CommitsInPoll, CommitPositions, plainProcVars
<1>2. PlainKinds'
  BY <1>1, CommitsInRange DEF PlainInv, PlainKinds
<1>. QED
  BY <1>1, <1>2, PositionsCommitted

LEMMA CommitsPlain == ASSUME PlainInv, NEW c \in Consumers, CommitPlain(c) PROVE PlainInv'
<1>1. CASE Ends(c)
  BY <1>1, EndsPlain
<1>2. CASE CommitPositions(c) /\ UNCHANGED <<program, inHand, buffer, output, dropped>>
           /\ doing' = [doing EXCEPT ![c] = IF inHand[c] = {} THEN "poll" ELSE "work"]
  <2>1. doing[c] = "commit" /\ UNCHANGED <<end, assigned, position>>
    BY <1>2 DEF CommitPlain, CommitPositions
  <2>2. PlainKinds'
    BY <1>2, <2>1, CommitsInRange DEF PlainInv, PlainKinds
  <2>. QED
    BY <1>2, <2>1, <2>2, PositionsCommitted
<1>. QED
  BY <1>1, <1>2 DEF CommitPlain

LEMMA JoinsPlain == ASSUME PlainInv, JoinPlain PROVE PlainInv'
<1>1. PICK members \in SUBSET {c \in Consumers : doing[c] = "poll"} :
        CommitAndJoin(members) \/ Rebalance(members)
  BY DEF JoinPlain
<1>2. Regroup(members) /\ UNCHANGED <<end, plainProcVars>>
  BY <1>1 DEF JoinPlain, CommitAndJoin, Rebalance, Regroup
<1>3. UNCHANGED <<end, program, doing, inHand, buffer, output, dropped>>
  BY <1>2 DEF plainProcVars
<1>4. /\ position' = [c \in Consumers |->
           IF c \in members THEN [tp \in Partitions |-> None] ELSE position[c]]
      /\ assigned' \in [Consumers -> SUBSET Partitions]
      /\ \A c \in Consumers \ members : assigned'[c] = assigned[c]
  <2>1. PICK owner \in [Partitions -> members] :
          assigned' = [c \in Consumers |->
            IF c \in members THEN {tp \in Partitions : owner[tp] = c} ELSE assigned[c]]
    BY <1>2 DEF Regroup
  <2>. QED
    BY <1>2, <2>1 DEF Regroup, PlainInv, PlainKinds
<1>5. ASSUME NEW tp \in Partitions
      PROVE  \/ \E c \in members : tp \in Consuming(c) /\ committed'[tp] = position[c][tp]
             \/ committed'[tp] = committed[tp]
  BY <1>1, JoinCommits DEF Rebalance
<1>6. committed' \in [Partitions -> 0 .. MaxRecords]
  <2>1. ASSUME NEW tp \in Partitions PROVE committed'[tp] \in 0 .. MaxRecords
    BY <1>5 DEF PlainInv, PlainKinds, Consuming, MaybeOffset, None
  <2>2. committed' = committed \/ committed' = [tp \in Partitions |-> committed'[tp]]
    BY <1>1 DEF CommitAndJoin, Rebalance
  <2>. QED
    BY <2>1, <2>2 DEF PlainInv, PlainKinds
<1>7. PlainKinds'
  <2>1. position' \in [Consumers -> [Partitions -> MaybeOffset]]
    BY <1>4 DEF PlainInv, PlainKinds, MaybeOffset, None
  <2>. QED
    BY <1>3, <1>4, <1>6, <2>1 DEF PlainInv, PlainKinds
<1>8. \A r \in Records : Accounted(r)' = Accounted(r)
  BY <1>3 DEF Accounted
<1>9. CommittedIsAccounted'
  <2> SUFFICES ASSUME NEW r \in Records, r[2] < committed'[r[1]] PROVE Accounted(r)
    BY <1>8 DEF CommittedIsAccounted
  <2>1. r[1] \in Partitions
    BY DEF Records
  <2>2. CASE \E c \in members : r[1] \in Consuming(c) /\ committed'[r[1]] = position[c][r[1]]
    BY <2>2, CommitsAccounted
  <2>3. CASE committed'[r[1]] = committed[r[1]]
    BY <2>3 DEF PlainInv, CommittedIsAccounted
  <2>. QED
    BY <1>5, <2>1, <2>2, <2>3
<1>10. PolledIsAccounted'
  <2>1. \A c \in Consumers : Consuming(c)' = IF c \in members THEN {} ELSE Consuming(c)
    BY <1>4 DEF Consuming, PlainInv, PlainKinds
  <2>. QED
    BY <1>3, <1>4, <1>8, <2>1 DEF PlainInv, PolledIsAccounted
<1>. QED
  BY <1>7, <1>9, <1>10 DEF PlainInv

\* A process starts from the committed offset: the group was used before.
LEMMA ResetsPlain ==
  ASSUME PlainInv, NEW c \in Consumers, NEW tp \in Partitions, ResetPlain(c, tp)
  PROVE  PlainInv'
<1>1. /\ position' = [position EXCEPT ![c][tp] = StartOffset(tp)]
      /\ UNCHANGED <<end, committed, assigned, plainProcVars>>
      /\ StartOffset(tp) = committed[tp] /\ committed[tp] \in MaybeOffset
  BY DEF ResetPlain, FetchOffset, StartOffset, PlainInv, PlainKinds, MaybeOffset, None
<1>2. PlainKinds'
  BY <1>1 DEF PlainInv, PlainKinds, plainProcVars
<1>3. \A r \in Records : Accounted(r)' = Accounted(r)
  BY <1>1 DEF Accounted, plainProcVars
<1>4. PolledIsAccounted'
  <2> SUFFICES ASSUME NEW d \in Consumers, NEW r \in Records,
                      r[1] \in Consuming(d)', r[2] < position'[d][r[1]]
               PROVE  Accounted(r) \/ r \in inHand[d]
    BY <1>1, <1>3 DEF PolledIsAccounted, plainProcVars
  <2>1. r[1] \in Partitions
    BY DEF Records
  <2>2. CASE d = c /\ r[1] = tp
    BY <1>1, <2>2 DEF PlainInv, PlainKinds, CommittedIsAccounted
  <2>3. CASE ~ (d = c /\ r[1] = tp)
    <3>1. position'[d][r[1]] = position[d][r[1]]
      BY <1>1, <2>1, <2>3 DEF PlainInv, PlainKinds
    <3>. QED
      BY <1>1, <3>1 DEF PlainInv, PolledIsAccounted, Consuming
  <2>. QED
    BY <2>2, <2>3
<1>. QED
  BY <1>1, <1>2, <1>3, <1>4 DEF PlainInv, CommittedIsAccounted

LEMMA PollsPlain == ASSUME PlainInv, NEW c \in Consumers, PollPlain(c) PROVE PlainInv'
<1>1. PICK to \in Fetched(c) : Fetch(c, to) /\ inHand' = [inHand EXCEPT ![c] = Between(c, to)]
  BY DEF PollPlain
<1>2. /\ position' = [position EXCEPT ![c] = to]
      /\ doing' = [doing EXCEPT ![c] = "work"]
      /\ inHand[c] = {}
      /\ UNCHANGED <<end, committed, assigned, program, buffer, output, dropped>>
  BY <1>1 DEF PollPlain, Fetch, PlainInv, PlainKinds
<1>3. to \in [Partitions -> MaybeOffset] /\ Between(c, to) \in SUBSET Records
  BY DEF Fetched, Between, MaybeOffset
<1>4. PlainKinds'
  BY <1>1, <1>2, <1>3 DEF PlainInv, PlainKinds
<1>5. \A r \in Records : Accounted(r) => Accounted(r)'
  BY <1>1, <1>2 DEF Accounted, PlainInv, PlainKinds
<1>6. PolledIsAccounted'
  <2> SUFFICES ASSUME NEW d \in Consumers, NEW r \in Records,
                      r[1] \in Consuming(d)', r[2] < position'[d][r[1]]
               PROVE  Accounted(r)' \/ r \in inHand'[d]
    BY DEF PolledIsAccounted
  <2>1. r[1] \in Partitions /\ r[2] \in Int
    BY DEF Records, Offsets
  <2>2. CASE d = c
    <3>1. position'[c] = to /\ inHand'[c] = Between(c, to)
      BY <1>1, <1>2 DEF PlainInv, PlainKinds
    <3>2. r[1] \in Consuming(c)
      BY <1>2, <2>1, <2>2, <3>1 DEF Fetched, Consuming
    <3>3. CASE r[2] < position[c][r[1]]
      BY <1>2, <1>5, <3>2, <3>3 DEF PlainInv, PolledIsAccounted
    <3>4. CASE position[c][r[1]] <= r[2]
      BY <2>2, <3>1, <3>2, <3>4 DEF Between
    <3>5. position[c][r[1]] \in Int
      BY <2>1 DEF PlainInv, PlainKinds, MaybeOffset, None
    <3>. QED
      BY <2>1, <3>3, <3>4, <3>5
  <2>3. CASE d # c
    <3>1. position'[d] = position[d] /\ inHand'[d] = inHand[d] /\ r[1] \in Consuming(d)
      BY <1>1, <1>2, <2>3 DEF PlainInv, PlainKinds, Consuming
    <3>. QED
      BY <1>5, <3>1 DEF PlainInv, PolledIsAccounted
  <2>. QED
    BY <2>2, <2>3
<1>7. CommittedIsAccounted'
  BY <1>2, <1>5 DEF PlainInv, CommittedIsAccounted
<1>. QED
  BY <1>4, <1>6, <1>7 DEF PlainInv

LEMMA PlainStep == PlainInv /\ [PlainNext]_plainVars => PlainInv'
<1> SUFFICES ASSUME PlainInv, [PlainNext]_plainVars PROVE PlainInv'
  OBVIOUS
<1>1. ASSUME UNCHANGED <<committed, assigned, position, program, inHand, buffer, output, dropped>>, PlainKinds'
      PROVE  PlainInv'
  <2>1. \A r \in Records : Accounted(r)' = Accounted(r)
    BY <1>1 DEF Accounted
  <2>. QED
    BY <1>1, <2>1, SamePositions
<1>2. CASE UNCHANGED plainVars
  BY <1>1, <1>2 DEF plainVars, groupVars, plainProcVars, PlainInv, PlainKinds
<1>3. CASE \E tp \in Partitions : Produce(tp) /\ UNCHANGED plainProcVars
  BY <1>1, <1>3 DEF Produce, plainProcVars, PlainInv, PlainKinds
<1>4. ASSUME NEW c \in Consumers, StartPlain(c) PROVE PlainInv'
  <2>1. /\ UNCHANGED <<end, committed, assigned, position, program, inHand, buffer, output, dropped>>
        /\ doing[c] = "down" /\ doing' = [doing EXCEPT ![c] = "poll"]
    BY <1>4 DEF StartPlain, groupVars
  <2>. QED
    BY <1>1, <2>1 DEF PlainInv, PlainKinds
<1>. QED
  BY <1>2, <1>3, <1>4, JoinsPlain, ResetsPlain, InPollPlain, PollsPlain, ForwardPlain, SentPlain, PrintsPlain, CommitsPlain, EndsPlain
  DEF PlainNext, CrashPlain

(***************************************************************************)
(* The theorem.                                                            *)
(***************************************************************************)

\* C2 of exercises 1 and 2, and BasicConsumerManual: a record behind the committed offset is
\* in the output, or a process has it, or had it when it ended.
THEOREM LossesAreExplained == McSpec => []LossesExplained
<1> DEFINE Inv == running = "plain" => PlainInv
<1>1. McInit => Inv
  <2> SUFFICES ASSUME McInit, running = "plain" PROVE PlainInv
    OBVIOUS
  <2>1. GroupInit(0) /\ PlainProcsInit
    BY DEF McInit
  <2>2. PlainKinds
    BY <2>1 DEF GroupInit, PlainProcsInit, PlainKinds, MaybeOffset, None
  <2>3. PolledIsAccounted /\ CommittedIsAccounted
    BY <2>1 DEF GroupInit, PolledIsAccounted, CommittedIsAccounted, Consuming, Records, Offsets
  <2>. QED
    BY <2>2, <2>3 DEF PlainInv
<1>2. Inv /\ [McNext]_allVars => Inv'
  <2> SUFFICES ASSUME Inv, [McNext]_allVars, running' = "plain" PROVE PlainInv'
    OBVIOUS
  <2>1. running = "plain" /\ [PlainNext]_plainVars
    BY DEF McNext, Counters, Forwarders, Plain, allVars, vars, plainVars
  <2>. QED
    BY <2>1, PlainStep
<1>3. Inv => LossesExplained
  BY DEF LossesExplained, LostOnlyWithProcess, PlainInv, CommittedIsAccounted, Accounted
<1>. QED
  BY <1>1, <1>2, <1>3, PTL DEF McSpec

(***************************************************************************)
(* The per-record forwarder (PerRecordForwarder)                           *)
(***************************************************************************)

USE EpochAssumption

(***************************************************************************)
(* The inductive invariant.  Only the owner of the epoch can commit, and   *)
(* while it owns it nobody else does: so it is enough to know where the    *)
(* owner is in its batch.                                                  *)
(***************************************************************************)

\* The types of what the group and the transactions keep; a process is in the group while it
\* has a batch, and not before it is started.
GroupTypeOK ==
  /\ end \in [Partitions -> 0 .. MaxRecords]
  /\ committed \in [Partitions -> 0 .. MaxRecords]
  /\ generation \in Nat
  /\ known \in [Consumers -> Nat \cup {None}]
  /\ position \in [Consumers -> [Partitions -> MaybeOffset]]
  /\ epoch \in Nat
  /\ myEpoch \in [Consumers -> Nat \cup {None}]
  /\ pending \in [Partitions -> MaybeOffset]
  /\ \A c \in Consumers : pc[c] = "down" => known[c] = None
  /\ \A c \in Consumers : pc[c] \in {"send", "offsets", "commit"} => known[c] # None

Owns(c) == ~ Fenced(c)

OneOwner ==
  /\ \A c \in Consumers : myEpoch[c] <= epoch
  /\ \A c, d \in Consumers : Owns(c) /\ Owns(d) => c = d

\* The positions of the owner, once it is in the group, are not behind what is committed ...
Ahead(c) ==
  known[c] # None => \A tp \in Partitions : position[c][tp] # None => committed[tp] <= position[c][tp]

\* ... and its batch ends where its position is.
EndsAtPosition(c) == \A tp \in Partitions : batch[c][tp] # None => position[c][tp] = batch[c][tp]

NothingSent == sent = Empty /\ pending = NoOffsets

\* The transaction has one record of the batch, not behind the committed offset.
OneSent(c) ==
  \E tp \in Partitions, o \in 0 .. MaxRecords :
    /\ sent = [Empty EXCEPT ![tp] = <<o>>]
    /\ committed[tp] <= o /\ o < batch[c][tp]

OwnersPlace(c) ==
  /\ pc[c] # "down" => Ahead(c)
  /\ pc[c] \in {"send", "offsets", "commit"} => EndsAtPosition(c)
  /\ pc[c] \in {"poll", "send"} => NothingSent
  /\ pc[c] = "send" /\ begun[c] =>
       \A tp \in Partitions : batch[c][tp] # None => committed[tp] <= done[c][tp]
  /\ pc[c] = "offsets" => OneSent(c) /\ pending = NoOffsets
  /\ pc[c] = "commit" => OneSent(c) /\ pending = batch[c]

OwnersInPlace == \A c \in Consumers : Owns(c) => OwnersPlace(c)

IndInv ==
  TypeOK /\ GroupTypeOK /\ OneOwner /\ OwnersInPlace /\ ForwardedAtMostOnce /\ OffsetsCoverOutput

(***************************************************************************)
(* The initial state, and the steps that leave the transactions alone.     *)
(***************************************************************************)

LEMMA IndInit == Init => IndInv
<1> SUFFICES ASSUME Init PROVE IndInv
  OBVIOUS
<1> USE DEF Init, GroupInit, ForwarderProcsInit, TxnInit, Empty, NoOffsets, None
<1>1. TypeOK /\ GroupTypeOK
  BY DEF TypeOK, GroupTypeOK, MaybeOffset
<1>2. OneOwner /\ OwnersInPlace
  BY DEF OneOwner, OwnersInPlace, Owns, Fenced
<1>3. ForwardedAtMostOnce /\ OffsetsCoverOutput
  BY DEF ForwardedAtMostOnce, OffsetsCoverOutput
<1>. QED
  BY <1>1, <1>2, <1>3 DEF IndInv

\* Steps of which nothing is left to show but where the owner is.
LEMMA SameTransactions ==
  ASSUME IndInv, UNCHANGED <<txnVars, committed>>, TypeOK', GroupTypeOK',
         \A c \in Consumers : Owns(c) => OwnersPlace(c)'
  PROVE  IndInv'
<1>1. \A c \in Consumers : Owns(c)' = Owns(c)
  BY DEF Owns, Fenced, txnVars
<1>2. OneOwner' /\ OwnersInPlace'
  BY <1>1 DEF IndInv, OneOwner, OwnersInPlace, txnVars
<1>3. ForwardedAtMostOnce' /\ OffsetsCoverOutput'
  BY DEF IndInv, ForwardedAtMostOnce, OffsetsCoverOutput, txnVars
<1>. QED
  BY <1>2, <1>3 DEF IndInv

\* A process about which nothing changes stays where it is.
LEMMA SamePlace ==
  ASSUME NEW d \in Consumers, OwnersPlace(d), UNCHANGED <<sent, pending, committed>>,
         UNCHANGED <<pc[d], begun[d], done[d], batch[d], known[d], position[d]>>
  PROVE  OwnersPlace(d)'
  BY DEF OwnersPlace, Ahead, EndsAtPosition, NothingSent, OneSent, Empty, NoOffsets

LEMMA DieStep ==
  ASSUME IndInv, NEW c \in Consumers, Die(c)
  PROVE  IndInv'
<1>1. TypeOK' /\ GroupTypeOK'
  BY DEF IndInv, TypeOK, GroupTypeOK, MaybeOffset, NoOffsets, None, Die, Leave, txnVars
<1>2. UNCHANGED <<txnVars, committed>>
  BY DEF Die, Leave
<1>3. ASSUME NEW d \in Consumers, Owns(d) PROVE OwnersPlace(d)'
  <2>1. CASE d = c
    <3>1. pc'[d] = "down"
      BY <2>1 DEF Die, IndInv, TypeOK
    <3>. QED
      BY <3>1 DEF OwnersPlace
  <2>2. CASE d # c
    BY <1>2, <1>3, <2>2, SamePlace DEF IndInv, OwnersInPlace, TypeOK, GroupTypeOK, Die, Leave, txnVars
  <2>. QED
    BY <2>1, <2>2
<1>. QED
  BY <1>1, <1>2, <1>3, SameTransactions

LEMMA ProduceStep ==
  ASSUME IndInv, NEW tp \in Partitions, Produce(tp), UNCHANGED <<txnVars, procVars>>
  PROVE  IndInv'
<1>1. TypeOK' /\ GroupTypeOK'
  BY DEF IndInv, TypeOK, GroupTypeOK, MaybeOffset, Produce, txnVars, procVars
<1>2. \A d \in Consumers : Owns(d) => OwnersPlace(d)'
  BY SamePlace DEF IndInv, OwnersInPlace, Produce, txnVars, procVars
<1>. QED
  BY <1>1, <1>2, SameTransactions DEF Produce

LEMMA JoinStep ==
  ASSUME IndInv, Join
  PROVE  IndInv'
<1>1. PICK members \in SUBSET {c \in Consumers : pc[c] = "poll"} : Rebalance(members)
  BY DEF Join
<1>2. /\ UNCHANGED <<end, committed, txnVars, procVars>>
      /\ generation' = generation + 1
      /\ known' = [c \in Consumers |-> IF c \in members THEN generation' ELSE known[c]]
      /\ position' = [c \in Consumers |->
           IF c \in members THEN [tp \in Partitions |-> None] ELSE position[c]]
  BY <1>1 DEF Join, Rebalance, Regroup
<1>3. TypeOK' /\ GroupTypeOK'
  BY <1>2 DEF IndInv, TypeOK, GroupTypeOK, MaybeOffset, None, txnVars, procVars
<1>4. ASSUME NEW d \in Consumers, Owns(d) PROVE OwnersPlace(d)'
  <2>1. CASE d \in members
    <3>1. /\ pc'[d] = "poll" /\ NothingSent' /\ \A tp \in Partitions : position'[d][tp] = None
      BY <1>2, <1>4, <2>1 DEF IndInv, OwnersInPlace, OwnersPlace, NothingSent, Empty, NoOffsets, txnVars, procVars
    <3>. QED
      BY <3>1 DEF OwnersPlace, Ahead
  <2>2. CASE d \notin members
    BY <1>2, <1>4, <2>2, SamePlace DEF IndInv, OwnersInPlace, GroupTypeOK, txnVars, procVars
  <2>. QED
    BY <2>1, <2>2
<1>. QED
  BY <1>2, <1>3, <1>4, SameTransactions

\* The owner starts from the committed offset.
LEMMA ResetOffsetStep ==
  ASSUME IndInv, NEW c \in Consumers, NEW tp \in Partitions, ResetOffset(c, tp)
  PROVE  IndInv'
<1>0. committed[tp] \in 0 .. MaxRecords /\ StartOffset(tp) = committed[tp]
  BY DEF StartOffset, IndInv, GroupTypeOK, None
<1>1. /\ pc[c] = "poll"
      /\ position' = [position EXCEPT ![c][tp] = committed[tp]]
      /\ UNCHANGED <<end, committed, generation, known, assigned, txnVars, procVars>>
  BY <1>0 DEF ResetOffset, FetchOffset
<1>2. TypeOK' /\ GroupTypeOK'
  BY <1>1 DEF IndInv, TypeOK, GroupTypeOK, MaybeOffset, None, txnVars, procVars
<1>3. ASSUME NEW d \in Consumers, Owns(d) PROVE OwnersPlace(d)'
  <2>1. CASE d = c
    <3>1. NothingSent' /\ pc'[d] = "poll"
      BY <1>1, <1>3, <2>1 DEF IndInv, OwnersInPlace, OwnersPlace, NothingSent, Empty, NoOffsets, txnVars, procVars
    <3>2. Ahead(d)'
      BY <1>1, <1>3, <2>1 DEF IndInv, OwnersInPlace, OwnersPlace, Ahead, GroupTypeOK
    <3>. QED
      BY <3>1, <3>2 DEF OwnersPlace
  <2>2. CASE d # c
    BY <1>1, <1>3, <2>2, SamePlace DEF IndInv, OwnersInPlace, GroupTypeOK, txnVars, procVars
  <2>. QED
    BY <2>1, <2>2
<1>. QED
  BY <1>1, <1>2, <1>3, SameTransactions

\* The records of a batch are not behind the positions before it.
LEMMA PollStep ==
  ASSUME IndInv, NEW c \in Consumers, Poll(c)
  PROVE  IndInv'
<1>1. PICK to \in Fetched(c) :
        /\ Fetch(c, to)
        /\ batch' = [batch EXCEPT ![c] =
             [tp \in Partitions |-> IF position[c][tp] < to[tp] THEN to[tp] ELSE None]]
        /\ pc' = [pc EXCEPT ![c] = IF to = position[c] THEN "poll" ELSE "send"]
  BY DEF Poll
<1>2. /\ pc[c] = "poll" /\ known[c] # None
      /\ begun' = [begun EXCEPT ![c] = TRUE]
      /\ done' = [done EXCEPT ![c] = position[c]]
      /\ UNCHANGED txnVars
  BY DEF Poll
<1>3. /\ position' = [position EXCEPT ![c] = to]
      /\ UNCHANGED <<end, committed, generation, known, assigned>>
  BY <1>1 DEF Fetch
<1>4. /\ to \in [Partitions -> MaybeOffset]
      /\ \A tp \in Partitions : position[c][tp] \in Int /\ to[tp] \in Int
      /\ \A tp \in Partitions :
           to[tp] = position[c][tp] \/ (position[c][tp] # None /\ position[c][tp] <= to[tp])
  BY DEF Fetched, Consuming, MaybeOffset, IndInv, GroupTypeOK, None
<1>5. TypeOK' /\ GroupTypeOK'
  BY <1>1, <1>2, <1>3, <1>4 DEF IndInv, TypeOK, GroupTypeOK, MaybeOffset, None, txnVars
<1>6. ASSUME NEW d \in Consumers, Owns(d) PROVE OwnersPlace(d)'
  <2>1. CASE d = c
    <3>1. NothingSent'
      BY <1>2, <1>6, <2>1 DEF IndInv, OwnersInPlace, OwnersPlace, NothingSent, Empty, NoOffsets, txnVars
    <3>2. /\ position'[c] = to /\ done'[c] = position[c] /\ pc'[c] \in {"poll", "send"}
          /\ \A tp \in Partitions : batch'[c][tp] = IF position[c][tp] < to[tp] THEN to[tp] ELSE None
      BY <1>1, <1>2, <1>3 DEF IndInv, TypeOK, GroupTypeOK
    <3>3. \A tp \in Partitions : position[c][tp] # None => committed[tp] <= position[c][tp]
      BY <1>2, <1>6, <2>1 DEF IndInv, OwnersInPlace, OwnersPlace, Ahead
    <3>4. Ahead(d)'
      BY <1>3, <1>4, <2>1, <3>2, <3>3 DEF Ahead, IndInv, GroupTypeOK
    <3>5. EndsAtPosition(d)'
      BY <2>1, <3>2 DEF EndsAtPosition
    <3>6. \A tp \in Partitions : batch'[c][tp] # None => committed'[tp] <= done'[c][tp]
      BY <1>3, <1>4, <3>2, <3>3
    <3>. QED
      BY <2>1, <3>1, <3>2, <3>4, <3>5, <3>6 DEF OwnersPlace
  <2>2. CASE d # c
    BY <1>1, <1>2, <1>3, <1>6, <2>2, SamePlace DEF IndInv, OwnersInPlace, TypeOK, GroupTypeOK, txnVars
  <2>. QED
    BY <2>1, <2>2
<1>. QED
  BY <1>2, <1>3, <1>5, <1>6, SameTransactions

(***************************************************************************)
(* The steps of the transactions.                                          *)
(***************************************************************************)

\* A transaction that is aborted leaves no other owner behind.
LEMMA AbortStep ==
  ASSUME IndInv, Abort, UNCHANGED <<committed, known>>, TypeOK', GroupTypeOK',
         \A c \in Consumers : myEpoch'[c] = myEpoch[c] \/ (myEpoch'[c] = epoch' /\ pc'[c] = "poll" /\ known[c] = None),
         \A c, d \in Consumers : myEpoch'[c] = epoch' /\ myEpoch'[d] = epoch' => c = d
  PROVE  IndInv'
<1>1. epoch' = epoch + 1 /\ NothingSent' /\ UNCHANGED out
  BY DEF Abort, NothingSent, Empty, NoOffsets
<1>2. \A c \in Consumers : Owns(c)' => pc'[c] = "poll" /\ known'[c] = None
  BY <1>1 DEF IndInv, OneOwner, GroupTypeOK, Owns, Fenced, None
<1>3. OneOwner'
  BY <1>1, SMTT(60) DEF IndInv, OneOwner, GroupTypeOK, Owns, Fenced, None
<1>4. OwnersInPlace'
  BY <1>1, <1>2 DEF OwnersInPlace, OwnersPlace, Ahead
<1>5. ForwardedAtMostOnce' /\ OffsetsCoverOutput'
  BY <1>1 DEF IndInv, ForwardedAtMostOnce, OffsetsCoverOutput
<1>. QED
  BY <1>3, <1>4, <1>5 DEF IndInv

LEMMA StartStep ==
  ASSUME IndInv, NEW c \in Consumers, Start(c)
  PROVE  IndInv'
<1>1. /\ pc[c] = "down" /\ pc' = [pc EXCEPT ![c] = "poll"]
      /\ Abort /\ myEpoch' = [myEpoch EXCEPT ![c] = epoch']
      /\ UNCHANGED <<groupVars, begun, done, batch>>
  BY DEF Start, InitTransactions
<1>2. epoch' = epoch + 1 /\ sent' = Empty /\ pending' = NoOffsets /\ UNCHANGED out
  BY <1>1 DEF Abort
<1>3. TypeOK' /\ GroupTypeOK'
  BY <1>1, <1>2 DEF IndInv, TypeOK, GroupTypeOK, MaybeOffset, None, groupVars, Empty, NoOffsets
<1>4. \A d \in Consumers : d # c => myEpoch'[d] = myEpoch[d] /\ myEpoch'[d] < epoch'
  BY <1>1, <1>2 DEF IndInv, OneOwner, GroupTypeOK, None
<1>5. myEpoch'[c] = epoch' /\ pc'[c] = "poll" /\ known[c] = None
  BY <1>1 DEF IndInv, TypeOK, GroupTypeOK
<1>6. \A d, e \in Consumers : myEpoch'[d] = epoch' /\ myEpoch'[e] = epoch' => d = e
  BY <1>2, <1>4 DEF IndInv, GroupTypeOK
<1>. QED
  BY <1>1, <1>3, <1>4, <1>5, <1>6, AbortStep DEF groupVars

LEMMA TimeoutStep ==
  ASSUME IndInv, TxnTimeout, UNCHANGED <<groupVars, procVars>>
  PROVE  IndInv'
<1>1. Abort /\ UNCHANGED <<myEpoch, groupVars, procVars>> /\ epoch' = epoch + 1
      /\ sent' = Empty /\ pending' = NoOffsets /\ UNCHANGED out
  BY DEF TxnTimeout, Abort
<1>2. TypeOK' /\ GroupTypeOK'
  BY <1>1 DEF IndInv, TypeOK, GroupTypeOK, MaybeOffset, None, groupVars, procVars, Empty, NoOffsets
<1>3. \A c \in Consumers : myEpoch'[c] # epoch'
  BY <1>1 DEF IndInv, OneOwner, GroupTypeOK, None
<1>. QED
  BY <1>1, <1>2, <1>3, AbortStep DEF groupVars

LEMMA SendStep ==
  ASSUME IndInv, NEW c \in Consumers, SendRecord(c)
  PROVE  IndInv'
<1>1. CASE ~ begun[c]
  BY <1>1, DieStep DEF SendRecord
<1>2. CASE begun[c]
  <2>1. PICK tp \in Partitions : /\ done[c][tp] < batch[c][tp]
                                 /\ Send(c, tp, done[c][tp])
                                 /\ done' = [done EXCEPT ![c][tp] = @ + 1]
    BY <1>2 DEF SendRecord
  <2>2. /\ pc[c] = "send" /\ pc' = [pc EXCEPT ![c] = "offsets"]
        /\ UNCHANGED <<groupVars, begun, batch, epoch, myEpoch, pending, out>>
    BY <1>2, <2>1 DEF SendRecord, Send
  <2>3. /\ done[c][tp] \in MaybeOffset /\ batch[c][tp] \in MaybeOffset
        /\ batch[c][tp] # None /\ done[c][tp] + 1 \in MaybeOffset
    BY <2>1 DEF IndInv, TypeOK, MaybeOffset, None
  <2> DEFINE o == done[c][tp]
  <2>4. CASE Fenced(c)
    <3>1. sent' = sent
      BY <2>1, <2>4 DEF Send
    <3>2. TypeOK' /\ GroupTypeOK'
      BY <1>2, <2>1, <2>2, <2>3, <3>1 DEF IndInv, TypeOK, GroupTypeOK, groupVars
    <3>3. \A d \in Consumers : Owns(d) => OwnersPlace(d)'
      <4> SUFFICES ASSUME NEW d \in Consumers, Owns(d) PROVE OwnersPlace(d)'
        OBVIOUS
      <4>1. d # c
        BY <2>4 DEF Owns
      <4>. QED
        BY <2>1, <2>2, <3>1, <4>1, SamePlace DEF IndInv, OwnersInPlace, TypeOK, groupVars
    <3>. QED
      BY <2>2, <3>1, <3>2, <3>3, SameTransactions DEF groupVars, txnVars
  <2>5. CASE Owns(c)
    <3>1. OwnersPlace(c)
      BY <2>5 DEF IndInv, OwnersInPlace
    <3>2. /\ NothingSent /\ committed[tp] <= o
          /\ committed[tp] \in 0 .. MaxRecords
      BY <1>2, <2>2, <2>3, <3>1 DEF OwnersPlace, IndInv, GroupTypeOK
    <3>3. o \in 0 .. MaxRecords
      BY <2>3, <3>2 DEF MaybeOffset, None
    <3>4. sent' = [Empty EXCEPT ![tp] = <<o>>]
      BY <2>1, <2>5, <3>2 DEF Send, Owns, NothingSent, Empty
    <3>5. sent' \in [Partitions -> Seq(0 .. MaxRecords)]
      <4>1. <<o>> \in Seq(0 .. MaxRecords) /\ <<>> \in Seq(0 .. MaxRecords)
        BY <3>3
      <4>. QED
        BY <3>4, <4>1 DEF Empty
    <3>6. TypeOK' /\ GroupTypeOK'
      BY <1>2, <2>1, <2>2, <2>3, <3>5 DEF IndInv, TypeOK, GroupTypeOK, groupVars
    <3>7. OwnersPlace(c)'
      <4>1. pc'[c] = "offsets"
        BY <2>2 DEF IndInv, TypeOK
      <4>2. OneSent(c)' /\ pending' = NoOffsets
        BY <2>1, <2>2, <3>2, <3>3, <3>4 DEF OneSent, NothingSent, groupVars, Empty, NoOffsets
      <4>3. Ahead(c)' /\ EndsAtPosition(c)'
        BY <2>2, <3>1 DEF OwnersPlace, Ahead, EndsAtPosition, groupVars
      <4>. QED
        BY <4>1, <4>2, <4>3 DEF OwnersPlace
    <3>8. OneOwner' /\ OwnersInPlace'
      BY <2>2, <2>5, <3>7 DEF IndInv, OneOwner, OwnersInPlace, Owns, Fenced
    <3>9. ForwardedAtMostOnce' /\ OffsetsCoverOutput'
      BY <2>2 DEF IndInv, ForwardedAtMostOnce, OffsetsCoverOutput, groupVars
    <3>. QED
      BY <3>6, <3>8, <3>9 DEF IndInv
  <2>. QED
    BY <2>4, <2>5 DEF Owns
<1>. QED
  BY <1>1, <1>2

LEMMA SendOffsetsStep ==
  ASSUME IndInv, NEW c \in Consumers, SendOffsetsToTransaction(c)
  PROVE  IndInv'
<1>1. CASE ~ MaySendOffsets(c)
  BY <1>1, DieStep DEF SendOffsetsToTransaction
<1>2. CASE MaySendOffsets(c)
  <2>1. /\ pc[c] = "offsets" /\ pc' = [pc EXCEPT ![c] = "commit"]
        /\ pending' = [tp \in Partitions |-> IF batch[c][tp] # None THEN batch[c][tp] ELSE pending[tp]]
        /\ UNCHANGED <<groupVars, begun, done, batch, epoch, myEpoch, sent, out>>
    BY <1>2 DEF SendOffsetsToTransaction, SendOffsets, BatchOffsets
  <2>2. Owns(c)
    BY <1>2 DEF MaySendOffsets, Owns
  <2>3. OwnersPlace(c)
    BY <2>2 DEF IndInv, OwnersInPlace
  <2>4. TypeOK' /\ GroupTypeOK'
    BY <2>1 DEF IndInv, TypeOK, GroupTypeOK, groupVars
  <2>5. pending' = batch[c]
    <3>1. pending = NoOffsets /\ batch[c] \in [Partitions -> MaybeOffset]
      BY <2>1, <2>3 DEF OwnersPlace, IndInv, TypeOK
    <3>. QED
      BY <2>1, <3>1 DEF NoOffsets
  <2>6. OwnersPlace(c)'
    <3>1. pc'[c] = "commit"
      BY <2>1 DEF IndInv, TypeOK
    <3>2. OneSent(c)' /\ Ahead(c)' /\ EndsAtPosition(c)'
      BY <2>1, <2>3 DEF OwnersPlace, OneSent, Ahead, EndsAtPosition, groupVars, Empty
    <3>. QED
      BY <2>1, <2>5, <3>1, <3>2 DEF OwnersPlace
  <2>7. OneOwner' /\ OwnersInPlace'
    BY <2>1, <2>2, <2>6 DEF IndInv, OneOwner, OwnersInPlace, Owns, Fenced
  <2>8. ForwardedAtMostOnce' /\ OffsetsCoverOutput'
    BY <2>1 DEF IndInv, ForwardedAtMostOnce, OffsetsCoverOutput, groupVars
  <2>. QED
    BY <2>4, <2>7, <2>8 DEF IndInv
<1>. QED
  BY <1>1, <1>2

\* A sequence that increases and stays under n, with a number from n on at its end.
LEMMA IncreasingAppend ==
  ASSUME NEW s \in Seq(0 .. MaxRecords), NEW o \in 0 .. MaxRecords, NEW n \in Nat, n <= o,
         \A i, j \in 1 .. Len(s) : i < j => s[i] < s[j],
         \A i \in 1 .. Len(s) : s[i] < n
  PROVE  /\ s \o <<o>> \in Seq(0 .. MaxRecords)
         /\ \A i, j \in 1 .. Len(s \o <<o>>) : i < j => (s \o <<o>>)[i] < (s \o <<o>>)[j]
         /\ \A i \in 1 .. Len(s \o <<o>>) : (s \o <<o>>)[i] <= o
<1> DEFINE t == s \o <<o>>
<1>1. <<o>> \in Seq(0 .. MaxRecords) /\ Len(<<o>>) = 1 /\ <<o>>[1] = o
  OBVIOUS
<1>2. /\ t \in Seq(0 .. MaxRecords) /\ Len(t) = Len(s) + 1
      /\ \A i \in 1 .. Len(s) + 1 : t[i] = IF i <= Len(s) THEN s[i] ELSE <<o>>[i - Len(s)]
  BY <1>1, ConcatProperties
<1>3. Len(s) \in Nat
  OBVIOUS
<1>4. /\ \A i \in 1 .. Len(s) : t[i] = s[i] /\ s[i] \in 0 .. MaxRecords
      /\ t[Len(s) + 1] = o
  BY <1>1, <1>2, <1>3
<1>. QED
  BY SMTT(60), <1>2, <1>3, <1>4

\* The record's partition is the only one whose output grows, by a record that the
\* offset committed with it covers.
LEMMA CommitStep ==
  ASSUME IndInv, NEW c \in Consumers, CommitTransaction(c)
  PROVE  IndInv'
<1>1. CASE Fenced(c)
  BY <1>1, DieStep DEF CommitTransaction
<1>2. CASE Owns(c)
  <2>1. /\ pc[c] = "commit" /\ begun' = [begun EXCEPT ![c] = FALSE]
        /\ pc' = [pc EXCEPT ![c] = IF MoreToSend(c) THEN "send" ELSE "poll"]
        /\ UNCHANGED <<done, batch>>
        /\ out' = [tp \in Partitions |-> out[tp] \o sent[tp]]
        /\ committed' = [tp \in Partitions |-> IF pending[tp] # None THEN pending[tp] ELSE committed[tp]]
        /\ sent' = Empty /\ pending' = NoOffsets
        /\ UNCHANGED <<epoch, myEpoch, end, generation, known, assigned, position>>
    BY <1>2 DEF CommitTransaction, CommitTxn, Owns
  <2>2. OwnersPlace(c) /\ TypeOK /\ GroupTypeOK
    BY <1>2 DEF IndInv, OwnersInPlace
  <2>3. pending = batch[c] /\ OneSent(c) /\ Ahead(c) /\ EndsAtPosition(c) /\ known[c] # None
    BY <2>1, <2>2 DEF OwnersPlace, GroupTypeOK
  <2>4. PICK q \in Partitions, o \in 0 .. MaxRecords :
          /\ sent = [Empty EXCEPT ![q] = <<o>>]
          /\ committed[q] <= o /\ o < batch[c][q]
    BY <2>3 DEF OneSent
  <2>5. /\ sent[q] = <<o>>
        /\ \A tp \in Partitions : tp # q => sent[tp] = <<>>
    BY <2>4 DEF Empty
  <2>6. \A tp \in Partitions : committed[tp] \in 0 .. MaxRecords /\ committed'[tp] \in 0 .. MaxRecords
    BY <2>1, <2>2 DEF GroupTypeOK, MaybeOffset, None
  <2>7. \A tp \in Partitions : committed[tp] <= committed'[tp]
    BY <2>1, <2>2, <2>3, <2>6 DEF GroupTypeOK, Ahead, EndsAtPosition
  <2>8. o < committed'[q]
    BY <2>1, <2>2, <2>3, <2>4 DEF TypeOK, MaybeOffset, None
  <2>9. ASSUME NEW tp \in Partitions
        PROVE  /\ out'[tp] \in Seq(0 .. MaxRecords)
               /\ \A i, j \in 1 .. Len(out'[tp]) : i < j => out'[tp][i] < out'[tp][j]
               /\ \A i \in 1 .. Len(out'[tp]) : out'[tp][i] < committed'[tp]
    <3>1. /\ out[tp] \in Seq(0 .. MaxRecords)
          /\ \A i, j \in 1 .. Len(out[tp]) : i < j => out[tp][i] < out[tp][j]
          /\ \A i \in 1 .. Len(out[tp]) : out[tp][i] < committed[tp]
      BY <2>2 DEF IndInv, TypeOK, ForwardedAtMostOnce, OffsetsCoverOutput
    <3>2. CASE tp = q
      <4>1. out'[tp] = out[tp] \o <<o>>
        BY <2>1, <2>5, <3>2
      <4>2. committed[tp] \in Nat /\ committed[tp] <= o
        BY <2>4, <2>6, <3>2
      <4>3. /\ out'[tp] \in Seq(0 .. MaxRecords)
            /\ \A i, j \in 1 .. Len(out'[tp]) : i < j => out'[tp][i] < out'[tp][j]
            /\ \A i \in 1 .. Len(out'[tp]) : out'[tp][i] <= o
        BY <3>1, <4>1, <4>2, IncreasingAppend
      <4>4. \A i \in 1 .. Len(out'[tp]) : out'[tp][i] \in 0 .. MaxRecords
        BY <4>3
      <4>. QED
        BY SMTT(60), <2>6, <2>8, <3>2, <4>3, <4>4
    <3>3. CASE tp # q
      <4>1. out'[tp] = out[tp] \o <<>>
        BY <2>1, <2>5, <3>3
      <4>2. out'[tp] = out[tp]
        BY <3>1, <4>1, ConcatEmptySeq
      <4>3. \A i \in 1 .. Len(out[tp]) : out[tp][i] \in 0 .. MaxRecords
        BY <3>1
      <4>4. \A i \in 1 .. Len(out[tp]) : out[tp][i] < committed'[tp]
        BY <2>6, <2>7, <3>1, <4>3, SMTT(60)
      <4>. QED
        BY <3>1, <4>2, <4>4
    <3>. QED
      BY <3>2, <3>3
  <2>10. TypeOK' /\ GroupTypeOK'
    <3>1. out' \in [Partitions -> Seq(0 .. MaxRecords)]
      BY <2>1, <2>9
    <3>2. committed' \in [Partitions -> 0 .. MaxRecords]
      BY <2>1, <2>6
    <3>3. sent' \in [Partitions -> Seq(0 .. MaxRecords)] /\ pending' \in [Partitions -> MaybeOffset]
      BY <2>1 DEF Empty, NoOffsets, MaybeOffset
    <3>. QED
      BY <2>1, <2>2, <2>3, <3>1, <3>2, <3>3 DEF TypeOK, GroupTypeOK
  <2>11. OwnersPlace(c)'
    <3>1. pc'[c] \in {"poll", "send"} /\ ~ begun'[c]
      BY <2>1, <2>2 DEF TypeOK
    <3>2. ASSUME NEW tp \in Partitions, position[c][tp] # None PROVE committed'[tp] <= position[c][tp]
      <4>1. committed'[tp] = IF batch[c][tp] # None THEN batch[c][tp] ELSE committed[tp]
        BY <2>1, <2>3
      <4>2. committed[tp] <= position[c][tp] /\ (batch[c][tp] # None => position[c][tp] = batch[c][tp])
        BY <2>3, <3>2 DEF Ahead, EndsAtPosition
      <4>3. batch[c][tp] \in MaybeOffset
        BY <2>2 DEF TypeOK
      <4>. QED
        BY <4>1, <4>2, <4>3 DEF MaybeOffset, None
    <3>3. EndsAtPosition(c)' /\ NothingSent'
      BY <2>1, <2>3 DEF EndsAtPosition, NothingSent, Empty, NoOffsets
    <3>4. Ahead(c)'
      BY <2>1, <3>2 DEF Ahead
    <3>. QED
      BY <3>1, <3>3, <3>4 DEF OwnersPlace
  <2>12. OneOwner' /\ OwnersInPlace'
    BY <1>2, <2>1, <2>11 DEF IndInv, OneOwner, OwnersInPlace, Owns, Fenced
  <2>13. ForwardedAtMostOnce' /\ OffsetsCoverOutput'
    BY <2>9 DEF ForwardedAtMostOnce, OffsetsCoverOutput
  <2>. QED
    BY <2>10, <2>12, <2>13 DEF IndInv
<1>. QED
  BY <1>1, <1>2 DEF Owns

LEMMA IndStep == IndInv /\ [Next]_vars => IndInv'
<1> SUFFICES ASSUME IndInv, [Next]_vars PROVE IndInv'
  OBVIOUS
<1>1. CASE \E tp \in Partitions : Produce(tp) /\ UNCHANGED <<txnVars, procVars>>
  BY <1>1, ProduceStep
<1>2. CASE Join
  BY <1>2, JoinStep
<1>3. CASE \E c \in Consumers, tp \in Partitions : ResetOffset(c, tp)
  BY <1>3, ResetOffsetStep
<1>4. ASSUME NEW c \in Consumers,
             Start(c) \/ Poll(c) \/ BeginTwice(c) \/ SendRecord(c) \/ SendOffsetsToTransaction(c)
             \/ CommitTransaction(c) \/ Crash(c)
      PROVE  IndInv'
  BY <1>4, StartStep, PollStep, DieStep, SendStep, SendOffsetsStep, CommitStep DEF BeginTwice, Crash
<1>5. CASE TxnTimeout /\ UNCHANGED <<groupVars, procVars>>
  BY <1>5, TimeoutStep
<1>6. CASE UNCHANGED vars
  <2>1. UNCHANGED <<txnVars, committed>> /\ TypeOK' /\ GroupTypeOK'
    BY <1>6 DEF vars, groupVars, txnVars, procVars, IndInv, TypeOK, GroupTypeOK
  <2>2. \A d \in Consumers : Owns(d) => OwnersPlace(d)'
    BY <1>6, SamePlace DEF IndInv, OwnersInPlace, vars, groupVars, txnVars, procVars
  <2>. QED
    BY <2>1, <2>2, SameTransactions
<1>. QED
  BY <1>1, <1>2, <1>3, <1>4, <1>5, <1>6 DEF Next

\* Only values of the right kind are stored, and offsets are sent and committed only in a
\* transaction that was begun.
THEOREM TypeCorrect == Spec => []TypeOK
  BY IndInit, IndStep, PTL DEF Spec, IndInv

\* Exercises 3 and 4: no record of a partition is forwarded twice, or out of order, although
\* the offsets of the whole batch are committed with its first record.
THEOREM AtMostOnceForwarded == Spec => []ForwardedAtMostOnce
<1>1. IndInv => ForwardedAtMostOnce
  BY DEF IndInv
<1>. QED
  BY <1>1, IndInit, IndStep, PTL DEF Spec

\* What is in the output is behind the committed offsets: the next process to start does
\* not forward it again.
THEOREM OutputCovered == Spec => []OffsetsCoverOutput
<1>1. IndInv => OffsetsCoverOutput
  BY DEF IndInv
<1>. QED
  BY <1>1, IndInit, IndStep, PTL DEF Spec

(***************************************************************************)
(* AtMostOncePrinter (AtMostOnce), under every reset policy.               *)
(***************************************************************************)

USE ValueAssumption

LEMMA PrinterTypeStep == PrinterTypeOK /\ [PrinterNext]_printerVars => PrinterTypeOK'
<1> SUFFICES ASSUME PrinterTypeOK, [PrinterNext]_printerVars PROVE PrinterTypeOK'
  OBVIOUS
<1> USE DEF PrinterTypeOK, groupVars, None
<1>1. CASE PrintersJoin
  BY <1>1 DEF PrintersJoin, Rebalance, Regroup
<1>2. ASSUME NEW c \in Consumers, NEW tp \in Partitions, PrinterResetOffset(c, tp) PROVE PrinterTypeOK'
  BY <1>2 DEF PrinterResetOffset, FetchOffset, StartOffset
<1>3. ASSUME NEW tp \in Partitions, Produce(tp), UNCHANGED <<printerAt, toPrint, printed>> PROVE PrinterTypeOK'
  BY <1>3 DEF Produce
<1>4. ASSUME NEW c \in Consumers, PrinterStart(c) PROVE PrinterTypeOK'
  BY <1>4 DEF PrinterStart
<1>5. ASSUME NEW c \in Consumers, PrinterPoll(c) PROVE PrinterTypeOK'
  BY <1>5 DEF PrinterPoll, Fetch, Fetched, Between
<1>6. ASSUME NEW c \in Consumers, CommitSync(c) PROVE PrinterTypeOK'
  <2>1. CASE MayCommit(c)
    <3>1. committed' \in [Partitions -> 0 .. MaxRecords \cup {-1}]
      BY SMTT(30), <1>6, <2>1 DEF CommitSync, CommitPositions, Consuming
    <3>2. /\ printerAt' = [printerAt EXCEPT ![c] = "print"]
          /\ UNCHANGED <<end, generation, known, assigned, position, toPrint, printed>>
      BY <1>6, <2>1 DEF CommitSync, CommitPositions
    <3>. QED
      BY <3>1, <3>2
  <2>2. CASE ~ MayCommit(c)
    BY <1>6, <2>2 DEF CommitSync, Leave
  <2>. QED
    BY <2>1, <2>2
<1>7. ASSUME NEW c \in Consumers, PrintRecord(c) PROVE PrinterTypeOK'
  <2>1. CASE toPrint[c] = {}
    BY <1>7, <2>1 DEF PrintRecord
  <2>2. ASSUME NEW r \in toPrint[c],
               toPrint' = [toPrint EXCEPT ![c] = @ \ {r}],
               printed' = [printed EXCEPT ![r] = IF Value[r] > Threshold THEN @ + 1 ELSE @]
        PROVE  toPrint' \in [Consumers -> SUBSET Records] /\ printed' \in [Records -> Nat]
    BY <2>2
  <2>3. CASE toPrint[c] # {}
    BY <1>7, <2>2, <2>3 DEF PrintRecord
  <2>. QED
    BY <2>1, <2>3
<1>8. ASSUME NEW c \in Consumers, PrinterCrash(c) PROVE PrinterTypeOK'
  BY <1>8 DEF PrinterCrash, Leave
<1>9. CASE UNCHANGED printerVars
  BY <1>9 DEF printerVars
<1>. QED
  BY <1>1, <1>2, <1>3, <1>4, <1>5, <1>6, <1>7, <1>8, <1>9 DEF PrinterNext

\* Only values of the right kind are ever stored, and a process that is down or in
\* poll holds no records of an earlier batch.
THEOREM PrinterTypeCorrect == PrinterSpec => []PrinterTypeOK
<1>1. PrinterInit => PrinterTypeOK
  BY DEF PrinterInit, GroupInit, PrinterTypeOK, None
<1>. QED
  BY <1>1, PrinterTypeStep, PTL DEF PrinterSpec

(***************************************************************************)
(* The inductive invariant.  A process matters only while it is in the     *)
(* current generation or already past its commit.                          *)
(***************************************************************************)

Current(c) == known[c] = generation /\ known[c] # None

\* The members of the generation share no partition.
PrintersExclusive ==
  /\ \A c \in Consumers : known[c] <= generation
  /\ \A c, d \in Consumers :
       c # d /\ Current(c) /\ Current(d) => assigned[c] \cap assigned[d] = {}

\* A member is never behind the committed offset, and what it has polled and not yet
\* committed is between that offset and its position.
AheadOfCommits(c) ==
  /\ \A tp \in Consuming(c) : committed[tp] <= position[c][tp]
  /\ printerAt[c] = "commit" => \A r \in toPrint[c] :
       /\ r[1] \in Consuming(c)
       /\ committed[r[1]] <= r[2] /\ r[2] < position[c][r[1]]
MembersAhead == \A c \in Consumers : Current(c) => AheadOfCommits(c)

\* A record somebody is about to print has not been printed and is in no other
\* process's hands.
PrintsExclusive ==
  \A c \in Consumers : printerAt[c] = "print" =>
    \A r \in toPrint[c] :
      /\ printed[r] = 0
      /\ \A d \in Consumers : c # d /\ printerAt[d] = "print" => r \notin toPrint[d]

PrinterInv == PrinterTypeOK /\ PrintersExclusive /\ MembersAhead /\ PrintedIsCommitted /\ PrintsExclusive /\ PrintedAtMostOnce

LEMMA PrinterInitially == PrinterInit => PrinterInv
<1> SUFFICES ASSUME PrinterInit PROVE PrinterInv
  OBVIOUS
<1>1. PrinterTypeOK
  BY DEF PrinterInit, GroupInit, PrinterTypeOK, None
<1>. QED
  BY <1>1 DEF PrinterInit, GroupInit, PrinterInv, PrintersExclusive, MembersAhead, AheadOfCommits, PrintedIsCommitted, PrintsExclusive,
     PrintedAtMostOnce, Current, None

\* Steps that disturb neither the batches nor what was printed or committed only have
\* to keep the members of the group in order.
LEMMA NothingPrinted ==
  ASSUME PrinterInv, UNCHANGED <<committed, toPrint, printed>>,
         \A c \in Consumers : printerAt'[c] = "print" => printerAt[c] = "print"
  PROVE  PrintedIsCommitted' /\ PrintsExclusive' /\ PrintedAtMostOnce'
  BY DEF PrinterInv, PrintedIsCommitted, PrintsExclusive, PrintedAtMostOnce

\* A process that ends drops its batch and leaves the generation.
LEMMA PrinterLeaves ==
  ASSUME PrinterInv, PrinterTypeOK', NEW c \in Consumers, Leave(c), UNCHANGED printed,
         printerAt' = [printerAt EXCEPT ![c] = "down"], toPrint' = [toPrint EXCEPT ![c] = {}]
  PROVE  PrinterInv'
<1> USE DEF PrinterInv, PrinterTypeOK, Leave, None
<1>1. PrintersExclusive'
  BY DEF PrintersExclusive, Current
<1>2. MembersAhead'
  BY DEF MembersAhead, AheadOfCommits, Current, Consuming
<1>3. PrintedIsCommitted' /\ PrintsExclusive' /\ PrintedAtMostOnce'
  BY DEF PrintedIsCommitted, PrintsExclusive, PrintedAtMostOnce
<1>. QED
  BY <1>1, <1>2, <1>3

LEMMA PrinterCommitStep ==
  ASSUME PrinterInv, PrinterTypeOK', NEW c \in Consumers, printerAt[c] = "commit", MayCommit(c), CommitPositions(c),
         printerAt' = [printerAt EXCEPT ![c] = "print"], UNCHANGED <<toPrint, printed>>
  PROVE  PrinterInv'
<1> USE DEF PrinterInv, PrinterTypeOK, MayCommit, CommitPositions, None
<1>1. Current(c)
  BY DEF Current, PrintersExclusive
<1>2. \A d \in Consumers : Consuming(d)' = Consuming(d)
  BY DEF Consuming
<1>3. \A tp \in Partitions : committed[tp] <= committed'[tp]
  BY SMTT(60), <1>1 DEF MembersAhead, AheadOfCommits, Consuming
<1>4. \A r \in toPrint[c] : printed[r] = 0 /\ r[2] < committed'[r[1]]
  <2>1. \A r \in toPrint[c] : r \in Records /\ r[1] \in Consuming(c) /\ committed[r[1]] <= r[2] /\ r[2] < position[c][r[1]]
    BY <1>1 DEF MembersAhead, AheadOfCommits
  <2>2. ASSUME NEW r \in toPrint[c] PROVE printed[r] = 0 /\ r[2] < committed'[r[1]]
    <3>1. r \in Records /\ r[1] \in Partitions /\ r[2] \in Nat
      BY DEF Records, Offsets
    <3>2. committed[r[1]] \in Int /\ ~ (r[2] < committed[r[1]])
      BY <2>1, <3>1
    <3>3. printed[r] = 0
      BY <3>1, <3>2, SMTT(60) DEF PrintedIsCommitted
    <3>. QED
      BY <2>1, <3>1, <3>3 DEF Consuming
  <2>. QED
    BY <2>2
<1>5. PrintersExclusive'
  BY DEF PrintersExclusive, Current
<1>6. MembersAhead'
  <2> SUFFICES ASSUME NEW d \in Consumers, Current(d)' PROVE AheadOfCommits(d)'
    BY DEF MembersAhead
  <2> USE DEF AheadOfCommits
  <2>0. Current(d) /\ Consuming(d)' = Consuming(d)
    BY <1>2 DEF Current
  <2>1. CASE d = c
    BY <2>0, <2>1 DEF Consuming
  <2>2. CASE d # c
    <3>1. \A tp \in Consuming(d) : committed'[tp] = committed[tp]
      BY <1>1, <2>0, <2>2 DEF PrintersExclusive, Consuming
    <3>. QED
      <4>1. AheadOfCommits(d) /\ printerAt'[d] = printerAt[d] /\ toPrint' = toPrint /\ position' = position
        BY <2>0, <2>2 DEF MembersAhead
      <4>. QED
        BY ZenonT(100), <2>0, <3>1, <4>1 DEF AheadOfCommits
  <2>. QED
    BY <2>1, <2>2
<1>7. PrintedIsCommitted'
  <2> SUFFICES ASSUME NEW r \in Records,
                      printed[r] > 0 \/ \E d \in Consumers : printerAt'[d] = "print" /\ r \in toPrint[d]
               PROVE  r[2] < committed'[r[1]]
    BY DEF PrintedIsCommitted
  <2>1. CASE r \in toPrint[c]
    BY <1>4, <2>1
  <2>2. CASE r \notin toPrint[c]
    <3>1. r[2] < committed[r[1]]
      BY <2>2 DEF PrintedIsCommitted
    <3>2. r[1] \in Partitions /\ r[2] \in Int /\ committed[r[1]] \in Int /\ committed'[r[1]] \in Int
      BY DEF Records, Offsets
    <3>. QED
      BY <1>3, <3>1, <3>2
  <2>. QED
    BY <2>1, <2>2
<1>8. PrintsExclusive'
  <2>1. ASSUME NEW d \in Consumers, d # c, printerAt[d] = "print", NEW r \in toPrint[d] PROVE r \notin toPrint[c]
    <3>1. r \in Records /\ r[1] \in Partitions /\ r[2] \in Int /\ committed[r[1]] \in Int
      BY DEF Records, Offsets
    <3>2. r[2] < committed[r[1]]
      BY <2>1, <3>1 DEF PrintedIsCommitted
    <3>3. r \in toPrint[c] => committed[r[1]] <= r[2]
      BY <1>1 DEF MembersAhead, AheadOfCommits
    <3>. QED
      BY <3>1, <3>2, <3>3
  <2>. QED
    BY ZenonT(100), <1>4, <2>1 DEF PrintsExclusive
<1>9. PrintedAtMostOnce'
  BY DEF PrintedAtMostOnce
<1>. QED
  BY <1>5, <1>6, <1>7, <1>8, <1>9


LEMMA PrinterStep == PrinterInv /\ [PrinterNext]_printerVars => PrinterInv'
<1> SUFFICES ASSUME PrinterInv, [PrinterNext]_printerVars PROVE PrinterInv'
  OBVIOUS
<1>0. PrinterTypeOK'
  BY PrinterTypeStep DEF PrinterInv
<1> USE DEF PrinterInv, PrinterTypeOK, groupVars, None
<1>1. CASE PrintersJoin
  <2>1. PICK members \in SUBSET {c \in Consumers : printerAt[c] = "poll"} : Rebalance(members)
    BY <1>1 DEF PrintersJoin
  <2>2. UNCHANGED <<printerAt, toPrint, printed, committed>>
    BY <1>1 DEF PrintersJoin, Rebalance, Regroup
  <2>3. \A c \in Consumers :
          /\ c \in members => printerAt[c] = "poll" /\ \A tp \in Partitions : position'[c][tp] = -1
          /\ c \notin members => ~ Current(c)'
    BY <2>1, <2>2 DEF Rebalance, Regroup, Current, PrintersExclusive
  <2>4. PrintersExclusive'
    <3>1. PICK owner \in [Partitions -> members] :
            assigned' = [c \in Consumers |->
              IF c \in members THEN {tp \in Partitions : owner[tp] = c} ELSE assigned[c]]
      BY <2>1 DEF Rebalance, Regroup
    <3>2. \A c \in Consumers : known'[c] <= generation'
      <4>1. \A c \in Consumers : known[c] <= generation /\ generation' = generation + 1
        BY <2>1 DEF Rebalance, Regroup, PrintersExclusive
      <4>2. \A c \in Consumers : known'[c] = IF c \in members THEN generation' ELSE known[c]
        BY <2>1 DEF Rebalance, Regroup
      <4>. QED
        BY SMTT(60), <4>1, <4>2
    <3>. QED
      BY <2>3, <3>1, <3>2 DEF PrintersExclusive
  <2>5. MembersAhead'
    BY <1>0, <2>2, <2>3 DEF MembersAhead, AheadOfCommits, Consuming
  <2>6. PrintedIsCommitted' /\ PrintsExclusive' /\ PrintedAtMostOnce'
    BY <2>2, NothingPrinted
  <2>. QED
    BY <1>0, <2>4, <2>5, <2>6
<1>2. ASSUME NEW c \in Consumers, NEW tp \in Partitions, PrinterResetOffset(c, tp) PROVE PrinterInv'
  <2> USE <1>2 DEF PrinterResetOffset, FetchOffset
  <2>1. PrintersExclusive'
    BY DEF PrintersExclusive, Current
  <2>2. MembersAhead'
    <3>1. committed[tp] <= position'[c][tp]
      BY DEF StartOffset
    <3>. QED
      BY <3>1, SMTT(60) DEF MembersAhead, AheadOfCommits, Current, Consuming
  <2>. QED
    BY <1>0, <2>1, <2>2, NothingPrinted
<1>3. ASSUME NEW tp \in Partitions, Produce(tp), UNCHANGED <<printerAt, toPrint, printed>> PROVE PrinterInv'
  <2> USE <1>3 DEF Produce
  <2>. QED
    BY <1>0, NothingPrinted DEF PrintersExclusive, MembersAhead, AheadOfCommits, Current, Consuming
<1>4. ASSUME NEW c \in Consumers, PrinterStart(c) PROVE PrinterInv'
  <2> USE <1>4 DEF PrinterStart
  <2>1. PrintersExclusive' /\ MembersAhead'
    BY DEF PrintersExclusive, MembersAhead, AheadOfCommits, Current, Consuming
  <2>. QED
    BY <1>0, <2>1, NothingPrinted
<1>5. ASSUME NEW c \in Consumers, PrinterPoll(c) PROVE PrinterInv'
  <2>1. PICK to \in Fetched(c) : toPrint' = [toPrint EXCEPT ![c] = Between(c, to)] /\ Fetch(c, to)
    BY <1>5 DEF PrinterPoll
  <2> USE <1>5, <2>1 DEF PrinterPoll, Fetch
  <2>2. PrintersExclusive'
    BY DEF PrintersExclusive, Current
  <2>3. \A tp \in Partitions : IF tp \in Consuming(c) THEN position[c][tp] <= to[tp] /\ to[tp] \in Nat
                                                        ELSE to[tp] = position[c][tp]
    BY DEF Fetched, Consuming
  <2>4. ASSUME NEW d \in Consumers PROVE Consuming(d)' = Consuming(d)
    BY <2>3 DEF Consuming
  <2>5. MembersAhead'
    <3> SUFFICES ASSUME NEW d \in Consumers, Current(d)' PROVE AheadOfCommits(d)'
      BY DEF MembersAhead
    <3> USE DEF AheadOfCommits
    <3>1. Current(d) /\ Consuming(d)' = Consuming(d)
      BY <2>4 DEF Current
    <3>2. CASE d = c
      <4>1. ASSUME NEW tp \in Consuming(d) PROVE committed[tp] <= position'[d][tp] /\ committed[tp] <= position[d][tp]
        BY <2>3, <3>1, <3>2 DEF MembersAhead, AheadOfCommits, Consuming
      <4>2. ASSUME NEW r \in toPrint'[d]
            PROVE  r[1] \in Consuming(d) /\ committed[r[1]] <= r[2] /\ r[2] < position'[d][r[1]]
        <5>1. /\ r \in Records /\ r[1] \in Partitions /\ r[2] \in Int /\ r[1] \in Consuming(d)
              /\ position[d][r[1]] <= r[2] /\ r[2] < to[r[1]]
          BY <3>2 DEF Between, Records, Offsets
        <5>. QED
          BY <3>2, <4>1, <5>1 DEF Consuming
      <4>. QED
        BY <3>1, <4>1, <4>2
    <3>3. CASE d # c
      BY <3>1, <3>3 DEF MembersAhead, AheadOfCommits
    <3>. QED
      BY <3>2, <3>3
  <2>6. PrintedIsCommitted' /\ PrintsExclusive' /\ PrintedAtMostOnce'
    BY DEF PrintedIsCommitted, PrintsExclusive, PrintedAtMostOnce
  <2>. QED
    BY <1>0, <2>2, <2>5, <2>6
<1>6. ASSUME NEW c \in Consumers, CommitSync(c) PROVE PrinterInv'
  BY <1>0, <1>6, PrinterCommitStep, PrinterLeaves, Zenon DEF CommitSync
<1>7. ASSUME NEW c \in Consumers, PrintRecord(c) PROVE PrinterInv'
  <2> USE <1>7 DEF PrintRecord
  <2>1. PrintersExclusive' /\ MembersAhead'
    BY SMTT(30) DEF PrintersExclusive, MembersAhead, AheadOfCommits, Current, Consuming
  <2>2. CASE toPrint[c] = {}
    BY <1>0, <2>1, <2>2, NothingPrinted DEF PrintedIsCommitted
  <2>3. ASSUME NEW r \in toPrint[c], toPrint' = [toPrint EXCEPT ![c] = @ \ {r}],
               printed' = [printed EXCEPT ![r] = IF Value[r] > Threshold THEN @ + 1 ELSE @],
               UNCHANGED <<printerAt, committed>>
        PROVE  PrintedIsCommitted' /\ PrintsExclusive' /\ PrintedAtMostOnce'
    <3>1. /\ \A q \in Records : q # r => printed'[q] = printed[q]
          /\ printed[r] = 0 /\ printed'[r] \in {0, 1}
      BY <2>3 DEF PrintsExclusive
    <3>2. \A d \in Consumers : toPrint'[d] \subseteq toPrint[d] /\ (printerAt[d] = "print" => r \notin toPrint'[d])
      BY <2>3 DEF PrintsExclusive
    <3>3. r[2] < committed[r[1]]
      BY DEF PrintedIsCommitted
    <3>. QED
      BY <2>3, <3>1, <3>2, <3>3 DEF PrintedIsCommitted, PrintsExclusive, PrintedAtMostOnce
  <2>. QED
    BY <1>0, <2>1, <2>2, <2>3
<1>8. ASSUME NEW c \in Consumers, PrinterCrash(c) PROVE PrinterInv'
  BY <1>0, <1>8, PrinterLeaves, Zenon DEF PrinterCrash
<1>9. CASE UNCHANGED printerVars
  BY <1>9 DEF printerVars, PrintersExclusive, MembersAhead, AheadOfCommits, PrintedIsCommitted, PrintsExclusive, PrintedAtMostOnce, Current, Consuming
<1>. QED
  BY <1>1, <1>2, <1>3, <1>4, <1>5, <1>6, <1>7, <1>8, <1>9 DEF PrinterNext

LEMMA PrinterInvHolds == PrinterSpec => []PrinterInv
  BY PrinterInitially, PrinterStep, PTL DEF PrinterSpec

\* Every record is printed at most once, whatever crashes, restarts and rebalances
\* come between a process's poll, commitSync and prints.
THEOREM AtMostOnceCorrect == PrinterSpec => []PrintedAtMostOnce
<1>1. PrinterInv => PrintedAtMostOnce
  BY DEF PrinterInv
<1>. QED
  BY <1>1, PrinterInvHolds, PTL

\* What is printed, or about to be, is behind the committed offset.
THEOREM CommitsFirst == PrinterSpec => []PrintedIsCommitted
<1>1. PrinterInv => PrintedIsCommitted
  BY DEF PrinterInv
<1>. QED
  BY <1>1, PrinterInvHolds, PTL

\* The committed offset of a partition never goes back: only a member of the current
\* generation commits, and it is never behind.
THEOREM CommitsOnlyAdvance == PrinterSpec => CommitsAdvance
<1>1. PrinterInv /\ [PrinterNext]_printerVars => [\A tp \in Partitions : committed[tp] <= committed'[tp]]_printerVars
  <2> SUFFICES ASSUME PrinterInv, [PrinterNext]_printerVars, NEW tp \in Partitions PROVE committed[tp] <= committed'[tp]
    OBVIOUS
  <2> USE DEF PrinterInv, PrinterTypeOK, None
  <2>1. ASSUME NEW c \in Consumers, MayCommit(c), CommitPositions(c) PROVE committed[tp] <= committed'[tp]
    <3>1. Current(c)
      BY <2>1 DEF Current, MayCommit, PrintersExclusive
    <3>. QED
      BY <2>1, <3>1 DEF MembersAhead, AheadOfCommits, Consuming, CommitPositions
  <2>2. committed' = committed \/ \E c \in Consumers : MayCommit(c) /\ CommitPositions(c)
    BY DEF PrinterNext, printerVars, groupVars, PrintersJoin, Rebalance, Regroup, PrinterResetOffset, FetchOffset, Produce, PrinterStart, PrinterPoll, Fetch, CommitSync,
       Leave, PrintRecord, PrinterCrash
  <2>. QED
    BY <2>1, <2>2
<1>. QED
  BY <1>1, PrinterInvHolds, PTL DEF PrinterSpec, CommitsAdvance
===============================================================================
