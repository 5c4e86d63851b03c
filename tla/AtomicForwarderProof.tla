------------------------ MODULE AtomicForwarderProof -------------------------
(***************************************************************************)
(* AtomicForwarder forwards every partition exactly once, for every number *)
(* of processes, partitions, records, rebalances and restarts.             *)
(***************************************************************************)
EXTENDS AtomicForwarder, SequenceTheorems, TLAPS

USE GroupAssumption, EpochAssumption, FirstOffsetAssumption

(***************************************************************************)
(* Run(a, b) is the sequence of the offsets from a up to b - 1.            *)
(***************************************************************************)

Run(a, b) == [i \in 1 .. b - a |-> a + i - 1]

LEMMA RunType ==
  ASSUME NEW a \in Int, NEW b \in Int, a <= b
  PROVE  Len(Run(a, b)) = b - a /\ DOMAIN Run(a, b) = 1 .. b - a
  <1>1. Run(a, b) \in Seq(Int)
    BY DEF Run
  <1>. QED
    BY <1>1, LenProperties DEF Run

LEMMA RunSeq ==
  ASSUME NEW a \in 0 .. MaxRecords, NEW b \in 0 .. MaxRecords, a <= b
  PROVE  Run(a, b) \in Seq(0 .. MaxRecords)
  BY DEF Run

LEMMA RunEmpty ==
  ASSUME NEW a \in Int
  PROVE  Run(a, a) = <<>>
  BY DEF Run

LEMMA RunAppend ==
  ASSUME NEW a \in Int, NEW b \in Int, a <= b
  PROVE  Append(Run(a, b), b) = Run(a, b + 1)
  <1>1. Run(a, b) \in Seq(Int) /\ Len(Run(a, b)) = b - a
    BY RunType DEF Run
  <1>2. Run(a, b + 1) \in Seq(Int) /\ Len(Run(a, b + 1)) = b - a + 1
    BY RunType DEF Run
  <1>3. /\ Append(Run(a, b), b) \in Seq(Int) /\ Len(Append(Run(a, b), b)) = Len(Run(a, b)) + 1
        /\ \A i \in 1 .. Len(Run(a, b)) : Append(Run(a, b), b)[i] = Run(a, b)[i]
        /\ Append(Run(a, b), b)[Len(Run(a, b)) + 1] = b
    BY <1>1, AppendProperties
  <1>4. \A i \in 1 .. b - a + 1 : Append(Run(a, b), b)[i] = Run(a, b + 1)[i]
    <2>1. \A i \in 1 .. b - a : Run(a, b)[i] = Run(a, b + 1)[i]
      BY DEF Run
    <2>2. Run(a, b + 1)[b - a + 1] = b
      BY DEF Run
    <2>. QED
      BY <1>1, <1>3, <2>1, <2>2
  <1>5. Len(Append(Run(a, b), b)) = b - a + 1
    BY <1>1, <1>3
  <1>. QED
    BY <1>2, <1>3, <1>4, <1>5, SeqEqual, Zenon

LEMMA RunConcat ==
  ASSUME NEW a \in Int, NEW b \in Int, NEW c \in Int, a <= b, b <= c
  PROVE  Run(a, b) \o Run(b, c) = Run(a, c)
  <1>1. Run(a, b) \in Seq(Int) /\ Len(Run(a, b)) = b - a /\ Run(b, c) \in Seq(Int) /\ Len(Run(b, c)) = c - b
    BY RunType DEF Run
  <1>2. Run(a, c) \in Seq(Int) /\ Len(Run(a, c)) = c - a
    BY RunType DEF Run
  <1>3. /\ Run(a, b) \o Run(b, c) \in Seq(Int)
        /\ Len(Run(a, b) \o Run(b, c)) = Len(Run(a, b)) + Len(Run(b, c))
        /\ \A i \in 1 .. Len(Run(a, b)) + Len(Run(b, c)) : (Run(a, b) \o Run(b, c))[i] =
              IF i <= Len(Run(a, b)) THEN Run(a, b)[i] ELSE Run(b, c)[i - Len(Run(a, b))]
    BY <1>1, ConcatProperties, Zenon
  <1>4. \A i \in 1 .. c - a : (Run(a, b) \o Run(b, c))[i] = Run(a, c)[i]
    <2>1. \A i \in 1 .. c - a :
            Run(a, c)[i] = IF i <= b - a THEN Run(a, b)[i] ELSE Run(b, c)[i - (b - a)]
      BY DEF Run
    <2>. QED
      BY <1>1, <1>3, <2>1
  <1>5. Len(Run(a, b) \o Run(b, c)) = c - a
    BY <1>1, <1>3
  <1>. QED
    BY <1>2, <1>3, <1>4, <1>5, SeqEqual, Zenon

(***************************************************************************)
(* Type correctness.                                                       *)
(***************************************************************************)

LEMMA DieType ==
  ASSUME TypeOK, NEW c \in Consumers, Die(c)
  PROVE  TypeOK'
  BY DEF TypeOK, Die, Leave, txnVars, NoBatch, MaybeOffset, None

LEMMA TypeStep == TypeOK /\ [Next]_vars => TypeOK'
<1> SUFFICES ASSUME TypeOK, [Next]_vars PROVE TypeOK'
  OBVIOUS
<1> USE DEF TypeOK, groupVars, txnVars, MaybeOffset, None
<1>1. CASE Join
  BY <1>1 DEF Join, Rebalance, Regroup
<1>2. ASSUME NEW c \in Consumers, NEW tp \in Partitions, ResetOffset(c, tp) PROVE TypeOK'
  BY <1>2, SMTT(60) DEF ResetOffset, FetchOffset, StartOffset
<1>3. ASSUME NEW tp \in Partitions, Produce(tp), UNCHANGED <<txnVars, pc, start, done, first>> PROVE TypeOK'
  BY <1>3, SMTT(60) DEF Produce
<1>4. ASSUME NEW c \in Consumers, Start(c) PROVE TypeOK'
  BY <1>4 DEF Start, InitTransactions, Abort, Empty, NoOffsets
<1>5. ASSUME NEW c \in Consumers, Poll(c) PROVE TypeOK'
  <2>1. PICK to \in Fetched(c) :
          /\ Fetch(c, to)
          /\ first' = [tp \in Partitions |->
               IF first[tp] = None /\ position[c][tp] < to[tp] THEN position[c][tp] ELSE first[tp]]
    BY <1>5 DEF Poll
  <2>2. /\ to \in [Partitions -> 0 .. MaxRecords \cup {-1}]
        /\ \A tp \in Partitions : position[c][tp] <= to[tp]
        /\ \A tp \in Partitions : position[c][tp] = -1 => to[tp] = -1
    <3>1. to \in [Partitions -> 0 .. MaxRecords \cup {-1}]
      BY DEF Fetched
    <3>2. ASSUME NEW tp \in Partitions
          PROVE  position[c][tp] <= to[tp] /\ (position[c][tp] = -1 => to[tp] = -1)
      <4>1. position[c][tp] \in Int
        OBVIOUS
      <4>2. to[tp] = position[c][tp] \/ (position[c][tp] # -1 /\ position[c][tp] <= to[tp])
        BY DEF Fetched, Consuming
      <4>. QED
        BY <4>1, <4>2
    <3>. QED
      BY <3>1, <3>2
  <2>3. position' = [position EXCEPT ![c] = to] /\ UNCHANGED <<end, committed, generation, known, assigned>>
    BY <2>1 DEF Fetch
  <2>4. /\ pc' = [pc EXCEPT ![c] = "send"]
        /\ start' = [start EXCEPT ![c] = position[c]]
        /\ done' = [done EXCEPT ![c] = position[c]]
        /\ UNCHANGED txnVars
    BY <1>5 DEF Poll
  <2>5. first' \in [Partitions -> 0 .. MaxRecords \cup {-1}]
    BY <2>1
  <2>6. \A d \in Consumers, tp \in Partitions : pc'[d] \in {"send", "commit"} =>
          /\ start'[d][tp] <= done'[d][tp] /\ done'[d][tp] <= position'[d][tp]
          /\ start'[d][tp] = -1 => position'[d][tp] = -1
    BY <2>2, <2>3, <2>4
  <2>. QED
    BY <2>2, <2>3, <2>4, <2>5, <2>6
<1>6. ASSUME NEW c \in Consumers, SendRecord(c) PROVE TypeOK'
  <2>1. PICK tp \in Partitions : /\ done[c][tp] < position[c][tp]
                                 /\ Send(c, tp, done[c][tp])
                                 /\ done' = [done EXCEPT ![c][tp] = @ + 1]
    BY <1>6 DEF SendRecord
  <2>2. pc[c] = "send" /\ UNCHANGED <<groupVars, pc, start, first>>
    BY <1>6 DEF SendRecord
  <2>3. /\ done[c][tp] \in Int /\ position[c][tp] \in Int
        /\ done[c][tp] \in 0 .. MaxRecords /\ done[c][tp] + 1 \in 0 .. MaxRecords
    <3>1. /\ done[c][tp] \in 0 .. MaxRecords \cup {-1}
          /\ position[c][tp] \in 0 .. MaxRecords \cup {-1}
          /\ start[c][tp] \in 0 .. MaxRecords \cup {-1}
      OBVIOUS
    <3>2. start[c][tp] <= done[c][tp] /\ (start[c][tp] = -1 => position[c][tp] = -1)
      BY <2>2
    <3>3. done[c][tp] < position[c][tp]
      BY <2>1
    <3>. QED
      BY <3>1, <3>2, <3>3
  <2>4. done' \in [Consumers -> [Partitions -> 0 .. MaxRecords \cup {-1}]]
    BY <2>1, <2>3
  <2>5. \A d \in Consumers, q \in Partitions : pc[d] \in {"send", "commit"} =>
          start[d][q] <= done'[d][q] /\ done'[d][q] <= position[d][q]
    <3> SUFFICES ASSUME NEW d \in Consumers, NEW q \in Partitions, pc[d] \in {"send", "commit"}
                 PROVE  start[d][q] <= done'[d][q] /\ done'[d][q] <= position[d][q]
      OBVIOUS
    <3>1. start[d][q] \in Int /\ start[d][q] <= done[d][q] /\ done[d][q] <= position[d][q]
      OBVIOUS
    <3>2. CASE d = c /\ q = tp
      <4>1. done'[c][tp] = done[c][tp] + 1
        BY <2>1
      <4>. QED
        BY <2>1, <2>3, <3>1, <3>2, <4>1
    <3>3. CASE ~ (d = c /\ q = tp)
      BY <2>1, <3>1, <3>3
    <3>. QED
      BY <3>2, <3>3
  <2>6. sent' \in [Partitions -> Seq(0 .. MaxRecords)] /\ UNCHANGED <<epoch, myEpoch, pending, out>>
    <3>1. CASE Fenced(c)
      BY <2>1, <3>1 DEF Send
    <3>2. CASE ~ Fenced(c)
      <4>1. Append(sent[tp], done[c][tp]) \in Seq(0 .. MaxRecords)
        BY <2>3, AppendProperties
      <4>. QED
        BY <2>1, <3>2, <4>1 DEF Send
    <3>. QED
      BY <3>1, <3>2
  <2>. QED
    BY <2>2, <2>4, <2>5, <2>6
<1>7. ASSUME NEW c \in Consumers, SendOffsetsToTransaction(c) PROVE TypeOK'
  <2>1. CASE MaySendOffsets(c)
    <3>1. pending' \in [Partitions -> 0 .. MaxRecords \cup {-1}]
      <4>1. BatchOffsets(c) \in [Partitions -> 0 .. MaxRecords \cup {-1}]
        BY DEF BatchOffsets
      <4>. QED
        BY <1>7, <2>1, <4>1, ZenonT(100) DEF SendOffsetsToTransaction, SendOffsets, Die, MaySendOffsets
    <3>2. pc' = [pc EXCEPT ![c] = "commit"] /\ pc[c] = "send"
      BY <1>7, <2>1 DEF SendOffsetsToTransaction
    <3>3. UNCHANGED <<groupVars, start, done, first, epoch, myEpoch, sent, out>>
      BY <1>7, <2>1 DEF SendOffsetsToTransaction, SendOffsets
    <3>. QED
      BY <3>1, <3>2, <3>3
  <2>2. CASE ~ MaySendOffsets(c)
    BY <1>7, <2>2, DieType DEF SendOffsetsToTransaction
  <2>. QED
    BY <2>1, <2>2
<1>8. ASSUME NEW c \in Consumers, CommitTransaction(c) PROVE TypeOK'
  <2>1. CASE Fenced(c)
    BY <1>8, <2>1, DieType DEF CommitTransaction
  <2>2. CASE ~ Fenced(c)
    <3>1. /\ out' = [tp \in Partitions |-> out[tp] \o sent[tp]]
          /\ committed' \in [Partitions -> 0 .. MaxRecords \cup {-1}]
          /\ sent' = Empty /\ pending' = NoOffsets
          /\ UNCHANGED <<epoch, myEpoch, end, generation, known, assigned, position>>
      BY ZenonT(100), <1>8, <2>2 DEF CommitTransaction, CommitTxn
    <3>2. out' \in [Partitions -> Seq(0 .. MaxRecords)]
      BY <3>1, ConcatProperties
    <3>3. /\ pc' = [pc EXCEPT ![c] = "poll"]
          /\ start' = [start EXCEPT ![c] = NoBatch]
          /\ done' = [done EXCEPT ![c] = NoBatch]
          /\ UNCHANGED first
      BY <1>8, <2>2 DEF CommitTransaction
    <3>4. sent' \in [Partitions -> Seq(0 .. MaxRecords)] /\ pending' \in [Partitions -> 0 .. MaxRecords \cup {-1}]
      BY <3>1 DEF Empty, NoOffsets
    <3>. QED
      BY <3>1, <3>2, <3>3, <3>4 DEF NoBatch
  <2>. QED
    BY <2>1, <2>2
<1>9. ASSUME NEW c \in Consumers, Crash(c) PROVE TypeOK'
  BY <1>9, DieType DEF Crash
<1>10. CASE TxnTimeout /\ UNCHANGED <<groupVars, pc, start, done, first>>
  BY <1>10 DEF TxnTimeout, Abort, Empty, NoOffsets
<1>11. CASE UNCHANGED vars
  BY <1>11 DEF vars
<1>. QED
  BY <1>1, <1>2, <1>3, <1>4, <1>5, <1>6, <1>7, <1>8, <1>9, <1>10, <1>11 DEF Next


\* Only values of the right kind are stored; a process never sends more than the batch
\* it polled.
THEOREM TypeCorrect == Spec => []TypeOK
<1>1. Init => TypeOK
  BY DEF Init, GroupInit, TxnInit, Empty, NoOffsets, NoBatch, TypeOK, MaybeOffset, None
<1>. QED
  BY <1>1, TypeStep, PTL DEF Spec

(***************************************************************************)
(* The inductive invariant.  Two processes matter at any time and may be   *)
(* different ones: a member of the generation, who may send offsets, and   *)
(* the owner of the epoch, who may commit.                                 *)
(***************************************************************************)

Owns(c)    == myEpoch[c] = epoch
InBatch(c) == pc[c] \in {"send", "commit"}

\* The records a process forwards next, or is forwarding, start here.
Base(c, tp) == IF InBatch(c) THEN start[c][tp] ELSE position[c][tp]

\* Epochs are given to one process each, and generations share out the partitions.
Exclusive ==
  /\ \A c \in Consumers : known[c] <= generation /\ myEpoch[c] <= epoch
  /\ \A c, d \in Consumers : c # d => ~ (Owns(c) /\ Owns(d))
  /\ \A c, d \in Consumers :
       c # d /\ MayCommit(c) /\ MayCommit(d) => assigned[c] \cap assigned[d] = {}

\* A member forwards from the committed offset on, and only the owner of the ongoing
\* transaction has a partition whose offset is pending.
Starts(c) ==
  \A tp \in Consuming(c) :
    /\ committed[tp] = None \/ Base(c, tp) = committed[tp]
    /\ pending[tp] # None => Owns(c) /\ pc[c] = "commit"
MembersStart == \A c \in Consumers : MayCommit(c) => Starts(c)

\* Batches come from partitions the process had a position in.
BatchesConsumed ==
  \A c \in Consumers : InBatch(c) =>
    \A tp \in Partitions : start[c][tp] < position[c][tp] => tp \in Consuming(c)

\* The ongoing transaction holds what its owner has sent of its batch, and its offsets
\* once the loop is over.
Transaction(c) ==
  /\ pc[c] = "poll" => sent = Empty /\ pending = NoOffsets
  /\ pc[c] = "send" => /\ pending = NoOffsets
                       /\ \A tp \in Partitions : sent[tp] = Run(start[c][tp], done[c][tp])
  /\ pc[c] = "commit" => \A tp \in Partitions :
       /\ sent[tp] = Run(start[c][tp], position[c][tp])
       /\ pending[tp] = BatchOffsets(c)[tp]
       /\ start[c][tp] < position[c][tp] => committed[tp] \in {None, start[c][tp]}
OwnersTransaction == \A c \in Consumers : Owns(c) => Transaction(c)

\* The output is a run of offsets that ends before the committed one.
OutputUpTo(tp, n) ==
  IF n = None THEN FirstOffset = None /\ out[tp] = <<>>
  ELSE \E a \in 0 .. n : /\ out[tp] = Run(a, n)
                         /\ FirstOffset = 0 => a = 0
                         /\ FirstOffset = None => a < n
OutputMatches == \A tp \in Partitions : OutputUpTo(tp, committed[tp])

IndInv ==
  TypeOK /\ Exclusive /\ MembersStart /\ BatchesConsumed /\ OwnersTransaction /\ OutputMatches

LEMMA IndInit == Init => IndInv
<1> SUFFICES ASSUME Init PROVE IndInv
  OBVIOUS
<1>1. TypeOK
  BY DEF Init, GroupInit, TxnInit, Empty, NoOffsets, NoBatch, TypeOK, MaybeOffset, None
<1>2. OutputMatches
  <2>1. Run(0, 0) = <<>>
    BY RunEmpty
  <2>. QED
    BY <2>1 DEF Init, GroupInit, TxnInit, Empty, OutputMatches, OutputUpTo, None
<1>3. Exclusive /\ MembersStart /\ BatchesConsumed /\ OwnersTransaction
  BY DEF Init, GroupInit, TxnInit, Exclusive, MembersStart, BatchesConsumed, OwnersTransaction, Owns, InBatch,
     MayCommit, None
<1>. QED
  BY <1>1, <1>2, <1>3 DEF IndInv

\* A process that ends leaves the generation; its transaction stays as it is.
LEMMA DieStep ==
  ASSUME IndInv, NEW c \in Consumers, Die(c)
  PROVE  IndInv'
<1>1. TypeOK'
  BY DieType DEF IndInv
<1> USE DEF IndInv, TypeOK, MaybeOffset, None
<1>2. /\ UNCHANGED <<end, committed, generation, position, epoch, myEpoch, sent, pending, out>>
      /\ known' = [known EXCEPT ![c] = -1] /\ pc' = [pc EXCEPT ![c] = "down"]
      /\ \A d \in Consumers : d # c => assigned'[d] = assigned[d] /\ start'[d] = start[d] /\ done'[d] = done[d]
  BY DEF Die, Leave, txnVars
<1>3. Exclusive'
  BY <1>2 DEF Exclusive, Owns, MayCommit
<1>4. \A d \in Consumers : d # c =>
        /\ Consuming(d)' = Consuming(d) /\ MayCommit(d)' = MayCommit(d) /\ Owns(d)' = Owns(d)
        /\ pc'[d] = pc[d] /\ BatchOffsets(d)' = BatchOffsets(d)
  BY <1>2 DEF Consuming, MayCommit, Owns, BatchOffsets
<1>5. pc'[c] = "down" /\ ~ MayCommit(c)'
  BY <1>2 DEF MayCommit
<1>6. MembersStart'
  BY <1>2, <1>4, <1>5 DEF MembersStart, Starts, Base, InBatch
<1>7. BatchesConsumed'
  BY <1>2, <1>4, <1>5 DEF BatchesConsumed, InBatch
<1>8. OwnersTransaction'
  BY <1>2, <1>4, <1>5 DEF OwnersTransaction, Transaction
<1>9. OutputMatches'
  BY <1>2 DEF OutputMatches, OutputUpTo
<1>. QED
  BY <1>1, <1>3, <1>6, <1>7, <1>8, <1>9

LEMMA JoinStep == IndInv /\ Join => IndInv'
<1> SUFFICES ASSUME IndInv, Join PROVE IndInv'
  OBVIOUS
<1>1. TypeOK'
  BY TypeStep DEF IndInv, Next
<1>2. PICK members \in SUBSET {c \in Consumers : pc[c] = "poll"} : Rebalance(members)
  BY DEF Join
<1> USE DEF IndInv, TypeOK, MaybeOffset, None
<1>3. UNCHANGED <<end, committed, epoch, myEpoch, sent, pending, out, pc, start, done>>
  BY <1>2 DEF Join, Rebalance, Regroup, txnVars
<1>4. \A c \in Consumers :
        /\ c \in members => pc[c] = "poll" /\ \A tp \in Partitions : position'[c][tp] = -1
        /\ c \notin members => /\ ~ MayCommit(c)' /\ position'[c] = position[c]
                               /\ assigned'[c] = assigned[c]
  BY <1>2, <1>3 DEF Rebalance, Regroup, MayCommit, Exclusive
<1>5. Exclusive'
  <2>1. PICK owner \in [Partitions -> members] :
          assigned' = [c \in Consumers |->
            IF c \in members THEN {tp \in Partitions : owner[tp] = c} ELSE assigned[c]]
    BY <1>2 DEF Rebalance, Regroup
  <2>2. \A c \in Consumers : known'[c] <= generation'
    <3>1. \A c \in Consumers : known[c] <= generation /\ generation' = generation + 1
      BY <1>2 DEF Rebalance, Regroup, Exclusive
    <3>2. \A c \in Consumers : known'[c] = generation' \/ known'[c] = known[c]
      BY <1>2 DEF Rebalance, Regroup
    <3>3. ASSUME NEW c \in Consumers PROVE known'[c] <= generation'
      <4>1. generation \in Int /\ known[c] \in Int
        OBVIOUS
      <4>2. generation' \in Int /\ known[c] <= generation'
        BY <3>1, <4>1
      <4>3. CASE known'[c] = generation'
        BY <4>2, <4>3
      <4>4. CASE known'[c] = known[c]
        BY <4>2, <4>4
      <4>. QED
        BY <3>2, <4>3, <4>4
    <3>. QED
      BY <3>3
  <2>. QED
    BY <1>3, <1>4, <2>1, <2>2 DEF Exclusive, Owns
<1>6. MembersStart'
  BY <1>1, <1>4 DEF MembersStart, Starts, Consuming
<1>7. BatchesConsumed'
  <2>1. \A c \in Consumers : InBatch(c)' =>
          InBatch(c) /\ position'[c] = position[c] /\ start'[c] = start[c] /\ Consuming(c)' = Consuming(c)
    BY <1>3, <1>4 DEF InBatch, Consuming
  <2>. QED
    BY <2>1 DEF BatchesConsumed
<1>8. OwnersTransaction'
  <2>1. \A c \in Consumers : pc[c] \in {"send", "commit"} => position'[c] = position[c]
    BY <1>4
  <2>2. \A c \in Consumers : Owns(c)' = Owns(c)
    BY <1>3 DEF Owns
  <2>. QED
    BY <1>3, <2>1, <2>2 DEF OwnersTransaction, Transaction, BatchOffsets
<1>9. OutputMatches'
  BY <1>3 DEF OutputMatches, OutputUpTo
<1>. QED
  BY <1>1, <1>5, <1>6, <1>7, <1>8, <1>9

LEMMA ResetStep ==
  ASSUME IndInv, NEW c \in Consumers, NEW tp \in Partitions, ResetOffset(c, tp)
  PROVE  IndInv'
<1>1. TypeOK'
  BY TypeStep DEF IndInv, Next
<1> USE DEF IndInv, TypeOK, MaybeOffset, None
<1>2. /\ pc[c] = "poll" /\ pending[tp] = -1
      /\ position' = [position EXCEPT ![c][tp] = StartOffset(tp)]
      /\ UNCHANGED <<end, committed, generation, known, assigned>>
      /\ UNCHANGED <<epoch, myEpoch, sent, pending, out, pc, start, done>>
  BY DEF ResetOffset, FetchOffset, txnVars
<1>3. Exclusive'
  BY <1>2 DEF Exclusive, Owns, MayCommit
<1>4. \A d \in Consumers : d # c => Consuming(d)' = Consuming(d) /\ position'[d] = position[d]
  BY <1>2 DEF Consuming
<1>5. \A q \in Partitions : q # tp => (q \in Consuming(c)' <=> q \in Consuming(c)) /\ position'[c][q] = position[c][q]
  BY <1>2 DEF Consuming
<1>6. MembersStart'
  <2> SUFFICES ASSUME NEW d \in Consumers, MayCommit(d)' PROVE Starts(d)'
    BY DEF MembersStart
  <2>1. Starts(d)
    BY <1>2 DEF MembersStart, MayCommit
  <2>2. CASE d # c
    BY <1>2, <1>4, <2>1, <2>2 DEF Starts, Base, InBatch, Owns
  <2>3. CASE d = c
    <3> SUFFICES ASSUME NEW q \in Partitions, q \in Consuming(c)'
                 PROVE  (committed[q] = -1 \/ position'[c][q] = committed[q]) /\ pending[q] = -1
      BY <1>2, <2>3 DEF Starts, Base, InBatch, Consuming
    <3>1. CASE q = tp
      BY <1>2, <3>1 DEF StartOffset
    <3>2. CASE q # tp
      BY <1>2, <1>5, <2>1, <2>3, <3>2 DEF Starts, Base, InBatch
    <3>. QED
      BY <3>1, <3>2
  <2>. QED
    BY <2>2, <2>3
<1>7. BatchesConsumed'
  BY <1>2, <1>4 DEF BatchesConsumed, InBatch
<1>8. OwnersTransaction'
  BY <1>2, <1>4 DEF OwnersTransaction, Transaction, BatchOffsets, Owns
<1>9. OutputMatches'
  BY <1>2 DEF OutputMatches, OutputUpTo
<1>. QED
  BY <1>1, <1>3, <1>6, <1>7, <1>8, <1>9

LEMMA StartStep ==
  ASSUME IndInv, NEW c \in Consumers, Start(c)
  PROVE  IndInv'
<1>1. TypeOK'
  BY TypeStep DEF IndInv, Next
<1> USE DEF IndInv, TypeOK, MaybeOffset, None
<1>2. /\ pc[c] = "down" /\ pc' = [pc EXCEPT ![c] = "poll"]
      /\ epoch' = epoch + 1 /\ myEpoch' = [myEpoch EXCEPT ![c] = epoch + 1]
      /\ sent' = Empty /\ pending' = NoOffsets
      /\ UNCHANGED <<end, committed, generation, known, assigned, position, out, start, done>>
  BY DEF Start, InitTransactions, Abort, groupVars
<1>3. \A d \in Consumers : Owns(d)' <=> d = c
  BY <1>2 DEF Owns, Exclusive
<1>4. Exclusive'
  <2>1. \A d \in Consumers : myEpoch[d] \in Int /\ myEpoch[d] <= epoch /\ epoch \in Int
    BY DEF Exclusive
  <2>2. \A d \in Consumers : myEpoch'[d] <= epoch'
    BY <1>2, <2>1
  <2>3. \A d \in Consumers : MayCommit(d)' = MayCommit(d)
    BY <1>2 DEF MayCommit
  <2>. QED
    BY <1>2, <1>3, <2>2, <2>3 DEF Exclusive
<1>5. MembersStart'
  BY <1>2 DEF MembersStart, Starts, Base, InBatch, MayCommit, Consuming, NoOffsets
<1>6. BatchesConsumed'
  BY <1>2 DEF BatchesConsumed, InBatch, Consuming
<1>7. OwnersTransaction'
  BY <1>2, <1>3 DEF OwnersTransaction, Transaction
<1>8. OutputMatches'
  BY <1>2 DEF OutputMatches, OutputUpTo
<1>. QED
  BY <1>1, <1>4, <1>5, <1>6, <1>7, <1>8

LEMMA TimeoutStep ==
  ASSUME IndInv, TxnTimeout, UNCHANGED <<groupVars, pc, start, done, first>>
  PROVE  IndInv'
<1>1. TypeOK'
  BY TypeStep DEF IndInv, Next
<1> USE DEF IndInv, TypeOK, MaybeOffset, None
<1>2. /\ epoch' = epoch + 1 /\ sent' = Empty /\ pending' = NoOffsets
      /\ UNCHANGED <<end, committed, generation, known, assigned, position, myEpoch, out, pc, start, done>>
  BY DEF TxnTimeout, Abort, groupVars
<1>3. \A d \in Consumers : ~ Owns(d)'
  BY <1>2 DEF Owns, Exclusive
<1>4. Exclusive'
  <2>1. \A d \in Consumers : myEpoch[d] \in Int /\ myEpoch[d] <= epoch /\ epoch \in Int
    BY DEF Exclusive
  <2>2. \A d \in Consumers : myEpoch'[d] <= epoch'
    BY <1>2, <2>1
  <2>3. \A d \in Consumers : MayCommit(d)' = MayCommit(d)
    BY <1>2 DEF MayCommit
  <2>. QED
    BY <1>2, <1>3, <2>2, <2>3 DEF Exclusive
<1>5. MembersStart'
  BY <1>2 DEF MembersStart, Starts, Base, InBatch, MayCommit, Consuming, NoOffsets
<1>6. BatchesConsumed'
  BY <1>2 DEF BatchesConsumed, InBatch, Consuming
<1>7. OwnersTransaction'
  BY <1>3 DEF OwnersTransaction
<1>8. OutputMatches'
  BY <1>2 DEF OutputMatches, OutputUpTo
<1>. QED
  BY <1>1, <1>4, <1>5, <1>6, <1>7, <1>8

LEMMA PollStep ==
  ASSUME IndInv, NEW c \in Consumers, Poll(c)
  PROVE  IndInv'
<1>1. TypeOK'
  BY TypeStep DEF IndInv, Next
<1>2. PICK to \in Fetched(c) : Fetch(c, to)
  BY DEF Poll
<1> USE DEF IndInv, TypeOK, MaybeOffset, None
<1>3. /\ pc[c] = "poll" /\ pc' = [pc EXCEPT ![c] = "send"]
      /\ start' = [start EXCEPT ![c] = position[c]] /\ done' = [done EXCEPT ![c] = position[c]]
      /\ position' = [position EXCEPT ![c] = to]
      /\ UNCHANGED <<end, committed, generation, known, assigned, epoch, myEpoch, sent, pending, out>>
  BY <1>2 DEF Poll, Fetch, txnVars
<1>4. ASSUME NEW tp \in Partitions
      PROVE  /\ to[tp] \in Int
             /\ tp \notin Consuming(c) => to[tp] = position[c][tp]
             /\ tp \in Consuming(c) => position[c][tp] # -1 /\ position[c][tp] <= to[tp]
  BY DEF Fetched, Consuming
<1>5. Exclusive'
  BY <1>3 DEF Exclusive, Owns, MayCommit
<1>6. ASSUME NEW d \in Consumers PROVE Consuming(d)' = Consuming(d)
  BY <1>3, <1>4 DEF Consuming
<1>7. MembersStart'
  <2> SUFFICES ASSUME NEW d \in Consumers, MayCommit(d)' PROVE Starts(d)'
    BY DEF MembersStart
  <2>1. Starts(d) /\ Consuming(d)' = Consuming(d) /\ Owns(d)' = Owns(d)
    BY <1>3, <1>6 DEF MembersStart, MayCommit, Owns
  <2>2. \A tp \in Consuming(d) : Base(d, tp)' = Base(d, tp) /\ (pc'[d] = "commit" <=> pc[d] = "commit")
    BY <1>3 DEF Base, InBatch, Consuming
  <2>. QED
    BY <1>3, <2>1, <2>2 DEF Starts
<1>8. BatchesConsumed'
  <2> SUFFICES ASSUME NEW d \in Consumers, InBatch(d)', NEW tp \in Partitions, start'[d][tp] < position'[d][tp]
               PROVE  tp \in Consuming(d)'
    BY DEF BatchesConsumed
  <2>1. CASE d = c
    <3>1. position[c][tp] < to[tp] /\ position[c][tp] \in Int
      BY <1>3, <2>1
    <3>. QED
      BY <1>4, <1>6, <2>1, <3>1
  <2>2. CASE d # c
    BY <1>3, <1>6, <2>2 DEF BatchesConsumed, InBatch
  <2>. QED
    BY <2>1, <2>2
<1>9. OwnersTransaction'
  <2> SUFFICES ASSUME NEW d \in Consumers, Owns(d)' PROVE Transaction(d)'
    BY DEF OwnersTransaction
  <2>1. Transaction(d)
    BY <1>3 DEF OwnersTransaction, Owns
  <2>2. CASE d = c
    <3>1. sent = Empty /\ pending = NoOffsets
      BY <1>3, <2>1, <2>2 DEF Transaction
    <3>2. ASSUME NEW tp \in Partitions PROVE Run(position[c][tp], position[c][tp]) = <<>>
      <4>1. position[c][tp] \in Int
        OBVIOUS
      <4>. QED
        BY <4>1, RunEmpty
    <3>. QED
      BY <1>3, <2>2, <3>1, <3>2 DEF Transaction, Empty
  <2>3. CASE d # c
    BY <1>3, <2>1, <2>3 DEF Transaction, BatchOffsets
  <2>. QED
    BY <2>2, <2>3
<1>10. OutputMatches'
  BY <1>3 DEF OutputMatches, OutputUpTo
<1>. QED
  BY <1>1, <1>5, <1>7, <1>8, <1>9, <1>10

LEMMA SendRecordStep ==
  ASSUME IndInv, NEW c \in Consumers, SendRecord(c)
  PROVE  IndInv'
<1>1. TypeOK'
  BY TypeStep DEF IndInv, Next
<1>2. PICK tp \in Partitions : /\ done[c][tp] < position[c][tp]
                               /\ Send(c, tp, done[c][tp])
                               /\ done' = [done EXCEPT ![c][tp] = @ + 1]
  BY DEF SendRecord
<1> USE DEF IndInv, TypeOK, MaybeOffset, None
<1>3. /\ pc[c] = "send"
      /\ UNCHANGED <<end, committed, generation, known, assigned, position, epoch, myEpoch, pending, out, pc, start>>
  BY <1>2 DEF SendRecord, Send, groupVars
<1>4. Exclusive'
  BY <1>3 DEF Exclusive, Owns, MayCommit
<1>5. MembersStart'
  BY <1>3 DEF MembersStart, Starts, Base, InBatch, MayCommit, Consuming, Owns
<1>6. BatchesConsumed'
  BY <1>3 DEF BatchesConsumed, InBatch, Consuming
<1>7. OwnersTransaction'
  <2> SUFFICES ASSUME NEW d \in Consumers, Owns(d)' PROVE Transaction(d)'
    BY DEF OwnersTransaction
  <2>1. Owns(d) /\ Transaction(d)
    BY <1>3 DEF OwnersTransaction, Owns
  <2>2. CASE d = c
    <3>1. sent' = [sent EXCEPT ![tp] = Append(@, done[c][tp])]
      BY <1>2, <2>1, <2>2 DEF Send, Fenced, Owns
    <3>2. start[c][tp] \in Int /\ done[c][tp] \in Int /\ start[c][tp] <= done[c][tp]
      BY <1>3
    <3>3. \A q \in Partitions : sent[q] = Run(start[c][q], done[c][q])
      BY <1>3, <2>1, <2>2 DEF Transaction
    <3>4. sent'[tp] = Run(start[c][tp], done[c][tp] + 1)
      BY <3>1, <3>2, <3>3, RunAppend
    <3>5. \A q \in Partitions : sent'[q] = Run(start[c][q], done'[c][q])
      BY <1>2, <3>1, <3>3, <3>4
    <3>. QED
      BY <1>3, <2>1, <2>2, <3>5 DEF Transaction
  <2>3. CASE d # c
    <3>1. sent' = sent /\ done'[d] = done[d]
      BY <1>2, <2>1, <2>3 DEF Exclusive, Send, Fenced, Owns
    <3>2. BatchOffsets(d)' = BatchOffsets(d)
      BY <1>3 DEF BatchOffsets
    <3>. QED
      BY <1>3, <2>1, <3>1, <3>2 DEF Transaction
  <2>. QED
    BY <2>2, <2>3
<1>8. OutputMatches'
  BY <1>3 DEF OutputMatches, OutputUpTo
<1>. QED
  BY <1>1, <1>4, <1>5, <1>6, <1>7, <1>8

LEMMA SendOffsetsStep ==
  ASSUME IndInv, NEW c \in Consumers, SendOffsetsToTransaction(c)
  PROVE  IndInv'
<1>1. TypeOK'
  BY TypeStep DEF IndInv, Next
<1>2. SUFFICES ASSUME MaySendOffsets(c) PROVE IndInv'
  BY DieStep DEF SendOffsetsToTransaction
<1> USE DEF IndInv, TypeOK, MaybeOffset, None
<1>3. /\ pc[c] = "send" /\ done[c] = position[c] /\ pc' = [pc EXCEPT ![c] = "commit"]
      /\ Owns(c) /\ MayCommit(c)
      /\ SendOffsets(BatchOffsets(c))
      /\ UNCHANGED <<end, committed, generation, known, assigned, position, epoch, myEpoch, sent, out, start, done>>
  BY <1>2 DEF SendOffsetsToTransaction, MaySendOffsets, SendOffsets, groupVars, Die, Fenced, Owns
<1>4. pending = NoOffsets /\ \A tp \in Partitions : sent[tp] = Run(start[c][tp], done[c][tp])
  BY <1>3 DEF OwnersTransaction, Transaction
<1>5. \A tp \in Partitions : pending'[tp] = BatchOffsets(c)[tp]
  BY <1>3, <1>4 DEF SendOffsets, NoOffsets, BatchOffsets
<1>6. Exclusive'
  BY <1>3 DEF Exclusive, Owns, MayCommit
<1>7. MembersStart'
  <2> SUFFICES ASSUME NEW d \in Consumers, MayCommit(d)' PROVE Starts(d)'
    BY DEF MembersStart
  <2>1. Starts(d) /\ MayCommit(d) /\ Consuming(d)' = Consuming(d) /\ Owns(d)' = Owns(d)
    BY <1>3 DEF MembersStart, MayCommit, Owns, Consuming
  <2>2. \A tp \in Consuming(d) : Base(d, tp)' = Base(d, tp)
    BY <1>3 DEF Base, InBatch
  <2>3. CASE d = c
    BY <1>3, <2>1, <2>2, <2>3 DEF Starts
  <2>4. CASE d # c
    <3>1. \A tp \in Partitions : tp \in Consuming(c) => tp \notin Consuming(d)
      BY <1>3, <2>1, <2>4 DEF Exclusive, Consuming
    <3>2. \A tp \in Consuming(d) : tp \in Partitions /\ ~ (start[c][tp] < position[c][tp])
      BY <1>3, <3>1 DEF BatchesConsumed, InBatch, Consuming
    <3>3. \A tp \in Consuming(d) : pending'[tp] = -1
      BY <1>5, <3>2 DEF BatchOffsets
    <3>. QED
      BY <1>3, <2>1, <2>2, <3>3 DEF Starts
  <2>. QED
    BY <2>3, <2>4
<1>8. BatchesConsumed'
  BY <1>3 DEF BatchesConsumed, InBatch, Consuming
<1>9. OwnersTransaction'
  <2> SUFFICES ASSUME NEW d \in Consumers, Owns(d)' PROVE Transaction(d)'
    BY DEF OwnersTransaction
  <2>1. d = c
    BY <1>3 DEF Exclusive, Owns
  <2>2. \A tp \in Partitions : start[c][tp] < position[c][tp] => committed[tp] \in {-1, start[c][tp]}
    BY <1>3 DEF BatchesConsumed, MembersStart, Starts, Base, InBatch
  <2>3. BatchOffsets(c)' = BatchOffsets(c)
    BY <1>3 DEF BatchOffsets
  <2>. QED
    BY <1>3, <1>4, <1>5, <2>1, <2>2, <2>3 DEF Transaction
<1>10. OutputMatches'
  BY <1>3 DEF OutputMatches, OutputUpTo
<1>. QED
  BY <1>1, <1>6, <1>7, <1>8, <1>9, <1>10

\* What a commit adds to the output of a partition, and what becomes of its offset.
LEMMA CommitPartition ==
  ASSUME IndInv, NEW c \in Consumers, Owns(c), pc[c] = "commit", CommitTxn, NEW tp \in Partitions
  PROVE  /\ start[c][tp] = position[c][tp] => out'[tp] = out[tp] /\ committed'[tp] = committed[tp]
         /\ start[c][tp] # position[c][tp] =>
              /\ start[c][tp] \in Nat /\ start[c][tp] < position[c][tp]
              /\ committed[tp] \in {None, start[c][tp]} /\ committed'[tp] = position[c][tp]
         /\ OutputUpTo(tp, committed[tp])'
<1> USE DEF IndInv, TypeOK, MaybeOffset, None
<1> DEFINE s == start[c][tp]  e == position[c][tp]
<1>1. /\ s \in Int /\ s >= -1 /\ e \in Int /\ s <= e /\ (s = -1 => e = -1)
      /\ committed[tp] \in Int /\ committed[tp] >= -1
  <2>1. start[c][tp] \in 0 .. MaxRecords \cup {-1} /\ position[c][tp] \in 0 .. MaxRecords \cup {-1}
    OBVIOUS
  <2>2. /\ start[c][tp] <= done[c][tp] /\ done[c][tp] <= position[c][tp]
        /\ start[c][tp] = -1 => position[c][tp] = -1
        /\ done[c][tp] \in 0 .. MaxRecords \cup {-1} /\ committed[tp] \in 0 .. MaxRecords \cup {-1}
    OBVIOUS
  <2>. QED
    BY <2>1, <2>2
<1>2. /\ sent[tp] = Run(s, e)
      /\ pending[tp] = IF s < e THEN e ELSE -1
      /\ s < e => committed[tp] = -1 \/ committed[tp] = s
  BY DEF OwnersTransaction, Transaction, BatchOffsets
<1>3. /\ out'[tp] = out[tp] \o sent[tp]
      /\ committed'[tp] = IF pending[tp] # -1 THEN pending[tp] ELSE committed[tp]
      /\ out[tp] \in Seq(0 .. MaxRecords)
  BY DEF CommitTxn
<1>4. OutputUpTo(tp, committed[tp])
  BY DEF OutputMatches
<1> HIDE DEF IndInv, TypeOK, MaybeOffset, s, e
<1>5. CASE s = e
  <2>1. sent[tp] = <<>> /\ out[tp] \o <<>> = out[tp]
    BY <1>1, <1>2, <1>3, <1>5, RunEmpty, ConcatEmptySeq
  <2>2. out'[tp] = out[tp] /\ committed'[tp] = committed[tp]
    BY <1>1, <1>2, <1>3, <1>5, <2>1, SMTT(60)
  <2>. QED
    BY <1>4, <1>5, <2>2 DEF OutputUpTo, s, e
<1>6. CASE s # e
  <2>1. s < e /\ 0 <= s /\ committed'[tp] = e /\ out'[tp] = out[tp] \o Run(s, e)
    BY <1>1, <1>2, <1>3, <1>6
  <2>2. CASE committed[tp] = -1
    <3>1. FirstOffset = -1 /\ out[tp] = <<>>
      BY <1>4, <2>2 DEF OutputUpTo
    <3>2. Run(s, e) \in Seq(Int)
      BY <1>1 DEF Run
    <3>3. out'[tp] = Run(s, e)
      BY <2>1, <3>1, <3>2, ConcatEmptySeq
    <3>. QED
      BY <1>1, <1>2, <1>6, <2>1, <2>2, <3>1, <3>3 DEF OutputUpTo, s, e
  <2>3. CASE committed[tp] # -1
    <3>1. PICK a \in 0 .. s : /\ out[tp] = Run(a, s)
                              /\ FirstOffset = 0 => a = 0
                              /\ FirstOffset = -1 => a < s
      BY <1>1, <1>2, <1>4, <2>1, <2>3 DEF OutputUpTo
    <3>2. a \in Int /\ s \in Int /\ e \in Int /\ a <= s /\ s <= e /\ a \in 0 .. e /\ a < e /\ e # -1
      BY <1>1, <2>1, <3>1
    <3>3. Run(a, s) \o Run(s, e) = Run(a, e)
      BY <3>2, RunConcat, Zenon
    <3>4. out'[tp] = Run(a, e)
      BY <2>1, <3>1, <3>3
    <3>5. OutputUpTo(tp, committed[tp])'
      BY <2>1, <3>1, <3>2, <3>4 DEF OutputUpTo
    <3>6. committed[tp] = s
      BY <1>2, <2>1, <2>3
    <3>7. s \in Nat /\ committed[tp] \in {-1, s} /\ committed'[tp] = e /\ s < e
      BY <2>1, <3>2, <3>6
    <3>. QED
      BY <1>6, <3>5, <3>7 DEF s, e
  <2>. QED
    BY <2>2, <2>3
<1>. QED
  BY <1>5, <1>6

LEMMA CommitStep ==
  ASSUME IndInv, NEW c \in Consumers, CommitTransaction(c)
  PROVE  IndInv'
<1>1. TypeOK'
  BY TypeStep DEF IndInv, Next
<1>2. SUFFICES ASSUME ~ Fenced(c) PROVE IndInv'
  BY DieStep DEF CommitTransaction
<1> USE DEF IndInv, TypeOK, MaybeOffset, None
<1>3. /\ pc[c] = "commit" /\ Owns(c) /\ CommitTxn
      /\ pc' = [pc EXCEPT ![c] = "poll"]
      /\ start' = [start EXCEPT ![c] = NoBatch] /\ done' = [done EXCEPT ![c] = NoBatch]
      /\ sent' = Empty /\ pending' = NoOffsets
      /\ UNCHANGED <<epoch, myEpoch, end, generation, known, assigned, position>>
  BY <1>2 DEF CommitTransaction, CommitTxn, Fenced, Owns
<1>4. Exclusive'
  BY <1>3 DEF Exclusive, Owns, MayCommit
<1>5. MembersStart'
  <2> SUFFICES ASSUME NEW d \in Consumers, MayCommit(d)' PROVE Starts(d)'
    BY DEF MembersStart
  <2>1. Starts(d) /\ Consuming(d)' = Consuming(d)
    BY <1>3 DEF MembersStart, MayCommit, Consuming
  <2>2. ASSUME NEW tp \in Consuming(d) PROVE committed'[tp] = -1 \/ Base(d, tp)' = committed'[tp]
    <3>1. tp \in Partitions /\ (committed[tp] = -1 \/ Base(d, tp) = committed[tp])
      BY <2>1 DEF Starts, Consuming
    <3>2. CASE d = c
      <4>1. Base(c, tp) = start[c][tp] /\ Base(c, tp)' = position[c][tp]
        BY <1>3 DEF Base, InBatch
      <4>. QED
        BY <1>3, <3>1, <3>2, <4>1, CommitPartition
    <3>3. CASE d # c
      <4>1. pending[tp] = -1
        BY <1>3, <2>1, <3>3 DEF Starts, Exclusive
      <4>2. committed'[tp] = committed[tp]
        BY <1>3, <3>1, <4>1 DEF CommitTxn
      <4>3. Base(d, tp)' = Base(d, tp)
        BY <1>3, <3>3 DEF Base, InBatch
      <4>. QED
        BY <3>1, <4>2, <4>3
    <3>. QED
      BY <3>2, <3>3
  <2>3. ASSUME NEW tp \in Consuming(d) PROVE pending'[tp] = -1
    BY <1>3 DEF NoOffsets, Consuming
  <2>. QED
    BY <2>1, <2>2, <2>3 DEF Starts
<1>6. BatchesConsumed'
  BY <1>3 DEF BatchesConsumed, InBatch, Consuming
<1>7. OwnersTransaction'
  <2> SUFFICES ASSUME NEW d \in Consumers, Owns(d)' PROVE Transaction(d)'
    BY DEF OwnersTransaction
  <2>1. d = c
    BY <1>3 DEF Exclusive, Owns
  <2>. QED
    BY <1>3, <2>1 DEF Transaction
<1>8. OutputMatches'
  BY <1>3, CommitPartition DEF OutputMatches
<1>. QED
  BY <1>1, <1>4, <1>5, <1>6, <1>7, <1>8

LEMMA ProduceStep ==
  ASSUME IndInv, NEW tp \in Partitions, Produce(tp), UNCHANGED <<txnVars, pc, start, done, first>>
  PROVE  IndInv'
<1>1. TypeOK'
  BY TypeStep DEF IndInv, Next
<1>2. UNCHANGED <<committed, generation, known, assigned, position, epoch, myEpoch, sent, pending, out, pc, start, done>>
  BY DEF Produce, txnVars
<1>. QED
  BY <1>1, <1>2 DEF IndInv, Exclusive, MembersStart, Starts, BatchesConsumed, OwnersTransaction, Transaction,
     OutputMatches, OutputUpTo, Owns, InBatch, Base, MayCommit, Consuming, BatchOffsets

LEMMA IndStep == IndInv /\ [Next]_vars => IndInv'
<1> SUFFICES ASSUME IndInv, [Next]_vars PROVE IndInv'
  OBVIOUS
<1>1. CASE UNCHANGED vars
  <2>1. TypeOK'
    BY <1>1, TypeStep DEF IndInv
  <2>2. UNCHANGED <<committed, generation, known, assigned, position, epoch, myEpoch, sent, pending, out, pc, start, done>>
    BY <1>1 DEF vars, groupVars, txnVars
  <2>. QED
    BY <2>1, <2>2 DEF IndInv, Exclusive, MembersStart, Starts, BatchesConsumed, OwnersTransaction, Transaction,
       OutputMatches, OutputUpTo, Owns, InBatch, Base, MayCommit, Consuming, BatchOffsets
<1>2. ASSUME NEW c \in Consumers, Crash(c) PROVE IndInv'
  BY <1>2, DieStep DEF Crash
<1>3. CASE Next
  BY <1>2, <1>3, ProduceStep, JoinStep, ResetStep, StartStep, PollStep, SendRecordStep, SendOffsetsStep, CommitStep,
     TimeoutStep, Zenon DEF Next
<1>. QED
  BY <1>1, <1>3

LEMMA Inductive == Spec => []IndInv
  BY IndInit, IndStep, PTL DEF Spec

\* Records appear in the output in order, none twice and none left out between two
\* others, whatever crashes, timeouts, rebalances and zombies there are.
THEOREM OutputContiguous == Spec => []Contiguous
<1>1. IndInv => Contiguous
  <2> SUFFICES ASSUME IndInv, NEW tp \in Partitions, NEW i \in 1 .. Len(out[tp]) - 1
               PROVE  out[tp][i + 1] = out[tp][i] + 1
    BY DEF Contiguous
  <2>1. committed[tp] \in 0 .. MaxRecords \cup {-1}
    BY DEF IndInv, TypeOK, MaybeOffset, None
  <2>2. CASE committed[tp] = -1
    <3>1. out[tp] = <<>>
      BY <2>2 DEF IndInv, OutputMatches, OutputUpTo, None
    <3>. QED
      BY <3>1
  <2>3. CASE committed[tp] # -1
    <3>1. PICK a \in 0 .. committed[tp] : out[tp] = Run(a, committed[tp])
      BY <2>3 DEF IndInv, OutputMatches, OutputUpTo, None
    <3>2. Len(out[tp]) = committed[tp] - a
      BY <2>1, <2>3, <3>1, RunType
    <3>. QED
      BY <2>1, <2>3, <3>1, <3>2, SMTT(60) DEF Run
  <2>. QED
    BY <2>2, <2>3
<1>. QED
  BY <1>1, Inductive, PTL

\* The committed offset is always that of the record after the last in the output.
THEOREM OffsetsAndOutputAgree == Spec => []OffsetsMatchOutput
<1>1. IndInv => OffsetsMatchOutput
  <2> SUFFICES ASSUME IndInv, NEW tp \in Partitions
               PROVE  committed[tp] = IF out[tp] = <<>> THEN FirstOffset ELSE out[tp][Len(out[tp])] + 1
    BY DEF OffsetsMatchOutput
  <2>1. committed[tp] \in 0 .. MaxRecords \cup {-1}
    BY DEF IndInv, TypeOK, MaybeOffset, None
  <2>2. CASE committed[tp] = -1
    BY <2>2 DEF IndInv, OutputMatches, OutputUpTo, None
  <2>3. CASE committed[tp] # -1
    <3>1. PICK a \in 0 .. committed[tp] : /\ out[tp] = Run(a, committed[tp])
                                          /\ FirstOffset = 0 => a = 0
                                          /\ FirstOffset = -1 => a < committed[tp]
      BY <2>3 DEF IndInv, OutputMatches, OutputUpTo, None
    <3>2. Len(out[tp]) = committed[tp] - a
      <4>1. a \in Int /\ committed[tp] \in Int /\ a <= committed[tp]
        BY <2>1, <2>3, <3>1
      <4>. QED
        BY <3>1, <4>1, RunType
    <3>3. CASE a = committed[tp]
      <4>1. out[tp] = <<>>
        BY <2>1, <2>3, <3>1, <3>3, RunEmpty
      <4>. QED
        BY <2>1, <2>3, <3>1, <3>3, <4>1 DEF None
    <3>4. CASE a # committed[tp]
      <4>1. out[tp] # <<>> /\ out[tp][committed[tp] - a] = committed[tp] - 1
        BY <2>1, <2>3, <3>1, <3>2, <3>4 DEF Run
      <4>. QED
        BY <2>1, <3>2, <4>1
    <3>. QED
      BY <3>3, <3>4
  <2>. QED
    BY <2>2, <2>3
<1>. QED
  BY <1>1, Inductive, PTL

(***************************************************************************)
(* Nothing is missing.  A partition nobody has polled is still where the   *)
(* group started, for whoever has it and in whatever batch.                *)
(***************************************************************************)

Unpolled(tp) ==
  /\ committed[tp] = 0 /\ pending[tp] = None
  /\ \A c \in Consumers : /\ position[c][tp] \in {None, 0}
                          /\ InBatch(c) => start[c][tp] = position[c][tp]
FromTheStart == \A tp \in Partitions : first[tp] = 0 \/ (first[tp] = None /\ Unpolled(tp))

LEMMA FromTheStartStep ==
  ASSUME FirstOffset = 0, IndInv, FromTheStart, [Next]_vars
  PROVE  FromTheStart'
<1> SUFFICES ASSUME NEW tp \in Partitions PROVE (first[tp] = 0 \/ (first[tp] = None /\ Unpolled(tp)))'
  BY DEF FromTheStart
<1>0. TypeOK
  BY DEF IndInv
<1>1. first[tp] = 0 \/ (first[tp] = None /\ Unpolled(tp))
  BY DEF FromTheStart
<1> USE DEF None
<1>2. CASE first[tp] = 0
  <2>1. first'[tp] = 0
    BY <1>2, <1>0 DEF TypeOK, Next, vars, groupVars, txnVars, Join, ResetOffset, Start, Poll, SendRecord, SendOffsetsToTransaction,
       CommitTransaction, Crash, Die
  <2>. QED
    BY <2>1
<1>3. CASE first[tp] = -1 /\ Unpolled(tp)
  <2>. SUFFICES ASSUME TRUE PROVE first'[tp] = 0 \/ (first'[tp] = -1 /\ Unpolled(tp)')
    OBVIOUS
  <2>0. /\ committed[tp] = 0 /\ pending[tp] = -1 /\ first[tp] = -1
        /\ \A c \in Consumers : /\ position[c][tp] \in {-1, 0}
                                /\ InBatch(c) => start[c][tp] = position[c][tp]
    BY <1>3 DEF Unpolled
  <2>1. ASSUME NEW c \in Consumers, Die(c) PROVE Unpolled(tp)' /\ first' = first
    <3>1. UNCHANGED <<committed, position, pending, first>> /\ pc' = [pc EXCEPT ![c] = "down"]
          /\ \A d \in Consumers \ {c} : start'[d] = start[d]
      BY <2>1, <1>0 DEF Die, Leave, txnVars, TypeOK
    <3>2. \A d \in Consumers : InBatch(d)' => d # c /\ InBatch(d) /\ start'[d] = start[d]
      BY <3>1, <1>0 DEF InBatch, TypeOK
    <3>. QED
      BY <2>0, <3>1, <3>2 DEF Unpolled
  <2>2. ASSUME UNCHANGED <<committed, position, first, pc, start>>, pending'[tp] = -1 PROVE Unpolled(tp)' /\ first' = first
    BY <2>0, <2>2 DEF Unpolled, InBatch
  <2>3. CASE Join
    <3>1. UNCHANGED <<committed, pending, first, pc, start>>
      BY <2>3 DEF Join, Rebalance, Regroup, txnVars
    <3>2. \A c \in Consumers : (position'[c][tp] = -1 /\ pc[c] = "poll") \/ position'[c][tp] = position[c][tp]
      BY <2>3, <1>0 DEF Join, Rebalance, Regroup, TypeOK
    <3>3. \A c \in Consumers : InBatch(c)' => InBatch(c) /\ position'[c][tp] = position[c][tp]
      BY <3>1, <3>2 DEF InBatch
    <3>. QED
      BY <2>0, <3>1, <3>2, <3>3 DEF Unpolled
  <2>4. ASSUME NEW c \in Consumers, NEW q \in Partitions, ResetOffset(c, q) PROVE Unpolled(tp)' /\ first' = first
    <3>1. UNCHANGED <<committed, pending, first, pc, start>> /\ pc[c] = "poll"
          /\ position' = [position EXCEPT ![c][q] = StartOffset(q)]
      BY <2>4 DEF ResetOffset, FetchOffset, txnVars
    <3>2. StartOffset(tp) = 0
      BY <2>0 DEF StartOffset
    <3>3. \A d \in Consumers : position'[d][tp] \in {-1, 0} /\ (d # c => position'[d] = position[d])
      BY <2>0, <3>1, <3>2, <1>0 DEF TypeOK
    <3>4. \A d \in Consumers : InBatch(d)' => d # c /\ InBatch(d)
      BY <3>1 DEF InBatch
    <3>. QED
      BY <2>0, <3>1, <3>3, <3>4 DEF Unpolled
  <2>5. ASSUME NEW c \in Consumers, Poll(c) PROVE first'[tp] = 0 \/ (first'[tp] = -1 /\ Unpolled(tp)')
    <3>1. PICK to \in Fetched(c) :
            /\ Fetch(c, to)
            /\ first' = [q \in Partitions |->
                 IF first[q] = -1 /\ position[c][q] < to[q] THEN position[c][q] ELSE first[q]]
      BY <2>5 DEF Poll
    <3>2. /\ UNCHANGED <<committed, pending>> /\ pc' = [pc EXCEPT ![c] = "send"]
          /\ start' = [start EXCEPT ![c] = position[c]] /\ position' = [position EXCEPT ![c] = to]
      BY <2>5, <3>1 DEF Poll, Fetch, txnVars
    <3>3. /\ to[tp] \in 0 .. MaxRecords \cup {-1} /\ position[c][tp] \in {-1, 0}
          /\ tp \notin Consuming(c) => to[tp] = position[c][tp]
          /\ tp \in Consuming(c) => position[c][tp] # -1 /\ position[c][tp] <= to[tp]
      BY <2>0 DEF Fetched, Consuming
    <3>4. CASE position[c][tp] < to[tp]
      <4>1. position[c][tp] = 0
        BY <3>3, <3>4
      <4>. QED
        BY <2>0, <3>1, <3>4, <4>1
    <3>5. CASE ~ (position[c][tp] < to[tp])
      <4>1. to[tp] = position[c][tp]
        BY <3>3, <3>5
      <4>2. first'[tp] = -1
        BY <2>0, <3>1, <3>5
      <4>3. \A d \in Consumers : position'[d][tp] = position[d][tp]
        BY <3>2, <4>1, <1>0 DEF TypeOK
      <4>4. start'[c] = position[c] /\ \A d \in Consumers \ {c} : pc'[d] = pc[d] /\ start'[d] = start[d]
        BY <3>2, <1>0 DEF TypeOK
      <4>. QED
        BY <2>0, <3>2, <4>2, <4>3, <4>4 DEF Unpolled, InBatch
    <3>. QED
      BY <3>4, <3>5
  <2>6. ASSUME NEW c \in Consumers, SendOffsetsToTransaction(c) PROVE Unpolled(tp)' /\ first' = first
    <3>1. CASE ~ MaySendOffsets(c)
      BY <2>1, <2>6, <3>1 DEF SendOffsetsToTransaction
    <3>2. CASE MaySendOffsets(c)
      <4>1. /\ pc[c] = "send" /\ pc' = [pc EXCEPT ![c] = "commit"] /\ SendOffsets(BatchOffsets(c))
            /\ UNCHANGED <<committed, position, start, first>>
        BY <2>6, <3>2 DEF SendOffsetsToTransaction, groupVars, MaySendOffsets, Die
      <4>2. start[c][tp] = position[c][tp] /\ position[c][tp] \in Int
        BY <2>0, <4>1 DEF InBatch
      <4>3. BatchOffsets(c)[tp] = -1
        BY <4>2 DEF BatchOffsets
      <4>4. pending'[tp] = -1
        BY <2>0, <4>1, <4>3 DEF SendOffsets
      <4>5. \A d \in Consumers : InBatch(d)' => InBatch(d)
        BY <4>1, <1>0 DEF InBatch, TypeOK
      <4>. QED
        BY <2>0, <4>1, <4>4, <4>5 DEF Unpolled
    <3>. QED
      BY <3>1, <3>2
  <2>7. ASSUME NEW c \in Consumers, CommitTransaction(c) PROVE Unpolled(tp)' /\ first' = first
    <3>1. CASE Fenced(c)
      BY <2>1, <2>7, <3>1 DEF CommitTransaction
    <3>2. CASE ~ Fenced(c)
      <4>1. /\ CommitTxn /\ pc' = [pc EXCEPT ![c] = "poll"] /\ start' = [start EXCEPT ![c] = NoBatch] /\ first' = first
        BY <2>7, <3>2 DEF CommitTransaction
      <4>2. committed'[tp] = 0 /\ pending'[tp] = -1 /\ position' = position
        BY <2>0, <4>1 DEF CommitTxn, NoOffsets
      <4>3. \A d \in Consumers : InBatch(d)' => d # c /\ InBatch(d) /\ start'[d] = start[d]
        BY <4>1, <1>0 DEF InBatch, TypeOK
      <4>. QED
        BY <2>0, <4>1, <4>2, <4>3 DEF Unpolled
    <3>. QED
      BY <3>1, <3>2
  <2>8. ASSUME NEW c \in Consumers, Start(c) PROVE Unpolled(tp)' /\ first' = first
    <3>1. /\ pc' = [pc EXCEPT ![c] = "poll"] /\ UNCHANGED <<committed, position, start, first>> /\ pending'[tp] = -1
      BY <2>8 DEF Start, InitTransactions, Abort, NoOffsets, groupVars
    <3>2. \A d \in Consumers : InBatch(d)' => InBatch(d)
      BY <3>1, <1>0 DEF InBatch, TypeOK
    <3>. QED
      BY <2>0, <3>1, <3>2 DEF Unpolled
  <2>9. ASSUME NEW c \in Consumers, SendRecord(c) PROVE Unpolled(tp)' /\ first' = first
    <3>1. UNCHANGED <<committed, position, first, pc, start, pending>>
      BY <2>9 DEF SendRecord, Send, groupVars
    <3>. QED
      BY <2>0, <2>2, <3>1
  <2>10. CASE TxnTimeout /\ UNCHANGED <<groupVars, pc, start, done, first>>
    <3>1. UNCHANGED <<committed, position, first, pc, start>>
      BY <2>10 DEF TxnTimeout, Abort, NoOffsets, groupVars
    <3>2. pending'[tp] = -1
      BY <2>10 DEF TxnTimeout, Abort, NoOffsets, groupVars
    <3>. QED
      BY <2>0, <3>1, <3>2 DEF Unpolled, InBatch
  <2>11. ASSUME NEW q \in Partitions, Produce(q), UNCHANGED <<txnVars, pc, start, done, first>> PROVE Unpolled(tp)' /\ first' = first
    <3>1. UNCHANGED <<committed, position, first, pc, start, pending>>
      BY <2>11 DEF Produce, txnVars
    <3>. QED
      BY <2>0, <2>2, <3>1
  <2>12. CASE UNCHANGED vars
    <3>1. UNCHANGED <<committed, position, first, pc, start, pending>>
      BY <2>12 DEF vars, groupVars, txnVars
    <3>. QED
      BY <2>0, <2>2, <3>1
  <2>13. ASSUME NEW c \in Consumers, Crash(c) PROVE Unpolled(tp)' /\ first' = first
    BY <2>1, <2>13 DEF Crash
  <2>14. first' = first => first'[tp] = -1
    BY <2>0
  <2>. QED
    BY <2>3, <2>4, <2>5, <2>6, <2>7, <2>8, <2>9, <2>10, <2>11, <2>12, <2>13, <2>14 DEF Next
<1>. QED
  BY <1>1, <1>2, <1>3

\* With a committed offset to start from, the output of a partition begins with the first
\* record that any process of the group polled, whoever crashed with it in hand.  (Without
\* one it may not: a run shows it.)
THEOREM NothingIsMissing ==
  ASSUME FirstOffset = 0
  PROVE  Spec => []NothingMissing
<1>1. Init => FromTheStart
  BY DEF Init, GroupInit, TxnInit, NoOffsets, InBatch, FromTheStart, Unpolled, None
<1>2. IndInv /\ FromTheStart => NothingMissing
  <2> SUFFICES ASSUME IndInv, FromTheStart, NEW tp \in Partitions, out[tp] # <<>>
               PROVE  out[tp][1] = first[tp]
    BY DEF NothingMissing
  <2>1. committed[tp] \in 0 .. MaxRecords \cup {-1} /\ committed[tp] # -1
    BY DEF IndInv, TypeOK, MaybeOffset, OutputMatches, OutputUpTo, None
  <2>2. out[tp] = Run(0, committed[tp])
    BY <2>1 DEF IndInv, OutputMatches, OutputUpTo, None
  <2>3. committed[tp] # 0
    BY <2>2, RunEmpty
  <2>4. first[tp] = 0
    BY <2>3 DEF FromTheStart, Unpolled
  <2>5. 1 \in 1 .. committed[tp] - 0
    BY <2>1, <2>3
  <2>6. out[tp][1] = 0
    BY <2>2, <2>5 DEF Run
  <2>. QED
    BY <2>4, <2>6
<1>3. IndInv /\ FromTheStart /\ [Next]_vars => FromTheStart'
  BY FromTheStartStep
<1>. QED
  BY <1>1, <1>2, <1>3, Inductive, PTL DEF Spec

(***************************************************************************)
(* Refinement.  Nobody is ahead of the end of a partition.                 *)
(***************************************************************************)

WithinLog ==
  \A tp \in Partitions :
    committed[tp] <= end[tp] /\ \A c \in Consumers : position[c][tp] <= end[tp]

LEMMA WithinLogStep == IndInv /\ WithinLog /\ [Next]_vars => WithinLog'
<1> SUFFICES ASSUME IndInv, WithinLog, [Next]_vars, NEW tp \in Partitions
             PROVE  /\ committed'[tp] <= end'[tp]
                    /\ \A c \in Consumers : position'[c][tp] <= end'[tp]
  BY DEF WithinLog
<1>1. /\ end[tp] \in Nat /\ committed[tp] \in Int /\ committed[tp] <= end[tp]
      /\ \A c \in Consumers : position[c][tp] \in Int /\ position[c][tp] <= end[tp]
  <2>1. /\ end[tp] \in 0 .. MaxRecords /\ committed[tp] \in 0 .. MaxRecords \cup {-1}
        /\ \A c \in Consumers : position[c][tp] \in 0 .. MaxRecords \cup {-1}
    BY DEF IndInv, TypeOK, MaybeOffset, None
  <2>. QED
    BY <2>1 DEF WithinLog
<1>2. CASE UNCHANGED <<end, committed, position>>
  BY <1>1, <1>2
<1>3. ASSUME NEW q \in Partitions, Produce(q), UNCHANGED <<committed, position>>
      PROVE  committed'[tp] <= end'[tp] /\ \A c \in Consumers : position'[c][tp] <= end'[tp]
  <2>1. end'[tp] \in {end[tp], end[tp] + 1}
    BY <1>3 DEF Produce, IndInv, TypeOK
  <2>. QED
    BY <1>1, <1>3, <2>1
<1>4. CASE Join
  <2>1. UNCHANGED <<end, committed>>
    BY <1>4 DEF Join, Rebalance, Regroup
  <2>2. \A c \in Consumers : position'[c][tp] \in {-1, position[c][tp]}
    BY <1>4 DEF Join, Rebalance, Regroup, None, IndInv, TypeOK
  <2>. QED
    BY <1>1, <2>1, <2>2
<1>5. ASSUME NEW c \in Consumers, NEW q \in Partitions, ResetOffset(c, q)
      PROVE  committed'[tp] <= end'[tp] /\ \A d \in Consumers : position'[d][tp] <= end'[tp]
  <2>1. UNCHANGED <<end, committed>> /\ position' = [position EXCEPT ![c][q] = StartOffset(q)]
    BY <1>5 DEF ResetOffset, FetchOffset
  <2>2. \A d \in Consumers : position'[d][tp] \in {position[d][tp], StartOffset(tp)}
    BY <2>1 DEF IndInv, TypeOK
  <2>3. StartOffset(tp) <= end[tp]
    BY <1>1 DEF StartOffset
  <2>. QED
    BY <1>1, <2>1, <2>2, <2>3
<1>6. ASSUME NEW c \in Consumers, Poll(c)
      PROVE  committed'[tp] <= end'[tp] /\ \A d \in Consumers : position'[d][tp] <= end'[tp]
  <2>1. PICK to \in Fetched(c) : Fetch(c, to)
    BY <1>6 DEF Poll
  <2>2. to[tp] <= end[tp]
    BY <1>1 DEF Fetched
  <2>3. \A d \in Consumers : position'[d][tp] \in {position[d][tp], to[tp]}
    BY <2>1 DEF Fetch, IndInv, TypeOK
  <2>4. UNCHANGED <<end, committed>>
    BY <2>1 DEF Fetch
  <2>. QED
    BY <1>1, <2>2, <2>3, <2>4
<1>7. ASSUME NEW c \in Consumers, CommitTransaction(c), ~ Fenced(c)
      PROVE  committed'[tp] <= end'[tp] /\ \A d \in Consumers : position'[d][tp] <= end'[tp]
  <2>1. CommitTxn /\ Owns(c) /\ pc[c] = "commit"
    BY <1>7 DEF CommitTransaction, Fenced, Owns
  <2>2. UNCHANGED <<end, position>>
    BY <2>1 DEF CommitTxn
  <2>3. committed'[tp] \in {committed[tp], position[c][tp]}
    BY <2>1, CommitPartition
  <2>. QED
    BY <1>1, <2>2, <2>3
<1>8. [Next]_vars => \/ UNCHANGED <<end, committed, position>>
                     \/ \E q \in Partitions : Produce(q) /\ UNCHANGED <<committed, position>>
                     \/ Join
                     \/ \E c \in Consumers, q \in Partitions : ResetOffset(c, q)
                     \/ \E c \in Consumers : Poll(c)
                     \/ \E c \in Consumers : CommitTransaction(c) /\ ~ Fenced(c)
  BY DEF Next, vars, groupVars, Produce, Start, SendRecord, SendOffsetsToTransaction, CommitTransaction, Crash, Die, Leave
<1>. QED
  BY <1>2, <1>3, <1>4, <1>5, <1>6, <1>7, <1>8

LEMMA RunIsPrefix ==
  ASSUME NEW n \in Nat
  PROVE  Run(0, n) = Log!Prefix(n)
<1>1. n - 0 = n /\ \A i \in 1 .. n : 0 + i - 1 = i - 1
  OBVIOUS
<1>. QED
  BY <1>1, Zenon DEF Run, Log!Prefix

LEMMA UpToIsPrefix ==
  ASSUME NEW n \in 0 .. MaxRecords \cup {None}, NEW tp \in Partitions, OutputUpTo(tp, n), FirstOffset = 0
  PROVE  n \in Nat /\ out[tp] = Log!Prefix(n)
<1>1. n \in Nat /\ out[tp] = Run(0, n)
  BY DEF OutputUpTo, None
<1>. QED
  BY <1>1, RunIsPrefix

LEMMA OutputIsPrefix ==
  ASSUME IndInv, FirstOffset = 0, NEW tp \in Partitions
  PROVE  committed[tp] \in Nat /\ out[tp] = Log!Prefix(committed[tp])
<1>1. committed[tp] \in 0 .. MaxRecords \cup {None}
  BY DEF IndInv, TypeOK, MaybeOffset
<1>2. OutputUpTo(tp, committed[tp])
  BY DEF IndInv, OutputMatches
<1>. QED
  BY <1>1, <1>2, UpToIsPrefix

LEMMA LogStep ==
  ASSUME IndInv, IndInv', WithinLog', [Next]_vars, FirstOffset = 0
  PROVE  [Log!Next]_<<end, out>>
<1>1. ASSUME NEW tp \in Partitions, Produce(tp), UNCHANGED out PROVE Log!Next
  BY <1>1 DEF Produce, Log!Next, Log!Write
<1>2. ASSUME NEW c \in Consumers, CommitTransaction(c), ~ Fenced(c) PROVE Log!Next
  <2>1. CommitTxn /\ Owns(c) /\ pc[c] = "commit" /\ end' = end
    BY <1>2 DEF CommitTransaction, CommitTxn, Fenced, Owns
  <2>2. committed' \in [Partitions -> 0 .. MaxRecords] /\ out' = [tp \in Partitions |-> out[tp] \o sent[tp]]
    <3>1. committed' \in [Partitions -> 0 .. MaxRecords \cup {-1}]
      BY DEF IndInv, TypeOK, MaybeOffset, None
    <3>2. \A tp \in Partitions : committed'[tp] # -1
      BY DEF IndInv, OutputMatches, OutputUpTo, None
    <3>. QED
      BY <2>1, <3>1, <3>2 DEF CommitTxn
  <2>3. ASSUME NEW tp \in Partitions
        PROVE  /\ committed[tp] \in 0 .. committed'[tp] /\ out[tp] = Log!Prefix(committed[tp])
               /\ committed'[tp] <= end[tp] /\ out'[tp] = Log!Prefix(committed'[tp])
    <3>1. committed[tp] \in Nat /\ out[tp] = Log!Prefix(committed[tp])
      BY OutputIsPrefix
    <3>2. committed'[tp] \in Nat /\ out'[tp] = Log!Prefix(committed'[tp])
      <4>1. committed'[tp] \in Nat /\ committed'[tp] # -1
        BY <2>2
      <4>2. OutputUpTo(tp, committed[tp])'
        BY DEF IndInv, OutputMatches
      <4>3. out'[tp] = Run(0, committed'[tp])
        BY <4>1, <4>2 DEF OutputUpTo, None
      <4>. QED
        BY <4>1, <4>3, RunIsPrefix
    <3>3. committed'[tp] <= end[tp]
      BY <2>1 DEF WithinLog
    <3>4. committed[tp] <= committed'[tp]
      <4>1. start[c][tp] \in Int /\ position[c][tp] \in Int
        BY DEF IndInv, TypeOK, MaybeOffset, None
      <4>. QED
        BY <2>1, <3>1, <4>1, CommitPartition DEF None
    <3>. QED
      BY <3>1, <3>2, <3>3, <3>4
  <2>4. Log!Forward(committed')
    BY <2>1, <2>2, <2>3 DEF Log!Forward
  <2>. QED
    BY <2>2, <2>4 DEF Log!Next
<1>3. [Next]_vars => \/ UNCHANGED <<end, out>>
                     \/ \E tp \in Partitions : Produce(tp) /\ UNCHANGED out
                     \/ \E c \in Consumers : CommitTransaction(c) /\ ~ Fenced(c)
  BY DEF Next, vars, groupVars, txnVars, Join, Rebalance, Regroup, ResetOffset, FetchOffset, Start, InitTransactions, Abort, Poll,
     Fetch, SendRecord, Send, SendOffsetsToTransaction, SendOffsets, CommitTransaction, Crash, Die, Leave, TxnTimeout
<1>. QED
  BY <1>1, <1>2, <1>3

\* A group that has a committed offset to start from forwards every partition exactly
\* once and in order: the forwarder implements the abstract log.
THEOREM ForwarderIsExactlyOnce ==
  ASSUME FirstOffset = 0
  PROVE  Spec => ImplementsExactlyOnce
<1>1. Init => Log!Init
  BY DEF Init, GroupInit, TxnInit, Empty, Log!Init
<1>2. Init => WithinLog
  BY DEF Init, GroupInit, WithinLog, None
<1>3. IndInv /\ IndInv' /\ WithinLog' /\ [Next]_vars => [Log!Next]_<<end, out>>
  BY LogStep
<1>. QED
  BY <1>1, <1>2, <1>3, Inductive, WithinLogStep, PTL DEF Spec, ImplementsExactlyOnce, Log!Spec
=============================================================================
