----------------------------- MODULE GuessProof ------------------------------
(***************************************************************************)
(* Theorems about Guess, for every number of ranks and rounds and every    *)
(* range of numbers.                                                       *)
(***************************************************************************)
EXTENDS Guess, FiniteSetTheorems, TLAPS

USE NumProcsAssumption, NumRoundsAssumption, NumbersAssumption

LEMMA DiffType ==
  ASSUME NEW a \in Numbers, NEW b \in Numbers
  PROVE  Diff(a, b) \in Int /\ Diff(a, b) >= 0 /\ Diff(a, b) < IntMax
  BY DEF Diff, Numbers

LEMMA NextIndex ==
  ASSUME NEW j \in 0 .. NumProcs, j < NumProcs
  PROVE  j \in Procs /\ j + 1 \in 0 .. NumProcs
  BY DEF Procs

LEMMA PendingIsNoWinner == \A w \in Winners : w # Pending
  BY DEF Winners, Pending, Procs, NoWinner

LEMMA RoundsBound == Rounds \subseteq 0 .. NumRounds
  BY DEF Rounds

LEMMA Prefix ==
  ASSUME NEW n \in Nat, n < NumProcs
  PROVE  /\ 0 .. (n + 1) - 1 = (0 .. n - 1) \cup {n}
         /\ n \notin 0 .. n - 1
         /\ 0 .. n - 1 \subseteq Procs
  BY DEF Procs

(***************************************************************************)
(* TypeOK is inductive once it is known that a rank inside main's loop is  *)
(* in one of the rounds of the game.                                       *)
(***************************************************************************)

InLoop(p) == pc[p] \in {"select", "gather", "compute", "bcast", "update"}
RoundBound == \A p \in Procs : round[p] \in Rounds <=> InLoop(p)
TypeInv == TypeOK /\ RoundBound

LEMMA TypeInit == Init => TypeInv
<1> SUFFICES ASSUME Init PROVE TypeInv
  OBVIOUS
<1> USE DEF Init, Procs, Rounds, Numbers
<1>1. TypeOK
  BY DEF TypeOK, Winners, NoWinner, Pending, Message
<1>2. RoundBound
  BY DEF RoundBound, InLoop
<1>. QED
  BY <1>1, <1>2 DEF TypeInv

LEMMA TypeStep == TypeInv /\ [Next]_vars => TypeInv'
<1> SUFFICES ASSUME TypeInv, [Next]_vars PROVE TypeInv'
  OBVIOUS
<1> USE DEF TypeInv, TypeOK, RoundBound, InLoop
<1>1. ASSUME NEW p \in Procs, SendNumToLeader(p) PROVE TypeInv'
  <2> USE <1>1 DEF SendNumToLeader
  <2>1. round[p] \in Rounds
    OBVIOUS
  <2>2. net' \subseteq Message
    BY <2>1 DEF Number, Message
  <2>3. picks' \in [Rounds -> [Procs -> Numbers]]
    BY <2>1
  <2>. QED
    BY <2>2, <2>3 DEF loopVars
<1>2. ASSUME NEW p \in Procs, Gather(p) PROVE TypeInv'
  <2>1. \A q \in Procs : (CHOOSE m \in Gathered(p) : m.src = q).val \in Numbers
    BY <1>2 DEF Gather, Gathered, Message
  <2>. QED
    BY <1>2, <2>1 DEF Gather, Winners
<1>3. ASSUME NEW p \in Procs, ComputeWinner(p) PROVE TypeInv'
  <2>1. i[p] \in Procs /\ i[p] + 1 \in 0 .. NumProcs
    BY <1>3, NextIndex DEF ComputeWinner
  <2>2. diff(p) \in Int
    BY <2>1, DiffType DEF diff
  <2>3. min' \in [Procs -> Int]
    BY <1>3, <2>1, <2>2 DEF ComputeWinner
  <2>4. winner' \in [Procs -> Winners]
    BY <1>3, <2>1, <2>2 DEF ComputeWinner, Winners
  <2>5. multiple_guess' \in [Procs -> BOOLEAN]
    BY <1>3, <2>1, <2>2 DEF ComputeWinner
  <2>6. i' \in [Procs -> 0 .. NumProcs]
    BY <1>3, <2>1 DEF ComputeWinner
  <2>7. UNCHANGED <<pc, round, leader, net, buffer, guess, leaderboard, history>>
    BY <1>3 DEF ComputeWinner
  <2>. QED
    BY <2>3, <2>4, <2>5, <2>6, <2>7 DEF history
<1>4. ASSUME NEW p \in Procs, SendWinner(p) PROVE TypeInv'
  <2> USE <1>4 DEF SendWinner
  <2>1. ReturnedWinner(p) \in Winners
    BY DEF ReturnedWinner, Winners
  <2>2. round[p] \in Rounds
    OBVIOUS
  <2>3. net' \subseteq Message
    BY <2>1, <2>2 DEF Result, Message
  <2>. QED
    BY <2>1, <2>3 DEF loopVars
<1>5. ASSUME NEW p \in Procs, ReceiveWinner(p) PROVE TypeInv'
  <2> USE <1>5 DEF ReceiveWinner
  <2>1. winner' \in [Procs -> Winners]
    BY DEF Message
  <2>. QED
    BY <2>1 DEF loopVars, history
<1>6. ASSUME NEW p \in Procs, Update(p) PROVE TypeInv'
  <2> USE <1>6 DEF Update
  <2>1. UpdatedLeader(p) \in Procs /\ UpdatedLeaderboard(p) \in [Procs -> Nat]
    BY DEF UpdatedLeader, UpdatedLeaderboard, Winners
  <2>2. /\ round[p] \in Rounds
        /\ round[p] + 1 \in 0 .. NumRounds
        /\ round[p] + 1 \in Rounds <=> round[p] + 1 < NumRounds
    BY DEF Rounds
  <2>. QED
    BY <2>1, <2>2 DEF loopVars, history
<1>7. ASSUME NEW p \in Procs, Barrier(p) PROVE TypeInv'
  BY <1>7 DEF Barrier, loopVars, history
<1>8. CASE UNCHANGED vars
  BY <1>8 DEF vars, procVars, loopVars, history
<1>. QED
  BY <1>1, <1>2, <1>3, <1>4, <1>5, <1>6, <1>7, <1>8 DEF Next, Step, Terminating

\* Every variable of every rank keeps its type, in games of any size.
THEOREM TypeCorrect == Spec => []TypeOK
<1>1. TypeInv => TypeOK
  BY DEF TypeInv
<1>. QED
  BY <1>1, TypeInit, TypeStep, PTL DEF Spec

(***************************************************************************)
(* The inductive invariant.  Contributed(p, r): rank p has picked its      *)
(* number of round r.  The argument: no result of round r exists before    *)
(* every rank contributed to r (AllContributed), so ranks are at most one  *)
(* round apart (Drift), and the copies of "leader" are equal in the same   *)
(* round and differ by the result of the round when one rank is ahead      *)
(* (Ahead).  Hence one rank at most runs compute_winner in a round, over   *)
(* the numbers of that round (Gathering, Scanning).                        *)
(***************************************************************************)

Contributed(p, r) == round[p] > r \/ (round[p] = r /\ pc[p] # "select")

Announced(r) == result[r] # Pending

Drift == \A p, q \in Procs : round[q] <= round[p] + 1

Ahead ==
  \A p, q \in Procs : round[q] = round[p] + 1 =>
    leader[q] = IF result[round[p]] = NoWinner THEN leader[p] ELSE result[round[p]]

Roles ==
  \A p \in Procs :
    /\ pc[p] \in {"gather", "compute"} => p = leader[p] /\ ~ Announced(round[p])
    /\ pc[p] = "update" => Announced(round[p]) /\ winner[p] = result[round[p]]

Past == \A p \in Procs, r \in Rounds : r < round[p] => Announced(r)

AllContributed ==
  \A r \in Rounds, p \in Procs : Announced(r) => Contributed(p, r)

Messages ==
  \A m \in net :
    \/ /\ m.kind = "number"
       /\ Contributed(m.src, m.round)
       /\ m.val = picks[m.round][m.src]
    \/ /\ m.kind = "winner"
       /\ m.val = result[m.round]

Gathering ==
  \A p \in Procs : pc[p] = "compute" =>
    /\ \A q \in Procs : Contributed(q, round[p])
    /\ buffer[p] = picks[round[p]]
    /\ guess[p] = target[round[p]]

Scanned(p) == 0 .. i[p] - 1

Scanning ==
  \A p \in Procs : pc[p] = "compute" =>
    /\ \A q \in Scanned(p) : min[p] <= Diff(guess[p], buffer[p][q])
    /\ i[p] = 0 => min[p] = IntMax /\ ~ multiple_guess[p]
    /\ i[p] # 0 =>
         /\ winner[p] \in Scanned(p)
         /\ min[p] = Diff(guess[p], buffer[p][winner[p]])
         /\ multiple_guess[p] <=>
              \E q \in Scanned(p) \ {winner[p]} : Diff(guess[p], buffer[p][q]) = min[p]

IndInv ==
  /\ TypeInv
  /\ Drift /\ LeaderAgreement /\ Ahead
  /\ Roles /\ Past /\ AllContributed /\ Messages
  /\ Gathering /\ Scanning
  /\ ResultIsClosest

LEMMA IndInit == Init => IndInv
<1> SUFFICES ASSUME Init PROVE IndInv
  OBVIOUS
<1>1. TypeInv
  BY TypeInit
<1>. QED
  BY <1>1 DEF Init, IndInv, Drift, LeaderAgreement, Ahead, Roles, Past, AllContributed,
     Announced, Messages, Gathering, Scanning, ResultIsClosest, Rounds, Procs, Pending

\* A rank that picks its number: nothing that was announced, gathered or scanned
\* can depend on that pick, because its round is not over anywhere.
LEMMA IndSend ==
  ASSUME IndInv, TypeInv', NEW p \in Procs, SendNumToLeader(p)
  PROVE  IndInv'
<1> USE DEF SendNumToLeader, loopVars, IndInv, TypeInv, TypeOK
<1>0. PICK n \in Numbers :
        /\ net' = net \cup {Number(p, leader[p], round[p], n)}
        /\ picks' = [picks EXCEPT ![round[p]] = [@ EXCEPT ![p] = n]]
  OBVIOUS
<1>1. round[p] \in Rounds /\ ~ Announced(round[p])
  BY DEF RoundBound, InLoop, AllContributed, Contributed
<1>2. \A q \in Procs, r \in Rounds :
        /\ Contributed(q, r) => Contributed(q, r)'
        /\ Contributed(q, r) => picks'[r][q] = picks[r][q]
  BY <1>0, <1>1 DEF Contributed
<1>3. \A r \in Rounds : Announced(r)' <=> Announced(r)
  BY DEF Announced
<1>4. Drift' /\ LeaderAgreement' /\ Ahead'
  BY DEF Drift, LeaderAgreement, Ahead
<1>5. Roles' /\ Past'
  BY <1>1, <1>3 DEF Roles, Past, RoundBound, InLoop
<1>6. AllContributed'
  BY <1>2, <1>3 DEF AllContributed
<1>7. Messages'
  <2> SUFFICES ASSUME NEW m \in net'
               PROVE  \/ /\ m.kind = "number"
                         /\ Contributed(m.src, m.round)'
                         /\ m.val = picks'[m.round][m.src]
                      \/ /\ m.kind = "winner"
                         /\ m.val = result'[m.round]
    BY DEF Messages
  <2>1. CASE m \in net
    BY <2>1, <1>2 DEF Messages, Message
  <2>2. CASE m = Number(p, leader[p], round[p], n)
    BY <2>2, <1>0, <1>1 DEF Number, Contributed
  <2>. QED
    BY <2>1, <2>2, <1>0
<1>8. Gathering' /\ Scanning'
  <2>1. \A q \in Procs : pc'[q] = "compute" => pc[q] = "compute" /\ picks'[round[q]] = picks[round[q]]
    BY <1>0, <1>1, <1>2 DEF Gathering, Contributed, RoundBound, InLoop
  <2>. QED
    BY <2>1, <1>2 DEF Gathering, Scanning, Scanned, RoundBound, InLoop
<1>9. ResultIsClosest'
  <2>1. \A r \in Rounds : Announced(r) => picks'[r] = picks[r]
    BY <1>0, <1>1
  <2>. QED
    BY <2>1 DEF ResultIsClosest, Closest, Announced
<1>. QED
  BY <1>4, <1>5, <1>6, <1>7, <1>8, <1>9

\* The leader's gather: each rank's message of the round carries its pick.
LEMMA IndGather ==
  ASSUME IndInv, TypeInv', NEW p \in Procs, Gather(p)
  PROVE  IndInv'
<1> USE DEF Gather, IndInv, TypeInv, TypeOK
<1>1. round[p] \in Rounds /\ ~ Announced(round[p])
  BY DEF RoundBound, InLoop, Roles
<1>2. \A q \in Procs, r \in Rounds : Contributed(q, r)' <=> Contributed(q, r)
  BY DEF Contributed
<1>3. \A r \in Rounds : Announced(r)' <=> Announced(r)
  BY DEF Announced
<1>4. \A q \in Procs :
        /\ Contributed(q, round[p])
        /\ (CHOOSE m \in Gathered(p) : m.src = q).val = picks[round[p]][q]
  <2> TAKE q \in Procs
  <2> DEFINE m == CHOOSE m \in Gathered(p) : m.src = q
  <2>1. m \in Gathered(p) /\ m.src = q
    OBVIOUS
  <2> HIDE DEF m
  <2>2. m \in net /\ m.kind = "number" /\ m.round = round[p]
    BY <2>1 DEF Gathered
  <2>3. Contributed(q, round[p]) /\ m.val = picks[round[p]][q]
    BY <2>1, <2>2 DEF Messages
  <2>. QED
    BY <2>3 DEF m
<1>5. Drift' /\ LeaderAgreement' /\ Ahead'
  BY DEF Drift, LeaderAgreement, Ahead
<1>6. Roles' /\ Past'
  BY <1>1, <1>3 DEF Roles, Past, Announced
<1>7. AllContributed'
  BY <1>2, <1>3 DEF AllContributed
<1>8. Messages'
  <2>1. \A m \in net' : m \in net /\ m.src \in Procs /\ m.round \in Rounds
    BY DEF Message
  <2>. QED
    BY <2>1, <1>2 DEF Messages
<1>9. Gathering'
  <2> SUFFICES ASSUME NEW q \in Procs, pc'[q] = "compute"
               PROVE  /\ \A s \in Procs : Contributed(s, round[q])
                      /\ buffer'[q] = picks[round[q]]
                      /\ guess'[q] = target'[round[q]]
    BY ZenonT(100), <1>2 DEF Gathering, RoundBound, InLoop
  <2>1. CASE q = p
    <3>1. buffer'[p] = [s \in Procs |-> picks[round[p]][s]]
      BY <1>4
    <3>. QED
      BY <2>1, <3>1, <1>1, <1>4
  <2>2. CASE q # p
    <3>1. pc[q] = "compute" /\ round[q] \in Rounds
      BY <2>2 DEF RoundBound, InLoop
    <3>2. round[q] # round[p]
      BY <2>2, <3>1 DEF Roles, LeaderAgreement
    <3>. QED
      BY <2>2, <3>1, <3>2 DEF Gathering
  <2>. QED
    BY <2>1, <2>2
<1>10. Scanning'
  <2> SUFFICES ASSUME NEW q \in Procs, pc'[q] = "compute", q # p
               PROVE  pc[q] = "compute" /\ UNCHANGED <<min[q], guess[q], buffer[q], i[q], winner[q], multiple_guess[q]>>
    BY DEF Scanning, Scanned
  <2>. QED
    OBVIOUS
<1>11. ResultIsClosest'
  <2>1. \A r \in Rounds : Announced(r) => target'[r] = target[r]
    BY <1>1
  <2>. QED
    BY <2>1 DEF ResultIsClosest, Closest, Announced
<1>. QED
  BY <1>5, <1>6, <1>7, <1>8, <1>9, <1>10, <1>11

\* One turn of the loop extends the scanned prefix by one number.
LEMMA IndCompute ==
  ASSUME IndInv, TypeInv', NEW p \in Procs, ComputeWinner(p)
  PROVE  IndInv'
<1> USE DEF IndInv, TypeInv, TypeOK
<1>1. /\ UNCHANGED <<pc, round, leader, net, buffer, guess, leaderboard, history>>
      /\ \A q \in Procs \ {p} : UNCHANGED <<min[q], i[q], winner[q], multiple_guess[q]>>
      /\ pc[p] = "compute"
  BY DEF ComputeWinner
<1>2. Drift' /\ LeaderAgreement' /\ Ahead' /\ Past' /\ AllContributed' /\ Messages'
  BY <1>1 DEF Drift, LeaderAgreement, Ahead, Past, AllContributed, Messages,
     Announced, Contributed, history
<1>3. Roles'
  BY <1>1 DEF Roles, Announced, history
<1>4. Gathering' /\ ResultIsClosest'
  BY <1>1 DEF Gathering, Contributed, ResultIsClosest, Closest, history
<1>5. Scanning'
  <2> SUFFICES ASSUME NEW q \in Procs, pc[q] = "compute"
               PROVE
                 /\ \A s \in Scanned(q)' : min'[q] <= Diff(guess[q], buffer[q][s])
                 /\ i'[q] = 0 => min'[q] = IntMax /\ ~ multiple_guess'[q]
                 /\ i'[q] # 0 =>
                      /\ winner'[q] \in Scanned(q)'
                      /\ min'[q] = Diff(guess[q], buffer[q][winner'[q]])
                      /\ multiple_guess'[q] <=>
                          \E s \in Scanned(q)' \ {winner'[q]} : Diff(guess[q], buffer[q][s]) = min'[q]
    BY <1>1 DEF Scanning
  <2>1. CASE q # p
    BY <2>1, <1>1 DEF Scanning, Scanned
  <2>2. CASE q = p
    <3> DEFINE d(s) == Diff(guess[p], buffer[p][s])
    <3>1. i[p] \in Procs /\ i'[p] = i[p] + 1 /\ i[p] \in Nat /\ i[p] < NumProcs
      BY NextIndex DEF ComputeWinner
    <3>2. Scanned(p)' = Scanned(p) \cup {i[p]} /\ i[p] \notin Scanned(p) /\ Scanned(p) \subseteq Procs
      BY <3>1, Prefix DEF Scanned
    <3>3. \A s \in Procs : d(s) \in Int /\ d(s) < IntMax
      BY DiffType
    <3>4. /\ \A s \in Scanned(p) : min[p] <= d(s)
          /\ i[p] = 0 => min[p] = IntMax /\ ~ multiple_guess[p]
          /\ i[p] # 0 =>
               /\ winner[p] \in Scanned(p)
               /\ min[p] = d(winner[p])
               /\ multiple_guess[p] <=> \E s \in Scanned(p) \ {winner[p]} : d(s) = min[p]
      BY <1>1 DEF Scanning
    <3>5. diff(p) = d(i[p]) /\ min[p] \in Int
      BY DEF diff
    <3>6. i[p] = 0 => Scanned(p) = {}
      BY DEF Scanned
    <3> HIDE DEF d
    <3>7. CASE /\ diff(p) < min[p]
               /\ min' = [min EXCEPT ![p] = diff(p)]
               /\ winner' = [winner EXCEPT ![p] = i[p]]
               /\ multiple_guess' = [multiple_guess EXCEPT ![p] = FALSE]
      <4>1. \A s \in Scanned(p) : d(i[p]) < d(s)
        BY <3>7, <3>2, <3>3, <3>4, <3>5, <3>1
      <4>2. min'[p] = d(i[p]) /\ winner'[p] = i[p] /\ ~ multiple_guess'[p]
        BY <3>7, <3>5
      <4>3. /\ \A s \in Scanned(p)' : min'[p] <= d(s)
            /\ winner'[p] \in Scanned(p)'
            /\ multiple_guess'[p] <=> \E s \in Scanned(p)' \ {winner'[p]} : d(s) = min'[p]
        BY <4>1, <4>2, <3>1, <3>2, <3>3
      <4>. QED
        BY <4>2, <4>3, <3>1, <2>2 DEF d
    <3>8. CASE /\ diff(p) = min[p]
               /\ multiple_guess' = [multiple_guess EXCEPT ![p] = TRUE]
               /\ UNCHANGED <<min, winner>>
      <4>1. i[p] # 0
        BY <3>8, <3>1, <3>3, <3>4, <3>5
      <4>2. /\ \A s \in Scanned(p)' : min'[p] <= d(s)
            /\ winner'[p] \in Scanned(p)'
            /\ i[p] \in Scanned(p)' \ {winner'[p]} /\ d(i[p]) = min'[p]
        BY <4>1, <3>8, <3>2, <3>3, <3>4, <3>5
      <4>3. multiple_guess'[p]
        BY <3>8
      <4>4. min'[p] = d(winner'[p])
        BY <4>1, <3>8, <3>4
      <4>. QED
        BY <4>2, <4>3, <4>4, <3>1, <2>2 DEF d
    <3>9. CASE /\ diff(p) > min[p]
               /\ UNCHANGED <<min, winner, multiple_guess>>
      <4>1. i[p] # 0
        BY <3>9, <3>1, <3>3, <3>4, <3>5
      <4>2. /\ UNCHANGED <<multiple_guess[p], min[p], winner[p]>>
            /\ d(i[p]) # min[p] /\ min[p] <= d(i[p])
        BY <3>9, <3>1, <3>3, <3>5
      <4>3. /\ \A s \in Scanned(p)' : min'[p] <= d(s)
            /\ winner'[p] \in Scanned(p)'
            /\ min'[p] = d(winner'[p])
        BY <4>1, <4>2, <3>2, <3>4
      <4>4. multiple_guess'[p] <=> \E s \in Scanned(p)' \ {winner'[p]} : d(s) = min'[p]
        BY <4>1, <4>2, <3>2, <3>4
      <4>. QED
        BY <4>3, <4>4, <3>1, <2>2 DEF d
    <3>. QED
      BY <3>7, <3>8, <3>9 DEF ComputeWinner
  <2>. QED
    BY <2>1, <2>2
<1>. QED
  BY <1>2, <1>3, <1>4, <1>5

\* When the loop is over its result is the closest rank of the round, or nobody.
LEMMA ReturnedIsClosest ==
  ASSUME IndInv, NEW p \in Procs, pc[p] = "compute", i[p] = NumProcs
  PROVE  LET r == round[p] IN
           \/ ReturnedWinner(p) \in Procs /\ Closest(r, ReturnedWinner(p))
           \/ ReturnedWinner(p) = NoWinner /\ \A q \in Procs : ~ Closest(r, q)
<1> DEFINE d(s) == Diff(guess[p], buffer[p][s])
<1>1. Scanned(p) = Procs
  BY DEF Scanned, Procs
<1>2. \A s \in Procs : d(s) \in Int
  BY DiffType DEF IndInv, TypeInv, TypeOK
<1>3. \A q \in Procs : Closest(round[p], q) <=> \A s \in Procs \ {q} : d(q) < d(s)
  BY DEF Closest, IndInv, Gathering
<1>4. /\ winner[p] \in Procs
      /\ \A s \in Procs : d(winner[p]) <= d(s)
      /\ multiple_guess[p] <=> \E s \in Procs \ {winner[p]} : d(s) = d(winner[p])
  BY <1>1 DEF IndInv, Scanning
<1> HIDE DEF d
<1>5. CASE multiple_guess[p]
  <2>1. PICK s \in Procs \ {winner[p]} : d(s) = d(winner[p])
    BY <1>4, <1>5
  <2>2. \A q \in Procs : ~ Closest(round[p], q)
    BY <2>1, <1>2, <1>3, <1>4
  <2>. QED
    BY <2>2, <1>5 DEF ReturnedWinner
<1>6. CASE ~ multiple_guess[p]
  <2>1. Closest(round[p], winner[p])
    BY <1>2, <1>3, <1>4, <1>6
  <2>. QED
    BY <2>1, <1>4, <1>6 DEF ReturnedWinner
<1>. QED
  BY <1>5, <1>6

\* The announcement of a round: the only one, by the round's only leader.
LEMMA IndSendWinner ==
  ASSUME IndInv, TypeInv', NEW p \in Procs, SendWinner(p)
  PROVE  IndInv'
<1> USE DEF SendWinner, loopVars, IndInv, TypeInv, TypeOK
<1>1. /\ round[p] \in Rounds /\ ~ Announced(round[p])
      /\ \A q \in Procs : Contributed(q, round[p])
  BY DEF RoundBound, InLoop, Roles, Gathering
<1>2. \A q \in Procs, r \in 0 .. NumRounds : Contributed(q, r)' <=> Contributed(q, r)
  BY DEF Contributed
<1>3. /\ ReturnedWinner(p) \in Winners /\ ReturnedWinner(p) # Pending
      /\ \A r \in Rounds \ {round[p]} : result'[r] = result[r]
      /\ result'[round[p]] = ReturnedWinner(p)
  <2>1. ReturnedWinner(p) \in Winners
    BY DEF ReturnedWinner, Winners
  <2>. QED
    BY <1>1, <2>1, PendingIsNoWinner
<1>4. Drift' /\ LeaderAgreement'
  BY DEF Drift, LeaderAgreement
<1>5. Ahead'
  <2> SUFFICES ASSUME NEW q \in Procs, NEW s \in Procs, round[s] = round[q] + 1
               PROVE  round[q] # round[p] /\ round[q] \in Rounds
    BY <1>3 DEF Ahead
  <2>. QED
    BY <1>1, SMTT(60) DEF Past, Rounds
<1>6. Roles'
  <2> SUFFICES ASSUME NEW q \in Procs
               PROVE  /\ pc'[q] \in {"gather", "compute"} => q = leader[q] /\ result'[round[q]] = Pending
                      /\ pc'[q] = "update" => result'[round[q]] # Pending /\ winner'[q] = result'[round[q]]
    BY DEF Roles, Announced
  <2>1. CASE q = p
    BY <2>1, <1>3
  <2>2. CASE q # p /\ round[q] = round[p]
    BY <2>2, <1>1 DEF Roles, LeaderAgreement
  <2>3. CASE round[q] # round[p]
    BY <2>3, <1>3 DEF Roles, Announced
  <2>. QED
    BY <2>1, <2>2, <2>3
<1>7. Past'
  BY <1>3 DEF Past, Announced
<1>8. AllContributed'
  BY <1>1, <1>2, <1>3 DEF AllContributed, Announced, Rounds
<1>9. Messages'
  <2> SUFFICES ASSUME NEW m \in net'
               PROVE  \/ /\ m.kind = "number"
                         /\ Contributed(m.src, m.round)'
                         /\ m.val = picks[m.round][m.src]
                      \/ /\ m.kind = "winner"
                         /\ m.val = result'[m.round]
    BY DEF Messages
  <2>1. CASE m \in net
    <3>1. m.kind = "winner" => m.round # round[p]
      <4>1. m.kind = "winner" => m.val \in Winners
        BY <2>1 DEF Message
      <4>. QED
        BY <2>1, <4>1, <1>1, PendingIsNoWinner DEF Messages, Announced
    <3>2. m.src \in Procs /\ m.round \in Rounds
      BY <2>1 DEF Message
    <3>. QED
      BY <2>1, <3>1, <3>2, <1>2, <1>3 DEF Messages, Rounds
  <2>2. CASE m \in {Result(p, q, round[p], ReturnedWinner(p)) : q \in Procs \ {p}}
    BY <2>2, <1>3 DEF Result
  <2>. QED
    BY <2>1, <2>2
<1>10. Gathering' /\ Scanning'
  <2>1. \A q \in Procs : pc'[q] = "compute" => q # p /\ pc[q] = "compute" /\ winner'[q] = winner[q]
    OBVIOUS
  <2>. QED
    BY <2>1, <1>2 DEF Gathering, Scanning, Scanned
<1>11. ResultIsClosest'
  <2>1. \A r \in Rounds, q \in Procs : Closest(r, q)' <=> Closest(r, q)
    BY DEF Closest
  <2>2. \/ ReturnedWinner(p) \in Procs /\ Closest(round[p], ReturnedWinner(p))
        \/ ReturnedWinner(p) = NoWinner /\ \A q \in Procs : ~ Closest(round[p], q)
    BY ReturnedIsClosest
  <2>. QED
    BY <1>3, <2>1, <2>2 DEF ResultIsClosest
<1>. QED
  BY <1>4, <1>5, <1>6, <1>7, <1>8, <1>9, <1>10, <1>11

\* A rank that receives the winner receives the result of its round.
LEMMA IndReceive ==
  ASSUME IndInv, TypeInv', NEW p \in Procs, ReceiveWinner(p)
  PROVE  IndInv'
<1> USE DEF ReceiveWinner, loopVars, history, IndInv, TypeInv, TypeOK
<1>1. PICK m \in net :
        /\ m.kind = "winner" /\ m.round = round[p]
        /\ winner' = [winner EXCEPT ![p] = m.val]
        /\ net' = net \ {m}
  OBVIOUS
<1>2. m.val = result[round[p]] /\ m.val \in Winners
  BY <1>1 DEF Messages, Message
<1>3. \A q \in Procs, r \in 0 .. NumRounds : Contributed(q, r)' <=> Contributed(q, r)
  BY DEF Contributed
<1>4. Drift' /\ LeaderAgreement' /\ Ahead' /\ Past'
  BY DEF Drift, LeaderAgreement, Ahead, Past, Announced
<1>5. Roles'
  BY <1>1, <1>2, PendingIsNoWinner DEF Roles, Announced
<1>6. AllContributed'
  BY <1>3 DEF AllContributed, Announced, Rounds
<1>7. Messages'
  <2>1. \A k \in net' : k \in net /\ k.src \in Procs /\ k.round \in 0 .. NumRounds
    BY SMTT(60), <1>1 DEF Message, Rounds
  <2>. QED
    BY <2>1, <1>3 DEF Messages
<1>8. Gathering' /\ Scanning'
  <2>1. \A q \in Procs : pc'[q] = "compute" => q # p /\ pc[q] = "compute" /\ winner'[q] = winner[q]
    OBVIOUS
  <2>. QED
    BY <2>1, <1>3 DEF Gathering, Scanning, Scanned
<1>9. ResultIsClosest'
  BY DEF ResultIsClosest, Closest
<1>. QED
  BY <1>4, <1>5, <1>6, <1>7, <1>8, <1>9

\* A rank that ends its round goes where the result of the round sends it.
LEMMA IndUpdate ==
  ASSUME IndInv, TypeInv', NEW p \in Procs, Update(p)
  PROVE  IndInv'
<1>0. \A q \in Procs : round[q] \in Int /\ round'[q] = IF q = p THEN round[p] + 1 ELSE round[q]
  BY DEF IndInv, TypeInv, TypeOK, Update
<1>1. /\ round[p] \in Rounds /\ Announced(round[p])
      /\ winner[p] = result[round[p]]
      /\ \A q \in Procs : Contributed(q, round[p])
  BY DEF IndInv, TypeInv, RoundBound, InLoop, Roles, AllContributed, Update
<1>2. \A q \in Procs : round[p] <= round[q] /\ round[q] <= round[p] + 1
  BY <1>0, <1>1 DEF Contributed, Drift, IndInv
<1>13. ASSUME NEW q \in Procs, NEW s \in Procs, round'[s] = round'[q] + 1, s = p
      PROVE  q # p /\ round[q] = round[p]
  BY <1>0, <1>13
<1> USE DEF Update, loopVars, history, IndInv, TypeInv, TypeOK
<1>3. \A q \in Procs, r \in 0 .. NumRounds : Contributed(q, r) => Contributed(q, r)'
  BY DEF Contributed
<1>4. leader'[p] = IF result[round[p]] = NoWinner THEN leader[p] ELSE result[round[p]]
  BY <1>1 DEF UpdatedLeader
<1>5. Drift'
  BY <1>2 DEF Drift
<1>6. LeaderAgreement'
  <2> SUFFICES ASSUME NEW q \in Procs, q # p, round[q] = round[p] + 1
               PROVE  leader[q] = leader'[p]
    BY DEF LeaderAgreement
  <2>. QED
    BY <1>4 DEF Ahead
<1>7. Ahead'
  <2> SUFFICES ASSUME NEW q \in Procs, NEW s \in Procs, round'[s] = round'[q] + 1
               PROVE  leader'[s] = IF result[round'[q]] = NoWinner THEN leader'[q] ELSE result[round'[q]]
    BY DEF Ahead
  <2>1. CASE s = p
    <3>1. q # p /\ round[q] = round[p]
      BY <2>1, <1>13
    <3>. QED
      BY <2>1, <3>1, <1>4 DEF LeaderAgreement
  <2>2. CASE s # p /\ q = p
    BY <2>2, <1>2
  <2>3. CASE s # p /\ q # p
    BY <2>3 DEF Ahead
  <2>. QED
    BY <2>1, <2>2, <2>3
<1>8. Roles' /\ Past'
  <2>1. Roles'
    BY DEF Roles, Announced
  <2>2. \A r \in Rounds : r < round[p] + 1 => r < round[p] \/ r = round[p]
    BY <1>0, SMTT(60) DEF Rounds
  <2>3. Past'
    BY <1>0, <1>1, <2>2 DEF Past, Announced
  <2>. QED
    BY <2>1, <2>3
<1>9. AllContributed'
  BY <1>3 DEF AllContributed, Announced, Rounds
<1>10. Messages'
  <2>1. \A m \in net : m.src \in Procs /\ m.round \in Rounds
    BY DEF Message
  <2>2. \A m \in net : Contributed(m.src, m.round) => Contributed(m.src, m.round)'
    BY <2>1, <1>3, RoundsBound
  <2>. QED
    BY <2>1, <2>2 DEF Messages
<1>11. Gathering' /\ Scanning'
  <2>1. \A q \in Procs : pc'[q] = "compute" => q # p /\ pc[q] = "compute" /\ round'[q] = round[q]
    OBVIOUS
  <2>. QED
    BY <2>1, <1>3 DEF Gathering, Scanning, Scanned
<1>12. ResultIsClosest'
  BY DEF ResultIsClosest, Closest
<1>. QED
  BY <1>5, <1>6, <1>7, <1>8, <1>9, <1>10, <1>11, <1>12

\* The barrier moves no round, leader, message or result.
LEMMA IndBarrier ==
  ASSUME IndInv, TypeInv', NEW p \in Procs, Barrier(p)
  PROVE  IndInv'
<1> USE DEF Barrier, loopVars, history, IndInv, TypeInv, TypeOK
<1>1. \A q \in Procs, r \in 0 .. NumRounds : Contributed(q, r) <=> Contributed(q, r)'
  BY DEF Contributed
<1>2. Drift' /\ LeaderAgreement' /\ Ahead' /\ Roles' /\ Past'
  BY DEF Drift, LeaderAgreement, Ahead, Roles, Past, Announced
<1>3. AllContributed' /\ Messages'
  BY SMTT(60), <1>1 DEF AllContributed, Announced, Messages, Message, Rounds
<1>4. Gathering' /\ Scanning' /\ ResultIsClosest'
  BY <1>1 DEF Gathering, Scanning, Scanned, ResultIsClosest, Closest
<1>. QED
  BY <1>2, <1>3, <1>4

LEMMA IndStutter == IndInv /\ UNCHANGED vars => IndInv'
  BY DEF vars, procVars, loopVars, history, IndInv, TypeInv, TypeOK, RoundBound, InLoop,
     Drift, LeaderAgreement, Ahead, Roles, Past, AllContributed, Messages, Gathering,
     Scanning, Scanned, ResultIsClosest, Closest, Contributed, Announced

LEMMA IndStep == IndInv /\ [Next]_vars => IndInv'
<1> SUFFICES ASSUME IndInv, [Next]_vars PROVE IndInv'
  OBVIOUS
<1>1. TypeInv'
  BY TypeStep DEF IndInv
<1>2. ASSUME NEW p \in Procs, Step(p) PROVE IndInv'
  BY <1>1, <1>2, IndSend, IndGather, IndCompute, IndSendWinner, IndReceive, IndUpdate, IndBarrier
     DEF Step
<1>3. CASE UNCHANGED vars
  BY <1>3, IndStutter
<1>. QED
  BY <1>2, <1>3 DEF Next, Terminating

LEMMA IndCorrect == Spec => []IndInv
  BY IndInit, IndStep, PTL DEF Spec

\* Ranks that are in the same round have the same leader, so every collective of
\* a round is called with one root, although no rank waits for the others to end
\* the round before.
THEOREM LeadersAgree == Spec => []LeaderAgreement
<1>1. IndInv => LeaderAgreement
  BY DEF IndInv
<1>. QED
  BY <1>1, IndCorrect, PTL

\* compute_winner's loop, run over whatever the gather delivered, announces the
\* rank strictly closest to the number to guess among the picks of that round.
THEOREM ResultsAreClosest == Spec => []ResultIsClosest
<1>1. IndInv => ResultIsClosest
  BY DEF IndInv
<1>. QED
  BY <1>1, IndCorrect, PTL

(***************************************************************************)
(* The leader board, and the round game that rank 0 observes.              *)
(***************************************************************************)

Won(p) == {r \in 0 .. round[0] - 1 : result[r] = p}

LEMMA RankZero == 0 \in Procs
  BY DEF Procs

LEMMA WonFinite ==
  ASSUME TypeInv, NEW p \in Procs
  PROVE  IsFiniteSet(Won(p)) /\ Cardinality(Won(p)) \in Nat
<1>1. round[0] - 1 \in Int
  BY RankZero DEF TypeInv, TypeOK
<1>2. IsFiniteSet(0 .. round[0] - 1)
  BY <1>1, FS_Interval
<1>. QED
  BY <1>2, FS_Subset, FS_CardinalityType DEF Won

LEMMA BoardInit == Init => LeaderboardCountsWins
<1> SUFFICES ASSUME Init, NEW p \in Procs
             PROVE  leaderboard[p] = Cardinality({r \in 0 .. round[0] - 1 : result[r] = p})
  BY DEF LeaderboardCountsWins
<1>1. {r \in 0 .. round[0] - 1 : result[r] = p} = {}
  BY RankZero DEF Init
<1>. QED
  BY <1>1, FS_EmptySet DEF Init

LEMMA BoardStep == IndInv /\ LeaderboardCountsWins /\ [Next]_vars => LeaderboardCountsWins'
<1> SUFFICES ASSUME IndInv, LeaderboardCountsWins, [Next]_vars PROVE LeaderboardCountsWins'
  OBVIOUS
<1>0. \A p \in Procs : leaderboard[p] = Cardinality(Won(p))
  BY DEF LeaderboardCountsWins, Won
<1>1. SUFFICES \A p \in Procs : leaderboard'[p] = Cardinality(Won(p)')
  BY DEF LeaderboardCountsWins, Won
<1>2. \A r \in 0 .. round[0] - 1 : r \in Rounds /\ Announced(r)
  BY RankZero DEF IndInv, TypeInv, TypeOK, Past, Rounds
<1>3. CASE Update(0)
  <2>1. /\ round[0] \in Rounds /\ winner[0] = result[round[0]]
        /\ UNCHANGED result
        /\ round'[0] = round[0] + 1
        /\ leaderboard' = UpdatedLeaderboard(0)
    BY <1>3, RankZero DEF Update, history, IndInv, TypeInv, TypeOK, RoundBound, InLoop, Roles
  <2>2. round'[0] - 1 = round[0] /\ 0 .. round[0] = (0 .. round[0] - 1) \cup {round[0]}
    BY <2>1 DEF Rounds
  <2>. TAKE p \in Procs
  <2>3. CASE winner[0] = p
    <3>1. Won(p)' = Won(p) \cup {round[0]}
      BY <2>1, <2>2, <2>3 DEF Won
    <3>2. round[0] \notin Won(p)
      BY <2>1 DEF Won, Rounds
    <3>3. Cardinality(Won(p)') = Cardinality(Won(p)) + 1
      BY <3>1, <3>2, WonFinite, FS_AddElement DEF IndInv
    <3>4. leaderboard'[p] = leaderboard[p] + 1
      BY <2>1, <2>3 DEF UpdatedLeaderboard, NoWinner, Procs, IndInv, TypeInv, TypeOK
    <3>. QED
      BY <3>3, <3>4, <1>0
  <2>4. CASE winner[0] # p
    <3>1. Won(p)' = Won(p)
      BY <2>1, <2>2, <2>4 DEF Won
    <3>2. leaderboard'[p] = leaderboard[p]
      BY <2>1, <2>4 DEF UpdatedLeaderboard, IndInv, TypeInv, TypeOK
    <3>. QED
      BY <3>1, <3>2, <1>0
  <2>. QED
    BY <2>3, <2>4
<1>4. CASE \E q \in Procs : SendWinner(q)
  <2>1. PICK q \in Procs : SendWinner(q)
    BY <1>4
  <2>2. ~ Announced(round[q]) /\ UNCHANGED <<round, leaderboard>>
    BY <2>1 DEF SendWinner, loopVars, IndInv, Roles
  <2>3. \A r \in 0 .. round[0] - 1 : result'[r] = result[r]
    BY <1>2, <2>1, <2>2 DEF SendWinner, IndInv, TypeInv, TypeOK
  <2>. QED
    BY <1>0, <2>2, <2>3 DEF Won
<1>5. CASE UNCHANGED <<round[0], leaderboard, result>>
  BY <1>0, <1>5 DEF Won
<1>6. ASSUME NEW q \in Procs, Step(q), ~ SendWinner(q), ~ Update(0)
      PROVE  UNCHANGED <<round[0], leaderboard, result>>
  BY <1>6, RankZero DEF Step, SendNumToLeader, Gather, ComputeWinner, ReceiveWinner, Update, Barrier,
     loopVars, history, IndInv, TypeInv, TypeOK
<1>. QED
  BY <1>3, <1>4, <1>5, <1>6 DEF Next, Terminating, vars, procVars, history

\* Rank 0's leader board counts the rounds each rank won.
THEOREM LeaderboardCorrect == Spec => []LeaderboardCountsWins
  BY BoardInit, BoardStep, IndCorrect, PTL DEF Spec

Played == {[round |-> r, picks |-> picks[r], target |-> target[r], winner |-> result[r]] :
             r \in 0 .. round[0] - 1}

GameVars == <<round[0], leader[0], leaderboard, Played>>

LEMMA GameInit == Init => Game!Init
  BY RankZero DEF Init, Game!Init, Game!Procs, Procs

\* A step that ends no round of rank 0 changes nothing in the rounds rank 0 ended:
\* their picks, targets and results are already fixed.
LEMMA GameStutter ==
  ASSUME IndInv, NEW p \in Procs, Step(p), ~ Update(0)
  PROVE  UNCHANGED GameVars
<1>1. \A r \in 0 .. round[0] - 1 : r \in Rounds /\ Announced(r)
  BY RankZero DEF IndInv, TypeInv, TypeOK, Past, Rounds
<1>2. UNCHANGED <<round[0], leader[0], leaderboard>>
  BY RankZero DEF Step, SendNumToLeader, Gather, ComputeWinner, SendWinner, ReceiveWinner, Update,
     Barrier, loopVars, history, IndInv, TypeInv, TypeOK
<1>3. \A r \in 0 .. round[0] - 1 : UNCHANGED <<picks[r], target[r], result[r]>>
  <2>1. CASE SendNumToLeader(p)
    <3>1. round[p] \in Rounds
      BY <2>1 DEF SendNumToLeader, IndInv, TypeInv, RoundBound, InLoop
    <3>2. ~ Contributed(p, round[p])
      BY <2>1, <3>1 DEF SendNumToLeader, Contributed, Rounds
    <3>3. ~ Announced(round[p])
      BY <3>1, <3>2 DEF IndInv, AllContributed
    <3>. QED
      BY <1>1, <2>1, <3>1, <3>3 DEF SendNumToLeader, IndInv, TypeInv, TypeOK
  <2>2. CASE Gather(p)
    BY <1>1, <2>2 DEF Gather, IndInv, TypeInv, TypeOK, Roles
  <2>3. CASE SendWinner(p)
    BY <1>1, <2>3 DEF SendWinner, IndInv, TypeInv, TypeOK, Roles
  <2>. QED
    BY <2>1, <2>2, <2>3 DEF Step, ComputeWinner, ReceiveWinner, Update, Barrier, history
<1>4. UNCHANGED Played
  BY <1>2, <1>3 DEF Played
<1>. QED
  BY <1>2, <1>4 DEF GameVars

LEMMA GameStep ==
  ASSUME IndInv, TypeInv', Update(0)
  PROVE  Game!PlayRound
<1> DEFINE r == round[0]
           w == result[r]
<1>1. /\ r \in Rounds /\ w \in Winners /\ Announced(r) /\ winner[0] = w
      /\ round'[0] = r + 1
      /\ leader'[0] = UpdatedLeader(0)
      /\ leaderboard' = UpdatedLeaderboard(0)
      /\ UNCHANGED <<picks, target, result>>
  BY RankZero DEF Update, history, IndInv, TypeInv, TypeOK, RoundBound, InLoop, Roles, Announced
<1>2. r < NumRounds /\ r + 1 - 1 = r /\ 0 .. r = (0 .. r - 1) \cup {r}
  BY <1>1 DEF Rounds
<1>3. picks[r] \in [Procs -> Numbers] /\ target[r] \in Numbers
  BY <1>1 DEF IndInv, TypeInv, TypeOK
<1>4. Game!IsWinner(picks[r], target[r], w)
  BY <1>1 DEF IndInv, ResultIsClosest, Announced, Closest, Diff, NoWinner, Procs,
     Game!IsWinner, Game!Closest, Game!Diff, Game!NoWinner, Game!Procs
<1>5. leader'[0] = IF w = Game!NoWinner THEN leader[0] ELSE w
  BY <1>1 DEF UpdatedLeader, NoWinner, Game!NoWinner
<1>6. leaderboard' = [p \in Procs |-> leaderboard[p] + IF p = w THEN 1 ELSE 0]
  <2>1. leaderboard \in [Procs -> Nat]
    BY DEF IndInv, TypeInv, TypeOK
  <2>2. CASE w = NoWinner
    BY <2>1, <2>2, <1>1 DEF UpdatedLeaderboard, NoWinner, Procs
  <2>3. CASE w # NoWinner
    <3>1. leaderboard' = [leaderboard EXCEPT ![w] = @ + 1]
      BY <2>3, <1>1 DEF UpdatedLeaderboard
    <3>2. w \in Procs
      BY <2>3, <1>1 DEF Winners
    <3> HIDE DEF w
    <3>3. /\ leaderboard' \in [Procs -> Nat]
          /\ \A p \in Procs : leaderboard'[p] = leaderboard[p] + IF p = w THEN 1 ELSE 0
      BY <2>1, <3>1, <3>2
    <3>. QED
      BY <3>3
  <2>. QED
    BY <2>2, <2>3
<1>7. Played' = Played \cup {[round |-> r, picks |-> picks[r], target |-> target[r], winner |-> w]}
  <2> DEFINE entry(k) == [round |-> k, picks |-> picks[k], target |-> target[k], winner |-> result[k]]
  <2>1. Played = {entry(k) : k \in 0 .. r - 1}
    BY DEF Played
  <2>2. Played' = {entry(k) : k \in 0 .. r}
    BY <1>1, <1>2, SMTT(60) DEF Played
  <2>3. entry(r) = [round |-> r, picks |-> picks[r], target |-> target[r], winner |-> w]
    OBVIOUS
  <2> HIDE DEF entry, r, w
  <2>. QED
    BY <2>1, <2>2, <2>3, <1>2
<1> HIDE DEF r, w
<1>8. /\ r < NumRounds /\ r \in Int
      /\ w \in Game!Procs \cup {Game!NoWinner}
      /\ picks[r] \in [Game!Procs -> Game!Numbers]
      /\ target[r] \in Game!Numbers
  BY <1>1, <1>2, <1>3 DEF Winners, Procs, Rounds, Numbers, NoWinner, Game!Procs, Game!Numbers, Game!NoWinner
<1>. QED
  BY <1>1, <1>4, <1>5, <1>6, <1>7, <1>8, ZenonT(100) DEF Game!PlayRound, Game!Procs, Procs, Played, r

LEMMA GameNext == IndInv /\ TypeInv' /\ [Next]_vars => [Game!PlayRound]_(Game!vars)
<1> SUFFICES ASSUME IndInv, TypeInv', [Next]_vars PROVE Game!PlayRound \/ UNCHANGED GameVars
  BY DEF Game!vars, GameVars, Played
<1>1. CASE Update(0)
  BY <1>1, GameStep
<1>2. ASSUME NEW p \in Procs, Step(p), ~ Update(0) PROVE UNCHANGED GameVars
  BY <1>2, GameStutter
<1>3. CASE UNCHANGED vars
  BY <1>3 DEF vars, procVars, history, GameVars, Played
<1>. QED
  BY <1>1, <1>2, <1>3 DEF Next, Terminating

\* Every run of the ranks is, for rank 0, a run of the round game: the safety part
\* of ImplementsRounds (its fairness is checked by TLC).
THEOREM RoundsImplemented == Spec => Game!Init /\ [][Game!PlayRound]_(Game!vars)
<1>1. IndInv => TypeInv
  BY DEF IndInv
<1>. QED
  BY <1>1, GameInit, GameNext, IndCorrect, PTL DEF Spec
=============================================================================
