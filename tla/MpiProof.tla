------------------------------- MODULE MpiProof --------------------------------
(***************************************************************************)
(* Proofs about the MPI programs other than the guessing game, for any     *)
(* number of ranks.  The linear road: no car is lost or doubled, none      *)
(* moves two segments in an iteration, and every sum that is printed is of *)
(* one instant.  The short programs, the filter, the letter count and the  *)
(* ants: each has an inductive invariant of its own.  The last part puts   *)
(* them together, for the properties MCMpi states of all of them.          *)
(***************************************************************************)
EXTENDS MCMpi, SumTheorems, SequenceTheorems

USE ProcsAssumption, RoadAssumption

(***************************************************************************)
(* The loop in which cars leave a segment.                                 *)
(***************************************************************************)

Two(k) == IF k = 1 THEN 0 ELSE k - 2
LoopTurn(g, k) == IF k = 0 THEN {0} ELSE g[k - 1] \cup {cars + 1 : cars \in g[Two(k)]}
Half == [k \in Nat |-> 0 .. (k + 1) \div 2]

LEMMA HalfTurns == \A k \in Nat : Half[k] = LoopTurn(Half, k)
<1> SUFFICES ASSUME NEW k \in Nat PROVE Half[k] = LoopTurn(Half, k)
  OBVIOUS
<1>1. CASE k = 0
  BY <1>1 DEF LoopTurn, Half
<1>2. CASE k > 0
  <2> DEFINE a == (Two(k) + 1) \div 2
             b == k \div 2
             d == (k + 1) \div 2
  <2>1. k - 1 \in Nat /\ Two(k) \in Nat /\ k # 0
    BY <1>2 DEF Two
  <2>2. a \in Nat /\ b \in Nat /\ d = a + 1 /\ b <= d /\ b >= d - 1
    BY <1>2 DEF Two
  <2>3. Half[k] = 0 .. d /\ Half[k - 1] = 0 .. b /\ Half[Two(k)] = 0 .. a
    BY <2>1 DEF Half
  <2> HIDE DEF a, b, d
  <2>4. {cars + 1 : cars \in 0 .. a} = 1 .. d
    <3>1. \A x \in 1 .. d : x - 1 \in 0 .. a /\ x = (x - 1) + 1
      BY <2>2
    <3>2. \A cars \in 0 .. a : cars + 1 \in 1 .. d
      BY <2>2
    <3>. QED
      BY <3>1, <3>2
  <2>5. 0 .. d = (0 .. b) \cup (1 .. d)
    BY <2>2
  <2>. QED
    BY <2>1, <2>3, <2>4, <2>5 DEF LoopTurn
<1>. QED
  BY <1>1, <1>2

LEMMA MoveLoopTurns == \A k \in Nat : MoveLoop[k] = LoopTurn(MoveLoop, k)
<1> DEFINE Turns(g) == g = [k \in Nat |-> LoopTurn(g, k)]
<1>1. Turns(Half)
  <2>1. Half = [k \in Nat |-> Half[k]]
    BY DEF Half
  <2>. QED
    BY <2>1, HalfTurns
<1>2. MoveLoop = CHOOSE g : Turns(g)
  BY DEF MoveLoop, LoopTurn, Two
<1>3. Turns(MoveLoop)
  <2> HIDE DEF Turns
  <2>. QED
    BY <1>1, <1>2
<1>. QED
  BY <1>3

\* Any number of cars leaves, up to half of them.
LEMMA HalfLeaves == \A n \in Nat : Leaving(n) = 0 .. (n + 1) \div 2
<1> DEFINE U == {m \in Nat : \A k \in 0 .. m : MoveLoop[k] = Half[k]}
<1>1. 0 \in U
  <2>1. MoveLoop[0] = {0} /\ Half[0] = {0}
    BY MoveLoopTurns, HalfTurns DEF LoopTurn
  <2>2. \A k \in 0 .. 0 : k = 0
    OBVIOUS
  <2>. QED
    BY <2>1, <2>2
<1>2. ASSUME NEW m \in Nat, m \in U PROVE m + 1 \in U
  <2>1. ASSUME NEW k \in 0 .. m + 1 PROVE MoveLoop[k] = Half[k]
    <3>1. CASE k = 0
      BY <1>1, <3>1
    <3>2. CASE k > 0
      <4>1. k \in Nat /\ k - 1 \in 0 .. m /\ Two(k) \in 0 .. m
        BY <3>2 DEF Two
      <4>2. MoveLoop[k - 1] = Half[k - 1] /\ MoveLoop[Two(k)] = Half[Two(k)]
        BY <1>2, <4>1
      <4>3. MoveLoop[k] = LoopTurn(MoveLoop, k) /\ Half[k] = LoopTurn(Half, k)
        BY <4>1, MoveLoopTurns, HalfTurns
      <4>. QED
        BY <4>2, <4>3 DEF LoopTurn
    <3>. QED
      BY <3>1, <3>2
  <2>. QED
    BY <2>1
<1>3. \A m \in Nat : m \in U
  <2> HIDE DEF U
  <2>. QED
    BY <1>1, <1>2, NatInduct
<1>4. \A n \in Nat : MoveLoop[n] = Half[n]
  BY <1>3
<1>. QED
  BY <1>4 DEF Leaving, Half

(***************************************************************************)
(* The linear road: the inductive invariant.                               *)
(***************************************************************************)

\* How many messages a rank has sent and received, or would have if there were any.
Sends(r) == it[r] + IF phase[r] \in {"exit", "done"} THEN 0 ELSE 1
Recvs(r) == it[r] + IF phase[r] \in {"count", "print", "barrier"} THEN 1 ELSE 0

\* A rank that is an iteration behind is at the barrier.
Together ==
  /\ \A r \in Procs : phase[r] = "done" <=> it[r] = NumIterations
  /\ \A r \in Procs : phase[r] = "print" => r = 0
  /\ \A r \in Procs : phase[r] = "send" => r # LastRank
  /\ \A p, q \in Procs : it[p] > it[q] => it[p] = it[q] + 1 /\ phase[q] = "barrier"

\* There is a message to a rank when the one before it has sent once more than it received.
MessageCount ==
  /\ exiting[0] = None
  /\ \A r \in Procs \ {0} :
       /\ Sends(r - 1) \in {Recvs(r), Recvs(r) + 1}
       /\ exiting[r] # None <=> Sends(r - 1) = Recvs(r) + 1

\* A rank whose cars are counted stays at the barrier with them until the sum is printed, for
\* which all of them are.
Contributions ==
  \A r \in Procs :
    /\ local_sum[r] # None =>
         /\ phase[r] \in {"print", "barrier"} /\ it[r] % CountEvery = 0
         /\ local_sum[r] = SumFunction(segments[r])
         /\ (it[0] = it[r] /\ phase[0] # "barrier") \/ it[0] < it[r]
    /\ phase[0] = "barrier" /\ it[0] % CountEvery = 0 =>
         it[r] > it[0] \/ (it[r] = it[0] /\ phase[r] = "barrier")

\* How far the cars have come, by the part of the iteration.
Reach(r) == IF phase[r] \in {"exit", "send", "move", "done"} THEN it[r] - 1 ELSE it[r]

NotAhead ==
  /\ \A r \in Procs, s \in Segs : segments[r][s] > 0 => r * Local + s <= Reach(r)
  /\ \A r \in Procs : exiting[r] > 0 => r * Local <= Recvs(r)

RoadInv == RoadTypeOK /\ Together /\ MessageCount /\ Contributions /\ NotAhead /\ CarsConserved

LEMMA ProcsFacts ==
  /\ IsFiniteSet(Procs) /\ IsFiniteSet(Segs) /\ Procs \subseteq Nat /\ Segs \subseteq Nat
  /\ 0 \in Procs /\ LastRank \in Procs /\ 0 \in Segs /\ Local - 1 \in Segs
  /\ \A r \in Procs : r # LastRank => r + 1 \in Procs /\ r + 1 # 0
  /\ \A r \in Procs : r # 0 => r - 1 \in Procs /\ r - 1 # LastRank
<1>1. IsFiniteSet(Procs) /\ IsFiniteSet(Segs)
  BY FS_Interval DEF Procs, Segs
<1>. QED
  BY <1>1 DEF Procs, Segs, LastRank

\* The sum of all the numbers of a function.
LEMMA SumAll ==
  ASSUME NEW S, IsFiniteSet(S), NEW f \in [S -> Nat]
  PROVE  SumFunction(f) = SumFunctionOnSet(f, S) /\ NatOn(f, S) /\ SumFunction(f) \in Nat
<1>1. NatOn(f, S) /\ DOMAIN f = S
  BY DEF NatOn
<1>. QED
  BY <1>1, SumType DEF SumFunction

Val(m) == IF m = None THEN 0 ELSE m

\* What a rank's cars and a message add to the cars that are counted.
LEMMA RowChanges ==
  ASSUME RoadTypeOK, NEW r \in Procs, NEW row \in [Segs -> Nat],
         segments' = [segments EXCEPT ![r] = row]
  PROVE  /\ OnRoad \in Nat /\ SumFunction(row) \in Nat /\ SumFunction(segments[r]) \in Nat
         /\ OnRoad' = OnRoad - SumFunction(segments[r]) + SumFunction(row)
         /\ segments' \in [Procs -> [Segs -> Nat]]
<1> DEFINE f == [q \in Procs |-> SumFunction(segments[q])]
           g == [q \in Procs |-> SumFunction(segments'[q])]
<1>1. segments \in [Procs -> [Segs -> Nat]] /\ segments' \in [Procs -> [Segs -> Nat]]
  BY DEF RoadTypeOK
<1>2. f \in [Procs -> Nat] /\ g \in [Procs -> Nat]
  BY <1>1, ProcsFacts, SumAll
<1>3. f[r] = SumFunction(segments[r]) /\ g[r] = SumFunction(row) /\ \A q \in Procs \ {r} : f[q] = g[q]
  BY <1>1
<1>4. OnRoad = SumFunction(f) /\ OnRoad' = SumFunction(g)
  BY DEF OnRoad
<1> HIDE DEF f, g
<1>5. /\ SumFunction(f) = SumFunctionOnSet(f, Procs) /\ NatOn(f, Procs) /\ SumFunction(f) \in Nat
      /\ SumFunction(g) = SumFunctionOnSet(g, Procs) /\ NatOn(g, Procs)
  BY <1>2, ProcsFacts, SumAll
<1>6. SumFunctionOnSet(g, Procs) = SumFunctionOnSet(f, Procs) - f[r] + g[r]
  <2>1. IsFiniteSet(Procs)
    BY ProcsFacts
  <2>. QED
    BY <1>3, <1>5, <2>1, SumUpdate
<1>7. f[r] \in Nat /\ g[r] \in Nat
  BY <1>2
<1>. QED
  BY <1>1, <1>3, <1>4, <1>5, <1>6, <1>7

LEMMA MessageChanges ==
  ASSUME RoadTypeOK, NEW r \in Procs, NEW m \in Nat \cup {None}, exiting' = [exiting EXCEPT ![r] = m]
  PROVE  /\ Between \in Nat
         /\ Between' = Between - Val(exiting[r]) + Val(m)
         /\ exiting' \in [Procs -> Nat \cup {None}]
<1> DEFINE f == [q \in Procs |-> IF exiting[q] = None THEN 0 ELSE exiting[q]]
           g == [q \in Procs |-> IF exiting'[q] = None THEN 0 ELSE exiting'[q]]
<1>1. exiting \in [Procs -> Nat \cup {None}] /\ exiting' \in [Procs -> Nat \cup {None}]
  BY DEF RoadTypeOK
<1>2. f \in [Procs -> Nat] /\ g \in [Procs -> Nat]
  BY <1>1
<1>3. f[r] = Val(exiting[r]) /\ g[r] = Val(m) /\ \A q \in Procs \ {r} : f[q] = g[q]
  BY <1>1 DEF Val
<1>4. Between = SumFunction(f) /\ Between' = SumFunction(g)
  BY DEF Between
<1> HIDE DEF f, g
<1>5. /\ SumFunction(f) = SumFunctionOnSet(f, Procs) /\ NatOn(f, Procs) /\ SumFunction(f) \in Nat
      /\ SumFunction(g) = SumFunctionOnSet(g, Procs) /\ NatOn(g, Procs)
  BY <1>2, ProcsFacts, SumAll
<1>6. SumFunctionOnSet(g, Procs) = SumFunctionOnSet(f, Procs) - f[r] + g[r]
  <2>1. IsFiniteSet(Procs)
    BY ProcsFacts
  <2>. QED
    BY <1>3, <1>5, <2>1, SumUpdate
<1>. QED
  BY <1>1, <1>3, <1>4, <1>5, <1>6

\* One segment changes.
LEMMA SegmentChanges ==
  ASSUME NEW row \in [Segs -> Nat], NEW s \in Segs, NEW n \in Nat
  PROVE  /\ [row EXCEPT ![s] = n] \in [Segs -> Nat]
         /\ SumFunction([row EXCEPT ![s] = n]) = SumFunction(row) - row[s] + n
         /\ SumFunction(row) >= row[s]
<1> DEFINE g == [row EXCEPT ![s] = n]
<1>1. g \in [Segs -> Nat] /\ g[s] = n /\ \A x \in Segs \ {s} : row[x] = g[x]
  OBVIOUS
<1> HIDE DEF g
<1>2. /\ SumFunction(row) = SumFunctionOnSet(row, Segs) /\ NatOn(row, Segs)
      /\ SumFunction(g) = SumFunctionOnSet(g, Segs) /\ NatOn(g, Segs)
  BY <1>1, ProcsFacts, SumAll
<1>3. SumFunctionOnSet(g, Segs) = SumFunctionOnSet(row, Segs) - row[s] + g[s] /\ SumFunctionOnSet(row, Segs) >= row[s]
  <2>1. IsFiniteSet(Segs)
    BY ProcsFacts
  <2>. QED
    BY <1>1, <1>2, <2>1, SumUpdate
<1>. QED
  BY <1>1, <1>2, <1>3 DEF g

\* Cars that move inside a rank.
LEMMA MovesKeepSum ==
  ASSUME NEW row \in [Segs -> Nat], NEW out \in [Segs -> Nat], out[Local - 1] = 0,
         \A s \in Segs : out[s] <= row[s]
  PROVE  LET moved == [s \in Segs |-> row[s] - out[s] + IF s = 0 THEN 0 ELSE out[s - 1]]
         IN  moved \in [Segs -> Nat] /\ SumFunction(moved) = SumFunction(row)
<1> DEFINE moved == [s \in Segs |-> row[s] - out[s] + IF s = 0 THEN 0 ELSE out[s - 1]]
           U == {n \in Nat : n \in Segs =>
                   SumFunctionOnSet(moved, 0 .. n) + out[n] = SumFunctionOnSet(row, 0 .. n)}
<1>1. moved \in [Segs -> Nat]
  BY DEF Segs
<1>2. /\ moved[0] = row[0] - out[0]
      /\ \A s \in Segs : s # 0 => moved[s] = row[s] - out[s] + out[s - 1]
  BY ProcsFacts
<1> HIDE DEF moved
<1>3. ASSUME NEW n \in Segs, NEW f \in [Segs -> Nat]
      PROVE  /\ SumFunctionOnSet(f, 0 .. n) \in Nat
             /\ SumFunctionOnSet(f, 0 .. n) = f[n] + SumFunctionOnSet(f, (0 .. n) \ {n})
  <2>1. n \in Nat /\ n \in 0 .. n /\ \A x \in 0 .. n : x \in Segs
    BY DEF Segs
  <2>2. IsFiniteSet(0 .. n) /\ NatOn(f, 0 .. n)
    BY <2>1, FS_Interval DEF NatOn
  <2>3. SumFunctionOnSet(f, 0 .. n) \in Nat
    BY <2>2, SumType
  <2>4. SumFunctionOnSet(f, 0 .. n) = f[n] + SumFunctionOnSet(f, (0 .. n) \ {n})
    <3> DEFINE I == 0 .. n
    <3>1. IsFiniteSet(I) /\ NatOn(f, I) /\ n \in I
      BY <2>1, <2>2
    <3> HIDE DEF I
    <3>2. SumFunctionOnSet(f, I) = f[n] + SumFunctionOnSet(f, I \ {n})
      BY <3>1, SumRemove
    <3>. QED
      BY <3>2 DEF I
  <2>. QED
    BY <2>3, <2>4
<1>4. 0 \in U
  <2>1. (0 .. 0) \ {0} = {}
    OBVIOUS
  <2>2. 0 \in Segs /\ SumFunctionOnSet(moved, {}) = 0 /\ SumFunctionOnSet(row, {}) = 0
    BY SumEmpty, ProcsFacts
  <2>3. row[0] \in Nat /\ out[0] \in Nat /\ moved[0] \in Nat
    BY <1>1, <2>2
  <2>4. SumFunctionOnSet(moved, 0 .. 0) = moved[0] /\ SumFunctionOnSet(row, 0 .. 0) = row[0]
    <3>1. /\ SumFunctionOnSet(moved, 0 .. 0) = moved[0] + SumFunctionOnSet(moved, (0 .. 0) \ {0})
          /\ SumFunctionOnSet(row, 0 .. 0) = row[0] + SumFunctionOnSet(row, (0 .. 0) \ {0})
      BY <1>1, <1>3, <2>2
    <3>2. SumFunctionOnSet(moved, (0 .. 0) \ {0}) = 0 /\ SumFunctionOnSet(row, (0 .. 0) \ {0}) = 0
      BY <2>1, <2>2, Zenon
    <3>. QED
      BY <2>3, <3>1, <3>2
  <2>. QED
    BY <1>2, <2>2, <2>3, <2>4
<1>5. ASSUME NEW n \in Nat, n \in U PROVE n + 1 \in U
  <2> SUFFICES ASSUME n + 1 \in Segs
               PROVE  SumFunctionOnSet(moved, 0 .. n + 1) + out[n + 1] = SumFunctionOnSet(row, 0 .. n + 1)
    OBVIOUS
  <2>1. n \in Segs /\ (0 .. n + 1) \ {n + 1} = 0 .. n /\ n + 1 # 0 /\ n + 1 - 1 = n
    BY DEF Segs
  <2>2. SumFunctionOnSet(moved, 0 .. n) + out[n] = SumFunctionOnSet(row, 0 .. n)
    BY <1>5, <2>1
  <2>3. /\ SumFunctionOnSet(moved, 0 .. n + 1) = moved[n + 1] + SumFunctionOnSet(moved, 0 .. n)
        /\ SumFunctionOnSet(row, 0 .. n + 1) = row[n + 1] + SumFunctionOnSet(row, 0 .. n)
    BY <1>1, <1>3, <2>1
  <2>4. moved[n + 1] = row[n + 1] - out[n + 1] + out[n]
    BY <1>2, <2>1
  <2>5. /\ row[n + 1] \in Nat /\ out[n + 1] \in Nat /\ out[n] \in Nat
        /\ SumFunctionOnSet(moved, 0 .. n) \in Nat /\ SumFunctionOnSet(row, 0 .. n) \in Nat
    BY <1>1, <1>3, <2>1
  <2>. QED
    BY <2>2, <2>3, <2>4, <2>5, SMTT(60)
<1>6. \A n \in Nat : n \in U
  <2> HIDE DEF U
  <2>. QED
    BY <1>4, <1>5, NatInduct
<1>7. SumFunctionOnSet(moved, Segs) = SumFunctionOnSet(row, Segs)
  <2>1. Local - 1 \in Nat /\ Local - 1 \in Segs /\ 0 .. Local - 1 = Segs
    BY DEF Segs
  <2>2. SumFunctionOnSet(moved, 0 .. Local - 1) + out[Local - 1] = SumFunctionOnSet(row, 0 .. Local - 1)
    BY <1>6, <2>1
  <2>3. SumFunctionOnSet(moved, Segs) \in Nat
    BY <1>1, <1>3, <2>1
  <2>. QED
    BY <2>1, <2>2, <2>3
<1>8. SumFunction(moved) = SumFunction(row)
  BY <1>1, <1>7, ProcsFacts, SumAll
<1>. QED
  BY <1>1, <1>8 DEF moved

LEMMA RoadInitially == RoadInit => RoadInv
<1> SUFFICES ASSUME RoadInit PROVE RoadInv
  OBVIOUS
<1> USE DEF RoadInit
<1>1. RoadTypeOK
  BY DEF RoadTypeOK, None
<1>2. Together /\ Contributions
  BY DEF Together, Contributions, Procs
<1>3. MessageCount
  BY ProcsFacts DEF MessageCount, Sends, Recvs
<1>4. NotAhead
  BY DEF NotAhead, None
<1>5. CarsConserved
  <2>1. \A r \in Procs : SumFunction(segments[r]) = 0
    <3> TAKE r \in Procs
    <3>1. segments[r] \in [Segs -> Nat] /\ \A s \in Segs : segments[r][s] = 0
      OBVIOUS
    <3>. QED
      BY <3>1, ProcsFacts, SumAll, SumZero, ZenonT(100)
  <2> DEFINE f == [r \in Procs |-> SumFunction(segments[r])]
             g == [r \in Procs |-> IF exiting[r] = None THEN 0 ELSE exiting[r]]
  <2>2. f \in [Procs -> Nat] /\ g \in [Procs -> Nat] /\ \A r \in Procs : f[r] = 0 /\ g[r] = 0
    BY <2>1
  <2> HIDE DEF f, g
  <2>3. SumFunction(f) = 0 /\ SumFunction(g) = 0
    <3>1. IsFiniteSet(Procs)
      BY ProcsFacts
    <3>2. SumFunction(f) = SumFunctionOnSet(f, Procs) /\ SumFunction(g) = SumFunctionOnSet(g, Procs)
      BY <2>2, <3>1, SumAll
    <3>3. SumFunctionOnSet(f, Procs) = 0 /\ SumFunctionOnSet(g, Procs) = 0
      BY <2>2, <3>1, SumZero
    <3>. QED
      BY <3>2, <3>3
  <2>. QED
    BY <2>3 DEF f, g, CarsConserved, OnRoad, Between
<1>. QED
  BY <1>1, <1>2, <1>3, <1>4, <1>5 DEF RoadInv

\* What a rank that goes on from one part of an iteration to another leaves as it was.
LEMMA RankGoesOn ==
  ASSUME RoadInv, NEW r \in Procs, NEW p \in {"send", "move", "enter", "count", "print", "barrier"},
         phase[r] \in {"exit", "send", "move", "enter", "count", "print"},
         phase' = [phase EXCEPT ![r] = p], it' = it,
         p = "print" => r = 0, p = "send" => r # LastRank
  PROVE  Together'
<1>1. phase \in [Procs -> {"exit", "send", "move", "enter", "count", "print", "barrier", "done"}]
      /\ it \in [Procs -> 0 .. NumIterations]
  BY DEF RoadInv, RoadTypeOK
<1>2. phase'[r] = p /\ \A q \in Procs \ {r} : phase'[q] = phase[q]
  BY <1>1
<1>. QED
  BY <1>1, <1>2 DEF RoadInv, Together

LEMMA ExitAndSendStep == ASSUME RoadInv, NEW r \in Procs, ExitAndSend(r) PROVE RoadInv'
<1> DEFINE last == Local - 1
           row == segments[r]
<1>1. PICK cars \in Leaving(row[last]) :
        /\ segments' = [segments EXCEPT ![r][Local - 1] = @ - cars]
        /\ IF r # LastRank
           THEN exiting' = [exiting EXCEPT ![r + 1] = cars] /\ UNCHANGED exited
           ELSE exited' = exited + cars /\ UNCHANGED exiting
  BY DEF ExitAndSend
<1>2. /\ phase[r] = "exit"
      /\ phase' = [phase EXCEPT ![r] = IF eager \/ r = LastRank THEN "move" ELSE "send"]
      /\ UNCHANGED <<it, local_sum, global_sum, entered>>
  BY DEF ExitAndSend, After
<1>3. RoadTypeOK /\ row \in [Segs -> Nat] /\ last \in Segs /\ row[last] \in Nat
  BY ProcsFacts DEF RoadInv, RoadTypeOK
<1>4. cars \in Nat /\ cars <= row[last]
  <2>1. cars \in 0 .. (row[last] + 1) \div 2
    BY <1>1, <1>3, HalfLeaves
  <2>2. (row[last] + 1) \div 2 <= row[last]
    BY <1>3
  <2>. QED
    BY <1>3, <2>1, <2>2
<1>5. row[last] - cars \in Nat
  BY <1>3, <1>4
<1>6. segments' = [segments EXCEPT ![r] = [row EXCEPT ![last] = row[last] - cars]]
  BY <1>1, <1>3 DEF RoadTypeOK
<1>7. /\ OnRoad \in Nat /\ OnRoad' = OnRoad - cars
      /\ segments' \in [Procs -> [Segs -> Nat]]
  <2> DEFINE new == [row EXCEPT ![last] = row[last] - cars]
  <2>1. new \in [Segs -> Nat] /\ SumFunction(new) = SumFunction(row) - row[last] + (row[last] - cars)
    BY <1>3, <1>5, SegmentChanges
  <2> HIDE DEF new
  <2>2. segments' = [segments EXCEPT ![r] = new]
    BY <1>6 DEF new
  <2>3. /\ OnRoad \in Nat /\ SumFunction(row) \in Nat /\ OnRoad' = OnRoad - SumFunction(row) + SumFunction(new)
        /\ segments' \in [Procs -> [Segs -> Nat]]
    BY <1>3, <2>1, <2>2, RowChanges
  <2>. QED
    BY <1>3, <1>4, <2>1, <2>3
<1>8. r # LastRank => r + 1 \in Procs /\ r + 1 # 0 /\ r + 1 - 1 = r /\ exiting[r + 1] = None /\ Recvs(r + 1) = it[r]
  <2> SUFFICES ASSUME r # LastRank
               PROVE  r + 1 \in Procs /\ r + 1 # 0 /\ r + 1 - 1 = r /\ exiting[r + 1] = None /\ Recvs(r + 1) = it[r]
    OBVIOUS
  <2>1. r + 1 \in Procs /\ r + 1 # 0 /\ r + 1 - 1 = r /\ r \in Nat
    BY ProcsFacts
  <2>2. Sends(r) = it[r] /\ it[r] \in Nat /\ it[r + 1] \in Nat
    BY <1>2, <1>3, <2>1 DEF Sends, RoadTypeOK
  <2>3. Sends(r) \in {Recvs(r + 1), Recvs(r + 1) + 1} /\ (exiting[r + 1] # None <=> Sends(r) = Recvs(r + 1) + 1)
    BY <2>1 DEF RoadInv, MessageCount
  <2>4. Recvs(r + 1) >= it[r + 1] /\ Recvs(r + 1) <= it[r + 1] + 1 /\ Recvs(r + 1) \in Nat
        /\ (phase[r + 1] = "barrier" => Recvs(r + 1) = it[r + 1] + 1)
    BY <2>2 DEF Recvs
  <2>5. it[r] > it[r + 1] => it[r] = it[r + 1] + 1 /\ phase[r + 1] = "barrier"
    BY <2>1 DEF RoadInv, Together
  <2>6. Recvs(r + 1) = it[r]
    BY <2>2, <2>3, <2>4, <2>5
  <2>. QED
    BY <2>1, <2>2, <2>3, <2>4, <2>6
<1>9. Together'
  <2>1. (IF eager \/ r = LastRank THEN "move" ELSE "send") \in {"move", "send"}
    OBVIOUS
  <2>. QED
    BY <1>2, RankGoesOn
<1>10. /\ exiting \in [Procs -> Nat \cup {None}] /\ exiting' \in [Procs -> Nat \cup {None}]
       /\ exited' \in Nat /\ phase \in [Procs -> {"exit", "send", "move", "enter", "count", "print", "barrier", "done"}]
       /\ it \in [Procs -> 0 .. NumIterations] /\ entered \in Nat /\ exited \in Nat
  BY <1>1, <1>3, <1>4 DEF RoadTypeOK
<1>11. RoadTypeOK'
  <2>1. phase' \in [Procs -> {"exit", "send", "move", "enter", "count", "print", "barrier", "done"}]
    BY <1>2, <1>10
  <2>. QED
    BY <1>2, <1>3, <1>7, <1>10, <2>1 DEF RoadTypeOK
<1>12. /\ phase'[r] \in {"move", "send"} /\ \A q \in Procs \ {r} : phase'[q] = phase[q]
       /\ Sends(r)' = it[r] + 1 /\ Sends(r) = it[r] /\ \A q \in Procs \ {r} : Sends(q)' = Sends(q)
       /\ \A q \in Procs : Recvs(q)' = Recvs(q)
  BY <1>2, <1>10 DEF Sends, Recvs
<1>13. MessageCount'
  <2>1. CASE r = LastRank
    <3>1. \A q \in Procs : q # 0 => q - 1 \in Procs /\ q - 1 # r
      BY <2>1, ProcsFacts
    <3>. QED
      BY <1>1, <1>12, <2>1, <3>1 DEF RoadInv, MessageCount
  <2>2. CASE r # LastRank
    <3>1. exiting'[r + 1] = cars /\ \A q \in Procs \ {r + 1} : exiting'[q] = exiting[q]
      BY <1>1, <1>8, <1>10, <2>2
    <3>2. \A q \in Procs : q # 0 /\ q # r + 1 => q - 1 \in Procs /\ q - 1 # r
      BY ProcsFacts
    <3>3. cars # None /\ 0 \in Procs /\ it[r] \in Nat
      BY <1>4, <1>10, ProcsFacts DEF None
    <3>4. exiting'[0] = None
      BY <1>8, <2>2, <3>1, <3>3 DEF RoadInv, MessageCount
    <3>5. ASSUME NEW q \in Procs \ {0}
          PROVE  /\ Sends(q - 1)' \in {Recvs(q)', Recvs(q)' + 1}
                 /\ exiting'[q] # None <=> Sends(q - 1)' = Recvs(q)' + 1
      <4>1. CASE q = r + 1
        BY <1>8, <1>12, <2>2, <3>1, <3>3, <4>1
      <4>2. CASE q # r + 1
        <5>1. Sends(q - 1)' = Sends(q - 1) /\ Recvs(q)' = Recvs(q) /\ exiting'[q] = exiting[q]
          BY <1>12, <3>1, <3>2, <4>2
        <5>. QED
          BY <5>1 DEF RoadInv, MessageCount
      <4>. QED
        BY <4>1, <4>2
    <3>. QED
      BY <3>4, <3>5 DEF MessageCount
  <2>. QED
    BY <2>1, <2>2
<1>14. Contributions'
  <2>1. \A q \in Procs : local_sum[q] # None => q # r
    BY <1>2 DEF RoadInv, Contributions
  <2>2. \A q \in Procs \ {r} : segments'[q] = segments[q] /\ phase'[q] = phase[q]
    BY <1>3, <1>6, <1>12 DEF RoadTypeOK
  <2>3. phase'[0] # "barrier" \/ phase'[0] = phase[0]
    BY <1>12, ProcsFacts
  <2>. QED
    BY <1>2, <2>1, <2>2, <2>3 DEF RoadInv, Contributions
<1>15. NotAhead'
  <2>1. \A q \in Procs : Reach(q)' = Reach(q)
    BY <1>2, <1>12 DEF Reach
  <2>2. \A q \in Procs, s \in Segs : segments'[q][s] <= segments[q][s] /\ segments'[q][s] \in Nat /\ segments[q][s] \in Nat
    BY <1>3, <1>4, <1>6, <1>7 DEF RoadTypeOK
  <2>3. \A q \in Procs, s \in Segs : segments'[q][s] > 0 => q * Local + s <= Reach(q)'
    BY <2>1, <2>2 DEF RoadInv, NotAhead
  <2>4. ASSUME NEW q \in Procs, exiting'[q] > 0 PROVE q * Local <= Recvs(q)'
    <3>1. CASE r # LastRank /\ q = r + 1
      <4>1. cars > 0
        BY <1>1, <1>10, <2>4, <3>1
      <4>2. row[last] > 0
        BY <1>3, <1>4, <4>1
      <4>3. r * Local + last <= it[r] - 1
        BY <1>2, <1>3, <4>2 DEF RoadInv, NotAhead, Reach
      <4>4. r \in Nat /\ Local \in Nat /\ q * Local = r * Local + Local /\ r * Local \in Nat
        BY <3>1, ProcsFacts
      <4>. QED
        BY <1>8, <1>10, <1>12, <3>1, <4>3, <4>4
    <3>2. CASE ~ (r # LastRank /\ q = r + 1)
      <4>1. exiting'[q] = exiting[q]
        BY <1>1, <1>10, <3>2
      <4>. QED
        BY <1>12, <2>4, <4>1 DEF RoadInv, NotAhead
    <3>. QED
      BY <3>1, <3>2
  <2>. QED
    BY <2>3, <2>4 DEF NotAhead
<1>16. CarsConserved'
  <2>1. CASE r = LastRank
    <3>1. Between' = Between /\ exited' = exited + cars
      BY <1>1, <2>1 DEF Between
    <3>2. Between \in Nat
      <4>1. exiting = [exiting EXCEPT ![r] = exiting[r]] /\ exiting[r] \in Nat \cup {None}
        BY <1>10
      <4>2. exiting' = [exiting EXCEPT ![r] = exiting[r]]
        BY <1>1, <2>1, <4>1
      <4>. QED
        BY <1>3, <4>1, <4>2, MessageChanges
    <3>. QED
      BY <1>2, <1>4, <1>7, <1>10, <3>1, <3>2 DEF RoadInv, CarsConserved
  <2>2. CASE r # LastRank
    <3>1. Between \in Nat /\ Between' = Between - Val(exiting[r + 1]) + Val(cars) /\ exited' = exited
      BY <1>1, <1>3, <1>4, <1>8, <2>2, MessageChanges
    <3>2. Val(exiting[r + 1]) = 0 /\ Val(cars) = cars
      BY <1>4, <1>8, <2>2 DEF Val, None
    <3>. QED
      BY <1>2, <1>4, <1>7, <1>10, <3>1, <3>2 DEF RoadInv, CarsConserved
  <2>. QED
    BY <2>1, <2>2
<1>. QED
  BY <1>9, <1>11, <1>13, <1>14, <1>15, <1>16 DEF RoadInv

LEMMA RoadTypes ==
  ASSUME RoadInv
  PROVE  /\ phase \in [Procs -> {"exit", "send", "move", "enter", "count", "print", "barrier", "done"}]
         /\ it \in [Procs -> 0 .. NumIterations]
         /\ segments \in [Procs -> [Segs -> Nat]]
         /\ exiting \in [Procs -> Nat \cup {None}]
         /\ local_sum \in [Procs -> Nat \cup {None}]
         /\ global_sum \in Nat /\ entered \in Nat /\ exited \in Nat
  BY DEF RoadInv, RoadTypeOK

\* A rank goes on without a message or a change to its cars that matters here.
LEMMA RoadMessagesKept ==
  ASSUME RoadInv, NEW r \in Procs, exiting' = exiting,
         \A q \in Procs : Sends(q)' = Sends(q) /\ Recvs(q)' = Recvs(q)
  PROVE  MessageCount' /\ \A q \in Procs : exiting'[q] > 0 => q * Local <= Recvs(q)'
<1>1. \A q \in Procs \ {0} : q - 1 \in Procs
  BY ProcsFacts
<1>2. MessageCount'
  BY <1>1 DEF RoadInv, MessageCount
<1>3. \A q \in Procs : exiting'[q] > 0 => q * Local <= Recvs(q)'
  BY DEF RoadInv, NotAhead
<1>. QED
  BY <1>2, <1>3

LEMMA SendReturnsStep == ASSUME RoadInv, NEW r \in Procs, SendReturns(r) PROVE RoadInv'
<1>1. /\ phase[r] = "send" /\ phase' = [phase EXCEPT ![r] = "move"]
      /\ UNCHANGED <<it, segments, exiting, local_sum, global_sum, entered, exited>>
  BY DEF SendReturns, After
<1>2. Together'
  BY <1>1, RankGoesOn
<1>3. phase'[r] = "move" /\ \A q \in Procs \ {r} : phase'[q] = phase[q]
  BY <1>1, RoadTypes
<1>4. \A q \in Procs : Sends(q)' = Sends(q) /\ Recvs(q)' = Recvs(q) /\ Reach(q)' = Reach(q)
  BY <1>1, <1>3 DEF Sends, Recvs, Reach
<1>5. MessageCount' /\ NotAhead'
  BY <1>1, <1>4, RoadMessagesKept DEF RoadInv, NotAhead
<1>6. Contributions'
  BY <1>1, <1>3, ProcsFacts DEF RoadInv, Contributions
<1>7. RoadTypeOK' /\ CarsConserved'
  BY <1>1, RoadTypes DEF RoadInv, RoadTypeOK, CarsConserved, OnRoad, Between
<1>. QED
  BY <1>2, <1>5, <1>6, <1>7 DEF RoadInv

LEMMA MoveStep == ASSUME RoadInv, NEW r \in Procs, Move(r) PROVE RoadInv'
<1> DEFINE row == segments[r]
<1>1. PICK out \in [Segs -> UNION {Leaving(segments[r][s]) : s \in Segs}] :
        /\ out[Local - 1] = 0
        /\ \A s \in Segs : out[s] \in Leaving(segments[r][s])
        /\ segments' = [segments EXCEPT ![r] =
             [s \in Segs |-> @[s] - out[s] + IF s = 0 THEN 0 ELSE out[s - 1]]]
  BY DEF Move
<1>2. /\ phase[r] = "move" /\ phase' = [phase EXCEPT ![r] = "enter"]
      /\ UNCHANGED <<it, exiting, local_sum, global_sum, entered, exited>>
  BY DEF Move, After
<1> DEFINE moved == [s \in Segs |-> row[s] - out[s] + IF s = 0 THEN 0 ELSE out[s - 1]]
<1>3. RoadTypeOK /\ row \in [Segs -> Nat]
  BY RoadTypes DEF RoadInv
<1>4. \A s \in Segs : out[s] \in Nat /\ out[s] <= row[s]
  <2> TAKE s \in Segs
  <2>1. row[s] \in Nat /\ out[s] \in 0 .. (row[s] + 1) \div 2
    BY <1>1, <1>3, HalfLeaves
  <2>2. (row[s] + 1) \div 2 <= row[s]
    BY <2>1
  <2>. QED
    BY <2>1, <2>2
<1>5. out \in [Segs -> Nat]
  BY <1>1, <1>4
<1>6. moved \in [Segs -> Nat] /\ SumFunction(moved) = SumFunction(row)
  BY <1>1, <1>3, <1>4, <1>5, MovesKeepSum
<1>7. segments' = [segments EXCEPT ![r] = moved]
  BY <1>1, RoadTypes
<1>8. OnRoad' = OnRoad /\ segments' \in [Procs -> [Segs -> Nat]]
  <2> HIDE DEF moved
  <2>1. /\ OnRoad \in Nat /\ SumFunction(row) \in Nat /\ OnRoad' = OnRoad - SumFunction(row) + SumFunction(moved)
        /\ segments' \in [Procs -> [Segs -> Nat]]
    BY <1>3, <1>6, <1>7, RowChanges
  <2>. QED
    BY <1>6, <2>1
<1>9. phase'[r] = "enter" /\ \A q \in Procs \ {r} : phase'[q] = phase[q] /\ segments'[q] = segments[q]
  BY <1>2, <1>7, RoadTypes
<1>10. Together'
  BY <1>2, RankGoesOn
<1>11. \A q \in Procs : Sends(q)' = Sends(q) /\ Recvs(q)' = Recvs(q)
  BY <1>2, <1>9 DEF Sends, Recvs
<1>12. MessageCount' /\ \A q \in Procs : exiting'[q] > 0 => q * Local <= Recvs(q)'
  BY <1>2, <1>11, RoadMessagesKept
<1>13. NotAhead'
  <2>1. ASSUME NEW q \in Procs, NEW s \in Segs, segments'[q][s] > 0
        PROVE  q * Local + s <= Reach(q)'
    <3>1. CASE q # r
      BY <1>2, <1>9, <2>1, <3>1 DEF RoadInv, NotAhead, Reach
    <3>2. CASE q = r
      <4>1. Reach(r) = it[r] - 1 /\ Reach(r)' = it[r] /\ it[r] \in Int /\ r * Local \in Nat /\ s \in Nat
        BY <1>2, <1>9, RoadTypes, ProcsFacts DEF Reach
      <4>2. segments'[r][s] = moved[s]
        BY <1>3, <1>7, RoadTypes
      <4>3. row[s] > 0 \/ (s # 0 /\ out[s - 1] > 0)
        <5>1. row[s] \in Nat /\ out[s] \in Nat
          BY <1>3, <1>4
        <5>2. CASE s = 0
          <6>1. moved[s] = row[s] - out[s] + 0
            BY <5>2
          <6>. QED
            BY <2>1, <3>2, <4>2, <5>1, <6>1
        <5>3. CASE s # 0
          <6>1. s - 1 \in Segs
            BY <5>3 DEF Segs
          <6>2. out[s - 1] \in Nat /\ moved[s] = row[s] - out[s] + out[s - 1]
            BY <1>4, <5>3, <6>1
          <6>. QED
            BY <2>1, <3>2, <4>2, <5>1, <5>3, <6>2
        <5>. QED
          BY <5>2, <5>3
      <4>4. CASE row[s] > 0
        BY <3>2, <4>1, <4>4 DEF RoadInv, NotAhead
      <4>5. CASE s # 0 /\ out[s - 1] > 0
        <5>1. s - 1 \in Segs
          BY <4>5 DEF Segs
        <5>2. row[s - 1] > 0
          BY <1>3, <1>4, <4>5, <5>1
        <5>3. r * Local + (s - 1) <= it[r] - 1
          BY <4>1, <5>1, <5>2 DEF RoadInv, NotAhead
        <5>. QED
          BY <3>2, <4>1, <5>3
      <4>. QED
        BY <4>3, <4>4, <4>5
    <3>. QED
      BY <3>1, <3>2
  <2>. QED
    BY <1>12, <2>1 DEF NotAhead
<1>14. Contributions'
  <2>1. \A q \in Procs : local_sum[q] # None => q # r
    BY <1>2 DEF RoadInv, Contributions
  <2>. QED
    BY <1>2, <1>9, <2>1, ProcsFacts DEF RoadInv, Contributions
<1>15. RoadTypeOK' /\ CarsConserved'
  <2>1. phase' \in [Procs -> {"exit", "send", "move", "enter", "count", "print", "barrier", "done"}]
    BY <1>2, RoadTypes
  <2>. QED
    BY <1>2, <1>8, <2>1, RoadTypes DEF RoadInv, RoadTypeOK, CarsConserved, Between
<1>. QED
  BY <1>10, <1>12, <1>13, <1>14, <1>15 DEF RoadInv

LEMMA EnterStep == ASSUME RoadInv, NEW r \in Procs, Enter(r) PROVE RoadInv'
<1> DEFINE row == segments[r]
<1>1. /\ phase[r] = "enter" /\ phase' = [phase EXCEPT ![r] = "count"]
      /\ UNCHANGED <<it, local_sum, global_sum, exited>>
  BY DEF Enter, After
<1>2. PICK cars \in Nat :
        /\ segments' = [segments EXCEPT ![r] = [row EXCEPT ![0] = row[0] + cars]]
        /\ \/ r = 0 /\ entered' = entered + cars /\ exiting' = exiting
           \/ /\ r # 0 /\ exiting[r] = cars
              /\ exiting' = [exiting EXCEPT ![r] = None] /\ entered' = entered
  <2>1. CASE Creates(r)
    <3>1. PICK cars \in 0 .. MaxIn : segments' = [segments EXCEPT ![r][0] = @ + cars] /\ entered' = entered + cars /\ exiting' = exiting
      BY <2>1 DEF Enter
    <3>2. r = 0 /\ cars \in Nat
      BY <2>1, <3>1 DEF Creates
    <3>3. segments' = [segments EXCEPT ![r] = [row EXCEPT ![0] = row[0] + cars]]
      BY <3>1, RoadTypes
    <3>. QED
      BY <3>1, <3>2, <3>3
  <2>2. CASE ~ Creates(r)
    <3>1. exiting[r] \in Nat
      BY <2>2, RoadTypes DEF Enter, HasReceived
    <3>2. segments' = [segments EXCEPT ![r][0] = row[0] + exiting[r]]
      BY <2>2 DEF Enter, WithReceived
    <3>. QED
      BY <2>2, <3>1, <3>2, RoadTypes DEF Enter, Creates
  <2>. QED
    BY <2>1, <2>2
<1>3. RoadTypeOK /\ row \in [Segs -> Nat] /\ 0 \in Segs /\ row[0] \in Nat /\ row[0] + cars \in Nat
  BY RoadTypes, ProcsFacts DEF RoadInv
<1>4. /\ OnRoad \in Nat /\ OnRoad' = OnRoad + cars
      /\ segments' \in [Procs -> [Segs -> Nat]]
  <2> DEFINE new == [row EXCEPT ![0] = row[0] + cars]
  <2>1. new \in [Segs -> Nat] /\ SumFunction(new) = SumFunction(row) - row[0] + (row[0] + cars)
    BY <1>3, SegmentChanges
  <2> HIDE DEF new
  <2>2. segments' = [segments EXCEPT ![r] = new]
    BY <1>2 DEF new
  <2>3. /\ OnRoad \in Nat /\ SumFunction(row) \in Nat /\ OnRoad' = OnRoad - SumFunction(row) + SumFunction(new)
        /\ segments' \in [Procs -> [Segs -> Nat]]
    BY <1>3, <2>1, <2>2, RowChanges
  <2>. QED
    BY <1>3, <2>1, <2>3
<1>5. /\ Between \in Nat /\ Between' = Between - IF r = 0 THEN 0 ELSE cars
      /\ exiting' \in [Procs -> Nat \cup {None}]
  <2>1. CASE r = 0
    <3>1. exiting' = [exiting EXCEPT ![0] = None] /\ exiting[0] = None /\ 0 \in Procs
      BY <1>2, <2>1, RoadTypes, ProcsFacts DEF RoadInv, MessageCount
    <3>2. /\ Between \in Nat /\ Between' = Between - Val(exiting[0]) + Val(None)
          /\ exiting' \in [Procs -> Nat \cup {None}]
      BY <1>3, <3>1, MessageChanges
    <3>. QED
      BY <2>1, <3>1, <3>2 DEF Val
  <2>2. CASE r # 0
    <3>1. exiting' = [exiting EXCEPT ![r] = None] /\ exiting[r] = cars
      BY <1>2, <2>2
    <3>2. /\ Between \in Nat /\ Between' = Between - Val(exiting[r]) + Val(None)
          /\ exiting' \in [Procs -> Nat \cup {None}]
      BY <1>3, <3>1, MessageChanges
    <3>. QED
      BY <2>2, <3>1, <3>2 DEF Val, None
  <2>. QED
    BY <2>1, <2>2
<1>6. phase'[r] = "count" /\ \A q \in Procs \ {r} : phase'[q] = phase[q] /\ segments'[q] = segments[q]
  BY <1>1, <1>2, RoadTypes
<1>7. Together'
  BY <1>1, RankGoesOn
<1>8. /\ Recvs(r) = it[r] /\ Recvs(r)' = it[r] + 1 /\ it[r] \in Nat
      /\ \A q \in Procs : Sends(q)' = Sends(q)
      /\ \A q \in Procs \ {r} : Recvs(q)' = Recvs(q)
  BY <1>1, <1>6, RoadTypes DEF Sends, Recvs
<1>9. exiting'[r] = None /\ \A q \in Procs \ {r} : exiting'[q] = exiting[q]
  BY <1>2, RoadTypes DEF RoadInv, MessageCount
<1>10. MessageCount'
  <2>1. exiting'[0] = None
    BY <1>9, ProcsFacts DEF RoadInv, MessageCount
  <2>2. ASSUME NEW q \in Procs \ {0}
        PROVE  /\ Sends(q - 1)' \in {Recvs(q)', Recvs(q)' + 1}
               /\ exiting'[q] # None <=> Sends(q - 1)' = Recvs(q)' + 1
    <3>0. q - 1 \in Procs
      BY ProcsFacts
    <3>1. CASE q = r
      <4>1. exiting[r] # None
        BY <1>2, <3>1 DEF None
      <4>2. Sends(r - 1) = it[r] + 1
        BY <1>8, <3>1, <4>1 DEF RoadInv, MessageCount
      <4>. QED
        BY <1>8, <1>9, <3>0, <3>1, <4>2
    <3>2. CASE q # r
      BY <1>8, <1>9, <3>0, <3>2 DEF RoadInv, MessageCount
    <3>. QED
      BY <3>1, <3>2
  <2>. QED
    BY <2>1, <2>2 DEF MessageCount
<1>11. NotAhead'
  <2>1. ASSUME NEW q \in Procs, NEW s \in Segs, segments'[q][s] > 0
        PROVE  q * Local + s <= Reach(q)'
    <3>1. CASE q # r
      BY <1>1, <1>6, <2>1, <3>1 DEF RoadInv, NotAhead, Reach
    <3>2. CASE q = r
      <4>1. Reach(r) = it[r] /\ Reach(r)' = it[r]
        BY <1>1, <1>6 DEF Reach
      <4>2. segments'[r][s] = IF s = 0 THEN row[0] + cars ELSE row[s]
        BY <1>2, <1>3, RoadTypes
      <4>3. CASE row[s] > 0
        BY <3>2, <4>1, <4>3 DEF RoadInv, NotAhead
      <4>4. CASE ~ (row[s] > 0)
        <5>1. s = 0 /\ cars > 0
          BY <1>3, <2>1, <3>2, <4>2, <4>4
        <5>2. CASE r = 0
          BY <1>8, <3>2, <4>1, <5>1, <5>2
        <5>3. CASE r # 0
          <6>1. exiting[r] > 0
            BY <1>2, <5>1, <5>3
          <6>2. r * Local <= it[r] /\ r * Local \in Nat
            BY <1>8, <6>1, ProcsFacts DEF RoadInv, NotAhead
          <6>. QED
            BY <3>2, <4>1, <5>1, <6>2
        <5>. QED
          BY <5>2, <5>3
      <4>. QED
        BY <4>3, <4>4
    <3>. QED
      BY <3>1, <3>2
  <2>2. \A q \in Procs : exiting'[q] > 0 => q * Local <= Recvs(q)'
    BY <1>8, <1>9 DEF RoadInv, NotAhead, None
  <2>. QED
    BY <2>1, <2>2 DEF NotAhead
<1>12. Contributions'
  <2>1. \A q \in Procs : local_sum[q] # None => q # r
    BY <1>1 DEF RoadInv, Contributions
  <2>. QED
    BY <1>1, <1>6, <2>1, ProcsFacts DEF RoadInv, Contributions
<1>13. RoadTypeOK'
  <2>1. phase' \in [Procs -> {"exit", "send", "move", "enter", "count", "print", "barrier", "done"}]
    BY <1>1, RoadTypes
  <2>2. entered' \in Nat
    BY <1>2, RoadTypes
  <2>. QED
    BY <1>1, <1>4, <1>5, <2>1, <2>2, RoadTypes DEF RoadTypeOK
<1>14. CarsConserved'
  <2>1. OnRoad + Between + exited = entered /\ exited' = exited /\ exited \in Nat /\ entered \in Nat
    BY <1>1, RoadTypes DEF RoadInv, CarsConserved
  <2>2. entered' = entered + IF r = 0 THEN cars ELSE 0
    BY <1>2, <2>1
  <2>. QED
    BY <1>4, <1>5, <2>1, <2>2 DEF CarsConserved
<1>. QED
  BY <1>7, <1>10, <1>11, <1>12, <1>13, <1>14 DEF RoadInv

\* A rank goes from one part of an iteration after the receive to another.
LEMMA StepAfterReceive ==
  ASSUME RoadInv, NEW r \in Procs, NEW p \in {"print", "barrier"}, phase[r] \in {"count", "print"},
         phase' = [phase EXCEPT ![r] = p], p = "print" => r = 0,
         UNCHANGED <<it, segments, exiting, entered, exited>>
  PROVE  Together' /\ MessageCount' /\ NotAhead' /\ CarsConserved'
<1>1. Together'
  BY RankGoesOn
<1>2. phase'[r] = p /\ \A q \in Procs \ {r} : phase'[q] = phase[q]
  BY RoadTypes
<1>3. \A q \in Procs : Sends(q)' = Sends(q) /\ Recvs(q)' = Recvs(q) /\ Reach(q)' = Reach(q)
  BY <1>2 DEF Sends, Recvs, Reach
<1>4. MessageCount' /\ NotAhead'
  BY <1>3, RoadMessagesKept DEF RoadInv, NotAhead
<1>. QED
  BY <1>1, <1>4 DEF RoadInv, CarsConserved, OnRoad, Between

LEMMA SkipCountStep == ASSUME RoadInv, NEW r \in Procs, SkipCount(r) PROVE RoadInv'
<1>1. /\ phase[r] = "count" /\ it[r] % CountEvery # 0
      /\ phase' = [phase EXCEPT ![r] = "barrier"]
      /\ UNCHANGED <<it, segments, exiting, local_sum, global_sum, entered, exited>>
  BY DEF SkipCount
<1>2. Together' /\ MessageCount' /\ NotAhead' /\ CarsConserved'
  BY <1>1, StepAfterReceive
<1>3. phase'[r] = "barrier" /\ \A q \in Procs \ {r} : phase'[q] = phase[q]
  BY <1>1, RoadTypes
<1>4. Contributions'
  <2>0. \A q \in Procs : phase'[0] = "barrier" /\ it[0] % CountEvery = 0 =>
                         it[q] > it[0] \/ (it[q] = it[0] /\ phase'[q] = "barrier")
    BY <1>1, <1>3, ProcsFacts DEF RoadInv, Contributions
  <2> SUFFICES ASSUME NEW q \in Procs, local_sum[q] # None
               PROVE  /\ phase'[q] \in {"print", "barrier"} /\ it[q] % CountEvery = 0
                      /\ local_sum[q] = SumFunction(segments[q])
                      /\ (it[0] = it[q] /\ phase'[0] # "barrier") \/ it[0] < it[q]
    BY <1>1, <2>0 DEF Contributions
  <2>1. /\ phase[q] \in {"print", "barrier"} /\ it[q] % CountEvery = 0
        /\ local_sum[q] = SumFunction(segments[q])
        /\ (it[0] = it[q] /\ phase[0] # "barrier") \/ it[0] < it[q]
    BY DEF RoadInv, Contributions
  <2>2. phase'[q] = phase[q]
    BY <1>1, <1>3, <2>1
  <2>3. it[0] = it[q] => r # 0
    BY <1>1, <2>1
  <2>. QED
    BY <1>3, <2>1, <2>2, <2>3, ProcsFacts
<1>5. RoadTypeOK'
  BY <1>1, RoadTypes DEF RoadTypeOK
<1>. QED
  BY <1>2, <1>4, <1>5 DEF RoadInv

LEMMA ContributeStep == ASSUME RoadInv, NEW r \in Procs, Contribute(r) PROVE RoadInv'
<1>1. /\ phase[r] = "count" /\ it[r] % CountEvery = 0
      /\ local_sum' = [local_sum EXCEPT ![r] = SumFunction(segments[r])]
      /\ phase' = [phase EXCEPT ![r] = IF r = 0 THEN "print" ELSE "barrier"]
      /\ UNCHANGED <<it, segments, exiting, global_sum, entered, exited>>
  BY DEF Contribute
<1>2. Together' /\ MessageCount' /\ NotAhead' /\ CarsConserved'
  BY <1>1, StepAfterReceive
<1>3. /\ phase'[r] = (IF r = 0 THEN "print" ELSE "barrier")
      /\ \A q \in Procs \ {r} : phase'[q] = phase[q] /\ local_sum'[q] = local_sum[q]
      /\ local_sum'[r] = SumFunction(segments[r])
  BY <1>1, RoadTypes
<1>4. SumFunction(segments[r]) \in Nat
  <2>1. segments[r] \in [Segs -> Nat]
    BY RoadTypes
  <2>. QED
    BY <2>1, ProcsFacts, SumAll
<1>5. Contributions'
  <2>0. \A q \in Procs : phase'[0] = "barrier" /\ it[0] % CountEvery = 0 =>
                         it[q] > it[0] \/ (it[q] = it[0] /\ phase'[q] = "barrier")
    BY <1>1, <1>3, ProcsFacts DEF RoadInv, Contributions
  <2> SUFFICES ASSUME NEW q \in Procs, local_sum'[q] # None
               PROVE  /\ phase'[q] \in {"print", "barrier"} /\ it[q] % CountEvery = 0
                      /\ local_sum'[q] = SumFunction(segments[q])
                      /\ (it[0] = it[q] /\ phase'[0] # "barrier") \/ it[0] < it[q]
    BY <1>1, <2>0 DEF Contributions
  <2>1. CASE q = r
    <3>1. it[0] \in Nat /\ it[r] \in Nat /\ 0 \in Procs
      BY RoadTypes, ProcsFacts
    <3>2. ~ (it[0] > it[r])
      BY <1>1, <3>1 DEF RoadInv, Together
    <3>3. it[0] = it[r] => phase'[0] # "barrier"
      <4>1. CASE r = 0
        BY <1>3, <4>1
      <4>2. CASE r # 0
        <5>1. ASSUME it[0] = it[r], phase[0] = "barrier" PROVE FALSE
          <6>1. phase[r] = "barrier"
            BY <1>1, <3>1, <5>1 DEF RoadInv, Contributions
          <6>. QED
            BY <1>1, <6>1
        <5>. QED
          BY <1>3, <3>1, <4>2, <5>1
      <4>. QED
        BY <4>1, <4>2
    <3>. QED
      BY <1>1, <1>3, <2>1, <3>1, <3>2, <3>3
  <2>2. CASE q # r
    <3>1. /\ phase[q] \in {"print", "barrier"} /\ it[q] % CountEvery = 0
          /\ local_sum[q] = SumFunction(segments[q])
          /\ (it[0] = it[q] /\ phase[0] # "barrier") \/ it[0] < it[q]
      BY <1>3, <2>2 DEF RoadInv, Contributions
    <3>. QED
      BY <1>3, <2>2, <3>1, ProcsFacts
  <2>. QED
    BY <2>1, <2>2
<1>6. RoadTypeOK'
  BY <1>1, <1>4, RoadTypes DEF RoadTypeOK
<1>. QED
  BY <1>2, <1>5, <1>6 DEF RoadInv

\* When the sum is printed, every rank is at the barrier of the same iteration, and no message
\* is under way.
LEMMA AllCounted ==
  ASSUME RoadInv, PrintSum
  PROVE  /\ \A r \in Procs : /\ local_sum[r] = SumFunction(segments[r]) /\ local_sum[r] \in Nat
                             /\ it[r] = it[0] /\ exiting[r] = None /\ it[r] % CountEvery = 0
                             /\ phase[r] = IF r = 0 THEN "print" ELSE "barrier"
         /\ global_sum' = entered - exited
<1>1. phase[0] = "print" /\ (\A r \in Procs : local_sum[r] # None) /\ global_sum' = SumFunction(local_sum)
  BY DEF PrintSum
<1>2. 0 \in Procs
  BY ProcsFacts
<1>3. ASSUME NEW r \in Procs
      PROVE  /\ local_sum[r] = SumFunction(segments[r]) /\ local_sum[r] \in Nat
             /\ it[r] = it[0] /\ it[r] % CountEvery = 0
             /\ phase[r] = IF r = 0 THEN "print" ELSE "barrier"
  <2>1. /\ phase[r] \in {"print", "barrier"} /\ it[r] % CountEvery = 0
        /\ local_sum[r] = SumFunction(segments[r])
        /\ it[0] = it[r] \/ it[0] < it[r]
    BY <1>1 DEF RoadInv, Contributions
  <2>2. ~ (it[r] > it[0])
    BY <1>1, <1>2 DEF RoadInv, Together
  <2>3. it[r] \in Nat /\ it[0] \in Nat /\ local_sum[r] \in Nat
    BY <1>1, <1>2, RoadTypes
  <2>4. phase[r] = "print" <=> r = 0
    BY <1>1, <2>1 DEF RoadInv, Together
  <2>. QED
    BY <2>1, <2>2, <2>3, <2>4
<1>4. ASSUME NEW r \in Procs PROVE exiting[r] = None
  <2>1. CASE r = 0
    BY <2>1 DEF RoadInv, MessageCount
  <2>2. CASE r # 0
    <3>1. r - 1 \in Procs /\ it[0] \in Nat
      BY <1>2, <2>2, ProcsFacts, RoadTypes
    <3>2. Recvs(r) = it[0] + 1 /\ Sends(r - 1) = it[0] + 1
      BY <1>3, <3>1 DEF Sends, Recvs
    <3>. QED
      BY <2>2, <3>1, <3>2 DEF RoadInv, MessageCount
  <2>. QED
    BY <2>1, <2>2
<1>5. global_sum' = OnRoad
  <2> DEFINE f == [r \in Procs |-> SumFunction(segments[r])]
  <2>1. local_sum \in [Procs -> Nat \cup {None}] /\ DOMAIN local_sum = Procs
    BY RoadTypes
  <2>2. local_sum = f
    BY <1>3, <2>1
  <2>. QED
    BY <1>1, <2>2 DEF OnRoad
<1>6. Between = 0
  <2> DEFINE g == [r \in Procs |-> IF exiting[r] = None THEN 0 ELSE exiting[r]]
  <2>1. g \in [Procs -> Nat] /\ \A r \in Procs : g[r] = 0
    BY <1>4
  <2>2. Between = SumFunction(g)
    BY DEF Between
  <2> HIDE DEF g
  <2>3. SumFunction(g) = SumFunctionOnSet(g, Procs) /\ SumFunctionOnSet(g, Procs) = 0
    BY <2>1, ProcsFacts, SumAll, SumZero
  <2>. QED
    BY <2>2, <2>3
<1>7. OnRoad \in Nat
  <2>1. segments = [segments EXCEPT ![0] = segments[0]] /\ segments[0] \in [Segs -> Nat]
    BY <1>2, RoadTypes
  <2> DEFINE f == [r \in Procs |-> SumFunction(segments[r])]
  <2>2. f \in [Procs -> Nat]
    BY <1>3
  <2>3. OnRoad = SumFunction(f)
    BY DEF OnRoad
  <2> HIDE DEF f
  <2>. QED
    BY <2>2, <2>3, ProcsFacts, SumAll
<1>8. OnRoad + Between + exited = entered /\ exited \in Nat
  BY RoadTypes DEF RoadInv, CarsConserved
<1>. QED
  BY <1>3, <1>4, <1>5, <1>6, <1>7, <1>8

LEMMA PrintSumStep == ASSUME RoadInv, PrintSum PROVE RoadInv'
<1>1. /\ phase[0] = "print" /\ phase' = [phase EXCEPT ![0] = "barrier"]
      /\ local_sum' = [r \in Procs |-> None]
      /\ UNCHANGED <<it, segments, exiting, entered, exited>>
  BY DEF PrintSum
<1>2. 0 \in Procs
  BY ProcsFacts
<1>3. Together' /\ MessageCount' /\ NotAhead' /\ CarsConserved'
  BY <1>1, <1>2, StepAfterReceive
<1>4. Contributions'
  <2>1. \A r \in Procs : phase'[r] = "barrier" /\ local_sum'[r] = None /\ it'[r] = it'[0]
    BY <1>1, <1>2, AllCounted, RoadTypes
  <2>. QED
    BY <1>2, <2>1 DEF Contributions
<1>5. RoadTypeOK'
  <2>1. global_sum' \in Nat
    <3>1. local_sum \in [Procs -> Nat]
      BY AllCounted, RoadTypes
    <3>. QED
      BY <3>1, ProcsFacts, SumAll DEF PrintSum
  <2>. QED
    BY <1>1, <2>1, RoadTypes DEF RoadTypeOK
<1>. QED
  BY <1>3, <1>4, <1>5 DEF RoadInv

LEMMA LeaveBarrierStep == ASSUME RoadInv, NEW r \in Procs, LeaveBarrier(r) PROVE RoadInv'
<1>1. /\ phase[r] = "barrier"
      /\ \A q \in Procs : it[q] > it[r] \/ (it[q] = it[r] /\ phase[q] = "barrier")
      /\ it' = [it EXCEPT ![r] = @ + 1]
      /\ phase' = [phase EXCEPT ![r] = IF it[r] + 1 = NumIterations THEN "done" ELSE "exit"]
      /\ UNCHANGED <<segments, exiting, local_sum, global_sum, entered, exited>>
  BY DEF LeaveBarrier
<1>2. /\ it'[r] = it[r] + 1 /\ phase'[r] = (IF it[r] + 1 = NumIterations THEN "done" ELSE "exit")
      /\ \A q \in Procs \ {r} : it'[q] = it[q] /\ phase'[q] = phase[q]
      /\ \A q \in Procs : it[q] \in Nat /\ it[q] <= NumIterations
  BY <1>1, RoadTypes
<1>3. it[r] # NumIterations
  BY <1>1 DEF RoadInv, Together
<1>4. Together'
  <2>1. \A q \in Procs : phase'[q] = "done" <=> it'[q] = NumIterations
    BY <1>2 DEF RoadInv, Together
  <2>2. \A q \in Procs : /\ phase'[q] = "print" => q = 0
                         /\ phase'[q] = "send" => q # LastRank
    BY <1>2 DEF RoadInv, Together
  <2>3. ASSUME NEW p \in Procs, NEW q \in Procs, it'[p] > it'[q] PROVE it'[p] = it'[q] + 1 /\ phase'[q] = "barrier"
    <3>1. CASE p = r
      <4>1. q # r /\ it[q] < it[r] + 1 /\ it'[q] = it[q] /\ phase'[q] = phase[q]
        BY <1>2, <2>3, <3>1
      <4>2. it[q] = it[r] /\ phase[q] = "barrier"
        BY <1>1, <1>2, <4>1
      <4>. QED
        BY <1>2, <3>1, <4>1, <4>2
    <3>2. CASE q = r /\ p # r
      <4>1. it[p] > it[r] + 1
        BY <1>2, <2>3, <3>2
      <4>2. it[p] = it[r] + 1
        BY <1>2, <3>2, <4>1 DEF RoadInv, Together
      <4>. QED
        BY <1>2, <4>1, <4>2
    <3>3. CASE q # r /\ p # r
      BY <1>2, <2>3, <3>3 DEF RoadInv, Together
    <3>. QED
      BY <3>1, <3>2, <3>3
  <2>. QED
    BY <2>1, <2>2, <2>3 DEF Together
<1>5. \A q \in Procs : Sends(q)' = Sends(q) /\ Recvs(q)' = Recvs(q) /\ Reach(q)' = Reach(q)
  BY <1>1, <1>2 DEF Sends, Recvs, Reach
<1>6. MessageCount' /\ NotAhead'
  BY <1>1, <1>5, RoadMessagesKept DEF RoadInv, NotAhead
<1>7. Contributions'
  <2>0. 0 \in Procs
    BY ProcsFacts
  <2>1. ASSUME NEW q \in Procs, local_sum[q] # None
        PROVE  /\ phase'[q] \in {"print", "barrier"} /\ it'[q] % CountEvery = 0
               /\ local_sum[q] = SumFunction(segments[q])
               /\ (it'[0] = it'[q] /\ phase'[0] # "barrier") \/ it'[0] < it'[q]
    <3>1. /\ phase[q] \in {"print", "barrier"} /\ it[q] % CountEvery = 0
          /\ local_sum[q] = SumFunction(segments[q])
          /\ (it[0] = it[q] /\ phase[0] # "barrier") \/ it[0] < it[q]
      BY <2>1 DEF RoadInv, Contributions
    <3>2. q # r
      <4>1. it[0] > it[r] \/ (it[0] = it[r] /\ phase[0] = "barrier")
        BY <1>1, <2>0
      <4>. QED
        BY <1>2, <2>0, <3>1, <4>1
    <3>3. CASE r # 0
      BY <1>2, <2>0, <3>1, <3>2, <3>3
    <3>4. CASE r = 0
      <4>1. it[q] > it[0]
        BY <1>1, <3>1, <3>4
      <4>2. it[q] = it[0] + 1
        BY <2>0, <4>1 DEF RoadInv, Together
      <4>3. it'[0] = it'[q] /\ phase'[0] # "barrier"
        BY <1>2, <3>2, <3>4, <4>2
      <4>. QED
        BY <1>2, <3>1, <3>2, <4>3
    <3>. QED
      BY <3>3, <3>4
  <2>2. ASSUME NEW q \in Procs, phase'[0] = "barrier", it'[0] % CountEvery = 0
        PROVE  it'[q] > it'[0] \/ (it'[q] = it'[0] /\ phase'[q] = "barrier")
    <3>1. r # 0 /\ it'[0] = it[0] /\ phase'[0] = phase[0]
      BY <1>2, <2>0, <2>2
    <3>2. it[q] > it[0] \/ (it[q] = it[0] /\ phase[q] = "barrier")
      BY <2>2, <3>1 DEF RoadInv, Contributions
    <3>. QED
      BY <1>2, <2>0, <3>1, <3>2
  <2>. QED
    BY <1>1, <2>1, <2>2 DEF Contributions
<1>8. RoadTypeOK' /\ CarsConserved'
  <2>1. it' \in [Procs -> 0 .. NumIterations] /\ phase' \in [Procs -> {"exit", "send", "move", "enter", "count", "print", "barrier", "done"}]
    <3>1. it[r] + 1 \in 0 .. NumIterations
      BY <1>2, <1>3
    <3>. QED
      BY <1>1, <3>1, RoadTypes
  <2>. QED
    BY <1>1, <2>1, RoadTypes DEF RoadInv, RoadTypeOK, CarsConserved, OnRoad, Between
<1>. QED
  BY <1>4, <1>6, <1>7, <1>8 DEF RoadInv

LEMMA RoadNextStep == ASSUME RoadInv, RoadNext PROVE RoadInv'
<1>1. ASSUME NEW r \in Procs, RoadStep(r) PROVE RoadInv'
  BY <1>1, ExitAndSendStep, SendReturnsStep, MoveStep, EnterStep, SkipCountStep, ContributeStep, LeaveBarrierStep
     DEF RoadStep
<1>. QED
  BY <1>1, PrintSumStep DEF RoadNext

LEMMA RoadInvAlways == RoadInv /\ [Next]_vars => RoadInv'
<1> SUFFICES ASSUME RoadInv, [Next]_vars PROVE RoadInv'
  OBVIOUS
<1>1. CASE RoadNext
  BY <1>1, RoadNextStep
<1>2. CASE UNCHANGED roadVars
  BY <1>2 DEF RoadInv, RoadTypeOK, Together, MessageCount, Contributions, NotAhead, CarsConserved,
    roadVars, Sends, Recvs, Reach, OnRoad, Between
<1>. QED
  BY <1>1, <1>2 DEF Next, vars, Road, Chars, Filters, AntsRun, Scripts

LEMMA RoadInvImplies == RoadInv => RoadSafe
<1> SUFFICES ASSUME RoadInv PROVE RoadSafe
  OBVIOUS
<1>1. OneSegmentPerIteration
  <2> SUFFICES ASSUME NEW r \in Procs, NEW s \in Segs, segments[r][s] > 0
               PROVE  r * Local + s <= it[r]
    BY DEF OneSegmentPerIteration
  <2>1. r * Local + s <= Reach(r)
    BY DEF RoadInv, NotAhead
  <2>2. Reach(r) <= it[r] /\ it[r] \in Int /\ Reach(r) \in Int
    BY RoadTypes DEF Reach
  <2>3. r * Local + s \in Int
    BY DEF Procs, Segs
  <2> HIDE DEF Reach
  <2>. QED
    BY <2>1, <2>2, <2>3
<1>. QED
  BY <1>1 DEF RoadSafe, RoadInv

\* The inductive invariant, and the types of the road's variables with it.
THEOREM RoadInvariant == Spec => []RoadInv
<1>1. Init => RoadInv
  BY RoadInitially DEF Init
<1>. QED
  BY <1>1, RoadInvAlways, PTL DEF Spec

\* No car is lost or doubled between the ranks of linear_road.c, and none moves more than one
\* segment in an iteration, however far apart the ranks are.
THEOREM RoadIsSafe == Spec => []RoadSafe
  BY RoadInvariant, RoadInvImplies, PTL

\* What the first rank of linear_road.c prints is the number of the cars that have come and
\* not gone.
THEOREM SumIsOfOneInstant == Spec => SumIsConsistent
<1>1. RoadInv /\ [Next]_vars => [PrintSum => global_sum' = entered - exited]_roadVars
  BY AllCounted
<1>. QED
  BY <1>1, RoadInvariant, PTL DEF Spec, SumIsConsistent

(***************************************************************************)
(* Division, and lists.                                                    *)
(***************************************************************************)

LEMMA Quotient ==
  ASSUME NEW N \in Int, N > 0, NEW l \in Int
  PROVE  l % N \in 0 .. N - 1 /\ l \div N \in Int /\ l = N * (l \div N) + (l % N)
<1>1. l = N * (l \div N) + (l % N)
  BY SMT
<1>2. l % N \in 0 .. N - 1
  BY SMT
<1>3. l \div N \in Int
  BY SMT
<1>. QED
  BY <1>1, <1>2, <1>3

LEMMA Remainder ==
  ASSUME NEW N \in Int, N > 0, NEW k \in Int, NEW s \in 0 .. N - 1
  PROVE  (N * k + s) % N = s
<1> DEFINE l == N * k + s
           a == l \div N
           b == l % N
<1>1. l \in Int
  OBVIOUS
<1>2. b \in 0 .. N - 1 /\ a \in Int /\ l = N * a + b
  BY <1>1, Quotient
<1>3. N * k + s = N * a + b /\ a \in Int /\ b \in 0 .. N - 1
  BY <1>2
<1> SUFFICES b = s
  OBVIOUS
<1> HIDE DEF a, b, l
<1>4. N * (k - a) = b - s
  BY <1>3
<1>5. k = a
  <2>1. CASE k > a
    <3>1. N * (k - a) >= N
      BY <2>1, <1>3
    <3>. QED
      BY <3>1, <1>3, <1>4
  <2>2. CASE k < a
    <3>1. N * (a - k) >= N
      BY <2>2, <1>3
    <3>2. N * (a - k) = s - b
      BY <1>3
    <3>. QED
      BY <3>1, <3>2, <1>3
  <2>. QED
    BY <2>1, <2>2, <1>3
<1>. QED
  BY <1>3, <1>5

\* Between two letters of a rank there is one of every other rank, less than a round away.
LEMMA LetterBetween ==
  ASSUME NEW l \in Letters, NEW s \in Procs, LetterOwner(l) # s
  PROVE  \E m \in Int : /\ l < m /\ m < l + NumProcs /\ m % NumProcs = s
                       /\ \A k \in Letters : LetterOwner(k) = LetterOwner(l) /\ k > l => m < k
<1> DEFINE N == NumProcs
           a == l \div N
           b == l % N
           m == IF s > b THEN N * a + s ELSE N * (a + 1) + s
<1>1. N \in Int /\ N > 0 /\ l \in Int /\ s \in 0 .. N - 1
  BY ProcsAssumption, LettersAssumption DEF Procs, Letters
<1>2. b \in 0 .. N - 1 /\ a \in Int /\ l = N * a + b /\ b # s
  BY <1>1, Quotient DEF LetterOwner
<1>3. m % N = s /\ m \in Int
  <2>1. CASE s > b
    <3>1. (N * a + s) % N = s
      BY <1>1, <1>2, Remainder
    <3>. QED
      BY <2>1, <3>1, <1>1, <1>2
  <2>2. CASE ~ (s > b)
    <3>1. a + 1 \in Int
      BY <1>2
    <3>2. (N * (a + 1) + s) % N = s
      BY <3>1, <1>1, Remainder
    <3>. QED
      BY <2>2, <3>1, <3>2, <1>1
  <2>. QED
    BY <2>1, <2>2
<1>4. l < m /\ m < l + N
  <2>1. N * (a + 1) = N * a + N /\ N * a \in Int
    BY <1>1, <1>2
  <2> DEFINE c == N * a
  <2>2. c \in Int /\ l = c + b /\ m = IF s > b THEN c + s ELSE c + N + s
    BY <1>2, <2>1
  <2> HIDE DEF c, m, a, b
  <2>. QED
    BY <1>1, <1>2, <2>2
<1>5. ASSUME NEW k \in Letters, LetterOwner(k) = LetterOwner(l), k > l PROVE k >= l + N
  <2> DEFINE d == k \div N
  <2>1. d \in Int /\ k = N * d + b /\ k \in Int
    <3>1. k \in Int
      BY LettersAssumption DEF Letters
    <3>. QED
      BY <3>1, <1>1, <1>5, Quotient DEF LetterOwner
  <2> HIDE DEF d, a, b
  <2>2. N * d > N * a
    BY <1>1, <1>2, <1>5, <2>1
  <2>3. d >= a + 1
    <3> SUFFICES ASSUME d <= a PROVE FALSE
      BY <1>2, <2>1
    <3>1. N * (a - d) >= 0
      BY <1>1, <1>2, <2>1
    <3>. QED
      BY <3>1, <2>2, <1>1, <1>2, <2>1
  <2>4. N * (d - (a + 1)) >= 0
    BY <2>3, <1>1, <1>2, <2>1
  <2>. QED
    BY <2>4, <1>1, <1>2, <2>1
<1>6. \A k \in Letters : LetterOwner(k) = LetterOwner(l) /\ k > l => m < k
  <2> HIDE DEF m
  <2>. QED
    BY <1>1, <1>3, <1>4, <1>5 DEF Letters
<1> HIDE DEF m
<1>. QED
  BY <1>3, <1>4, <1>6

\* Short lists put together.
LEMMA Joined ==
  ASSUME NEW a, NEW b
  PROVE  /\ <<>> \o <<>> = <<>> /\ <<>> \o <<a>> = <<a>> /\ <<a>> \o <<>> = <<a>>
         /\ <<a>> \o <<b>> = <<a, b>> /\ <<a, b>> \o <<>> = <<a, b>>
<1>1. <<>> \o <<>> = <<>>
  OBVIOUS
<1>2. <<>> \o <<a>> = <<a>>
  OBVIOUS
<1>3. <<a>> \o <<>> = <<a>>
  OBVIOUS
<1>4. <<a>> \o <<b>> = <<a, b>>
  <2>1. <<a>> \in Seq({a, b}) /\ b \in {a, b}
    OBVIOUS
  <2>2. Append(<<a>>, b) = <<a>> \o <<b>>
    BY <2>1, AppendIsConcat
  <2>3. Append(<<a>>, b) = <<a, b>>
    <3>1. /\ Append(<<a>>, b) \in Seq({a, b}) /\ Len(Append(<<a>>, b)) = 2
          /\ Append(<<a>>, b)[1] = a /\ Append(<<a>>, b)[2] = b
      BY <2>1
    <3>2. <<a, b>> \in Seq({a, b}) /\ Len(<<a, b>>) = 2 /\ <<a, b>>[1] = a /\ <<a, b>>[2] = b
      OBVIOUS
    <3>3. \A i \in 1 .. 2 : i = 1 \/ i = 2
      OBVIOUS
    <3>. QED
      BY <3>1, <3>2, <3>3, SeqEqual
  <2>. QED
    BY <2>2, <2>3
<1>5. <<a, b>> \o <<>> = <<a, b>>
  OBVIOUS
<1>. QED
  BY <1>1, <1>2, <1>3, <1>4, <1>5

\* Where a value is in a list, among the first i.
PlacesTo(s, i, v) == {j \in 1 .. i : s[j] = v}

AgreeTo(s, t, i) == \A j \in 1 .. i : t[j] = s[j]

LEMMA PlacesFacts ==
  ASSUME NEW s, NEW i \in Nat, NEW v
  PROVE  IsFiniteSet(PlacesTo(s, i, v)) /\ Cardinality(PlacesTo(s, i, v)) \in Nat
<1>1. IsFiniteSet(1 .. i) /\ PlacesTo(s, i, v) \subseteq 1 .. i
  BY FS_Interval DEF PlacesTo
<1>2. IsFiniteSet(PlacesTo(s, i, v))
  BY <1>1, FS_Subset
<1>. QED
  BY <1>2, FS_CardinalityType

LEMMA OccurrencesAre ==
  ASSUME NEW V, NEW s \in Seq(V), NEW v
  PROVE  Occurrences(s, v) = Cardinality(PlacesTo(s, Len(s), v)) /\ Occurrences(s, v) \in Nat
<1>1. DOMAIN s = 1 .. Len(s) /\ Len(s) \in Nat
  OBVIOUS
<1>2. {i \in DOMAIN s : s[i] = v} = PlacesTo(s, Len(s), v)
  BY <1>1 DEF PlacesTo
<1>. QED
  BY <1>1, <1>2, PlacesFacts DEF Occurrences

LEMMA OnePlaceMore ==
  ASSUME NEW s, NEW t, NEW i \in Nat, AgreeTo(s, t, i), NEW v
  PROVE  Cardinality(PlacesTo(t, i + 1, v)) = Cardinality(PlacesTo(s, i, v)) + IF t[i + 1] = v THEN 1 ELSE 0
<1> DEFINE A == PlacesTo(s, i, v)
<1>1. IsFiniteSet(A) /\ Cardinality(A) \in Nat /\ i + 1 \notin A
  <2>1. i + 1 \notin 1 .. i
    OBVIOUS
  <2>2. i + 1 \notin A
    BY <2>1 DEF PlacesTo
  <2>. QED
    BY <2>2, PlacesFacts
<1>2. PlacesTo(t, i + 1, v) = IF t[i + 1] = v THEN A \cup {i + 1} ELSE A
  <2>1. 1 .. i + 1 = (1 .. i) \cup {i + 1}
    OBVIOUS
  <2>. QED
    BY <2>1 DEF PlacesTo, AgreeTo
<1> HIDE DEF A
<1>3. Cardinality(A \cup {i + 1}) = Cardinality(A) + 1
  BY <1>1, FS_AddElement
<1>. QED
  BY <1>1, <1>2, <1>3 DEF A

LEMMA OccurrencesAppend ==
  ASSUME NEW V, NEW s \in Seq(V), NEW x \in V, NEW v
  PROVE  Occurrences(Append(s, x), v) = Occurrences(s, v) + IF x = v THEN 1 ELSE 0
<1> DEFINE t == Append(s, x)
<1>1. /\ t \in Seq(V) /\ Len(t) = Len(s) + 1 /\ t[Len(s) + 1] = x /\ Len(s) \in Nat
      /\ \A j \in 1 .. Len(s) : t[j] = s[j]
  BY AppendProperties
<1> HIDE DEF t
<1>2. Cardinality(PlacesTo(t, Len(s) + 1, v)) = Cardinality(PlacesTo(s, Len(s), v)) + IF t[Len(s) + 1] = v THEN 1 ELSE 0
  <2> DEFINE n == Len(s)
  <2>1. n \in Nat /\ AgreeTo(s, t, n)
    BY <1>1 DEF AgreeTo
  <2> HIDE DEF n
  <2>2. Cardinality(PlacesTo(t, n + 1, v)) = Cardinality(PlacesTo(s, n, v)) + IF t[n + 1] = v THEN 1 ELSE 0
    BY <2>1, OnePlaceMore
  <2>. QED
    BY <2>2 DEF n
<1>3. Occurrences(t, v) = Cardinality(PlacesTo(t, Len(t), v)) /\ Occurrences(s, v) = Cardinality(PlacesTo(s, Len(s), v))
  BY <1>1, OccurrencesAre
<1>. QED
  BY <1>1, <1>2, <1>3 DEF t

LEMMA OccurrencesConcat ==
  ASSUME NEW V, NEW s \in Seq(V), NEW t \in Seq(V), NEW v
  PROVE  Occurrences(s \o t, v) = Occurrences(s, v) + Occurrences(t, v)
<1> DEFINE Holds(u) == Occurrences(s \o u, v) = Occurrences(s, v) + Occurrences(u, v)
           U == {n \in Nat : \A u \in Seq(V) : Len(u) = n => Holds(u)}
<1>1. 0 \in U
  <2> SUFFICES ASSUME NEW u \in Seq(V), Len(u) = 0 PROVE Holds(u)
    OBVIOUS
  <2>1. u = <<>> /\ s \o <<>> = s
    BY ConcatEmptySeq
  <2>2. Occurrences(u, v) = 0 /\ Occurrences(s, v) \in Nat
    <3>1. Occurrences(u, v) = Cardinality(PlacesTo(u, 0, v))
      BY OccurrencesAre
    <3>2. PlacesTo(u, 0, v) = {}
      BY DEF PlacesTo
    <3>. QED
      BY <3>1, <3>2, FS_EmptySet, OccurrencesAre
  <2>. QED
    BY <2>1, <2>2
<1>2. ASSUME NEW n \in Nat, n \in U PROVE n + 1 \in U
  <2> SUFFICES ASSUME NEW u \in Seq(V), Len(u) = n + 1 PROVE Holds(u)
    OBVIOUS
  <2>1. u # <<>>
    OBVIOUS
  <2>2. PICK w \in Seq(V), x \in V : u = Append(w, x)
    BY <2>1, SequenceEmptyOrAppend
  <2>3. Len(w) = n
    BY <2>2, AppendProperties
  <2>4. Occurrences(s \o w, v) = Occurrences(s, v) + Occurrences(w, v)
    BY <1>2, <2>3
  <2>5. s \o u = Append(s \o w, x)
    <3>1. u = w \o <<x>> /\ <<x>> \in Seq(V) /\ s \o w \in Seq(V)
      BY <2>2, AppendIsConcat
    <3>2. (s \o w) \o <<x>> = s \o (w \o <<x>>)
      BY <3>1, ConcatAssociative, SMTT(60)
    <3>3. Append(s \o w, x) = (s \o w) \o <<x>>
      BY <3>1, AppendIsConcat
    <3>. QED
      BY <3>1, <3>2, <3>3
  <2>6. Occurrences(Append(s \o w, x), v) = Occurrences(s \o w, v) + IF x = v THEN 1 ELSE 0
    <3>1. s \o w \in Seq(V)
      OBVIOUS
    <3> DEFINE y == s \o w
    <3>2. y \in Seq(V)
      BY <3>1
    <3> HIDE DEF y
    <3>3. Occurrences(Append(y, x), v) = Occurrences(y, v) + IF x = v THEN 1 ELSE 0
      BY <3>2, OccurrencesAppend
    <3>. QED
      BY <3>3 DEF y
  <2>7. Occurrences(u, v) = Occurrences(w, v) + IF x = v THEN 1 ELSE 0
    BY <2>2, OccurrencesAppend
  <2>8. Occurrences(s, v) \in Nat /\ Occurrences(w, v) \in Nat
    BY OccurrencesAre
  <2>. QED
    BY <2>4, <2>5, <2>6, <2>7, <2>8
<1> HIDE DEF U
<1>3. \A n \in Nat : n \in U
  BY <1>1, <1>2, NatInduct
<1>. QED
  BY <1>3 DEF U

\* What the loop of get_multiples does in a turn, and the function of its turns.
FindTurn(in, g, i) == IF i = 0 THEN <<>> ELSE IF IsMultiple(in[i]) THEN Append(g[i - 1], in[i]) ELSE g[i - 1]
Finds(in, g) == g = [i \in 0 .. Len(in) |-> FindTurn(in, g, i)]

LEMMA FindsExists == ASSUME NEW V, NEW in \in Seq(V) PROVE \E g : Finds(in, g)
<1> DEFINE n == Len(in)
           Good(g, k) == \A i \in 0 .. k : g[i] = FindTurn(in, g, i)
           U == {k \in Nat : \E g : Good(g, k)}
<1>1. 0 \in U
  <2>1. Good([i \in {0} |-> <<>>], 0)
    BY DEF FindTurn
  <2>. QED
    BY <2>1
<1>2. ASSUME NEW k \in Nat, k \in U PROVE k + 1 \in U
  <2>1. PICK g : Good(g, k)
    BY <1>2
  <2> DEFINE h == [i \in 0 .. k + 1 |-> IF i = k + 1 THEN FindTurn(in, g, k + 1) ELSE g[i]]
  <2>2. Good(h, k + 1)
    <3> SUFFICES ASSUME NEW i \in 0 .. k + 1 PROVE h[i] = FindTurn(in, h, i)
      OBVIOUS
    <3>1. FindTurn(in, h, i) = FindTurn(in, g, i)
      <4>1. i # 0 => h[i - 1] = g[i - 1]
        OBVIOUS
      <4>. QED
        BY <4>1 DEF FindTurn
    <3>2. h[i] = FindTurn(in, g, i)
      <4>1. CASE i = k + 1
        BY <4>1
      <4>2. CASE i # k + 1
        <5>1. i \in 0 .. k
          BY <4>2
        <5>2. h[i] = g[i] /\ g[i] = FindTurn(in, g, i)
          BY <4>2, <5>1, <2>1
        <5>. QED
          BY <5>2
      <4>. QED
        BY <4>1, <4>2
    <3>. QED
      BY <3>1, <3>2
  <2> HIDE DEF h, Good
  <2>. QED
    BY <2>2
<1> HIDE DEF U
<1>3. \A k \in Nat : k \in U
  BY <1>1, <1>2, NatInduct
<1>4. n \in Nat
  OBVIOUS
<1>5. PICK g : Good(g, n)
  BY <1>3, <1>4 DEF U
<1> DEFINE f == [i \in 0 .. n |-> g[i]]
<1>6. ASSUME NEW i \in 0 .. n PROVE f[i] = FindTurn(in, f, i)
  <2>1. f[i] = g[i] /\ (i # 0 => f[i - 1] = g[i - 1])
    BY <1>4
  <2>2. FindTurn(in, f, i) = FindTurn(in, g, i)
    BY <2>1 DEF FindTurn
  <2>. QED
    BY <2>1, <2>2, <1>5
<1>7. f = [i \in 0 .. n |-> FindTurn(in, f, i)]
  <2> DEFINE e == [i \in 0 .. n |-> FindTurn(in, f, i)]
  <2>1. \A i \in 0 .. n : f[i] = e[i]
    BY <1>6
  <2>2. f = [i \in 0 .. n |-> f[i]] /\ e = [i \in 0 .. n |-> e[i]]
    OBVIOUS
  <2> HIDE DEF f, e
  <2>3. f = e
    BY <2>1, <2>2
  <2>. QED
    BY <2>3 DEF e
<1> HIDE DEF f
<1>. QED
  BY <1>7 DEF Finds

LEMMA GetMultiples ==
  ASSUME NEW V, NEW in \in Seq(V)
  PROVE  /\ get_multiples(in) \in Seq(V) /\ get_num_multiples(in) \in Nat
         /\ Len(get_multiples(in)) = get_num_multiples(in)
         /\ \A v \in V : Occurrences(get_multiples(in), v) = IF IsMultiple(v) THEN Occurrences(in, v) ELSE 0
<1> DEFINE n == Len(in)
           g == CHOOSE f : Finds(in, f)
           NumTo(i) == {j \in 1 .. i : IsMultiple(in[j])}
           Right(i) == /\ g[i] \in Seq(V) /\ Len(g[i]) = Cardinality(NumTo(i))
                       /\ \A v \in V : Occurrences(g[i], v) = IF IsMultiple(v) THEN Cardinality(PlacesTo(in, i, v)) ELSE 0
           U == {i \in Nat : i <= n => Right(i)}
<1>0. n \in Nat /\ DOMAIN in = 1 .. n
  OBVIOUS
<1>1. get_multiples(in) = g[n]
  BY DEF get_multiples, Finds, FindTurn
<1>2. Finds(in, g)
  BY FindsExists
<1>3. \A i \in 0 .. n : g[i] = FindTurn(in, g, i)
  BY <1>2 DEF Finds
<1> HIDE DEF g
<1>4. \A i \in Nat : IsFiniteSet(NumTo(i)) /\ Cardinality(NumTo(i)) \in Nat
  <2> SUFFICES ASSUME NEW i \in Nat PROVE IsFiniteSet(NumTo(i)) /\ Cardinality(NumTo(i)) \in Nat
    OBVIOUS
  <2>1. IsFiniteSet(1 .. i) /\ NumTo(i) \subseteq 1 .. i
    BY FS_Interval
  <2>2. IsFiniteSet(NumTo(i))
    BY <2>1, FS_Subset
  <2>. QED
    BY <2>2, FS_CardinalityType
<1>5. 0 \in U
  <2>1. g[0] = <<>>
    BY <1>0, <1>3 DEF FindTurn
  <2>2. NumTo(0) = {} /\ \A v : PlacesTo(in, 0, v) = {} /\ PlacesTo(<<>>, 0, v) = {}
    BY DEF PlacesTo
  <2>3. <<>> \in Seq(V) /\ Len(<<>>) = 0
    OBVIOUS
  <2>4. \A v \in V : Occurrences(<<>>, v) = Cardinality(PlacesTo(<<>>, 0, v))
    BY <2>3, OccurrencesAre
  <2>. QED
    BY <2>1, <2>2, <2>3, <2>4, FS_EmptySet
<1>6. ASSUME NEW i \in Nat, i \in U PROVE i + 1 \in U
  <2> SUFFICES ASSUME i + 1 <= n PROVE Right(i + 1)
    OBVIOUS
  <2>1. Right(i) /\ i + 1 \in 0 .. n /\ i + 1 \in 1 .. n
    BY <1>0, <1>6
  <2> DEFINE x == in[i + 1]
  <2>2. x \in V
    BY <1>0, <2>1
  <2>3. g[i + 1] = IF IsMultiple(x) THEN Append(g[i], x) ELSE g[i]
    <3>1. g[i + 1] = FindTurn(in, g, i + 1) /\ i + 1 # 0 /\ (i + 1) - 1 = i
      BY <1>3, <2>1
    <3>. QED
      BY <3>1 DEF FindTurn
  <2>4. NumTo(i + 1) = (IF IsMultiple(x) THEN NumTo(i) \cup {i + 1} ELSE NumTo(i)) /\ i + 1 \notin NumTo(i)
    <3>1. 1 .. i + 1 = (1 .. i) \cup {i + 1}
      OBVIOUS
    <3>. QED
      BY <3>1
  <2>5. Cardinality(NumTo(i + 1)) = Cardinality(NumTo(i)) + IF IsMultiple(x) THEN 1 ELSE 0
    <3> DEFINE A == NumTo(i)
    <3>1. IsFiniteSet(A) /\ Cardinality(A) \in Nat /\ i + 1 \notin A
      BY <1>4, <2>4
    <3> HIDE DEF A
    <3>2. Cardinality(A \cup {i + 1}) = Cardinality(A) + 1
      BY <3>1, FS_AddElement
    <3>. QED
      <4>1. NumTo(i + 1) = IF IsMultiple(x) THEN A \cup {i + 1} ELSE A
        BY <2>4 DEF A
      <4>2. Cardinality(NumTo(i + 1)) = Cardinality(A) + IF IsMultiple(x) THEN 1 ELSE 0
        <5> HIDE DEF NumTo
        <5>. QED
          BY <3>1, <3>2, <4>1
      <4>. QED
        BY <4>2 DEF A
  <2>6. \A v \in V : Cardinality(PlacesTo(in, i + 1, v)) = Cardinality(PlacesTo(in, i, v)) + IF x = v THEN 1 ELSE 0
    <3>1. AgreeTo(in, in, i)
      BY DEF AgreeTo
    <3>. QED
      BY <3>1, OnePlaceMore
  <2> HIDE DEF x
  <2>7. g[i + 1] \in Seq(V) /\ Len(g[i + 1]) = Cardinality(NumTo(i + 1))
    <3>1. g[i] \in Seq(V) /\ Len(g[i]) = Cardinality(NumTo(i)) /\ Cardinality(NumTo(i)) \in Nat
      BY <2>1, <1>4
    <3>2. Append(g[i], x) \in Seq(V) /\ Len(Append(g[i], x)) = Len(g[i]) + 1
      BY <2>2, <3>1
    <3>. QED
      BY <2>3, <2>5, <3>1, <3>2
  <2>8. ASSUME NEW v \in V
        PROVE  Occurrences(g[i + 1], v) = IF IsMultiple(v) THEN Cardinality(PlacesTo(in, i + 1, v)) ELSE 0
    <3>1. g[i] \in Seq(V) /\ Occurrences(g[i], v) = IF IsMultiple(v) THEN Cardinality(PlacesTo(in, i, v)) ELSE 0
      BY <2>1
    <3>2. Occurrences(Append(g[i], x), v) = Occurrences(g[i], v) + IF x = v THEN 1 ELSE 0
      BY <2>2, <3>1, OccurrencesAppend
    <3>3. Cardinality(PlacesTo(in, i, v)) \in Nat
      BY PlacesFacts
    <3>4. Cardinality(PlacesTo(in, i + 1, v)) = Cardinality(PlacesTo(in, i, v)) + IF x = v THEN 1 ELSE 0
      BY <2>6
    <3>5. CASE IsMultiple(x)
      <4>1. Occurrences(g[i + 1], v) = Occurrences(g[i], v) + IF x = v THEN 1 ELSE 0
        BY <2>3, <3>2, <3>5
      <4>2. x = v => IsMultiple(v)
        BY <3>5
      <4>. QED
        BY <3>1, <3>3, <3>4, <4>1, <4>2
    <3>6. CASE ~ IsMultiple(x)
      <4>1. x = v => ~ IsMultiple(v)
        BY <3>6
      <4>. QED
        BY <2>3, <3>1, <3>3, <3>4, <3>6, <4>1
    <3>. QED
      BY <3>5, <3>6
  <2>. QED
    BY <2>7, <2>8
<1> HIDE DEF U
<1>7. \A i \in Nat : i \in U
  BY <1>5, <1>6, NatInduct
<1>8. Right(n)
  BY <1>0, <1>7, SMTT(60) DEF U
<1>9. get_num_multiples(in) = Cardinality(NumTo(n))
  BY <1>0 DEF get_num_multiples
<1>10. \A v \in V : Occurrences(in, v) = Cardinality(PlacesTo(in, n, v))
  BY OccurrencesAre
<1>. QED
  BY <1>0, <1>1, <1>4, <1>8, <1>9, <1>10

(***************************************************************************)
(* The short programs.                                                     *)
(***************************************************************************)

USE ProcsAssumption

RingCalls(r) ==
  IF r = 0 THEN << <<"send", 1>>, <<"recv", NumProcs - 1>> >>
  ELSE << <<"recv", r - 1>>, <<"send", (r + 1) % NumProcs>> >>

LEMMA ProcsMod ==
  ASSUME NEW i \in Procs
  PROVE  (i + 1) % NumProcs = IF i = NumProcs - 1 THEN 0 ELSE i + 1
<1>1. i \in Int /\ NumProcs \in Int /\ NumProcs > 0 /\ i \in 0 .. NumProcs - 1
  BY DEF Procs
<1>2. CASE i = NumProcs - 1
  <2>1. NumProcs % NumProcs = 0
    BY <1>1, SMT
  <2>. QED
    BY <1>1, <1>2, <2>1
<1>3. CASE i # NumProcs - 1
  <2>1. i + 1 \in 0 .. NumProcs - 1
    BY <1>1, <1>3
  <2>. QED
    BY <1>1, <1>3, <2>1, SMT
<1>. QED
  BY <1>2, <1>3

\* The calls of a rank in the hops of ring.c, each of which has a sender and a receiver.
LEMMA RingHas == \A r \in Procs : ring(r) = RingCalls(r)
<1> SUFFICES ASSUME NEW r \in Procs PROVE ring(r) = RingCalls(r)
  OBVIOUS
<1> DEFINE Hop(i) == IF r = i THEN << <<"send", (i + 1) % NumProcs>> >>
                     ELSE IF r = (i + 1) % NumProcs THEN << <<"recv", i>> >> ELSE <<>>
           Is(H) == H = [i \in 0 .. NumProcs |-> IF i = 0 THEN <<>> ELSE H[i - 1] \o Hop(i - 1)]
           Witness == [i \in 0 .. NumProcs |->
             IF r = 0 THEN IF i = 0 THEN <<>> ELSE IF i < NumProcs THEN << <<"send", 1>> >> ELSE RingCalls(r)
             ELSE IF i < r THEN <<>> ELSE IF i = r THEN << <<"recv", r - 1>> >> ELSE RingCalls(r)]
<1>1. ring(r) = (CHOOSE H : Is(H))[NumProcs]
  BY DEF ring
<1>2. \A i \in Procs :
        Hop(i) = IF r = i THEN IF r = 0 THEN << <<"send", 1>> >> ELSE << <<"send", (r + 1) % NumProcs>> >>
                 ELSE IF r = 0 THEN IF i = NumProcs - 1 THEN << <<"recv", NumProcs - 1>> >> ELSE <<>>
                 ELSE IF i = r - 1 THEN << <<"recv", r - 1>> >> ELSE <<>>
  <2> SUFFICES ASSUME NEW i \in Procs
               PROVE  Hop(i) = IF r = i THEN IF r = 0 THEN << <<"send", 1>> >> ELSE << <<"send", (r + 1) % NumProcs>> >>
                               ELSE IF r = 0 THEN IF i = NumProcs - 1 THEN << <<"recv", NumProcs - 1>> >> ELSE <<>>
                               ELSE IF i = r - 1 THEN << <<"recv", r - 1>> >> ELSE <<>>
    OBVIOUS
  <2>1. (i + 1) % NumProcs = IF i = NumProcs - 1 THEN 0 ELSE i + 1
    BY ProcsMod
  <2>2. r \in Nat /\ i \in Nat /\ i <= NumProcs - 1 /\ NumProcs > 1
    BY DEF Procs
  <2>3. r = (i + 1) % NumProcs <=> (IF r = 0 THEN i = NumProcs - 1 ELSE i = r - 1)
    BY <2>1, <2>2 DEF Procs
  <2>4. r = i /\ r = 0 => (i + 1) % NumProcs = 1
    BY <2>1, <2>2
  <2>. QED
    BY <2>2, <2>3, <2>4
<1> HIDE DEF Hop
<1>3. Is(Witness)
  <2> SUFFICES ASSUME NEW i \in 0 .. NumProcs
               PROVE  Witness[i] = IF i = 0 THEN <<>> ELSE Witness[i - 1] \o Hop(i - 1)
    OBVIOUS
  <2>1. r \in Nat /\ r < NumProcs /\ i \in Nat
    BY DEF Procs
  <2>2. CASE i = 0
    BY <2>1, <2>2
  <2>3. CASE i # 0
    <3>1. i - 1 \in Procs /\ i - 1 \in 0 .. NumProcs
      BY <2>3 DEF Procs
    <3> DEFINE w == Witness[i - 1]
               h == Hop(i - 1)
    <3>2. w = IF r = 0 THEN IF i = 1 THEN <<>> ELSE << <<"send", 1>> >>
              ELSE IF i - 1 < r THEN <<>> ELSE IF i - 1 = r THEN << <<"recv", r - 1>> >> ELSE RingCalls(r)
      BY <2>1, <2>3, <3>1
    <3>3. h = IF r = i - 1 THEN IF r = 0 THEN << <<"send", 1>> >> ELSE << <<"send", (r + 1) % NumProcs>> >>
              ELSE IF r = 0 THEN IF i = NumProcs THEN << <<"recv", NumProcs - 1>> >> ELSE <<>>
              ELSE IF i = r THEN << <<"recv", r - 1>> >> ELSE <<>>
      BY <1>2, <2>1, <3>1
    <3> HIDE DEF w, h
    <3>4. Witness[i] = IF r = 0 THEN IF i < NumProcs THEN << <<"send", 1>> >> ELSE RingCalls(r)
                       ELSE IF i < r THEN <<>> ELSE IF i = r THEN << <<"recv", r - 1>> >> ELSE RingCalls(r)
      BY <2>1, <2>3
    <3> SUFFICES Witness[i] = w \o h
      BY <2>3 DEF w, h
    <3> HIDE DEF Witness
    <3> DEFINE a == <<"send", 1>>
               b == <<"recv", NumProcs - 1>>
               c == <<"recv", r - 1>>
               d == <<"send", (r + 1) % NumProcs>>
    <3>5. RingCalls(r) = IF r = 0 THEN <<a, b>> ELSE <<c, d>>
      BY DEF RingCalls
    <3>6. i <= NumProcs /\ NumProcs > 1
      BY DEF Procs
    <3>7. CASE r = 0
      <4>1. CASE i = 1
        <5>1. w = <<>> /\ h = <<a>> /\ Witness[i] = <<a>>
          BY <3>2, <3>3, <3>4, <3>7, <4>1, <3>6
        <5>. QED
          BY <5>1, Joined
      <4>2. CASE i # 1 /\ i = NumProcs
        <5>1. w = <<a>> /\ h = <<b>> /\ Witness[i] = <<a, b>>
          BY <3>2, <3>3, <3>4, <3>5, <3>7, <4>2, <2>1, <2>3, <3>6
        <5>. QED
          BY <5>1, Joined
      <4>3. CASE i # 1 /\ i # NumProcs
        <5>1. w = <<a>> /\ h = <<>> /\ Witness[i] = <<a>>
          BY <3>2, <3>3, <3>4, <3>7, <4>3, <2>1, <2>3, <3>6
        <5>. QED
          BY <5>1, Joined
      <4>. QED
        BY <4>1, <4>2, <4>3
    <3>8. CASE r # 0
      <4>1. CASE i < r
        <5>1. w = <<>> /\ h = <<>> /\ Witness[i] = <<>>
          BY <3>2, <3>3, <3>4, <3>8, <4>1, <2>1, <2>3
        <5>. QED
          BY <5>1, Joined
      <4>2. CASE i = r
        <5>1. w = <<>> /\ h = <<c>> /\ Witness[i] = <<c>>
          BY <3>2, <3>3, <3>4, <3>8, <4>2, <2>1, <2>3
        <5>. QED
          BY <5>1, Joined
      <4>3. CASE i = r + 1
        <5>1. w = <<c>> /\ h = <<d>> /\ Witness[i] = <<c, d>>
          BY <3>2, <3>3, <3>4, <3>5, <3>8, <4>3, <2>1, <2>3
        <5>. QED
          BY <5>1, Joined
      <4>4. CASE i > r + 1
        <5>1. w = <<c, d>> /\ h = <<>> /\ Witness[i] = <<c, d>>
          BY <3>2, <3>3, <3>4, <3>5, <3>8, <4>4, <2>1, <2>3
        <5>. QED
          BY <5>1, Joined
      <4>. QED
        BY <4>1, <4>2, <4>3, <4>4, <2>1
    <3>. QED
      BY <3>7, <3>8
  <2>. QED
    BY <2>2, <2>3
<1>4. ASSUME NEW H, Is(H) PROVE H[NumProcs] = Witness[NumProcs]
  <2> DEFINE U == {n \in Nat : n <= NumProcs => H[n] = Witness[n]}
  <2>1. \A i \in 0 .. NumProcs : H[i] = IF i = 0 THEN <<>> ELSE H[i - 1] \o Hop(i - 1)
    BY <1>4
  <2>2. \A i \in 0 .. NumProcs : Witness[i] = IF i = 0 THEN <<>> ELSE Witness[i - 1] \o Hop(i - 1)
    BY <1>3
  <2> HIDE DEF Witness, Is
  <2>3. 0 \in U
    BY <2>1, <2>2
  <2>4. ASSUME NEW n \in Nat, n \in U PROVE n + 1 \in U
    <3> SUFFICES ASSUME n + 1 <= NumProcs PROVE H[n + 1] = Witness[n + 1]
      OBVIOUS
    <3>1. H[n] = Witness[n] /\ n + 1 \in 0 .. NumProcs /\ n + 1 # 0 /\ (n + 1) - 1 = n
      BY <2>4
    <3>2. H[n + 1] = H[n] \o Hop(n) /\ Witness[n + 1] = Witness[n] \o Hop(n)
      BY <2>1, <2>2, <3>1
    <3>. QED
      BY <3>1, <3>2
  <2> HIDE DEF U
  <2>5. \A n \in Nat : n \in U
    BY <2>3, <2>4, NatInduct
  <2>. QED
    BY <2>5 DEF U
<1>5. Witness[NumProcs] = RingCalls(r)
  BY DEF Procs
<1>6. Is(CHOOSE H : Is(H))
  <2> HIDE DEF Witness, Is
  <2>. QED
    BY <1>3
<1> HIDE DEF Is, Witness
<1>. QED
  BY <1>1, <1>4, <1>5, <1>6

ProgTypes ==
  /\ program \in Programs
  /\ call \in [Procs -> 0 .. 4] /\ number \in [Procs -> Nat]
  /\ posted \subseteq World
  /\ channel \in [Procs -> [Procs -> Seq(Nat)]]

\* A rank inside a call that has sent its message is at a send.
PostedAtSend == \A r \in posted : Doing(r, {"ssend", "send"})

\* Neither of the two has its message taken, and who is inside the send stays there.
HangsInSend ==
  program = "deadlock" =>
    \A r \in World : call[r] = 0 /\ (r \in posted => channel[r][Other(r)] # <<>>)

HangsInReceive ==
  program = "recv" => call = [r \in Procs |-> 0] /\ posted = {} /\ channel = NoMessages

\* What a rank of the ring has counted, by the calls it has made; every message of a rank has
\* one more than the rank.
RingRanks ==
  program = "ring" =>
    /\ \A r \in Procs :
         number[r] = IF call[r] = 0 THEN 0
                     ELSE IF call[r] = 1 THEN IF r = 0 THEN 1 ELSE r
                     ELSE IF r = 0 THEN NumProcs ELSE r + 1
    /\ \A s, r \in Procs : \A i \in DOMAIN channel[s][r] : channel[s][r][i] = s + 1

Players(s, n, m, chS, chO, p) ==
  /\ number[s] = n /\ number[Other(s)] = m
  /\ channel[s][Other(s)] = chS /\ channel[Other(s)][s] = chO
  /\ posted = p

\* s has the ball: both are about to make its turn; its message is under way (buffered, or
\* with s in the send); it was taken, and s is still in the send; or it was taken, and the
\* other one's is under way, with both in the send.
Turns(s, n) ==
  \/ Players(s, n, n, <<>>, <<>>, {})
  \/ eager /\ Players(s, n + 1, n, <<n + 1>>, <<>>, {})
  \/ ~ eager /\ Players(s, n, n, <<n + 1>>, <<>>, {s})
  \/ ~ eager /\ Players(s, n, n + 1, <<>>, <<>>, {s})
  \/ ~ eager /\ Players(s, n, n + 1, <<>>, <<n + 2>>, {0, 1})

PingPong ==
  program = "ping_pong" => \E s \in {0, 1}, n \in Nat : n % 2 = s /\ Turns(s, n)

ProgInv == ProgTypes /\ PostedAtSend /\ HangsInSend /\ HangsInReceive /\ RingRanks /\ PingPong

LEMMA WorldFacts ==
  /\ Procs \subseteq Nat /\ 0 \in Procs /\ 1 \in Procs /\ World \subseteq Procs
  /\ program \in Pairs => World = {0, 1}
  /\ program \notin Pairs => World = Procs
  /\ \A r \in {0, 1} : Other(r) \in {0, 1} /\ Other(r) # r
  BY DEF Procs, World, Other

LEMMA DeadlockCalls ==
  ASSUME program = "deadlock", NEW r
  PROVE  Len(Calls(r)) = 2 /\ Calls(r)[1] = <<"ssend", Other(r)>> /\ Calls(r)[2] = <<"recv", Other(r)>>
  BY DEF Calls, deadlock

LEMMA RecvCalls ==
  ASSUME program = "recv", NEW r \in Procs
  PROVE  IF r > 0 THEN Len(Calls(r)) = 1 /\ Calls(r)[1] = <<"recv", 0>> ELSE Len(Calls(r)) = 0
  BY DEF Calls, recv

LEMMA RingsCalls ==
  ASSUME program = "ring", NEW r \in Procs
  PROVE  /\ Len(Calls(r)) = 2
         /\ r = 0 => Calls(r)[1] = <<"send", 1>> /\ Calls(r)[2] = <<"recv", NumProcs - 1>>
         /\ r # 0 => Calls(r)[1] = <<"recv", r - 1>> /\ Calls(r)[2] = <<"send", (r + 1) % NumProcs>>
<1>1. Calls(r) = RingCalls(r)
  BY RingHas DEF Calls
<1>. QED
  BY <1>1 DEF RingCalls

LEMMA PlayersCalls ==
  ASSUME program = "ping_pong", NEW r \in {0, 1}
  PROVE  /\ number[r] >= TotMsgs => Len(Calls(r)) = 0
         /\ ~ (number[r] >= TotMsgs) => Len(Calls(r)) = 1 /\ Calls(r)[1] = << IF number[r] % 2 = r THEN "send" ELSE "recv", Other(r)>>
  BY DEF Calls, ping_pong

LEMMA FewCalls ==
  ASSUME program \in Programs, program # "ping_pong", NEW r \in Procs
  PROVE  Len(Calls(r)) \in 0 .. 4
<1>1. CASE program = "ring"
  BY <1>1, RingsCalls
<1>2. CASE program \in {"deadlock", "deadlock_avoid_isend", "deadlock_avoid_sendrecv"}
  BY <1>2 DEF Calls, deadlock, deadlock_avoid_isend, deadlock_avoid_sendrecv
<1>3. CASE program \in {"probe", "recv", "hello_world"}
  BY <1>3 DEF Calls, probe, recv, hello_world
<1>4. CASE program \in {"average", "monte_carlo"}
  BY <1>4 DEF Calls, average, monte_carlo
<1>. QED
  BY <1>1, <1>2, <1>3, <1>4 DEF Programs, Pairs

LEMMA ProgInitially == ProgInit => ProgInv
<1> SUFFICES ASSUME ProgInit PROVE ProgInv
  OBVIOUS
<1>1. ProgTypes
  <2>1. NoMessages \in [Procs -> [Procs -> Seq(Nat)]]
    BY DEF NoMessages
  <2>. QED
    BY <2>1 DEF ProgInit, ProgTypes
<1>2. \A r \in Procs : call[r] = 0 /\ number[r] = 0
  BY DEF ProgInit
<1>3. posted = {} /\ channel = NoMessages /\ \A s, r \in Procs : channel[s][r] = <<>>
  BY DEF ProgInit, NoMessages
<1>4. PostedAtSend /\ HangsInSend /\ HangsInReceive
  BY <1>2, <1>3, WorldFacts DEF PostedAtSend, HangsInSend, HangsInReceive, ProgInit
<1>5. RingRanks
  BY <1>2, <1>3 DEF RingRanks
<1>6. PingPong
  <2>1. Players(0, 0, 0, <<>>, <<>>, {})
    BY <1>2, <1>3, WorldFacts DEF Players, Other
  <2>2. 0 % 2 = 0
    BY SMT
  <2>. QED
    BY <2>1, <2>2 DEF PingPong, Turns
<1>. QED
  BY <1>1, <1>4, <1>5, <1>6 DEF ProgInv

\* What a step of a rank leaves to the others.
LEMMA OthersStay ==
  ASSUME ProgTypes, NEW r \in World, ProgStep(r)
  PROVE  /\ program' = program
         /\ call' = [call EXCEPT ![r] = call'[r]] /\ number' = [number EXCEPT ![r] = number'[r]]
         /\ \A q \in Procs \ {r} : call'[q] = call[q] /\ number'[q] = number[q]
         /\ posted' \ {r} = posted \ {r}
<1>1. /\ program' = program
      /\ call' = call \/ call' = [call EXCEPT ![r] = call[r] + 1]
      /\ number' = number \/ \E n : number' = [number EXCEPT ![r] = n]
      /\ posted' = posted \/ posted' = posted \cup {r} \/ posted' = posted \ {r}
  <2>1. Return(r) => call' = call \/ call' = [call EXCEPT ![r] = call[r] + 1]
    BY WorldFacts, ZenonT(100) DEF Return, ProgTypes
  <2>2. CASE SendOrPost(r)
    BY <2>1, <2>2 DEF SendOrPost
  <2>3. CASE PostedReturns(r)
    BY <2>1, <2>3 DEF PostedReturns
  <2>4. ASSUME NEW s \in World, ReceiveNumber(r, s)
        PROVE  /\ program' = program
               /\ call' = call \/ call' = [call EXCEPT ![r] = call[r] + 1]
               /\ number' = number \/ \E n : number' = [number EXCEPT ![r] = n]
               /\ posted' = posted \/ posted' = posted \cup {r} \/ posted' = posted \ {r}
    BY <2>1, <2>4 DEF ReceiveNumber
  <2>5. CASE WaitReturns(r) \/ ProbeReturns(r) \/ Collective(r)
    BY <2>1, <2>5 DEF WaitReturns, ProbeReturns, Collective
  <2>. QED
    BY <2>2, <2>3, <2>4, <2>5 DEF ProgStep
<1>2. call \in [Procs -> 0 .. 4] /\ number \in [Procs -> Nat] /\ r \in Procs
  BY WorldFacts DEF ProgTypes
<1>3. call' = [call EXCEPT ![r] = call'[r]] /\ \A q \in Procs \ {r} : call'[q] = call[q]
  BY <1>1, <1>2
<1>4. number' = [number EXCEPT ![r] = number'[r]] /\ \A q \in Procs \ {r} : number'[q] = number[q]
  <2>1. CASE number' = number
    BY <2>1, <1>2
  <2>2. ASSUME NEW n, number' = [number EXCEPT ![r] = n]
        PROVE  number' = [number EXCEPT ![r] = number'[r]] /\ \A q \in Procs \ {r} : number'[q] = number[q]
    BY <2>2, <1>2
  <2>. QED
    BY <2>1, <2>2, <1>1
<1>. QED
  BY <1>1, <1>3, <1>4

LEMMA NamesDiffer ==
  ASSUME NEW r, NEW N, NEW M, Doing(r, N), Doing(r, M)
  PROVE  N \cap M # {}
  BY DEF Doing

\* What a rank that is not at a send does not do.
LEMMA AtSend ==
  ASSUME PostedAtSend, NEW r \in World, ProgStep(r), r \in posted
  PROVE  PostedReturns(r)
<1>1. Doing(r, {"ssend", "send"})
  BY DEF PostedAtSend
<1>2. \A N \in {{"wait"}, {"recv"}, {"probe"}, {"scatter"}, {"gather", "reduce"}, {"barrier"}} : ~ Doing(r, N)
  BY <1>1, NamesDiffer
<1>3. ~ WaitReturns(r) /\ ~ ProbeReturns(r) /\ ~ Collective(r) /\ \A s : ~ ReceiveNumber(r, s)
  BY <1>2 DEF WaitReturns, ProbeReturns, Collective, ReceiveNumber
<1>. QED
  BY <1>3 DEF ProgStep, SendOrPost

LEMMA ProgTypesKept == ASSUME ProgTypes, PostedAtSend, NEW r \in World, ProgStep(r) PROVE ProgTypes'
<1>1. program' = program /\ program \in Programs /\ World' = World /\ r \in Procs
  BY OthersStay, WorldFacts DEF ProgTypes, World
<1>2. Return(r) => ~ Ended(r)
  BY DEF ProgStep, SendOrPost, PostedReturns, WaitReturns, ReceiveNumber, ProbeReturns, Collective,
    Doing, PostedAtSend
<1>3. call'[r] \in 0 .. 4
  <2>1. call[r] \in 0 .. 4
    BY <1>1 DEF ProgTypes
  <2>2. CASE call'[r] = call[r]
    BY <2>1, <2>2
  <2>3. CASE Return(r) /\ call'[r] # call[r]
    <3>1. program # "ping_pong" /\ call'[r] = call[r] + 1
      BY <2>3, <1>1 DEF Return, ProgTypes
    <3> DEFINE n == Len(Calls(r))
    <3>2. n \in 0 .. 4
      BY <1>1, <3>1, FewCalls
    <3>3. ~ (call[r] + 1 > n)
      BY <1>2, <2>3, <3>1 DEF Ended, Next1
    <3> HIDE DEF n
    <3>4. call[r] + 1 \in 0 .. 4
      BY <2>1, <3>2, <3>3
    <3>. QED
      BY <3>1, <3>4
  <2>4. Return(r) \/ call' = call
    BY DEF ProgStep, SendOrPost, PostedReturns, WaitReturns, ReceiveNumber, ProbeReturns, Collective
  <2>. QED
    BY <2>2, <2>3, <2>4
<1>4. call' \in [Procs -> 0 .. 4]
  BY <1>3, OthersStay DEF ProgTypes
<1>5. Counted(r) \in Nat
  BY <1>1 DEF ProgTypes, Counted
<1>6. number' \in [Procs -> Nat] /\ channel' \in [Procs -> [Procs -> Seq(Nat)]]
  <2>1. CASE SendOrPost(r)
    <3>1. number' \in [Procs -> Nat]
      BY <2>1, <1>1, <1>5 DEF SendOrPost, ProgTypes
    <3> DEFINE p == Peer(r)
    <3>2. channel' = [channel EXCEPT ![r] = [channel[r] EXCEPT ![p] = Append(channel[r][p], Counted(r))]]
      BY <2>1 DEF SendOrPost
    <3> HIDE DEF p
    <3>3. channel[r] \in [Procs -> Seq(Nat)]
      BY <1>1 DEF ProgTypes
    <3>4. p \in Procs => Append(channel[r][p], Counted(r)) \in Seq(Nat)
      BY <1>5, <3>3
    <3>5. [channel[r] EXCEPT ![p] = Append(channel[r][p], Counted(r))] \in [Procs -> Seq(Nat)]
      BY <3>3, <3>4
    <3>6. channel' \in [Procs -> [Procs -> Seq(Nat)]]
      BY <3>2, <3>5, <1>1 DEF ProgTypes
    <3>. QED
      BY <3>1, <3>6
  <2>2. ASSUME NEW s \in World, ReceiveNumber(r, s) PROVE number' \in [Procs -> Nat] /\ channel' \in [Procs -> [Procs -> Seq(Nat)]]
    <3>1. s \in Procs /\ channel[s][r] \in Seq(Nat) /\ channel[s][r] # <<>>
      BY <2>2, <1>1, WorldFacts DEF ProgTypes, ReceiveNumber
    <3>2. Head(channel[s][r]) \in Nat /\ Tail(channel[s][r]) \in Seq(Nat)
      BY <3>1
    <3>3. number' = [number EXCEPT ![r] = Head(channel[s][r])]
          /\ channel' = [channel EXCEPT ![s][r] = Tail(channel[s][r])]
      BY <2>2 DEF ReceiveNumber
    <3>4. [channel[s] EXCEPT ![r] = Tail(channel[s][r])] \in [Procs -> Seq(Nat)]
      BY <3>1, <3>2 DEF ProgTypes
    <3>. QED
      BY <3>2, <3>3, <3>4, <1>1 DEF ProgTypes
  <2>3. CASE PostedReturns(r)
    BY <2>3, <1>1, <1>5 DEF PostedReturns, ProgTypes
  <2>4. CASE WaitReturns(r) \/ ProbeReturns(r) \/ Collective(r)
    BY <2>4 DEF WaitReturns, ProbeReturns, Collective, ProgTypes
  <2>. QED
    BY <2>1, <2>2, <2>3, <2>4 DEF ProgStep
<1>7. posted' \subseteq World
  BY OthersStay DEF ProgTypes
<1>. QED
  BY <1>1, <1>4, <1>6, <1>7 DEF ProgTypes

LEMMA PostedAtSendKept == ASSUME ProgTypes, PostedAtSend, NEW r \in World, ProgStep(r) PROVE PostedAtSend'
<1> SUFFICES ASSUME NEW q \in posted' PROVE Doing(q, {"ssend", "send"})'
  BY DEF PostedAtSend
<1>1. q \in World /\ q \in Procs /\ program' = program
  BY ProgTypesKept, WorldFacts, OthersStay, ZenonT(100) DEF ProgTypes, World
<1>2. ASSUME call'[q] = call[q], number'[q] = number[q], Doing(q, {"ssend", "send"})
      PROVE  Doing(q, {"ssend", "send"})'
  <2>1. Calls(q)' = Calls(q) /\ Next1(q)' = Next1(q)
    BY <1>1, <1>2 DEF Calls, Next1, deadlock, deadlock_avoid_isend, deadlock_avoid_sendrecv, ping_pong,
      probe, recv, ring, hello_world, average, monte_carlo
  <2>. QED
    BY <1>2, <2>1 DEF Doing, Ended
<1>3. CASE q # r
  BY <1>1, <1>2, <1>3, OthersStay DEF PostedAtSend
<1>4. CASE q = r
  <2>1. r \notin posted
    BY <1>4, AtSend DEF PostedReturns
  <2>2. SendOrPost(r) /\ UNCHANGED <<call, number>> /\ (Doing(r, {"ssend"}) \/ Doing(r, {"send"}))
    BY <1>4, <2>1 DEF ProgStep, SendOrPost, PostedReturns, WaitReturns, ReceiveNumber, ProbeReturns, Collective
  <2>3. Doing(r, {"ssend", "send"})
    BY <2>2 DEF Doing
  <2>. QED
    BY <1>2, <1>4, <2>2, <2>3
<1>. QED
  BY <1>3, <1>4

LEMMA DoingFirst ==
  ASSUME program # "ping_pong", NEW r, NEW N, call[r] = 0, Len(Calls(r)) \in Nat
  PROVE  Doing(r, N) <=> Len(Calls(r)) # 0 /\ Calls(r)[1][1] \in N
<1> DEFINE n == Len(Calls(r))
<1>1. Next1(r) = 1
  BY DEF Next1
<1>2. Ended(r) <=> n = 0
  <2>1. Ended(r) <=> 1 > n
    BY <1>1 DEF Ended
  <2>2. n \in Nat
    OBVIOUS
  <2> HIDE DEF n
  <2>. QED
    BY <2>1, <2>2
<1>. QED
  BY <1>1, <1>2 DEF Doing

LEMMA HangsInSendKept ==
  ASSUME ProgTypes, PostedAtSend, HangsInSend, NEW r \in World, ProgStep(r)
  PROVE  HangsInSend'
<1> SUFFICES ASSUME program = "deadlock" PROVE HangsInSend'
  BY OthersStay DEF HangsInSend
<1>1. program' = program /\ World = {0, 1} /\ World' = World /\ World \subseteq Procs
  BY OthersStay, WorldFacts DEF World, Pairs
<1>2. call[r] = 0 /\ Len(Calls(r)) = 2 /\ Calls(r)[1] = <<"ssend", Other(r)>>
  BY DeadlockCalls DEF HangsInSend
<1>3. \A N : Doing(r, N) <=> "ssend" \in N
  <2>1. Len(Calls(r)) \in Nat /\ Len(Calls(r)) # 0 /\ Calls(r)[1][1] = "ssend"
    BY <1>2
  <2>. QED
    BY <1>2, <2>1, DoingFirst
<1>4. Peer(r) = Other(r) /\ Other(r) \in Procs /\ r \in Procs
  BY <1>1, <1>2, WorldFacts DEF Peer, Next1
<1>5. ~ PostedReturns(r)
  BY <1>4 DEF HangsInSend, PostedReturns
<1>6. SendOrPost(r) /\ Doing(r, {"ssend"}) /\ ~ Doing(r, {"isend"}) /\ ~ Doing(r, {"send"})
  BY <1>3, <1>5 DEF ProgStep, WaitReturns, ReceiveNumber, ProbeReturns, Collective
<1>7. call' = call /\ posted' = posted \cup {r}
      /\ channel' = [channel EXCEPT ![r][Other(r)] = Append(channel[r][Other(r)], Counted(r))]
  BY <1>4, <1>6 DEF SendOrPost
<1>8. \A q \in World : q \in posted' => channel'[q][Other(q)] # <<>>
  <2> SUFFICES ASSUME NEW q \in World, q \in posted' PROVE channel'[q][Other(q)] # <<>>
    OBVIOUS
  <2>1. q \in Procs /\ Other(q) \in Procs /\ channel[q][Other(q)] \in Seq(Nat)
    BY <1>1, WorldFacts DEF ProgTypes
  <2>2. CASE q = r
    <3>1. channel'[q][Other(q)] = Append(channel[q][Other(q)], Counted(r)) /\ Counted(r) \in Nat
      BY <2>1, <2>2, <1>4, <1>7 DEF ProgTypes, Counted
    <3>2. Append(channel[q][Other(q)], Counted(r)) # <<>>
      BY <2>1, <3>1, AppendProperties
    <3>. QED
      BY <3>1, <3>2
  <2>3. CASE q # r
    <3>1. channel'[q] = channel[q] /\ q \in posted
      BY <2>1, <2>3, <1>4, <1>7 DEF ProgTypes
    <3>. QED
      BY <3>1 DEF HangsInSend
  <2>. QED
    BY <2>2, <2>3
<1>. QED
  BY <1>1, <1>7, <1>8 DEF HangsInSend, Other

LEMMA HangsInReceiveKept ==
  ASSUME ProgTypes, HangsInReceive, NEW r \in World, ProgStep(r)
  PROVE  HangsInReceive'
<1> SUFFICES ASSUME program = "recv" PROVE FALSE
  BY OthersStay DEF HangsInReceive
<1>1. World = Procs
  BY WorldFacts DEF Pairs
<1>2. call[r] = 0 /\ posted = {} /\ channel = NoMessages
  BY <1>1 DEF HangsInReceive
<1>3. \A N : Doing(r, N) => "recv" \in N
  <2>1. Len(Calls(r)) \in Nat /\ (Len(Calls(r)) # 0 => Calls(r)[1][1] = "recv")
    BY <1>1, RecvCalls
  <2>. QED
    BY <1>2, <2>1, DoingFirst
<1>4. \A s \in World : channel[s][r] = <<>>
  BY <1>1, <1>2 DEF NoMessages
<1>. QED
  BY <1>2, <1>3, <1>4 DEF ProgStep, SendOrPost, PostedReturns, WaitReturns, ReceiveNumber, ProbeReturns, Collective

\* What a rank of the ring is at.
LEMMA RingAt ==
  ASSUME ProgTypes, program = "ring", NEW r \in Procs, NEW N, Doing(r, N)
  PROVE  /\ call[r] \in {0, 1} /\ Next1(r) = call[r] + 1
         /\ IF call[r] = (IF r = 0 THEN 0 ELSE 1) THEN "send" \in N
            ELSE "recv" \in N /\ Peer(r) = IF r = 0 THEN NumProcs - 1 ELSE r - 1
<1>1. call[r] \in Nat /\ Next1(r) = call[r] + 1
  <2>1. call[r] \in 0 .. 4
    BY DEF ProgTypes
  <2>. QED
    BY <2>1 DEF Next1
<1>2. Len(Calls(r)) = 2 /\ ~ (call[r] + 1 > Len(Calls(r)))
  BY <1>1, RingsCalls DEF Doing, Ended
<1>3. call[r] \in {0, 1}
  BY <1>1, <1>2
<1>4. CASE r = 0
  BY <1>1, <1>3, <1>4, RingsCalls DEF Doing, Peer
<1>5. CASE r # 0
  BY <1>1, <1>3, <1>5, RingsCalls DEF Doing, Peer
<1>. QED
  BY <1>1, <1>3, <1>4, <1>5

RingNumber(r, c) ==
  IF c = 0 THEN 0
  ELSE IF c = 1 THEN IF r = 0 THEN 1 ELSE r
  ELSE IF r = 0 THEN NumProcs ELSE r + 1

LEMMA RingRanksKept ==
  ASSUME ProgTypes, PostedAtSend, RingRanks, NEW r \in World, ProgStep(r)
  PROVE  RingRanks'
<1> SUFFICES ASSUME program = "ring" PROVE RingRanks'
  BY OthersStay DEF RingRanks
<1>1. program' = program /\ World = Procs /\ r \in Nat /\ r < NumProcs /\ Procs \subseteq Nat
  BY OthersStay, WorldFacts DEF Pairs, Procs
<1>2. \A q \in Procs : number[q] = RingNumber(q, call[q])
  BY DEF RingRanks, RingNumber
<1>3. \A s, q \in Procs : channel[s][q] \in Seq(Nat) /\ \A i \in DOMAIN channel[s][q] : channel[s][q][i] = s + 1
  BY DEF RingRanks, ProgTypes
<1>4. Return(r) => call'[r] = call[r] + 1
  BY <1>1 DEF Return, ProgTypes
\* At its send.
<1>5. ASSUME Doing(r, {"ssend", "send", "isend"})
      PROVE  Counted(r) = r + 1 /\ RingNumber(r, call[r] + 1) = r + 1 /\ ~ Doing(r, {"ssend"}) /\ ~ Doing(r, {"isend"})
  <2>1. call[r] = IF r = 0 THEN 0 ELSE 1
    BY <1>1, <1>5, RingAt
  <2>2. number[r] = r
    BY <2>1, <1>1, <1>2 DEF RingNumber
  <2>3. ~ Doing(r, {"ssend"}) /\ ~ Doing(r, {"isend"})
    BY <2>1, <1>1, RingAt
  <2>. QED
    BY <2>1, <2>2, <2>3, <1>1 DEF Counted, RingNumber
<1>6. CASE SendOrPost(r)
  <2>1. Counted(r) = r + 1 /\ RingNumber(r, call[r] + 1) = r + 1
    BY <1>5, <1>6 DEF SendOrPost
  <2>2. number'[r] = RingNumber(r, call'[r])
    <3>1. CASE number' = [number EXCEPT ![r] = Counted(r)] /\ Return(r)
      BY <2>1, <3>1, <1>1, <1>4 DEF ProgTypes
    <3>2. CASE UNCHANGED <<call, number>>
      BY <3>2, <1>1, <1>2
    <3>. QED
      BY <3>1, <3>2, <1>6 DEF SendOrPost
  <2>3. \A s, q \in Procs : \A i \in DOMAIN channel'[s][q] : channel'[s][q][i] = s + 1
    <3> SUFFICES ASSUME NEW s \in Procs, NEW q \in Procs, NEW i \in DOMAIN channel'[s][q]
                 PROVE  channel'[s][q][i] = s + 1
      OBVIOUS
    <3> DEFINE p == Peer(r)
    <3>1. channel' = [channel EXCEPT ![r][p] = Append(channel[r][p], r + 1)]
      BY <2>1, <1>6 DEF SendOrPost
    <3> HIDE DEF p
    <3>2. CASE s = r /\ q = p
      <4>1. channel'[s][q] = Append(channel[r][p], r + 1) /\ channel[r][p] \in Seq(Nat)
        BY <3>1, <3>2, <1>3 DEF ProgTypes
      <4>2. \A j \in DOMAIN channel[r][p] : channel[r][p][j] = r + 1
        BY <3>2, <1>3
      <4> DEFINE c == channel[r][p]
      <4>3. channel'[s][q] = Append(c, r + 1) /\ c \in Seq(Nat) /\ \A j \in DOMAIN c : c[j] = r + 1
        BY <4>1, <4>2
      <4> HIDE DEF c
      <4>. QED
        BY <4>3, <3>2
    <3>3. CASE ~ (s = r /\ q = p)
      <4>1. channel'[s][q] = channel[s][q]
        BY <3>1, <3>3 DEF ProgTypes
      <4>. QED
        BY <4>1, <1>3
    <3>. QED
      BY <3>2, <3>3
  <2>. QED
    BY <2>2, <2>3, <1>2, OthersStay DEF RingRanks, RingNumber
<1>7. CASE PostedReturns(r)
  <2>1. Doing(r, {"ssend", "send", "isend"})
    BY <1>7 DEF PostedReturns, PostedAtSend, Doing
  <2>2. number'[r] = RingNumber(r, call'[r])
    BY <2>1, <1>1, <1>4, <1>5, <1>7 DEF PostedReturns, ProgTypes
  <2>3. \A s, q \in Procs : \A i \in DOMAIN channel'[s][q] : channel'[s][q][i] = s + 1
    BY <1>3, <1>7 DEF PostedReturns
  <2>. QED
    BY <2>2, <2>3, <1>2, OthersStay DEF RingRanks, RingNumber
<1>8. ASSUME NEW s \in World, ReceiveNumber(r, s) PROVE RingRanks'
  <2>1. /\ call[r] = IF r = 0 THEN 1 ELSE 0
        /\ Peer(r) = IF r = 0 THEN NumProcs - 1 ELSE r - 1
    <3>1. Doing(r, {"recv"})
      BY <1>8 DEF ReceiveNumber
    <3>. QED
      BY <3>1, <1>1, RingAt
  <2>2. s = IF r = 0 THEN NumProcs - 1 ELSE r - 1
    BY <2>1, <1>1, <1>8 DEF ReceiveNumber, Anyone
  <2> DEFINE c == channel[s][r]
  <2>3. c \in Seq(Nat) /\ c # <<>> /\ \A i \in DOMAIN c : c[i] = s + 1
    BY <1>1, <1>3, <1>8 DEF ReceiveNumber
  <2>4. number' = [number EXCEPT ![r] = Head(c)] /\ channel' = [channel EXCEPT ![s][r] = Tail(c)] /\ Return(r)
    BY <1>8 DEF ReceiveNumber
  <2> HIDE DEF c
  <2>5. Head(c) = s + 1 /\ Tail(c) \in Seq(Nat) /\ \A i \in DOMAIN Tail(c) : Tail(c)[i] = s + 1
    BY <2>3
  <2>6. number'[r] = RingNumber(r, call'[r])
    BY <2>1, <2>2, <2>4, <2>5, <1>1, <1>4, SMTT(60) DEF ProgTypes, RingNumber
  <2>7. \A p, q \in Procs : \A i \in DOMAIN channel'[p][q] : channel'[p][q][i] = p + 1
    <3> SUFFICES ASSUME NEW p \in Procs, NEW q \in Procs, NEW i \in DOMAIN channel'[p][q]
                 PROVE  channel'[p][q][i] = p + 1
      OBVIOUS
    <3>1. CASE p = s /\ q = r
      <4>1. channel'[p][q] = Tail(c)
        BY <2>4, <3>1 DEF ProgTypes
      <4>. QED
        BY <4>1, <2>5, <3>1
    <3>2. CASE ~ (p = s /\ q = r)
      <4>1. channel'[p][q] = channel[p][q]
        BY <2>4, <3>2 DEF ProgTypes
      <4>. QED
        BY <4>1, <1>3
    <3>. QED
      BY <3>1, <3>2
  <2>. QED
    BY <2>6, <2>7, <1>2, OthersStay DEF RingRanks, RingNumber
<1>9. ~ WaitReturns(r) /\ ~ ProbeReturns(r) /\ ~ Collective(r)
  <2>1. \A N : Doing(r, N) => "send" \in N \/ "recv" \in N
    BY <1>1, RingAt
  <2>. QED
    BY <2>1 DEF WaitReturns, ProbeReturns, Collective
<1>. QED
  BY <1>6, <1>7, <1>8, <1>9 DEF ProgStep

\* The steps of a player, from what its number says.
Serves(r) ==
  /\ number[r] % 2 = r /\ r \notin posted
  /\ channel' = [channel EXCEPT ![r][Other(r)] = Append(channel[r][Other(r)], number[r] + 1)]
  /\ \/ eager /\ posted' = posted /\ number' = [number EXCEPT ![r] = number[r] + 1]
     \/ ~ eager /\ posted' = posted \cup {r} /\ number' = number

GoesOn(r) ==
  /\ r \in posted /\ channel[r][Other(r)] = <<>>
  /\ posted' = posted \ {r} /\ number' = [number EXCEPT ![r] = number[r] + 1] /\ channel' = channel

Takes(r) ==
  /\ number[r] % 2 # r /\ channel[Other(r)][r] # <<>>
  /\ number' = [number EXCEPT ![r] = Head(channel[Other(r)][r])]
  /\ channel' = [channel EXCEPT ![Other(r)][r] = Tail(channel[Other(r)][r])]
  /\ posted' = posted

LEMMA PlayerDoes ==
  ASSUME ProgTypes, PostedAtSend, program = "ping_pong", NEW r \in {0, 1}, ProgStep(r)
  PROVE  Serves(r) \/ GoesOn(r) \/ Takes(r)
<1>1. Next1(r) = 1 /\ World = {0, 1} /\ Counted(r) = number[r] + 1 /\ number[r] \in Nat
  BY WorldFacts DEF Next1, Counted, Pairs, ProgTypes
<1>2. ASSUME NEW N, Doing(r, N)
      PROVE  Peer(r) = Other(r) /\ IF number[r] % 2 = r THEN "send" \in N ELSE "recv" \in N
  <2>1. ~ (1 > Len(Calls(r))) /\ Calls(r)[1][1] \in N
    BY <1>1, <1>2 DEF Doing, Ended
  <2>2. ~ (number[r] >= TotMsgs)
    BY <2>1, PlayersCalls
  <2>3. Calls(r)[1] = << IF number[r] % 2 = r THEN "send" ELSE "recv", Other(r)>>
    BY <2>2, PlayersCalls
  <2>. QED
    BY <2>1, <2>3, <1>1 DEF Peer
<1>3. CASE SendOrPost(r)
  <2>1. Peer(r) = Other(r) /\ number[r] % 2 = r
    BY <1>2, <1>3 DEF SendOrPost
  <2>2. ~ Doing(r, {"isend"}) /\ ~ Doing(r, {"ssend"})
    BY <2>1, <1>2
  <2>. QED
    BY <1>1, <1>3, <2>1, <2>2 DEF SendOrPost, Serves
<1>4. CASE PostedReturns(r)
  <2>1. Peer(r) = Other(r)
    BY <1>2, <1>4 DEF PostedReturns, PostedAtSend
  <2>. QED
    BY <1>1, <1>4, <2>1 DEF PostedReturns, GoesOn
<1>5. ASSUME NEW s \in World, ReceiveNumber(r, s) PROVE Takes(r)
  <2>1. Peer(r) = Other(r) /\ number[r] % 2 # r
    BY <1>2, <1>5 DEF ReceiveNumber
  <2>2. s = Other(r)
    BY <2>1, <1>5, WorldFacts DEF ReceiveNumber, Anyone
  <2>. QED
    BY <1>5, <2>1, <2>2 DEF ReceiveNumber, Takes
<1>6. ~ WaitReturns(r) /\ ~ ProbeReturns(r) /\ ~ Collective(r)
  BY <1>2 DEF WaitReturns, ProbeReturns, Collective
<1>. QED
  BY <1>3, <1>4, <1>5, <1>6 DEF ProgStep

LEMMA OneItem == \A m \in Nat : /\ <<m>> # <<>> /\ Head(<<m>>) = m /\ Tail(<<m>>) = <<>> /\ Append(<<>>, m) = <<m>>
                                /\ Len(<<m>>) = 1 /\ Len(<<>>) = 0
  OBVIOUS

LEMMA PingPongKept ==
  ASSUME ProgTypes, PostedAtSend, PingPong, NEW q \in World, ProgStep(q), UNCHANGED eager
  PROVE  PingPong'
<1> SUFFICES ASSUME program = "ping_pong" PROVE \E t \in {0, 1}, m \in Nat : m % 2 = t /\ Turns(t, m)'
  BY OthersStay DEF PingPong
<1>1. PICK s \in {0, 1}, n \in Nat : n % 2 = s /\ Turns(s, n)
  BY DEF PingPong
<1> DEFINE o == Other(s)
<1>2. o \in {0, 1} /\ o # s /\ Other(o) = s /\ s \in Procs /\ o \in Procs /\ o = Other(s) /\ q \in {s, o}
  BY WorldFacts DEF Other, Pairs
<1>3. (n + 1) % 2 = o /\ n + 1 \in Nat /\ n + 2 = (n + 1) + 1 /\ n + 2 \in Nat
  <2>1. (n + 1) % 2 = 1 - s
    BY <1>1, SMT
  <2>. QED
    BY <2>1 DEF Other
<1>4. Serves(q) \/ GoesOn(q) \/ Takes(q)
  BY <1>2, PlayerDoes
<1> HIDE DEF o
\* What a change of a player's number or of the messages does to what Players looks at.
<1>5. number \in [Procs -> Nat] /\ channel \in [Procs -> [Procs -> Seq(Nat)]]
  BY DEF ProgTypes
<1>6. \A r \in {s, o} : \A m : number' = [number EXCEPT ![r] = m] =>
        \A t \in {s, o} : number'[t] = IF t = r THEN m ELSE number[t]
  BY <1>2, <1>5, ZenonT(100)
<1>7. \A r \in {s, o} : \A c : channel' = [channel EXCEPT ![r][Other(r)] = c] =>
        \A t \in {s, o} : channel'[t][Other(t)] = IF t = r THEN c ELSE channel[t][Other(t)]
  BY SMTT(60), <1>2, <1>5
<1>13. /\ Append(<<>>, n + 1) = <<n + 1>> /\ Append(<<>>, (n + 1) + 1) = <<n + 2>>
       /\ <<n + 1>> # <<>> /\ Head(<<n + 1>>) = n + 1 /\ Tail(<<n + 1>>) = <<>>
  BY <1>3, OneItem
<1>8. CASE Players(s, n, n, <<>>, <<>>, {})
  <2>1. q = s /\ Serves(s)
    BY <1>1, <1>2, <1>4, <1>8 DEF Players, Serves, GoesOn, Takes
  <2>2. channel'[s][o] = <<n + 1>> /\ channel'[o][s] = <<>>
    <3>1. channel' = [channel EXCEPT ![s][Other(s)] = <<n + 1>>]
      BY <2>1, <1>8, <1>13 DEF Players, Serves
    <3>. QED
      BY <3>1, <1>2, <1>7, <1>8, ZenonT(100) DEF Players
  <2>3. CASE eager
    <3>1. number'[s] = n + 1 /\ number'[o] = n /\ posted' = {}
      BY <2>1, <2>3, <1>2, <1>6, <1>8 DEF Players, Serves
    <3>2. Players(s, n + 1, n, <<n + 1>>, <<>>, {})'
      BY <2>2, <3>1, <1>2 DEF Players, Other
    <3>. QED
      BY <3>2, <2>3, <1>1 DEF Turns
  <2>4. CASE ~ eager
    <3>1. number'[s] = n /\ number'[o] = n /\ posted' = {s}
      BY <2>1, <2>4, <1>2, <1>8 DEF Players, Serves
    <3>2. Players(s, n, n, <<n + 1>>, <<>>, {s})'
      BY <2>2, <3>1, <1>2 DEF Players, Other
    <3>. QED
      BY <3>2, <2>4, <1>1 DEF Turns
  <2>. QED
    BY <2>3, <2>4
<1>9. CASE eager /\ Players(s, n + 1, n, <<n + 1>>, <<>>, {})
  <2>1. q = o /\ Takes(o)
    BY <1>1, <1>2, <1>3, <1>4, <1>9 DEF Players, Serves, GoesOn, Takes
  <2>2. channel'[s][o] = <<>> /\ channel'[o][s] = <<>>
    <3>1. channel' = [channel EXCEPT ![s][Other(s)] = <<>>]
      BY <2>1, <1>2, <1>9, <1>13 DEF Players, Takes
    <3>. QED
      BY <3>1, <1>2, <1>5, <1>9 DEF Players
  <2>3. number'[o] = n + 1 /\ number'[s] = n + 1 /\ posted' = {}
    <3>1. number' = [number EXCEPT ![o] = n + 1]
      BY <2>1, <1>2, <1>9, <1>13 DEF Players, Takes
    <3>. QED
      BY <2>1, <3>1, <1>2, <1>6, <1>9 DEF Players, Takes
  <2>4. Players(o, n + 1, n + 1, <<>>, <<>>, {})'
    BY <2>2, <2>3, <1>2 DEF Players, Other
  <2>. QED
    BY <2>4, <1>2, <1>3 DEF Turns
<1>10. CASE ~ eager /\ Players(s, n, n, <<n + 1>>, <<>>, {s})
  <2>1. q = o /\ Takes(o)
    BY <1>1, <1>2, <1>3, <1>4, <1>10, OneItem DEF Players, Serves, GoesOn, Takes
  <2>2. channel'[s][o] = <<>> /\ channel'[o][s] = <<>>
    <3>1. channel' = [channel EXCEPT ![s][Other(s)] = <<>>]
      BY <2>1, <1>2, <1>10, <1>13 DEF Players, Takes
    <3>. QED
      BY <3>1, <1>2, <1>5, <1>10 DEF Players
  <2>3. number'[o] = n + 1 /\ number'[s] = n /\ posted' = {s}
    <3>1. number' = [number EXCEPT ![o] = n + 1]
      BY <2>1, <1>2, <1>10, <1>13 DEF Players, Takes
    <3>. QED
      BY <2>1, <3>1, <1>2, <1>6, <1>10 DEF Players, Takes
  <2>4. Players(s, n, n + 1, <<>>, <<>>, {s})'
    BY <2>2, <2>3, <1>2 DEF Players, Other
  <2>. QED
    BY <2>4, <1>1, <1>10 DEF Turns
<1>11. CASE ~ eager /\ Players(s, n, n + 1, <<>>, <<>>, {s})
  <2>1. CASE q = s /\ GoesOn(s)
    <3>1. channel'[s][o] = <<>> /\ channel'[o][s] = <<>>
      BY <2>1, <1>2, <1>11 DEF Players, GoesOn
    <3>2. number'[s] = n + 1 /\ number'[o] = n + 1 /\ posted' = {}
      BY <2>1, <1>2, <1>6, <1>11 DEF Players, GoesOn
    <3>3. Players(o, n + 1, n + 1, <<>>, <<>>, {})'
      BY <3>1, <3>2, <1>2 DEF Players, Other
    <3>. QED
      BY <3>3, <1>2, <1>3 DEF Turns
  <2>2. CASE q = o /\ Serves(o)
    <3>1. channel'[o][s] = <<n + 2>> /\ channel'[s][o] = <<>>
      <4>1. channel' = [channel EXCEPT ![o][Other(o)] = <<n + 2>>]
        BY <2>2, <1>2, <1>11, <1>13 DEF Players, Serves
      <4>. QED
        BY <4>1, <1>2, <1>7, <1>11 DEF Players
    <3>2. number'[s] = n /\ number'[o] = n + 1 /\ posted' = {0, 1}
      BY <2>2, <1>2, <1>11 DEF Players, Serves
    <3>3. Players(s, n, n + 1, <<>>, <<n + 2>>, {0, 1})'
      BY <3>1, <3>2, <1>2 DEF Players, Other
    <3>. QED
      BY <3>3, <1>1, <1>11 DEF Turns
  <2>3. (q = s /\ GoesOn(s)) \/ (q = o /\ Serves(o))
    BY <1>1, <1>2, <1>3, <1>4, <1>11 DEF Players, Serves, GoesOn, Takes
  <2>. QED
    BY <2>1, <2>2, <2>3
<1>12. CASE ~ eager /\ Players(s, n, n + 1, <<>>, <<n + 2>>, {0, 1})
  <2>0. /\ number[s] = n /\ number[o] = n + 1 /\ posted = {0, 1}
        /\ channel[s][o] = <<>> /\ channel[o][s] = <<n + 2>> /\ <<n + 2>> # <<>>
    BY <1>2, <1>3, <1>12, OneItem DEF Players
  <2>1. q = s /\ GoesOn(s)
    <3>1. ~ Serves(q)
      BY <1>2, <2>0 DEF Serves
    <3>2. ~ Takes(q)
      BY <1>1, <1>2, <1>3, <2>0 DEF Takes
    <3>3. ~ GoesOn(o)
      BY <1>2, <2>0 DEF GoesOn
    <3>. QED
      BY <1>2, <1>4, <3>1, <3>2, <3>3
  <2>2. channel'[s][o] = <<>> /\ channel'[o][s] = <<n + 2>>
    BY <2>1, <1>2, <1>12 DEF Players, GoesOn
  <2>3. number'[s] = n + 1 /\ number'[o] = n + 1 /\ posted' = {o}
    <3>1. number' = [number EXCEPT ![s] = n + 1] /\ posted' = posted \ {s}
      BY <2>0, <2>1 DEF GoesOn
    <3>2. number'[s] = n + 1 /\ number'[o] = number[o]
      BY <1>2, <1>5, <3>1
    <3>. QED
      BY <1>2, <2>0, <3>1, <3>2
  <2>4. Players(o, n + 1, n + 1, <<(n + 1) + 1>>, <<>>, {o})'
    BY <2>2, <2>3, <1>2, <1>3 DEF Players, Other
  <2>. QED
    BY <2>4, <1>2, <1>3, <1>12 DEF Turns
<1>. QED
  BY <1>1, <1>8, <1>9, <1>10, <1>11, <1>12 DEF Turns

LEMMA ProgInvAlways == ProgInv /\ [Next]_vars => ProgInv'
<1> SUFFICES ASSUME ProgInv, [Next]_vars PROVE ProgInv'
  OBVIOUS
<1>1. CASE ProgNext /\ UNCHANGED eager
  <2>1. PICK r \in World : ProgStep(r)
    BY <1>1 DEF ProgNext
  <2>. QED
    BY <2>1, <1>1, ProgTypesKept, PostedAtSendKept, HangsInSendKept, HangsInReceiveKept, RingRanksKept,
      PingPongKept DEF ProgInv
<1>2. CASE UNCHANGED <<eager, progVars>>
  <2>1. World' = World /\ program' = program
    BY <1>2 DEF World, progVars
  <2>2. ProgTypes' /\ HangsInSend' /\ HangsInReceive' /\ RingRanks'
    BY <1>2, <2>1 DEF ProgInv, ProgTypes, HangsInSend, HangsInReceive, RingRanks, progVars
  <2>3. PostedAtSend'
    BY ZenonT(100), <1>2 DEF ProgInv, PostedAtSend, progVars, Doing, Ended, Next1, Calls, deadlock, deadlock_avoid_isend,
      deadlock_avoid_sendrecv, ping_pong, probe, recv, ring, hello_world, average, monte_carlo
  <2>4. PingPong'
    BY <1>2 DEF ProgInv, PingPong, Turns, Players, progVars
  <2>. QED
    BY <2>2, <2>3, <2>4 DEF ProgInv
<1>. QED
  BY <1>1, <1>2 DEF Next, vars, Road, Chars, Filters, AntsRun, Scripts

LEMMA ProgInvImplies == ProgInv => ProgTypeOK /\ RingHops /\ PingPongInStep /\ HangAsDocumented
<1> SUFFICES ASSUME ProgInv PROVE ProgTypeOK /\ RingHops /\ PingPongInStep /\ HangAsDocumented
  OBVIOUS
<1>1. ProgTypeOK
  <2>1. 0 .. 4 \subseteq 0 .. NumProcs + 3
    OBVIOUS
  <2>. QED
    BY <2>1, WorldFacts DEF ProgInv, ProgTypes, ProgTypeOK
<1>2. RingHops
  <2> SUFFICES ASSUME program = "ring", Ended(0) PROVE number[0] = NumProcs
    BY DEF RingHops
  <2>1. Len(Calls(0)) = 2 /\ call[0] \in 0 .. 4 /\ 0 \in Procs
    BY RingsCalls, WorldFacts DEF ProgInv, ProgTypes
  <2>2. call[0] + 1 > 2
    BY <2>1 DEF Ended, Next1
  <2>3. call[0] # 0 /\ call[0] # 1
    BY <2>1, <2>2
  <2>. QED
    BY <2>1, <2>3 DEF ProgInv, RingRanks
<1>3. PingPongInStep
  <2> SUFFICES ASSUME program = "ping_pong"
               PROVE  number[0] - number[1] \in {-1, 0, 1} /\ Len(channel[0][1]) + Len(channel[1][0]) <= 1
    BY DEF PingPongInStep
  <2>1. PICK s \in {0, 1}, n \in Nat : Turns(s, n)
    BY DEF ProgInv, PingPong
  <2>2. n + 1 \in Nat /\ n + 2 \in Nat
    OBVIOUS
  <2>3. /\ number[s] \in {n, n + 1} /\ number[Other(s)] \in {n, n + 1}
        /\ \/ channel[s][Other(s)] = <<>> /\ channel[Other(s)][s] = <<>>
           \/ channel[s][Other(s)] = <<n + 1>> /\ channel[Other(s)][s] = <<>>
           \/ channel[s][Other(s)] = <<>> /\ channel[Other(s)][s] = <<n + 2>>
    BY <2>1 DEF Turns, Players
  <2>4. Len(channel[s][Other(s)]) + Len(channel[Other(s)][s]) <= 1
    <3>1. Len(<<n + 1>>) = 1 /\ Len(<<n + 2>>) = 1 /\ Len(<<>>) = 0
      BY <2>2, OneItem
    <3>2. 0 + 0 <= 1 /\ 1 + 0 <= 1 /\ 0 + 1 <= 1
      OBVIOUS
    <3>. QED
      BY <2>3, <3>1, <3>2
  <2>5. (s = 0 /\ Other(s) = 1) \/ (s = 1 /\ Other(s) = 0)
    BY DEF Other
  <2>6. number[0] \in {n, n + 1} /\ number[1] \in {n, n + 1}
    BY <2>3, <2>5
  <2>7. number[0] - number[1] \in {-1, 0, 1}
    <3> DEFINE a == number[0]
               b == number[1]
    <3>1. a \in {n, n + 1} /\ b \in {n, n + 1}
      BY <2>6
    <3> HIDE DEF a, b
    <3>2. a - b \in {-1, 0, 1}
      BY <3>1
    <3>. QED
      BY <3>2 DEF a, b
  <2>8. Len(channel[0][1]) + Len(channel[1][0]) <= 1
    <3>1. Len(channel[0][1]) \in Nat /\ Len(channel[1][0]) \in Nat
      BY WorldFacts DEF ProgInv, ProgTypes
    <3> DEFINE a == Len(channel[0][1])
               b == Len(channel[1][0])
    <3>2. a \in Nat /\ b \in Nat /\ (a + b <= 1 \/ b + a <= 1)
      BY <2>4, <2>5, <3>1
    <3> HIDE DEF a, b
    <3>3. a + b <= 1
      BY <3>2
    <3>. QED
      BY <3>3 DEF a, b
  <2>. QED
    BY <2>7, <2>8
<1>4. HangAsDocumented
  <2>1. program = "deadlock" => \A r \in World : call[r] = 0
    BY DEF ProgInv, HangsInSend
  <2>2. ASSUME program = "recv", NEW r \in World \ {0} PROVE ~ Ended(r)
    <3>1. r \in Procs /\ r > 0
      BY <2>2, WorldFacts DEF Pairs
    <3>2. call[r] = 0 /\ Len(Calls(r)) = 1
      BY <2>2, <3>1, RecvCalls DEF ProgInv, HangsInReceive
    <3>. QED
      BY <2>2, <3>2 DEF Ended, Next1
  <2>. QED
    BY <2>1, <2>2 DEF HangAsDocumented
<1>. QED
  BY <1>1, <1>2, <1>3, <1>4

(***************************************************************************)
(* The filter.                                                             *)
(***************************************************************************)

USE FilterAssumption

Num(r) == get_num_multiples(local_array[r])
Mul(r) == get_multiples(local_array[r])

CountSent(r)     == stage[r] \in {"count_posted", "send_array", "array_posted", "barrier", "done"}
ArraySent(r)     == stage[r] = "array_posted" \/ (stage[r] \in {"barrier", "done"} /\ Num(r) > 0)
ArrayReceived(r) == ArraySent(r) /\ r < proc /\ toMaster[r] = <<>>

FilterTypes ==
  /\ stage \in [Procs -> {"create", "bcast", "send_count", "count_posted", "send_array",
                          "array_posted", "counts", "results", "barrier", "done"}]
  /\ local_array \in [Workers -> Seq(ElementValues)]
  /\ DOMAIN toMaster = Workers /\ toMaster = [r \in Workers |-> toMaster[r]]
  /\ proc \in 1 .. NumProcs /\ num_receive \in Nat /\ out_size \in Nat
  /\ status \in Workers \cup {Nobody} /\ result \in Seq(ElementValues)

\* What a worker has sent and the master has not received.
UnderWay(r) ==
  IF ~ CountSent(r) THEN {<<>>}
  ELSE IF r < proc THEN IF ArraySent(r) THEN {<<>>, << Mul(r) >>} ELSE {<<>>}
  ELSE IF ArraySent(r) THEN {<< <<Num(r)>>, Mul(r) >>} ELSE {<< <<Num(r)>> >>}

WorkerAt(r) ==
  /\ stage[r] \in {"create", "bcast", "send_count"} \/ CountSent(r)
  /\ IF stage[r] = "create" THEN local_array[r] = <<>> ELSE local_array[r] \in [1 .. NumElements -> ElementValues]
  /\ stage[r] \in {"send_array", "array_posted"} => Num(r) > 0
  /\ r < proc => CountSent(r)
  /\ toMaster[r] \in UnderWay(r)

MasterAt ==
  /\ stage[0] \in {"bcast", "counts", "results", "barrier", "done"}
  /\ stage[0] \in {"bcast", "counts"} => proc < NumProcs
  /\ stage[0] = "results" => proc = NumProcs /\ num_receive > 0
  /\ stage[0] \in {"barrier", "done"} => proc = NumProcs /\ num_receive = 0
  /\ status # Nobody => stage[0] = "results" /\ toMaster[status] # <<>>

\* The workers whose results are still to be received, as far as the counts are known.
Waiting == {r \in Workers : r < proc /\ Num(r) > 0 /\ ~ ArrayReceived(r)}

\* What is still to be received of each worker, and what was received of a value.
Pending == [r \in Workers |-> IF r < proc /\ ~ ArrayReceived(r) THEN Num(r) ELSE 0]
Got(v)  == [r \in Workers |-> IF ArrayReceived(r) THEN Occurrences(Mul(r), v) ELSE 0]

Tallies ==
  /\ num_receive = Cardinality(Waiting)
  /\ out_size = Len(result) + SumFunctionOnSet(Pending, Workers)
  /\ \A v \in ElementValues : Occurrences(result, v) = SumFunctionOnSet(Got(v), Workers)

FilterInv == FilterTypes /\ (\A r \in Workers : WorkerAt(r)) /\ MasterAt /\ Tallies

LEMMA WorkersFacts ==
  /\ IsFiniteSet(Workers) /\ Cardinality(Workers) = NumProcs - 1
  /\ \A r \in Workers : r \in Procs /\ r # 0 /\ r \in Nat /\ r < NumProcs /\ r # Nobody
  /\ \A r \in 1 .. NumProcs : r < NumProcs => r \in Workers
  /\ 0 \in Procs
<1>1. IsFiniteSet(1 .. NumProcs - 1) /\ Cardinality(1 .. NumProcs - 1) = NumProcs - 1
  <2>1. NumProcs - 1 \in Nat
    OBVIOUS
  <2> DEFINE n == NumProcs - 1
  <2>2. n \in Nat
    BY <2>1
  <2> HIDE DEF n
  <2>3. IsFiniteSet(1 .. n) /\ Cardinality(1 .. n) = n
    <3>1. Cardinality(1 .. n) = IF 1 > n THEN 0 ELSE n - 1 + 1
      BY <2>2, FS_Interval
    <3>2. IsFiniteSet(1 .. n)
      BY <2>2, FS_Interval
    <3>. QED
      BY <2>2, <3>1, <3>2
  <2>. QED
    BY <2>3 DEF n
<1>2. Workers = 1 .. NumProcs - 1
  BY DEF Workers, Procs
<1>. QED
  BY <1>1, <1>2 DEF Procs, Nobody

LEMMA NumFacts ==
  ASSUME FilterTypes, NEW r \in Workers
  PROVE  /\ Num(r) \in Nat /\ Mul(r) \in Seq(ElementValues) /\ Len(Mul(r)) = Num(r)
         /\ \A v \in ElementValues :
              /\ Occurrences(Mul(r), v) = IF IsMultiple(v) THEN Occurrences(local_array[r], v) ELSE 0
              /\ Occurrences(Mul(r), v) \in Nat
<1>1. local_array[r] \in Seq(ElementValues)
  BY DEF FilterTypes
<1> DEFINE in == local_array[r]
<1>2. in \in Seq(ElementValues)
  BY <1>1
<1> HIDE DEF in
<1>3. /\ get_multiples(in) \in Seq(ElementValues) /\ get_num_multiples(in) \in Nat
      /\ Len(get_multiples(in)) = get_num_multiples(in)
      /\ \A v \in ElementValues : Occurrences(get_multiples(in), v) = IF IsMultiple(v) THEN Occurrences(in, v) ELSE 0
  BY <1>2, GetMultiples
<1>4. \A v \in ElementValues : Occurrences(get_multiples(in), v) \in Nat
  BY <1>3, OccurrencesAre
<1>. QED
  BY <1>3, <1>4 DEF Num, Mul, in

LEMMA ArrayFits == ASSUME NEW arr \in [1 .. NumElements -> ElementValues] PROVE arr \in Seq(ElementValues)
  OBVIOUS

LEMMA MessageFacts ==
  \A a, b : /\ <<a>> # <<>> /\ <<a, b>> # <<>> /\ Head(<<a>>) = a /\ Tail(<<a>>) = <<>>
            /\ Head(<<a, b>>) = a /\ Tail(<<a, b>>) = <<b>>
  OBVIOUS

LEMMA Appended == \A a, b : Append(<<>>, a) = <<a>> /\ Append(<<a>>, b) = <<a, b>>
<1> SUFFICES ASSUME NEW a, NEW b PROVE Append(<<>>, a) = <<a>> /\ Append(<<a>>, b) = <<a, b>>
  OBVIOUS
<1>1. Append(<<>>, a) = <<a>>
  OBVIOUS
<1>2. <<a>> \in Seq({a, b}) /\ b \in {a, b}
  OBVIOUS
<1>3. Append(<<a>>, b) = <<a>> \o <<b>>
  BY <1>2, AppendIsConcat
<1>. QED
  BY <1>1, <1>3, Joined

LEMMA FilterInitially == FilterInit => FilterInv
<1> SUFFICES ASSUME FilterInit PROVE FilterInv
  OBVIOUS
<1>1. FilterTypes
  BY WorkersFacts DEF FilterInit, FilterTypes
<1>2. \A r \in Workers : stage[r] = "create" /\ local_array[r] = <<>> /\ toMaster[r] = <<>>
  BY WorkersFacts DEF FilterInit
<1>3. \A r \in Workers : ~ CountSent(r) /\ ~ ArraySent(r) /\ ~ ArrayReceived(r)
  BY <1>2 DEF CountSent, ArraySent, ArrayReceived
<1>4. \A r \in Workers : ~ (r < proc)
  BY WorkersFacts DEF FilterInit
<1>5. \A r \in Workers : WorkerAt(r)
  BY <1>2, <1>3, <1>4 DEF WorkerAt, UnderWay
<1>6. MasterAt
  BY WorkersFacts DEF MasterAt, FilterInit
<1>7. Tallies
  <2>1. Waiting = {} /\ (\A r \in Workers : Pending[r] = 0) /\ \A v : \A r \in Workers : Got(v)[r] = 0
    BY <1>3, <1>4 DEF Waiting, Pending, Got
  <2>2. SumFunctionOnSet(Pending, Workers) = 0
    BY <2>1, WorkersFacts, SumZero
  <2>3. ASSUME NEW v \in ElementValues PROVE Occurrences(result, v) = SumFunctionOnSet(Got(v), Workers)
    <3>1. SumFunctionOnSet(Got(v), Workers) = 0
      BY <2>1, WorkersFacts, SumZero
    <3>2. DOMAIN <<>> = {}
      OBVIOUS
    <3>3. Occurrences(<<>>, v) = 0
      BY <3>2, FS_EmptySet DEF Occurrences
    <3>. QED
      BY <3>1, <3>3 DEF FilterInit
  <2>4. num_receive = Cardinality(Waiting) /\ Len(result) = 0 /\ out_size = 0
    BY <2>1, FS_EmptySet DEF FilterInit
  <2>. QED
    BY <2>2, <2>3, <2>4 DEF Tallies
<1>. QED
  BY <1>1, <1>5, <1>6, <1>7 DEF FilterInv

\* Steps that receive nothing.
LEMMA TalliesKept ==
  ASSUME Tallies, UNCHANGED <<proc, num_receive, out_size, result>>,
         \A q \in Workers : /\ ArrayReceived(q)' <=> ArrayReceived(q)
                            /\ q < proc => local_array'[q] = local_array[q]
  PROVE  Tallies'
<1>1. \A q \in Workers : q < proc => Num(q)' = Num(q) /\ Mul(q)' = Mul(q)
  BY DEF Num, Mul
<1>2. \A q \in Workers : ArrayReceived(q) => q < proc
  BY DEF ArrayReceived
<1>3. Waiting' = Waiting
  BY <1>1 DEF Waiting
<1>4. Pending' = Pending
  BY <1>1 DEF Pending
<1>5. \A v : Got(v)' = Got(v)
  BY <1>1, <1>2 DEF Got
<1>. QED
  BY <1>3, <1>4, <1>5 DEF Tallies

LEMMA WorkerStays ==
  ASSUME NEW q \in Workers, WorkerAt(q), stage'[q] = stage[q], local_array'[q] = local_array[q],
         toMaster'[q] = toMaster[q], q < proc' <=> q < proc
  PROVE  WorkerAt(q)' /\ (ArrayReceived(q)' <=> ArrayReceived(q))
<1>1. Num(q)' = Num(q) /\ Mul(q)' = Mul(q)
  BY DEF Num, Mul
<1>2. CountSent(q)' = CountSent(q) /\ ArraySent(q)' = ArraySent(q)
  BY <1>1 DEF CountSent, ArraySent
<1>3. UnderWay(q)' = UnderWay(q)
  BY <1>1, <1>2 DEF UnderWay
<1>. QED
  BY <1>1, <1>2, <1>3 DEF WorkerAt, ArrayReceived

\* A step of one worker, or of one rank that receives nothing.
LEMMA WorkerMoves ==
  ASSUME FilterInv, NEW r \in Workers, FilterTypes', WorkerAt(r)',
         ArrayReceived(r)' <=> ArrayReceived(r), r < proc => local_array'[r] = local_array[r],
         \A q \in Procs \ {r} : stage'[q] = stage[q],
         \A q \in Workers \ {r} : local_array'[q] = local_array[q] /\ toMaster'[q] = toMaster[q],
         UNCHANGED <<proc, num_receive, out_size, status, result>>,
         status = r => toMaster'[r] # <<>>
  PROVE  FilterInv'
<1>1. ASSUME NEW q \in Workers, q # r PROVE WorkerAt(q)' /\ (ArrayReceived(q)' <=> ArrayReceived(q)) /\ local_array'[q] = local_array[q]
  <2>1. stage'[q] = stage[q] /\ local_array'[q] = local_array[q] /\ toMaster'[q] = toMaster[q] /\ WorkerAt(q)
    BY <1>1, WorkersFacts DEF FilterInv
  <2>2. q < proc' <=> q < proc
    OBVIOUS
  <2>. QED
    BY <2>1, <2>2, WorkerStays
<1>2. Tallies'
  <2>1. \A q \in Workers : /\ ArrayReceived(q)' <=> ArrayReceived(q)
                           /\ q < proc => local_array'[q] = local_array[q]
    BY <1>1
  <2>2. Tallies
    BY DEF FilterInv
  <2>. QED
    BY <2>1, <2>2, TalliesKept
<1>3. MasterAt'
  <2>1. stage'[0] = stage[0] /\ r # 0
    BY WorkersFacts
  <2>2. status # Nobody => status \in Workers /\ toMaster'[status] # <<>>
    BY DEF FilterInv, FilterTypes, MasterAt
  <2>. QED
    BY <2>1, <2>2 DEF FilterInv, MasterAt
<1>. QED
  BY <1>1, <1>2, <1>3 DEF FilterInv

LEMMA CreateArrayStep == ASSUME FilterInv, NEW r \in Workers, CreateArray(r) PROVE FilterInv'
<1>1. PICK arr \in [1 .. NumElements -> ElementValues] : local_array' = [local_array EXCEPT ![r] = arr]
  BY DEF CreateArray
<1>2. stage[r] = "create" /\ stage' = [stage EXCEPT ![r] = "bcast"] /\ UNCHANGED <<toMaster, proc, num_receive, out_size, status, result>>
  BY DEF CreateArray
<1>3. FilterTypes /\ WorkerAt(r) /\ MasterAt /\ r \in Procs /\ r # 0
  BY WorkersFacts DEF FilterInv
<1>4. stage'[r] = "bcast" /\ \A q \in Procs \ {r} : stage'[q] = stage[q]
  BY <1>2, <1>3 DEF FilterTypes
<1>5. local_array'[r] = arr /\ \A q \in Workers \ {r} : local_array'[q] = local_array[q]
  BY <1>1, <1>3 DEF FilterTypes
<1>6. FilterTypes'
  <2>1. arr \in Seq(ElementValues)
    BY ArrayFits
  <2>. QED
    BY <1>1, <1>2, <1>3, <2>1 DEF FilterTypes
<1>7. ~ CountSent(r) /\ ~ ArrayReceived(r) /\ ~ CountSent(r)' /\ ~ ArrayReceived(r)'
  BY <1>2, <1>4 DEF CountSent, ArraySent, ArrayReceived
<1>8. ~ (r < proc) /\ toMaster[r] = <<>>
  BY <1>3, <1>7 DEF WorkerAt, UnderWay
<1>9. WorkerAt(r)'
  BY <1>2, <1>4, <1>5, <1>7, <1>8 DEF WorkerAt, UnderWay
<1>10. status = r => toMaster'[r] # <<>>
  BY <1>2, <1>3, WorkersFacts DEF MasterAt
<1>. QED
  BY <1>2, <1>4, <1>5, <1>6, <1>7, <1>8, <1>9, <1>10, WorkerMoves

\* A rank goes on with nothing sent or received.
LEMMA WorkerPasses ==
  ASSUME FilterInv, NEW r \in Workers, NEW s,
         s \in {"create", "bcast", "send_count", "count_posted", "send_array",
                "array_posted", "counts", "results", "barrier", "done"},
         stage' = [stage EXCEPT ![r] = s],
         UNCHANGED <<local_array, toMaster, proc, num_receive, out_size, status, result>>,
         s \in {"bcast", "send_count"} \/ CountSent(r)', stage[r] # "create",
         CountSent(r)' <=> CountSent(r), ArraySent(r)' <=> ArraySent(r),
         s \in {"send_array", "array_posted"} => Num(r) > 0
  PROVE  FilterInv'
<1>1. FilterTypes /\ WorkerAt(r) /\ MasterAt /\ r \in Procs /\ r # 0
  BY WorkersFacts DEF FilterInv
<1>2. stage'[r] = s /\ \A q \in Procs \ {r} : stage'[q] = stage[q]
  BY <1>1 DEF FilterTypes
<1>3. FilterTypes'
  BY <1>1 DEF FilterTypes
<1>4. Num(r)' = Num(r) /\ Mul(r)' = Mul(r)
  BY DEF Num, Mul
<1>5. UnderWay(r)' = UnderWay(r)
  BY <1>4 DEF UnderWay
<1>6. stage'[r] # "create"
  BY <1>2 DEF CountSent
<1>7. WorkerAt(r)'
  BY <1>1, <1>2, <1>4, <1>5, <1>6 DEF WorkerAt
<1>8. ArrayReceived(r)' <=> ArrayReceived(r)
  BY DEF ArrayReceived
<1>9. status = r => toMaster'[r] # <<>>
  BY <1>1, WorkersFacts DEF MasterAt
<1>. QED
  BY <1>2, <1>3, <1>7, <1>8, <1>9, WorkerMoves

\* The master goes on with nothing received.
LEMMA MasterPasses ==
  ASSUME FilterInv, \A q \in Workers : stage'[q] = stage[q], FilterTypes', MasterAt',
         UNCHANGED <<local_array, toMaster, proc, num_receive, out_size, result>>
  PROVE  FilterInv'
<1>1. ASSUME NEW q \in Workers PROVE WorkerAt(q)' /\ (ArrayReceived(q)' <=> ArrayReceived(q)) /\ local_array'[q] = local_array[q]
  <2>1. stage'[q] = stage[q] /\ local_array'[q] = local_array[q] /\ toMaster'[q] = toMaster[q] /\ WorkerAt(q)
    BY DEF FilterInv
  <2>2. q < proc' <=> q < proc
    OBVIOUS
  <2>. QED
    BY <2>1, <2>2, WorkerStays
<1>2. Tallies'
  <2>1. \A q \in Workers : /\ ArrayReceived(q)' <=> ArrayReceived(q)
                           /\ q < proc => local_array'[q] = local_array[q]
    BY <1>1
  <2>2. Tallies
    BY DEF FilterInv
  <2>. QED
    BY <2>1, <2>2, TalliesKept
<1>. QED
  BY <1>1, <1>2 DEF FilterInv

LEMMA LeaveBcastStep == ASSUME FilterInv, NEW r \in Procs, LeaveBcast(r) PROVE FilterInv'
<1>1. FilterTypes /\ MasterAt /\ stage[r] = "bcast"
  BY DEF FilterInv, LeaveBcast
<1>2. CASE r = 0
  <2>1. stage' = [stage EXCEPT ![0] = "counts"] /\ UNCHANGED <<local_array, toMaster, proc, num_receive, out_size, status, result>>
    BY <1>2 DEF LeaveBcast
  <2>2. FilterTypes' /\ stage'[0] = "counts" /\ \A q \in Workers : stage'[q] = stage[q]
    BY <1>1, <2>1, WorkersFacts DEF FilterTypes
  <2>3. MasterAt'
    BY <1>1, <1>2, <2>1, <2>2 DEF MasterAt
  <2>. QED
    BY <2>1, <2>2, <2>3, MasterPasses
<1>3. CASE r # 0
  <2>1. r \in Workers
    BY <1>3 DEF Workers
  <2>2. stage' = [stage EXCEPT ![r] = "send_count"] /\ UNCHANGED <<local_array, toMaster, proc, num_receive, out_size, status, result>>
    BY <1>3 DEF LeaveBcast
  <2>3. stage'[r] = "send_count"
    BY <1>1, <2>2 DEF FilterTypes
  <2>4. ~ CountSent(r)' /\ ~ CountSent(r) /\ ~ ArraySent(r)' /\ ~ ArraySent(r)
    BY <1>1, <2>3 DEF CountSent, ArraySent
  <2>. QED
    BY <1>1, <2>1, <2>2, <2>4, WorkerPasses
<1>. QED
  BY <1>2, <1>3

LEMMA LeaveFilterStep == ASSUME FilterInv, NEW r \in Procs, LeaveFilter(r) PROVE FilterInv'
<1>1. FilterTypes /\ MasterAt /\ stage[r] = "barrier" /\ stage' = [stage EXCEPT ![r] = "done"]
      /\ UNCHANGED <<local_array, toMaster, proc, num_receive, out_size, status, result>>
  BY DEF FilterInv, LeaveFilter
<1>2. CASE r = 0
  <2>2. FilterTypes' /\ stage'[0] = "done" /\ \A q \in Workers : stage'[q] = stage[q]
    BY <1>1, <1>2, WorkersFacts DEF FilterTypes
  <2>3. MasterAt'
    BY <1>1, <1>2, <2>2 DEF MasterAt
  <2>. QED
    BY <1>1, <2>2, <2>3, MasterPasses
<1>3. CASE r # 0
  <2>1. r \in Workers
    BY <1>3 DEF Workers
  <2>3. stage'[r] = "done"
    BY <1>1 DEF FilterTypes
  <2>4. Num(r)' = Num(r)
    BY <1>1 DEF Num
  <2>5. CountSent(r)' /\ CountSent(r) /\ (ArraySent(r)' <=> ArraySent(r))
    BY <1>1, <2>3, <2>4 DEF CountSent, ArraySent
  <2>. QED
    BY <1>1, <2>1, <2>5, WorkerPasses
<1>. QED
  BY <1>2, <1>3

LEMMA FilterProbeStep == ASSUME FilterInv, FilterProbe PROVE FilterInv'
<1>1. FilterTypes /\ MasterAt /\ stage[0] = "results" /\ UNCHANGED <<stage, local_array, toMaster, proc, num_receive, out_size, result>>
  BY DEF FilterInv, FilterProbe
<1>2. status' \in Workers /\ toMaster[status'] # <<>>
  BY DEF FilterProbe
<1>3. FilterTypes'
  BY <1>1, <1>2 DEF FilterTypes
<1>4. MasterAt'
  BY <1>1, <1>2 DEF MasterAt
<1>. QED
  BY <1>1, <1>3, <1>4, MasterPasses

LEMMA FilterSendReturnsStep == ASSUME FilterInv, NEW r \in Workers, FilterSendReturns(r) PROVE FilterInv'
<1> DEFINE s == IF stage[r] = "count_posted" THEN AfterCount(r) ELSE "barrier"
<1>1. /\ stage[r] \in {"count_posted", "array_posted"} /\ toMaster[r] = <<>>
      /\ stage' = [stage EXCEPT ![r] = s]
      /\ UNCHANGED <<local_array, toMaster, proc, num_receive, out_size, status, result>>
  BY DEF FilterSendReturns
<1>2. FilterTypes /\ WorkerAt(r) /\ r \in Procs
  BY WorkersFacts DEF FilterInv
<1>3. Num(r) \in Nat /\ Num(r)' = Num(r)
  BY <1>1, <1>2, NumFacts DEF Num
<1>4. s = IF stage[r] = "count_posted" /\ Num(r) > 0 THEN "send_array" ELSE "barrier"
  BY <1>1 DEF AfterCount, Num
<1>5. stage[r] = "array_posted" => Num(r) > 0
  BY <1>2 DEF WorkerAt
<1> HIDE DEF s
<1>6. stage'[r] = s
  BY <1>1, <1>2 DEF FilterTypes
<1>7. CountSent(r) /\ CountSent(r)' /\ (ArraySent(r)' <=> ArraySent(r))
  BY <1>1, <1>3, <1>4, <1>5, <1>6 DEF CountSent, ArraySent
<1>8. s \in {"send_array", "array_posted"} => Num(r) > 0
  BY <1>4
<1>9. s \in {"create", "bcast", "send_count", "count_posted", "send_array",
                "array_posted", "counts", "results", "barrier", "done"}
  BY <1>4
<1>. QED
  BY <1>1, <1>7, <1>8, <1>9, WorkerPasses

\* A worker goes on with a message sent.
LEMMA WorkerSends ==
  ASSUME FilterInv, NEW r \in Workers, NEW s,
         s \in {"create", "bcast", "send_count", "count_posted", "send_array",
                "array_posted", "counts", "results", "barrier", "done"},
         stage' = [stage EXCEPT ![r] = s], toMaster' = [toMaster EXCEPT ![r] = toMaster'[r]],
         UNCHANGED <<local_array, proc, num_receive, out_size, status, result>>,
         stage[r] # "create", ~ ArraySent(r), CountSent(r)',
         s \in {"send_array", "array_posted"} => Num(r) > 0,
         toMaster'[r] # <<>>, toMaster'[r] \in UnderWay(r)'
  PROVE  FilterInv'
<1>1. FilterTypes /\ WorkerAt(r) /\ MasterAt /\ r \in Procs /\ r # 0
  BY WorkersFacts DEF FilterInv
<1>2. stage'[r] = s /\ \A q \in Procs \ {r} : stage'[q] = stage[q]
  BY <1>1 DEF FilterTypes
<1>3. toMaster'[r] # <<>> /\ \A q \in Workers \ {r} : toMaster'[q] = toMaster[q]
  BY <1>1 DEF FilterTypes
<1>4. FilterTypes'
  <2>1. stage' \in [Procs -> {"create", "bcast", "send_count", "count_posted", "send_array",
                          "array_posted", "counts", "results", "barrier", "done"}]
    BY <1>1 DEF FilterTypes
  <2>2. DOMAIN toMaster' = Workers /\ toMaster' = [q \in Workers |-> toMaster'[q]]
    BY <1>1 DEF FilterTypes
  <2>. QED
    BY <1>1, <2>1, <2>2 DEF FilterTypes
<1>5. Num(r)' = Num(r)
  BY DEF Num
<1>6. stage'[r] # "create"
  BY <1>2 DEF CountSent
<1>7. WorkerAt(r)'
  BY <1>1, <1>2, <1>3, <1>5, <1>6 DEF WorkerAt
<1>8. ~ ArrayReceived(r) /\ ~ ArrayReceived(r)'
  BY <1>3 DEF ArrayReceived
<1>9. status = r => toMaster'[r] # <<>>
  BY <1>3
<1>. QED
  BY <1>2, <1>3, <1>4, <1>7, <1>8, <1>9, WorkerMoves

LEMMA FilterPostStep == ASSUME FilterInv, NEW r \in Workers, FilterPost(r) PROVE FilterInv'
<1>1. FilterTypes /\ WorkerAt(r) /\ r \in Procs /\ UNCHANGED <<local_array, proc, num_receive, out_size, status, result>>
  BY WorkersFacts DEF FilterInv, FilterPost
<1>2. Num(r) \in Nat /\ Num(r)' = Num(r) /\ Mul(r)' = Mul(r)
  BY <1>1, NumFacts DEF Num, Mul
<1>3. CASE stage[r] = "send_count"
  <2> DEFINE s == IF eager THEN AfterCount(r) ELSE "count_posted"
  <2>1. stage' = [stage EXCEPT ![r] = s] /\ toMaster' = [toMaster EXCEPT ![r] = Append(@, <<Num(r)>>)]
    BY <1>3 DEF FilterPost, Num
  <2>2. s = IF ~ eager THEN "count_posted" ELSE IF Num(r) > 0 THEN "send_array" ELSE "barrier"
    BY DEF AfterCount, Num
  <2> HIDE DEF s
  <2>3. stage'[r] = s
    BY <1>1, <2>1 DEF FilterTypes
  <2>4. ~ CountSent(r) /\ ~ ArraySent(r) /\ CountSent(r)' /\ ~ ArraySent(r)'
    BY <1>2, <1>3, <2>2, <2>3 DEF CountSent, ArraySent
  <2>5. ~ (r < proc) /\ toMaster[r] = <<>>
    BY <1>1, <2>4 DEF WorkerAt, UnderWay
  <2>6. Append(toMaster[r], <<Num(r)>>) = << <<Num(r)>> >>
    BY <2>5, Appended
  <2>7. UnderWay(r)' = {<< <<Num(r)>> >>}
    BY <1>1, <1>2, <2>4, <2>5 DEF UnderWay
  <2>8. Append(toMaster[r], <<Num(r)>>) # <<>> /\ Append(toMaster[r], <<Num(r)>>) \in UnderWay(r)'
    BY <2>6, <2>7, MessageFacts
  <2>9. s \in {"send_array", "array_posted"} => Num(r) > 0
    BY <2>2
  <2>10. s \in {"create", "bcast", "send_count", "count_posted", "send_array",
                "array_posted", "counts", "results", "barrier", "done"}
    BY <2>2
  <2>11. toMaster' = [toMaster EXCEPT ![r] = toMaster'[r]] /\ toMaster'[r] # <<>> /\ toMaster'[r] \in UnderWay(r)'
    BY <1>1, <2>1, <2>8 DEF FilterTypes
  <2>. QED
    <3>1. stage' = [stage EXCEPT ![r] = s] /\ UNCHANGED <<local_array, proc, num_receive, out_size, status, result>>
      BY <1>1, <2>1
    <3>2. ~ ArraySent(r) /\ CountSent(r)'
      BY <2>4
    <3>. QED
      BY <1>3, <2>9, <2>10, <2>11, <3>1, <3>2, WorkerSends
<1>4. CASE stage[r] = "send_array"
  <2> DEFINE s == IF eager THEN "barrier" ELSE "array_posted"
  <2>1. stage' = [stage EXCEPT ![r] = s] /\ toMaster' = [toMaster EXCEPT ![r] = Append(@, Mul(r))]
    BY <1>4 DEF FilterPost, Mul
  <2>2. s \in {"barrier", "array_posted"}
    OBVIOUS
  <2> HIDE DEF s
  <2>3. stage'[r] = s /\ Num(r) > 0
    BY <1>1, <1>4, <2>1 DEF FilterTypes, WorkerAt
  <2>4. CountSent(r) /\ ~ ArraySent(r) /\ CountSent(r)' /\ ArraySent(r)'
    BY <1>2, <1>4, <2>2, <2>3 DEF CountSent, ArraySent
  <2>5. toMaster[r] = IF r < proc THEN <<>> ELSE << <<Num(r)>> >>
    BY <1>1, <2>4 DEF WorkerAt, UnderWay
  <2>6. Append(toMaster[r], Mul(r)) = IF r < proc THEN <<Mul(r)>> ELSE << <<Num(r)>>, Mul(r) >>
    BY <2>5, Appended
  <2>7. UnderWay(r)' = IF r < proc THEN {<<>>, <<Mul(r)>>} ELSE {<< <<Num(r)>>, Mul(r) >>}
    BY <1>1, <1>2, <2>4 DEF UnderWay
  <2>8. Append(toMaster[r], Mul(r)) # <<>> /\ Append(toMaster[r], Mul(r)) \in UnderWay(r)'
    BY <2>6, <2>7, MessageFacts
  <2>10. s \in {"create", "bcast", "send_count", "count_posted", "send_array",
                "array_posted", "counts", "results", "barrier", "done"}
    BY <2>2
  <2>11. toMaster' = [toMaster EXCEPT ![r] = toMaster'[r]] /\ toMaster'[r] # <<>> /\ toMaster'[r] \in UnderWay(r)'
    BY <1>1, <2>1, <2>8 DEF FilterTypes
  <2>. QED
    <3>1. stage' = [stage EXCEPT ![r] = s] /\ UNCHANGED <<local_array, proc, num_receive, out_size, status, result>>
      BY <1>1, <2>1
    <3>2. ~ ArraySent(r) /\ CountSent(r)' /\ Num(r) > 0
      BY <2>3, <2>4
    <3>. QED
      BY <1>4, <2>10, <2>11, <3>1, <3>2, WorkerSends
<1>. QED
  BY <1>3, <1>4 DEF FilterPost

LEMMA TalliesAreNat ==
  ASSUME FilterTypes
  PROVE  NatOn(Pending, Workers) /\ \A v \in ElementValues : NatOn(Got(v), Workers)
<1>1. \A r \in Workers : Num(r) \in Nat /\ \A v \in ElementValues : Occurrences(Mul(r), v) \in Nat
  BY NumFacts
<1>. QED
  BY <1>1 DEF NatOn, Pending, Got

\* One worker's message is received.
LEMMA OthersSame ==
  ASSUME NEW p \in Workers, UNCHANGED local_array,
         \A q \in Workers \ {p} : (ArrayReceived(q)' <=> ArrayReceived(q)) /\ (q < proc' <=> q < proc)
  PROVE  /\ \A q \in Workers \ {p} : Pending'[q] = Pending[q] /\ (q \in Waiting' <=> q \in Waiting)
         /\ \A v : \A q \in Workers \ {p} : Got(v)'[q] = Got(v)[q]
<1>1. \A q \in Workers : Num(q)' = Num(q) /\ Mul(q)' = Mul(q)
  BY DEF Num, Mul
<1>2. \A q \in Workers \ {p} : Pending'[q] = Pending[q]
  BY <1>1 DEF Pending
<1>3. \A q \in Workers \ {p} : q \in Waiting' <=> q \in Waiting
  BY <1>1 DEF Waiting
<1>4. \A v : \A q \in Workers \ {p} : Got(v)'[q] = Got(v)[q]
  BY <1>1 DEF Got
<1>. QED
  BY <1>2, <1>3, <1>4

LEMMA WaitingFacts == IsFiniteSet(Waiting) /\ Waiting \subseteq Workers /\ Cardinality(Waiting) \in Nat
<1>1. Waiting \subseteq Workers
  BY DEF Waiting
<1>2. IsFiniteSet(Waiting)
  BY <1>1, WorkersFacts, FS_Subset
<1>. QED
  BY <1>1, <1>2, FS_CardinalityType

\* What is received of one worker: its count, and then its array.
LEMMA TalliesMove ==
  ASSUME FilterInv, FilterTypes', NEW p \in Workers, UNCHANGED local_array,
         \A q \in Workers \ {p} : (ArrayReceived(q)' <=> ArrayReceived(q)) /\ (q < proc' <=> q < proc)
  PROVE  /\ SumFunctionOnSet(Pending, Workers) \in Nat
         /\ SumFunctionOnSet(Pending', Workers) = SumFunctionOnSet(Pending, Workers) - Pending[p] + Pending'[p]
         /\ \A v \in ElementValues :
              /\ SumFunctionOnSet(Got(v), Workers) \in Nat
              /\ SumFunctionOnSet(Got(v)', Workers) = SumFunctionOnSet(Got(v), Workers) - Got(v)[p] + Got(v)'[p]
<1>1. NatOn(Pending, Workers) /\ \A v \in ElementValues : NatOn(Got(v), Workers)
  BY TalliesAreNat DEF FilterInv
<1>2. NatOn(Pending, Workers)' /\ \A v \in ElementValues : NatOn(Got(v), Workers)'
  <2>1. \A r \in Workers : Num(r)' \in Nat /\ \A v \in ElementValues : Occurrences(Mul(r), v)' \in Nat
    <3>1. \A r \in Workers : Num(r) \in Nat /\ \A v \in ElementValues : Occurrences(Mul(r), v) \in Nat
      BY NumFacts DEF FilterInv
    <3>2. \A r \in Workers : Num(r)' = Num(r) /\ Mul(r)' = Mul(r)
      BY DEF Num, Mul
    <3>. QED
      BY <3>1, <3>2
  <2>. QED
    BY <2>1 DEF NatOn, Pending, Got
<1>3. /\ \A q \in Workers \ {p} : Pending'[q] = Pending[q]
      /\ \A v : \A q \in Workers \ {p} : Got(v)'[q] = Got(v)[q]
  BY OthersSame
<1>4. IsFiniteSet(Workers)
  BY WorkersFacts
<1>5. NatOn(Pending', Workers) /\ \A v \in ElementValues : NatOn(Got(v)', Workers)
  BY <1>2 DEF NatOn
<1>6. /\ SumFunctionOnSet(Pending, Workers) \in Nat
      /\ SumFunctionOnSet(Pending', Workers) = SumFunctionOnSet(Pending, Workers) - Pending[p] + Pending'[p]
  <2> DEFINE f == Pending
             g == Pending'
  <2>1. NatOn(f, Workers) /\ NatOn(g, Workers) /\ \A q \in Workers \ {p} : f[q] = g[q]
    BY <1>1, <1>3, <1>5
  <2> HIDE DEF f, g
  <2>2. /\ SumFunctionOnSet(f, Workers) \in Nat
        /\ SumFunctionOnSet(g, Workers) = SumFunctionOnSet(f, Workers) - f[p] + g[p]
    BY <1>4, <2>1, SumUpdate
  <2>. QED
    BY <2>2 DEF f, g
<1>7. ASSUME NEW v \in ElementValues
      PROVE  /\ SumFunctionOnSet(Got(v), Workers) \in Nat
             /\ SumFunctionOnSet(Got(v)', Workers) = SumFunctionOnSet(Got(v), Workers) - Got(v)[p] + Got(v)'[p]
  <2> DEFINE f == Got(v)
             g == Got(v)'
  <2>1. NatOn(f, Workers) /\ NatOn(g, Workers) /\ \A q \in Workers \ {p} : f[q] = g[q]
    BY <1>1, <1>3, <1>5
  <2> HIDE DEF f, g
  <2>2. /\ SumFunctionOnSet(f, Workers) \in Nat
        /\ SumFunctionOnSet(g, Workers) = SumFunctionOnSet(f, Workers) - f[p] + g[p]
    BY <1>4, <2>1, SumUpdate
  <2>. QED
    BY <2>2 DEF f, g
<1>. QED
  BY <1>6, <1>7

LEMMA OtherWorkersStay ==
  ASSUME FilterInv, NEW p \in Workers, UNCHANGED local_array,
         \A q \in Workers \ {p} : stage'[q] = stage[q] /\ toMaster'[q] = toMaster[q] /\ (q < proc' <=> q < proc)
  PROVE  \A q \in Workers \ {p} : WorkerAt(q)' /\ (ArrayReceived(q)' <=> ArrayReceived(q)) /\ (q < proc' <=> q < proc)
<1> SUFFICES ASSUME NEW q \in Workers \ {p} PROVE WorkerAt(q)' /\ (ArrayReceived(q)' <=> ArrayReceived(q)) /\ (q < proc' <=> q < proc)
  OBVIOUS
<1>1. /\ stage'[q] = stage[q] /\ local_array'[q] = local_array[q] /\ toMaster'[q] = toMaster[q]
      /\ (q < proc' <=> q < proc) /\ WorkerAt(q) /\ q \in Workers
  BY DEF FilterInv
<1>. QED
  BY <1>1, WorkerStays

LEMMA ReceiveCountFrom == ASSUME FilterInv, ReceiveCount, NEW p \in Workers, p = proc PROVE FilterInv'
<1> DEFINE n == Head(Head(toMaster[p]))
<1>1. /\ stage[0] = "counts" /\ toMaster[p] # <<>>
      /\ out_size' = out_size + n /\ num_receive' = IF n > 0 THEN num_receive + 1 ELSE num_receive
      /\ toMaster' = [toMaster EXCEPT ![p] = Tail(@)] /\ proc' = p + 1
      /\ stage' = [stage EXCEPT ![0] = IF p + 1 < NumProcs THEN "counts" ELSE IF num_receive' > 0 THEN "results" ELSE "barrier"]
      /\ UNCHANGED <<local_array, status, result>>
  BY DEF ReceiveCount, MessagesToCome
<1> HIDE DEF n
<1>2. FilterTypes /\ MasterAt /\ Tallies /\ p \in Nat /\ p < NumProcs /\ WorkerAt(p) /\ p # 0
  BY WorkersFacts DEF FilterInv
<1>3. Num(p) \in Nat
  BY <1>2, NumFacts
<1>4. CountSent(p) /\ toMaster[p] = IF ArraySent(p) THEN << <<Num(p)>>, Mul(p) >> ELSE << <<Num(p)>> >>
  <2>1. CountSent(p)
    BY <1>1, <1>2 DEF WorkerAt, UnderWay
  <2>2. ~ (p < proc)
    BY <1>2
  <2>. QED
    BY <1>2, <2>1, <2>2 DEF WorkerAt, UnderWay
<1>5. n = Num(p) /\ Tail(toMaster[p]) = IF ArraySent(p) THEN << Mul(p) >> ELSE <<>>
  BY <1>4, MessageFacts DEF n
<1>6. toMaster'[p] = Tail(toMaster[p]) /\ \A q \in Workers \ {p} : toMaster'[q] = toMaster[q]
  BY <1>1, <1>2 DEF FilterTypes
<1>7. \A q \in Workers : stage'[q] = stage[q]
  BY <1>1, <1>2, WorkersFacts DEF FilterTypes
<1>8. stage'[0] = IF p + 1 < NumProcs THEN "counts" ELSE IF num_receive' > 0 THEN "results" ELSE "barrier"
  BY <1>1, <1>2, WorkersFacts DEF FilterTypes
<1>9. Num(p)' = Num(p) /\ Mul(p)' = Mul(p) /\ CountSent(p)' /\ (ArraySent(p)' <=> ArraySent(p))
  <2>1. Num(p)' = Num(p) /\ Mul(p)' = Mul(p)
    BY <1>1 DEF Num, Mul
  <2>. QED
    BY <1>4, <1>7, <2>1 DEF CountSent, ArraySent
<1>10. p < proc' /\ proc' \in 1 .. NumProcs /\ (\A q \in Workers \ {p} : q < proc' <=> q < proc)
  BY <1>1, <1>2, WorkersFacts
<1>11. FilterTypes'
  <2>1. stage' \in [Procs -> {"create", "bcast", "send_count", "count_posted", "send_array",
                          "array_posted", "counts", "results", "barrier", "done"}]
    BY <1>1, <1>2 DEF FilterTypes
  <2>2. DOMAIN toMaster' = Workers /\ toMaster' = [q \in Workers |-> toMaster'[q]]
    BY <1>1, <1>2 DEF FilterTypes
  <2>3. num_receive' \in Nat /\ out_size' \in Nat
    BY SMTT(60), <1>1, <1>2, <1>3, <1>5 DEF FilterTypes
  <2>. QED
    BY <1>1, <1>2, <1>10, <2>1, <2>2, <2>3 DEF FilterTypes
<1>12. \A q \in Workers \ {p} : WorkerAt(q)' /\ (ArrayReceived(q)' <=> ArrayReceived(q)) /\ (q < proc' <=> q < proc)
  BY <1>1, <1>6, <1>7, <1>10, OtherWorkersStay
<1>13. ~ ArrayReceived(p) /\ ~ ArrayReceived(p)'
  <2>1. ~ (p < proc)
    BY <1>2
  <2>2. ArraySent(p)' => toMaster'[p] # <<>>
    BY <1>5, <1>6, <1>9, MessageFacts
  <2>. QED
    BY <2>1, <2>2 DEF ArrayReceived
<1>14. WorkerAt(p)'
  <2>1. toMaster'[p] \in UnderWay(p)'
    BY <1>5, <1>6, <1>9, <1>10 DEF UnderWay
  <2>2. stage'[p] = stage[p] /\ local_array'[p] = local_array[p]
    BY <1>1, <1>7
  <2>. QED
    BY <1>2, <1>9, <2>1, <2>2 DEF WorkerAt
<1>15. MasterAt'
  <2>1. status' = Nobody
    BY <1>1, <1>2 DEF MasterAt
  <2>2. num_receive' \in Nat /\ proc' = p + 1
    BY <1>1, <1>11 DEF FilterTypes
  <2>. QED
    BY <1>2, <1>8, <2>1, <2>2 DEF MasterAt
<1>16. Tallies'
  <2>1. /\ SumFunctionOnSet(Pending, Workers) \in Nat
        /\ SumFunctionOnSet(Pending', Workers) = SumFunctionOnSet(Pending, Workers) - Pending[p] + Pending'[p]
        /\ \A v \in ElementValues :
              /\ SumFunctionOnSet(Got(v), Workers) \in Nat
              /\ SumFunctionOnSet(Got(v)', Workers) = SumFunctionOnSet(Got(v), Workers) - Got(v)[p] + Got(v)'[p]
    BY <1>1, <1>11, <1>12, TalliesMove
  <2>2. Pending[p] = 0 /\ Pending'[p] = Num(p)
    BY <1>2, <1>9, <1>10, <1>13 DEF Pending
  <2>3. \A v \in ElementValues : Got(v)[p] = 0 /\ Got(v)'[p] = 0
    BY <1>13 DEF Got
  <2>4. \A q \in Workers \ {p} : q \in Waiting' <=> q \in Waiting
    BY <1>1, <1>12, OthersSame
  <2>5. p \notin Waiting /\ (p \in Waiting' <=> Num(p) > 0)
    BY <1>2, <1>9, <1>10, <1>13 DEF Waiting
  <2>6. Waiting' = IF Num(p) > 0 THEN Waiting \cup {p} ELSE Waiting
    <3>1. Waiting' \subseteq Workers /\ Waiting \subseteq Workers
      BY DEF Waiting
    <3>. QED
      BY <2>4, <2>5, <3>1
  <2>7. num_receive' = Cardinality(Waiting')
    <3>1. IsFiniteSet(Waiting) /\ Cardinality(Waiting) \in Nat /\ num_receive = Cardinality(Waiting)
      BY <1>2, WaitingFacts DEF Tallies
    <3>2. Cardinality(Waiting \cup {p}) = Cardinality(Waiting) + 1
      BY <2>5, <3>1, FS_AddElement
    <3>. QED
      BY <1>1, <1>5, <2>6, <3>1, <3>2
  <2>8. out_size' = Len(result') + SumFunctionOnSet(Pending', Workers)
    <3>1. Len(result) \in Nat /\ out_size = Len(result) + SumFunctionOnSet(Pending, Workers) /\ result' = result
      BY <1>1, <1>2 DEF Tallies, FilterTypes
    <3>. QED
      BY <1>1, <1>3, <1>5, <2>1, <2>2, <3>1
  <2>9. ASSUME NEW v \in ElementValues PROVE Occurrences(result', v) = SumFunctionOnSet(Got(v)', Workers)
    <3>1. Occurrences(result, v) = SumFunctionOnSet(Got(v), Workers) /\ result' = result
      BY <1>1, <1>2 DEF Tallies
    <3>2. SumFunctionOnSet(Got(v)', Workers) = SumFunctionOnSet(Got(v), Workers)
      BY <2>1, <2>3
    <3>. QED
      BY <3>1, <3>2
  <2>. QED
    BY <2>7, <2>8, <2>9 DEF Tallies
<1>. QED
  BY <1>11, <1>12, <1>14, <1>15, <1>16 DEF FilterInv

LEMMA ReceiveCountStep == ASSUME FilterInv, ReceiveCount PROVE FilterInv'
<1>1. proc \in 1 .. NumProcs /\ proc < NumProcs
  BY DEF FilterInv, FilterTypes, MasterAt, ReceiveCount
<1>2. PICK p \in Workers : p = proc
  BY <1>1, WorkersFacts
<1>. QED
  BY <1>2, ReceiveCountFrom

LEMMA ReceiveResultsFrom == ASSUME FilterInv, ReceiveResults, NEW p \in Workers, p = status PROVE FilterInv'
<1>1. /\ stage[0] = "results" /\ result' = result \o Head(toMaster[p])
      /\ toMaster' = [toMaster EXCEPT ![p] = Tail(@)]
      /\ num_receive' = num_receive - 1 /\ status' = Nobody
      /\ stage' = [stage EXCEPT ![0] = IF num_receive = 1 THEN "barrier" ELSE "results"]
      /\ UNCHANGED <<local_array, proc, out_size>>
  BY DEF ReceiveResults
<1>2. /\ FilterTypes /\ MasterAt /\ Tallies /\ p \in Nat /\ p < NumProcs /\ WorkerAt(p) /\ p # 0
      /\ proc = NumProcs /\ num_receive > 0 /\ toMaster[p] # <<>>
  <2>1. FilterTypes /\ MasterAt /\ Tallies /\ p \in Nat /\ p < NumProcs /\ WorkerAt(p) /\ p # 0 /\ p # Nobody
    BY WorkersFacts DEF FilterInv
  <2>. QED
    BY <1>1, <2>1 DEF MasterAt
<1>3. Num(p) \in Nat /\ Mul(p) \in Seq(ElementValues) /\ Len(Mul(p)) = Num(p)
  BY <1>2, NumFacts
<1>4. p < proc /\ CountSent(p) /\ ArraySent(p) /\ toMaster[p] = << Mul(p) >>
  BY <1>2 DEF WorkerAt, UnderWay
<1>5. Num(p) > 0
  BY <1>2, <1>4 DEF WorkerAt, ArraySent
<1>6. toMaster'[p] = <<>> /\ \A q \in Workers \ {p} : toMaster'[q] = toMaster[q]
  <2>1. Tail(toMaster[p]) = <<>>
    BY <1>4, MessageFacts
  <2>. QED
    BY <1>1, <1>2, <2>1 DEF FilterTypes
<1>7. \A q \in Workers : stage'[q] = stage[q]
  BY <1>1, <1>2, WorkersFacts DEF FilterTypes
<1>8. stage'[0] = IF num_receive = 1 THEN "barrier" ELSE "results"
  BY <1>1, <1>2, WorkersFacts DEF FilterTypes
<1>9. Num(p)' = Num(p) /\ Mul(p)' = Mul(p) /\ CountSent(p)' /\ ArraySent(p)'
  <2>1. Num(p)' = Num(p) /\ Mul(p)' = Mul(p)
    BY <1>1 DEF Num, Mul
  <2>. QED
    BY <1>4, <1>7, <2>1 DEF CountSent, ArraySent
<1>10. result' = result \o Mul(p) /\ result \in Seq(ElementValues) /\ result' \in Seq(ElementValues)
       /\ Len(result') = Len(result) + Num(p) /\ Len(result) \in Nat
  <2>1. result' = result \o Mul(p) /\ result \in Seq(ElementValues)
    BY <1>1, <1>2, <1>4, MessageFacts DEF FilterTypes
  <2> DEFINE m == Mul(p)
  <2>2. m \in Seq(ElementValues) /\ Len(m) = Num(p) /\ result' = result \o m
    BY <1>3, <2>1
  <2> HIDE DEF m
  <2>3. result' \in Seq(ElementValues) /\ Len(result') = Len(result) + Len(m) /\ Len(result) \in Nat
    <3>1. result \o m \in Seq(ElementValues) /\ Len(result \o m) = Len(result) + Len(m) /\ Len(result) \in Nat
      <4>1. result \in Seq(ElementValues) /\ m \in Seq(ElementValues)
        BY <2>1, <2>2
      <4>. QED
        BY <4>1, ConcatProperties
    <3>2. result' = result \o m
      BY <2>2
    <3>. QED
      BY <3>1, <3>2, Zenon
  <2>. QED
    BY <2>1, <2>2, <2>3
<1>11. FilterTypes'
  <2>1. stage' \in [Procs -> {"create", "bcast", "send_count", "count_posted", "send_array",
                          "array_posted", "counts", "results", "barrier", "done"}]
    BY <1>1, <1>2 DEF FilterTypes
  <2>2. DOMAIN toMaster' = Workers /\ toMaster' = [q \in Workers |-> toMaster'[q]]
    BY <1>1, <1>2 DEF FilterTypes
  <2>3. num_receive' \in Nat
    BY <1>1, <1>2, SMTT(60) DEF FilterTypes
  <2>. QED
    BY <1>1, <1>2, <1>10, <2>1, <2>2, <2>3 DEF FilterTypes
<1>12. \A q \in Workers \ {p} : WorkerAt(q)' /\ (ArrayReceived(q)' <=> ArrayReceived(q)) /\ (q < proc' <=> q < proc)
  <2>1. \A q \in Workers \ {p} : q < proc' <=> q < proc
    BY <1>1
  <2>. QED
    BY <1>1, <1>6, <1>7, <2>1, OtherWorkersStay
<1>13. ~ ArrayReceived(p) /\ ArrayReceived(p)'
  BY <1>1, <1>2, <1>4, <1>6, <1>9 DEF ArrayReceived
<1>14. WorkerAt(p)'
  <2>1. toMaster'[p] \in UnderWay(p)'
    BY <1>1, <1>4, <1>6, <1>9 DEF UnderWay
  <2>2. stage'[p] = stage[p] /\ local_array'[p] = local_array[p]
    BY <1>1, <1>7
  <2>. QED
    BY <1>2, <1>9, <2>1, <2>2 DEF WorkerAt
<1>15. MasterAt'
  <2>1. num_receive \in Nat
    BY <1>2 DEF FilterTypes
  <2>. QED
    BY <1>1, <1>2, <1>8, <2>1 DEF MasterAt
<1>16. Tallies'
  <2>1. /\ SumFunctionOnSet(Pending, Workers) \in Nat
        /\ SumFunctionOnSet(Pending', Workers) = SumFunctionOnSet(Pending, Workers) - Pending[p] + Pending'[p]
        /\ \A v \in ElementValues :
              /\ SumFunctionOnSet(Got(v), Workers) \in Nat
              /\ SumFunctionOnSet(Got(v)', Workers) = SumFunctionOnSet(Got(v), Workers) - Got(v)[p] + Got(v)'[p]
    BY <1>1, <1>11, <1>12, TalliesMove
  <2>2. Pending[p] = Num(p) /\ Pending'[p] = 0
    BY <1>4, <1>13 DEF Pending
  <2>3. \A v \in ElementValues : Got(v)[p] = 0 /\ Got(v)'[p] = Occurrences(Mul(p), v)
    BY <1>9, <1>13 DEF Got
  <2>4. \A q \in Workers \ {p} : q \in Waiting' <=> q \in Waiting
    BY <1>1, <1>12, OthersSame
  <2>5. p \in Waiting /\ p \notin Waiting'
    BY <1>4, <1>5, <1>13 DEF Waiting
  <2>6. Waiting' = Waiting \ {p}
    <3>1. Waiting' \subseteq Workers /\ Waiting \subseteq Workers
      BY DEF Waiting
    <3>. QED
      BY <2>4, <2>5, <3>1
  <2>7. num_receive' = Cardinality(Waiting')
    <3>1. IsFiniteSet(Waiting) /\ Cardinality(Waiting) \in Nat /\ num_receive = Cardinality(Waiting)
      BY <1>2, WaitingFacts DEF Tallies
    <3>2. Cardinality(Waiting \ {p}) = Cardinality(Waiting) - 1
      BY <2>5, <3>1, FS_RemoveElement
    <3>. QED
      BY <1>1, <2>6, <3>1, <3>2
  <2>8. out_size' = Len(result') + SumFunctionOnSet(Pending', Workers)
    <3>1. out_size = Len(result) + SumFunctionOnSet(Pending, Workers)
      BY <1>2 DEF Tallies
    <3>. QED
      BY <1>1, <1>3, <1>10, <2>1, <2>2, <3>1
  <2>9. ASSUME NEW v \in ElementValues PROVE Occurrences(result', v) = SumFunctionOnSet(Got(v)', Workers)
    <3>1. Occurrences(result, v) = SumFunctionOnSet(Got(v), Workers)
      BY <1>2 DEF Tallies
    <3>2. Occurrences(result', v) = Occurrences(result, v) + Occurrences(Mul(p), v)
      BY <1>3, <1>10, OccurrencesConcat
    <3>3. Occurrences(Mul(p), v) \in Nat
      BY <1>3, OccurrencesAre
    <3>. QED
      BY <2>1, <2>3, <3>1, <3>2, <3>3
  <2>. QED
    BY <2>7, <2>8, <2>9 DEF Tallies
<1>. QED
  BY <1>11, <1>12, <1>14, <1>15, <1>16 DEF FilterInv

LEMMA ReceiveResultsStep == ASSUME FilterInv, ReceiveResults PROVE FilterInv'
<1>1. status \in Workers
  BY DEF FilterInv, FilterTypes, ReceiveResults
<1>2. PICK p \in Workers : p = status
  BY <1>1
<1>. QED
  BY <1>2, ReceiveResultsFrom

LEMMA FilterInvAlways == FilterInv /\ [Next]_vars => FilterInv'
<1> SUFFICES ASSUME FilterInv, [Next]_vars PROVE FilterInv'
  OBVIOUS
<1>1. ASSUME NEW r \in Procs, FilterStep(r) PROVE FilterInv'
  BY <1>1, LeaveBcastStep, LeaveFilterStep DEF FilterStep
<1>2. ASSUME NEW r \in Workers, FilterWorker(r) PROVE FilterInv'
  BY <1>2, CreateArrayStep, FilterPostStep, FilterSendReturnsStep DEF FilterWorker
<1>3. FilterMaster => FilterInv'
  BY ReceiveCountStep, FilterProbeStep, ReceiveResultsStep DEF FilterMaster
<1>4. CASE UNCHANGED filterVars
  <2>1. UNCHANGED <<stage, local_array, toMaster, proc, num_receive, out_size, status, result>>
    BY <1>4 DEF filterVars
  <2>2. FilterTypes'
    BY <2>1 DEF FilterInv, FilterTypes
  <2>3. MasterAt'
    BY <2>1 DEF FilterInv, MasterAt
  <2>. QED
    BY <2>1, <2>2, <2>3, MasterPasses
<1>5. FilterNext \/ UNCHANGED filterVars
  BY DEF Next, Road, Chars, Filters, AntsRun, Scripts, vars
<1>. QED
  BY <1>1, <1>2, <1>3, <1>4, <1>5 DEF FilterNext

LEMMA FilterInvImplies == FilterInv => FilterTypeOK /\ FilterResult
<1> SUFFICES ASSUME FilterInv PROVE FilterTypeOK /\ FilterResult
  OBVIOUS
<1>1. FilterTypes /\ (\A r \in Workers : WorkerAt(r)) /\ MasterAt /\ Tallies
  BY DEF FilterInv
<1>2. FilterTypeOK
  <2>1. num_receive \in Nat /\ num_receive <= NumProcs - 1
    <3>1. Cardinality(Waiting) <= Cardinality(Workers)
      BY WaitingFacts, WorkersFacts, FS_Subset
    <3>. QED
      BY <1>1, <3>1, WorkersFacts, WaitingFacts DEF Tallies
  <2>2. \A r \in Workers : local_array[r] = <<>> \/ local_array[r] \in [1 .. NumElements -> ElementValues]
    BY <1>1 DEF WorkerAt
  <2>3. num_receive \in 0 .. NumProcs - 1
    BY <2>1
  <2>. QED
    BY <1>1, <2>2, <2>3 DEF FilterTypeOK, FilterTypes
<1>3. NatOn(Pending, Workers) /\ \A v \in ElementValues : NatOn(Got(v), Workers)
  BY <1>1, TalliesAreNat
<1>4. Len(result) \in Nat /\ out_size = Len(result) + SumFunctionOnSet(Pending, Workers)
  BY <1>1 DEF FilterTypes, Tallies
<1>5. Len(result) <= out_size
  <2>1. SumFunctionOnSet(Pending, Workers) \in Nat
    BY <1>3, WorkersFacts, SumType
  <2>. QED
    BY <1>4, <2>1
<1>6. ASSUME stage[0] \in {"barrier", "done"}
      PROVE  /\ Len(result) = out_size
             /\ \A v \in ElementValues :
                  Occurrences(result, v) =
                    IF IsMultiple(v) THEN SumFunctionOnSet([r \in Workers |-> Occurrences(local_array[r], v)], Workers)
                    ELSE 0
  <2>1. proc = NumProcs /\ Cardinality(Waiting) = 0
    BY <1>1, <1>6 DEF MasterAt, Tallies
  <2>2. Waiting = {}
    BY <2>1, WaitingFacts, FS_EmptySet
  <2>3. ASSUME NEW r \in Workers PROVE r < proc /\ (Num(r) = 0 \/ ArrayReceived(r)) /\ Num(r) \in Nat
    <3>1. Num(r) \in Nat
      BY <1>1, NumFacts
    <3>. QED
      BY <2>1, <2>2, <3>1, WorkersFacts DEF Waiting
  <2>4. Len(result) = out_size
    <3>1. \A r \in Workers : Pending[r] = 0
      BY <2>3 DEF Pending
    <3>2. SumFunctionOnSet(Pending, Workers) = 0
      BY <3>1, WorkersFacts, SumZero
    <3>. QED
      BY <1>4, <3>2
  <2>5. ASSUME NEW v \in ElementValues
        PROVE  Occurrences(result, v) =
                    IF IsMultiple(v) THEN SumFunctionOnSet([r \in Workers |-> Occurrences(local_array[r], v)], Workers)
                    ELSE 0
    <3>1. ASSUME NEW r \in Workers PROVE Got(v)[r] = IF IsMultiple(v) THEN Occurrences(local_array[r], v) ELSE 0
      <4>1. /\ Mul(r) \in Seq(ElementValues) /\ Len(Mul(r)) = Num(r)
            /\ Occurrences(Mul(r), v) = IF IsMultiple(v) THEN Occurrences(local_array[r], v) ELSE 0
        BY <1>1, NumFacts
      <4>2. Num(r) = 0 => Occurrences(Mul(r), v) = 0
        <5> SUFFICES ASSUME Num(r) = 0 PROVE Occurrences(Mul(r), v) = 0
          OBVIOUS
        <5> DEFINE m == Mul(r)
        <5>1. m \in Seq(ElementValues) /\ Len(m) = 0
          BY <4>1
        <5> HIDE DEF m
        <5>2. DOMAIN m = {}
          BY <5>1
        <5>3. {i \in DOMAIN m : m[i] = v} = {}
          BY <5>2
        <5>. QED
          BY <5>3, FS_EmptySet DEF Occurrences, m
      <4>3. Got(v)[r] = Occurrences(Mul(r), v)
        BY <2>3, <4>2 DEF Got
      <4>. QED
        BY <4>1, <4>3
    <3>2. Occurrences(result, v) = SumFunctionOnSet(Got(v), Workers)
      BY <1>1 DEF Tallies
    <3>3. CASE IsMultiple(v)
      <4> DEFINE f == Got(v)
                 g == [r \in Workers |-> Occurrences(local_array[r], v)]
      <4>1. NatOn(f, Workers) /\ \A r \in Workers : f[r] = g[r]
        BY <1>3, <3>1, <3>3
      <4> HIDE DEF f, g
      <4>2. SumFunctionOnSet(f, Workers) = SumFunctionOnSet(g, Workers)
        BY <4>1, WorkersFacts, SumSame
      <4>. QED
        BY <3>2, <3>3, <4>2 DEF f, g
    <3>4. CASE ~ IsMultiple(v)
      <4>1. \A r \in Workers : Got(v)[r] = 0
        BY <3>1, <3>4
      <4>2. SumFunctionOnSet(Got(v), Workers) = 0
        BY <4>1, WorkersFacts, SumZero
      <4>. QED
        BY <3>2, <3>4, <4>2
    <3>. QED
      BY <3>3, <3>4
  <2>. QED
    BY <2>4, <2>5
<1>. QED
  BY <1>2, <1>5, <1>6 DEF FilterResult

(***************************************************************************)
(* The letter count.                                                       *)
(***************************************************************************)

USE LettersAssumption

\* The ranks whose count of its present letter a rank has received.
Heard(r) == {q \in Procs \ {r} : letter[q] > letter[r] /\ isends[q][r] = <<>>}

CharTypes ==
  /\ letter \in [Procs -> 0 .. NumLetters] /\ partials \in [Procs -> 0 .. Expected]
  /\ local_count \in [Procs -> [Letters -> SUBSET ((Procs \X Letters) \cup {Freed})]]
  /\ isends \in [Procs -> [Procs -> Seq(Letters)]]

\* A letter that its owner has passed every rank has passed.
Passed ==
  \A l \in Letters, q \in Procs : letter[LetterOwner(l)] > l => letter[q] > l

\* There is never more than one message between two ranks, about a letter that the owner
\* has not passed and the sender has.
OneMessage ==
  \A s, r \in Procs :
    isends[s][r] = <<>> \/ \E l \in Letters : /\ isends[s][r] = <<l>> /\ LetterOwner(l) = r
                                              /\ letter[r] <= l /\ l < letter[s]

\* A count about a letter that the owner has not reached is under way.
Sent ==
  \A s, r \in Procs, l \in Letters :
    LetterOwner(l) = r /\ letter[r] < l /\ l < letter[s] => isends[s][r] = <<l>>

PartialsCounted ==
  \A r \in Procs : partials[r] = IF AtOwnLetter(r) THEN Cardinality(Heard(r)) ELSE 0

\* The ranks whose counts of a letter are summed up at a rank.
Summed(r, l) ==
  IF LetterOwner(l) # r \/ letter[r] < l THEN {r}
  ELSE IF letter[r] = l THEN Heard(r) \cup {r} ELSE Procs

Counts ==
  \A r \in Procs, l \in Letters :
    /\ local_count[r][l] \subseteq (Procs \X {l}) \cup {Freed}
    /\ eager \/ LetterOwner(l) # r \/ letter[r] < l \/ l <= NumLetters - NumProcs =>
         local_count[r][l] = Summed(r, l) \X {l}

CharInv == CharTypes /\ Passed /\ OneMessage /\ Sent /\ PartialsCounted /\ Counts


LEMMA LetterFacts ==
  /\ Letters \subseteq Nat /\ Procs \subseteq Nat /\ 0 \in Procs /\ 1 \in Procs
  /\ \A l \in Letters : LetterOwner(l) \in Procs /\ l \in 0 .. NumLetters /\ l < NumLetters
<1>1. \A l \in Letters : LetterOwner(l) \in Procs
  <2> SUFFICES ASSUME NEW l \in Letters PROVE LetterOwner(l) \in Procs
    OBVIOUS
  <2>1. l \in Int /\ NumProcs \in Int /\ NumProcs > 0
    BY DEF Letters
  <2>2. l % NumProcs \in 0 .. NumProcs - 1
    BY <2>1, Quotient
  <2>. QED
    BY <2>2 DEF LetterOwner, Procs
<1>. QED
  BY <1>1 DEF Letters, Procs

LEMMA LetterTypes ==
  ASSUME CharTypes
  PROVE  /\ NumLetters \in Nat
         /\ \A r \in Procs : letter[r] \in Nat /\ letter[r] <= NumLetters
         /\ \A l \in Letters : l \in Nat /\ LetterOwner(l) \in Procs /\ letter[LetterOwner(l)] \in Nat
<1>1. \A r \in Procs : letter[r] \in Nat /\ letter[r] <= NumLetters
  BY DEF CharTypes
<1>2. \A l \in Letters : l \in Nat /\ LetterOwner(l) \in Procs
  BY LetterFacts
<1>. QED
  BY <1>1, <1>2

LEMMA NextIsAnothers ==
  ASSUME NEW l \in Letters, l + 1 \in Letters
  PROVE  LetterOwner(l + 1) # LetterOwner(l)
<1> DEFINE s == IF LetterOwner(l) = 0 THEN 1 ELSE 0
<1>1. s \in Procs /\ s # LetterOwner(l)
  BY LetterFacts
<1> HIDE DEF s
<1>2. PICK m \in Int : /\ l < m
                       /\ \A k \in Letters : LetterOwner(k) = LetterOwner(l) /\ k > l => m < k
  BY <1>1, LetterBetween
<1>. QED
  BY <1>2, LetterFacts

\* A rank cannot pass, or be at, a letter of another rank that comes after one which that
\* rank has not passed.
LEMMA OwnerIsPast ==
  ASSUME CharTypes, Passed, NEW s \in Procs, NEW l \in Letters, NEW k \in Letters,
         LetterOwner(l) # s, LetterOwner(k) = LetterOwner(l), l < k, k <= letter[s]
  PROVE  letter[LetterOwner(l)] > l
<1>1. PICK m \in Int : /\ l < m /\ m % NumProcs = s
                       /\ \A j \in Letters : LetterOwner(j) = LetterOwner(l) /\ j > l => m < j
  BY LetterBetween
<1>2. m < k
  BY <1>1
<1>3. m \in Letters /\ LetterOwner(m) = s
  BY <1>1, <1>2 DEF Letters, LetterOwner
<1>4. letter[s] > m
  BY <1>2, <1>3, LetterFacts DEF CharTypes
<1>5. letter[LetterOwner(l)] > m
  BY <1>3, <1>4, LetterFacts DEF Passed
<1>6. letter[LetterOwner(l)] \in Int /\ l \in Int
  BY LetterTypes
<1>. QED
  BY <1>1, <1>5, <1>6

\* When a rank is at the end of the alphabet, the owners have passed all but the last letters.
LEMMA FreedLate ==
  ASSUME CharTypes, Passed, NEW s \in Procs, NEW l \in Letters, LetterOwner(l) # s,
         letter[s] = NumLetters, l <= NumLetters - NumProcs
  PROVE  letter[LetterOwner(l)] > l
<1>1. PICK m \in Int : l < m /\ m < l + NumProcs /\ m % NumProcs = s
  BY LetterBetween
<1>2. m \in Letters /\ LetterOwner(m) = s
  BY <1>1, LetterFacts DEF Letters, LetterOwner
<1>3. letter[s] > m
  BY <1>2, LetterFacts
<1>4. letter[LetterOwner(l)] > m
  BY <1>2, <1>3, LetterFacts DEF Passed
<1>5. letter[LetterOwner(l)] \in Int /\ l \in Int
  BY LetterTypes
<1>. QED
  BY <1>1, <1>4, <1>5

LEMMA CharInitially == CharInit => CharInv
<1> SUFFICES ASSUME CharInit PROVE CharInv
  OBVIOUS
<1>1. CharTypes
  <2>1. \A r \in Procs : [l \in Letters |-> {<<r, l>>}] \in [Letters -> SUBSET ((Procs \X Letters) \cup {Freed})]
    OBVIOUS
  <2>2. NoMessages \in [Procs -> [Procs -> Seq(Letters)]]
    BY DEF NoMessages
  <2>3. 0 \in 0 .. NumLetters /\ 0 \in 0 .. Expected
    BY DEF Expected
  <2>. QED
    BY <2>1, <2>2, <2>3 DEF CharTypes, CharInit
<1>2. \A r \in Procs : letter[r] = 0 /\ partials[r] = 0
  BY DEF CharInit
<1>3. \A s, r \in Procs : isends[s][r] = <<>>
  BY DEF CharInit, NoMessages
<1>4. Passed /\ OneMessage /\ Sent
  <2>1. \A l \in Letters : l \in Nat /\ letter[LetterOwner(l)] = 0
    BY <1>2, LetterFacts
  <2>2. Passed
    BY <2>1 DEF Passed
  <2>3. OneMessage
    BY <1>3 DEF OneMessage
  <2>4. Sent
    BY <1>2, <2>1 DEF Sent
  <2>. QED
    BY <2>2, <2>3, <2>4
<1>5. \A r \in Procs : Heard(r) = {}
  BY <1>2 DEF Heard
<1>6. PartialsCounted
  BY <1>2, <1>5, FS_EmptySet DEF PartialsCounted
<1>7. Counts
  <2> SUFFICES ASSUME NEW r \in Procs, NEW l \in Letters
               PROVE  local_count[r][l] = {r} \X {l} /\ Summed(r, l) = {r}
    BY DEF Counts
  <2>1. local_count[r][l] = {<<r, l>>}
    BY DEF CharInit
  <2>2. Summed(r, l) = {r}
    BY <1>2, <1>5, LetterFacts DEF Summed
  <2>. QED
    BY <2>1, <2>2
<1>. QED
  BY <1>1, <1>4, <1>6, <1>7 DEF CharInv

LEMMA CharInvImplies == CharInv => CharTypeOK /\ LettersNotMixed /\ EarlyLettersExact
<1> SUFFICES ASSUME CharInv PROVE CharTypeOK /\ LettersNotMixed /\ EarlyLettersExact
  OBVIOUS
<1>1. CharTypeOK
  BY DEF CharInv, CharTypes, CharTypeOK
<1>2. LettersNotMixed
  <2> SUFFICES ASSUME NEW l \in Letters, NEW t \in local_count[LetterOwner(l)][l], t # Freed
               PROVE  t[2] = l
    BY DEF LettersNotMixed
  <2>1. local_count[LetterOwner(l)][l] \subseteq (Procs \X {l}) \cup {Freed}
    BY LetterFacts DEF CharInv, Counts
  <2>2. t \in Procs \X {l}
    BY <2>1
  <2>. QED
    BY <2>2
<1>3. EarlyLettersExact
  <2> SUFFICES ASSUME NEW l \in Letters, letter[LetterOwner(l)] > l, eager \/ l <= NumLetters - NumProcs
               PROVE  local_count[LetterOwner(l)][l] = Procs \X {l}
    BY DEF EarlyLettersExact
  <2>1. local_count[LetterOwner(l)][l] = Summed(LetterOwner(l), l) \X {l}
    BY LetterFacts DEF CharInv, Counts
  <2>2. Summed(LetterOwner(l), l) = Procs
    <3>1. letter[LetterOwner(l)] \in Int /\ l \in Int
      BY LetterTypes DEF CharInv
    <3>. QED
      BY <3>1 DEF Summed
  <2>. QED
    BY <2>1, <2>2
<1>. QED
  BY <1>1, <1>2, <1>3

LEMMA HeardIsFinite == \A r \in Procs : IsFiniteSet(Procs) /\ IsFiniteSet(Heard(r)) /\ IsFiniteSet(Procs \ {r})
<1>1. IsFiniteSet(Procs)
  BY FS_Interval DEF Procs
<1>2. \A r \in Procs : Heard(r) \subseteq Procs /\ Procs \ {r} \subseteq Procs
  BY DEF Heard
<1>. QED
  BY <1>1, <1>2, FS_Subset

\* What the owner of a letter counts does not depend on the sums of others.
LEMMA CountsKept ==
  ASSUME Counts, UNCHANGED <<eager, local_count>>,
         \A r \in Procs, l \in Letters : LetterOwner(l) = r /\ letter'[r] < l => letter[r] < l,
         \A r \in Procs, l \in Letters : Summed(r, l)' = Summed(r, l)
  PROVE  Counts'
<1> SUFFICES ASSUME NEW r \in Procs, NEW l \in Letters
             PROVE  /\ local_count[r][l] \subseteq (Procs \X {l}) \cup {Freed}
                    /\ eager \/ LetterOwner(l) # r \/ letter'[r] < l \/ l <= NumLetters - NumProcs =>
                         local_count[r][l] = Summed(r, l) \X {l}
  BY DEF Counts
<1>1. letter'[r] < l => LetterOwner(l) # r \/ letter[r] < l
  OBVIOUS
<1>. QED
  BY <1>1 DEF Counts

LEMMA SendPartialStep == ASSUME CharInv, NEW s \in Procs, SendPartial(s), UNCHANGED eager PROVE CharInv'
<1> DEFINE l == letter[s]
           o == LetterOwner(letter[s])
<1>1. l \in Letters /\ o \in Procs /\ o # s /\ l + 1 \in 0 .. NumLetters
  <2>1. l \in 0 .. NumLetters /\ l < NumLetters
    BY DEF CharInv, CharTypes, SendPartial
  <2>2. l \in Letters
    BY <2>1 DEF Letters
  <2>. QED
    BY <2>1, <2>2, LetterFacts, SMTT(60) DEF SendPartial
<1>2. CharTypes
  BY DEF CharInv
<1>3. letter' = [letter EXCEPT ![s] = l + 1] /\ UNCHANGED <<partials, local_count>>
  BY DEF SendPartial
<1>4. letter'[s] = l + 1 /\ \A q \in Procs \ {s} : letter'[q] = letter[q]
  BY <1>3, <1>2 DEF CharTypes
<1>5. letter[o] <= l
  <2>1. letter[o] \in Nat /\ l \in Nat
    BY <1>1, <1>2, LetterTypes
  <2>2. letter[o] > l => letter[s] > l
    BY <1>1 DEF CharInv, Passed
  <2>. QED
    BY <2>1, <2>2
<1>6. isends[s][o] = <<>>
  <2> SUFFICES ASSUME NEW k \in Letters, LetterOwner(k) = o, letter[o] <= k, k < l PROVE FALSE
    BY <1>1 DEF CharInv, OneMessage
  <2>1. LetterOwner(k) # s /\ LetterOwner(l) = LetterOwner(k) /\ l <= letter[s] /\ Passed
    <3>1. l \in Nat
      BY <1>1, LetterFacts
    <3>2. LetterOwner(k) # s /\ LetterOwner(l) = LetterOwner(k)
      BY <1>1
    <3>. QED
      BY <3>1, <3>2 DEF CharInv
  <2>2. letter[LetterOwner(k)] > k
    BY <1>1, <1>2, <2>1, OwnerIsPast
  <2>. QED
    BY <2>2, <1>1, <1>2, LetterTypes
<1>7. isends' = [isends EXCEPT ![s][o] = Append(isends[s][o], l)]
  BY DEF SendPartial
<1>8. isends'[s][o] = <<l>>
  BY <1>1, <1>2, <1>6, <1>7 DEF CharTypes
<1>9. \A p, q \in Procs : p # s \/ q # o => isends'[p][q] = isends[p][q]
  BY <1>1, <1>2, <1>7 DEF CharTypes
<1>10. CharTypes'
  <2>1. isends' \in [Procs -> [Procs -> Seq(Letters)]]
    <3>1. Append(isends[s][o], l) \in Seq(Letters)
      BY <1>1, <1>6
    <3>. QED
      BY <3>1, <1>1, <1>2, <1>7 DEF CharTypes
  <2>2. letter' \in [Procs -> 0 .. NumLetters]
    BY <1>1, <1>2, <1>3 DEF CharTypes
  <2>. QED
    BY <2>1, <2>2, <1>2, <1>3 DEF CharTypes
<1> HIDE DEF l, o
<1>11. l \in Nat /\ l = letter[s] /\ LetterOwner(l) = o
  BY <1>1, LetterFacts DEF l, o
<1>12. \A q \in Procs : letter[q] \in Nat /\ letter'[q] \in Nat /\ letter[q] <= letter'[q]
  BY <1>2, <1>4, <1>11, LetterTypes
\* A letter of the owner before this one: the owner has passed it.
<1>13. \A k \in Letters : LetterOwner(k) = o /\ k < l => letter[o] > k
  <2> SUFFICES ASSUME NEW k \in Letters, LetterOwner(k) = o, k < l PROVE letter[o] > k
    OBVIOUS
  <2>1. LetterOwner(k) # s /\ LetterOwner(l) = LetterOwner(k) /\ l <= letter[s]
    BY <1>1, <1>11
  <2>2. letter[LetterOwner(k)] > k
    BY <2>1, <1>1, <1>2, OwnerIsPast DEF CharInv
  <2>. QED
    BY <2>2
<1>14. Passed'
  <2> SUFFICES ASSUME NEW k \in Letters, NEW q \in Procs, letter'[LetterOwner(k)] > k PROVE letter'[q] > k
    BY DEF Passed
  <2>1. letter[LetterOwner(k)] > k
    <3>1. CASE LetterOwner(k) = s
      <4>1. k # l /\ k \in Nat /\ l + 1 > k
        BY <3>1, <1>1, <1>4, <1>11, LetterFacts
      <4>. QED
        BY <4>1, <3>1, <1>11
    <3>2. CASE LetterOwner(k) # s
      BY <3>2, <1>4, LetterFacts
    <3>. QED
      BY <3>1, <3>2
  <2>2. letter[q] > k
    BY <2>1 DEF CharInv, Passed
  <2>. QED
    BY <2>2, <1>12, LetterFacts
<1>15. OneMessage'
  <2> SUFFICES ASSUME NEW p \in Procs, NEW q \in Procs
               PROVE  isends'[p][q] = <<>> \/ \E k \in Letters : /\ isends'[p][q] = <<k>> /\ LetterOwner(k) = q
                                                                 /\ letter'[q] <= k /\ k < letter'[p]
    BY DEF OneMessage
  <2>1. CASE p = s /\ q = o
    <3>1. letter'[o] <= l /\ l < letter'[s]
      BY <1>1, <1>4, <1>5, <1>11
    <3>. QED
      BY <2>1, <3>1, <1>1, <1>8, <1>11
  <2>2. CASE ~ (p = s /\ q = o) /\ isends[p][q] # <<>>
    <3>1. PICK k \in Letters : /\ isends[p][q] = <<k>> /\ LetterOwner(k) = q
                               /\ letter[q] <= k /\ k < letter[p]
      BY <2>2 DEF CharInv, OneMessage
    <3>2. q = s => k # l
      BY <3>1, <1>1, <1>11
    <3>3. letter'[q] <= k
      BY <3>1, <3>2, <1>4, <1>11, LetterFacts
    <3>4. k < letter'[p]
      BY <3>1, <1>12, LetterFacts
    <3>. QED
      BY <2>2, <3>1, <3>3, <3>4, <1>9
  <2>3. CASE ~ (p = s /\ q = o) /\ isends[p][q] = <<>>
    BY <2>3, <1>9
  <2>. QED
    BY <2>1, <2>2, <2>3
<1>16. Sent'
  <2> SUFFICES ASSUME NEW p \in Procs, NEW q \in Procs, NEW k \in Letters,
                      LetterOwner(k) = q, letter'[q] < k, k < letter'[p]
               PROVE  isends'[p][q] = <<k>>
    BY DEF Sent
  <2>1. letter[q] < k /\ k \in Nat
    BY <1>12, LetterFacts
  <2>2. CASE k < letter[p]
    <3>1. isends[p][q] = <<k>>
      BY <2>1, <2>2 DEF CharInv, Sent
    <3>2. p = s /\ q = o => FALSE
      BY <2>1, <2>2, <1>11, <1>12, <1>13
    <3>. QED
      BY <3>1, <3>2, <1>9
  <2>3. CASE ~ (k < letter[p])
    <3>1. p = s /\ k = l
      BY <2>1, <2>3, <1>4, <1>11, <1>12
    <3>. QED
      BY <3>1, <1>8, <1>11
  <2>. QED
    BY <2>2, <2>3
<1>17. \A q \in Procs : AtOwnLetter(q) /\ q # s => Heard(q)' = Heard(q)
  <2> SUFFICES ASSUME NEW q \in Procs, AtOwnLetter(q), q # s, NEW p \in Procs \ {q}
               PROVE  (letter'[p] > letter'[q] /\ isends'[p][q] = <<>>) <=> (letter[p] > letter[q] /\ isends[p][q] = <<>>)
    BY DEF Heard
  <2>1. letter'[q] = letter[q]
    BY <1>4
  <2>2. CASE p # s
    BY <2>1, <2>2, <1>4, <1>9
  <2>3. CASE p = s /\ q # o
    <3>1. letter[q] # l
      BY <2>3, <1>11 DEF AtOwnLetter
    <3>2. letter'[s] > letter[q] <=> letter[s] > letter[q]
      BY <3>1, <1>4, <1>11, <1>12
    <3>. QED
      BY <2>1, <2>3, <3>2, <1>9
  <2>4. CASE p = s /\ q = o
    <3>1. letter[q] \in Letters /\ LetterOwner(letter[q]) = q
      BY <1>12 DEF AtOwnLetter, Letters
    <3>2. ~ (l > letter[q])
      BY <2>4, <3>1, <1>11, <1>12, <1>13
    <3>. QED
      BY <2>4, <3>2, <1>8, <1>11
  <2>. QED
    BY <2>2, <2>3, <2>4
<1>18. AtOwnLetter(s)' => Heard(s)' = {}
  <2> SUFFICES ASSUME AtOwnLetter(s)', NEW p \in Procs \ {s}, letter'[p] > letter'[s] PROVE isends'[p][s] # <<>>
    BY DEF Heard
  <2>1. l + 1 \in Letters /\ LetterOwner(l + 1) = s
    BY <1>4, <1>11 DEF AtOwnLetter, Letters
  <2>2. letter[p] > l + 1
    BY <1>4
  <2>3. isends[p][s] = <<l + 1>>
    BY <2>1, <2>2, <1>11 DEF CharInv, Sent
  <2>. QED
    BY <2>3, <1>9
<1>19. PartialsCounted'
  <2> SUFFICES ASSUME NEW q \in Procs
               PROVE  partials[q] = IF AtOwnLetter(q)' THEN Cardinality(Heard(q)') ELSE 0
    BY <1>3 DEF PartialsCounted
  <2>1. CASE q # s
    <3>1. AtOwnLetter(q)' <=> AtOwnLetter(q)
      BY <2>1, <1>4 DEF AtOwnLetter
    <3>2. partials[q] = IF AtOwnLetter(q) THEN Cardinality(Heard(q)) ELSE 0
      BY DEF CharInv, PartialsCounted
    <3>. QED
      BY <2>1, <3>1, <3>2, <1>17
  <2>2. CASE q = s
    <3>1. ~ AtOwnLetter(s)
      BY <1>1, <1>11 DEF AtOwnLetter
    <3>2. partials[s] = 0
      BY <3>1 DEF CharInv, PartialsCounted
    <3>. QED
      BY <2>2, <3>2, <1>18, FS_EmptySet
  <2>. QED
    BY <2>1, <2>2
<1>20. \A q \in Procs, k \in Letters : Summed(q, k)' = Summed(q, k)
  <2> SUFFICES ASSUME NEW q \in Procs, NEW k \in Letters, LetterOwner(k) = q PROVE Summed(q, k)' = Summed(q, k)
    BY DEF Summed
  <2>1. CASE q # s
    <3>1. letter[q] = k => AtOwnLetter(q)
      BY LetterFacts DEF AtOwnLetter
    <3>. QED
      BY <2>1, <3>1, <1>4, <1>17 DEF Summed
  <2>2. CASE q = s
    <3>1. k # l /\ k \in Nat
      BY <2>2, <1>1, <1>11, LetterFacts
    <3>2. letter'[s] = k => AtOwnLetter(s)'
      BY <2>2, LetterFacts DEF AtOwnLetter
    <3>3. CASE k < l
      <4>1. Summed(q, k) = Procs /\ Summed(q, k)' = Procs
        BY <2>2, <3>3, <1>4, <1>11, LetterFacts DEF Summed
      <4>. QED
        BY <4>1
    <3>4. CASE k = l + 1
      <4>1. Summed(q, k) = {s}
        BY <2>2, <3>4, <1>11 DEF Summed
      <4>2. Summed(q, k)' = Heard(s)' \cup {s}
        BY <2>2, <3>4, <1>4, <1>11 DEF Summed
      <4>. QED
        BY <4>1, <4>2, <3>2, <3>4, <1>4, <1>18
    <3>5. CASE k > l + 1
      <4>1. letter[s] < k /\ letter'[s] < k
        BY <3>1, <3>5, <1>4, <1>11
      <4>. QED
        BY <2>2, <4>1 DEF Summed
    <3>. QED
      BY <3>1, <3>3, <3>4, <3>5, <1>11
  <2>. QED
    BY <2>1, <2>2
<1>21. Counts'
  <2>1. \A r \in Procs, k \in Letters : LetterOwner(k) = r /\ letter'[r] < k => letter[r] < k
    BY <1>12, LetterFacts
  <2>. QED
    BY <2>1, <1>3, <1>20, CountsKept DEF CharInv
<1>. QED
  BY <1>10, <1>14, <1>15, <1>16, <1>19, <1>21 DEF CharInv

LEMMA LetterSummedStep == ASSUME CharInv, NEW r \in Procs, LetterSummed(r), UNCHANGED eager PROVE CharInv'
<1> DEFINE l == letter[r]
<1>1. CharTypes
  BY DEF CharInv
<1>2. l \in Letters /\ LetterOwner(l) = r /\ l + 1 \in 0 .. NumLetters /\ l \in Nat
  <2>1. l \in 0 .. NumLetters /\ l < NumLetters
    BY <1>1 DEF CharTypes, LetterSummed, AtOwnLetter
  <2>. QED
    BY <2>1 DEF Letters, LetterSummed, AtOwnLetter
<1>3. letter' = [letter EXCEPT ![r] = l + 1] /\ partials' = [partials EXCEPT ![r] = 0]
      /\ UNCHANGED <<local_count, isends>>
  BY DEF LetterSummed
<1>4. letter'[r] = l + 1 /\ \A q \in Procs \ {r} : letter'[q] = letter[q]
  BY <1>3, <1>1 DEF CharTypes
<1>5. \A q \in Procs \ {r} : letter[q] > l /\ isends[q][r] = <<>>
  <2>1. Cardinality(Heard(r)) = NumProcs - 1
    <3>1. partials[r] = Cardinality(Heard(r)) /\ partials[r] = NumProcs - 1
      BY DEF CharInv, PartialsCounted, LetterSummed, Expected
    <3>. QED
      BY <3>1
  <2>2. Cardinality(Procs \ {r}) = NumProcs - 1
    <3>1. Cardinality(Procs) = NumProcs
      BY FS_Interval DEF Procs
    <3>2. Cardinality(Procs \ {r}) = Cardinality(Procs) - 1
      BY HeardIsFinite, FS_RemoveElement
    <3>. QED
      BY <3>1, <3>2
  <2>3. Heard(r) \subseteq Procs \ {r} /\ IsFiniteSet(Procs \ {r})
    BY HeardIsFinite DEF Heard
  <2>4. Heard(r) = Procs \ {r}
    BY <2>1, <2>2, <2>3, FS_Subset
  <2>. QED
    BY <2>4 DEF Heard
<1>6. CharTypes'
  <2>1. letter' \in [Procs -> 0 .. NumLetters]
    BY <1>1, <1>2, <1>3 DEF CharTypes
  <2>2. partials' \in [Procs -> 0 .. Expected]
    BY <1>1, <1>3 DEF CharTypes, Expected
  <2>. QED
    BY <2>1, <2>2, <1>1, <1>3 DEF CharTypes
<1>7. l = letter[r]
  OBVIOUS
<1> HIDE DEF l
<1>8. \A q \in Procs : letter[q] \in Nat /\ letter'[q] \in Nat /\ letter[q] <= letter'[q]
  BY <1>1, <1>2, <1>4, <1>7, LetterTypes
<1>9. Passed'
  <2> SUFFICES ASSUME NEW k \in Letters, NEW q \in Procs, letter'[LetterOwner(k)] > k PROVE letter'[q] > k
    BY DEF Passed
  <2>1. k \in Nat
    BY LetterFacts
  <2>2. CASE k = l
    BY <2>2, <1>2, <1>4, <1>5
  <2>3. CASE k # l
    <3>1. letter[LetterOwner(k)] > k
      <4>1. CASE LetterOwner(k) = r
        BY <4>1, <2>1, <2>3, <1>2, <1>4, <1>7
      <4>2. CASE LetterOwner(k) # r
        BY <4>2, <1>4, LetterFacts
      <4>. QED
        BY <4>1, <4>2
    <3>2. letter[q] > k
      BY <3>1 DEF CharInv, Passed
    <3>. QED
      BY <3>2, <2>1, <1>8
  <2>. QED
    BY <2>2, <2>3
<1>10. \A q \in Procs : isends[q][r] = <<>>
  <2>1. isends[r][r] = <<>>
    <3> SUFFICES ASSUME NEW k \in Letters, letter[r] <= k, k < letter[r] PROVE FALSE
      BY DEF CharInv, OneMessage
    <3>. QED
      BY <1>8, LetterFacts
  <2>. QED
    BY <2>1, <1>5
<1>11. OneMessage'
  <2> SUFFICES ASSUME NEW p \in Procs, NEW q \in Procs, isends[p][q] # <<>>
               PROVE  \E k \in Letters : /\ isends[p][q] = <<k>> /\ LetterOwner(k) = q
                                         /\ letter'[q] <= k /\ k < letter'[p]
    BY <1>3 DEF OneMessage
  <2>1. q # r
    BY <1>10
  <2>2. PICK k \in Letters : /\ isends[p][q] = <<k>> /\ LetterOwner(k) = q
                             /\ letter[q] <= k /\ k < letter[p]
    BY DEF CharInv, OneMessage
  <2>3. letter'[q] <= k
    BY <2>1, <2>2, <1>4
  <2>4. k < letter'[p]
    BY <2>2, <1>8, LetterFacts
  <2>. QED
    BY <2>2, <2>3, <2>4
<1>12. Sent'
  <2> SUFFICES ASSUME NEW p \in Procs, NEW q \in Procs, NEW k \in Letters,
                      LetterOwner(k) = q, letter'[q] < k, k < letter'[p]
               PROVE  isends[p][q] = <<k>>
    BY <1>3 DEF Sent
  <2>1. k \in Nat /\ letter[q] < k
    BY <1>8, LetterFacts
  <2>2. k < letter[p]
    <3> SUFFICES ASSUME p = r, k = l PROVE FALSE
      BY <2>1, <1>4, <1>7, <1>8
    <3>. QED
      BY <2>1, <1>2, <1>7
  <2>. QED
    BY <2>1, <2>2 DEF CharInv, Sent
<1>13. ~ AtOwnLetter(r)'
  <2> SUFFICES ASSUME AtOwnLetter(r)' PROVE FALSE
    OBVIOUS
  <2>1. l + 1 \in Letters /\ LetterOwner(l + 1) = r
    BY <1>2, <1>4 DEF AtOwnLetter, Letters
  <2>. QED
    BY <2>1, <1>2, NextIsAnothers
<1>14. \A q \in Procs : AtOwnLetter(q) /\ q # r => Heard(q)' = Heard(q)
  <2> SUFFICES ASSUME NEW q \in Procs, AtOwnLetter(q), q # r, NEW p \in Procs \ {q}
               PROVE  letter'[p] > letter'[q] <=> letter[p] > letter[q]
    BY <1>3 DEF Heard
  <2>1. letter'[q] = letter[q]
    BY <1>4
  <2>2. letter[q] # l
    BY <1>2 DEF AtOwnLetter
  <2>. QED
    BY <2>1, <2>2, <1>4, <1>7, <1>8
<1>15. PartialsCounted'
  <2> SUFFICES ASSUME NEW q \in Procs
               PROVE  partials'[q] = IF AtOwnLetter(q)' THEN Cardinality(Heard(q)') ELSE 0
    BY DEF PartialsCounted
  <2>1. CASE q # r
    <3>1. (AtOwnLetter(q)' <=> AtOwnLetter(q)) /\ partials'[q] = partials[q]
      BY <2>1, <1>1, <1>3, <1>4 DEF AtOwnLetter, CharTypes
    <3>2. partials[q] = IF AtOwnLetter(q) THEN Cardinality(Heard(q)) ELSE 0
      BY DEF CharInv, PartialsCounted
    <3>. QED
      BY <2>1, <3>1, <3>2, <1>14
  <2>2. CASE q = r
    BY <2>2, <1>1, <1>3, <1>13 DEF CharTypes
  <2>. QED
    BY <2>1, <2>2
<1>16. \A q \in Procs, k \in Letters : Summed(q, k)' = Summed(q, k)
  <2> SUFFICES ASSUME NEW q \in Procs, NEW k \in Letters, LetterOwner(k) = q PROVE Summed(q, k)' = Summed(q, k)
    BY DEF Summed
  <2>1. CASE q # r
    <3>1. letter[q] = k => AtOwnLetter(q)
      BY LetterFacts DEF AtOwnLetter
    <3>. QED
      BY <2>1, <3>1, <1>4, <1>14 DEF Summed
  <2>2. CASE q = r
    <3>1. k \in Nat
      BY LetterFacts
    <3>2. k # l + 1
      BY <2>2, <1>2, NextIsAnothers
    <3>3. CASE k > l
      <4>1. letter[r] < k /\ letter'[r] < k
        BY <3>1, <3>2, <3>3, <1>2, <1>4, <1>7
      <4>. QED
        BY <2>2, <4>1 DEF Summed
    <3>4. CASE k = l
      <4>1. Summed(q, k) = Heard(r) \cup {r}
        BY <2>2, <3>4, <1>2, <1>7 DEF Summed
      <4>2. Heard(r) = Procs \ {r}
        BY <1>5, <1>7 DEF Heard
      <4>3. Summed(q, k)' = Procs
        BY <2>2, <3>4, <1>2, <1>4 DEF Summed
      <4>. QED
        BY <4>1, <4>2, <4>3
    <3>5. CASE k < l
      <4>1. ~ (letter[r] < k) /\ letter[r] # k /\ ~ (letter'[r] < k) /\ letter'[r] # k
        BY <3>1, <3>5, <1>2, <1>4, <1>7
      <4>. QED
        BY <2>2, <4>1 DEF Summed
    <3>. QED
      BY <3>1, <3>3, <3>4, <3>5, <1>2
  <2>. QED
    BY <2>1, <2>2
<1>17. Counts'
  <2>1. \A q \in Procs, k \in Letters : LetterOwner(k) = q /\ letter'[q] < k => letter[q] < k
    BY <1>8, LetterFacts
  <2>. QED
    BY <2>1, <1>3, <1>16, CountsKept DEF CharInv
<1>. QED
  BY <1>6, <1>9, <1>11, <1>12, <1>15, <1>17 DEF CharInv

LEMMA ReceivePartialStep ==
  ASSUME CharInv, NEW r \in Procs, NEW s \in Procs, ReceivePartial(r, s), UNCHANGED eager PROVE CharInv'
<1> DEFINE l == letter[r]
<1>1. CharTypes
  BY DEF CharInv
<1>2. l \in Letters /\ LetterOwner(l) = r /\ l \in Nat
  <2>1. l \in 0 .. NumLetters /\ l < NumLetters
    BY <1>1 DEF CharTypes, ReceivePartial, AtOwnLetter
  <2>. QED
    BY <2>1 DEF Letters, ReceivePartial, AtOwnLetter
\* A letter of this rank that another one has passed is this one.
<1>3. \A p \in Procs, k \in Letters : LetterOwner(k) = r /\ letter[r] <= k /\ k < letter[p] => p # r /\ k = l
  <2> SUFFICES ASSUME NEW p \in Procs, NEW k \in Letters,
                      LetterOwner(k) = r, letter[r] <= k, k < letter[p]
               PROVE  p # r /\ k = l
    OBVIOUS
  <2>1. letter[r] \in Nat /\ letter[p] \in Nat /\ k \in Nat
    BY <1>1, LetterTypes
  <2>2. p # r
    BY <2>1
  <2>3. k = l
    <3> SUFFICES ASSUME k # l PROVE FALSE
      OBVIOUS
    <3>1. LetterOwner(l) # p /\ LetterOwner(k) = LetterOwner(l) /\ l < k /\ k <= letter[p] /\ Passed
      BY <1>2, <2>1, <2>2 DEF CharInv
    <3>2. letter[LetterOwner(l)] > l
      BY <3>1, <1>1, <1>2, OwnerIsPast
    <3>. QED
      BY <3>2, <1>2, <2>1
  <2>. QED
    BY <2>2, <2>3
<1>4. isends[s][r] = <<l>> /\ s # r /\ l < letter[s]
  <2>1. PICK k \in Letters : isends[s][r] = <<k>> /\ LetterOwner(k) = r /\ letter[r] <= k /\ k < letter[s]
    BY DEF CharInv, OneMessage, ReceivePartial
  <2>. QED
    BY <2>1, <1>3
<1>5. UNCHANGED letter /\ partials' = [partials EXCEPT ![r] = @ + 1]
      /\ isends' = [isends EXCEPT ![s][r] = <<>>]
      /\ local_count' = [local_count EXCEPT ![r][l] = @ \cup Taken(s, l)]
  <2>1. Head(isends[s][r]) = l /\ Tail(isends[s][r]) = <<>>
    BY <1>4
  <2>. QED
    BY <2>1 DEF ReceivePartial
<1>6. isends'[s][r] = <<>> /\ \A p, q \in Procs : p # s \/ q # r => isends'[p][q] = isends[p][q]
  BY <1>1, <1>5 DEF CharTypes
<1>7. Taken(s, l) \subseteq {<<s, l>>, Freed}
  <2>1. local_count[s][l] = {s} \X {l}
    BY <1>2, <1>4 DEF CharInv, Counts, Summed
  <2>. QED
    BY <2>1 DEF Taken
<1>8. eager \/ l <= NumLetters - NumProcs => Taken(s, l) = {<<s, l>>}
  <2>1. local_count[s][l] = {s} \X {l}
    BY <1>2, <1>4 DEF CharInv, Counts, Summed
  <2>2. l <= NumLetters - NumProcs => letter[s] # NumLetters
    <3> SUFFICES ASSUME l <= NumLetters - NumProcs, letter[s] = NumLetters PROVE FALSE
      OBVIOUS
    <3>1. LetterOwner(l) # s /\ Passed
      BY <1>2, <1>4 DEF CharInv
    <3>2. letter[LetterOwner(l)] > l
      BY <3>1, <1>1, <1>2, FreedLate
    <3>. QED
      BY <3>2, <1>2
  <2>. QED
    BY <2>1, <2>2 DEF Taken
<1>9. CharTypes'
  <2>1. isends' \in [Procs -> [Procs -> Seq(Letters)]]
    BY <1>1, <1>5 DEF CharTypes
  <2>2. partials' \in [Procs -> 0 .. Expected]
    <3>1. partials[r] + 1 \in 0 .. Expected
      BY <1>1 DEF CharTypes, ReceivePartial, Expected
    <3>. QED
      BY <3>1, <1>1, <1>5 DEF CharTypes
  <2>3. local_count' \in [Procs -> [Letters -> SUBSET ((Procs \X Letters) \cup {Freed})]]
    <3>1. local_count[r][l] \cup Taken(s, l) \in SUBSET ((Procs \X Letters) \cup {Freed})
      BY <1>1, <1>2, <1>7 DEF CharTypes
    <3>2. local_count[r] \in [Letters -> SUBSET ((Procs \X Letters) \cup {Freed})]
      BY <1>1 DEF CharTypes
    <3> DEFINE row == [local_count[r] EXCEPT ![l] = @ \cup Taken(s, l)]
    <3>3. row \in [Letters -> SUBSET ((Procs \X Letters) \cup {Freed})]
      BY <3>1, <3>2
    <3>4. local_count' = [local_count EXCEPT ![r] = row]
      BY <1>5
    <3> HIDE DEF row
    <3>. QED
      BY <3>3, <3>4, <1>1 DEF CharTypes
  <2>. QED
    BY <2>1, <2>2, <2>3, <1>1, <1>5 DEF CharTypes
<1>10. /\ local_count'[r][l] = local_count[r][l] \cup Taken(s, l)
       /\ \A q \in Procs, k \in Letters : q # r \/ k # l => local_count'[q][k] = local_count[q][k]
  BY <1>1, <1>2, <1>5 DEF CharTypes
<1>11. l = letter[r]
  OBVIOUS
<1> HIDE DEF l
<1>12. Passed' /\ OneMessage'
  <2>1. Passed'
    BY <1>5 DEF CharInv, Passed
  <2>2. OneMessage'
    <3> SUFFICES ASSUME NEW p \in Procs, NEW q \in Procs, isends'[p][q] # <<>>
                 PROVE  \E k \in Letters : /\ isends'[p][q] = <<k>> /\ LetterOwner(k) = q
                                           /\ letter[q] <= k /\ k < letter[p]
      BY <1>5 DEF OneMessage
    <3>1. isends'[p][q] = isends[p][q]
      BY <1>6
    <3>. QED
      BY <3>1 DEF CharInv, OneMessage
  <2>. QED
    BY <2>1, <2>2
<1>13. Sent'
  <2> SUFFICES ASSUME NEW p \in Procs, NEW q \in Procs, NEW k \in Letters,
                      LetterOwner(k) = q, letter[q] < k, k < letter[p]
               PROVE  isends'[p][q] = <<k>>
    BY <1>5 DEF Sent
  <2>1. isends[p][q] = <<k>>
    BY DEF CharInv, Sent
  <2>2. q # r
    BY <1>2, <1>3, <1>11, LetterFacts
  <2>. QED
    BY <2>1, <2>2, <1>6
<1>14. \A q \in Procs \ {r} : Heard(q)' = Heard(q)
  <2> SUFFICES ASSUME NEW q \in Procs \ {r}, NEW p \in Procs
               PROVE  isends'[p][q] = isends[p][q]
    BY <1>5 DEF Heard
  <2>. QED
    BY <1>6
<1>15. Heard(r)' = Heard(r) \cup {s} /\ s \notin Heard(r)
  <2>1. s \notin Heard(r)
    <3>1. <<l>> # <<>>
      OBVIOUS
    <3>. QED
      BY <3>1, <1>4 DEF Heard
  <2>2. s \in Heard(r)'
    BY <1>4, <1>5, <1>6, <1>2, <1>1, <1>11, LetterTypes DEF Heard
  <2>3. ASSUME NEW p \in Procs \ {r}, p # s PROVE p \in Heard(r)' <=> p \in Heard(r)
    BY <2>3, <1>5, <1>6 DEF Heard
  <2>4. Heard(r) \subseteq Procs \ {r} /\ Heard(r)' \subseteq Procs \ {r}
    BY DEF Heard
  <2>. QED
    BY <2>1, <2>2, <2>3, <2>4
<1>16. PartialsCounted'
  <2> SUFFICES ASSUME NEW q \in Procs
               PROVE  partials'[q] = IF AtOwnLetter(q) THEN Cardinality(Heard(q)') ELSE 0
    BY <1>5 DEF PartialsCounted, AtOwnLetter
  <2>1. partials[q] = IF AtOwnLetter(q) THEN Cardinality(Heard(q)) ELSE 0
    BY DEF CharInv, PartialsCounted
  <2>2. CASE q # r
    BY <2>1, <2>2, <1>1, <1>5, <1>14 DEF CharTypes
  <2>3. CASE q = r
    <3>1. partials'[r] = partials[r] + 1 /\ AtOwnLetter(r)
      BY <1>1, <1>5 DEF CharTypes, ReceivePartial
    <3>2. Cardinality(Heard(r) \cup {s}) = Cardinality(Heard(r)) + 1
      BY <1>15, HeardIsFinite, FS_AddElement
    <3>. QED
      BY <2>1, <2>3, <3>1, <3>2, <1>15
  <2>. QED
    BY <2>2, <2>3
<1>17. Counts'
  <2> SUFFICES ASSUME NEW q \in Procs, NEW k \in Letters
               PROVE  /\ local_count'[q][k] \subseteq (Procs \X {k}) \cup {Freed}
                      /\ eager \/ LetterOwner(k) # q \/ letter[q] < k \/ k <= NumLetters - NumProcs =>
                           local_count'[q][k] = Summed(q, k)' \X {k}
    BY <1>5 DEF Counts
  <2>1. /\ local_count[q][k] \subseteq (Procs \X {k}) \cup {Freed}
        /\ eager \/ LetterOwner(k) # q \/ letter[q] < k \/ k <= NumLetters - NumProcs =>
             local_count[q][k] = Summed(q, k) \X {k}
    BY DEF CharInv, Counts
  <2>2. CASE q # r \/ k # l
    <3>1. Summed(q, k)' = Summed(q, k)
      BY <2>2, <1>5, <1>11, <1>14 DEF Summed
    <3>. QED
      BY <2>1, <2>2, <3>1, <1>10
  <2>3. CASE q = r /\ k = l
    <3>1. local_count'[q][k] = local_count[r][l] \cup Taken(s, l)
      BY <2>3, <1>10
    <3>2. local_count'[q][k] \subseteq (Procs \X {k}) \cup {Freed}
      BY <2>1, <2>3, <3>1, <1>7
    <3>3. ASSUME eager \/ k <= NumLetters - NumProcs PROVE local_count'[q][k] = Summed(q, k)' \X {k}
      <4>1. Summed(q, k) = Heard(r) \cup {r} /\ Summed(q, k)' = Heard(r)' \cup {r}
        BY <2>3, <1>2, <1>5, <1>11 DEF Summed
      <4>2. local_count[r][l] = (Heard(r) \cup {r}) \X {l} /\ Taken(s, l) = {<<s, l>>}
        BY <2>1, <2>3, <3>3, <4>1, <1>8
      <4>3. Heard(r)' \cup {r} = (Heard(r) \cup {r}) \cup {s}
        BY <1>15
      <4> DEFINE H == Heard(r) \cup {r}
                 K == Heard(r)' \cup {r}
      <4>4. K = H \cup {s} /\ local_count'[q][k] = (H \X {l}) \cup {<<s, l>>} /\ Summed(q, k)' = K
        BY <3>1, <4>1, <4>2, <4>3
      <4> HIDE DEF H, K
      <4>5. (H \X {l}) \cup {<<s, l>>} = (H \cup {s}) \X {l}
        OBVIOUS
      <4>. QED
        BY <2>3, <4>4, <4>5
    <3>4. ~ (LetterOwner(k) # q) /\ ~ (letter[q] < k)
      BY <2>3, <1>2, <1>11
    <3>. QED
      BY <3>2, <3>3, <3>4
  <2>. QED
    BY <2>2, <2>3
<1>. QED
  BY <1>9, <1>12, <1>13, <1>16, <1>17 DEF CharInv

LEMMA CharInvAlways == CharInv /\ [Next]_vars => CharInv'
<1> SUFFICES ASSUME CharInv, [Next]_vars PROVE CharInv'
  OBVIOUS
<1>1. CASE CharNext /\ UNCHANGED eager
  BY <1>1, ReceivePartialStep, LetterSummedStep, SendPartialStep DEF CharNext, CharStep
<1>2. CASE UNCHANGED <<eager, charVars>>
  <2>1. CharTypes'
    BY <1>2 DEF CharInv, CharTypes, charVars
  <2>2. \A r \in Procs : Heard(r)' = Heard(r)
    BY <1>2 DEF Heard, charVars
  <2>3. Passed' /\ OneMessage' /\ Sent'
    BY <1>2 DEF CharInv, Passed, OneMessage, Sent, charVars
  <2>4. PartialsCounted'
    BY <1>2, <2>2 DEF CharInv, PartialsCounted, AtOwnLetter, charVars
  <2>5. Counts'
    BY <1>2, <2>2 DEF CharInv, Counts, Summed, charVars
  <2>. QED
    BY <2>1, <2>3, <2>4, <2>5 DEF CharInv
<1>. QED
  BY <1>1, <1>2 DEF Next, vars, Road, Chars, Filters, AntsRun, Scripts

(***************************************************************************)
(* The ants.                                                               *)
(***************************************************************************)

USE AntsAssumption

\* The ants of a rank have made the move of this iteration.
Moved(r) == place[r] \in {"reduce", "reducing"}

\* The root has given its centre of this iteration.
RootGave == place[0] \in {"move", "reduce", "reducing"}

\* A rank that is ahead of the root by an iteration has contributed, and waits for the root.
AntsOrder ==
  /\ \A r \in Procs :
       /\ place[r] = "scatter" => iter[r] = 0
       /\ place[r] # "scatter" => (place[r] = "end" <=> iter[r] = AntIterations)
       /\ moves[r] = iter[r] + (IF Moved(r) THEN 1 ELSE 0)
  /\ \A r \in Procs \ {0} :
       /\ place[0] = "scatter" => place[r] = "scatter"
       /\ place[r] # "reducing"
       /\ \/ iter[r] = iter[0] /\ (place[r] \in {"move", "reduce"} => RootGave)
          \/ iter[r] = iter[0] + 1 /\ place[r] \in {"bcast", "end"} /\ RootGave

Centers ==
  /\ \A r \in Procs \ {0} : contributed[r] = IF iter[r] = iter[0] THEN -1 ELSE iter[0] + 1
  /\ contributed[0] = IF place[0] = "reducing" THEN iter[0] + 1 ELSE -1
  /\ place[0] # "scatter" => center[0] = [q \in Procs |-> iter[0]]
  /\ \A r \in Procs : place[r] = "move" => center[r] = [q \in Procs |-> iter[r]]

AntsInv == AntsTypeOK /\ AntsOrder /\ Centers


LEMMA RootIsARank == 0 \in Procs /\ Procs \subseteq Nat
  BY DEF Procs

LEMMA AntsInitially == AntsInit => AntsInv
  BY RootIsARank DEF AntsInit, AntsInv, AntsTypeOK, AntsOrder, Centers, Stale, Moved, RootGave

LEMMA ScatterStep == ASSUME AntsInv, NEW r \in Procs, Scatter(r) PROVE AntsInv'
<1> USE DEF AntsInv, Scatter
<1>1. AntsTypeOK'
  BY RootIsARank DEF AntsTypeOK, Loop
<1>2. AntsOrder'
  BY RootIsARank DEF AntsTypeOK, AntsOrder, Moved, RootGave, Loop
<1>3. Centers'
  <2>1. iter[r] = 0
    BY DEF AntsOrder
  <2>2. r = 0 => center'[0] = [q \in Procs |-> iter'[0]]
    BY <2>1, RootIsARank DEF AntsTypeOK
  <2>3. r # 0 => center' = center /\ place'[0] = place[0] /\ place[0] # "scatter"
    BY RootIsARank DEF AntsTypeOK
  <2>4. \A q \in Procs : place'[q] = "move" => place[q] = "move" /\ q # r
    BY DEF AntsTypeOK, Loop
  <2>5. \A q \in Procs : place'[q] = "move" => center'[q] = [p \in Procs |-> iter'[q]]
    <3> SUFFICES ASSUME NEW q \in Procs, place'[q] = "move" PROVE center'[q] = [p \in Procs |-> iter[q]]
      OBVIOUS
    <3>1. center'[q] = center[q] /\ place[q] = "move"
      BY <2>4, RootIsARank DEF AntsTypeOK
    <3>. QED
      BY <3>1 DEF Centers
  <2>6. place'[0] # "scatter" => center'[0] = [q \in Procs |-> iter'[0]]
    BY <2>2, <2>3 DEF Centers
  <2>7. (place'[0] = "reducing") = (place[0] = "reducing")
    BY RootIsARank DEF AntsTypeOK, Loop
  <2>. QED
    BY <2>5, <2>6, <2>7 DEF Centers
<1>. QED
  BY <1>1, <1>2, <1>3

LEMMA BcastCenterStep == ASSUME AntsInv, NEW r \in Procs, BcastCenter(r) PROVE AntsInv'
<1> USE DEF AntsInv, BcastCenter
<1>1. AntsTypeOK'
  BY RootIsARank DEF AntsTypeOK
<1>2. AntsOrder'
  BY RootIsARank DEF AntsTypeOK, AntsOrder, Moved, RootGave
<1>3. Centers'
  <2>1. center[0] = [q \in Procs |-> iter[0]] /\ center'[0] = center[0]
    BY RootIsARank DEF AntsTypeOK, AntsOrder, Centers
  <2>2. center'[r] = center[0] /\ iter[r] = iter[0]
    BY RootIsARank DEF AntsTypeOK, AntsOrder
  <2>3. \A q \in Procs : place'[q] = "move" => center'[q] = [p \in Procs |-> iter'[q]]
    <3> SUFFICES ASSUME NEW q \in Procs, place'[q] = "move" PROVE center'[q] = [p \in Procs |-> iter[q]]
      BY ZenonT(100)
    <3>1. CASE q = r
      BY <3>1, <2>1, <2>2
    <3>2. CASE q # r
      <4>1. center'[q] = center[q] /\ place[q] = "move"
        BY <3>2, RootIsARank DEF AntsTypeOK
      <4>. QED
        BY <4>1 DEF Centers
    <3>. QED
      BY <3>1, <3>2
  <2>4. (place'[0] = "reducing") = (place[0] = "reducing")
    BY RootIsARank DEF AntsTypeOK
  <2>. QED
    BY <2>1, <2>3, <2>4 DEF Centers
<1>. QED
  BY <1>1, <1>2, <1>3

LEMMA MoveAntsStep == ASSUME AntsInv, NEW r \in Procs, MoveAnts(r) PROVE AntsInv'
<1> USE DEF AntsInv, MoveAnts
<1>1. AntsTypeOK'
  BY RootIsARank DEF AntsTypeOK, AntsOrder, Moved
<1>2. AntsOrder'
  BY RootIsARank DEF AntsTypeOK, AntsOrder, Moved, RootGave
<1>3. Centers'
  BY RootIsARank DEF AntsTypeOK, AntsOrder, Centers, Moved, RootGave
<1>. QED
  BY <1>1, <1>2, <1>3

LEMMA GiveLocalCenterStep == ASSUME AntsInv, NEW r \in Procs, GiveLocalCenter(r) PROVE AntsInv'
<1> USE DEF AntsInv, GiveLocalCenter
<1>1. iter[r] + 1 \in 0 .. AntIterations
  BY RootIsARank DEF AntsTypeOK, AntsOrder
<1>2. AntsTypeOK'
  BY <1>1, RootIsARank DEF AntsTypeOK, AntsOrder, Loop, Stale
<1>3. AntsOrder'
  BY <1>1, RootIsARank DEF AntsTypeOK, AntsOrder, Moved, RootGave, Loop
<1>4. Centers'
  <2>1. \A q \in Procs : place'[q] = "move" => q # r /\ place[q] = "move"
    BY RootIsARank DEF AntsTypeOK, Loop
  <2>2. \A q \in Procs \ {r} : center'[q] = center[q] /\ iter'[q] = iter[q] /\ contributed'[q] = contributed[q]
    BY DEF AntsTypeOK
  <2>3. \A q \in Procs : place'[q] = "move" => center'[q] = [p \in Procs |-> iter'[q]]
    <3> SUFFICES ASSUME NEW q \in Procs, place'[q] = "move" PROVE center'[q] = [p \in Procs |-> iter'[q]]
      OBVIOUS
    <3>1. center'[q] = center[q] /\ iter'[q] = iter[q] /\ place[q] = "move"
      BY <2>1, <2>2
    <3>2. center[q] = [p \in Procs |-> iter[q]]
      BY <3>1 DEF Centers
    <3>. QED
      BY <3>1, <3>2, Zenon
  <2>4. center'[0] = center[0] /\ iter'[0] = iter[0] /\ place[0] # "scatter"
    BY RootIsARank DEF AntsTypeOK, AntsOrder
  <2>5. place'[0] # "scatter" => center'[0] = [q \in Procs |-> iter'[0]]
    BY <2>4 DEF Centers
  <2>6. contributed'[r] = iter[0] + 1 /\ (r # 0 => iter'[r] = iter[0] + 1)
    BY RootIsARank DEF AntsTypeOK, AntsOrder, Centers, Moved
  <2>7. place'[0] = (IF r = 0 THEN "reducing" ELSE place'[0]) /\ (r # 0 => place'[0] = place[0])
    BY RootIsARank DEF AntsTypeOK
  <2>8. \A q \in Procs \ {0} : contributed'[q] = IF iter'[q] = iter'[0] THEN -1 ELSE iter'[0] + 1
    BY <2>2, <2>4, <2>6, RootIsARank DEF AntsTypeOK, Centers
  <2>9. contributed'[0] = IF place'[0] = "reducing" THEN iter'[0] + 1 ELSE -1
    BY <2>2, <2>4, <2>6, <2>7, RootIsARank DEF Centers
  <2>. QED
    BY <2>3, <2>5, <2>8, <2>9 DEF Centers
<1>. QED
  BY <1>2, <1>3, <1>4

LEMMA NewCenterStep == ASSUME AntsInv, NewCenter PROVE AntsInv'
<1> USE DEF AntsInv, NewCenter
<1>1. iter[0] + 1 \in 0 .. AntIterations
  BY RootIsARank DEF AntsTypeOK, AntsOrder
<1>2. \A r \in Procs \ {0} : iter[r] = iter[0] + 1 /\ place[r] \in {"bcast", "end"}
  BY RootIsARank DEF AntsTypeOK, AntsOrder, Centers
<1>3. AntsTypeOK'
  BY <1>1, RootIsARank DEF AntsTypeOK, Loop
<1>4. AntsOrder'
  BY <1>1, <1>2, RootIsARank DEF AntsTypeOK, AntsOrder, Moved, RootGave, Loop
<1>5. contributed = [q \in Procs |-> iter[0] + 1]
  BY <1>2, RootIsARank DEF AntsTypeOK, Centers
<1>6. Centers'
  BY <1>1, <1>2, <1>5, RootIsARank DEF AntsTypeOK, Centers, Loop
<1>. QED
  BY <1>3, <1>4, <1>6

LEMMA AntsInvAlways == AntsInv /\ [Next]_vars => AntsInv'
<1> SUFFICES ASSUME AntsInv, [Next]_vars PROVE AntsInv'
  OBVIOUS
<1>1. CASE AntsNext
  BY <1>1, ScatterStep, BcastCenterStep, MoveAntsStep, GiveLocalCenterStep, NewCenterStep DEF AntsNext, AntStep
<1>2. CASE UNCHANGED antVars
  BY <1>2 DEF AntsInv, AntsTypeOK, AntsOrder, Centers, antVars, Moved, RootGave
<1>. QED
  BY <1>1, <1>2 DEF Next, vars, Road, Chars, Filters, AntsRun, Scripts

LEMMA AntsInvImplies == AntsInv => MovesTowardsCenter
  BY DEF AntsInv, Centers, MovesTowardsCenter

(***************************************************************************)
(* All of them.                                                            *)
(***************************************************************************)

MpiInv == eager \in BOOLEAN /\ ProgInv /\ FilterInv /\ CharInv /\ AntsInv

\* The inductive invariant of the four: whichever program runs, the others stand still.
THEOREM MpiInvariant == Spec => []MpiInv
<1>1. Init => MpiInv
  BY AntsInitially, CharInitially, ProgInitially, FilterInitially DEF Init, MpiInv
<1>2. MpiInv /\ [Next]_vars => MpiInv'
  <2>1. [Next]_vars => UNCHANGED eager
    BY DEF Next, Road, Chars, Filters, AntsRun, Scripts, vars
  <2>. QED
    BY <2>1, AntsInvAlways, CharInvAlways, ProgInvAlways, FilterInvAlways DEF MpiInv
<1>. QED
  BY <1>1, <1>2, PTL DEF Spec

\* The counters, messages and buffers of every MPI program have their types: no call is made
\* past the last of a program, and no count of the filter is larger than the ranks allow.
THEOREM MpiTypesOK == Spec => []TypeOK
<1>1. MpiInv /\ RoadInv => TypeOK
  BY CharInvImplies, ProgInvImplies, FilterInvImplies, RoadInvImplies DEF MpiInv, AntsInv, RoadInv, TypeOK
<1>. QED
  BY <1>1, MpiInvariant, RoadInvariant, PTL

\* Receives from anyone, with any tag and of any length give the results of char_count.c and
\* filter.c all the same: no letter gets another one's count, every letter but the last ones
\* the counts of all the files, and the master all the multiples and nothing else.
THEOREM MpiResultsExact == Spec => []ResultsExact
<1>1. MpiInv => ResultsExact
  BY CharInvImplies, FilterInvImplies DEF MpiInv, ResultsExact
<1>. QED
  BY <1>1, MpiInvariant, PTL

\* The ring makes one hop for each rank, the two players of ping_pong.c are never more than a
\* number apart, the two programs that are meant to hang do, whatever the library buffers, and
\* every ant moves towards the center of where all of them were.
THEOREM MpiRanksInStep == Spec => []RanksInStep
<1>1. MpiInv => RanksInStep
  BY AntsInvImplies, ProgInvImplies DEF MpiInv, RanksInStep
<1>. QED
  BY <1>1, MpiInvariant, PTL
===============================================================================
