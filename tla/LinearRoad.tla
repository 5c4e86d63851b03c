------------------------------ MODULE LinearRoad -----------------------------
(***************************************************************************)
(* MPI/NSDS_MPI_lab/linear_road.c: a road of segments split among the      *)
(* ranks.  In an iteration every rank lets cars out of its last segment    *)
(* to the next rank, moves cars inside, takes in the ones of the rank      *)
(* before, and at times contributes to the number of cars on the road.     *)
(*                                                                         *)
(* MPI_Send returns at once or when its message is received, as the MPI    *)
(* library likes (eager).                                                  *)
(***************************************************************************)
EXTENDS Mpi, Functions

CONSTANTS
  Local,         \* num_segments / num_procs
  NumIterations,
  CountEvery,    \* count_every
  MaxIn          \* max_in_per_sec - 1

ASSUME RoadAssumption ==
  /\ Local \in Nat \ {0} /\ CountEvery \in Nat \ {0}
  /\ NumIterations \in Nat /\ MaxIn \in Nat

Segs    == 0 .. Local - 1
LastRank    == NumProcs - 1
None    == -1

VARIABLES
  phase,        \* where each rank is in the loop
  it,
  segments,
  exiting,   \* the message under way to each rank; None when there is none
  local_sum, \* what each rank contributed to the MPI_Reduce of this iteration
  global_sum,\* the sum that was printed last
  entered,   \* history: the cars that came to the road
  exited     \* history: the cars that left it

roadVars == <<phase, it, segments, exiting, local_sum, global_sum, entered, exited>>

RoadInit ==
  /\ phase = [r \in Procs |-> IF NumIterations = 0 THEN "done" ELSE "exit"]
  /\ it = [r \in Procs |-> 0]
  /\ segments = [r \in Procs |-> [s \in Segs |-> 0]]
  /\ exiting = [r \in Procs |-> None]
  /\ local_sum = [r \in Procs |-> None]
  /\ global_sum = 0
  /\ entered = 0
  /\ exited = 0

\* The order of the parts of an iteration.
After == [exit |-> "move", move |-> "enter", enter |-> "count"]

\* for (c = 0; c < n; c++) if (move_next_segment() == 1) n--: how many cars may leave while
\* k = n - c are to be asked.  One that leaves ends the loop a turn earlier.
MoveLoop[k \in Nat] ==
  IF k = 0 THEN {0}
  ELSE MoveLoop[k - 1] \cup {cars + 1 : cars \in MoveLoop[IF k = 1 THEN 0 ELSE k - 2]}

\* The numbers of cars that may leave a segment of n: at most half of them, rounded up.
Leaving(n) == MoveLoop[n]

\* Cars leave the last segment.  Those of the last rank leave the road.
ExitAndSend(r) ==
  /\ phase[r] = "exit"
  /\ \E cars \in Leaving(segments[r][Local - 1]) :
       /\ segments' = [segments EXCEPT ![r][Local - 1] = @ - cars]
       /\ IF r # LastRank
          THEN exiting' = [exiting EXCEPT ![r + 1] = cars] /\ UNCHANGED exited
          ELSE exited' = exited + cars /\ UNCHANGED exiting
  /\ phase' = [phase EXCEPT ![r] = IF eager \/ r = LastRank THEN After.exit ELSE "send"]
  /\ UNCHANGED <<it, local_sum, global_sum, entered>>

\* A send that is not buffered returns.
SendReturns(r) ==
  /\ phase[r] = "send" /\ exiting[r + 1] = None
  /\ phase' = [phase EXCEPT ![r] = After.exit]
  /\ UNCHANGED <<it, segments, exiting, local_sum, global_sum, entered, exited>>

\* From the segment before the last down to the first: a car moves once.
Move(r) ==
  /\ phase[r] = "move"
  /\ \E out \in [Segs -> UNION {Leaving(segments[r][s]) : s \in Segs}] :
       /\ out[Local - 1] = 0
       /\ \A s \in Segs : out[s] \in Leaving(segments[r][s])
       /\ segments' = [segments EXCEPT ![r] =
            [s \in Segs |-> @[s] - out[s] + IF s = 0 THEN 0 ELSE out[s - 1]]]
  /\ phase' = [phase EXCEPT ![r] = After.move]
  /\ UNCHANGED <<it, exiting, local_sum, global_sum, entered, exited>>

\* Mutants: every rank receives; the receive does not wait; what it receives replaces the
\* cars of the first segment.
NoneCreates(r)  == FALSE
DoesNotWait(r)  == TRUE
OnlyReceived(r) == exiting[r]

Creates(r)      == r = 0
HasReceived(r)  == exiting[r] # None
WithReceived(r) == segments[r][0] + exiting[r]

\* The first rank creates cars, the others receive them.
Enter(r) ==
  /\ phase[r] = "enter"
  /\ \/ /\ Creates(r)
        /\ \E cars \in 0 .. MaxIn :
             /\ segments' = [segments EXCEPT ![r][0] = @ + cars]
             /\ entered' = entered + cars
        /\ UNCHANGED exiting
     \/ /\ ~ Creates(r) /\ HasReceived(r)
        /\ segments' = [segments EXCEPT ![r][0] = WithReceived(r)]
        /\ exiting' = [exiting EXCEPT ![r] = None]
        /\ UNCHANGED entered
  /\ phase' = [phase EXCEPT ![r] = After.enter]
  /\ UNCHANGED <<it, local_sum, global_sum, exited>>

\* When no count is due, the next thing is the barrier.
SkipCount(r) ==
  /\ phase[r] = "count" /\ it[r] % CountEvery # 0
  /\ phase' = [phase EXCEPT ![r] = "barrier"]
  /\ UNCHANGED <<it, segments, exiting, local_sum, global_sum, entered, exited>>

\* Mutant: the last segment is left out.
ContributeButLast(r) ==
  /\ phase[r] = "count" /\ it[r] % CountEvery = 0
  /\ local_sum' = [local_sum EXCEPT ![r] = SumFunctionOnSet(segments[r], Segs \ {Local - 1})]
  /\ phase' = [phase EXCEPT ![r] = IF r = 0 THEN "print" ELSE "barrier"]
  /\ UNCHANGED <<it, segments, exiting, global_sum, entered, exited>>

\* Every rank contributes; the first one waits for all the contributions.
Contribute(r) ==
  /\ phase[r] = "count" /\ it[r] % CountEvery = 0
  /\ local_sum' = [local_sum EXCEPT ![r] = SumFunction(segments[r])]
  /\ phase' = [phase EXCEPT ![r] = IF r = 0 THEN "print" ELSE "barrier"]
  /\ UNCHANGED <<it, segments, exiting, global_sum, entered, exited>>

PrintSum ==
  /\ phase[0] = "print"
  /\ \A r \in Procs : local_sum[r] # None
  /\ global_sum' = SumFunction(local_sum)
  /\ local_sum' = [r \in Procs |-> None]
  /\ phase' = [phase EXCEPT ![0] = "barrier"]
  /\ UNCHANGED <<it, segments, exiting, entered, exited>>

\* MPI_Barrier: a rank leaves it when every rank has reached it.
LeaveBarrier(r) ==
  /\ phase[r] = "barrier"
  /\ \A q \in Procs : it[q] > it[r] \/ (it[q] = it[r] /\ phase[q] = "barrier")
  /\ it' = [it EXCEPT ![r] = @ + 1]
  /\ phase' = [phase EXCEPT ![r] = IF it[r] + 1 = NumIterations THEN "done" ELSE "exit"]
  /\ UNCHANGED <<segments, exiting, local_sum, global_sum, entered, exited>>

RoadStep(r) == ExitAndSend(r) \/ SendReturns(r) \/ Move(r) \/ Enter(r) \/ SkipCount(r) \/ Contribute(r) \/ LeaveBarrier(r)

RoadDone == \A r \in Procs : phase[r] = "done"

RoadNext == (\E r \in Procs : RoadStep(r)) \/ PrintSum

(***************************************************************************)
(* Properties                                                              *)
(***************************************************************************)

RoadTypeOK ==
  /\ phase \in [Procs -> {"exit", "send", "move", "enter", "count", "print", "barrier", "done"}]
  /\ it \in [Procs -> 0 .. NumIterations]
  /\ segments \in [Procs -> [Segs -> Nat]]
  /\ exiting \in [Procs -> Nat \cup {None}]
  /\ local_sum \in [Procs -> Nat \cup {None}]
  /\ global_sum \in Nat /\ entered \in Nat /\ exited \in Nat

OnRoad  == SumFunction([r \in Procs |-> SumFunction(segments[r])])
Between == SumFunction([r \in Procs |-> IF exiting[r] = None THEN 0 ELSE exiting[r]])

\* No car is lost or doubled: at any moment the cars on the segments, in messages and
\* gone from the last segment are those that came to the first one.
CarsConserved == OnRoad + Between + exited = entered

\* A car moves at most one segment in an iteration, also into the segments of another
\* rank, although ranks take their steps at different times: the k-th segment of the
\* road is empty until iteration k.
OneSegmentPerIteration ==
  \A r \in Procs, s \in Segs : segments[r][s] > 0 => r * Local + s <= it[r]

\* The sum that is printed is of one instant of the simulation: it has the cars that came
\* to the road until the end of the iteration and have not left it, none counted by two
\* ranks, or by none because it was in a message.  (When the first rank has all the
\* contributions, every rank is done with the cars of this iteration and none is in the next.)
SumIsConsistent == [][PrintSum => global_sum' = entered - exited]_roadVars
=============================================================================
