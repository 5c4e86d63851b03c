---------------------------------- MODULE Ants --------------------------------
(***************************************************************************)
(* MPI/NSDS_MPI_eval/ants_simulation_25.c: in every iteration the centre   *)
(* of the ants is sent to all the ranks, each moves its own ants towards   *)
(* it and contributes to the next centre.                                  *)
(*                                                                         *)
(* What is followed is which positions a centre was computed from: the     *)
(* moves each rank's ants had made.  A variable that holds no centre that  *)
(* was broadcast or reduced is Stale.                                      *)
(***************************************************************************)
EXTENDS Mpi

CONSTANT AntIterations   \* num_iterations

ASSUME AntsAssumption == AntIterations \in Nat

Stale == [r \in Procs |-> -1]

VARIABLES
  place,        \* the call each rank is about to make, or "move"
  iter,
  moves,        \* how often each rank's ants moved
  center,
  contributed   \* what each rank gave to the MPI_Reduce of this iteration; -1 before

antVars == <<place, iter, moves, center, contributed>>

AntsInit ==
  /\ place = [r \in Procs |-> "scatter"]
  /\ iter = [r \in Procs |-> 0]
  /\ moves = [r \in Procs |-> 0]
  /\ center = [r \in Procs |-> Stale]
  /\ contributed = [r \in Procs |-> -1]

Loop(i) == IF i < AntIterations THEN "bcast" ELSE "end"

\* MPI_Bcast of the food and MPI_Scatter of the ants, from rank 0, which then computes the
\* first centre, of all the ants.
Scatter(r) ==
  /\ place[r] = "scatter"
  /\ r # 0 => place[0] # "scatter"
  /\ center' = IF r = 0 THEN [center EXCEPT ![0] = [q \in Procs |-> 0]] ELSE center
  /\ place' = [place EXCEPT ![r] = Loop(0)]
  /\ UNCHANGED <<iter, moves, contributed>>

\* Mutant: a rank does not wait for the root.
BcastEarly(r) ==
  /\ place[r] = "bcast"
  /\ center' = IF r = 0 THEN center ELSE [center EXCEPT ![r] = center[0]]
  /\ place' = [place EXCEPT ![r] = "move"]
  /\ UNCHANGED <<iter, moves, contributed>>

\* MPI_Bcast: the root gives its centre of this iteration and goes on, as far as the
\* MPI_Reduce, which needs the others; it does not change its centre before.
BcastCenter(r) ==
  /\ place[r] = "bcast"
  /\ r # 0 => iter[0] = iter[r] /\ place[0] \in {"move", "reduce", "reducing"}
  /\ center' = IF r = 0 THEN center ELSE [center EXCEPT ![r] = center[0]]
  /\ place' = [place EXCEPT ![r] = "move"]
  /\ UNCHANGED <<iter, moves, contributed>>

MoveAnts(r) ==
  /\ place[r] = "move"
  /\ moves' = [moves EXCEPT ![r] = @ + 1]
  /\ place' = [place EXCEPT ![r] = "reduce"]
  /\ UNCHANGED <<iter, center, contributed>>

\* MPI_Reduce: a rank gives its local centre.  All but the root go on; there
\* center /= num_procs leaves a centre that is no longer one.
GiveLocalCenter(r) ==
  /\ place[r] = "reduce" /\ contributed[r] = -1
  /\ contributed' = [contributed EXCEPT ![r] = moves[r]]
  /\ \/ /\ r # 0
        /\ center' = [center EXCEPT ![r] = Stale]
        /\ iter' = [iter EXCEPT ![r] = @ + 1]
        /\ place' = [place EXCEPT ![r] = Loop(iter[r] + 1)]
     \/ /\ r = 0
        /\ place' = [place EXCEPT ![0] = "reducing"]
        /\ UNCHANGED <<center, iter>>
  /\ UNCHANGED moves

\* The root has all of them: the next centre, printed as this iteration's.
NewCenter ==
  /\ place[0] = "reducing"
  /\ \A r \in Procs : contributed[r] # -1
  /\ center' = [center EXCEPT ![0] = contributed]
  /\ contributed' = [r \in Procs |-> -1]
  /\ iter' = [iter EXCEPT ![0] = @ + 1]
  /\ place' = [place EXCEPT ![0] = Loop(iter[0] + 1)]
  /\ UNCHANGED moves

AntStep(r) == Scatter(r) \/ BcastCenter(r) \/ MoveAnts(r) \/ GiveLocalCenter(r) \/ (r = 0 /\ NewCenter)

AntsDone == \A r \in Procs : place[r] = "end"

AntsNext == \E r \in Procs : AntStep(r)

(***************************************************************************)
(* Properties                                                              *)
(***************************************************************************)

AntsTypeOK ==
  /\ place \in [Procs -> {"scatter", "bcast", "move", "reduce", "reducing", "end"}]
  /\ iter \in [Procs -> 0 .. AntIterations] /\ moves \in [Procs -> 0 .. AntIterations]
  /\ center \in [Procs -> [Procs -> -1 .. AntIterations]]
  /\ contributed \in [Procs -> -1 .. AntIterations]

\* Ranks are in different iterations at times, and the variable that holds the centre is
\* also what every rank divides after each reduction: all the same every rank moves its
\* ants towards the centre of where all the ants were at the end of the iteration before.
MovesTowardsCenter ==
  \A r \in Procs : place[r] = "move" => center[r] = [q \in Procs |-> iter[r]]
=============================================================================
