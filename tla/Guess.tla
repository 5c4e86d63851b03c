------------------------------- MODULE Guess --------------------------------
(***************************************************************************)
(* MPI/NSDS_MPI_lab/guess.c: NumProcs ranks play NumRounds rounds of a     *)
(* guessing game.  The rank that gathers the numbers and broadcasts the    *)
(* winner, the leader, is the winner of the last round that had one, and   *)
(* every rank keeps ITS OWN copy of who the leader is.                     *)
(*                                                                         *)
(* Nothing synchronises the ranks at the end of a round: a rank that has   *)
(* the winner of round r starts round r + 1 while others still wait for    *)
(* it.  MPI matches the collective calls of a communicator in the order    *)
(* each rank makes them, so a message is labelled with its round; a call   *)
(* whose root differs from the other ranks' root finds no partner.         *)
(*                                                                         *)
(* picks, target and result are history variables: what every rank picked, *)
(* what had to be guessed and what was announced in every round.           *)
(***************************************************************************)
EXTENDS Integers, FiniteSets

CONSTANTS
  NumProcs,       \* size of MPI_COMM_WORLD
  NumRounds,      \* num_rounds, 1000 in the code
  MinNum, MaxNum, \* min_num and max_num, 1 and 1000 in the code
  IntMax          \* __INT_MAX__

ASSUME NumProcsAssumption  == NumProcs \in Nat \ {0}
ASSUME NumRoundsAssumption == NumRounds \in Nat \ {0}
ASSUME NumbersAssumption ==
  /\ MinNum \in Int /\ MaxNum \in Int /\ IntMax \in Int
  /\ MinNum <= MaxNum
  /\ MaxNum - MinNum < IntMax

Procs    == 0 .. NumProcs - 1
Rounds   == 0 .. NumRounds - 1
Numbers  == MinNum .. MaxNum
NoWinner == -1
Pending  == -2     \* history only: the round has no announced result yet
Winners  == Procs \cup {NoWinner}

Diff(a, b) == IF a > b THEN a - b ELSE b - a

VARIABLES
  pc,          \* where each rank is in the body of main's loop
  round,       \* round of each rank
  leader,      \* the global "leader" of each rank
  winner,      \* main's (and compute_winner's) "winner" of each rank
  net,         \* messages of the collectives that were sent and not received
  buffer,      \* what the last MPI_Gather gave the rank that led it
  i, min, multiple_guess,  \* compute_winner's locals, of the rank that runs it
  guess,       \* the number to guess, of the rank that runs compute_winner
  leaderboard, \* kept by rank 0
  picks, target, result    \* history

procVars == <<pc, round, leader, winner>>
loopVars == <<buffer, i, min, multiple_guess, guess>>
history  == <<picks, target, result>>
vars     == <<procVars, net, loopVars, leaderboard, history>>

Message ==
       [kind : {"number"}, src : Procs, dst : Procs, round : Rounds, val : Numbers]
  \cup [kind : {"winner"}, src : Procs, dst : Procs, round : Rounds, val : Winners]

Number(src, dst, r, n) ==
  [kind |-> "number", src |-> src, dst |-> dst, round |-> r, val |-> n]
Result(src, dst, r, w) ==
  [kind |-> "winner", src |-> src, dst |-> dst, round |-> r, val |-> w]

Init ==
  /\ pc = [p \in Procs |-> "select"]
  /\ round = [p \in Procs |-> 0]
  /\ leader = [p \in Procs |-> 0]
  /\ winner = [p \in Procs |-> NoWinner]
  /\ net = {}
  /\ buffer = [p \in Procs |-> [q \in Procs |-> MinNum]]
  /\ i = [p \in Procs |-> 0]
  /\ min = [p \in Procs |-> IntMax]
  /\ multiple_guess = [p \in Procs |-> FALSE]
  /\ guess = [p \in Procs |-> MinNum]
  /\ leaderboard = [p \in Procs |-> 0]
  /\ picks = [r \in Rounds |-> [p \in Procs |-> MinNum]]
  /\ target = [r \in Rounds |-> MinNum]
  /\ result = [r \in Rounds |-> Pending]

(***************************************************************************)
(* One iteration of main's loop.                                           *)
(***************************************************************************)

\* Mutant: every rank names rank 0, the first leader, as the root for ever.
SendNumToRankZero(p) ==
  /\ pc[p] = "select"
  /\ \E n \in Numbers :
       /\ net' = net \cup {Number(p, 0, round[p], n)}
       /\ picks' = [picks EXCEPT ![round[p]] = [@ EXCEPT ![p] = n]]
  /\ pc' = [pc EXCEPT ![p] = IF p = leader[p] THEN "gather" ELSE "bcast"]
  /\ UNCHANGED <<round, leader, winner, loopVars, leaderboard, target, result>>

\* send_num_to_leader: a rank that is not the leader hands its number to the
\* MPI_Gather and goes on to the MPI_Bcast; the leader waits for all numbers.
SendNumToLeader(p) ==
  /\ pc[p] = "select"
  /\ \E n \in Numbers :
       /\ net' = net \cup {Number(p, leader[p], round[p], n)}
       /\ picks' = [picks EXCEPT ![round[p]] = [@ EXCEPT ![p] = n]]
  /\ pc' = [pc EXCEPT ![p] = IF p = leader[p] THEN "gather" ELSE "bcast"]
  /\ UNCHANGED <<round, leader, winner, loopVars, leaderboard, target, result>>

Gathered(p) == {m \in net : m.kind = "number" /\ m.dst = p /\ m.round = round[p]}

\* The leader's MPI_Gather completes: every rank contributed.  It selects the
\* number to guess and enters compute_winner.
Gather(p) ==
  /\ pc[p] = "gather"
  /\ \A q \in Procs : \E m \in Gathered(p) : m.src = q
  /\ buffer' = [buffer EXCEPT ![p] =
                 [q \in Procs |-> (CHOOSE m \in Gathered(p) : m.src = q).val]]
  /\ net' = net \ Gathered(p)
  /\ \E t \in Numbers :
       /\ guess' = [guess EXCEPT ![p] = t]
       /\ target' = [target EXCEPT ![round[p]] = t]
  /\ i' = [i EXCEPT ![p] = 0]
  /\ min' = [min EXCEPT ![p] = IntMax]
  /\ multiple_guess' = [multiple_guess EXCEPT ![p] = FALSE]
  /\ winner' = [winner EXCEPT ![p] = NoWinner]
  /\ pc' = [pc EXCEPT ![p] = "compute"]
  /\ UNCHANGED <<round, leader, leaderboard, picks, result>>

\* Mutant: abs() forgotten.
SignedDiff(p) == guess[p] - buffer[p][i[p]]

\* diff in compute_winner's loop, for the number of rank i[p].
diff(p) == Diff(guess[p], buffer[p][i[p]])

\* One turn of compute_winner's loop, on the number of rank i[p].
ComputeWinner(p) ==
  /\ pc[p] = "compute" /\ i[p] < NumProcs
  /\ i' = [i EXCEPT ![p] = @ + 1]
  /\ \/ /\ diff(p) < min[p]
        /\ min' = [min EXCEPT ![p] = diff(p)]
        /\ winner' = [winner EXCEPT ![p] = i[p]]
        /\ multiple_guess' = [multiple_guess EXCEPT ![p] = FALSE]
     \/ /\ diff(p) = min[p]
        /\ multiple_guess' = [multiple_guess EXCEPT ![p] = TRUE]
        /\ UNCHANGED <<min, winner>>
     \/ /\ diff(p) > min[p]
        /\ UNCHANGED <<min, winner, multiple_guess>>
  /\ UNCHANGED <<pc, round, leader, net, buffer, guess, leaderboard, history>>

\* Mutant: the first of several closest ranks wins.
FirstWinner(p) == winner[p]

\* What compute_winner returns when its loop is over.
ReturnedWinner(p) == IF multiple_guess[p] THEN NoWinner ELSE winner[p]

\* The leader's compute_winner returns and its send_winner broadcasts.
SendWinner(p) ==
  /\ pc[p] = "compute" /\ i[p] = NumProcs
  /\ winner' = [winner EXCEPT ![p] = ReturnedWinner(p)]
  /\ net' = net \cup {Result(p, q, round[p], ReturnedWinner(p)) : q \in Procs \ {p}}
  /\ result' = [result EXCEPT ![round[p]] = ReturnedWinner(p)]
  /\ pc' = [pc EXCEPT ![p] = "update"]
  /\ UNCHANGED <<round, leader, loopVars, leaderboard, picks, target>>

\* The other ranks' send_winner: the MPI_Bcast whose root is THEIR leader.
ReceiveWinner(p) ==
  /\ pc[p] = "bcast"
  /\ \E m \in net :
       /\ m.kind = "winner" /\ m.dst = p /\ m.src = leader[p] /\ m.round = round[p]
       /\ winner' = [winner EXCEPT ![p] = m.val]
       /\ net' = net \ {m}
  /\ pc' = [pc EXCEPT ![p] = "update"]
  /\ UNCHANGED <<round, leader, loopVars, leaderboard, history>>

\* Mutant: winner -1 is not guarded against.
UnguardedLeader(p) == winner[p]

\* Mutant: only the rank that keeps the leader board updates its leader.
LeaderOfRankZeroOnly(p) == IF p = 0 /\ winner[p] # NoWinner THEN winner[p] ELSE leader[p]

\* update_leader: the value "leader" has after it.
UpdatedLeader(p) == IF winner[p] # NoWinner THEN winner[p] ELSE leader[p]

\* Mutant: the point goes to the leader of the round instead of its winner.
PointToLeader(p) ==
  IF winner[p] # NoWinner THEN [leaderboard EXCEPT ![leader[p]] = @ + 1] ELSE leaderboard

\* update_leaderboard: the value "leaderboard" has after it.
UpdatedLeaderboard(p) ==
  IF winner[p] # NoWinner THEN [leaderboard EXCEPT ![winner[p]] = @ + 1] ELSE leaderboard

\* The end of the loop's body: update_leader, and update_leaderboard on rank 0.
Update(p) ==
  /\ pc[p] = "update"
  /\ leader' = [leader EXCEPT ![p] = UpdatedLeader(p)]
  /\ leaderboard' = IF p = 0 THEN UpdatedLeaderboard(p) ELSE leaderboard
  /\ round' = [round EXCEPT ![p] = @ + 1]
  /\ pc' = [pc EXCEPT ![p] = IF round[p] + 1 < NumRounds THEN "select" ELSE "barrier"]
  /\ UNCHANGED <<winner, net, loopVars, history>>

\* The final MPI_Barrier: nobody leaves it before everybody has entered it.
Barrier(p) ==
  /\ pc[p] = "barrier"
  /\ \A q \in Procs : pc[q] \in {"barrier", "done"}
  /\ pc' = [pc EXCEPT ![p] = "done"]
  /\ UNCHANGED <<round, leader, winner, net, loopVars, leaderboard, history>>

Finished == \A p \in Procs : pc[p] = "done"

Terminating == Finished /\ UNCHANGED vars

Step(p) ==
  \/ SendNumToLeader(p) \/ Gather(p) \/ ComputeWinner(p) \/ SendWinner(p)
  \/ ReceiveWinner(p) \/ Update(p) \/ Barrier(p)

Next == (\E p \in Procs : Step(p)) \/ Terminating

Spec == Init /\ [][Next]_vars

\* A rank is an operating-system process: while it can take a step it does.
FairSpec == Spec /\ \A p \in Procs : WF_vars(Step(p))

(***************************************************************************)
(* Properties                                                              *)
(***************************************************************************)

TypeOK ==
  /\ pc \in [Procs -> {"select", "gather", "compute", "bcast", "update", "barrier", "done"}]
  /\ round \in [Procs -> 0 .. NumRounds]
  /\ leader \in [Procs -> Procs]
  /\ winner \in [Procs -> Winners]
  /\ net \subseteq Message
  /\ buffer \in [Procs -> [Procs -> Numbers]]
  /\ i \in [Procs -> 0 .. NumProcs]
  /\ min \in [Procs -> Int]
  /\ multiple_guess \in [Procs -> BOOLEAN]
  /\ guess \in [Procs -> Numbers]
  /\ leaderboard \in [Procs -> Nat]
  /\ picks \in [Rounds -> [Procs -> Numbers]]
  /\ target \in [Rounds -> Numbers]
  /\ result \in [Rounds -> Winners \cup {Pending}]

\* Ranks never wait for each other at the end of a round, and each computes the
\* next leader by itself; still, two ranks that are in the same round use the
\* same root for that round's MPI_Gather and MPI_Bcast.
LeaderAgreement ==
  \A p, q \in Procs : round[p] = round[q] => leader[p] = leader[q]

\* p's pick is strictly closer to what had to be guessed than every other pick.
Closest(r, p) ==
  \A q \in Procs \ {p} : Diff(target[r], picks[r][p]) < Diff(target[r], picks[r][q])

\* The winner that is announced in a round is decided from the numbers that all
\* the ranks picked in that same round: it is the only rank closest to the number
\* to guess, and nobody exactly when there is no such rank (compute_winner over
\* the gathered buffer, with ranks up to one round apart).
ResultIsClosest ==
  \A r \in Rounds :
    \/ result[r] = Pending
    \/ result[r] \in Procs /\ Closest(r, result[r])
    \/ result[r] = NoWinner /\ \A p \in Procs : ~ Closest(r, p)

\* Rank 0's leader board, which it updates from the winner it received, counts
\* the rounds each rank has won among those rank 0 has completed.
LeaderboardCountsWins ==
  \A p \in Procs :
    leaderboard[p] = Cardinality({r \in 0 .. round[0] - 1 : result[r] = p})

\* The game ends on every rank: no rank waits for ever in an MPI_Gather, an
\* MPI_Bcast or the MPI_Barrier for a partner that uses another root.
Termination == <>Finished

\* Rank 0's view of the distributed game is a run of the round game: each time
\* rank 0 ends a round, everything that round's ranks did adds up to one round.
Game == INSTANCE GuessRound WITH
  round <- round[0], leader <- leader[0], board <- leaderboard,
  played <- {[round |-> r, picks |-> picks[r], target |-> target[r], winner |-> result[r]] :
               r \in 0 .. round[0] - 1}
ImplementsRounds == Game!Spec
=============================================================================
