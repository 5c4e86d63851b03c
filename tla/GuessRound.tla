----------------------------- MODULE GuessRound -----------------------------
(***************************************************************************)
(* What the number-guessing game of MPI/NSDS_MPI_lab/guess.c promises, as  *)
(* seen from the leader board: the game is a sequence of rounds.  In each  *)
(* one every process picks a number, the leader picks the number to guess, *)
(* and the one process whose pick is closest wins a point and leads the    *)
(* next round; with a tie nobody wins and the leader stays.                *)
(***************************************************************************)
EXTENDS Integers

CONSTANTS NumProcs, NumRounds, MinNum, MaxNum

Procs   == 0 .. NumProcs - 1
Numbers == MinNum .. MaxNum
NoWinner == -1

VARIABLES
  round,   \* rounds played so far
  leader,  \* who leads the next round
  board,   \* points of every process
  played   \* the rounds played: all picks, the number to guess, the winner

vars == <<round, leader, board, played>>

Diff(a, b) == IF a > b THEN a - b ELSE b - a

\* p's pick is strictly closer to the target than everybody else's.
Closest(picks, target, p) ==
  \A q \in Procs \ {p} : Diff(target, picks[p]) < Diff(target, picks[q])

IsWinner(picks, target, w) ==
  \/ w \in Procs /\ Closest(picks, target, w)
  \/ w = NoWinner /\ \A p \in Procs : ~ Closest(picks, target, p)

Init ==
  /\ round = 0
  /\ leader = 0
  /\ board = [p \in Procs |-> 0]
  /\ played = {}

PlayRound ==
  /\ round < NumRounds
  /\ round' = round + 1
  /\ \E picks \in [Procs -> Numbers], target \in Numbers, w \in Procs \cup {NoWinner} :
       /\ IsWinner(picks, target, w)
       /\ leader' = IF w = NoWinner THEN leader ELSE w
       /\ board' = [p \in Procs |-> board[p] + IF p = w THEN 1 ELSE 0]
       /\ played' = played \cup
            {[round |-> round, picks |-> picks, target |-> target, winner |-> w]}

Spec == Init /\ [][PlayRound]_vars /\ WF_vars(PlayRound)
=============================================================================
