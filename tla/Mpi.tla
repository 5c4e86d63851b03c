---------------------------------- MODULE Mpi ---------------------------------
(***************************************************************************)
(* What the MPI programs that run without the guessing game share: the     *)
(* ranks, and whether the library buffers a small message.  Messages from  *)
(* one rank to another are received in the order they were sent.           *)
(***************************************************************************)
EXTENDS Integers, Sequences

CONSTANT NumProcs

ASSUME ProcsAssumption == NumProcs \in Nat \ {0, 1}

Procs == 0 .. NumProcs - 1

\* MPI_Send returns at once (eager) or when its message is received, as the library likes.
VARIABLE eager

\* Nothing under way between any two ranks.
NoMessages == [s \in Procs |-> [r \in Procs |-> <<>>]]
=============================================================================
