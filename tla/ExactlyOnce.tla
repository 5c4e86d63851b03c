----------------------------- MODULE ExactlyOnce -----------------------------
(***************************************************************************)
(* What a forwarder promises: the output holds a prefix of every input     *)
(* partition, each record once and in order; a batch appears as a whole.   *)
(***************************************************************************)
EXTENDS Naturals

CONSTANTS Partitions, MaxRecords

VARIABLES
  end,   \* next offset of each input partition
  out    \* offsets forwarded from each input partition, in the output's order

Prefix(n) == [i \in 1 .. n |-> i - 1]

Init ==
  /\ end = [tp \in Partitions |-> 0]
  /\ out = [tp \in Partitions |-> <<>>]

Write(tp) ==
  /\ end[tp] < MaxRecords
  /\ end' = [end EXCEPT ![tp] = @ + 1]
  /\ UNCHANGED out

\* The forwarded prefixes grow to the lengths in "to".
Forward(to) ==
  /\ \A tp \in Partitions : \E n \in 0 .. to[tp] : out[tp] = Prefix(n)
  /\ \A tp \in Partitions : to[tp] <= end[tp]
  /\ out' = [tp \in Partitions |-> Prefix(to[tp])]
  /\ UNCHANGED end

Next ==
  \/ \E tp \in Partitions : Write(tp)
  \/ \E to \in [Partitions -> 0 .. MaxRecords] : Forward(to)

Spec == Init /\ [][Next]_<<end, out>>
=============================================================================
