-------------------------- MODULE TemperatureNetwork --------------------------
(***************************************************************************)
(* The client of Contiki-NG/NSDS-contiking-eval-23: every minute it reads  *)
(* a temperature and sends it to the server or, while the server cannot be *)
(* reached, keeps it in a ring; back in reach it first sends the average   *)
(* of what it kept, and the new temperature two seconds later.             *)
(*                                                                         *)
(* A temperature is known by the round in which it was read, and an        *)
(* average by the set of temperatures that were added up for it.           *)
(***************************************************************************)
EXTENDS Integers, Sequences, FiniteSets

CONSTANTS
  MAX_READINGS,
  MaxRounds      \* bound on the rounds of the periodic timer

ASSUME ClientAssumption == MAX_READINGS \in Nat \ {0} /\ MaxRounds \in Nat

VARIABLES
  reachable,      \* external: the routing protocol knows a way to the root
  round,          \* the round whose temperature was read last
  sleeping,       \* waiting for sleep_timer, with the temperature yet to send
  disconnected,
  readings,       \* the ring; 0 is an empty slot
  next_reading,
  sum,            \* static: what was added up (no is its size)
  sent,           \* the messages sent, each the set of temperatures it stands for
  offline         \* history: the rounds in which the server was out of reach

clientVars == <<reachable, round, sleeping, disconnected, readings, next_reading, sum, sent, offline>>

Slots  == 0 .. MAX_READINGS - 1
Empty  == [i \in Slots |-> 0]
Stored == {readings[i] : i \in Slots} \ {0}

ClientInit ==
  /\ reachable \in BOOLEAN
  /\ round = 0
  /\ sleeping = FALSE
  /\ disconnected = FALSE
  /\ readings = Empty
  /\ next_reading = 0
  /\ sum = {}
  /\ sent = <<>>
  /\ offline = {}

\* The network changes at any time, between two rounds or while the client sleeps.
ChangeReach ==
  /\ reachable' = ~ reachable
  /\ UNCHANGED <<round, sleeping, disconnected, readings, next_reading, sum, sent, offline>>

\* periodic_timer expires and a temperature is read.
Read == ~ sleeping /\ round < MaxRounds /\ round' = round + 1

SendTemperature ==
  /\ Read
  /\ reachable /\ ~ disconnected
  /\ sent' = Append(sent, {round + 1})
  /\ UNCHANGED <<reachable, sleeping, disconnected, readings, next_reading, sum, offline>>

\* The static sum is not cleared from one average to the next.
SendAverage ==
  /\ Read
  /\ reachable /\ disconnected
  /\ sum' = sum \cup Stored
  /\ sent' = Append(sent, sum')
  /\ disconnected' = FALSE
  /\ readings' = Empty
  /\ sleeping' = TRUE
  /\ UNCHANGED <<reachable, next_reading, offline>>

\* sleep_timer expires; whether the server is still in reach is not asked again.
SendAfterAverage ==
  /\ sleeping
  /\ sent' = Append(sent, {round})
  /\ sleeping' = FALSE
  /\ UNCHANGED <<reachable, round, disconnected, readings, next_reading, sum, offline>>

\* Mutant: the ring wraps one slot early.
WrapEarly == IF next_reading + 1 >= MAX_READINGS - 1 THEN 0 ELSE next_reading + 1

Advance == IF next_reading + 1 = MAX_READINGS THEN 0 ELSE next_reading + 1

SaveTemperature ==
  /\ Read
  /\ ~ reachable
  /\ disconnected' = TRUE
  /\ readings' = [i \in Slots |-> IF i = next_reading THEN round + 1 ELSE readings[i]]
  /\ next_reading' = Advance
  /\ offline' = offline \cup {round + 1}
  /\ UNCHANGED <<reachable, sleeping, sum, sent>>

ClientNext == ChangeReach \/ SendTemperature \/ SendAverage \/ SendAfterAverage \/ SaveTemperature

(***************************************************************************)
(* Properties                                                              *)
(***************************************************************************)

\* An average is never taken of nothing: no message is the empty set.
ClientTypeOK ==
  /\ reachable \in BOOLEAN /\ sleeping \in BOOLEAN /\ disconnected \in BOOLEAN
  /\ round \in 0 .. MaxRounds
  /\ readings \in [Slots -> 0 .. MaxRounds]
  /\ next_reading \in Slots
  /\ sum \in SUBSET (1 .. MaxRounds)
  /\ sent \in Seq((SUBSET (1 .. MaxRounds)) \ {{}})
  /\ offline \in SUBSET (1 .. MaxRounds)

Overwritten(r) == r .. r + MAX_READINGS \subseteq offline

\* A temperature was sent, alone or in an average, or waits in the ring or for the sleep
\* to end, or MAX_READINGS later ones of the same outage took its place: what the ring
\* drops is the oldest, wherever an earlier outage left next_reading.
NothingForgotten ==
  \A r \in 1 .. round :
    \/ \E k \in 1 .. Len(sent) : r \in sent[k]
    \/ r \in Stored
    \/ sleeping /\ r = round
    \/ Overwritten(r)

\* The ring does not keep what MAX_READINGS later readings should have overwritten, and
\* such a temperature is in no average.
OldestOverwritten ==
  \A r \in 1 .. round :
    Overwritten(r) => r \notin Stored /\ \A k \in 1 .. Len(sent) : r \notin sent[k]

\* The average of an outage goes before the temperature that ended it: no message is
\* about earlier readings only than one sent before it.
SentInOrder ==
  \A k, m \in 1 .. Len(sent) : k < m => \A r \in sent[k] : \E s \in sent[m] : r < s

\* README.md:15, "Once the client reconnects to the server, he firstly computes, then
\* sends, the average": that of the readings of this outage, each reported once.
EachReadingSentOnce ==
  \A k, m \in 1 .. Len(sent) : k < m => sent[k] \cap sent[m] = {}

(***************************************************************************)
(* The client and the server of Contiki-NG/NSDS-contiking-eval-23, and the *)
(* UDP messages between them, which may be lost.  Messages are at least    *)
(* the two seconds of sleep_timer apart and do not overtake each other.    *)
(***************************************************************************)

VARIABLES
  air,              \* messages of the client that have neither arrived nor been lost
  serverReadings,   \* the server's ring; {} is its 0
  serverNext,
  serverReceived    \* history: the messages the server received

serverVars == <<serverReadings, serverNext, serverReceived>>
netVars    == <<clientVars, air, serverVars>>

NetInit ==
  /\ ClientInit
  /\ air = <<>>
  /\ serverReadings = [i \in Slots |-> {}]
  /\ serverNext = 0
  /\ serverReceived = <<>>

ClientStep ==
  /\ ClientNext
  /\ air' = air \o SubSeq(sent', Len(sent) + 1, Len(sent'))
  /\ UNCHANGED serverVars

Lose ==
  /\ air # <<>>
  /\ air' = Tail(air)
  /\ UNCHANGED <<clientVars, serverVars>>

ServerAdvance == IF serverNext + 1 = MAX_READINGS THEN 0 ELSE serverNext + 1

\* udp_rx_callback: temperatures and averages are readings alike.
Receive ==
  /\ air # <<>>
  /\ air' = Tail(air)
  /\ serverReadings' = [serverReadings EXCEPT ![serverNext] = Head(air)]
  /\ serverNext' = ServerAdvance
  /\ serverReceived' = Append(serverReceived, Head(air))
  /\ UNCHANGED clientVars

NetNext == ClientStep \/ Lose \/ Receive

NetSpec == NetInit /\ [][NetNext]_netVars

(***************************************************************************)
(* Properties                                                              *)
(***************************************************************************)

\* ... and no message is made up on the way.
NetTypeOK ==
  /\ ClientTypeOK
  /\ serverReadings \in [Slots -> SUBSET (1 .. MaxRounds)]
  /\ serverNext \in Slots
  /\ \A k \in 1 .. Len(air) : \E m \in 1 .. Len(sent) : air[k] = sent[m]

LatestReceived ==
  {serverReceived[k] : k \in {n \in 1 .. Len(serverReceived) : n > Len(serverReceived) - MAX_READINGS}}

\* The server's average is over the last MAX_READINGS messages that arrived, however
\* many were lost in between.
AverageOfLatest == {serverReadings[i] : i \in Slots} \ {{}} = LatestReceived
===============================================================================
