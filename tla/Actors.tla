-------------------------------- MODULE Actors --------------------------------
(***************************************************************************)
(* What the Akka labs of NSDS_akka_tutorial_and_lab have in common: main's *)
(* thread goes through a script of messages to tell and of sleeps, and an  *)
(* actor handles the messages of its mailbox one by one, in the order in   *)
(* which they were put there.                                              *)
(***************************************************************************)
EXTENDS Integers, Sequences, SequencesExt

VARIABLES
  script,    \* what main has still to do
  began,     \* history: the script as it was when main began
  patient,   \* whether main's sleeps are long enough for all actors to come to rest
  mailbox    \* of each actor

actorVars == <<script, began, patient, mailbox>>

ToTell(a, m) == [to |-> a, msg |-> m]
Pause      == [to |-> "nobody", msg |-> [type |-> "pause"]]

ActorsInit(actors, scripts) ==
  /\ script \in scripts /\ began = script
  /\ patient \in BOOLEAN
  /\ mailbox = [a \in actors |-> <<>>]

AtRest == \A a \in DOMAIN mailbox : mailbox[a] = <<>>
AllTold == script = <<>>

MainSleeps ==
  /\ ~ AllTold /\ Head(script).to = "nobody"
  /\ patient => AtRest
  /\ script' = Tail(script)
  /\ UNCHANGED <<began, patient, mailbox>>

MainTells ==
  /\ ~ AllTold /\ Head(script).to # "nobody"
  /\ mailbox' = [mailbox EXCEPT ![Head(script).to] = Append(@, Head(script).msg)]
  /\ script' = Tail(script)
  /\ UNCHANGED <<began, patient>>

\* Actor a takes a message of this type out of its mailbox ...
Handles(a, type) == mailbox[a] # <<>> /\ Head(mailbox[a]).type = type

Received(a) == Head(mailbox[a])

\* ... and tells each of the actors in `others` a message, or nobody.
TellsAll(a, others, m) ==
  /\ mailbox' = [b \in DOMAIN mailbox |->
                   LET rest == IF b = a THEN Tail(mailbox[b]) ELSE mailbox[b]
                   IN IF b \in others THEN Append(rest, m) ELSE rest]
  /\ UNCHANGED <<script, began, patient>>

Tells(a, b, m)  == TellsAll(a, {b}, m)
TellsNobody(a)  == TellsAll(a, {}, Received(a))

\* unstash and unstashAll put what was stashed in front of what waits.
Unstashes(a, messages) ==
  /\ mailbox' = [mailbox EXCEPT ![a] = messages \o Tail(@)]
  /\ UNCHANGED <<script, began, patient>>
===============================================================================
