------------------------------- MODULE MCAkka ---------------------------------
(***************************************************************************)
(* The Akka programs: one of them runs, `running` says which, and the      *)
(* others stand still.                                                     *)
(***************************************************************************)
EXTENDS Dispatcher, PubSub, AkkaLabs, TLC

CONSTANTS t0, t1, t2

VARIABLE running

ThreeSensors == <<t0, t1, t2>>
FullRounds == <<1, 1, 1, 1>>
Frost == -1

allVars == <<running, vars, actorVars, pubSubVars, counterVars, serverVars, contactVars>>

ScriptsOf(program) ==
  CASE program = "pub_sub"  -> PubSubScripts
    [] program = "server"   -> ServerScripts
    [] program = "contacts" -> ContactScripts
    [] OTHER                -> {<<>>}

McInit ==
  /\ running \in {"dispatcher", "pub_sub", "counter", "server", "contacts"}
  /\ Init /\ PubSubInit /\ CounterInit /\ ServerInit /\ ContactInit
  /\ ActorsInit(PubSubActors \cup ServerActors \cup ContactActors, ScriptsOf(running))
  /\ running = "contacts" \/ lab = "lab5"
  /\ running \in {"pub_sub", "server", "contacts"} \/ patient

Dispatching ==
  /\ running = "dispatcher" /\ Next
  /\ UNCHANGED <<running, actorVars, pubSubVars, counterVars, serverVars, contactVars>>
Counting ==
  /\ running = "counter" /\ CounterNext
  /\ UNCHANGED <<running, vars, actorVars, pubSubVars, serverVars, contactVars>>
MainGoesOn ==
  /\ MainSleeps \/ MainTells
  /\ UNCHANGED <<running, vars, pubSubVars, counterVars, serverVars, contactVars>>
PubSubGoesOn ==
  /\ running = "pub_sub" /\ PubSubActorStep
  /\ UNCHANGED <<running, vars, counterVars, serverVars, contactVars>>
ServerGoesOn ==
  /\ running = "server" /\ ServerActorStep
  /\ UNCHANGED <<running, vars, pubSubVars, counterVars, contactVars>>
ContactsGoOn ==
  /\ running = "contacts" /\ ContactActorStep
  /\ UNCHANGED <<running, vars, pubSubVars, counterVars, serverVars>>

McNext == Dispatching \/ Counting \/ MainGoesOn \/ PubSubGoesOn \/ ServerGoesOn \/ ContactsGoOn

\* See Dispatcher: the actor system runs every actor that has a message, and main's thread.
McSpec ==
  /\ McInit /\ [][McNext]_allVars
  /\ WF_vars(running = "dispatcher" /\ Main) /\ WF_vars(running = "dispatcher" /\ DispatcherStep)
  /\ \A s \in AllSensors : WF_vars(running = "dispatcher" /\ SensorStep(s))
  /\ \A p \in Processors : WF_vars(running = "dispatcher" /\ GotData(p))

\* See Dispatcher: every message of its script is handled in the end.
AllHandledThere == running = "dispatcher" => AllHandled

\* See PubSub and AkkaLabs: what is stashed is neither
\* lost nor taken out of order, and what throws leaves the rest as it was.
StashesKept ==
  /\ running = "pub_sub" => PublishedOrder /\ BatchIsKept /\ NotifiedOnce
  /\ running = "counter" => StashedOnlyAtZero /\ BackToZero
  /\ running = "server" => AnsweredInOrder
  /\ running = "contacts" => ContactsFound
===============================================================================
