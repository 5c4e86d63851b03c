------------------------------ MODULE MCKafkaLabs -----------------------------
(***************************************************************************)
(* The consumers of one group that run alone: an execution is of one of    *)
(* the programs, `running` says which, and the processes of the others do  *)
(* not start.                                                              *)
(***************************************************************************)
EXTENDS PopularTopic, PerRecordForwarder, PlainConsumers, TLC

CONSTANTS c1, c2, tp1, tp2

VARIABLE running

allVars == <<running, vars, counterProcVars, plainProcVars>>

Symmetry == Permutations({c1, c2}) \cup Permutations({tp1, tp2})

McInit ==
  /\ running \in {"popular_topic", "per_record", "plain"}
  /\ GroupInit(IF running = "popular_topic" THEN None ELSE 0)
  /\ CounterProcsInit /\ ForwarderProcsInit /\ PlainProcsInit
  /\ running = "plain" \/ program = "manual"

\* The forwarder's and the plain consumers' rebalances are bounded more tightly.
FewRebalances == generation' < MaxGenerations

Counters == running = "popular_topic" /\ CounterNext /\ UNCHANGED <<running, txnVars, procVars, plainProcVars>>
Forwarders ==
  running = "per_record" /\ Next /\ FewRebalances /\ UNCHANGED <<running, counterProcVars, plainProcVars>>
Plain ==
  running = "plain" /\ PlainNext /\ FewRebalances /\ UNCHANGED <<running, txnVars, procVars, counterProcVars>>

McNext == Counters \/ Forwarders \/ Plain

McSpec == McInit /\ [][McNext]_allVars

\* The executions of the per-record forwarder alone.
ForwarderSpec == McInit /\ running = "per_record" /\ [][Forwarders]_allVars

\* See PopularTopic: nothing behind the committed offset is left out, and nothing counted twice.
CountsExact == running = "popular_topic" => NothingSkipped /\ CountedOnce

\* See PlainConsumers.
LossesExplained == running = "plain" => LostOnlyWithProcess
=============================================================================
