----------------------------- MODULE Dispatcher ------------------------------
(***************************************************************************)
(* The sensor system of Akka/NSDS_akka_eval_group25: main                  *)
(* (SensorDataProcessor) tells the sensors to sense, the sensors send      *)
(* their temperatures to the dispatcher, and the dispatcher forwards each  *)
(* to one of the processors it supervises, by load balancing or by round   *)
(* robin.  An actor handles the messages of its mailbox one by one, in the *)
(* order in which they were put there.                                     *)
(*                                                                         *)
(* Between the phases of its script main sleeps for a second, "until the   *)
(* system is ready".  The sleeps in ShortSleeps are not long enough: main  *)
(* goes on while messages are still in the mailboxes.                      *)
(***************************************************************************)
EXTENDS Integers, Sequences, FiniteSets, Functions

CONSTANTS
  Sensors,        \* main's list of sensors, NO_SENSORS of them
  Faulty,         \* the faulty sensor, which joins later
  NoProcessors,   \* NO_PROCESSORS
  Rounds,         \* rounds of GenerateMsg in each of main's four phases
  Temps,          \* temperatures of a working sensor
  FaultTemp,      \* FAULT_TEMP
  ShortSleeps

ASSUME SensorsAssumption ==
  Sensors # <<>> /\ Sensors \in Seq(Range(Sensors)) /\ Faulty \notin Range(Sensors)
ASSUME ProcessorsAssumption == NoProcessors \in Nat \ {0}
ASSUME RoundsAssumption == Rounds \in [1 .. 4 -> Nat]
ASSUME TempsAssumption == Temps # {} /\ Temps \subseteq Nat /\ FaultTemp \in Int /\ FaultTemp < 0
ASSUME SleepAssumption == ShortSleeps \subseteq 1 .. 6

AllSensors == Range(Sensors) \cup {Faulty}
Processors == 0 .. NoProcessors - 1

VARIABLES
  line,           \* the line of its script that main is at
  sensorBox,      \* mailboxes of the sensors
  dispatcherRef,  \* sensors whose "dispatcher" field is set
  box,            \* mailbox of the dispatcher
  logic,          \* the dispatcher's behaviour
  index,          \* next processor of the round robin
  loadBalanceMap, \* sensors to processors
  processorBox,   \* mailboxes of the processors
  readings,       \* readings of each processor
  total,          \* currentAverage * readings of each processor
  generated,      \* history: GenerateMsgs main has told
  faults,         \* history: exceptions each processor has thrown
  turns           \* history: messages each processor got by round robin

sensorVars    == <<sensorBox, dispatcherRef>>
dispVars      == <<logic, index, loadBalanceMap, turns>>
processorVars == <<readings, total, faults>>
vars == <<line, generated, sensorVars, box, dispVars, processorBox, processorVars>>

Ref      == "DispatcherReferenceMsg"
Generate == "GenerateMsg"
Logic(l) == [type |-> "DispatchLogicMsg", logic |-> l]
Temperature(s, t) == [type |-> "TemperatureMsg", sender |-> s, temp |-> t]

Init ==
  /\ line = 1
  /\ sensorBox = [s \in AllSensors |-> <<>>]
  /\ dispatcherRef = {}
  /\ box = <<>>
  /\ logic = "LOAD_BALANCER"
  /\ index = 0
  /\ loadBalanceMap = <<>>
  /\ processorBox = [p \in Processors |-> <<>>]
  /\ readings = [p \in Processors |-> 0]
  /\ total = [p \in Processors |-> 0]
  /\ generated = 0
  /\ faults = [p \in Processors |-> 0]
  /\ turns = [p \in Processors |-> 0]

(***************************************************************************)
(* main                                                                    *)
(***************************************************************************)

Tell(s, m) == [do |-> "tell", sensor |-> s, msg |-> m]
Dispatch(l) == [do |-> "dispatch", logic |-> l]
Sleep(n) == <<[do |-> "sleep", number |-> n]>>

\* Rounds[n] rounds over the list of sensors.
SensingRounds(n, list) ==
  [k \in 1 .. Rounds[n] * Len(list) |-> Tell(list[((k - 1) % Len(list)) + 1], Generate)]

References == [k \in DOMAIN Sensors |-> Tell(Sensors[k], Ref)]

BeforeSwitch == References \o Sleep(1) \o SensingRounds(1, Sensors) \o Sleep(2)
WithFaulty ==
  Sleep(3) \o SensingRounds(2, Sensors) \o <<Tell(Faulty, Ref)>>
  \o (Sleep(4) \o SensingRounds(3, <<Faulty>> \o Sensors))
AfterRemoval == <<Dispatch("LOAD_BALANCER")>> \o Sleep(6) \o SensingRounds(4, Sensors)

Script == BeforeSwitch \o <<Dispatch("ROUND_ROBIN")>> \o WithFaulty \o Sleep(5) \o AfterRemoval

Quiet ==
  /\ box = <<>>
  /\ \A s \in AllSensors : sensorBox[s] = <<>>
  /\ \A p \in Processors : processorBox[p] = <<>>

Main ==
  /\ line <= Len(Script)
  /\ line' = line + 1
  /\ LET step == Script[line] IN
       \/ /\ step.do = "sleep"
          /\ step.number \notin ShortSleeps => Quiet
          /\ UNCHANGED <<sensorBox, box, generated>>
       \/ /\ step.do = "tell"
          /\ sensorBox' = [sensorBox EXCEPT ![step.sensor] = Append(@, step.msg)]
          /\ generated' = generated + (IF step.msg = Generate THEN 1 ELSE 0)
          /\ UNCHANGED box
       \/ /\ step.do = "dispatch"
          /\ box' = Append(box, Logic(step.logic))
          /\ UNCHANGED <<sensorBox, generated>>
  /\ UNCHANGED <<dispatcherRef, dispVars, processorBox, processorVars>>

(***************************************************************************)
(* The sensors                                                             *)
(***************************************************************************)

OnDispatcherRefMsg(s) ==
  /\ sensorBox[s] # <<>> /\ Head(sensorBox[s]) = Ref
  /\ sensorBox' = [sensorBox EXCEPT ![s] = Tail(@)]
  /\ dispatcherRef' = dispatcherRef \cup {s}
  /\ UNCHANGED <<line, generated, box, dispVars, processorBox, processorVars>>

\* A sensor without the reference would throw, be restarted and lose the message.
OnGenerate(s) ==
  /\ sensorBox[s] # <<>> /\ Head(sensorBox[s]) = Generate
  /\ sensorBox' = [sensorBox EXCEPT ![s] = Tail(@)]
  /\ \E t \in IF s = Faulty THEN {FaultTemp} ELSE Temps :
       box' = IF s \in dispatcherRef THEN Append(box, Temperature(s, t)) ELSE box
  /\ UNCHANGED <<line, generated, dispatcherRef, dispVars, processorBox, processorVars>>

(***************************************************************************)
(* The dispatcher                                                          *)
(***************************************************************************)

OnDispatchLogicMsg ==
  /\ box # <<>> /\ Head(box).type = "DispatchLogicMsg"
  /\ box' = Tail(box)
  /\ logic' = Head(box).logic
  /\ UNCHANGED <<line, generated, sensorVars, index, loadBalanceMap, turns, processorBox, processorVars>>

\* Sensors that are assigned to processor p.
Load(p) == Cardinality({s \in DOMAIN loadBalanceMap : loadBalanceMap[s] = p})

\* Mutant: processors that have no sensor yet are not candidates.
UsedLeastLoaded ==
  LET used == {p \in Processors : Load(p) > 0} IN
  IF used = {} THEN {0} ELSE {p \in used : \A q \in used : Load(p) <= Load(q)}

\* The processors with the smallest number of sensors; which one a HashMap's
\* stream meets first is not defined.
LeastLoaded == {p \in Processors : \A q \in Processors : Load(p) <= Load(q)}

\* Mutant: every message is balanced anew.
Rebalanced(s) == LeastLoaded

\* The processors a message of sensor s may go to: its own, once it has one.
Candidates(s) == IF s \in DOMAIN loadBalanceMap THEN {loadBalanceMap[s]} ELSE LeastLoaded

DispatchDataLoadBalancer ==
  /\ logic = "LOAD_BALANCER"
  /\ box # <<>> /\ Head(box).type = "TemperatureMsg"
  /\ box' = Tail(box)
  /\ LET s == Head(box).sender IN
     \E p \in Candidates(s) :
       /\ loadBalanceMap' = [r \in DOMAIN loadBalanceMap \cup {s} |->
                               IF r = s THEN p ELSE loadBalanceMap[r]]
       /\ processorBox' = [processorBox EXCEPT ![p] = Append(@, Head(box))]
  /\ UNCHANGED <<line, generated, sensorVars, logic, index, turns, processorVars>>

NextIndex == (index + 1) % NoProcessors

DispatchDataRoundRobin ==
  /\ logic = "ROUND_ROBIN"
  /\ box # <<>> /\ Head(box).type = "TemperatureMsg"
  /\ box' = Tail(box)
  /\ processorBox' = [processorBox EXCEPT ![index] = Append(@, Head(box))]
  /\ turns' = [turns EXCEPT ![index] = @ + 1]
  /\ index' = NextIndex
  /\ UNCHANGED <<line, generated, sensorVars, logic, loadBalanceMap, processorVars>>

(***************************************************************************)
(* The processors                                                          *)
(***************************************************************************)

\* Mutant: gotData does not test the temperature.
AnyTemperature(t) == TRUE

Accepted(t) == t >= 0

\* Mutant: a message whose handling throws stays in the mailbox.
GotDataRetry(p) ==
  /\ processorBox[p] # <<>> /\ Accepted(Head(processorBox[p]).temp)
  /\ processorBox' = [processorBox EXCEPT ![p] = Tail(@)]
  /\ total' = [total EXCEPT ![p] = @ + Head(processorBox[p]).temp]
  /\ readings' = [readings EXCEPT ![p] = @ + 1]
  /\ UNCHANGED <<line, generated, sensorVars, box, dispVars, faults>>

\* gotData: a negative temperature throws; the dispatcher's strategy resumes the
\* processor, which keeps its state and has consumed the message.
GotData(p) ==
  /\ processorBox[p] # <<>>
  /\ processorBox' = [processorBox EXCEPT ![p] = Tail(@)]
  /\ LET t == Head(processorBox[p]).temp IN
       \/ /\ Accepted(t)
          /\ total' = [total EXCEPT ![p] = @ + t]
          /\ readings' = [readings EXCEPT ![p] = @ + 1]
          /\ UNCHANGED faults
       \/ /\ ~ Accepted(t)
          /\ faults' = [faults EXCEPT ![p] = @ + 1]
          /\ UNCHANGED <<total, readings>>
  /\ UNCHANGED <<line, generated, sensorVars, box, dispVars>>

SensorStep(s) == OnDispatcherRefMsg(s) \/ OnGenerate(s)
DispatcherStep == OnDispatchLogicMsg \/ DispatchDataLoadBalancer \/ DispatchDataRoundRobin

Finished == line > Len(Script) /\ Quiet

Next ==
  \/ Main
  \/ \E s \in AllSensors : SensorStep(s)
  \/ DispatcherStep
  \/ \E p \in Processors : GotData(p)
  \/ Finished /\ UNCHANGED vars

Spec == Init /\ [][Next]_vars

\* The actor system runs every actor that has a message, and main's thread.
FairSpec ==
  /\ Spec
  /\ WF_vars(Main) /\ WF_vars(DispatcherStep)
  /\ \A s \in AllSensors : WF_vars(SensorStep(s))
  /\ \A p \in Processors : WF_vars(GotData(p))

(***************************************************************************)
(* Properties                                                              *)
(***************************************************************************)

AllTemps == Temps \cup {FaultTemp}
TemperatureMsg == [type : {"TemperatureMsg"}, sender : AllSensors, temp : AllTemps]
Logics == {"LOAD_BALANCER", "ROUND_ROBIN"}

TypeOK ==
  /\ line \in 1 .. Len(Script) + 1
  /\ sensorBox \in [AllSensors -> Seq({Ref, Generate})]
  /\ dispatcherRef \subseteq AllSensors
  /\ box \in Seq(TemperatureMsg \cup [type : {"DispatchLogicMsg"}, logic : Logics])
  /\ logic \in Logics
  /\ index \in Processors
  /\ DOMAIN loadBalanceMap \subseteq AllSensors
  /\ Range(loadBalanceMap) \subseteq Processors
  /\ processorBox \in [Processors -> Seq(TemperatureMsg)]
  /\ readings \in [Processors -> Nat] /\ total \in [Processors -> Int]
  /\ faults \in [Processors -> Nat] /\ turns \in [Processors -> Nat]
  /\ generated \in Nat

\* README: a sensor without a processor "is assigned one of the processors with
\* the fewest sensors"; so the loads never differ by more than one, however the
\* dispatcher's behaviour was switched before.
Balanced == \A p, q \in Processors : Load(p) <= Load(q) + 1

\* A sensor keeps the processor it was assigned, through round-robin phases too.
Sticky ==
  [][\A s \in DOMAIN loadBalanceMap :
       s \in DOMAIN loadBalanceMap' /\ loadBalanceMap'[s] = loadBalanceMap[s]]_vars

\* The round robin goes on where it stopped when load balancing interrupts it, so
\* over all its phases no processor gets two turns more than another.
RoundRobinFair == \A p, q \in Processors : turns[p] <= turns[q] + 1

Count(seq, Test(_)) == Cardinality({k \in DOMAIN seq : Test(seq[k])})
IsGenerate(m) == m = Generate
IsTemperature(m) == m.type = "TemperatureMsg"

\* Every GenerateMsg becomes exactly one reading or one rejected reading: none is
\* lost at a sensor without a dispatcher, at a switch of behaviour, or when a
\* processor throws.
ReadingsConserved ==
  generated =
    SumFunction([s \in AllSensors |-> Count(sensorBox[s], IsGenerate)])
    + Count(box, IsTemperature)
    + SumFunction([p \in Processors |-> Len(processorBox[p]) + readings[p] + faults[p]])

\* A rejected temperature leaves no trace in a processor's average: the average
\* of working sensors stays between their extreme temperatures.
AverageInRange ==
  \A p \in Processors :
    /\ \E t \in Temps : readings[p] * t <= total[p]
    /\ \E t \in Temps : readings[p] * t >= total[p]

\* When main's last sleep is long enough the faulty sensor, which main removes before
\* it goes back to load balancing, never takes a place in the balance.
FaultyNotAssigned == 5 \notin ShortSleeps => Faulty \notin DOMAIN loadBalanceMap

\* The three together: who may be assigned, and how evenly sensors and turns are spread.
FairlyAssigned == Balanced /\ RoundRobinFair /\ FaultyNotAssigned

\* The two together: every reading is counted once, and in the average or not at all.
ReadingsAccounted == ReadingsConserved /\ AverageInRange

\* Every message of the script is handled in the end.
AllHandled == <>Finished
=============================================================================
