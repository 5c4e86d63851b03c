------------------------------- MODULE AkkaProof ------------------------------
(***************************************************************************)
(* The dispatcher spreads sensors and turns evenly, and a sensor keeps its *)
(* processor, for every number of sensors, processors and rounds, and      *)
(* whichever sleeps of main are too short; the faulty sensor is never      *)
(* assigned when the sleep before the last switch is long enough.  Every   *)
(* reading is accounted for.  And what the stashing counter, the sleeping  *)
(* server, the contact list and the publish/subscribe broker put aside is  *)
(* neither lost nor taken out of order.                                    *)
(***************************************************************************)
EXTENDS MCAkka, SumTheorems, SequenceTheorems

(***************************************************************************)
(* main's script.                                                          *)
(***************************************************************************)

Sleeps == [do : {"sleep"}, number : 1 .. 6]
TellsOf(sensors) == [do : {"tell"}, sensor : sensors, msg : {Ref, Generate}]
Dispatches == [do : {"dispatch"}, logic : Logics]

\* Steps without the faulty sensor, and with it.
Working == Sleeps \cup TellsOf(Range(Sensors))
Joining == Sleeps \cup TellsOf(AllSensors)
Balancing == Working \cup {Dispatch("LOAD_BALANCER")}
Steps == Joining \cup Dispatches

\* The lines of the switch to round robin, and of the sleep after the faulty sensor's phase.
Switch == Len(BeforeSwitch) + 1
Removal == Switch + Len(WithFaulty) + 1

LEMMA RoundsOf ==
  ASSUME NEW n \in 1 .. 4, NEW S, NEW list \in Seq(S), list # <<>>
  PROVE  SensingRounds(n, list) \in Seq(TellsOf(S))
<1> DEFINE size == Len(list)
           number == Rounds[n] * size
<1>1. size \in Nat /\ size > 0
  OBVIOUS
<1>2. Rounds[n] \in Nat
  BY RoundsAssumption
<1>3. number \in Nat
  BY <1>1, <1>2
<1>4. ASSUME NEW k \in 1 .. number PROVE Tell(list[((k - 1) % size) + 1], Generate) \in TellsOf(S)
  <2>1. k - 1 \in Nat
    BY <1>3
  <2>2. (k - 1) % size \in 0 .. size - 1
    BY <1>1, <2>1
  <2>3. list[((k - 1) % size) + 1] \in S
    BY <1>1, <2>2
  <2>. QED
    BY <2>3 DEF Tell, TellsOf
<1>5. SensingRounds(n, list) \in [1 .. number -> TellsOf(S)]
  BY <1>4 DEF SensingRounds
<1> HIDE DEF number
<1>. QED
  BY <1>3, <1>5, SeqDef

LEMMA Concatenated ==
  ASSUME NEW S, NEW s \in Seq(S), NEW t \in Seq(S)
  PROVE  /\ s \o t \in Seq(S)
         /\ Len(s) \in Nat /\ Len(t) \in Nat /\ Len(s \o t) = Len(s) + Len(t)
         /\ \A l \in 1 .. Len(s) : (s \o t)[l] = s[l]
         /\ \A l \in 1 .. Len(t) : (s \o t)[Len(s) + l] = t[l]
<1>1. Len(s) \in Nat /\ Len(t) \in Nat
  OBVIOUS
<1>2. /\ s \o t \in Seq(S)
      /\ Len(s \o t) = Len(s) + Len(t)
      /\ \A l \in 1 .. Len(s) + Len(t) : (s \o t)[l] = IF l <= Len(s) THEN s[l] ELSE t[l - Len(s)]
  BY ConcatProperties
<1>3. \A l \in 1 .. Len(t) : Len(s) + l \in 1 .. Len(s) + Len(t) /\ ~ (Len(s) + l <= Len(s)) /\ Len(s) + l - Len(s) = l
  BY <1>1
<1>4. \A l \in 1 .. Len(s) : l \in 1 .. Len(s) + Len(t) /\ l <= Len(s)
  BY <1>1
<1>. QED
  BY <1>1, <1>2, <1>3, <1>4

\* A sequence of two parts and one element between them.
LEMMA ThreeParts ==
  ASSUME NEW S, NEW a \in Seq(S), NEW x \in S, NEW c \in Seq(S)
  PROVE  LET all == (a \o <<x>>) \o c IN
         /\ all \in Seq(S)
         /\ Len(a) \in Nat /\ Len(c) \in Nat
         /\ Len(all) = Len(a) + 1 + Len(c)
         /\ \A l \in 1 .. Len(a) : all[l] = a[l]
         /\ all[Len(a) + 1] = x
         /\ \A l \in 1 .. Len(c) : all[Len(a) + 1 + l] = c[l]
<1>0. PICK all : all = (a \o <<x>>) \o c
  OBVIOUS
<1>1. PICK b : b = <<x>>
  OBVIOUS
<1>2. b \in Seq(S) /\ Len(b) = 1 /\ b[1] = x
  BY <1>1
<1>3. PICK ab : ab = a \o b
  OBVIOUS
<1>4. all = ab \o c
  BY <1>0, <1>1, <1>3
<1>5. /\ ab \in Seq(S)
      /\ Len(a) \in Nat /\ Len(b) \in Nat /\ Len(ab) = Len(a) + Len(b)
      /\ \A l \in 1 .. Len(a) : ab[l] = a[l]
      /\ \A l \in 1 .. Len(b) : ab[Len(a) + l] = b[l]
  <2>0. b \in Seq(S)
    BY <1>2
  <2>1. /\ a \o b \in Seq(S)
        /\ Len(a) \in Nat /\ Len(b) \in Nat /\ Len(a \o b) = Len(a) + Len(b)
        /\ \A l \in 1 .. Len(a) : (a \o b)[l] = a[l]
        /\ \A l \in 1 .. Len(b) : (a \o b)[Len(a) + l] = b[l]
    BY <2>0, Concatenated
  <2>. QED
    BY <1>3, <2>1
<1>6. /\ all \in Seq(S)
      /\ Len(c) \in Nat /\ Len(all) = Len(ab) + Len(c)
      /\ \A l \in 1 .. Len(ab) : all[l] = ab[l]
      /\ \A l \in 1 .. Len(c) : all[Len(ab) + l] = c[l]
  <2>0. ab \in Seq(S)
    BY <1>5
  <2>1. /\ ab \o c \in Seq(S)
        /\ Len(c) \in Nat /\ Len(ab \o c) = Len(ab) + Len(c)
        /\ \A l \in 1 .. Len(ab) : (ab \o c)[l] = ab[l]
        /\ \A l \in 1 .. Len(c) : (ab \o c)[Len(ab) + l] = c[l]
    BY <2>0, Concatenated
  <2>. QED
    BY <1>4, <2>1
<1>7. Len(ab) = Len(a) + 1 /\ ab[Len(a) + 1] = x
  BY <1>2, <1>5
<1>8. ASSUME NEW l \in 1 .. Len(a) PROVE all[l] = a[l]
  <2>1. l \in 1 .. Len(ab)
    BY <1>5, <1>7
  <2>. QED
    BY <1>5, <1>6, <2>1
<1>9. all[Len(a) + 1] = x
  <2>1. Len(a) + 1 \in 1 .. Len(ab)
    BY <1>5, <1>7
  <2>. QED
    BY <1>6, <1>7, <2>1
<1>10. /\ all \in Seq(S)
       /\ Len(a) \in Nat /\ Len(c) \in Nat
       /\ Len(all) = Len(a) + 1 + Len(c)
       /\ \A l \in 1 .. Len(a) : all[l] = a[l]
       /\ all[Len(a) + 1] = x
       /\ \A l \in 1 .. Len(c) : all[Len(a) + 1 + l] = c[l]
  BY <1>5, <1>6, <1>7, <1>8, <1>9
<1>. QED
  BY <1>0, <1>10

\* Before the switch only the working sensors are told anything; before the removal nothing
\* is dispatched but the switch; and after it the faulty sensor is told nothing.
LEMMA ScriptFacts ==
  /\ Switch \in Nat /\ Removal \in Nat /\ Switch < Removal /\ Removal <= Len(Script)
  /\ Script \in Seq(Steps)
  /\ \A l \in 1 .. Switch - 1 : Script[l] \in Working
  /\ Script[Switch] = Dispatch("ROUND_ROBIN")
  /\ \A l \in Switch + 1 .. Removal - 1 : Script[l] \in Joining
  /\ Script[Removal] = [do |-> "sleep", number |-> 5]
  /\ \A l \in Removal + 1 .. Len(Script) : Script[l] \in Balancing
  /\ \A l \in 1 .. Len(BeforeSwitch) : Script[l] = BeforeSwitch[l]
  /\ \A l \in 1 .. Len(WithFaulty) : Script[Switch + l] = WithFaulty[l]
<1>1. BeforeSwitch \in Seq(Working)
  <2>1. References \in Seq(Working)
    <3>1. \A k \in DOMAIN Sensors : Tell(Sensors[k], Ref) \in Working
      BY DEF Tell, Working, TellsOf, Range
    <3>2. References \in [1 .. Len(Sensors) -> Working] /\ Len(Sensors) \in Nat
      BY <3>1, SensorsAssumption DEF References
    <3>. QED
      BY <3>2, SeqDef
  <2>2. Sleep(1) \in Seq(Working) /\ Sleep(2) \in Seq(Working)
    BY DEF Sleep, Working, Sleeps
  <2>3. SensingRounds(1, Sensors) \in Seq(Working)
    <3>1. SensingRounds(1, Sensors) \in Seq(TellsOf(Range(Sensors)))
      BY RoundsOf, SensorsAssumption
    <3>. QED
      BY <3>1, SeqMonotonic DEF Working
  <2>. QED
    BY <2>1, <2>2, <2>3, ConcatProperties DEF BeforeSwitch
<1>2. WithFaulty \in Seq(Joining)
  <2>1. <<Faulty>> \o Sensors \in Seq(AllSensors) /\ <<Faulty>> \o Sensors # <<>>
    <3>1. <<Faulty>> \in Seq(AllSensors) /\ Sensors \in Seq(AllSensors) /\ Len(<<Faulty>>) = 1
      BY SeqMonotonic, SensorsAssumption DEF AllSensors
    <3>2. <<Faulty>> \o Sensors \in Seq(AllSensors) /\ Len(<<Faulty>> \o Sensors) = 1 + Len(Sensors)
      BY <3>1, ConcatProperties
    <3>. QED
      BY <3>2
  <2>2. Sensors \in Seq(AllSensors)
    BY SeqMonotonic, SensorsAssumption DEF AllSensors
  <2>3. SensingRounds(2, Sensors) \in Seq(Joining)
    <3>1. SensingRounds(2, Sensors) \in Seq(TellsOf(AllSensors))
      BY <2>2, RoundsOf, SensorsAssumption
    <3>. QED
      BY <3>1, SeqMonotonic DEF Joining
  <2>4. SensingRounds(3, <<Faulty>> \o Sensors) \in Seq(Joining)
    <3> DEFINE list == <<Faulty>> \o Sensors
    <3> HIDE DEF list
    <3>0. list \in Seq(AllSensors) /\ list # <<>>
      BY <2>1 DEF list
    <3>1. SensingRounds(3, list) \in Seq(TellsOf(AllSensors))
      BY <3>0, RoundsOf
    <3>. QED
      BY <3>1, SeqMonotonic DEF Joining, list
  <2>5. Sleep(3) \in Seq(Joining) /\ Sleep(4) \in Seq(Joining)
    BY DEF Sleep, Joining, Sleeps
  <2>6. <<Tell(Faulty, Ref)>> \in Seq(Joining)
    BY DEF Tell, Joining, TellsOf, AllSensors
  <2>. QED
    BY <2>3, <2>4, <2>5, <2>6, ConcatProperties DEF WithFaulty
<1>3. AfterRemoval \in Seq(Balancing)
  <2>1. SensingRounds(4, Sensors) \in Seq(Balancing)
    <3>1. SensingRounds(4, Sensors) \in Seq(TellsOf(Range(Sensors)))
      BY RoundsOf, SensorsAssumption
    <3>. QED
      BY <3>1, SeqMonotonic DEF Balancing, Working
  <2>2. Sleep(6) \in Seq(Balancing)
    BY DEF Sleep, Balancing, Working, Sleeps
  <2>3. <<Dispatch("LOAD_BALANCER")>> \in Seq(Balancing)
    BY DEF Balancing
  <2>. QED
    BY <2>1, <2>2, <2>3, ConcatProperties DEF AfterRemoval
<1>4. Working \subseteq Steps /\ Joining \subseteq Steps /\ Balancing \subseteq Steps
  BY DEF Working, Joining, Steps, Balancing, TellsOf, AllSensors, Dispatches, Dispatch, Logics
<1>5. Dispatch("ROUND_ROBIN") \in Steps /\ [do |-> "sleep", number |-> 5] \in Steps
  BY DEF Dispatch, Steps, Dispatches, Logics, Joining, Sleeps
<1>6. BeforeSwitch \in Seq(Steps) /\ WithFaulty \in Seq(Steps) /\ AfterRemoval \in Seq(Steps)
  BY <1>1, <1>2, <1>3, <1>4, SeqMonotonic
<1>7. /\ Script \in Seq(Steps)
      /\ Len(BeforeSwitch) \in Nat /\ Len(WithFaulty) \in Nat /\ Len(AfterRemoval) \in Nat
      /\ Len(Script) = Removal + Len(AfterRemoval)
      /\ \A l \in 1 .. Len(BeforeSwitch) : Script[l] = BeforeSwitch[l]
      /\ Script[Switch] = Dispatch("ROUND_ROBIN")
      /\ \A l \in 1 .. Len(WithFaulty) : Script[Switch + l] = WithFaulty[l]
      /\ Script[Removal] = [do |-> "sleep", number |-> 5]
      /\ \A l \in 1 .. Len(AfterRemoval) : Script[Removal + l] = AfterRemoval[l]
  <2>1. PICK x, y : x = Dispatch("ROUND_ROBIN") /\ y = [do |-> "sleep", number |-> 5]
    OBVIOUS
  <2>2. Script = BeforeSwitch \o <<x>> \o WithFaulty \o <<y>> \o AfterRemoval
    BY <2>1 DEF Script, Sleep
  <2>3. x \in Steps /\ y \in Steps
    BY <1>5, <2>1
  <2>4. PICK a, c, e : a = BeforeSwitch /\ c = WithFaulty /\ e = AfterRemoval
    OBVIOUS
  <2>5. a \in Seq(Steps) /\ c \in Seq(Steps) /\ e \in Seq(Steps)
    BY <1>6, <2>4
  <2>6. LET all == a \o <<x>> \o c \o <<y>> \o e IN
         /\ all \in Seq(Steps)
         /\ Len(a) \in Nat /\ Len(c) \in Nat /\ Len(e) \in Nat
         /\ Len(all) = Len(a) + 1 + Len(c) + 1 + Len(e)
         /\ \A l \in 1 .. Len(a) : all[l] = a[l]
         /\ all[Len(a) + 1] = x
         /\ \A l \in 1 .. Len(c) : all[Len(a) + 1 + l] = c[l]
         /\ all[Len(a) + 1 + Len(c) + 1] = y
         /\ \A l \in 1 .. Len(e) : all[Len(a) + 1 + Len(c) + 1 + l] = e[l]
    <3>0. PICK all : all = a \o <<x>> \o c \o <<y>> \o e
      OBVIOUS
    <3>1. PICK abc : abc = (a \o <<x>>) \o c
      OBVIOUS
    <3>2. all = (abc \o <<y>>) \o e
      BY <3>0, <3>1
    <3>3. /\ abc \in Seq(Steps)
          /\ Len(a) \in Nat /\ Len(c) \in Nat
          /\ Len(abc) = Len(a) + 1 + Len(c)
          /\ \A l \in 1 .. Len(a) : abc[l] = a[l]
          /\ abc[Len(a) + 1] = x
          /\ \A l \in 1 .. Len(c) : abc[Len(a) + 1 + l] = c[l]
      <4>1. LET u == (a \o <<x>>) \o c IN
              /\ u \in Seq(Steps)
              /\ Len(a) \in Nat /\ Len(c) \in Nat
              /\ Len(u) = Len(a) + 1 + Len(c)
              /\ \A l \in 1 .. Len(a) : u[l] = a[l]
              /\ u[Len(a) + 1] = x
              /\ \A l \in 1 .. Len(c) : u[Len(a) + 1 + l] = c[l]
        BY <2>3, <2>5, ThreeParts
      <4>. QED
        BY <3>1, <4>1
    <3>4. /\ all \in Seq(Steps)
          /\ Len(e) \in Nat
          /\ Len(all) = Len(abc) + 1 + Len(e)
          /\ \A l \in 1 .. Len(abc) : all[l] = abc[l]
          /\ all[Len(abc) + 1] = y
          /\ \A l \in 1 .. Len(e) : all[Len(abc) + 1 + l] = e[l]
      <4>1. abc \in Seq(Steps) /\ e \in Seq(Steps)
        BY <2>5, <3>3
      <4>2. LET u == (abc \o <<y>>) \o e IN
              /\ u \in Seq(Steps)
              /\ Len(abc) \in Nat /\ Len(e) \in Nat
              /\ Len(u) = Len(abc) + 1 + Len(e)
              /\ \A l \in 1 .. Len(abc) : u[l] = abc[l]
              /\ u[Len(abc) + 1] = y
              /\ \A l \in 1 .. Len(e) : u[Len(abc) + 1 + l] = e[l]
        BY <2>3, <4>1, ThreeParts
      <4>. QED
        BY <3>2, <4>2
    <3>5. ASSUME NEW l \in 1 .. Len(a) PROVE all[l] = a[l]
      <4>1. l \in 1 .. Len(abc)
        BY <3>3
      <4>. QED
        BY <3>3, <3>4, <4>1
    <3>6. all[Len(a) + 1] = x
      <4>1. Len(a) + 1 \in 1 .. Len(abc)
        BY <3>3
      <4>. QED
        BY <3>3, <3>4, <4>1
    <3>7. ASSUME NEW l \in 1 .. Len(c) PROVE all[Len(a) + 1 + l] = c[l]
      <4>1. Len(a) + 1 + l \in 1 .. Len(abc)
        BY <3>3
      <4>. QED
        BY <3>3, <3>4, <4>1
    <3>8. /\ all \in Seq(Steps)
          /\ Len(a) \in Nat /\ Len(c) \in Nat /\ Len(e) \in Nat
          /\ Len(all) = Len(a) + 1 + Len(c) + 1 + Len(e)
          /\ \A l \in 1 .. Len(a) : all[l] = a[l]
          /\ all[Len(a) + 1] = x
          /\ \A l \in 1 .. Len(c) : all[Len(a) + 1 + l] = c[l]
          /\ all[Len(a) + 1 + Len(c) + 1] = y
          /\ \A l \in 1 .. Len(e) : all[Len(a) + 1 + Len(c) + 1 + l] = e[l]
      BY <3>3, <3>4, <3>5, <3>6, <3>7
    <3>. QED
      BY <3>0, <3>8
  <2>7. Script = a \o <<x>> \o c \o <<y>> \o e
    BY <2>2, <2>4
  <2>8. Switch = Len(a) + 1 /\ Removal = Len(a) + 1 + Len(c) + 1
    BY <2>4 DEF Switch, Removal
  <2>. QED
    BY <2>1, <2>4, <2>6, <2>7, <2>8, ZenonT(100)
<1>8. /\ \A l \in 1 .. Len(BeforeSwitch) : BeforeSwitch[l] \in Working
      /\ \A l \in 1 .. Len(WithFaulty) : WithFaulty[l] \in Joining
      /\ \A l \in 1 .. Len(AfterRemoval) : AfterRemoval[l] \in Balancing
  BY <1>1, <1>2, <1>3, ElementOfSeq
<1>9. Switch = Len(BeforeSwitch) + 1 /\ Removal = Switch + Len(WithFaulty) + 1
  BY DEF Switch, Removal
<1>10. Switch \in Nat /\ Removal \in Nat /\ Switch < Removal /\ Removal <= Len(Script)
  BY <1>7, <1>9
<1>11. \A l \in 1 .. Switch - 1 : Script[l] \in Working
  BY <1>7, <1>8, <1>9, SMTT(60)
<1>12. ASSUME NEW l \in Switch + 1 .. Removal - 1 PROVE Script[l] \in Joining
  <2>1. l - Switch \in 1 .. Len(WithFaulty) /\ l = Switch + (l - Switch)
    BY <1>7, <1>9, <1>10
  <2>. QED
    BY <1>7, <1>8, <2>1, SMTT(60)
<1>13. ASSUME NEW l \in Removal + 1 .. Len(Script) PROVE Script[l] \in Balancing
  <2>1. l - Removal \in 1 .. Len(AfterRemoval) /\ l = Removal + (l - Removal)
    BY <1>7, <1>10, SMTT(60)
  <2>. QED
    BY <1>7, <1>8, <2>1
<1>. QED
  BY <1>7, <1>10, <1>11, <1>12, <1>13

(***************************************************************************)
(* The types that the other invariants need.                               *)
(***************************************************************************)

LogicMsg == [type : {"DispatchLogicMsg"}, logic : Logics]

Types ==
  /\ line \in 1 .. Len(Script) + 1
  /\ sensorBox \in [AllSensors -> Seq({Ref, Generate})]
  /\ box \in Seq(TemperatureMsg \cup LogicMsg)
  /\ logic \in Logics
  /\ index \in Processors
  /\ loadBalanceMap \in [DOMAIN loadBalanceMap -> Processors]
  /\ IsFiniteSet(DOMAIN loadBalanceMap)
  /\ turns \in [Processors -> Nat]

\* While another program runs the dispatcher's variables stand still.
LEMMA Projection == [McNext]_allVars => [Next]_vars
  BY DEF McNext, allVars, Dispatching, Counting, MainGoesOn, PubSubGoesOn, ServerGoesOn, ContactsGoOn

LEMMA InitTypes == Init => Types
<1>. SUFFICES ASSUME Init PROVE Types
  OBVIOUS
<1>1. Len(Script) \in Nat /\ line \in 1 .. Len(Script) + 1
  BY ScriptFacts DEF Init
<1>2. 0 \in Processors
  BY ProcessorsAssumption DEF Processors
<1>3. loadBalanceMap \in [DOMAIN loadBalanceMap -> Processors] /\ DOMAIN loadBalanceMap = {}
  BY DEF Init
<1>4. IsFiniteSet(DOMAIN loadBalanceMap)
  BY <1>3, FS_EmptySet
<1>. QED
  BY <1>1, <1>2, <1>3, <1>4 DEF Init, Types, Logics

LEMMA MainSteps ==
  ASSUME Types, Main
  PROVE  /\ line \in 1 .. Len(Script) /\ line' = line + 1 /\ Script[line] \in Steps
         /\ UNCHANGED dispVars
<1>1. line \in 1 .. Len(Script) /\ line' = line + 1 /\ Script[line] \in Steps
  BY ScriptFacts DEF Types, Main
<1>. QED
  BY <1>1 DEF Main

LEMMA TypesStep ==
  ASSUME Types, [Next]_vars
  PROVE  Types'
<1> USE DEF Types
<1>1. CASE Main
  <2>1. line' \in 1 .. Len(Script) + 1 /\ Script[line] \in Steps /\ UNCHANGED dispVars
    BY <1>1, MainSteps, ScriptFacts, SMTT(60)
  <2>2. CASE Script[line].do = "sleep" /\ UNCHANGED <<sensorBox, box>>
    BY <2>1, <2>2 DEF dispVars
  <2>3. CASE /\ Script[line].do = "tell" /\ UNCHANGED box
             /\ sensorBox' = [sensorBox EXCEPT ![Script[line].sensor] = Append(@, Script[line].msg)]
    <3>1. Script[line].sensor \in AllSensors /\ Script[line].msg \in {Ref, Generate}
      BY <2>1, <2>3 DEF Steps, Joining, Sleeps, TellsOf, Dispatches
    <3>2. sensorBox' \in [AllSensors -> Seq({Ref, Generate})]
      BY <2>3, <3>1
    <3>. QED
      BY <2>1, <2>3, <3>2 DEF dispVars
  <2>4. CASE /\ Script[line].do = "dispatch" /\ UNCHANGED sensorBox
             /\ box' = Append(box, Logic(Script[line].logic))
    <3>1. Script[line].logic \in Logics
      BY <2>1, <2>4 DEF Steps, Joining, Sleeps, TellsOf, Dispatches
    <3>2. box' \in Seq(TemperatureMsg \cup LogicMsg)
      BY <2>4, <3>1 DEF Logic, LogicMsg
    <3>. QED
      BY <2>1, <2>4, <3>2 DEF dispVars
  <2>. QED
    BY <1>1, <2>2, <2>3, <2>4 DEF Main
<1>2. ASSUME NEW s \in AllSensors, OnDispatcherRefMsg(s) PROVE Types'
  <2>1. sensorBox' \in [AllSensors -> Seq({Ref, Generate})]
    BY <1>2 DEF OnDispatcherRefMsg
  <2>. QED
    BY <1>2, <2>1 DEF OnDispatcherRefMsg, dispVars
<1>3. ASSUME NEW s \in AllSensors, OnGenerate(s) PROVE Types'
  <2>1. sensorBox' \in [AllSensors -> Seq({Ref, Generate})]
    BY <1>3 DEF OnGenerate
  <2>2. PICK t \in IF s = Faulty THEN {FaultTemp} ELSE Temps :
          box' = IF s \in dispatcherRef THEN Append(box, Temperature(s, t)) ELSE box
    BY <1>3 DEF OnGenerate
  <2>3. Temperature(s, t) \in TemperatureMsg
    BY <2>2 DEF Temperature, TemperatureMsg, AllTemps
  <2>4. box' \in Seq(TemperatureMsg \cup LogicMsg)
    BY <2>2, <2>3
  <2>. QED
    BY <1>3, <2>1, <2>4 DEF OnGenerate, dispVars
<1>4. CASE OnDispatchLogicMsg
  <2>1. box' \in Seq(TemperatureMsg \cup LogicMsg)
    BY <1>4 DEF OnDispatchLogicMsg
  <2>2. Head(box) \in TemperatureMsg \cup LogicMsg /\ Head(box).type = "DispatchLogicMsg"
    BY <1>4 DEF OnDispatchLogicMsg
  <2>3. logic' \in Logics
    BY <1>4, <2>2 DEF OnDispatchLogicMsg, TemperatureMsg, LogicMsg
  <2>. QED
    BY <1>4, <2>1, <2>3 DEF OnDispatchLogicMsg, sensorVars
<1>5. CASE DispatchDataLoadBalancer
  <2>1. box' \in Seq(TemperatureMsg \cup LogicMsg)
    BY <1>5 DEF DispatchDataLoadBalancer
  <2>2. PICK p \in Candidates(Head(box).sender) :
          loadBalanceMap' = [r \in DOMAIN loadBalanceMap \cup {Head(box).sender} |->
                               IF r = Head(box).sender THEN p ELSE loadBalanceMap[r]]
    BY <1>5 DEF DispatchDataLoadBalancer
  <2>3. p \in Processors
    BY <2>2 DEF Candidates, LeastLoaded
  <2>4. loadBalanceMap' \in [DOMAIN loadBalanceMap' -> Processors]
    BY <2>2, <2>3
  <2>5. DOMAIN loadBalanceMap' = DOMAIN loadBalanceMap \cup {Head(box).sender}
    BY <2>2
  <2>6. IsFiniteSet(DOMAIN loadBalanceMap')
    <3>1. IsFiniteSet(DOMAIN loadBalanceMap)
      OBVIOUS
    <3>2. IsFiniteSet(DOMAIN loadBalanceMap \cup {Head(box).sender})
      BY <3>1, FS_AddElement
    <3>. QED
      BY <2>5, <3>2
  <2>. QED
    BY <1>5, <2>1, <2>4, <2>6 DEF DispatchDataLoadBalancer, sensorVars
<1>6. CASE DispatchDataRoundRobin
  <2>1. box' \in Seq(TemperatureMsg \cup LogicMsg)
    BY <1>6 DEF DispatchDataRoundRobin
  <2>2. turns' \in [Processors -> Nat]
    BY <1>6 DEF DispatchDataRoundRobin
  <2>3. index' \in Processors
    BY <1>6, ProcessorsAssumption, SMTT(60) DEF DispatchDataRoundRobin, NextIndex, Processors
  <2>. QED
    BY <1>6, <2>1, <2>2, <2>3 DEF DispatchDataRoundRobin, sensorVars
<1>7. ASSUME NEW p \in Processors, GotData(p) PROVE Types'
  BY <1>7 DEF GotData, sensorVars, dispVars
<1>8. CASE UNCHANGED vars
  BY <1>8 DEF vars, sensorVars, dispVars
<1>. QED
  BY <1>1, <1>2, <1>3, <1>4, <1>5, <1>6, <1>7, <1>8 DEF Next, SensorStep, DispatcherStep

\* The steps that do not touch the dispatcher's own fields.
LEMMA OtherSteps ==
  ASSUME [Next]_vars, ~ DispatcherStep
  PROVE  UNCHANGED dispVars
  BY DEF Next, SensorStep, Main, OnDispatcherRefMsg, OnGenerate, GotData, vars

(***************************************************************************)
(* The loads of the processors: a new sensor goes to one of the least      *)
(* loaded, and no sensor ever moves.                                       *)
(***************************************************************************)

LEMMA LoadFacts ==
  ASSUME Types, NEW p \in Processors
  PROVE  Load(p) \in Nat
<1>1. {s \in DOMAIN loadBalanceMap : loadBalanceMap[s] = p} \subseteq DOMAIN loadBalanceMap
  OBVIOUS
<1>. QED
  BY <1>1, FS_Subset, FS_CardinalityType DEF Load, Types

\* The mapping after a message of a sensor that has a processor, and of one that has none.
LEMMA Assignment ==
  ASSUME Types, DispatchDataLoadBalancer, NEW s, s = Head(box).sender
  PROVE  \/ /\ s \in DOMAIN loadBalanceMap /\ loadBalanceMap' = loadBalanceMap
         \/ /\ s \notin DOMAIN loadBalanceMap
            /\ DOMAIN loadBalanceMap' = DOMAIN loadBalanceMap \cup {s}
            /\ loadBalanceMap'[s] \in LeastLoaded
            /\ \A r \in DOMAIN loadBalanceMap : loadBalanceMap'[r] = loadBalanceMap[r]
<1>1. PICK p \in Candidates(s) :
        loadBalanceMap' = [r \in DOMAIN loadBalanceMap \cup {s} |-> IF r = s THEN p ELSE loadBalanceMap[r]]
  BY DEF DispatchDataLoadBalancer
<1>2. CASE s \in DOMAIN loadBalanceMap
  <2>1. p = loadBalanceMap[s] /\ DOMAIN loadBalanceMap \cup {s} = DOMAIN loadBalanceMap
    BY <1>2 DEF Candidates
  <2>2. loadBalanceMap' = [r \in DOMAIN loadBalanceMap |-> loadBalanceMap[r]]
    BY <1>1, <2>1
  <2>. QED
    BY <1>2, <2>2 DEF Types
<1>3. CASE s \notin DOMAIN loadBalanceMap
  BY <1>1, <1>3 DEF Candidates
<1>. QED
  BY <1>2, <1>3

LEMMA BalancedStep ==
  ASSUME Types, Balanced, [Next]_vars
  PROVE  Balanced'
<1>1. CASE UNCHANGED loadBalanceMap
  BY <1>1 DEF Balanced, Load
<1>2. CASE DispatchDataLoadBalancer /\ loadBalanceMap' # loadBalanceMap
  <2>0. PICK s, p : s = Head(box).sender /\ p = loadBalanceMap'[s]
    OBVIOUS
  <2> DEFINE of(q) == {r \in DOMAIN loadBalanceMap : loadBalanceMap[r] = q}
  <2>1. /\ s \notin DOMAIN loadBalanceMap
        /\ DOMAIN loadBalanceMap' = DOMAIN loadBalanceMap \cup {s}
        /\ p \in LeastLoaded
        /\ \A r \in DOMAIN loadBalanceMap : loadBalanceMap'[r] = loadBalanceMap[r]
    BY <1>2, <2>0, Assignment
  <2>2. Load(p)' = Load(p) + 1
    <3>1. {r \in DOMAIN loadBalanceMap' : loadBalanceMap'[r] = p} = of(p) \cup {s}
      <4>1. \A r : r \in DOMAIN loadBalanceMap' /\ loadBalanceMap'[r] = p
                   <=> (r \in DOMAIN loadBalanceMap /\ loadBalanceMap[r] = p) \/ r = s
        BY <2>0, <2>1
      <4>. QED
        BY <4>1
    <3>2. IsFiniteSet(of(p)) /\ s \notin of(p)
      <4>1. of(p) \subseteq DOMAIN loadBalanceMap
        OBVIOUS
      <4>. QED
        BY <2>1, <4>1, FS_Subset DEF Types
    <3>3. Cardinality(of(p) \cup {s}) = Cardinality(of(p)) + 1
      <4> HIDE DEF of
      <4>. QED
        BY <3>2, FS_AddElement
    <3>. QED
      BY <3>1, <3>3 DEF Load
  <2>3. ASSUME NEW q \in Processors, q # p PROVE Load(q)' = Load(q)
    <3>1. {r \in DOMAIN loadBalanceMap' : loadBalanceMap'[r] = q} = of(q)
      <4>1. \A r : r \in DOMAIN loadBalanceMap' /\ loadBalanceMap'[r] = q
                   <=> r \in DOMAIN loadBalanceMap /\ loadBalanceMap[r] = q
        BY <2>0, <2>1, <2>3
      <4>. QED
        BY <4>1
    <3>. QED
      BY <3>1 DEF Load
  <2>4. p \in Processors /\ \A q \in Processors : Load(p) <= Load(q)
    BY <2>1 DEF LeastLoaded
  <2>5. \A q \in Processors : Load(q) \in Nat
    BY LoadFacts
  <2>6. ASSUME NEW a \in Processors, NEW b \in Processors PROVE Load(a)' <= Load(b)' + 1
    <3>1. Load(a) \in Nat /\ Load(b) \in Nat /\ Load(a) <= Load(b) + 1 /\ Load(p) <= Load(b)
      BY <2>4, <2>5 DEF Balanced
    <3>2. CASE a = p
      BY <2>2, <2>3, <3>1, <3>2
    <3>3. CASE a # p
      BY <2>2, <2>3, <3>1, <3>3
    <3>. QED
      BY <3>2, <3>3
  <2>. QED
    BY <2>6 DEF Balanced
<1>3. ASSUME loadBalanceMap' # loadBalanceMap PROVE DispatchDataLoadBalancer
  BY <1>3, OtherSteps DEF DispatcherStep, OnDispatchLogicMsg, DispatchDataRoundRobin, dispVars
<1>. QED
  BY <1>1, <1>2, <1>3

(***************************************************************************)
(* The turns of the round robin.                                           *)
(***************************************************************************)

TurnsTaken ==
  \E n \in Nat : \A p \in Processors : turns[p] = IF p < index THEN n + 1 ELSE n

LEMMA TurnsStep ==
  ASSUME Types, TurnsTaken, [Next]_vars
  PROVE  TurnsTaken'
<1>1. CASE UNCHANGED <<index, turns>>
  BY <1>1 DEF TurnsTaken
<1>2. CASE DispatchDataRoundRobin
  <2>1. PICK n \in Nat : \A p \in Processors : turns[p] = IF p < index THEN n + 1 ELSE n
    BY DEF TurnsTaken
  <2>2. /\ index \in 0 .. NoProcessors - 1 /\ NoProcessors \in Nat \ {0}
        /\ index' = (index + 1) % NoProcessors
        /\ turns \in [Processors -> Nat]
        /\ turns' = [turns EXCEPT ![index] = @ + 1]
    BY <1>2, ProcessorsAssumption DEF DispatchDataRoundRobin, NextIndex, Types, Processors
  <2>3. \A p \in Processors : p \in 0 .. NoProcessors - 1
    BY DEF Processors
  <2>4. \A p \in Processors : turns'[p] = IF p < index + 1 THEN n + 1 ELSE n
    BY <2>1, <2>2, <2>3
  <2>5. CASE index + 1 < NoProcessors
    <3>1. index' = index + 1
      BY <2>2, <2>5
    <3>. QED
      BY <2>4, <3>1 DEF TurnsTaken
  <2>6. CASE index + 1 = NoProcessors
    <3>1. index' = 0
      BY <2>2, <2>6
    <3>2. \A p \in Processors : p < index + 1 /\ ~ (p < 0)
      BY <2>2, <2>3, <2>6
    <3>3. \A p \in Processors : turns'[p] = IF p < index' THEN (n + 1) + 1 ELSE n + 1
      BY <2>4, <3>1, <3>2
    <3>. QED
      BY <3>3 DEF TurnsTaken
  <2>. QED
    BY <2>2, <2>5, <2>6
<1>. QED
  BY <1>1, <1>2, OtherSteps
     DEF DispatcherStep, OnDispatchLogicMsg, DispatchDataLoadBalancer, dispVars

LEMMA TurnsAreFair ==
  ASSUME Types, TurnsTaken
  PROVE  RoundRobinFair
  BY DEF TurnsTaken, RoundRobinFair, Processors, Types

(***************************************************************************)
(* The faulty sensor.  Its temperatures are in the dispatcher's mailbox    *)
(* only between the switch to round robin and the sleep after which it is  *)
(* removed, and behind the message that switches.                          *)
(***************************************************************************)

IsFaulty(m) == m.type = "TemperatureMsg" /\ m.sender = Faulty

Apart ==
  /\ \A k \in DOMAIN sensorBox[Faulty] : sensorBox[Faulty][k] # Generate
  /\ \A k \in DOMAIN box : ~ IsFaulty(box[k])

OnlySwitches ==
  \A k \in DOMAIN box : box[k].type = "DispatchLogicMsg" => box[k] = Logic("ROUND_ROBIN")

BehindSwitch ==
  \/ logic = "ROUND_ROBIN"
  \/ \E j \in DOMAIN box : box[j] = Logic("ROUND_ROBIN") /\ \A k \in 1 .. j : ~ IsFaulty(box[k])

FaultyApart ==
  /\ line <= Switch \/ line > Removal => Apart
  /\ line <= Removal => OnlySwitches
  /\ Switch < line /\ line <= Removal => BehindSwitch
  /\ Faulty \notin DOMAIN loadBalanceMap

LEMMA MainKeepsApart ==
  ASSUME Types, FaultyApart, Main, 5 \notin ShortSleeps
  PROVE  FaultyApart'
<1>1. line \in 1 .. Len(Script) /\ line' = line + 1 /\ Script[line] \in Steps /\ UNCHANGED dispVars
  BY MainSteps
<1>2. Switch \in Nat /\ Removal \in Nat /\ Switch < Removal /\ line \in Nat
  BY <1>1, ScriptFacts
<1>3. Faulty \notin DOMAIN loadBalanceMap'
  BY <1>1 DEF FaultyApart, dispVars
<1>4. box \in Seq(TemperatureMsg \cup LogicMsg) /\ sensorBox \in [AllSensors -> Seq({Ref, Generate})]
  BY DEF Types
<1>5. CASE line < Switch
  <2>1. Script[line] \in Working
    BY <1>1, <1>2, <1>5, ScriptFacts
  <2>2. UNCHANGED box /\ sensorBox'[Faulty] = sensorBox[Faulty]
    <3>1. Script[line].do # "dispatch"
      BY <2>1 DEF Working, Sleeps, TellsOf
    <3>2. CASE Script[line].do = "sleep"
      BY <1>4, <3>2 DEF Main
    <3>3. CASE Script[line].do = "tell"
      <4>1. Script[line].sensor # Faulty
        BY <2>1, <3>3, SensorsAssumption DEF Working, Sleeps, TellsOf
      <4>. QED
        BY <1>4, <3>3, <4>1 DEF Main, AllSensors
    <3>. QED
      BY <2>1, <3>1, <3>2, <3>3 DEF Working, Sleeps, TellsOf
  <2>3. Apart' /\ OnlySwitches'
    BY <1>2, <1>5, <2>2 DEF FaultyApart, Apart, OnlySwitches
  <2>. QED
    BY <1>1, <1>2, <1>3, <1>5, <2>3 DEF FaultyApart
<1>6. CASE line = Switch
  <2>1. Script[line] = Dispatch("ROUND_ROBIN")
    BY <1>6, ScriptFacts
  <2>2. box' = Append(box, Logic("ROUND_ROBIN"))
    BY <2>1 DEF Main, Dispatch
  <2>3. Apart /\ OnlySwitches
    BY <1>2, <1>6 DEF FaultyApart
  <2>4. /\ DOMAIN box' = 1 .. Len(box) + 1 /\ Len(box) \in Nat
        /\ box'[Len(box) + 1] = Logic("ROUND_ROBIN")
        /\ \A k \in 1 .. Len(box) : box'[k] = box[k] /\ k \in DOMAIN box
    BY <1>4, <2>2
  <2>5. ~ IsFaulty(Logic("ROUND_ROBIN"))
    BY DEF IsFaulty, Logic
  <2>6. OnlySwitches'
    BY <2>3, <2>4 DEF OnlySwitches
  <2>7. BehindSwitch'
    <3>1. \A k \in 1 .. Len(box) + 1 : ~ IsFaulty(box'[k])
      BY <2>3, <2>4, <2>5 DEF Apart
    <3>. QED
      BY <2>4, <3>1 DEF BehindSwitch, IsFaulty
  <2>. QED
    BY <1>1, <1>2, <1>3, <1>6, <2>6, <2>7 DEF FaultyApart
<1>7. CASE Switch < line /\ line < Removal
  <2>1. Script[line] \in Joining
    BY <1>1, <1>2, <1>7, ScriptFacts
  <2>2. UNCHANGED box
    BY <2>1 DEF Main, Joining, Sleeps, TellsOf
  <2>3. OnlySwitches' /\ BehindSwitch'
    BY <1>1, <1>2, <1>7, <2>2 DEF FaultyApart, OnlySwitches, BehindSwitch, dispVars, IsFaulty
  <2>. QED
    BY <1>1, <1>2, <1>3, <1>7, <2>3 DEF FaultyApart
<1>8. CASE line = Removal
  <2>1. Script[line] = [do |-> "sleep", number |-> 5]
    BY <1>8, ScriptFacts
  <2>2. Quiet /\ UNCHANGED <<sensorBox, box>>
    BY <2>1 DEF Main
  <2>3. Apart'
    BY <2>2 DEF Quiet, Apart, AllSensors
  <2>. QED
    BY <1>1, <1>2, <1>3, <1>8, <2>3 DEF FaultyApart
<1>9. CASE line > Removal
  <2>1. Script[line] \in Balancing
    BY <1>1, <1>2, <1>9, ScriptFacts
  <2>2. Apart
    BY <1>9 DEF FaultyApart
  <2>3. ASSUME Script[line].do = "sleep" PROVE Apart'
    <3>1. UNCHANGED <<sensorBox, box>>
      BY <2>3 DEF Main
    <3>. QED
      BY <2>2, <3>1 DEF Apart, IsFaulty
  <2>4. ASSUME Script[line].do = "tell" PROVE Apart'
    <3>1. Script[line].sensor # Faulty
      BY <2>1, <2>4, SensorsAssumption DEF Balancing, Working, Sleeps, TellsOf, Dispatch
    <3>2. UNCHANGED box /\ sensorBox'[Faulty] = sensorBox[Faulty]
      BY <1>4, <2>4, <3>1 DEF Main, AllSensors
    <3>. QED
      BY <2>2, <3>2 DEF Apart, IsFaulty
  <2>5. ASSUME Script[line].do = "dispatch" PROVE Apart'
    <3>1. PICK m : m = Logic(Script[line].logic)
      OBVIOUS
    <3>2. box' = Append(box, m) /\ UNCHANGED sensorBox /\ ~ IsFaulty(m)
      BY <2>5, <3>1 DEF Main, IsFaulty, Logic
    <3>3. \A k \in DOMAIN box' : box'[k] = m \/ (k \in DOMAIN box /\ box'[k] = box[k])
      BY <1>4, <3>2
    <3>. QED
      BY <2>2, <3>2, <3>3 DEF Apart, IsFaulty
  <2>6. Apart'
    <3>1. Script[line].do \in {"sleep", "tell", "dispatch"}
      BY <2>1 DEF Balancing, Working, Sleeps, TellsOf, Dispatch
    <3>. QED
      BY <2>3, <2>4, <2>5, <3>1
  <2>. QED
    BY <1>1, <1>2, <1>3, <1>9, <2>6 DEF FaultyApart
<1>. QED
  BY <1>2, <1>5, <1>6, <1>7, <1>8, <1>9

LEMMA SensorsKeepApart ==
  ASSUME Types, FaultyApart, NEW s \in AllSensors, SensorStep(s)
  PROVE  FaultyApart'
<1>1. box \in Seq(TemperatureMsg \cup LogicMsg) /\ sensorBox \in [AllSensors -> Seq({Ref, Generate})] /\ line \in Nat
  BY ScriptFacts DEF Types
<1>2. UNCHANGED <<line, dispVars>>
  BY DEF SensorStep, OnDispatcherRefMsg, OnGenerate
<1>3. /\ sensorBox[s] # <<>>
      /\ sensorBox' = [sensorBox EXCEPT ![s] = Tail(@)]
  BY DEF SensorStep, OnDispatcherRefMsg, OnGenerate
<1>4. ASSUME \A k \in DOMAIN sensorBox[Faulty] : sensorBox[Faulty][k] # Generate
      PROVE  \A k \in DOMAIN sensorBox'[Faulty] : sensorBox'[Faulty][k] # Generate
  <2>1. Faulty \in AllSensors /\ sensorBox[Faulty] \in Seq({Ref, Generate})
    BY <1>1 DEF AllSensors
  <2>2. CASE s = Faulty
    <3>1. sensorBox'[Faulty] = Tail(sensorBox[Faulty]) /\ sensorBox[Faulty] # <<>>
      BY <1>1, <1>3, <2>1, <2>2
    <3>2. \A k \in DOMAIN Tail(sensorBox[Faulty]) :
            k + 1 \in DOMAIN sensorBox[Faulty] /\ Tail(sensorBox[Faulty])[k] = sensorBox[Faulty][k + 1]
      BY <2>1, <3>1
    <3>. QED
      BY <1>4, <3>1, <3>2
  <2>3. CASE s # Faulty
    BY <1>1, <1>3, <1>4, <2>3
  <2>. QED
    BY <2>2, <2>3
<1>5. \/ UNCHANGED box
      \/ \E t : /\ box' = Append(box, Temperature(s, t))
                /\ Head(sensorBox[s]) = Generate
  BY DEF SensorStep, OnDispatcherRefMsg, OnGenerate
<1>6. CASE UNCHANGED box
  BY <1>1, <1>2, <1>4, <1>6 DEF FaultyApart, Apart, OnlySwitches, BehindSwitch, IsFaulty, dispVars
<1>7. ASSUME NEW t, box' = Append(box, Temperature(s, t)), Head(sensorBox[s]) = Generate
      PROVE  FaultyApart'
  <2>1. PICK m : m = Temperature(s, t)
    OBVIOUS
  <2>2. m.type = "TemperatureMsg" /\ m.sender = s
    BY <2>1 DEF Temperature
  <2>3. /\ DOMAIN box = 1 .. Len(box) /\ DOMAIN box' = 1 .. Len(box) + 1 /\ Len(box) \in Nat
        /\ box'[Len(box) + 1] = m
        /\ \A k \in 1 .. Len(box) : box'[k] = box[k]
    BY <1>1, <1>7, <2>1
  <2>4. line <= Switch \/ line > Removal => Apart'
    <3>1. SUFFICES ASSUME line <= Switch \/ line > Removal PROVE Apart'
      OBVIOUS
    <3>2. Apart
      BY <3>1 DEF FaultyApart
    <3>3. s # Faulty
      <4>1. ASSUME s = Faulty PROVE FALSE
        <5>1. sensorBox[s] \in Seq({Ref, Generate}) /\ sensorBox[s] # <<>>
          BY <1>1, <1>3
        <5>2. 1 \in DOMAIN sensorBox[s] /\ sensorBox[s][1] = Generate
          BY <1>7, <5>1
        <5>. QED
          BY <3>2, <4>1, <5>2 DEF Apart
      <4>. QED
        BY <4>1
    <3>4. ~ IsFaulty(m)
      BY <2>2, <3>3 DEF IsFaulty
    <3>. QED
      BY <1>4, <2>3, <3>2, <3>4 DEF Apart, IsFaulty
  <2>5. line <= Removal => OnlySwitches'
    BY <2>2, <2>3 DEF FaultyApart, OnlySwitches
  <2>6. Switch < line /\ line <= Removal => BehindSwitch'
    <3>1. SUFFICES ASSUME Switch < line, line <= Removal, logic # "ROUND_ROBIN" PROVE BehindSwitch'
      BY <1>2 DEF BehindSwitch, dispVars
    <3>2. PICK j \in DOMAIN box : box[j] = Logic("ROUND_ROBIN") /\ \A k \in 1 .. j : ~ IsFaulty(box[k])
      BY <3>1 DEF FaultyApart, BehindSwitch
    <3>3. j \in DOMAIN box' /\ box'[j] = Logic("ROUND_ROBIN") /\ \A k \in 1 .. j : box'[k] = box[k]
      BY <2>3, <3>2
    <3>. QED
      BY <3>2, <3>3 DEF BehindSwitch, IsFaulty
  <2>. QED
    BY <1>2, <2>4, <2>5, <2>6 DEF FaultyApart, dispVars
<1>. QED
  BY <1>5, <1>6, <1>7

LEMMA DispatcherKeepsApart ==
  ASSUME Types, FaultyApart, DispatcherStep
  PROVE  FaultyApart'
<1>1. box \in Seq(TemperatureMsg \cup LogicMsg) /\ line \in Nat
  BY ScriptFacts DEF Types
<1>2. box # <<>> /\ box' = Tail(box) /\ UNCHANGED <<line, sensorVars>>
  BY DEF DispatcherStep, OnDispatchLogicMsg, DispatchDataLoadBalancer, DispatchDataRoundRobin
<1>3. /\ DOMAIN box = 1 .. Len(box) /\ Len(box) \in Nat \ {0} /\ DOMAIN box' = 1 .. Len(box) - 1
      /\ \A k \in DOMAIN box' : box'[k] = box[k + 1] /\ k + 1 \in DOMAIN box
      /\ Head(box) = box[1] /\ 1 \in DOMAIN box
  BY <1>1, <1>2
<1>4. Apart => Apart'
  BY <1>2, <1>3 DEF Apart, IsFaulty, sensorVars
<1>5. OnlySwitches => OnlySwitches'
  BY <1>3 DEF OnlySwitches
\* The message that switches is still to come, or it is the one that is handled.
<1>6. ASSUME BehindSwitch, OnlySwitches PROVE BehindSwitch'
  <2>1. CASE logic = "ROUND_ROBIN"
    <3>1. logic' = "ROUND_ROBIN"
      <4>1. CASE OnDispatchLogicMsg
        BY <1>3, <1>6, <4>1 DEF OnDispatchLogicMsg, OnlySwitches, Logic
      <4>2. CASE ~ OnDispatchLogicMsg
        BY <2>1, <4>2 DEF DispatcherStep, DispatchDataLoadBalancer, DispatchDataRoundRobin
      <4>. QED
        BY <4>1, <4>2
    <3>. QED
      BY <3>1 DEF BehindSwitch
  <2>2. CASE logic # "ROUND_ROBIN"
    <3>1. PICK j \in DOMAIN box : box[j] = Logic("ROUND_ROBIN") /\ \A k \in 1 .. j : ~ IsFaulty(box[k])
      BY <1>6, <2>2 DEF BehindSwitch
    <3>2. CASE j = 1
      <4>1. OnDispatchLogicMsg
        BY <1>3, <3>1, <3>2 DEF DispatcherStep, DispatchDataLoadBalancer, DispatchDataRoundRobin, Logic
      <4>2. logic' = "ROUND_ROBIN"
        BY <1>3, <3>1, <3>2, <4>1 DEF OnDispatchLogicMsg, Logic
      <4>. QED
        BY <4>2 DEF BehindSwitch
    <3>3. CASE j # 1
      <4>1. j - 1 \in DOMAIN box' /\ box'[j - 1] = box[j]
        BY <1>3, <3>1, <3>3
      <4>2. \A k \in 1 .. j - 1 : box'[k] = box[k + 1] /\ k + 1 \in 1 .. j
        BY <1>3, <3>1, <3>3
      <4>. QED
        BY <3>1, <4>1, <4>2 DEF BehindSwitch, IsFaulty
    <3>. QED
      BY <3>2, <3>3
  <2>. QED
    BY <2>1, <2>2
<1>7. Faulty \notin DOMAIN loadBalanceMap'
  <2>1. CASE UNCHANGED loadBalanceMap
    BY <2>1 DEF FaultyApart
  <2>2. CASE DispatchDataLoadBalancer
    <3>1. logic = "LOAD_BALANCER" /\ Head(box).type = "TemperatureMsg"
      BY <2>2 DEF DispatchDataLoadBalancer
    <3>2. ~ IsFaulty(box[1])
      <4>1. CASE line <= Switch \/ line > Removal
        BY <1>3, <4>1 DEF FaultyApart, Apart
      <4>2. CASE Switch < line /\ line <= Removal
        <5>1. PICK j \in DOMAIN box : \A k \in 1 .. j : ~ IsFaulty(box[k])
          BY <3>1, <4>2 DEF FaultyApart, BehindSwitch
        <5>2. 1 \in 1 .. j
          BY <1>3, <5>1
        <5>. QED
          BY <5>1, <5>2
      <4>. QED
        BY <1>1, <4>1, <4>2, ScriptFacts
    <3>3. Head(box).sender # Faulty
      BY <1>3, <3>1, <3>2 DEF IsFaulty
    <3>. QED
      <4>1. PICK s : s = Head(box).sender
        OBVIOUS
      <4>2. DOMAIN loadBalanceMap' \subseteq DOMAIN loadBalanceMap \cup {s}
        BY <2>2, <4>1, Assignment
      <4>. QED
        BY <3>3, <4>1, <4>2 DEF FaultyApart
  <2>. QED
    BY <2>1, <2>2 DEF DispatcherStep, OnDispatchLogicMsg, DispatchDataRoundRobin
<1>. QED
  BY <1>2, <1>4, <1>5, <1>6, <1>7 DEF FaultyApart

LEMMA ApartStep ==
  ASSUME Types, FaultyApart, [Next]_vars, 5 \notin ShortSleeps
  PROVE  FaultyApart'
<1>1. ASSUME NEW p \in Processors, GotData(p) PROVE FaultyApart'
  BY <1>1 DEF GotData, FaultyApart, Apart, OnlySwitches, BehindSwitch, IsFaulty, sensorVars, dispVars
<1>2. CASE UNCHANGED vars
  BY <1>2 DEF FaultyApart, Apart, OnlySwitches, BehindSwitch, IsFaulty, vars, sensorVars, dispVars
<1>. QED
  BY <1>1, <1>2, MainKeepsApart, SensorsKeepApart, DispatcherKeepsApart DEF Next

(***************************************************************************)
(* The theorems.                                                           *)
(***************************************************************************)

DispatcherInv == Types /\ Balanced /\ TurnsTaken /\ (5 \notin ShortSleeps => FaultyApart)

LEMMA DispatcherInvariant == McSpec => []DispatcherInv
<1>1. Init => DispatcherInv
  <2>. SUFFICES ASSUME Init PROVE DispatcherInv
    OBVIOUS
  <2>1. Types
    BY InitTypes
  <2>2. Balanced
    <3>1. \A p \in Processors : {s \in DOMAIN loadBalanceMap : loadBalanceMap[s] = p} = {}
      BY DEF Init
    <3>. QED
      BY <3>1, FS_EmptySet DEF Balanced, Load
  <2>3. TurnsTaken
    <3>1. \A p \in Processors : turns[p] = IF p < index THEN 0 + 1 ELSE 0
      BY DEF Init, Processors
    <3>. QED
      BY <3>1 DEF TurnsTaken
  <2>4. FaultyApart
    <3>1. line <= Switch /\ ~ (Switch < line)
      <4>1. 1 <= Switch
        BY <2>1, ScriptFacts, ElementOfSeq DEF Switch, Types
      <4>. QED
        BY <4>1, ScriptFacts DEF Init
    <3>2. Apart /\ OnlySwitches /\ Faulty \notin DOMAIN loadBalanceMap
      BY DEF Init, Apart, OnlySwitches, AllSensors
    <3>. QED
      BY <3>1, <3>2 DEF FaultyApart
  <2>. QED
    BY <2>1, <2>2, <2>3, <2>4 DEF DispatcherInv
<1>2. DispatcherInv /\ [McNext]_allVars => DispatcherInv'
  BY Projection, TypesStep, BalancedStep, TurnsStep, ApartStep DEF DispatcherInv
<1>3. McInit => Init
  BY DEF McInit
<1>. QED
  BY <1>1, <1>2, <1>3, PTL DEF McSpec

\* The loads differ by at most one, and so do the turns; and the faulty sensor is never
\* assigned to a processor when main's sleep before its removal is long enough: the
\* dispatcher has then handled all its temperatures, in round robin, before main switches
\* back, whichever other sleeps are too short.
THEOREM SensorsFairlyAssigned == McSpec => []FairlyAssigned
<1>1. DispatcherInv => FairlyAssigned
  BY TurnsAreFair DEF DispatcherInv, FairlyAssigned, FaultyNotAssigned, FaultyApart
<1>. QED
  BY <1>1, DispatcherInvariant, PTL

\* A sensor keeps its processor through every switch of the dispatcher's behaviour.
THEOREM SensorsStay == McSpec => Sticky
<1> DEFINE kept == \A s \in DOMAIN loadBalanceMap :
                     s \in DOMAIN loadBalanceMap' /\ loadBalanceMap'[s] = loadBalanceMap[s]
<1>1. ASSUME DispatcherInv, [McNext]_allVars PROVE [kept]_vars
  <2>1. Types /\ [Next]_vars
    BY <1>1, Projection DEF DispatcherInv
  <2>2. CASE UNCHANGED loadBalanceMap
    BY <2>2
  <2>3. CASE DispatchDataLoadBalancer
    <3>1. PICK s : s = Head(box).sender
      OBVIOUS
    <3>. QED
      BY <2>1, <2>3, <3>1, Assignment
  <2>. QED
    BY <2>1, <2>2, <2>3, OtherSteps DEF DispatcherStep, OnDispatchLogicMsg, DispatchDataRoundRobin, dispVars
<1>. QED
  BY <1>1, DispatcherInvariant, PTL DEF McSpec, Sticky

(***************************************************************************)
(* How many messages of a mailbox are of a kind.                           *)
(***************************************************************************)

Where(box1, M) == {k \in DOMAIN box1 : box1[k] \in M}

LEMMA WhereIsFinite ==
  ASSUME NEW S, NEW seq \in Seq(S), NEW M
  PROVE  IsFiniteSet(Where(seq, M)) /\ Cardinality(Where(seq, M)) \in Nat
<1>1. DOMAIN seq = 1 .. Len(seq) /\ Len(seq) \in Nat
  OBVIOUS
<1>2. IsFiniteSet(1 .. Len(seq))
  BY <1>1, FS_Interval
<1>3. Where(seq, M) \subseteq 1 .. Len(seq)
  BY <1>1 DEF Where
<1>4. IsFiniteSet(Where(seq, M))
  BY <1>2, <1>3, FS_Subset
<1>. QED
  BY <1>4, FS_CardinalityType

LEMMA WhereAppend ==
  ASSUME NEW S, NEW seq \in Seq(S), NEW x \in S, NEW M
  PROVE  Cardinality(Where(Append(seq, x), M)) = Cardinality(Where(seq, M)) + IF x \in M THEN 1 ELSE 0
<1>1. PICK n \in Nat : n = Len(seq)
  OBVIOUS
<1>2. PICK t : t = Append(seq, x)
  OBVIOUS
<1>3. /\ DOMAIN seq = 1 .. n /\ DOMAIN t = 1 .. n + 1
      /\ t[n + 1] = x /\ \A k \in 1 .. n : t[k] = seq[k]
  BY <1>1, <1>2
<1>4. n + 1 \notin 1 .. n /\ 1 .. n + 1 = (1 .. n) \cup {n + 1}
  OBVIOUS
<1>5. PICK w : w = Where(seq, M)
  OBVIOUS
<1>6. IsFiniteSet(w) /\ n + 1 \notin w /\ Cardinality(w) \in Nat
  BY <1>3, <1>4, <1>5, WhereIsFinite DEF Where
<1>7. Where(t, M) = IF x \in M THEN w \cup {n + 1} ELSE w
  BY <1>3, <1>4, <1>5 DEF Where
<1>8. Cardinality(w \cup {n + 1}) = Cardinality(w) + 1
  BY <1>6, FS_AddElement
<1>. QED
  BY <1>2, <1>5, <1>6, <1>7, <1>8

LEMMA WhereTail ==
  ASSUME NEW S, NEW seq \in Seq(S), seq # <<>>, NEW M
  PROVE  Cardinality(Where(seq, M)) = Cardinality(Where(Tail(seq), M)) + IF Head(seq) \in M THEN 1 ELSE 0
<1>1. PICK t : t = Tail(seq)
  OBVIOUS
<1>2. t \in Seq(S) /\ Len(seq) \in Nat /\ Len(seq) >= 1
  BY <1>1
<1>3. PICK n \in Nat : n = Len(seq) - 1
  BY <1>2
<1>4. /\ DOMAIN seq = 1 .. n + 1 /\ DOMAIN t = 1 .. n /\ Head(seq) = seq[1]
      /\ \A k \in 1 .. n : t[k] = seq[k + 1]
  BY <1>1, <1>2, <1>3
<1>5. PICK v, w : v = Where(t, M) /\ w = Where(seq, M) \ {1}
  OBVIOUS
<1>6. ExistsBijection(v, w)
  <2>1. PICK f : f = [k \in v |-> k + 1]
    OBVIOUS
  <2>2. v \subseteq 1 .. n /\ w \subseteq 2 .. n + 1
    BY <1>4, <1>5 DEF Where
  <2>3. \A k \in v : k + 1 \in w
    BY <1>4, <1>5, <2>2 DEF Where
  <2>4. \A j \in w : j - 1 \in v
    <3>1. SUFFICES ASSUME NEW j \in w PROVE j - 1 \in 1 .. n /\ t[j - 1] \in M
      BY <1>4, <1>5 DEF Where
    <3>2. j \in Int /\ 2 <= j /\ j <= n + 1 /\ seq[j] \in M
      BY <1>5, <2>2 DEF Where
    <3>3. PICK k \in Int : k = j - 1
      BY <3>2
    <3>4. k \in 1 .. n /\ j = k + 1
      BY <3>2, <3>3
    <3>5. t[k] = seq[j]
      BY <1>4, <3>4
    <3>. QED
      BY <3>2, <3>3, <3>4, <3>5
  <2>5. f \in [v -> w]
    BY <2>1, <2>3
  <2>6. f \in Injection(v, w)
    <3>1. \A a, b \in v : f[a] = f[b] => a = b
      BY <2>1, <2>2
    <3>. QED
      BY <2>5, <3>1 DEF Injection, IsInjective
  <2>7. f \in Surjection(v, w)
    <3>1. \A j \in w : \E k \in v : f[k] = j
      <4>1. SUFFICES ASSUME NEW j \in w PROVE \E k \in v : f[k] = j
        OBVIOUS
      <4>2. j - 1 \in v /\ f[j - 1] = (j - 1) + 1 /\ j \in Int
        BY <2>1, <2>2, <2>4
      <4>. QED
        BY <4>2
    <3>. QED
      BY <2>5, <3>1 DEF Surjection
  <2>. QED
    BY <2>6, <2>7 DEF ExistsBijection, Bijection
<1>7. IsFiniteSet(v) /\ Cardinality(v) \in Nat
  BY <1>2, <1>5, WhereIsFinite
<1>8. IsFiniteSet(w) /\ Cardinality(w) = Cardinality(v)
  BY <1>6, <1>7, FS_Bijection
<1>9. 1 \notin w /\ Where(seq, M) = IF Head(seq) \in M THEN w \cup {1} ELSE w
  BY <1>2, <1>4, <1>5 DEF Where
<1>10. Cardinality(w \cup {1}) = Cardinality(w) + 1
  BY <1>8, <1>9, FS_AddElement
<1>11. CASE Head(seq) \in M
  <2>1. Cardinality(Where(seq, M)) = Cardinality(v) + 1
    BY <1>8, <1>9, <1>10, <1>11
  <2>. QED
    BY <1>1, <1>5, <1>11, <2>1
<1>12. CASE Head(seq) \notin M
  <2>1. Cardinality(Where(seq, M)) = Cardinality(v)
    BY <1>8, <1>9, <1>12
  <2>. QED
    BY <1>1, <1>5, <1>7, <1>12, <2>1
<1>. QED
  BY <1>11, <1>12

(***************************************************************************)
(* What main tells first.                                                  *)
(***************************************************************************)

LEMMA FirstLines ==
  \A k \in 1 .. Len(References) : k \in 1 .. Len(Script) /\ Script[k] = References[k]
<1> DEFINE W == Sleeps \cup TellsOf(Range(Sensors))
<1>1. PICK a, b, c, d : a = References /\ b = Sleep(1) /\ c = SensingRounds(1, Sensors) /\ d = Sleep(2)
  OBVIOUS
<1>2. a \in Seq(W) /\ b \in Seq(W) /\ c \in Seq(W) /\ d \in Seq(W)
  <2>1. a \in Seq(W)
    <3>1. \A k \in DOMAIN Sensors : Tell(Sensors[k], Ref) \in W
      BY DEF Tell, TellsOf, Range
    <3>2. References \in [1 .. Len(Sensors) -> W] /\ Len(Sensors) \in Nat
      BY <3>1, SensorsAssumption DEF References
    <3>. QED
      BY <1>1, <3>2, SeqDef
  <2>2. b \in Seq(W) /\ d \in Seq(W)
    BY <1>1 DEF Sleep, Sleeps
  <2>3. c \in Seq(W)
    <3>1. SensingRounds(1, Sensors) \in Seq(TellsOf(Range(Sensors)))
      BY RoundsOf, SensorsAssumption
    <3>. QED
      BY <1>1, <3>1, SeqMonotonic
  <2>. QED
    BY <2>1, <2>2, <2>3
<1> HIDE DEF W
<1>3. PICK ab, abc : ab = a \o b /\ abc = ab \o c
  OBVIOUS
<1>4. ab \in Seq(W) /\ Len(a) \in Nat /\ Len(b) \in Nat /\ Len(ab) = Len(a) + Len(b) /\ \A l \in 1 .. Len(a) : ab[l] = a[l]
  BY <1>2, <1>3, Concatenated
<1>5. abc \in Seq(W) /\ Len(c) \in Nat /\ Len(abc) = Len(ab) + Len(c) /\ \A l \in 1 .. Len(ab) : abc[l] = ab[l]
  BY <1>2, <1>3, <1>4, Concatenated
<1>6. /\ Len(abc \o d) = Len(abc) + Len(d) /\ Len(d) \in Nat
      /\ \A l \in 1 .. Len(abc) : (abc \o d)[l] = abc[l]
  BY <1>2, <1>5, Concatenated, ZenonT(100)
<1>7. BeforeSwitch = abc \o d
  BY <1>1, <1>3 DEF BeforeSwitch
<1>8. ASSUME NEW k \in 1 .. Len(References) PROVE k \in 1 .. Len(BeforeSwitch) /\ BeforeSwitch[k] = References[k]
  <2>1. k \in 1 .. Len(a) /\ k \in 1 .. Len(ab) /\ k \in 1 .. Len(abc) /\ k \in 1 .. Len(abc \o d)
    BY <1>1, <1>4, <1>5, <1>6, SMTT(60)
  <2>. QED
    BY <1>1, <1>4, <1>5, <1>6, <1>7, <2>1
<1>9. Len(BeforeSwitch) \in Nat /\ Len(BeforeSwitch) <= Len(Script) /\ Len(Script) \in Nat
  BY SMTT(60), <1>4, <1>5, <1>6, <1>7, ScriptFacts DEF Switch
<1>. QED
  BY <1>8, <1>9, ScriptFacts

LEMMA FaultyJoins ==
  \E j \in Switch + 1 .. Removal - 1 : /\ Script[j] = Tell(Faulty, Ref)
                                       /\ \A i \in Switch + 1 .. j - 1 : Script[i] \in Working
<1>1. PICK a, x, c : /\ a = Sleep(3) \o SensingRounds(2, Sensors) /\ x = Tell(Faulty, Ref)
                     /\ c = Sleep(4) \o SensingRounds(3, <<Faulty>> \o Sensors)
  OBVIOUS
<1>2. a \in Seq(Working)
  <2>1. Sleep(3) \in Seq(Working)
    BY DEF Sleep, Working, Sleeps
  <2>2. SensingRounds(2, Sensors) \in Seq(Working)
    <3>1. SensingRounds(2, Sensors) \in Seq(TellsOf(Range(Sensors)))
      BY RoundsOf, SensorsAssumption
    <3>. QED
      BY <3>1, SeqMonotonic DEF Working
  <2>. QED
    BY <1>1, <2>1, <2>2, ConcatProperties
<1>3. c \in Seq(Joining) /\ x \in Joining
  <2>1. PICK list : list = <<Faulty>> \o Sensors
    OBVIOUS
  <2>2. list \in Seq(AllSensors) /\ list # <<>>
    <3>1. <<Faulty>> \in Seq(AllSensors) /\ Sensors \in Seq(AllSensors) /\ Len(<<Faulty>>) = 1
      BY SeqMonotonic, SensorsAssumption DEF AllSensors
    <3>2. <<Faulty>> \o Sensors \in Seq(AllSensors) /\ Len(<<Faulty>> \o Sensors) = 1 + Len(Sensors)
      BY <3>1, ConcatProperties
    <3>. QED
      BY <2>1, <3>2
  <2>3. SensingRounds(3, list) \in Seq(Joining)
    <3>1. SensingRounds(3, list) \in Seq(TellsOf(AllSensors))
      BY <2>2, RoundsOf
    <3>. QED
      BY <3>1, SeqMonotonic DEF Joining
  <2>4. Sleep(4) \in Seq(Joining)
    BY DEF Sleep, Joining, Sleeps
  <2>5. x \in Joining
    BY <1>1 DEF Tell, Joining, TellsOf, AllSensors
  <2>. QED
    BY <1>1, <2>1, <2>3, <2>4, <2>5, ConcatProperties
<1>4. a \in Seq(Joining)
  <2>1. Working \subseteq Joining
    BY DEF Working, Joining, TellsOf, AllSensors
  <2>. QED
    BY <1>2, <2>1, SeqMonotonic
<1>5. WithFaulty = (a \o <<x>>) \o c
  BY <1>1 DEF WithFaulty
<1>6. /\ Len(a) \in Nat /\ Len(c) \in Nat
      /\ Len(WithFaulty) = Len(a) + 1 + Len(c)
      /\ \A l \in 1 .. Len(a) : WithFaulty[l] = a[l]
      /\ WithFaulty[Len(a) + 1] = x
  <2>1. LET all == (a \o <<x>>) \o c IN
        /\ Len(a) \in Nat /\ Len(c) \in Nat
        /\ Len(all) = Len(a) + 1 + Len(c)
        /\ \A l \in 1 .. Len(a) : all[l] = a[l]
        /\ all[Len(a) + 1] = x
    BY <1>3, <1>4, ThreeParts
  <2>. QED
    BY <1>5, <2>1
<1>7. PICK n \in Nat : n = Len(a)
  BY <1>6
<1>8. Switch \in Nat /\ Removal = Switch + Len(WithFaulty) + 1
  BY ScriptFacts DEF Removal
<1>9. Script[Switch + (n + 1)] = x
  <2>1. n + 1 \in 1 .. Len(WithFaulty)
    BY <1>6, <1>7
  <2>2. Script[Switch + (n + 1)] = WithFaulty[n + 1]
    BY <2>1, ScriptFacts
  <2>. QED
    BY <1>6, <1>7, <2>2
<1>10. ASSUME NEW i \in Switch + 1 .. Switch + n PROVE Script[i] \in Working
  <2>1. PICK k \in Int : k = i - Switch
    BY <1>8
  <2>2. k \in 1 .. n /\ i = Switch + k /\ k \in 1 .. Len(WithFaulty)
    BY <1>6, <1>7, <1>8, <2>1
  <2>3. Script[i] = a[k]
    BY <1>6, <1>7, <2>2, ScriptFacts
  <2>. QED
    BY <1>2, <1>7, <2>2, <2>3, ElementOfSeq
<1>11. PICK j \in Int : j = Switch + (n + 1)
  BY <1>7, <1>8
<1>12. j \in Switch + 1 .. Removal - 1 /\ j - 1 = Switch + n
  BY <1>6, <1>7, <1>8, <1>11
<1>13. \A i \in Switch + 1 .. j - 1 : Script[i] \in Working
  BY <1>10, <1>12
<1>. QED
  BY <1>1, <1>9, <1>11, <1>12, <1>13

\* No sensor is told to generate before it is told of the dispatcher.
LEMMA RefBeforeGenerate ==
  ASSUME NEW l \in 1 .. Len(Script), NEW s \in AllSensors, Script[l] = Tell(s, Generate)
  PROVE  \E k \in 1 .. l - 1 : Script[k] = Tell(s, Ref)
<1>1. /\ l \in Nat /\ Switch \in Nat /\ Removal \in Nat /\ Switch < Removal
      /\ \A sensors : Tell(s, Generate) \in TellsOf(sensors) => s \in sensors
      /\ Tell(s, Generate) \notin Sleeps
  BY ScriptFacts DEF Tell, TellsOf, Sleeps, Ref, Generate
<1>2. CASE s \in Range(Sensors)
  <2>1. PICK k \in DOMAIN Sensors : s = Sensors[k]
    BY <1>2 DEF Range
  <2>2. k \in 1 .. Len(References) /\ References[k] = Tell(s, Ref)
    BY <2>1, SensorsAssumption DEF References
  <2>3. \A i \in 1 .. Len(References) : i \in 1 .. Len(Script) /\ Script[i] = References[i]
    BY FirstLines
  <2>4. \A i \in 1 .. Len(References) : References[i].msg = Ref
    BY SensorsAssumption DEF References, Tell
  <2>5. l \notin 1 .. Len(References)
    BY <2>3, <2>4 DEF Tell, Ref, Generate
  <2>6. k \in 1 .. l - 1
    <3>1. Len(References) \in Nat
      BY SensorsAssumption DEF References
    <3>. QED
      BY <1>1, <2>2, <2>5, <3>1
  <2>. QED
    BY <2>2, <2>3, <2>6
<1>3. CASE s = Faulty
  <2>1. PICK j \in Switch + 1 .. Removal - 1 : /\ Script[j] = Tell(Faulty, Ref)
                                               /\ \A i \in Switch + 1 .. j - 1 : Script[i] \in Working
    BY FaultyJoins
  <2>2. Script[l] \notin Working /\ Script[l] \notin Balancing
    BY <1>1, <1>3, SensorsAssumption DEF Working, Balancing, Tell, Dispatch
  <2>3. l > Switch - 1 /\ l <= Removal
    BY <1>1, <2>2, ScriptFacts
  <2>4. l # Switch /\ l # j
    BY <1>3, <2>1, ScriptFacts DEF Tell, Dispatch, Ref, Generate
  <2>5. l > j
    BY <1>1, <2>1, <2>2, <2>3, <2>4
  <2>. QED
    BY <1>1, <1>3, <2>1, <2>5
<1>. QED
  BY <1>2, <1>3 DEF AllSensors

(***************************************************************************)
(* A sensor that was told anything knows the dispatcher before it is told  *)
(* to generate, so that it never drops a temperature.                      *)
(***************************************************************************)

Knows(s) == s \in dispatcherRef \/ (sensorBox[s] # <<>> /\ Head(sensorBox[s]) = Ref)

RefsFirst ==
  \A s \in AllSensors :
    Knows(s) \/ (sensorBox[s] = <<>> /\ \A k \in 1 .. line - 1 : Script[k] # Tell(s, Ref))

LEMMA FirstOf ==
  ASSUME NEW S, NEW seq \in Seq(S), NEW x
  PROVE  /\ Append(seq, x) # <<>>
         /\ Head(Append(seq, x)) = IF seq = <<>> THEN x ELSE Head(seq)
<1>1. PICK t : t = Append(seq, x)
  OBVIOUS
<1>2. /\ Len(seq) \in Nat /\ Len(t) = Len(seq) + 1 /\ t[Len(seq) + 1] = x /\ Head(t) = t[1]
      /\ \A k \in 1 .. Len(seq) : t[k] = seq[k]
  BY <1>1
<1>3. CASE seq = <<>>
  BY <1>1, <1>3
<1>4. CASE seq # <<>>
  <2>1. 1 \in 1 .. Len(seq) /\ Head(seq) = seq[1]
    BY <1>4
  <2>. QED
    BY <1>1, <1>2, <1>4, <2>1
<1>. QED
  BY <1>3, <1>4

LEMMA RefsFirstStep ==
  ASSUME Types, RefsFirst, [Next]_vars
  PROVE  RefsFirst'
<1>0. line \in Nat /\ sensorBox \in [AllSensors -> Seq({Ref, Generate})]
  BY ScriptFacts DEF Types
<1>1. CASE Main
  <2>1. line \in 1 .. Len(Script) /\ line' = line + 1 /\ Script[line] \in Steps /\ UNCHANGED dispatcherRef
    BY <1>1, MainSteps DEF Main
  <2>2. 1 .. line' - 1 = (1 .. line - 1) \cup {line}
    BY <1>0, <2>1
  <2>3. ASSUME Script[line].do # "tell" PROVE RefsFirst'
    <3>1. UNCHANGED sensorBox
      BY <1>1, <2>3 DEF Main
    <3>2. \A s \in AllSensors : Script[line] # Tell(s, Ref)
      BY <2>3 DEF Tell
    <3>. QED
      BY <2>1, <2>2, <3>1, <3>2 DEF RefsFirst, Knows
  <2>4. ASSUME Script[line].do = "tell" PROVE RefsFirst'
    <3>1. PICK r, m : r = Script[line].sensor /\ m = Script[line].msg
      OBVIOUS
    <3>2. Script[line] = Tell(r, m) /\ r \in AllSensors /\ m \in {Ref, Generate}
      BY <2>1, <2>4, <3>1 DEF Steps, Joining, Sleeps, TellsOf, Dispatches, Tell
    <3>3. sensorBox' = [sensorBox EXCEPT ![r] = Append(@, m)]
      BY <1>1, <2>4, <3>1 DEF Main
    <3>4. \A s \in AllSensors : s # r => UNCHANGED sensorBox[s] /\ Script[line] # Tell(s, Ref)
      BY <1>0, <3>2, <3>3 DEF Tell
    <3>5. sensorBox'[r] # <<>> /\ Head(sensorBox'[r]) = IF sensorBox[r] = <<>> THEN m ELSE Head(sensorBox[r])
      <4>1. sensorBox'[r] = Append(sensorBox[r], m) /\ sensorBox[r] \in Seq({Ref, Generate})
        BY <1>0, <3>2, <3>3
      <4>2. PICK b : b = sensorBox[r]
        OBVIOUS
      <4>3. b \in Seq({Ref, Generate})
        BY <4>1, <4>2
      <4>4. Append(b, m) # <<>> /\ Head(Append(b, m)) = IF b = <<>> THEN m ELSE Head(b)
        BY <4>3, FirstOf
      <4>. QED
        BY <4>1, <4>2, <4>4
    <3>6. Knows(r)'
      <4>1. CASE Knows(r)
        BY <2>1, <3>5, <4>1 DEF Knows
      <4>2. CASE ~ Knows(r)
        <5>1. sensorBox[r] = <<>> /\ \A k \in 1 .. line - 1 : Script[k] # Tell(r, Ref)
          BY <3>2, <4>2 DEF RefsFirst
        <5>2. m # Generate
          <6>1. ASSUME m = Generate PROVE FALSE
            <7>1. Script[line] = Tell(r, Generate)
              BY <3>2, <6>1
            <7>. QED
              BY <2>1, <3>2, <5>1, <7>1, RefBeforeGenerate
          <6>. QED
            BY <6>1
        <5>. QED
          BY <3>2, <3>5, <5>1, <5>2 DEF Knows
      <4>. QED
        BY <4>1, <4>2
    <3>. QED
      BY <2>1, <2>2, <3>4, <3>6 DEF RefsFirst, Knows
  <2>. QED
    BY <2>3, <2>4
<1>2. ASSUME NEW r \in AllSensors, SensorStep(r) PROVE RefsFirst'
  <2>1. /\ UNCHANGED line
        /\ dispatcherRef \subseteq dispatcherRef'
        /\ sensorBox[r] # <<>>
        /\ sensorBox' = [sensorBox EXCEPT ![r] = Tail(@)]
    BY <1>2 DEF SensorStep, OnDispatcherRefMsg, OnGenerate
  <2>2. \A s \in AllSensors : s # r => UNCHANGED sensorBox[s]
    BY <1>0, <2>1
  <2>3. Knows(r)
    BY <2>1 DEF RefsFirst
  <2>4. r \in dispatcherRef'
    BY <1>2, <2>3 DEF Knows, SensorStep, OnDispatcherRefMsg, OnGenerate, Ref, Generate
  <2>. QED
    BY <2>1, <2>2, <2>4 DEF RefsFirst, Knows
<1>3. ASSUME UNCHANGED <<line, dispatcherRef, sensorBox>> PROVE RefsFirst'
  BY <1>3 DEF RefsFirst, Knows
<1>4. DispatcherStep => UNCHANGED <<line, dispatcherRef, sensorBox>>
  BY DEF DispatcherStep, OnDispatchLogicMsg, DispatchDataLoadBalancer, DispatchDataRoundRobin, sensorVars
<1>5. \A p \in Processors : GotData(p) => UNCHANGED <<line, dispatcherRef, sensorBox>>
  BY DEF GotData, sensorVars
<1>6. UNCHANGED vars => UNCHANGED <<line, dispatcherRef, sensorBox>>
  BY DEF vars, sensorVars
<1>. QED
  BY <1>1, <1>2, <1>3, <1>4, <1>5, <1>6 DEF Next

(***************************************************************************)
(* Every reading is somewhere, once.                                       *)
(***************************************************************************)

ProcessorTypes ==
  /\ processorBox \in [Processors -> Seq(TemperatureMsg)]
  /\ readings \in [Processors -> Nat] /\ total \in [Processors -> Int]
  /\ faults \in [Processors -> Nat] /\ generated \in Nat

LEMMA ProcessorTypesStep ==
  ASSUME Types, ProcessorTypes, [Next]_vars
  PROVE  ProcessorTypes'
<1> USE DEF ProcessorTypes
<1>1. CASE Main
  <2>1. Script[line].do = "tell" => generated' = generated + (IF Script[line].msg = Generate THEN 1 ELSE 0)
    BY <1>1 DEF Main
  <2>2. Script[line].do # "tell" => UNCHANGED generated
    BY <1>1 DEF Main
  <2>3. generated' \in Nat
    BY <2>1, <2>2
  <2>. QED
    BY <1>1, <2>3 DEF Main, processorVars
<1>2. ASSUME NEW s \in AllSensors, SensorStep(s) PROVE ProcessorTypes'
  BY <1>2 DEF SensorStep, OnDispatcherRefMsg, OnGenerate, processorVars
<1>3. CASE OnDispatchLogicMsg
  BY <1>3 DEF OnDispatchLogicMsg, processorVars
<1>4. ASSUME NEW p \in Processors, box # <<>>, Head(box).type = "TemperatureMsg",
             processorBox' = [processorBox EXCEPT ![p] = Append(@, Head(box))],
             UNCHANGED <<generated, processorVars>>
      PROVE  ProcessorTypes'
  <2>1. Head(box) \in TemperatureMsg
    BY SMTT(60), <1>4 DEF Types, LogicMsg
  <2>2. processorBox' \in [Processors -> Seq(TemperatureMsg)]
    BY <1>4, <2>1
  <2>. QED
    BY <1>4, <2>2 DEF processorVars
<1>5. DispatchDataLoadBalancer \/ DispatchDataRoundRobin =>
        \E p \in Processors : /\ box # <<>> /\ Head(box).type = "TemperatureMsg"
                              /\ processorBox' = [processorBox EXCEPT ![p] = Append(@, Head(box))]
                              /\ UNCHANGED <<generated, processorVars>>
  BY DEF DispatchDataLoadBalancer, DispatchDataRoundRobin, Candidates, LeastLoaded, Types
<1>6. ASSUME NEW p \in Processors, GotData(p) PROVE ProcessorTypes'
  <2>1. processorBox' \in [Processors -> Seq(TemperatureMsg)] /\ UNCHANGED generated
    BY <1>6 DEF GotData
  <2>2. PICK m : m = Head(processorBox[p])
    OBVIOUS
  <2>3. m \in TemperatureMsg
    BY <1>6, <2>2 DEF GotData
  <2>4. m.temp \in Int
    <3>1. m.temp \in Temps \cup {FaultTemp}
      BY <2>3 DEF TemperatureMsg, AllTemps
    <3>2. Temps \subseteq Nat /\ FaultTemp \in Int
      BY TempsAssumption
    <3>3. Temps \cup {FaultTemp} \subseteq Int
      BY <3>2
    <3>. QED
      BY <3>1, <3>3
  <2>5. readings' \in [Processors -> Nat] /\ total' \in [Processors -> Int] /\ faults' \in [Processors -> Nat]
    <3>1. CASE /\ total' = [total EXCEPT ![p] = @ + m.temp] /\ UNCHANGED faults
               /\ readings' = [readings EXCEPT ![p] = @ + 1]
      BY <2>4, <3>1
    <3>2. CASE faults' = [faults EXCEPT ![p] = @ + 1] /\ UNCHANGED <<total, readings>>
      BY <3>2
    <3>. QED
      BY <1>6, <2>2, <3>1, <3>2 DEF GotData
  <2>. QED
    BY <2>1, <2>5
<1>7. CASE UNCHANGED vars
  BY <1>7 DEF vars, processorVars
<1>. QED
  BY <1>1, <1>2, <1>3, <1>4, <1>5, <1>6, <1>7 DEF Next, DispatcherStep

LEMMA SensorsAreFinite == IsFiniteSet(AllSensors) /\ IsFiniteSet(Processors)
<1>1. PICK n \in Nat : n = Len(Sensors)
  BY SensorsAssumption
<1>2. IsFiniteSet(1 .. n)
  BY <1>1, FS_Interval
<1>3. PICK f : f = [k \in 1 .. n |-> Sensors[k]]
  OBVIOUS
<1>4. f \in Surjection(1 .. n, Range(Sensors))
  BY <1>1, <1>3, SensorsAssumption DEF Surjection, Range
<1>5. IsFiniteSet(Range(Sensors))
  BY <1>2, <1>4, FS_Surjection
<1>6. IsFiniteSet(AllSensors)
  BY <1>5, FS_AddElement DEF AllSensors
<1>7. IsFiniteSet(Processors)
  BY ProcessorsAssumption, FS_Interval DEF Processors
<1>. QED
  BY <1>6, <1>7

\* The three terms of the sum.
ToSense == [s \in AllSensors |-> Cardinality(Where(sensorBox[s], {Generate}))]
ToDispatch == Cardinality(Where(box, TemperatureMsg))
Arrived == [p \in Processors |-> Len(processorBox[p]) + readings[p] + faults[p]]

Accounted == generated = SumFunctionOnSet(ToSense, AllSensors) + ToDispatch + SumFunctionOnSet(Arrived, Processors)

LEMMA AccountedMeans ==
  ASSUME Types
  PROVE  Accounted <=> ReadingsConserved
<1>1. SumFunction([s \in AllSensors |-> Count(sensorBox[s], IsGenerate)]) = SumFunctionOnSet(ToSense, AllSensors)
  <2>1. \A s \in AllSensors : Count(sensorBox[s], IsGenerate) = Cardinality(Where(sensorBox[s], {Generate}))
    BY DEF Count, IsGenerate, Where
  <2>2. [s \in AllSensors |-> Count(sensorBox[s], IsGenerate)] = ToSense
    BY <2>1 DEF ToSense
  <2>3. DOMAIN ToSense = AllSensors
    BY DEF ToSense
  <2>. QED
    BY <2>2, <2>3 DEF SumFunction
<1>2. SumFunction([p \in Processors |-> Len(processorBox[p]) + readings[p] + faults[p]]) = SumFunctionOnSet(Arrived, Processors)
  <2>1. DOMAIN Arrived = Processors
    BY DEF Arrived
  <2>. QED
    BY <2>1 DEF SumFunction, Arrived
<1>3. Count(box, IsTemperature) = ToDispatch
  <2>1. \A k \in DOMAIN box : box[k].type = "TemperatureMsg" <=> box[k] \in TemperatureMsg
    <3>1. \A k \in DOMAIN box : box[k] \in TemperatureMsg \cup LogicMsg
      BY DEF Types
    <3>2. \A m \in TemperatureMsg : m.type = "TemperatureMsg"
      BY DEF TemperatureMsg
    <3>3. \A m \in LogicMsg : m.type # "TemperatureMsg"
      BY DEF LogicMsg
    <3>. QED
      BY <3>1, <3>2, <3>3
  <2>. QED
    BY <2>1 DEF Count, IsTemperature, ToDispatch, Where
<1>. QED
  BY <1>1, <1>2, <1>3 DEF Accounted, ReadingsConserved

LEMMA SumsAreNat ==
  ASSUME Types, ProcessorTypes
  PROVE  /\ NatOn(ToSense, AllSensors) /\ NatOn(Arrived, Processors) /\ ToDispatch \in Nat
         /\ SumFunctionOnSet(ToSense, AllSensors) \in Nat /\ SumFunctionOnSet(Arrived, Processors) \in Nat
<1>1. NatOn(ToSense, AllSensors)
  <2>1. ASSUME NEW s \in AllSensors PROVE Cardinality(Where(sensorBox[s], {Generate})) \in Nat
    <3>1. PICK b : b = sensorBox[s]
      OBVIOUS
    <3>2. b \in Seq({Ref, Generate})
      BY <3>1 DEF Types
    <3>. QED
      BY <3>1, <3>2, WhereIsFinite
  <2>. QED
    BY <2>1 DEF NatOn, ToSense
<1>2. NatOn(Arrived, Processors)
  <2>1. ASSUME NEW p \in Processors PROVE Len(processorBox[p]) + readings[p] + faults[p] \in Nat
    <3>1. Len(processorBox[p]) \in Nat /\ readings[p] \in Nat /\ faults[p] \in Nat
      BY DEF ProcessorTypes
    <3>. QED
      BY <3>1
  <2>. QED
    BY <2>1 DEF NatOn, Arrived
<1>3. ToDispatch \in Nat
  BY WhereIsFinite DEF Types, ToDispatch
<1>. QED
  BY <1>1, <1>2, <1>3, SensorsAreFinite, SumType

\* What a change of one mailbox of a sensor, or of one processor, does to the sums.
LEMMA ToSenseChanges ==
  ASSUME Types, ProcessorTypes, Types', ProcessorTypes', NEW r \in AllSensors, NEW d \in Int,
         \A s \in AllSensors : s # r => UNCHANGED sensorBox[s],
         Cardinality(Where(sensorBox'[r], {Generate})) = Cardinality(Where(sensorBox[r], {Generate})) + d
  PROVE  SumFunctionOnSet(ToSense, AllSensors)' = SumFunctionOnSet(ToSense, AllSensors) + d
<1>1. PICK f, g : f = ToSense /\ g = ToSense'
  OBVIOUS
<1>2. NatOn(f, AllSensors) /\ NatOn(g, AllSensors)
  <2>1. NatOn(ToSense, AllSensors) /\ NatOn(ToSense, AllSensors)'
    BY SumsAreNat, PTL
  <2>. QED
    BY <1>1, <2>1
<1>3. \A s \in AllSensors \ {r} : f[s] = g[s]
  BY <1>1 DEF ToSense
<1>4. g[r] = f[r] + d
  BY <1>1 DEF ToSense
<1>5. /\ SumFunctionOnSet(f, AllSensors) \in Nat
      /\ SumFunctionOnSet(g, AllSensors) = SumFunctionOnSet(f, AllSensors) - f[r] + g[r]
  BY <1>2, <1>3, SensorsAreFinite, SumUpdate
<1>6. f[r] \in Nat
  BY <1>2 DEF NatOn
<1>7. SumFunctionOnSet(g, AllSensors) = SumFunctionOnSet(f, AllSensors) + d
  BY <1>4, <1>5, <1>6
<1>. QED
  BY <1>1, <1>7

LEMMA ArrivedChanges ==
  ASSUME Types, ProcessorTypes, Types', ProcessorTypes', NEW r \in Processors, NEW d \in Int,
         \A p \in Processors : p # r => UNCHANGED <<processorBox[p], readings[p], faults[p]>>,
         Len(processorBox'[r]) + readings'[r] + faults'[r] = Len(processorBox[r]) + readings[r] + faults[r] + d
  PROVE  SumFunctionOnSet(Arrived, Processors)' = SumFunctionOnSet(Arrived, Processors) + d
<1>1. PICK f, g : f = Arrived /\ g = Arrived'
  OBVIOUS
<1>2. NatOn(f, Processors) /\ NatOn(g, Processors)
  <2>1. NatOn(Arrived, Processors) /\ NatOn(Arrived, Processors)'
    BY SumsAreNat, PTL
  <2>. QED
    BY <1>1, <2>1
<1>3. \A s \in Processors \ {r} : f[s] = g[s]
  BY <1>1 DEF Arrived
<1>4. g[r] = f[r] + d
  BY <1>1 DEF Arrived
<1>5. /\ SumFunctionOnSet(f, Processors) \in Nat
      /\ SumFunctionOnSet(g, Processors) = SumFunctionOnSet(f, Processors) - f[r] + g[r]
  BY <1>2, <1>3, SensorsAreFinite, SumUpdate
<1>6. f[r] \in Nat
  BY <1>2 DEF NatOn
<1>7. SumFunctionOnSet(g, Processors) = SumFunctionOnSet(f, Processors) + d
  BY <1>4, <1>5, <1>6
<1>. QED
  BY <1>1, <1>7

LEMMA MailboxTypes ==
  ASSUME Types, NEW s \in AllSensors, NEW b, b = sensorBox[s]
  PROVE  b \in Seq({Ref, Generate})
  BY DEF Types

LEMMA AccountedStep ==
  ASSUME Types, ProcessorTypes, Types', ProcessorTypes', RefsFirst, Accounted, [Next]_vars
  PROVE  Accounted'
<1> DEFINE A == SumFunctionOnSet(ToSense, AllSensors)
           P == SumFunctionOnSet(Arrived, Processors)
<1>0. A \in Nat /\ P \in Nat /\ ToDispatch \in Nat /\ generated \in Nat /\ generated = A + ToDispatch + P
  BY SumsAreNat DEF Accounted, ProcessorTypes
<1>1. UNCHANGED sensorBox => A' = A
  BY DEF ToSense
<1>2. UNCHANGED <<processorBox, readings, faults>> => P' = P
  BY DEF Arrived
<1>3. UNCHANGED box => ToDispatch' = ToDispatch
  BY DEF ToDispatch
<1>4. ASSUME generated' = A' + ToDispatch' + P' PROVE Accounted'
  BY <1>4 DEF Accounted
<1> HIDE DEF A, P
<1>5. CASE Main
  <2>1. Script[line] \in Steps /\ P' = P
    BY <1>2, <1>5, MainSteps DEF Main, processorVars
  <2>2. CASE Script[line].do = "sleep"
    BY <1>0, <1>1, <1>3, <1>4, <1>5, <2>1, <2>2 DEF Main
  <2>3. CASE Script[line].do = "tell"
    <3>1. PICK r, m, b : r = Script[line].sensor /\ m = Script[line].msg /\ b = sensorBox[r]
      OBVIOUS
    <3>2. r \in AllSensors /\ m \in {Ref, Generate}
      BY <2>1, <2>3, <3>1 DEF Steps, Joining, Sleeps, TellsOf, Dispatches
    <3>3. PICK d \in Int : d = IF m \in {Generate} THEN 1 ELSE 0
      OBVIOUS
    <3>4. b \in Seq({Ref, Generate}) /\ sensorBox \in [AllSensors -> Seq({Ref, Generate})]
      BY <3>1, <3>2 DEF Types
    <3>5. sensorBox' = [sensorBox EXCEPT ![r] = Append(@, m)] /\ generated' = generated + d /\ UNCHANGED box
      BY <1>5, <2>3, <3>1, <3>2, <3>3 DEF Main
    <3>6. /\ \A s \in AllSensors : s # r => UNCHANGED sensorBox[s]
          /\ sensorBox'[r] = Append(b, m)
      BY <3>1, <3>2, <3>4, <3>5
    <3>7. Cardinality(Where(Append(b, m), {Generate})) = Cardinality(Where(b, {Generate})) + d
      BY SMTT(60), <3>2, <3>3, <3>4, WhereAppend
    <3>8. Cardinality(Where(sensorBox'[r], {Generate})) = Cardinality(Where(sensorBox[r], {Generate})) + d
      BY <3>1, <3>6, <3>7
    <3>9. A' = A + d
      BY <3>2, <3>3, <3>6, <3>8, ToSenseChanges DEF A
    <3>. QED
      BY <1>0, <1>3, <1>4, <2>1, <3>5, <3>9
  <2>4. CASE Script[line].do = "dispatch"
    <3>1. PICK m : m = Logic(Script[line].logic)
      OBVIOUS
    <3>2. Script[line].logic \in Logics
      BY <2>1, <2>4 DEF Steps, Joining, Sleeps, TellsOf, Dispatches
    <3>3. m \in LogicMsg /\ m \notin TemperatureMsg
      BY <3>1, <3>2 DEF Logic, LogicMsg, TemperatureMsg
    <3>4. box' = Append(box, m) /\ UNCHANGED <<sensorBox, generated>>
      BY <1>5, <2>4, <3>1 DEF Main
    <3>5. ToDispatch' = ToDispatch
      <4>1. PICK b : b = box
        OBVIOUS
      <4>2. b \in Seq(TemperatureMsg \cup LogicMsg)
        BY <4>1 DEF Types
      <4>3. Cardinality(Where(Append(b, m), TemperatureMsg)) = Cardinality(Where(b, TemperatureMsg)) + 0
        BY <3>3, <4>2, WhereAppend
      <4>4. Cardinality(Where(b, TemperatureMsg)) \in Nat
        BY <4>2, WhereIsFinite
      <4>. QED
        BY <3>4, <4>1, <4>3, <4>4 DEF ToDispatch
    <3>. QED
      BY <1>0, <1>1, <1>4, <2>1, <3>4, <3>5
  <2>. QED
    BY <2>1, <2>2, <2>3, <2>4 DEF Steps, Joining, Sleeps, TellsOf, Dispatches
<1>6. ASSUME NEW r \in AllSensors, SensorStep(r) PROVE Accounted'
  <2>1. PICK b : b = sensorBox[r]
    OBVIOUS
  <2>2. /\ b \in Seq({Ref, Generate}) /\ sensorBox \in [AllSensors -> Seq({Ref, Generate})]
        /\ b # <<>> /\ sensorBox' = [sensorBox EXCEPT ![r] = Tail(@)]
    BY <1>6, <2>1 DEF Types, SensorStep, OnDispatcherRefMsg, OnGenerate
  <2>3. /\ \A s \in AllSensors : s # r => UNCHANGED sensorBox[s]
        /\ sensorBox'[r] = Tail(b)
    BY <2>1, <2>2
  <2>4. PICK d \in Int : d = IF Head(b) \in {Generate} THEN -1 ELSE 0
    OBVIOUS
  <2>5. Cardinality(Where(sensorBox'[r], {Generate})) = Cardinality(Where(sensorBox[r], {Generate})) + d
    <3>1. Cardinality(Where(b, {Generate})) = Cardinality(Where(Tail(b), {Generate})) + IF Head(b) \in {Generate} THEN 1 ELSE 0
      BY <2>2, WhereTail
    <3>2. Tail(b) \in Seq({Ref, Generate})
      BY <2>2
    <3>3. Cardinality(Where(Tail(b), {Generate})) \in Nat
      BY <3>2, WhereIsFinite
    <3>4. Cardinality(Where(Tail(b), {Generate})) = Cardinality(Where(b, {Generate})) + d
      BY <2>4, <3>1, <3>3
    <3>. QED
      BY <2>1, <2>3, <3>4
  <2>6. A' = A + d
    BY <2>3, <2>5, ToSenseChanges DEF A
  <2>7. P' = P /\ generated' = generated
    BY <1>2, <1>6 DEF SensorStep, OnDispatcherRefMsg, OnGenerate, processorVars
  <2>8. CASE OnDispatcherRefMsg(r)
    <3>1. d = 0 /\ UNCHANGED box
      BY <2>1, <2>4, <2>8 DEF OnDispatcherRefMsg, Ref, Generate
    <3>. QED
      BY <1>0, <1>3, <1>4, <2>6, <2>7, <3>1
  <2>9. CASE OnGenerate(r)
    <3>1. d = -1 /\ Head(b) # Ref
      BY <2>1, <2>4, <2>9 DEF OnGenerate, Ref, Generate
    <3>2. r \in dispatcherRef
      BY <2>1, <2>2, <3>1 DEF RefsFirst, Knows
    <3>3. PICK t \in IF r = Faulty THEN {FaultTemp} ELSE Temps : box' = Append(box, Temperature(r, t))
      BY <2>9, <3>2 DEF OnGenerate
    <3>4. PICK m : m = Temperature(r, t)
      OBVIOUS
    <3>5. m \in TemperatureMsg
      BY <3>3, <3>4 DEF Temperature, TemperatureMsg, AllTemps
    <3>6. ToDispatch' = ToDispatch + 1
      <4>1. PICK c : c = box
        OBVIOUS
      <4>2. c \in Seq(TemperatureMsg \cup LogicMsg)
        BY <4>1 DEF Types
      <4>3. Cardinality(Where(Append(c, m), TemperatureMsg)) = Cardinality(Where(c, TemperatureMsg)) + 1
        BY <3>5, <4>2, WhereAppend
      <4>. QED
        BY <3>3, <3>4, <4>1, <4>3 DEF ToDispatch
    <3>. QED
      BY <1>0, <1>4, <2>6, <2>7, <3>1, <3>6
  <2>. QED
    BY <1>6, <2>8, <2>9 DEF SensorStep
<1>7. ASSUME box # <<>>, box' = Tail(box) 
      PROVE  ToDispatch = ToDispatch' + (IF Head(box) \in TemperatureMsg THEN 1 ELSE 0) /\ ToDispatch' \in Nat
  <2>1. PICK c : c = box
    OBVIOUS
  <2>2. c \in Seq(TemperatureMsg \cup LogicMsg) /\ c # <<>>
    BY <1>7, <2>1 DEF Types
  <2>3. Cardinality(Where(c, TemperatureMsg)) = Cardinality(Where(Tail(c), TemperatureMsg)) + IF Head(c) \in TemperatureMsg THEN 1 ELSE 0
    BY <2>2, WhereTail
  <2>4. Tail(c) \in Seq(TemperatureMsg \cup LogicMsg)
    BY <2>2
  <2>5. Cardinality(Where(Tail(c), TemperatureMsg)) \in Nat
    BY <2>4, WhereIsFinite
  <2>. QED
    BY <1>7, <2>1, <2>3, <2>5 DEF ToDispatch
<1>8. box # <<>> => Head(box) \in TemperatureMsg \cup LogicMsg
  BY DEF Types
<1>9. CASE OnDispatchLogicMsg
  <2>1. Head(box) \notin TemperatureMsg
    BY <1>9 DEF OnDispatchLogicMsg, TemperatureMsg
  <2>2. A' = A /\ P' = P /\ generated' = generated /\ ToDispatch' = ToDispatch
    BY <1>1, <1>2, <1>7, <1>9, <2>1 DEF OnDispatchLogicMsg, sensorVars, processorVars
  <2>. QED
    BY <1>0, <1>4, <2>2
<1>10. ASSUME NEW p \in Processors, box # <<>>, Head(box).type = "TemperatureMsg", box' = Tail(box),
              processorBox' = [processorBox EXCEPT ![p] = Append(@, Head(box))],
              UNCHANGED <<generated, sensorVars, processorVars>>
       PROVE  Accounted'
  <2>1. Head(box) \in TemperatureMsg
    BY <1>8, <1>10 DEF LogicMsg
  <2>2. ToDispatch' = ToDispatch - 1
    BY <1>0, <1>7, <1>10, <2>1
  <2>3. A' = A /\ generated' = generated
    BY <1>1, <1>10 DEF sensorVars
  <2>4. P' = P + 1
    <3>1. \A q \in Processors : q # p => UNCHANGED <<processorBox[q], readings[q], faults[q]>>
      BY <1>10 DEF ProcessorTypes, processorVars
    <3>2. Len(processorBox'[p]) = Len(processorBox[p]) + 1 /\ Len(processorBox[p]) \in Nat
      BY <1>10, <2>1 DEF ProcessorTypes
    <3>3. UNCHANGED <<readings[p], faults[p]>> /\ readings[p] \in Nat /\ faults[p] \in Nat
      BY <1>10 DEF ProcessorTypes, processorVars
    <3>4. Len(processorBox'[p]) + readings'[p] + faults'[p] = Len(processorBox[p]) + readings[p] + faults[p] + 1
      BY <3>2, <3>3
    <3>. QED
      BY <3>1, <3>4, ArrivedChanges DEF P
  <2>. QED
    BY <1>0, <1>4, <2>2, <2>3, <2>4
<1>11. DispatchDataLoadBalancer \/ DispatchDataRoundRobin =>
         \E p \in Processors : /\ box # <<>> /\ Head(box).type = "TemperatureMsg" /\ box' = Tail(box)
                               /\ processorBox' = [processorBox EXCEPT ![p] = Append(@, Head(box))]
                               /\ UNCHANGED <<generated, sensorVars, processorVars>>
  BY DEF DispatchDataLoadBalancer, DispatchDataRoundRobin, Candidates, LeastLoaded, Types
<1>12. ASSUME NEW p \in Processors, GotData(p) PROVE Accounted'
  <2>1. A' = A /\ generated' = generated /\ ToDispatch' = ToDispatch
    BY <1>1, <1>3, <1>12 DEF GotData, sensorVars
  <2>2. P' = P + 0
    <3>1. \A q \in Processors : q # p => UNCHANGED <<processorBox[q], readings[q], faults[q]>>
      BY <1>12 DEF ProcessorTypes, GotData
    <3>2. Len(processorBox'[p]) = Len(processorBox[p]) - 1 /\ Len(processorBox[p]) \in Nat
      BY <1>12 DEF ProcessorTypes, GotData
    <3>3. readings[p] \in Nat /\ faults[p] \in Nat
      BY DEF ProcessorTypes
    <3>4. readings'[p] + faults'[p] = readings[p] + faults[p] + 1 /\ readings'[p] \in Nat /\ faults'[p] \in Nat
      <4>1. \/ readings' = [readings EXCEPT ![p] = @ + 1] /\ UNCHANGED faults
            \/ faults' = [faults EXCEPT ![p] = @ + 1] /\ UNCHANGED readings
        BY <1>12 DEF GotData
      <4>. QED
        BY SMTT(60), <3>3, <4>1 DEF ProcessorTypes
    <3>5. Len(processorBox'[p]) + readings'[p] + faults'[p] = Len(processorBox[p]) + readings[p] + faults[p] + 0
      <4>1. \A l, m, a, b, c, d \in Int : l = m - 1 /\ a + b = c + d + 1 => l + a + b = m + c + d + 0
        OBVIOUS
      <4>2. PICK l, m, a, b, c, d : /\ l = Len(processorBox'[p]) /\ m = Len(processorBox[p])
                                    /\ a = readings'[p] /\ b = faults'[p] /\ c = readings[p] /\ d = faults[p]
        OBVIOUS
      <4>3. l \in Int /\ m \in Int /\ a \in Int /\ b \in Int /\ c \in Int /\ d \in Int
        BY <3>2, <3>3, <3>4, <4>2
      <4>4. l = m - 1 /\ a + b = c + d + 1
        BY <3>2, <3>4, <4>2
      <4>5. l + a + b = m + c + d + 0
        BY <4>1, <4>3, <4>4
      <4>. QED
        BY <4>2, <4>5
    <3>. QED
      BY <3>1, <3>5, ArrivedChanges DEF P
  <2>. QED
    BY <1>0, <1>4, <2>1, <2>2
<1>13. CASE UNCHANGED vars
  BY <1>0, <1>1, <1>2, <1>3, <1>4, <1>13 DEF vars, sensorVars, processorVars
<1>. QED
  BY <1>5, <1>6, <1>9, <1>10, <1>11, <1>12, <1>13 DEF Next, DispatcherStep

(***************************************************************************)
(* The average.                                                            *)
(***************************************************************************)

\* One reading more, of temperature u, with a smallest reading of t so far.
LEMMA AtLeast ==
  ASSUME NEW r \in Nat, NEW t \in Nat, NEW u \in Nat, NEW v \in Int, r * t <= v
  PROVE  (r + 1) * t <= v + u \/ (r + 1) * u <= v + u
<1>1. CASE t <= u
  <2>1. (r + 1) * t = r * t + t
    OBVIOUS
  <2>. QED
    BY <1>1, <2>1
<1>2. CASE u < t
  <2>1. (r + 1) * u = r * u + u /\ r * u <= r * t
    BY <1>2
  <2>. QED
    BY <2>1
<1>. QED
  BY <1>1, <1>2

LEMMA AtMost ==
  ASSUME NEW r \in Nat, NEW t \in Nat, NEW u \in Nat, NEW v \in Int, r * t >= v
  PROVE  (r + 1) * t >= v + u \/ (r + 1) * u >= v + u
<1>1. CASE t >= u
  <2>1. (r + 1) * t = r * t + t
    OBVIOUS
  <2>. QED
    BY <1>1, <2>1
<1>2. CASE u > t
  <2>1. (r + 1) * u = r * u + u /\ r * u >= r * t
    BY <1>2
  <2>. QED
    BY <2>1
<1>. QED
  BY <1>1, <1>2

LEMMA AverageStep ==
  ASSUME Types, ProcessorTypes, AverageInRange, [Next]_vars
  PROVE  AverageInRange'
<1>1. CASE UNCHANGED <<readings, total>>
  BY <1>1 DEF AverageInRange
<1>2. ASSUME NEW p \in Processors, GotData(p), ~ UNCHANGED <<readings, total>> PROVE AverageInRange'
  <2>1. PICK u, r, v : u = Head(processorBox[p]).temp /\ r = readings[p] /\ v = total[p]
    OBVIOUS
  <2>2. /\ Accepted(u)
        /\ total' = [total EXCEPT ![p] = @ + u]
        /\ readings' = [readings EXCEPT ![p] = @ + 1]
    BY <1>2, <2>1 DEF GotData
  <2>3. u \in Temps /\ u \in Nat
    <3>1. Head(processorBox[p]) \in TemperatureMsg
      BY <1>2 DEF ProcessorTypes, GotData
    <3>2. u \in Temps \cup {FaultTemp}
      BY <2>1, <3>1 DEF TemperatureMsg, AllTemps
    <3>3. u # FaultTemp
      BY <2>2, TempsAssumption DEF Accepted
    <3>. QED
      BY <3>2, <3>3, TempsAssumption
  <2>4. r \in Nat /\ v \in Int /\ readings'[p] = r + 1 /\ total'[p] = v + u
    BY <2>1, <2>2, <2>3 DEF ProcessorTypes
  <2>5. PICK t \in Temps : r * t <= v
    BY <2>1 DEF AverageInRange
  <2>6. PICK w \in Temps : r * w >= v
    BY <2>1 DEF AverageInRange
  <2>7. t \in Nat /\ w \in Nat
    BY <2>5, <2>6, TempsAssumption
  <2>8. \E x \in Temps : readings'[p] * x <= total'[p]
    <3>1. (r + 1) * t <= v + u \/ (r + 1) * u <= v + u
      BY <2>3, <2>4, <2>5, <2>7, AtLeast
    <3>. QED
      BY <2>3, <2>4, <2>5, <3>1
  <2>9. \E x \in Temps : readings'[p] * x >= total'[p]
    <3>1. (r + 1) * w >= v + u \/ (r + 1) * u >= v + u
      BY <2>3, <2>4, <2>6, <2>7, AtMost
    <3>. QED
      BY <2>3, <2>4, <2>6, <3>1
  <2>10. \A q \in Processors : q # p => UNCHANGED <<readings[q], total[q]>>
    BY <2>2 DEF ProcessorTypes
  <2>. QED
    BY <2>8, <2>9, <2>10 DEF AverageInRange
<1>3. ~ UNCHANGED <<readings, total>> => \E p \in Processors : GotData(p)
  BY DEF Next, Main, SensorStep, OnDispatcherRefMsg, OnGenerate, DispatcherStep, OnDispatchLogicMsg,
         DispatchDataLoadBalancer, DispatchDataRoundRobin, processorVars, vars
<1>. QED
  BY <1>1, <1>2, <1>3

ReadingsInv == Types /\ ProcessorTypes /\ RefsFirst /\ Accounted /\ AverageInRange

LEMMA ReadingsInitially == Init => ReadingsInv
<1> SUFFICES ASSUME Init PROVE ReadingsInv
  OBVIOUS
<1>1. Types
  BY InitTypes
<1>2. ProcessorTypes
  BY DEF Init, ProcessorTypes
<1>3. RefsFirst
  BY DEF Init, RefsFirst
<1>4. Accounted
  <2>1. \A s \in AllSensors : ToSense[s] = 0
    <3>1. \A s \in AllSensors : Where(sensorBox[s], {Generate}) = {}
      BY DEF Init, Where
    <3>. QED
      BY <3>1, FS_EmptySet DEF ToSense
  <2>2. ToDispatch = 0
    <3>1. Where(box, TemperatureMsg) = {}
      BY DEF Init, Where
    <3>. QED
      BY <3>1, FS_EmptySet DEF ToDispatch
  <2>3. \A p \in Processors : Arrived[p] = 0
    BY DEF Init, Arrived
  <2>4. SumFunctionOnSet(ToSense, AllSensors) = 0
    <3>1. PICK f : f = ToSense
      OBVIOUS
    <3>. QED
      BY <2>1, <3>1, SensorsAreFinite, SumZero
  <2>5. SumFunctionOnSet(Arrived, Processors) = 0
    <3>1. PICK f : f = Arrived
      OBVIOUS
    <3>. QED
      BY <2>3, <3>1, SensorsAreFinite, SumZero
  <2>. QED
    BY <2>2, <2>4, <2>5 DEF Init, Accounted
<1>5. AverageInRange
  <2>1. PICK t \in Temps : t \in Nat
    BY TempsAssumption
  <2>2. \A p \in Processors : readings[p] * t = 0 /\ total[p] = 0
    BY <2>1 DEF Init
  <2>. QED
    BY <2>1, <2>2 DEF AverageInRange
<1>. QED
  BY <1>1, <1>2, <1>3, <1>4, <1>5 DEF ReadingsInv

\* Whichever sleeps of main are too short, every message that makes a sensor generate is in
\* its mailbox, or a temperature in the dispatcher's, or one in a processor's, or handled
\* there, once; and what a processor has rejected is not in its average.
THEOREM ReadingsAreAccounted == McSpec => []ReadingsAccounted
<1>1. McInit => ReadingsInv
  BY ReadingsInitially DEF McInit
<1>2. ReadingsInv /\ [McNext]_allVars => ReadingsInv'
  <2> SUFFICES ASSUME ReadingsInv, [McNext]_allVars PROVE ReadingsInv'
    OBVIOUS
  <2>1. [Next]_vars
    BY Projection
  <2>2. Types' /\ ProcessorTypes'
    BY <2>1, TypesStep, ProcessorTypesStep DEF ReadingsInv
  <2>. QED
    BY <2>1, <2>2, RefsFirstStep, AccountedStep, AverageStep DEF ReadingsInv
<1>3. ReadingsInv => ReadingsAccounted
  BY AccountedMeans DEF ReadingsInv, ReadingsAccounted
<1>. QED
  BY <1>1, <1>2, <1>3, PTL DEF McSpec

(***************************************************************************)
(* The stashing counter: what it counts, and what it has still to hear of, *)
(* is what the threads have taken.                                         *)
(***************************************************************************)

Ups   == Cardinality(Where(waiting, {Up})) + Cardinality({k \in taken : k % 2 = 1})
Downs == Cardinality(Where(waiting, {Down})) + Cardinality({k \in taken : k % 2 = 0})

CounterInv ==
  /\ CounterTypeOK /\ submitted <= 2 * numMessages
  /\ \A k \in taken : k <= submitted
  /\ StashedOnlyAtZero
  /\ (counter - stashed) + (Ups - Downs) = submitted % 2

LEMMA OneMore ==
  ASSUME NEW S, IsFiniteSet(S), NEW x, x \notin S
  PROVE  \A T : T = S \cup {x} => Cardinality(T) = Cardinality(S) + 1
BY FS_AddElement

LEMMA OneLess ==
  ASSUME NEW S, IsFiniteSet(S), NEW x \in S
  PROVE  \A T : T = S \ {x} => Cardinality(T) = Cardinality(S) - 1
BY FS_RemoveElement

LEMMA PartsAreFinite ==
  ASSUME CounterInv, NEW r
  PROVE  /\ IsFiniteSet(taken) /\ IsFiniteSet({k \in taken : k % 2 = r})
         /\ Cardinality({k \in taken : k % 2 = r}) \in Nat
<1>1. taken \subseteq 0 .. submitted /\ submitted \in Nat
  BY DEF CounterInv, CounterTypeOK
<1>2. IsFiniteSet(0 .. submitted)
  BY <1>1, FS_Interval
<1>3. IsFiniteSet(taken)
  BY <1>1, <1>2, FS_Subset
<1>4. IsFiniteSet({k \in taken : k % 2 = r})
  BY <1>3, FS_Subset
<1>. QED
  BY <1>3, <1>4, FS_CardinalityType

LEMMA CounterInitially == CounterInit => CounterInv
<1> SUFFICES ASSUME CounterInit PROVE CounterInv
  OBVIOUS
<1>1. \A M : Where(waiting, M) = {}
  BY DEF CounterInit, Where
<1>2. {k \in taken : k % 2 = 0} = {} /\ {k \in taken : k % 2 = 1} = {}
  BY DEF CounterInit
<1>3. Ups = 0 /\ Downs = 0
  <2>1. Cardinality({}) = 0
    BY FS_EmptySet
  <2>. QED
    <3>1. Where(waiting, {Up}) = {} /\ Where(waiting, {Down}) = {}
      BY <1>1
    <3>2. Cardinality(Where(waiting, {Up})) = 0 /\ Cardinality(Where(waiting, {Down})) = 0
      BY <2>1, <3>1
    <3>3. Cardinality({k \in taken : k % 2 = 1}) = 0 /\ Cardinality({k \in taken : k % 2 = 0}) = 0
      BY <1>2, <2>1
    <3>. QED
      BY <3>2, <3>3 DEF Ups, Downs
<1>4. submitted % 2 = 0 /\ counter = 0 /\ stashed = 0 /\ taken = {} /\ waiting = <<>> /\ submitted = 0
  BY DEF CounterInit
<1>. QED
  BY <1>3, <1>4, StashCounterAssumption DEF CounterInv, CounterTypeOK, StashedOnlyAtZero

LEMMA CounterStep ==
  ASSUME CounterInv, [CounterNext]_counterVars
  PROVE  CounterInv'
<1> USE DEF CounterTypeOK
<1>1. PICK u \in Nat, d \in Nat, o \in Nat, e \in Nat :
        /\ u = Cardinality(Where(waiting, {Up})) /\ d = Cardinality(Where(waiting, {Down}))
        /\ o = Cardinality({k \in taken : k % 2 = 1}) /\ e = Cardinality({k \in taken : k % 2 = 0})
  <2>1. waiting \in Seq({Up, Down})
    BY DEF CounterInv
  <2>2. Cardinality(Where(waiting, {Up})) \in Nat /\ Cardinality(Where(waiting, {Down})) \in Nat
    BY <2>1, WhereIsFinite
  <2>. QED
    BY <2>2, PartsAreFinite
<1>2. (counter - stashed) + ((u + o) - (d + e)) = submitted % 2
  BY <1>1 DEF CounterInv, Ups, Downs
<1>3. submitted \in Nat /\ counter \in Nat /\ stashed \in Nat /\ waiting \in Seq({Up, Down}) /\ Up # Down
  BY DEF CounterInv, Up, Down
<1>4. CASE Take
  <2>1. PICK n \in Nat : n = submitted + 1
    BY <1>3
  <2>2. submitted' = n /\ taken' = taken \cup {n} /\ n \notin taken /\ n <= 2 * numMessages
    BY <1>4, <2>1, StashCounterAssumption DEF Take, CounterInv
  <2>3. n % 2 = 1 - (submitted % 2) /\ (n % 2 = 0 \/ n % 2 = 1)
    BY <1>3, <2>1
  <2>4. CASE n % 2 = 1
    <3>1. {k \in taken' : k % 2 = 1} = {k \in taken : k % 2 = 1} \cup {n} /\ {k \in taken' : k % 2 = 0} = {k \in taken : k % 2 = 0}
      BY <2>2, <2>4
    <3>2. n \notin {k \in taken : k % 2 = 1}
      BY <2>2
    <3>3. Cardinality({k \in taken' : k % 2 = 1}) = o + 1 /\ Cardinality({k \in taken' : k % 2 = 0}) = e
      BY <1>1, <3>1, <3>2, PartsAreFinite, OneMore, ZenonT(100)
    <3>4. Ups' = u + (o + 1) /\ Downs' = d + e
      BY <1>1, <1>4, <3>3 DEF Ups, Downs, Take
    <3>5. submitted' % 2 = 1 /\ submitted % 2 = 0
      BY <1>3, <2>2, <2>3, <2>4
    <3>6. (counter' - stashed') + (Ups' - Downs') = submitted' % 2
      BY <1>2, <1>3, <1>4, <3>4, <3>5 DEF Take
    <3>. QED
      BY <1>3, <1>4, <2>1, <2>2, <3>6 DEF Take, CounterInv, StashedOnlyAtZero
  <2>5. CASE n % 2 = 0
    <3>1. {k \in taken' : k % 2 = 0} = {k \in taken : k % 2 = 0} \cup {n} /\ {k \in taken' : k % 2 = 1} = {k \in taken : k % 2 = 1}
      BY <2>2, <2>5
    <3>2. n \notin {k \in taken : k % 2 = 0}
      BY <2>2
    <3>3. Cardinality({k \in taken' : k % 2 = 0}) = e + 1 /\ Cardinality({k \in taken' : k % 2 = 1}) = o
      BY <1>1, <3>1, <3>2, PartsAreFinite, OneMore, ZenonT(100)
    <3>4. Ups' = u + o /\ Downs' = d + (e + 1)
      BY <1>1, <1>4, <3>3 DEF Ups, Downs, Take
    <3>5. submitted' % 2 = 0 /\ submitted % 2 = 1
      BY <1>3, <2>2, <2>3, <2>5
    <3>6. (counter' - stashed') + (Ups' - Downs') = submitted' % 2
      BY <1>2, <1>3, <1>4, <3>4, <3>5 DEF Take
    <3>. QED
      BY <1>3, <1>4, <2>1, <2>2, <3>6 DEF Take, CounterInv, StashedOnlyAtZero
  <2>. QED
    BY <2>3, <2>4, <2>5
<1>5. ASSUME NEW k \in taken, TellCounter(k) PROVE CounterInv'
  <2>1. k \in Nat /\ taken' = taken \ {k} /\ waiting' = Append(waiting, Task(k)) /\ Task(k) \in {Up, Down}
    BY <1>5 DEF TellCounter, CounterInv, Task
  <2>2. waiting' \in Seq({Up, Down}) /\ waiting' # <<>> /\ (waiting # <<>> => Head(waiting') = Head(waiting))
    BY <1>3, <2>1
  <2>3. /\ Cardinality(Where(waiting', {Up})) = u + IF Task(k) \in {Up} THEN 1 ELSE 0
        /\ Cardinality(Where(waiting', {Down})) = d + IF Task(k) \in {Down} THEN 1 ELSE 0
    BY <1>1, <1>3, <2>1, WhereAppend, SMTT(60)
  <2>4. k % 2 = 0 \/ k % 2 = 1
    BY <2>1
  <2>5. CASE k % 2 = 1
    <3>1. {j \in taken' : j % 2 = 1} = {j \in taken : j % 2 = 1} \ {k} /\ {j \in taken' : j % 2 = 0} = {j \in taken : j % 2 = 0}
      BY <2>1, <2>5
    <3>2. k \in {j \in taken : j % 2 = 1}
      BY <2>5
    <3>3. Cardinality({j \in taken' : j % 2 = 1}) = o - 1 /\ Cardinality({j \in taken' : j % 2 = 0}) = e
      BY <1>1, <3>1, <3>2, PartsAreFinite, OneLess, ZenonT(100)
    <3>4. Cardinality(Where(waiting', {Up})) = u + 1 /\ Cardinality(Where(waiting', {Down})) = d
      BY <1>3, <2>3, <2>5 DEF Task
    <3>5. Ups' = (u + 1) + (o - 1) /\ Downs' = d + e
      BY <3>3, <3>4 DEF Ups, Downs
    <3>6. (counter' - stashed') + (Ups' - Downs') = submitted' % 2
      BY <1>2, <1>3, <1>5, <3>5 DEF TellCounter
    <3>. QED
      BY <1>3, <1>5, <2>1, <2>2, <3>6 DEF TellCounter, CounterInv, StashedOnlyAtZero
  <2>6. CASE k % 2 = 0
    <3>1. {j \in taken' : j % 2 = 0} = {j \in taken : j % 2 = 0} \ {k} /\ {j \in taken' : j % 2 = 1} = {j \in taken : j % 2 = 1}
      BY <2>1, <2>6
    <3>2. k \in {j \in taken : j % 2 = 0}
      BY <2>6
    <3>3. Cardinality({j \in taken' : j % 2 = 0}) = e - 1 /\ Cardinality({j \in taken' : j % 2 = 1}) = o
      BY <1>1, <3>1, <3>2, PartsAreFinite, OneLess, ZenonT(100)
    <3>4. Cardinality(Where(waiting', {Up})) = u /\ Cardinality(Where(waiting', {Down})) = d + 1
      BY <1>3, <2>3, <2>6 DEF Task
    <3>5. Ups' = u + o /\ Downs' = (d + 1) + (e - 1)
      BY <3>3, <3>4 DEF Ups, Downs
    <3>6. (counter' - stashed') + (Ups' - Downs') = submitted' % 2
      BY <1>2, <1>3, <1>5, <3>5 DEF TellCounter
    <3>. QED
      BY <1>3, <1>5, <2>1, <2>2, <3>6 DEF TellCounter, CounterInv, StashedOnlyAtZero
  <2>. QED
    BY <2>4, <2>5, <2>6
<1>6. ASSUME waiting # <<>>
      PROVE  /\ Head(waiting) \in {Up, Down} /\ Tail(waiting) \in Seq({Up, Down})
             /\ u = Cardinality(Where(Tail(waiting), {Up})) + IF Head(waiting) \in {Up} THEN 1 ELSE 0
             /\ d = Cardinality(Where(Tail(waiting), {Down})) + IF Head(waiting) \in {Down} THEN 1 ELSE 0
             /\ Cardinality(Where(Tail(waiting), {Up})) \in Nat /\ Cardinality(Where(Tail(waiting), {Down})) \in Nat
  <2>1. Head(waiting) \in {Up, Down} /\ Tail(waiting) \in Seq({Up, Down})
    BY <1>3, <1>6
  <2>2. Cardinality(Where(Tail(waiting), {Up})) \in Nat /\ Cardinality(Where(Tail(waiting), {Down})) \in Nat
    BY <2>1, WhereIsFinite
  <2>3. /\ u = Cardinality(Where(Tail(waiting), {Up})) + IF Head(waiting) \in {Up} THEN 1 ELSE 0
        /\ d = Cardinality(Where(Tail(waiting), {Down})) + IF Head(waiting) \in {Down} THEN 1 ELSE 0
    BY <1>1, <1>3, <1>6, WhereTail
  <2>. QED
    BY <2>1, <2>2, <2>3
<1>7. CASE onDecrementMessage
  <2>1. waiting # <<>> /\ Head(waiting) = Down /\ waiting' = Tail(waiting)
    BY <1>7 DEF onDecrementMessage
  <2>2. Cardinality(Where(waiting', {Up})) = u /\ Cardinality(Where(waiting', {Down})) = d - 1 /\ waiting' \in Seq({Up, Down})
    BY <1>3, <1>6, <2>1, SMTT(60)
  <2>3. Ups' = u + o /\ Downs' = (d - 1) + e
    BY <1>1, <1>7, <2>2 DEF Ups, Downs, onDecrementMessage
  <2>4. CASE counter = 0
    <3>1. counter' = 0 /\ stashed' = stashed + 1
      BY <1>7, <2>4 DEF onDecrementMessage
    <3>. QED
      BY <1>2, <1>3, <1>7, <2>2, <2>3, <2>4, <3>1 DEF onDecrementMessage, CounterInv, StashedOnlyAtZero
  <2>5. CASE counter > 0
    <3>1. counter' = counter - 1 /\ stashed' = stashed /\ counter' \in Nat
      BY <1>3, <1>7, <2>5 DEF onDecrementMessage
    <3>2. stashed > 0 => counter' = 0
      BY <1>3, <2>5, <3>1 DEF CounterInv, StashedOnlyAtZero
    <3>3. StashedOnlyAtZero'
      BY <3>1, <3>2 DEF StashedOnlyAtZero
    <3>. QED
      BY <1>2, <1>3, <1>7, <2>2, <2>3, <3>1, <3>3 DEF onDecrementMessage, CounterInv
  <2>. QED
    BY <1>3, <2>4, <2>5
<1>8. CASE onIncrementMessage
  <2>1. waiting # <<>> /\ Head(waiting) = Up /\ counter' = counter + 1
    BY <1>8 DEF onIncrementMessage
  <2>2. PICK t \in Seq({Up, Down}) : t = Tail(waiting)
    BY <1>6, <2>1
  <2>3. Cardinality(Where(t, {Up})) = u - 1 /\ Cardinality(Where(t, {Down})) = d
    BY <1>3, <1>6, <2>1, <2>2
  <2>4. CASE TakesOneBack
    <3>1. PICK s : s = <<Down>> \o t
      OBVIOUS
    <3>2. s \in Seq({Up, Down}) /\ s # <<>> /\ Head(s) = Down /\ Tail(s) = t
      BY <2>2, <3>1
    <3>3. Cardinality(Where(s, {Up})) = u - 1 /\ Cardinality(Where(s, {Down})) = d + 1
      <4>1. Cardinality(Where(s, {Up})) = Cardinality(Where(t, {Up})) + IF Down \in {Up} THEN 1 ELSE 0
        BY <3>2, WhereTail
      <4>2. Cardinality(Where(s, {Down})) = Cardinality(Where(t, {Down})) + IF Down \in {Down} THEN 1 ELSE 0
        BY <3>2, WhereTail
      <4>. QED
        BY <1>3, <2>3, <4>1, <4>2
    <3>4. waiting' = s /\ stashed' = stashed - 1 /\ stashed > 0
      BY <1>8, <2>2, <2>4, <3>1 DEF onIncrementMessage, TakesOneBack
    <3>5. Ups' = (u - 1) + o /\ Downs' = (d + 1) + e
      BY <1>1, <1>8, <3>3, <3>4 DEF Ups, Downs, onIncrementMessage
    <3>6. counter = 0
      BY <1>3, <2>1, <3>4 DEF CounterInv, StashedOnlyAtZero
    <3>7. StashedOnlyAtZero'
      BY <2>1, <3>2, <3>4, <3>6 DEF StashedOnlyAtZero
    <3>8. (counter' - stashed') + (Ups' - Downs') = submitted' % 2
      BY <1>2, <1>3, <1>8, <2>1, <3>4, <3>5 DEF onIncrementMessage
    <3>. QED
      BY <1>3, <1>8, <2>1, <3>2, <3>4, <3>7, <3>8 DEF onIncrementMessage, CounterInv
  <2>5. CASE ~ TakesOneBack
    <3>1. waiting' = t /\ stashed' = stashed /\ stashed = 0
      BY <1>3, <1>8, <2>2, <2>5 DEF onIncrementMessage, TakesOneBack
    <3>2. Ups' = (u - 1) + o /\ Downs' = d + e
      BY <1>1, <1>8, <2>3, <3>1 DEF Ups, Downs, onIncrementMessage
    <3>3. (counter' - stashed') + (Ups' - Downs') = submitted' % 2
      BY <1>2, <1>3, <1>8, <2>1, <3>1, <3>2 DEF onIncrementMessage
    <3>. QED
      BY <1>3, <1>8, <2>1, <2>2, <3>1, <3>3 DEF onIncrementMessage, CounterInv, StashedOnlyAtZero
  <2>. QED
    BY <2>4, <2>5
<1>9. CASE UNCHANGED counterVars
  BY <1>9 DEF counterVars, CounterInv, StashedOnlyAtZero, Ups, Downs
<1>. QED
  BY <1>4, <1>5, <1>7, <1>8, <1>9 DEF CounterNext

LEMMA CounterMeans == CounterInv => StashedOnlyAtZero /\ BackToZero
<1> SUFFICES ASSUME CounterInv, submitted = 2 * numMessages, taken = {}, waiting = <<>>
             PROVE  counter = 0 /\ stashed = 0
  BY DEF CounterInv, BackToZero
<1>1. Ups = 0 /\ Downs = 0
  <2>1. \A M : Where(waiting, M) = {}
    BY DEF Where
  <2>2. {k \in taken : k % 2 = 0} = {} /\ {k \in taken : k % 2 = 1} = {}
    OBVIOUS
  <2>3. Cardinality({}) = 0
    BY FS_EmptySet
  <2>. QED
    <3>1. Where(waiting, {Up}) = {} /\ Where(waiting, {Down}) = {}
      BY <2>1
    <3>2. Cardinality(Where(waiting, {Up})) = 0 /\ Cardinality(Where(waiting, {Down})) = 0
      BY <2>3, <3>1
    <3>3. Cardinality({k \in taken : k % 2 = 1}) = 0 /\ Cardinality({k \in taken : k % 2 = 0}) = 0
      BY <2>2, <2>3
    <3>. QED
      BY <3>2, <3>3 DEF Ups, Downs
<1>2. submitted % 2 = 0
  BY StashCounterAssumption
<1>3. counter \in Nat /\ stashed \in Nat /\ counter - stashed = 0
  BY <1>1, <1>2 DEF CounterInv, CounterTypeOK
<1>. QED
  BY <1>3 DEF CounterInv, StashedOnlyAtZero

(***************************************************************************)
(* The numbers that lie in a sequence.  `num' tells the number of those of *)
(* its elements that have one.                                             *)
(***************************************************************************)

\* They rise, from above lo to hi ...
Rises(seq, num, lo, hi) ==
  /\ \A i \in DOMAIN seq : seq[i] \in DOMAIN num => lo < num[seq[i]] /\ num[seq[i]] <= hi
  /\ \A i, j \in DOMAIN seq :
       i < j /\ seq[i] \in DOMAIN num /\ seq[j] \in DOMAIN num => num[seq[i]] < num[seq[j]]

\* ... and none is missing.
Full(seq, num, lo, hi) ==
  /\ lo <= hi
  /\ Rises(seq, num, lo, hi)
  /\ \A n \in Int : lo < n /\ n <= hi => \E i \in DOMAIN seq : seq[i] \in DOMAIN num /\ num[seq[i]] = n

LEMMA TailFacts ==
  ASSUME NEW S, NEW seq \in Seq(S), seq # <<>>
  PROVE  /\ Tail(seq) \in Seq(S) /\ Head(seq) = seq[1] /\ 1 \in DOMAIN seq
         /\ \A i \in DOMAIN Tail(seq) : i + 1 \in DOMAIN seq /\ Tail(seq)[i] = seq[i + 1] /\ i \in Int /\ i >= 1
         /\ \A i \in DOMAIN seq : i \in Int /\ i >= 1 /\ (i # 1 => i - 1 \in DOMAIN Tail(seq) /\ Tail(seq)[i - 1] = seq[i])
<1>1. Len(seq) \in Nat /\ Len(seq) >= 1 /\ Len(Tail(seq)) = Len(seq) - 1
  OBVIOUS
<1>2. DOMAIN seq = 1 .. Len(seq) /\ DOMAIN Tail(seq) = 1 .. Len(seq) - 1
  BY <1>1
<1>3. \A i \in 1 .. Len(seq) - 1 : Tail(seq)[i] = seq[i + 1]
  BY <1>1
<1>4. ASSUME NEW i \in DOMAIN seq, i # 1 PROVE i - 1 \in DOMAIN Tail(seq) /\ Tail(seq)[i - 1] = seq[i]
  <2>1. PICK k \in Int : k = i - 1
    BY <1>2
  <2>2. k \in 1 .. Len(seq) - 1 /\ k + 1 = i
    BY <1>1, <1>2, <1>4, <2>1
  <2>. QED
    BY <1>2, <1>3, <2>1, <2>2
<1>. QED
  BY <1>1, <1>2, <1>3, <1>4

LEMMA AppendFacts ==
  ASSUME NEW S, NEW seq \in Seq(S), NEW x \in S
  PROVE  /\ Append(seq, x) \in Seq(S) /\ Append(seq, x) # <<>>
         /\ \A i \in DOMAIN seq : i \in DOMAIN Append(seq, x) /\ Append(seq, x)[i] = seq[i]
         /\ \E n \in DOMAIN Append(seq, x) :
              /\ n \in Int /\ Append(seq, x)[n] = x
              /\ \A i \in DOMAIN Append(seq, x) : i \in Int /\ (i = n \/ (i \in DOMAIN seq /\ i < n))
<1>1. PICK t : t = Append(seq, x)
  OBVIOUS
<1>2. PICK m \in Nat : m = Len(seq)
  OBVIOUS
<1>3. PICK n \in Int : n = m + 1
  OBVIOUS
<1>4. t \in Seq(S) /\ t # <<>> /\ DOMAIN seq = 1 .. m /\ DOMAIN t = 1 .. n /\ t[n] = x
  BY <1>1, <1>2, <1>3
<1>5. \A i \in 1 .. m : i \in DOMAIN t /\ t[i] = seq[i]
  BY <1>1, <1>2, <1>3, <1>4
<1>6. \A i \in 1 .. n : i \in Int /\ (i = n \/ (i \in 1 .. m /\ i < n))
  BY <1>3
<1>7. n \in 1 .. n
  BY <1>2, <1>3
<1>. QED
  BY <1>1, <1>4, <1>5, <1>6, <1>7

LEMMA RisesTail ==
  ASSUME NEW S, NEW seq \in Seq(S), seq # <<>>, NEW num, NEW lo, NEW hi, Rises(seq, num, lo, hi)
  PROVE  Rises(Tail(seq), num, lo, hi)
<1>1. PICK t : t = Tail(seq)
  OBVIOUS
<1>2. \A i \in DOMAIN t : i + 1 \in DOMAIN seq /\ t[i] = seq[i + 1] /\ i \in Int
  BY <1>1, TailFacts
<1>3. \A i, j \in DOMAIN t : i < j => i + 1 < j + 1
  BY <1>2
<1>. QED
  BY <1>1, <1>2, <1>3 DEF Rises

LEMMA RisesTailNumber ==
  ASSUME NEW S, NEW seq \in Seq(S), seq # <<>>, NEW num, NEW lo, NEW hi, Rises(seq, num, lo, hi),
         Head(seq) \in DOMAIN num
  PROVE  /\ lo < num[Head(seq)] /\ num[Head(seq)] <= hi
         /\ Rises(Tail(seq), num, num[Head(seq)], hi)
<1>1. PICK t, h : t = Tail(seq) /\ h = Head(seq)
  OBVIOUS
<1>2. /\ 1 \in DOMAIN seq /\ h = seq[1]
      /\ \A i \in DOMAIN t : i + 1 \in DOMAIN seq /\ t[i] = seq[i + 1] /\ i \in Int /\ 1 < i + 1
  <2>1. \A i \in Int : i >= 1 => 1 < i + 1
    OBVIOUS
  <2>. QED
    BY <1>1, <2>1, TailFacts
<1>3. Rises(t, num, lo, hi)
  BY <1>1, RisesTail
<1>4. \A i \in DOMAIN t : t[i] \in DOMAIN num => num[h] < num[t[i]]
  BY <1>1, <1>2 DEF Rises
<1>. QED
  BY <1>1, <1>2, <1>3, <1>4 DEF Rises

LEMMA RisesAppend ==
  ASSUME NEW S, NEW seq \in Seq(S), NEW x \in S, NEW num, NEW lo, NEW hi, Rises(seq, num, lo, hi),
         x \notin DOMAIN num
  PROVE  Rises(Append(seq, x), num, lo, hi)
<1>1. PICK t : t = Append(seq, x)
  OBVIOUS
<1>2. \A i \in DOMAIN t : t[i] \in DOMAIN num => i \in DOMAIN seq /\ t[i] = seq[i]
  BY <1>1, AppendFacts
<1>. QED
  BY <1>1, <1>2 DEF Rises

LEMMA RisesAppendNumber ==
  ASSUME NEW S, NEW seq \in Seq(S), NEW x \in S, NEW num, NEW lo \in Int, NEW hi \in Int, Rises(seq, num, lo, hi),
         \A y \in DOMAIN num : num[y] \in Int,
         x \in DOMAIN num, lo <= hi, hi < num[x]
  PROVE  Rises(Append(seq, x), num, lo, num[x])
<1>1. PICK t : t = Append(seq, x)
  OBVIOUS
<1> DEFINE v == num[x]
<1>2. PICK n \in Int : /\ n \in DOMAIN t /\ t[n] = x
                       /\ \A i \in DOMAIN t : i \in Int /\ (i = n \/ (i \in DOMAIN seq /\ i < n))
  BY <1>1, AppendFacts
<1>3. \A i \in DOMAIN seq : i \in DOMAIN t /\ t[i] = seq[i]
  BY <1>1, AppendFacts
<1>4. \A i \in DOMAIN seq : seq[i] \in DOMAIN num => lo < num[seq[i]] /\ num[seq[i]] <= hi /\ num[seq[i]] \in Int
  BY DEF Rises
<1>5. ASSUME NEW i \in DOMAIN t, t[i] \in DOMAIN num PROVE lo < num[t[i]] /\ num[t[i]] <= v
  BY <1>1, <1>2, <1>3, <1>4, <1>5
<1>6. ASSUME NEW i \in DOMAIN t, NEW j \in DOMAIN t, i < j, t[i] \in DOMAIN num, t[j] \in DOMAIN num
      PROVE num[t[i]] < num[t[j]]
  <2>1. i \in DOMAIN seq /\ t[i] = seq[i]
    BY <1>2, <1>3, <1>6
  <2>2. CASE j = n
    BY <1>1, <1>2, <1>4, <1>6, <2>1, <2>2
  <2>3. CASE j \in DOMAIN seq
    BY <1>3, <1>6, <2>1, <2>3 DEF Rises
  <2>. QED
    BY <1>2, <2>2, <2>3
<1>. QED
  BY <1>1, <1>5, <1>6 DEF Rises

LEMMA FullTail ==
  ASSUME NEW S, NEW seq \in Seq(S), seq # <<>>, NEW num, NEW lo \in Int, NEW hi \in Int, Full(seq, num, lo, hi),
         Head(seq) \notin DOMAIN num
  PROVE  Full(Tail(seq), num, lo, hi)
<1>1. PICK t : t = Tail(seq)
  OBVIOUS
<1>2. Rises(t, num, lo, hi)
  BY <1>1, RisesTail DEF Full
<1>3. \A i \in DOMAIN seq : seq[i] \in DOMAIN num => \E j \in DOMAIN t : t[j] = seq[i]
  BY <1>1, TailFacts, ZenonT(100)
<1>4. ASSUME NEW n \in Int, lo < n, n <= hi PROVE \E i \in DOMAIN t : t[i] \in DOMAIN num /\ num[t[i]] = n
  <2>1. PICK i \in DOMAIN seq : seq[i] \in DOMAIN num /\ num[seq[i]] = n
    BY <1>4 DEF Full
  <2>. QED
    BY <1>3, <2>1
<1>. QED
  BY <1>1, <1>2, <1>4 DEF Full

LEMMA FullTailNumber ==
  ASSUME NEW S, NEW seq \in Seq(S), seq # <<>>, NEW num, NEW lo \in Int, NEW hi \in Int, Full(seq, num, lo, hi),
         \A y \in DOMAIN num : num[y] \in Int,
         Head(seq) \in DOMAIN num
  PROVE  /\ num[Head(seq)] = lo + 1 /\ lo + 1 <= hi
         /\ Full(Tail(seq), num, num[Head(seq)], hi)
<1>1. PICK t, h : t = Tail(seq) /\ h = Head(seq)
  OBVIOUS
<1>2. PICK v \in Int, m \in Int : v = num[h] /\ m = lo + 1
  BY <1>1
<1>3. lo < v /\ v <= hi /\ Rises(t, num, v, hi)
  BY <1>1, <1>2, RisesTailNumber DEF Full
<1>4. \A i \in DOMAIN seq : i = 1 \/ (i - 1 \in DOMAIN t /\ t[i - 1] = seq[i])
  BY <1>1, TailFacts
<1>5. h = seq[1] /\ 1 \in DOMAIN seq
  BY <1>1, TailFacts
<1>6. v = m
  <2>1. SUFFICES ASSUME m < v PROVE FALSE
    BY <1>2, <1>3
  <2>2. lo < m /\ m <= hi
    BY <1>2, <1>3, <2>1
  <2>3. PICK i \in DOMAIN seq : seq[i] \in DOMAIN num /\ num[seq[i]] = m
    BY <2>2 DEF Full
  <2>4. i # 1
    BY <1>2, <1>5, <2>1, <2>3
  <2>5. PICK k \in DOMAIN t : t[k] = seq[i]
    BY <1>4, <2>4
  <2>. QED
    BY <1>2, <1>3, <2>1, <2>3, <2>5 DEF Rises
<1>7. ASSUME NEW n \in Int, m < n, n <= hi PROVE \E i \in DOMAIN t : t[i] \in DOMAIN num /\ num[t[i]] = n
  <2>1. lo < n
    BY <1>2, <1>7
  <2>2. PICK i \in DOMAIN seq : seq[i] \in DOMAIN num /\ num[seq[i]] = n
    BY <1>7, <2>1 DEF Full
  <2>3. i # 1
    BY <1>2, <1>5, <1>6, <1>7, <2>2
  <2>. QED
    BY <1>4, <2>2, <2>3
<1>8. Full(t, num, m, hi)
  BY <1>3, <1>6, <1>7 DEF Full
<1>. QED
  BY <1>1, <1>2, <1>3, <1>6, <1>8

LEMMA FullAppend ==
  ASSUME NEW S, NEW seq \in Seq(S), NEW x \in S, NEW num, NEW lo \in Int, NEW hi \in Int, Full(seq, num, lo, hi),
         x \notin DOMAIN num
  PROVE  Full(Append(seq, x), num, lo, hi)
<1>1. PICK t : t = Append(seq, x)
  OBVIOUS
<1>2. Rises(t, num, lo, hi)
  BY <1>1, RisesAppend DEF Full
<1>3. \A i \in DOMAIN seq : i \in DOMAIN t /\ t[i] = seq[i]
  BY <1>1, AppendFacts
<1>. QED
  BY <1>1, <1>2, <1>3 DEF Full

LEMMA FullAppendNumber ==
  ASSUME NEW S, NEW seq \in Seq(S), NEW x \in S, NEW num, NEW lo \in Int, NEW hi \in Int, Full(seq, num, lo, hi),
         \A y \in DOMAIN num : num[y] \in Int,
         x \in DOMAIN num, num[x] = hi + 1
  PROVE  Full(Append(seq, x), num, lo, num[x])
<1>1. PICK v \in Int : v = hi + 1
  OBVIOUS
<1>. PICK t : t = Append(seq, x)
  OBVIOUS
<1>2. Rises(t, num, lo, v)
  <2>1. lo <= hi /\ hi < num[x]
    BY DEF Full
  <2>2. Rises(seq, num, lo, hi)
    BY DEF Full
  <2>3. Rises(Append(seq, x), num, lo, num[x])
    BY <2>1, <2>2, RisesAppendNumber
  <2>. QED
    BY <1>1, <2>3
<1>3. \A i \in DOMAIN seq : i \in DOMAIN t /\ t[i] = seq[i]
  BY <1>1, AppendFacts
<1>4. \E i \in DOMAIN t : t[i] = x
  BY <1>1, AppendFacts
<1>5. \A n \in Int : lo < n /\ n <= v => n = v \/ n <= hi
  BY <1>1
<1>6. ASSUME NEW n \in Int, lo < n, n <= v PROVE \E i \in DOMAIN t : t[i] \in DOMAIN num /\ num[t[i]] = n
  <2>1. CASE n = v
    BY <1>1, <1>4, <2>1
  <2>2. CASE n <= hi
    BY SMTT(60), <1>3, <1>6, <2>2 DEF Full
  <2>. QED
    BY <1>5, <1>6, <2>1, <2>2
<1>7. lo <= v
  BY <1>1 DEF Full
<1>. QED
  BY <1>1, <1>2, <1>6, <1>7 DEF Full

LEMMA FullEmpty ==
  ASSUME NEW num, NEW lo \in Int, NEW hi \in Int
  PROVE  Full(<<>>, num, lo, hi) <=> lo = hi
<1>1. DOMAIN <<>> = {}
  OBVIOUS
<1>2. Full(<<>>, num, lo, hi) => lo = hi
  <2>1. SUFFICES ASSUME lo < hi, Full(<<>>, num, lo, hi) PROVE FALSE
    BY DEF Full
  <2>. QED
    BY <1>1, <2>1 DEF Full
<1>3. lo = hi => Full(<<>>, num, lo, hi)
  BY <1>1 DEF Full, Rises
<1>. QED
  BY <1>2, <1>3

\* The positions of s \o t: those of s, then those of t.
LEMMA ConcatFacts ==
  ASSUME NEW S, NEW s \in Seq(S), NEW t \in Seq(S)
  PROVE  /\ s \o t \in Seq(S) /\ Len(s) \in Nat
         /\ \A i \in DOMAIN s : i \in Int /\ i \in DOMAIN (s \o t) /\ (s \o t)[i] = s[i] /\ i <= Len(s)
         /\ \A i \in DOMAIN t : i \in Int /\ i >= 1 /\ i + Len(s) \in DOMAIN (s \o t) /\ (s \o t)[i + Len(s)] = t[i]
         /\ \A i \in DOMAIN (s \o t) :
              i \in Int /\ (i \in DOMAIN s \/ \E j \in DOMAIN t : j \in Int /\ i = j + Len(s))
<1>1. PICK u : u = s \o t
  OBVIOUS
<1>2. PICK m \in Nat, n \in Nat : m = Len(s) /\ n = Len(t)
  OBVIOUS
<1>3. /\ u \in Seq(S) /\ DOMAIN s = 1 .. m /\ DOMAIN t = 1 .. n /\ DOMAIN u = 1 .. m + n
      /\ \A i \in 1 .. m : u[i] = s[i]
      /\ \A i \in 1 .. n : u[m + i] = t[i]
  <2>1. u \in Seq(S) /\ Len(u) = m + n
    BY <1>1, <1>2
  <2>2. \A i \in 1 .. Len(s) + Len(t) : u[i] = IF i <= Len(s) THEN s[i] ELSE t[i - Len(s)]
    BY <1>1, <1>2
  <2>3. \A i \in 1 .. n : m + i \in 1 .. m + n /\ ~ (m + i <= m) /\ (m + i) - m = i
    BY <1>2
  <2>4. \A i \in 1 .. n : u[m + i] = t[i]
    BY <1>2, <2>2, <2>3, SMTT(60)
  <2>5. \A i \in 1 .. m : i \in 1 .. m + n /\ i <= m
    BY <1>2
  <2>6. \A i \in 1 .. m : u[i] = s[i]
    BY <1>2, <2>2, <2>5
  <2>. QED
    BY <1>2, <2>1, <2>4, <2>6
<1>4. ASSUME NEW i \in 1 .. n PROVE i \in Int /\ i >= 1 /\ i + m \in 1 .. m + n /\ u[i + m] = t[i]
  <2>1. i + m = m + i /\ m + i \in 1 .. m + n
    BY <1>2
  <2>. QED
    BY <1>3, <2>1
<1>5. \A i \in 1 .. m : i \in Int /\ i \in 1 .. m + n /\ i <= m
  BY <1>2
<1>6. ASSUME NEW i \in 1 .. m + n PROVE i \in Int /\ (i \in 1 .. m \/ \E j \in 1 .. n : j \in Int /\ i = j + m)
  <2>1. CASE i <= m
    BY <1>2, <2>1
  <2>2. CASE i > m
    <3>1. PICK j \in Int : j = i - m
      BY <1>2
    <3>2. j \in 1 .. n /\ i = j + m
      BY <1>2, <2>2, <3>1
    <3>. QED
      BY <3>2
  <2>. QED
    BY <1>2, <2>1, <2>2
<1>. QED
  BY ZenonT(100), <1>1, <1>2, <1>3, <1>4, <1>5, <1>6

LEMMA RisesConcat ==
  ASSUME NEW S, NEW s \in Seq(S), NEW t \in Seq(S), NEW num, NEW lo \in Int, NEW mid \in Int, NEW hi \in Int,
         \A y \in DOMAIN num : num[y] \in Int,
         lo <= mid, mid <= hi, Rises(s, num, lo, mid), Rises(t, num, mid, hi)
  PROVE  Rises(s \o t, num, lo, hi)
<1>1. PICK u : u = s \o t
  OBVIOUS
<1>2. PICK m \in Nat : m = Len(s)
  OBVIOUS
<1>3. /\ \A i \in DOMAIN s : i \in Int /\ u[i] = s[i] /\ i <= m
      /\ \A i \in DOMAIN t : i \in Int /\ i >= 1 /\ u[i + m] = t[i]
      /\ \A i \in DOMAIN u : i \in Int /\ (i \in DOMAIN s \/ \E j \in DOMAIN t : j \in Int /\ i = j + m)
  BY SMTT(60), <1>1, <1>2, ConcatFacts
<1>4. \A i \in DOMAIN s : s[i] \in DOMAIN num => lo < num[s[i]] /\ num[s[i]] <= mid
  BY DEF Rises
<1>5. \A i \in DOMAIN t : t[i] \in DOMAIN num => mid < num[t[i]] /\ num[t[i]] <= hi
  BY DEF Rises
<1>6. ASSUME NEW i \in DOMAIN u, u[i] \in DOMAIN num PROVE lo < num[u[i]] /\ num[u[i]] <= hi
  <2>1. PICK n \in Int : n = num[u[i]]
    BY <1>6
  <2>2. (lo < n /\ n <= mid) \/ (mid < n /\ n <= hi)
    BY <1>3, <1>4, <1>5, <1>6, <2>1, SMTT(60)
  <2>. QED
    BY <2>1, <2>2
<1>7. ASSUME NEW i \in DOMAIN u, NEW j \in DOMAIN u, i < j, u[i] \in DOMAIN num, u[j] \in DOMAIN num
      PROVE num[u[i]] < num[u[j]]
  <2>1. PICK v \in Int : v = num[u[i]]
    BY <1>7
  <2>2. PICK w \in Int : w = num[u[j]]
    BY <1>7
  <2>3. CASE i \in DOMAIN s
    <3>1. u[i] = s[i] /\ v <= mid
      BY <1>3, <1>4, <1>7, <2>1, <2>3
    <3>2. CASE j \in DOMAIN s
      BY <1>3, <1>7, <2>3, <3>1, <3>2 DEF Rises
    <3>3. CASE \E k \in DOMAIN t : k \in Int /\ j = k + m
      <4>1. mid < w
        BY <1>3, <1>5, <1>7, <2>2, <3>3
      <4>. QED
        BY <2>1, <2>2, <3>1, <4>1
    <3>. QED
      BY <1>3, <3>2, <3>3
  <2>4. CASE \E k \in DOMAIN t : k \in Int /\ i = k + m
    <3>1. PICK k \in DOMAIN t : k \in Int /\ k >= 1 /\ i = k + m /\ u[i] = t[k]
      BY <1>3, <2>4
    <3>2. j \notin DOMAIN s
      BY <1>3, <1>7, <3>1, SMTT(60)
    <3>3. PICK l \in DOMAIN t : l \in Int /\ j = l + m /\ u[j] = t[l]
      BY <1>3, <3>2
    <3>4. k < l
      BY <1>7, <3>1, <3>3
    <3>. QED
      BY <1>7, <3>1, <3>3, <3>4 DEF Rises
  <2>. QED
    BY <1>3, <2>3, <2>4
<1>. QED
  BY <1>1, <1>6, <1>7 DEF Rises

LEMMA FullConcat ==
  ASSUME NEW S, NEW s \in Seq(S), NEW t \in Seq(S), NEW num, NEW lo \in Int, NEW mid \in Int, NEW hi \in Int,
         \A y \in DOMAIN num : num[y] \in Int,
         Full(s, num, lo, mid), Full(t, num, mid, hi)
  PROVE  Full(s \o t, num, lo, hi)
<1>1. PICK u : u = s \o t
  OBVIOUS
<1>2. lo <= mid /\ mid <= hi /\ lo <= hi
  BY DEF Full
<1>3. Rises(u, num, lo, hi)
  <2>1. Rises(s, num, lo, mid) /\ Rises(t, num, mid, hi)
    BY DEF Full
  <2>. QED
    BY <1>1, <1>2, <2>1, RisesConcat
<1>4. /\ \A i \in DOMAIN s : \E j \in DOMAIN u : u[j] = s[i]
      /\ \A i \in DOMAIN t : \E j \in DOMAIN u : u[j] = t[i]
  <2>1. /\ \A i \in DOMAIN s : i \in DOMAIN u /\ u[i] = s[i]
        /\ \A i \in DOMAIN t : i + Len(s) \in DOMAIN u /\ u[i + Len(s)] = t[i]
    BY <1>1, ConcatFacts, SMTT(60)
  <2>2. \A i \in DOMAIN s : \E j \in DOMAIN u : u[j] = s[i]
    BY <2>1
  <2>3. \A i \in DOMAIN t : \E j \in DOMAIN u : u[j] = t[i]
    BY <2>1
  <2>. QED
    BY <2>2, <2>3
<1>5. ASSUME NEW n \in Int, lo < n, n <= hi PROVE \E i \in DOMAIN u : u[i] \in DOMAIN num /\ num[u[i]] = n
  <2>1. CASE n <= mid
    <3>1. PICK i \in DOMAIN s : s[i] \in DOMAIN num /\ num[s[i]] = n
      BY <1>5, <2>1 DEF Full
    <3>. QED
      BY <1>4, <3>1
  <2>2. CASE mid < n
    <3>1. PICK i \in DOMAIN t : t[i] \in DOMAIN num /\ num[t[i]] = n
      BY <1>5, <2>2 DEF Full
    <3>. QED
      BY <1>4, <3>1
  <2>. QED
    BY <2>1, <2>2
<1>. QED
  BY <1>1, <1>2, <1>3, <1>5 DEF Full

(***************************************************************************)
(* The commands that lie in a sequence.  `to' tells where each leads, and  *)
(* who handles them all gets from a state to a state.                      *)
(***************************************************************************)

Leads(seq, to, from, end) ==
  \/ from = end /\ \A i \in DOMAIN seq : seq[i] \notin DOMAIN to
  \/ \E i \in DOMAIN seq :
       /\ seq[i] \in DOMAIN to /\ to[seq[i]] = end
       /\ \A j \in DOMAIN seq : i < j => seq[j] \notin DOMAIN to

LEMMA LeadsTail ==
  ASSUME NEW S, NEW seq \in Seq(S), seq # <<>>, NEW to, NEW from, NEW end, Leads(seq, to, from, end)
  PROVE  Leads(Tail(seq), to, IF Head(seq) \in DOMAIN to THEN to[Head(seq)] ELSE from, end)
<1>1. PICK t, h : t = Tail(seq) /\ h = Head(seq)
  OBVIOUS
<1>2. PICK x : x = IF h \in DOMAIN to THEN to[h] ELSE from
  OBVIOUS
<1>3. /\ h = seq[1] /\ 1 \in DOMAIN seq
      /\ \A i \in DOMAIN t : i + 1 \in DOMAIN seq /\ t[i] = seq[i + 1] /\ i \in Int /\ 1 < i + 1
      /\ \A i \in DOMAIN seq : i \in Int /\ (i # 1 => i - 1 \in DOMAIN t /\ t[i - 1] = seq[i])
  <2>1. \A i \in Int : i >= 1 => 1 < i + 1
    OBVIOUS
  <2>. QED
    BY <1>1, <2>1, TailFacts
<1>4. CASE from = end /\ \A i \in DOMAIN seq : seq[i] \notin DOMAIN to
  BY <1>1, <1>2, <1>3, <1>4 DEF Leads
<1>5. ASSUME NEW i \in DOMAIN seq, seq[i] \in DOMAIN to, to[seq[i]] = end,
             \A j \in DOMAIN seq : i < j => seq[j] \notin DOMAIN to
      PROVE  Leads(t, to, x, end)
  <2>1. CASE i = 1
    <3>1. \A j \in DOMAIN t : t[j] \notin DOMAIN to
      BY <1>3, <1>5, <2>1
    <3>2. x = end
      BY <1>2, <1>3, <1>5, <2>1
    <3>. QED
      BY <3>1, <3>2 DEF Leads
  <2>2. CASE i # 1
    <3>1. PICK k \in Int : k = i - 1
      BY <1>3
    <3>2. k \in DOMAIN t /\ t[k] = seq[i]
      BY <1>3, <2>2, <3>1
    <3>3. ASSUME NEW j \in DOMAIN t, k < j PROVE t[j] \notin DOMAIN to
      <4>1. i < j + 1
        BY <1>3, <3>1, <3>3, SMTT(60)
      <4>. QED
        BY <1>3, <1>5, <4>1
    <3>. QED
      BY <1>5, <3>2, <3>3 DEF Leads
  <2>. QED
    BY <2>1, <2>2
<1>. QED
  BY <1>1, <1>2, <1>4, <1>5 DEF Leads

LEMMA LeadsAppend ==
  ASSUME NEW S, NEW seq \in Seq(S), NEW x \in S, NEW to, NEW from, NEW end, Leads(seq, to, from, end)
  PROVE  Leads(Append(seq, x), to, from, IF x \in DOMAIN to THEN to[x] ELSE end)
<1>1. PICK t : t = Append(seq, x)
  OBVIOUS
<1>2. PICK e : e = IF x \in DOMAIN to THEN to[x] ELSE end
  OBVIOUS
<1>3. PICK n \in DOMAIN t : /\ n \in Int /\ t[n] = x
                            /\ \A i \in DOMAIN t : i \in Int /\ (i = n \/ (i \in DOMAIN seq /\ i < n))
  BY <1>1, AppendFacts
<1>4. \A i \in DOMAIN seq : i \in DOMAIN t /\ t[i] = seq[i]
  BY <1>1, AppendFacts
<1>5. CASE x \in DOMAIN to
  <2>1. \A j \in DOMAIN t : ~ (n < j)
    BY <1>3
  <2>. QED
    BY <1>1, <1>2, <1>3, <1>5, <2>1 DEF Leads
<1>6. CASE x \notin DOMAIN to
  <2>1. e = end
    BY <1>2, <1>6
  <2>2. \A j \in DOMAIN t : t[j] \in DOMAIN to => j \in DOMAIN seq /\ t[j] = seq[j]
    BY <1>3, <1>4, <1>6
  <2>3. CASE from = end /\ \A i \in DOMAIN seq : seq[i] \notin DOMAIN to
    BY <1>1, <1>2, <2>1, <2>2, <2>3 DEF Leads
  <2>4. ASSUME NEW i \in DOMAIN seq, seq[i] \in DOMAIN to, to[seq[i]] = end,
               \A j \in DOMAIN seq : i < j => seq[j] \notin DOMAIN to
        PROVE  Leads(t, to, from, e)
    BY <1>4, <2>1, <2>2, <2>4 DEF Leads
  <2>. QED
    BY <1>1, <1>2, <2>3, <2>4 DEF Leads
<1>. QED
  BY <1>5, <1>6

LEMMA LeadsConcat ==
  ASSUME NEW S, NEW s \in Seq(S), NEW t \in Seq(S), NEW to, NEW from, NEW end, Leads(t, to, from, end),
         \A i \in DOMAIN s : s[i] \notin DOMAIN to
  PROVE  Leads(s \o t, to, from, end)
<1>1. PICK u : u = s \o t
  OBVIOUS
<1>2. PICK m \in Nat : m = Len(s)
  OBVIOUS
<1>3. /\ \A i \in DOMAIN s : u[i] = s[i]
      /\ \A i \in DOMAIN t : i \in Int /\ i + m \in DOMAIN u /\ u[i + m] = t[i]
      /\ \A i \in DOMAIN u : i \in Int /\ (i \in DOMAIN s \/ \E j \in DOMAIN t : j \in Int /\ i = j + m)
  BY <1>1, <1>2, ConcatFacts, SMTT(60)
<1>4. CASE from = end /\ \A i \in DOMAIN t : t[i] \notin DOMAIN to
  <2>1. \A i \in DOMAIN u : u[i] \notin DOMAIN to
    BY <1>3, <1>4
  <2>. QED
    BY <1>1, <1>4, <2>1 DEF Leads
<1>5. ASSUME NEW i \in DOMAIN t, t[i] \in DOMAIN to, to[t[i]] = end,
             \A j \in DOMAIN t : i < j => t[j] \notin DOMAIN to
      PROVE  Leads(u, to, from, end)
  <2>1. PICK k : k = i + m
    OBVIOUS
  <2>2. k \in DOMAIN u /\ u[k] = t[i]
    BY <1>3, <2>1
  <2>3. ASSUME NEW j \in DOMAIN u, k < j PROVE u[j] \notin DOMAIN to
    <3>1. CASE j \in DOMAIN s
      BY <1>3, <3>1
    <3>2. ASSUME NEW l \in DOMAIN t, l \in Int, j = l + m PROVE u[j] \notin DOMAIN to
      <4>1. i < l
        BY <1>2, <1>3, <2>1, <2>3, <3>2
      <4>. QED
        BY <1>3, <1>5, <3>2, <4>1
    <3>. QED
      BY <1>3, <3>1, <3>2
  <2>. QED
    BY <1>5, <2>2, <2>3 DEF Leads
<1>. QED
  BY <1>1, <1>4, <1>5 DEF Leads

LEMMA LeadsEmpty ==
  ASSUME NEW to, NEW from, NEW end
  PROVE  Leads(<<>>, to, from, end) <=> from = end
<1>1. DOMAIN <<>> = {}
  OBVIOUS
<1>. QED
  BY <1>1 DEF Leads

(***************************************************************************)
(* What a step does to the mailboxes.                                      *)
(***************************************************************************)

AllActors == PubSubActors \cup ServerActors \cup ContactActors

LEMMA TellsChanges ==
  ASSUME NEW a \in DOMAIN mailbox, NEW b \in DOMAIN mailbox, a # b, NEW m, Tells(a, b, m)
  PROVE  /\ mailbox'[a] = Tail(mailbox[a]) /\ mailbox'[b] = Append(mailbox[b], m)
         /\ \A c \in DOMAIN mailbox : c # a /\ c # b => mailbox'[c] = mailbox[c]
         /\ DOMAIN mailbox' = DOMAIN mailbox /\ script' = script /\ began' = began /\ patient' = patient
BY DEF Tells, TellsAll

LEMMA TellsNobodyChanges ==
  ASSUME NEW a \in DOMAIN mailbox, TellsNobody(a)
  PROVE  /\ mailbox'[a] = Tail(mailbox[a])
         /\ \A c \in DOMAIN mailbox : c # a => mailbox'[c] = mailbox[c]
         /\ DOMAIN mailbox' = DOMAIN mailbox /\ script' = script /\ began' = began /\ patient' = patient
BY DEF TellsNobody, TellsAll

LEMMA UnstashesChanges ==
  ASSUME NEW a \in DOMAIN mailbox, NEW messages, Unstashes(a, messages)
  PROVE  /\ mailbox'[a] = messages \o Tail(mailbox[a])
         /\ \A c \in DOMAIN mailbox : c # a => mailbox'[c] = mailbox[c]
         /\ DOMAIN mailbox' = DOMAIN mailbox /\ script' = script /\ began' = began /\ patient' = patient
BY DEF Unstashes

LEMMA MainTellsChanges ==
  ASSUME MainTells, Head(script).to \in DOMAIN mailbox
  PROVE  /\ mailbox'[Head(script).to] = Append(mailbox[Head(script).to], Head(script).msg)
         /\ \A c \in DOMAIN mailbox : c # Head(script).to => mailbox'[c] = mailbox[c]
         /\ DOMAIN mailbox' = DOMAIN mailbox /\ script' = Tail(script) /\ script # <<>>
         /\ Head(script).to # "nobody"
BY DEF MainTells, AllTold

(***************************************************************************)
(* The sleeping server: the messages are, in the order of their numbers,   *)
(* printed, in the client's mailbox as answers, put off, in the server's   *)
(* mailbox, in the client's, and still to be told.                         *)
(***************************************************************************)

Requests == [m \in [type : {"message"}, number : Nat, from : {"main"}] |-> m.number]
Answers  == [m \in [type : {"message"}, number : Nat, from : {"server"}] |-> m.number]
Naps     == [m \in {SleepMessage, WakeupMessage} |-> m.type]

RequestLines == [l \in {ToClient(m) : m \in DOMAIN Requests} |-> l.msg.number]
NapLines     == [l \in {ToClient(m) : m \in DOMAIN Naps} |-> l.msg.type]

ServerLines  == DOMAIN RequestLines \cup DOMAIN NapLines \cup {ToClient(ServerReference), Pause}
ServerMail   == DOMAIN Requests \cup DOMAIN Naps
ClientMail   == ServerMail \cup DOMAIN Answers \cup {ServerReference}

ServerTypes ==
  /\ script \in Seq(ServerLines)
  /\ "client" \in DOMAIN mailbox /\ "server" \in DOMAIN mailbox
  /\ mailbox["client"] \in Seq(ClientMail) /\ mailbox["server"] \in Seq(ServerMail)
  /\ asleep \in BOOLEAN
  /\ put_off \in Seq(DOMAIN Requests)
  /\ printed \in Seq(Nat)

Places(a, b, c, d, e, n) ==
  /\ Len(printed) = a /\ \A i \in DOMAIN printed : printed[i] = i
  /\ Full(mailbox["client"], Answers, a, b)
  /\ Len(put_off) = c - b /\ Full(put_off, Requests, b, c)
  /\ Full(mailbox["server"], Requests, c, d)
  /\ Full(mailbox["client"], Requests, d, e)
  /\ Full(script, RequestLines, e, n)

Mode == IF asleep THEN "sleep" ELSE "wakeup"

\* How the server will be when it has handled what lies in its mailbox, then what the client
\* will pass on, then what main will tell.
Course(p, q, end) ==
  /\ Leads(mailbox["server"], Naps, Mode, p)
  /\ Leads(mailbox["client"], Naps, p, q)
  /\ Leads(script, NapLines, q, end)

ServerInv ==
  /\ ServerTypes
  /\ ~ asleep => put_off = <<>>
  /\ \E n \in Nat : \E end :
       /\ (n = 6 /\ end = "wakeup") \/ (n = 4 /\ end = "sleep")
       /\ \E a \in Nat, b \in Nat, c \in Nat, d \in Nat, e \in Nat : Places(a, b, c, d, e, n)
       /\ \E p, q : Course(p, q, end)

LEMMA ServerMailFacts ==
  /\ \A m \in DOMAIN Requests :
       /\ m.type = "message" /\ m.from = "main" /\ m \notin DOMAIN Naps /\ m \notin DOMAIN Answers
       /\ Requests[m] = m.number /\ m.number \in Int /\ m.number \in Nat
       /\ Message(m.number, "server") \in DOMAIN Answers /\ Answers[Message(m.number, "server")] = m.number
  /\ \A m \in DOMAIN Answers :
       /\ m.type = "message" /\ m.from = "server" /\ m \notin DOMAIN Naps /\ m \notin DOMAIN Requests
       /\ Answers[m] = m.number /\ m.number \in Int /\ m.number \in Nat
  /\ \A m \in DOMAIN Naps :
       /\ m.type \in {"sleep", "wakeup"} /\ m \notin DOMAIN Requests /\ m \notin DOMAIN Answers /\ Naps[m] = m.type
  /\ ServerReference.type = "server"
  /\ ServerReference \notin DOMAIN Requests /\ ServerReference \notin DOMAIN Naps /\ ServerReference \notin DOMAIN Answers
BY DEF Requests, Answers, Naps, Message, SleepMessage, WakeupMessage, ServerReference

LEMMA ServerLineFacts ==
  /\ \A l \in DOMAIN RequestLines :
       /\ l.to = "client" /\ l.msg \in DOMAIN Requests /\ RequestLines[l] = Requests[l.msg] /\ RequestLines[l] \in Int
       /\ l \notin DOMAIN NapLines
  /\ \A l \in DOMAIN NapLines :
       l.to = "client" /\ l.msg \in DOMAIN Naps /\ NapLines[l] = Naps[l.msg] /\ l \notin DOMAIN RequestLines
  /\ ToClient(ServerReference).to = "client" /\ ToClient(ServerReference).msg = ServerReference
  /\ ToClient(ServerReference) \notin DOMAIN RequestLines /\ ToClient(ServerReference) \notin DOMAIN NapLines
  /\ Pause.to = "nobody" /\ Pause \notin DOMAIN RequestLines /\ Pause \notin DOMAIN NapLines
<1>1. \A m : ToClient(m).to = "client" /\ ToClient(m).msg = m
  BY DEF ToClient, ToTell
<1>2. Pause.to = "nobody"
  BY DEF Pause
<1>3. /\ DOMAIN RequestLines = {ToClient(m) : m \in DOMAIN Requests}
      /\ DOMAIN NapLines = {ToClient(m) : m \in DOMAIN Naps}
      /\ \A l \in DOMAIN RequestLines : RequestLines[l] = l.msg.number
      /\ \A l \in DOMAIN NapLines : NapLines[l] = l.msg.type
  BY DEF RequestLines, NapLines
<1>4. /\ \A m \in DOMAIN Requests : m \notin DOMAIN Naps /\ Requests[m] = m.number /\ m.number \in Int
      /\ \A m \in DOMAIN Naps : m \notin DOMAIN Requests /\ Naps[m] = m.type
      /\ ServerReference \notin DOMAIN Requests /\ ServerReference \notin DOMAIN Naps
  BY ServerMailFacts
<1>. QED
  BY <1>1, <1>2, <1>3, <1>4

LEMMA MainTellsClient ==
  ASSUME ServerTypes, NEW a \in Nat, NEW b \in Nat, NEW c \in Nat, NEW d \in Nat, NEW e \in Nat, NEW n \in Nat,
         Places(a, b, c, d, e, n), NEW p, NEW q, NEW end, Course(p, q, end), MainTells, UNCHANGED serverVars
  PROVE  /\ ServerTypes'
         /\ \E f \in Nat : Places(a, b, c, d, f, n)'
         /\ \E r : Course(p, r, end)'
<1>1. script # <<>> /\ Head(script) \in ServerLines /\ Head(script).to # "nobody" /\ script \in Seq(ServerLines)
  BY DEF ServerTypes, MainTells, AllTold
<1>2. PICK l : l = Head(script)
  OBVIOUS
<1>3. PICK m : m = l.msg
  OBVIOUS
<1>4. l.to = "client" /\ m \in ClientMail
  BY <1>1, <1>2, <1>3, ServerLineFacts DEF ServerLines, ClientMail, ServerMail
<1>5. PICK s, t : s = mailbox["client"] /\ t = Tail(script)
  OBVIOUS
<1>6. /\ mailbox'["client"] = Append(s, m) /\ mailbox'["server"] = mailbox["server"]
      /\ DOMAIN mailbox' = DOMAIN mailbox /\ script' = t
  BY <1>2, <1>3, <1>4, <1>5, MainTellsChanges DEF ServerTypes
<1>7. s \in Seq(ClientMail) /\ t \in Seq(ServerLines)
  BY <1>1, <1>5 DEF ServerTypes
<1>8. ServerTypes'
  <2>1. Append(s, m) \in Seq(ClientMail)
    BY <1>4, <1>7
  <2>. QED
    BY <1>6, <1>7, <2>1 DEF ServerTypes, serverVars
<1>9. Mode' = Mode
  BY DEF Mode, serverVars
<1>10. /\ Full(s, Answers, a, b) /\ Full(s, Requests, d, e) /\ Full(script, RequestLines, e, n)
       /\ Leads(s, Naps, p, q) /\ Leads(script, NapLines, q, end)
  BY <1>5 DEF Places, Course
<1>11. /\ \A y \in DOMAIN Requests : Requests[y] \in Int
       /\ \A y \in DOMAIN RequestLines : RequestLines[y] \in Int
  BY ServerMailFacts, ServerLineFacts
<1>12. CASE l \in DOMAIN RequestLines
  <2>1. m \in DOMAIN Requests /\ m \notin DOMAIN Naps /\ m \notin DOMAIN Answers /\ l \notin DOMAIN NapLines /\ RequestLines[l] = Requests[m]
    BY <1>3, <1>12, ServerMailFacts, ServerLineFacts
  <2>2. Head(script) \in DOMAIN RequestLines
    BY <1>2, <1>12
  <2>3. RequestLines[Head(script)] = e + 1 /\ Full(Tail(script), RequestLines, RequestLines[Head(script)], n)
    BY <1>1, <1>10, <1>11, <2>2, FullTailNumber
  <2>4. Requests[m] = e + 1
    BY <1>2, <2>1, <2>3
  <2>5. Full(Append(s, m), Requests, d, Requests[m])
    BY <1>4, <1>7, <1>10, <1>11, <2>1, <2>4, FullAppendNumber
  <2>6. Full(Append(s, m), Answers, a, b)
    BY <1>4, <1>7, <1>10, <2>1, FullAppend
  <2>7. Leads(Append(s, m), Naps, p, q)
    BY <1>4, <1>7, <1>10, <2>1, LeadsAppend
  <2>8. Leads(t, NapLines, q, end)
    BY <1>1, <1>2, <1>5, <1>10, <2>1, LeadsTail
  <2>9. PICK f \in Nat : f = Requests[m]
    BY <2>4
  <2>10. Full(t, RequestLines, f, n)
    BY <1>2, <1>5, <2>1, <2>3, <2>9
  <2>11. Places(a, b, c, d, f, n)'
    BY <1>6, <2>5, <2>6, <2>9, <2>10 DEF Places, serverVars
  <2>12. Course(p, q, end)'
    BY <1>6, <1>9, <2>7, <2>8 DEF Course
  <2>. QED
    BY <1>8, <2>11, <2>12
<1>13. CASE l \in DOMAIN NapLines
  <2>1. m \notin DOMAIN Requests /\ m \in DOMAIN Naps /\ m \notin DOMAIN Answers /\ l \notin DOMAIN RequestLines /\ NapLines[l] = Naps[m]
    BY <1>3, <1>13, ServerMailFacts, ServerLineFacts
  <2>2. Full(t, RequestLines, e, n)
    BY <1>1, <1>2, <1>5, <1>10, <2>1, FullTail
  <2>3. Full(Append(s, m), Requests, d, e)
    BY <1>4, <1>7, <1>10, <2>1, FullAppend
  <2>4. Full(Append(s, m), Answers, a, b)
    BY <1>4, <1>7, <1>10, <2>1, FullAppend
  <2>5. Leads(Append(s, m), Naps, p, Naps[m])
    BY <1>4, <1>7, <1>10, <2>1, LeadsAppend
  <2>6. Leads(t, NapLines, NapLines[l], end)
    BY <1>1, <1>2, <1>5, <1>10, <1>13, LeadsTail
  <2>7. PICK r : r = Naps[m]
    OBVIOUS
  <2>8. Places(a, b, c, d, e, n)'
    BY <1>6, <2>2, <2>3, <2>4 DEF Places, serverVars
  <2>9. Course(p, r, end)'
    BY <1>6, <1>9, <2>1, <2>5, <2>6, <2>7 DEF Course
  <2>. QED
    BY <1>8, <2>8, <2>9
<1>14. CASE l = ToClient(ServerReference)
  <2>1. m \notin DOMAIN Requests /\ m \notin DOMAIN Naps /\ m \notin DOMAIN Answers /\ l \notin DOMAIN RequestLines /\ l \notin DOMAIN NapLines
    BY <1>3, <1>14, ServerMailFacts, ServerLineFacts
  <2>2. Full(t, RequestLines, e, n)
    BY <1>1, <1>2, <1>5, <1>10, <2>1, FullTail
  <2>3. Full(Append(s, m), Requests, d, e)
    BY <1>4, <1>7, <1>10, <2>1, FullAppend
  <2>4. Full(Append(s, m), Answers, a, b)
    BY <1>4, <1>7, <1>10, <2>1, FullAppend
  <2>5. Leads(Append(s, m), Naps, p, q)
    BY <1>4, <1>7, <1>10, <2>1, LeadsAppend
  <2>6. Leads(t, NapLines, q, end)
    BY <1>1, <1>2, <1>5, <1>10, <2>1, LeadsTail
  <2>7. Places(a, b, c, d, e, n)'
    BY <1>6, <2>2, <2>3, <2>4 DEF Places, serverVars
  <2>8. Course(p, q, end)'
    BY <1>6, <1>9, <2>5, <2>6 DEF Course
  <2>. QED
    BY <1>8, <2>7, <2>8
<1>15. l # Pause
  BY <1>1, <1>2, ServerLineFacts
<1>. QED
  BY <1>1, <1>2, <1>12, <1>13, <1>14, <1>15 DEF ServerLines

LEMMA MainSleepsHere ==
  ASSUME ServerTypes, NEW a \in Nat, NEW b \in Nat, NEW c \in Nat, NEW d \in Nat, NEW e \in Nat, NEW n \in Nat,
         Places(a, b, c, d, e, n), NEW p, NEW q, NEW end, Course(p, q, end), MainSleeps, UNCHANGED serverVars
  PROVE  ServerTypes' /\ Places(a, b, c, d, e, n)' /\ Course(p, q, end)'
<1>1. /\ script # <<>> /\ Head(script) \in ServerLines /\ Head(script).to = "nobody" /\ script \in Seq(ServerLines)
      /\ mailbox' = mailbox
  BY DEF ServerTypes, MainSleeps, AllTold
<1>2. PICK l, t : l = Head(script) /\ t = Tail(script)
  OBVIOUS
<1>3. t \in Seq(ServerLines) /\ script' = t /\ Mode' = Mode
  BY <1>1, <1>2 DEF MainSleeps, Mode, serverVars
<1>4. l \notin DOMAIN RequestLines /\ l \notin DOMAIN NapLines
  BY <1>1, <1>2, ServerLineFacts
<1>5. Full(t, RequestLines, e, n)
  BY <1>1, <1>2, <1>4, FullTail DEF Places
<1>6. Leads(t, NapLines, q, end)
  BY <1>1, <1>2, <1>4, LeadsTail DEF Course
<1>. QED
  BY <1>1, <1>3, <1>5, <1>6 DEF ServerTypes, Places, Course, serverVars

ServerAt(a, b, c, d, e, n, p, q, end) ==
  /\ ServerTypes
  /\ ~ asleep => put_off = <<>>
  /\ Places(a, b, c, d, e, n)
  /\ Course(p, q, end)

LEMMA HandledByTheClient ==
  ASSUME NEW a \in Nat, NEW b \in Nat, NEW c \in Nat, NEW d \in Nat, NEW e \in Nat, NEW n \in Nat, NEW p, NEW q, NEW end,
         ServerAt(a, b, c, d, e, n, p, q, end),
         ClientSetServer \/ clientOnMessage \/ clientOnSleepOrWakeup
  PROVE  \E f \in Nat, g \in Nat : \E r : ServerAt(f, b, c, g, e, n, r, q, end)'
<1>1. PICK s, u, h, t : s = mailbox["client"] /\ u = mailbox["server"] /\ h = Head(s) /\ t = Tail(s)
  OBVIOUS
<1>2. /\ s \in Seq(ClientMail) /\ s # <<>> /\ u \in Seq(ServerMail) /\ "client" \in DOMAIN mailbox /\ "server" \in DOMAIN mailbox
      /\ h \in ClientMail /\ t \in Seq(ClientMail) /\ printed \in Seq(Nat)
      /\ asleep' = asleep /\ put_off' = put_off /\ Mode' = Mode
  <2>1. s \in Seq(ClientMail) /\ u \in Seq(ServerMail) /\ "client" \in DOMAIN mailbox /\ "server" \in DOMAIN mailbox /\ printed \in Seq(Nat)
    BY <1>1 DEF ServerAt, ServerTypes
  <2>2. s # <<>>
    BY <1>1 DEF ClientSetServer, clientOnMessage, clientOnSleepOrWakeup, Handles
  <2>3. h \in ClientMail /\ t \in Seq(ClientMail)
    BY <1>1, <2>1, <2>2
  <2>4. asleep' = asleep /\ put_off' = put_off
    BY DEF ClientSetServer, clientOnMessage, clientOnSleepOrWakeup, serverVars
  <2>. QED
    BY <2>1, <2>2, <2>3, <2>4 DEF Mode
<1>3. /\ Len(printed) = a /\ \A i \in DOMAIN printed : printed[i] = i
      /\ Full(s, Answers, a, b) /\ Full(s, Requests, d, e) /\ Full(u, Requests, c, d)
      /\ Leads(u, Naps, Mode, p) /\ Leads(s, Naps, p, q)
  BY <1>1 DEF ServerAt, Places, Course
<1>4. /\ \A y \in DOMAIN Requests : Requests[y] \in Int
      /\ \A y \in DOMAIN Answers : Answers[y] \in Int
  BY ServerMailFacts
<1>5. CASE ClientSetServer
  <2>1. h.type = "server"
    BY <1>1, <1>5 DEF ClientSetServer, Handles
  <2>2. h \notin DOMAIN Requests /\ h \notin DOMAIN Answers /\ h \notin DOMAIN Naps
    BY <2>1, ServerMailFacts
  <2>3. Full(t, Answers, a, b) /\ Full(t, Requests, d, e)
    BY <1>1, <1>2, <1>3, <2>2, FullTail
  <2>4. Leads(t, Naps, p, q)
    BY <1>1, <1>2, <1>3, <2>2, LeadsTail
  <2>5. mailbox'["client"] = t /\ mailbox'["server"] = u /\ DOMAIN mailbox' = DOMAIN mailbox /\ script' = script
    BY <1>1, <1>2, <1>5, TellsNobodyChanges DEF ClientSetServer
  <2>6. printed' = printed
    BY <1>5 DEF ClientSetServer
  <2>. QED
    BY <1>1, <1>2, <2>3, <2>4, <2>5, <2>6 DEF ServerAt, ServerTypes, Places, Course
<1>6. CASE clientOnMessage
  <2>1. h.type = "message"
    BY <1>1, <1>6 DEF clientOnMessage, Handles
  <2>2. h \in DOMAIN Requests \/ h \in DOMAIN Answers
    BY <1>2, <2>1, ServerMailFacts DEF ClientMail, ServerMail
  <2>3. Leads(t, Naps, p, q)
    BY <1>1, <1>2, <1>3, <2>2, LeadsTail, ServerMailFacts
  <2>4. CASE h \in DOMAIN Answers
    <3>1. h \notin DOMAIN Requests /\ h.from = "server" /\ Answers[h] = h.number /\ h.number \in Nat
      BY <2>4, ServerMailFacts
    <3>2. Full(t, Requests, d, e)
      BY <1>1, <1>2, <1>3, <3>1, FullTail
    <3>3. Answers[h] = a + 1 /\ Full(t, Answers, Answers[h], b)
      BY <1>1, <1>2, <1>3, <1>4, <2>4, FullTailNumber
    <3>4. mailbox'["client"] = t /\ mailbox'["server"] = u /\ DOMAIN mailbox' = DOMAIN mailbox /\ script' = script
      <4>1. TellsNobody("client")
        BY <1>1, <1>6, <3>1 DEF clientOnMessage, Received
      <4>. QED
        BY <1>1, <1>2, <4>1, TellsNobodyChanges
    <3>5. PICK f \in Nat : f = Answers[h]
      BY <3>3
    <3>6. printed' = Append(printed, f)
      BY <1>1, <1>6, <3>1, <3>5 DEF clientOnMessage, Received
    <3>7. printed' \in Seq(Nat) /\ Len(printed') = f /\ \A i \in DOMAIN printed' : printed'[i] = i
      <4>1. Len(printed') = a + 1 /\ DOMAIN printed = 1 .. a /\ DOMAIN printed' = 1 .. a + 1
        BY <1>2, <1>3, <3>6
      <4>2. \A i \in 1 .. a : printed'[i] = printed[i]
        BY <1>2, <1>3, <3>6
      <4>3. printed'[a + 1] = f
        BY <1>2, <1>3, <3>6
      <4>4. \A i \in 1 .. a + 1 : i \in 1 .. a \/ i = a + 1
        OBVIOUS
      <4>. QED
        BY <1>2, <1>3, <3>3, <3>5, <3>6, <4>1, <4>2, <4>3, <4>4
    <3>8. Full(t, Answers, f, b)
      BY <3>3, <3>5
    <3>. QED
      BY <1>1, <1>2, <2>3, <3>2, <3>4, <3>7, <3>8 DEF ServerAt, ServerTypes, Places, Course
  <2>5. CASE h \in DOMAIN Requests
    <3>1. h \notin DOMAIN Answers /\ h \notin DOMAIN Naps /\ h.from = "main" /\ h \in ServerMail
      BY <2>5, ServerMailFacts DEF ServerMail
    <3>2. Full(t, Answers, a, b)
      BY <1>1, <1>2, <1>3, <3>1, FullTail
    <3>3. Requests[h] = d + 1 /\ Full(t, Requests, Requests[h], e)
      BY <1>1, <1>2, <1>3, <1>4, <2>5, FullTailNumber
    <3>4. Full(Append(u, h), Requests, c, Requests[h])
      BY <1>2, <1>3, <1>4, <2>5, <3>1, <3>3, FullAppendNumber
    <3>5. Leads(Append(u, h), Naps, Mode, p)
      BY <1>2, <1>3, <3>1, LeadsAppend
    <3>6. /\ mailbox'["client"] = t /\ mailbox'["server"] = Append(u, h)
          /\ DOMAIN mailbox' = DOMAIN mailbox /\ script' = script /\ printed' = printed
      <4>1. Tells("client", "server", h) /\ printed' = printed
        BY <1>1, <1>6, <3>1 DEF clientOnMessage, Received
      <4>. QED
        BY <1>1, <1>2, <4>1, TellsChanges, ZenonT(100)
    <3>7. PICK g \in Nat : g = Requests[h]
      BY <3>3
    <3>8. Append(u, h) \in Seq(ServerMail) /\ Full(t, Requests, g, e) /\ Full(Append(u, h), Requests, c, g)
      BY <1>2, <3>1, <3>3, <3>4, <3>7
    <3>. QED
      BY <1>1, <1>2, <2>3, <3>2, <3>5, <3>6, <3>8 DEF ServerAt, ServerTypes, Places, Course
  <2>. QED
    BY <2>2, <2>4, <2>5
<1>7. CASE clientOnSleepOrWakeup
  <2>1. h.type \in {"sleep", "wakeup"}
    BY <1>1, <1>7 DEF clientOnSleepOrWakeup, Handles
  <2>2. h \in DOMAIN Naps
    BY <1>2, <2>1, ServerMailFacts DEF ClientMail, ServerMail
  <2>3. h \notin DOMAIN Requests /\ h \notin DOMAIN Answers /\ h \in ServerMail
    BY <2>2, ServerMailFacts DEF ServerMail
  <2>4. Full(t, Answers, a, b) /\ Full(t, Requests, d, e)
    BY <1>1, <1>2, <1>3, <2>3, FullTail
  <2>5. Full(Append(u, h), Requests, c, d)
    BY <1>2, <1>3, <2>3, FullAppend
  <2>6. Leads(t, Naps, Naps[h], q)
    BY <1>1, <1>2, <1>3, <2>2, LeadsTail
  <2>7. Leads(Append(u, h), Naps, Mode, Naps[h])
    BY <1>2, <1>3, <2>2, <2>3, LeadsAppend
  <2>8. /\ mailbox'["client"] = t /\ mailbox'["server"] = Append(u, h)
        /\ DOMAIN mailbox' = DOMAIN mailbox /\ script' = script /\ printed' = printed
    <3>1. Tells("client", "server", h) /\ printed' = printed
      BY <1>1, <1>7 DEF clientOnSleepOrWakeup, Received, serverVars
    <3>. QED
      BY <1>1, <1>2, <3>1, TellsChanges
  <2>9. PICK r : r = Naps[h]
    OBVIOUS
  <2>10. Append(u, h) \in Seq(ServerMail)
    BY <1>2, <2>3
  <2>11. ServerAt(a, b, c, d, e, n, r, q, end)'
    BY <1>1, <1>2, <2>4, <2>5, <2>6, <2>7, <2>8, <2>9, <2>10 DEF ServerAt, ServerTypes, Places, Course
  <2>. QED
    BY <2>11
<1>. QED
  BY <1>5, <1>6, <1>7

LEMMA HandledByTheServer ==
  ASSUME NEW a \in Nat, NEW b \in Nat, NEW c \in Nat, NEW d \in Nat, NEW e \in Nat, NEW n \in Nat, NEW p, NEW q, NEW end,
         ServerAt(a, b, c, d, e, n, p, q, end), ServerStep
  PROVE  \E f \in Nat, g \in Nat : ServerAt(a, f, g, d, e, n, p, q, end)'
<1>1. PICK s, u, h, t : s = mailbox["client"] /\ u = mailbox["server"] /\ h = Head(u) /\ t = Tail(u)
  OBVIOUS
<1>2. /\ s \in Seq(ClientMail) /\ u # <<>> /\ u \in Seq(ServerMail) /\ "client" \in DOMAIN mailbox /\ "server" \in DOMAIN mailbox
      /\ h \in ServerMail /\ t \in Seq(ServerMail) /\ printed' = printed /\ put_off \in Seq(DOMAIN Requests) /\ asleep \in BOOLEAN
  <2>1. /\ s \in Seq(ClientMail) /\ u \in Seq(ServerMail) /\ "client" \in DOMAIN mailbox /\ "server" \in DOMAIN mailbox
        /\ put_off \in Seq(DOMAIN Requests) /\ asleep \in BOOLEAN
    BY <1>1 DEF ServerAt, ServerTypes
  <2>2. u # <<>>
    BY <1>1 DEF ServerStep, onSleepMessage, onWakeupMessage, onMessageStatusWake, onMessageStatusSleep, Handles
  <2>3. h \in ServerMail /\ t \in Seq(ServerMail)
    BY <1>1, <2>1, <2>2
  <2>4. printed' = printed
    BY DEF ServerStep, onSleepMessage, onWakeupMessage, onMessageStatusWake, onMessageStatusSleep, serverVars
  <2>. QED
    BY <2>1, <2>2, <2>3, <2>4
<1>3. /\ Full(s, Answers, a, b) /\ Full(s, Requests, d, e) /\ Full(u, Requests, c, d)
      /\ Full(put_off, Requests, b, c) /\ Len(put_off) = c - b
      /\ Leads(u, Naps, Mode, p) /\ Leads(s, Naps, p, q)
  BY <1>1 DEF ServerAt, Places, Course
<1>4. /\ \A y \in DOMAIN Requests : Requests[y] \in Int
      /\ \A y \in DOMAIN Answers : Answers[y] \in Int
  BY ServerMailFacts
<1>5. CASE onSleepMessage \/ onWakeupMessage
  <2>1. h.type \in {"sleep", "wakeup"}
    BY <1>1, <1>5 DEF onSleepMessage, onWakeupMessage, Handles
  <2>2. h \in DOMAIN Naps
    BY <1>2, <2>1, ServerMailFacts DEF ServerMail
  <2>3. h \notin DOMAIN Requests /\ Naps[h] = h.type
    BY <2>2, ServerMailFacts
  <2>4. Full(t, Requests, c, d)
    BY <1>1, <1>2, <1>3, <2>3, FullTail
  <2>5. Leads(t, Naps, Naps[h], p)
    BY <1>1, <1>2, <1>3, <2>2, LeadsTail
  <2>6. CASE onSleepMessage
    <3>1. mailbox'["server"] = t /\ mailbox'["client"] = s /\ DOMAIN mailbox' = DOMAIN mailbox /\ script' = script
      BY <1>1, <1>2, <2>6, TellsNobodyChanges DEF onSleepMessage
    <3>2. asleep' = TRUE /\ put_off' = put_off /\ h.type = "sleep"
      BY <1>1, <2>6 DEF onSleepMessage, Handles
    <3>3. Mode' = Naps[h]
      BY <2>3, <3>2 DEF Mode
    <3>4. ServerAt(a, b, c, d, e, n, p, q, end)'
      BY <1>1, <1>2, <2>4, <2>5, <3>1, <3>2, <3>3 DEF ServerAt, ServerTypes, Places, Course
    <3>. QED
      BY <3>4
  <2>7. CASE onWakeupMessage /\ asleep
    <3>1. /\ mailbox'["server"] = put_off \o t /\ mailbox'["client"] = s
          /\ DOMAIN mailbox' = DOMAIN mailbox /\ script' = script
      <4>1. Unstashes("server", put_off)
        BY <2>7 DEF onWakeupMessage, InOrder
      <4>. QED
        BY <1>1, <1>2, <4>1, UnstashesChanges
    <3>2. asleep' = FALSE /\ put_off' = <<>> /\ h.type = "wakeup"
      BY <1>1, <2>7 DEF onWakeupMessage, Handles
    <3>3. Mode' = Naps[h]
      BY <2>3, <3>2 DEF Mode
    <3>4. put_off \in Seq(ServerMail)
      BY <1>2, SeqMonotonic DEF ServerMail
    <3>5. Full(put_off \o t, Requests, b, d)
      BY <1>2, <1>3, <1>4, <2>4, <3>4, FullConcat
    <3>6. \A i \in DOMAIN put_off : put_off[i] \notin DOMAIN Naps
      BY <1>2, ServerMailFacts
    <3>7. Leads(put_off \o t, Naps, Naps[h], p)
      BY <1>2, <2>5, <3>4, <3>6, LeadsConcat
    <3>8. put_off \o t \in Seq(ServerMail)
      BY <1>2, <3>4
    <3>9. Full(<<>>, Requests, b, b) /\ Len(<<>>) = b - b /\ <<>> \in Seq(DOMAIN Requests)
      BY FullEmpty
    <3>10. ServerAt(a, b, b, d, e, n, p, q, end)'
      BY <1>1, <1>2, <3>1, <3>2, <3>3, <3>5, <3>7, <3>8, <3>9 DEF ServerAt, ServerTypes, Places, Course
    <3>. QED
      BY <3>10
  <2>8. CASE onWakeupMessage /\ ~ asleep
    <3>1. mailbox'["server"] = t /\ mailbox'["client"] = s /\ DOMAIN mailbox' = DOMAIN mailbox /\ script' = script
      BY <1>1, <1>2, <2>8, TellsNobodyChanges DEF onWakeupMessage
    <3>2. asleep' = FALSE /\ put_off' = put_off /\ h.type = "wakeup" /\ put_off = <<>>
      BY <1>1, <2>8 DEF onWakeupMessage, Handles, ServerAt
    <3>3. Mode' = Naps[h]
      BY <2>3, <3>2 DEF Mode
    <3>4. ServerAt(a, b, c, d, e, n, p, q, end)'
      BY <1>1, <1>2, <2>4, <2>5, <3>1, <3>2, <3>3 DEF ServerAt, ServerTypes, Places, Course
    <3>. QED
      BY <3>4
  <2>. QED
    BY <1>2, <1>5, <2>6, <2>7, <2>8
<1>6. CASE onMessageStatusWake \/ onMessageStatusSleep
  <2>1. h.type = "message"
    BY <1>1, <1>6 DEF onMessageStatusWake, onMessageStatusSleep, Handles
  <2>2. h \in DOMAIN Requests
    BY <1>2, <2>1, ServerMailFacts DEF ServerMail
  <2>3. /\ h \notin DOMAIN Naps /\ Requests[h] = h.number
        /\ Message(h.number, "server") \in DOMAIN Answers /\ Answers[Message(h.number, "server")] = h.number
    BY <2>2, ServerMailFacts
  <2>4. Requests[h] = c + 1 /\ Full(t, Requests, Requests[h], d)
    BY <1>1, <1>2, <1>3, <1>4, <2>2, FullTailNumber
  <2>5. Leads(t, Naps, Mode, p)
    BY <1>1, <1>2, <1>3, <2>3, LeadsTail
  <2>6. PICK g \in Nat : g = Requests[h]
    BY <2>4
  <2>7. Full(t, Requests, g, d)
    BY <2>4, <2>6
  <2>8. CASE onMessageStatusWake
    <3>1. PICK m : m = Message(h.number, "server")
      OBVIOUS
    <3>2. m \in DOMAIN Answers /\ Answers[m] = g /\ m \notin DOMAIN Requests /\ m \notin DOMAIN Naps /\ m \in ClientMail
      BY <2>3, <2>6, <3>1, ServerMailFacts DEF ClientMail
    <3>3. /\ mailbox'["server"] = t /\ mailbox'["client"] = Append(s, m)
          /\ DOMAIN mailbox' = DOMAIN mailbox /\ script' = script
      <4>1. Tells("server", "client", m)
        BY <1>1, <2>8, <3>1 DEF onMessageStatusWake, Received
      <4>. QED
        BY <1>1, <1>2, <4>1, TellsChanges
    <3>4. asleep' = asleep /\ put_off' = put_off /\ ~ asleep /\ put_off = <<>>
      BY <2>8 DEF onMessageStatusWake, serverVars, ServerAt
    <3>5. b = c
      BY <1>3, <3>4, FullEmpty
    <3>6. Full(Append(s, m), Answers, a, Answers[m])
      BY <1>2, <1>3, <1>4, <2>4, <2>6, <3>2, <3>5, FullAppendNumber
    <3>7. Full(Append(s, m), Requests, d, e)
      BY <1>2, <1>3, <3>2, FullAppend
    <3>8. Leads(Append(s, m), Naps, p, q)
      BY <1>2, <1>3, <3>2, LeadsAppend
    <3>9. Full(<<>>, Requests, g, g) /\ Len(<<>>) = g - g
      BY FullEmpty
    <3>10. Append(s, m) \in Seq(ClientMail) /\ Full(Append(s, m), Answers, a, g) /\ Mode' = Mode
      BY <1>2, <3>2, <3>4, <3>6 DEF Mode
    <3>11. ServerAt(a, g, g, d, e, n, p, q, end)'
      BY <1>1, <1>2, <2>5, <2>7, <3>3, <3>4, <3>7, <3>8, <3>9, <3>10 DEF ServerAt, ServerTypes, Places, Course
    <3>. QED
      BY <3>11
  <2>9. CASE onMessageStatusSleep
    <3>1. mailbox'["server"] = t /\ mailbox'["client"] = s /\ DOMAIN mailbox' = DOMAIN mailbox /\ script' = script
      BY <1>1, <1>2, <2>9, TellsNobodyChanges DEF onMessageStatusSleep
    <3>2. asleep' = asleep /\ put_off' = Append(put_off, h) /\ asleep
      BY <1>1, <2>9 DEF onMessageStatusSleep, Received
    <3>3. Full(Append(put_off, h), Requests, b, Requests[h])
      BY <1>2, <1>3, <1>4, <2>2, <2>4, FullAppendNumber
    <3>4. /\ Append(put_off, h) \in Seq(DOMAIN Requests) /\ Len(Append(put_off, h)) = Len(put_off) + 1
          /\ Full(Append(put_off, h), Requests, b, g) /\ Mode' = Mode
      BY <1>2, <2>2, <2>6, <3>2, <3>3 DEF Mode
    <3>5. Len(put_off') = g - b
      BY <1>3, <2>4, <2>6, <3>2, <3>4
    <3>6. ServerAt(a, b, g, d, e, n, p, q, end)'
      BY <1>1, <1>2, <2>5, <2>7, <3>1, <3>2, <3>4, <3>5 DEF ServerAt, ServerTypes, Places, Course
    <3>. QED
      BY <3>6
  <2>. QED
    BY <1>6, <2>8, <2>9
<1>. QED
  BY <1>5, <1>6 DEF ServerStep

LEMMA ServerScriptsAreFull ==
  ASSUME NEW s \in ServerScripts
  PROVE  /\ s \in Seq(ServerLines)
         /\ \E n \in Nat : \E end :
              /\ (n = 6 /\ end = "wakeup") \/ (n = 4 /\ end = "sleep")
              /\ Full(s, RequestLines, 0, n) /\ Leads(s, NapLines, "wakeup", end)
<1>1. PICK R, W, L : R = ToClient(ServerReference) /\ W = ToClient(WakeupMessage) /\ L = ToClient(SleepMessage)
  OBVIOUS
<1>2. PICK M : M = [i \in 1 .. 6 |-> Sends(i)]
  OBVIOUS
<1>3. /\ \A i \in 1 .. 6 : M[i] \in DOMAIN RequestLines /\ RequestLines[M[i]] = i /\ M[i] \notin DOMAIN NapLines
      /\ W \in DOMAIN NapLines /\ NapLines[W] = "wakeup" /\ L \in DOMAIN NapLines /\ NapLines[L] = "sleep"
      /\ W \notin DOMAIN RequestLines /\ L \notin DOMAIN RequestLines
      /\ R \notin DOMAIN RequestLines /\ R \notin DOMAIN NapLines
      /\ Pause \notin DOMAIN RequestLines /\ Pause \notin DOMAIN NapLines
  <2>1. \A i \in 1 .. 6 : M[i] \in DOMAIN RequestLines /\ RequestLines[M[i]] = i
    <3>1. SUFFICES ASSUME NEW i \in 1 .. 6 PROVE Sends(i) \in DOMAIN RequestLines /\ RequestLines[Sends(i)] = i
      BY <1>2
    <3>2. Message(i, "main") \in DOMAIN Requests
      BY DEF Message, Requests
    <3>3. Sends(i) \in DOMAIN RequestLines
      BY <3>2 DEF RequestLines, Sends
    <3>4. Sends(i).msg.number = i
      BY DEF Sends, ToClient, ToTell, Message
    <3>. QED
      BY <3>3, <3>4 DEF RequestLines
  <2>2. /\ W \in DOMAIN NapLines /\ NapLines[W] = "wakeup"
        /\ L \in DOMAIN NapLines /\ NapLines[L] = "sleep"
    <3>1. WakeupMessage \in DOMAIN Naps /\ SleepMessage \in DOMAIN Naps
      BY DEF Naps
    <3>2. W \in DOMAIN NapLines /\ L \in DOMAIN NapLines
      BY <1>1, <3>1 DEF NapLines
    <3>3. W.msg.type = "wakeup" /\ L.msg.type = "sleep"
      BY <1>1 DEF ToClient, ToTell, WakeupMessage, SleepMessage
    <3>. QED
      BY <3>2, <3>3 DEF NapLines
  <2>. QED
    BY <1>1, <2>1, <2>2, ServerLineFacts
<1>4. /\ R \in ServerLines /\ W \in ServerLines /\ L \in ServerLines /\ Pause \in ServerLines
      /\ \A i \in 1 .. 6 : M[i] \in ServerLines
  BY <1>1, <1>3 DEF ServerLines
<1>5. \A i \in 1 .. 6 : Sends(i) = M[i]
  BY <1>2
<1>6. CASE s = << R, M[1], M[2], L, Pause, M[3], M[4], W, Pause, M[5], M[6] >>
  <2>1. DOMAIN s = 1 .. 11
    BY <1>6
  <2>2. /\ s[1] = R /\ s[2] = M[1] /\ s[3] = M[2] /\ s[4] = L /\ s[5] = Pause /\ s[6] = M[3]
        /\ s[7] = M[4] /\ s[8] = W /\ s[9] = Pause /\ s[10] = M[5] /\ s[11] = M[6]
    BY <1>6
  <2>3. s \in Seq(ServerLines)
    BY <1>4, <1>6
  <2>4. \A i \in 1 .. 11 : s[i] \in DOMAIN RequestLines =>
          \/ (i = 2 /\ RequestLines[s[i]] = 1) \/ (i = 3 /\ RequestLines[s[i]] = 2) \/ (i = 6 /\ RequestLines[s[i]] = 3)
          \/ (i = 7 /\ RequestLines[s[i]] = 4) \/ (i = 10 /\ RequestLines[s[i]] = 5) \/ (i = 11 /\ RequestLines[s[i]] = 6)
    BY <1>3, <2>2
  <2>5. Rises(s, RequestLines, 0, 6)
    BY <2>1, <2>4 DEF Rises
  <2>6. \A k \in Int : 0 < k /\ k <= 6 => \E i \in 1 .. 11 : s[i] \in DOMAIN RequestLines /\ RequestLines[s[i]] = k
    <3>1. \A k \in Int : 0 < k /\ k <= 6 => k = 1 \/ k = 2 \/ k = 3 \/ k = 4 \/ k = 5 \/ k = 6
      OBVIOUS
    <3>. QED
      BY <1>3, <2>2, <3>1
  <2>7. Full(s, RequestLines, 0, 6)
    BY <2>1, <2>5, <2>6 DEF Full
  <2>8. \A i \in 1 .. 11 : 8 < i => s[i] \notin DOMAIN NapLines
    BY <1>3, <2>2
  <2>9. Leads(s, NapLines, "wakeup", "wakeup")
    BY <1>3, <2>1, <2>2, <2>8 DEF Leads
  <2>. QED
    BY <2>3, <2>7, <2>9
<1>7. CASE s = << R, W, L, M[1], L, M[2], W, W, M[3], L, M[4] >>
  <2>1. DOMAIN s = 1 .. 11
    BY <1>7
  <2>2. /\ s[1] = R /\ s[2] = W /\ s[3] = L /\ s[4] = M[1] /\ s[5] = L /\ s[6] = M[2]
        /\ s[7] = W /\ s[8] = W /\ s[9] = M[3] /\ s[10] = L /\ s[11] = M[4]
    BY <1>7
  <2>3. s \in Seq(ServerLines)
    BY <1>4, <1>7
  <2>4. \A i \in 1 .. 11 : s[i] \in DOMAIN RequestLines =>
          \/ (i = 4 /\ RequestLines[s[i]] = 1) \/ (i = 6 /\ RequestLines[s[i]] = 2)
          \/ (i = 9 /\ RequestLines[s[i]] = 3) \/ (i = 11 /\ RequestLines[s[i]] = 4)
    BY <1>3, <2>2
  <2>5. Rises(s, RequestLines, 0, 4)
    BY <2>1, <2>4 DEF Rises
  <2>6. \A k \in Int : 0 < k /\ k <= 4 => \E i \in 1 .. 11 : s[i] \in DOMAIN RequestLines /\ RequestLines[s[i]] = k
    <3>1. \A k \in Int : 0 < k /\ k <= 4 => k = 1 \/ k = 2 \/ k = 3 \/ k = 4
      OBVIOUS
    <3>. QED
      BY <1>3, <2>2, <3>1
  <2>7. Full(s, RequestLines, 0, 4)
    BY <2>1, <2>5, <2>6 DEF Full
  <2>8. \A i \in 1 .. 11 : 10 < i => s[i] \notin DOMAIN NapLines
    BY <1>3, <2>2
  <2>9. Leads(s, NapLines, "wakeup", "sleep")
    BY <1>3, <2>1, <2>2, <2>8 DEF Leads
  <2>. QED
    BY <2>3, <2>7, <2>9
<1>. QED
  BY <1>1, <1>5, <1>6, <1>7 DEF ServerScripts

LEMMA ServerInitially ==
  ASSUME ServerInit, ActorsInit(AllActors, ServerScripts)
  PROVE  ServerInv
<1>1. /\ reference = FALSE /\ asleep = FALSE /\ put_off = <<>> /\ printed = <<>>
      /\ script \in ServerScripts /\ "client" \in DOMAIN mailbox /\ "server" \in DOMAIN mailbox
      /\ mailbox["client"] = <<>> /\ mailbox["server"] = <<>>
  BY DEF ServerInit, ActorsInit, AllActors, ServerActors
<1>2. ServerTypes
  <2>1. script \in Seq(ServerLines)
    BY <1>1, ServerScriptsAreFull
  <2>2. <<>> \in Seq(ClientMail) /\ <<>> \in Seq(ServerMail) /\ <<>> \in Seq(DOMAIN Requests) /\ <<>> \in Seq(Nat)
    OBVIOUS
  <2>. QED
    BY <1>1, <2>1, <2>2 DEF ServerTypes
<1>3. PICK n \in Nat : \E end :
        /\ (n = 6 /\ end = "wakeup") \/ (n = 4 /\ end = "sleep")
        /\ Full(script, RequestLines, 0, n) /\ Leads(script, NapLines, "wakeup", end)
  BY <1>1, ServerScriptsAreFull
<1>. PICK end :
       /\ (n = 6 /\ end = "wakeup") \/ (n = 4 /\ end = "sleep")
       /\ Full(script, RequestLines, 0, n) /\ Leads(script, NapLines, "wakeup", end)
  BY <1>3
<1>4. Places(0, 0, 0, 0, 0, n)
  <2>1. /\ Full(<<>>, Answers, 0, 0) /\ Full(<<>>, Requests, 0, 0)
        /\ Len(<<>>) = 0 /\ DOMAIN <<>> = {}
    BY FullEmpty
  <2>. QED
    BY <1>1, <1>3, <2>1 DEF Places
<1>5. Course("wakeup", "wakeup", end)
  BY <1>1, <1>3, LeadsEmpty DEF Course, Mode
<1>. QED
  BY <1>1, <1>2, <1>3, <1>4, <1>5 DEF ServerInv

LEMMA ServerMeans == ServerInv => AnsweredInOrder
<1> SUFFICES ASSUME ServerInv PROVE AnsweredInOrder
  OBVIOUS
<1>1. PICK n \in Nat : \E end :
        /\ (n = 6 /\ end = "wakeup") \/ (n = 4 /\ end = "sleep")
        /\ \E a \in Nat, b \in Nat, c \in Nat, d \in Nat, e \in Nat : Places(a, b, c, d, e, n)
        /\ \E p, q : Course(p, q, end)
  BY DEF ServerInv
<1>2. PICK end :
        /\ (n = 6 /\ end = "wakeup") \/ (n = 4 /\ end = "sleep")
        /\ \E a \in Nat, b \in Nat, c \in Nat, d \in Nat, e \in Nat : Places(a, b, c, d, e, n)
        /\ \E p, q : Course(p, q, end)
  BY <1>1
<1>3. PICK a \in Nat, b \in Nat, c \in Nat, d \in Nat, e \in Nat : Places(a, b, c, d, e, n)
  BY <1>2
<1>4. PICK p, q : Course(p, q, end)
  BY <1>2
<1>5. Len(printed) = a /\ \A i \in DOMAIN printed : printed[i] = i
  BY <1>3 DEF Places
<1>6. ASSUME AllTold, AtRest
      PROVE  a = b /\ Len(put_off) = c - b /\ c = n /\ Mode = end
  <2>1. script = <<>> /\ mailbox["client"] = <<>> /\ mailbox["server"] = <<>>
    BY <1>6 DEF AllTold, AtRest, ServerInv, ServerTypes
  <2>2. Full(<<>>, Answers, a, b) /\ Full(<<>>, Requests, c, d) /\ Full(<<>>, Requests, d, e) /\ Full(<<>>, RequestLines, e, n)
    BY <1>3, <2>1 DEF Places
  <2>3. a = b /\ c = d /\ d = e /\ e = n
    BY <2>2, FullEmpty
  <2>4. Leads(<<>>, Naps, Mode, p) /\ Leads(<<>>, Naps, p, q) /\ Leads(<<>>, NapLines, q, end)
    BY <1>4, <2>1 DEF Course
  <2>5. Mode = end
    BY <2>4, LeadsEmpty
  <2>. QED
    BY <1>3, <2>3, <2>5 DEF Places
<1>7. ASSUME AllTold, AtRest, ~ asleep PROVE put_off = <<>> /\ Len(printed) = 6
  <2>1. put_off = <<>> /\ Mode = "wakeup"
    BY <1>7 DEF ServerInv, Mode
  <2>2. n = 6 /\ Len(put_off) = 0
    BY <1>2, <1>6, <1>7, <2>1
  <2>. QED
    BY <1>5, <1>6, <1>7, <2>1, <2>2
<1>8. ASSUME AllTold, AtRest, asleep PROVE Len(printed) + Len(put_off) = 4
  <2>1. Mode = "sleep"
    BY <1>8 DEF Mode
  <2>2. n = 4
    BY <1>2, <1>6, <1>8, <2>1
  <2>. QED
    BY <1>5, <1>6, <1>8, <2>2
<1>. QED
  BY <1>5, <1>7, <1>8 DEF AnsweredInOrder

LEMMA ServerInvStep ==
  ASSUME ServerInv, ServerActorStep \/ ((MainSleeps \/ MainTells) /\ UNCHANGED serverVars) \/ UNCHANGED <<actorVars, serverVars>>
  PROVE  ServerInv'
<1>1. PICK n \in Nat : \E end :
        /\ (n = 6 /\ end = "wakeup") \/ (n = 4 /\ end = "sleep")
        /\ \E a \in Nat, b \in Nat, c \in Nat, d \in Nat, e \in Nat : Places(a, b, c, d, e, n)
        /\ \E p, q : Course(p, q, end)
  BY DEF ServerInv
<1>2. PICK end :
        /\ (n = 6 /\ end = "wakeup") \/ (n = 4 /\ end = "sleep")
        /\ \E a \in Nat, b \in Nat, c \in Nat, d \in Nat, e \in Nat : Places(a, b, c, d, e, n)
        /\ \E p, q : Course(p, q, end)
  BY <1>1
<1>3. PICK a \in Nat, b \in Nat, c \in Nat, d \in Nat, e \in Nat : Places(a, b, c, d, e, n)
  BY <1>2
<1>4. PICK p, q : Course(p, q, end)
  BY <1>2
<1>5. ServerAt(a, b, c, d, e, n, p, q, end)
  BY <1>3, <1>4 DEF ServerAt, ServerInv
<1>6. CASE ClientSetServer \/ clientOnMessage \/ clientOnSleepOrWakeup
  <2>1. PICK f \in Nat, g \in Nat : \E r : ServerAt(f, b, c, g, e, n, r, q, end)'
    BY <1>5, <1>6, HandledByTheClient
  <2>. QED
    BY <1>2, <2>1 DEF ServerAt, ServerInv
<1>7. CASE ServerStep
  <2>1. PICK f \in Nat, g \in Nat : ServerAt(a, f, g, d, e, n, p, q, end)'
    BY <1>5, <1>7, HandledByTheServer
  <2>. QED
    BY <1>2, <2>1 DEF ServerAt, ServerInv
<1>8. CASE MainTells /\ UNCHANGED serverVars
  <2>1. ServerTypes' /\ (\E f \in Nat : Places(a, b, c, d, f, n)') /\ (\E r : Course(p, r, end)')
    BY <1>3, <1>4, <1>8, MainTellsClient DEF ServerInv
  <2>2. ~ asleep' => put_off' = <<>>
    BY <1>8 DEF serverVars, ServerInv
  <2>. QED
    BY <1>2, <2>1, <2>2 DEF ServerInv
<1>9. CASE MainSleeps /\ UNCHANGED serverVars
  <2>1. ServerTypes' /\ Places(a, b, c, d, e, n)' /\ Course(p, q, end)'
    BY <1>3, <1>4, <1>9, MainSleepsHere DEF ServerInv
  <2>2. ~ asleep' => put_off' = <<>>
    BY <1>9 DEF serverVars, ServerInv
  <2>. QED
    BY <1>2, <2>1, <2>2 DEF ServerInv
<1>10. CASE UNCHANGED <<actorVars, serverVars>>
  <2>0. UNCHANGED <<script, mailbox, reference, asleep, put_off, printed>>
    BY <1>10 DEF actorVars, serverVars
  <2>1. ServerTypes'
    BY <2>0 DEF ServerInv, ServerTypes
  <2>2. Places(a, b, c, d, e, n)'
    BY <1>3, <2>0, Zenon DEF Places
  <2>3. Course(p, q, end)'
    BY <1>4, <2>0, Zenon DEF Course, Mode
  <2>4. ~ asleep' => put_off' = <<>>
    BY <2>0 DEF ServerInv
  <2>. QED
    BY <1>2, <2>1, <2>2, <2>3, <2>4 DEF ServerInv
<1>. QED
  BY <1>6, <1>7, <1>8, <1>9, <1>10 DEF ServerActorStep

(***************************************************************************)
(* The contact lists: of every name, the address that the list will have   *)
(* when it has handled its mailbox is the one the client put last.         *)
(***************************************************************************)

Names  == {"sacca", "spanga", "Fail", "other"}
Emails == {"a", "b", "c"}
Replies == Emails \cup {"NON TROVATO"}

PutMail     == {PutMessage(n, e) : n \in Names, e \in Emails}
GetMail     == {GetMessage(n) : n \in Names \ {"Fail"}}
ListMail    == PutMail \cup GetMail
ContactMail == ListMail \cup {ReferenceMessage}

\* Which address a message puts for this name.
PutsOf(n) == [m \in {PutMessage(n, e) : e \in Emails} |-> m.email]

\* A list has one address for a name.
OneEach(list) ==
  /\ list \subseteq Names \X Emails
  /\ \A n \in Names, e \in Emails, f \in Emails : <<n, e>> \in list /\ <<n, f>> \in list => e = f

ContactTypes ==
  /\ script \in Seq({ToTell("client", m) : m \in ContactMail})
  /\ "client" \in DOMAIN mailbox /\ "contact" \in DOMAIN mailbox
  /\ mailbox["client"] \in Seq(ContactMail) /\ mailbox["contact"] \in Seq(ListMail)
  /\ lab \in {"lab3", "lab5"} /\ server \in BOOLEAN
  /\ OneEach(contacts) /\ OneEach(passed_on)
  /\ asked \in (Names \ {"Fail"}) \cup {Nothing}
  /\ prints \in Seq([answer : Replies, due : Replies])

IsPending == \/ \E i \in DOMAIN script : script[i].msg = ReferenceMessage
             \/ \E i \in DOMAIN mailbox["client"] : mailbox["client"][i] = ReferenceMessage

\* main tells the client the reference first, and once.
ToldOnce ==
  /\ \A i \in DOMAIN script : script[i].msg = ReferenceMessage => i = 1 /\ mailbox["client"] = <<>>
  /\ \A i \in DOMAIN mailbox["client"] : mailbox["client"][i] = ReferenceMessage => i = 1
  /\ IsPending => ~ server /\ mailbox["contact"] = <<>> /\ contacts = {} /\ passed_on = {}

Agree ==
  \A n \in Names \ {"Fail"} : Leads(mailbox["contact"], PutsOf(n), Found(contacts, n), Found(passed_on, n))

\* The last message of the list's mailbox is the question, and the only one.
Asking ==
  /\ answer = Nothing /\ Agree
  /\ mailbox["contact"] # <<>> /\ mailbox["contact"][Len(mailbox["contact"])] = GetMessage(asked)
  /\ \A i \in DOMAIN mailbox["contact"] : i < Len(mailbox["contact"]) => mailbox["contact"][i] \in PutMail

Answered == mailbox["contact"] = <<>> /\ answer = Found(passed_on, asked) /\ answer # Nothing /\ Agree

\* The list threw: there will be no answer.
Unanswered == mailbox["contact"] = <<>> /\ answer = Nothing

ContactsInv ==
  /\ ContactTypes /\ ToldOnce
  /\ \A i \in DOMAIN prints : prints[i].answer = prints[i].due
  /\ ~ server => ClientFree
  /\ server /\ ClientFree => Agree /\ \A i \in DOMAIN mailbox["contact"] : mailbox["contact"][i] \in PutMail
  /\ ~ ClientFree => Asking \/ Answered \/ Unanswered

LEMMA FoundIs ==
  ASSUME NEW list, OneEach(list), NEW n \in Names
  PROVE  /\ \A e \in Emails : Found(list, n) = e <=> <<n, e>> \in list
         /\ (\A e \in Emails : <<n, e>> \notin list) => Found(list, n) = "NON TROVATO"
         /\ Found(list, n) # Nothing /\ Found(list, n) \in Replies
<1>1. CASE \E e \in Emails : <<n, e>> \in list
  <2>1. PICK e \in Emails : <<n, e>> \in list
    BY <1>1
  <2>2. PICK f : f = Found(list, n)
    OBVIOUS
  <2>3. f \in Emails /\ <<n, f>> \in list
    BY <2>1, <2>2 DEF Found, Emails
  <2>4. \A g \in Emails : <<n, g>> \in list => f = g
    BY <2>3 DEF OneEach
  <2>5. f # Nothing
    BY <2>3 DEF Emails, Nothing
  <2>. QED
    BY <2>1, <2>2, <2>3, <2>4, <2>5 DEF Replies
<1>2. CASE \A e \in Emails : <<n, e>> \notin list
  <2>1. Found(list, n) = "NON TROVATO"
    BY <1>2 DEF Found, Emails
  <2>2. "NON TROVATO" \notin Emails /\ "NON TROVATO" # Nothing
    BY DEF Emails, Nothing
  <2>. QED
    BY <1>2, <2>1, <2>2 DEF Replies
<1>. QED
  BY <1>1, <1>2 DEF Replies

LEMMA FoundSame ==
  ASSUME NEW list, OneEach(list), NEW other, OneEach(other), NEW n \in Names,
         \A e \in Emails : <<n, e>> \in list <=> <<n, e>> \in other
  PROVE  Found(list, n) = Found(other, n)
<1>1. CASE \E e \in Emails : <<n, e>> \in list
  BY <1>1, FoundIs
<1>2. CASE \A e \in Emails : <<n, e>> \notin list
  BY <1>2, FoundIs
<1>. QED
  BY <1>1, <1>2

LEMMA PutChanges ==
  ASSUME NEW list, OneEach(list), NEW m \in PutMail
  PROVE  /\ OneEach(Put(list, m)) /\ m.name \in Names /\ m.email \in Emails
         /\ Found(Put(list, m), m.name) = m.email
         /\ \A n \in Names : n # m.name => Found(Put(list, m), n) = Found(list, n)
<1>1. PICK n \in Names, e \in Emails : m = PutMessage(n, e) /\ m.name = n /\ m.email = e
  BY DEF PutMail, PutMessage
<1>2. PICK l : l = Put(list, m)
  OBVIOUS
<1>3. l = {c \in list : c[1] # n} \cup {<<n, e>>}
  BY <1>1, <1>2 DEF Put
<1>4. \A k \in Names, f \in Emails : <<k, f>> \in l <=> (k # n /\ <<k, f>> \in list) \/ (k = n /\ f = e)
  BY <1>3
<1>5. OneEach(l)
  <2>1. l \subseteq Names \X Emails
    BY <1>3 DEF OneEach
  <2>2. \A k \in Names, f \in Emails, g \in Emails : <<k, f>> \in l /\ <<k, g>> \in l => f = g
    BY <1>4 DEF OneEach
  <2>. QED
    BY <2>1, <2>2 DEF OneEach
<1>6. Found(l, n) = e
  BY <1>4, <1>5, FoundIs
<1>7. ASSUME NEW k \in Names, k # n PROVE Found(l, k) = Found(list, k)
  <2>1. \A f \in Emails : <<k, f>> \in l <=> <<k, f>> \in list
    BY <1>4, <1>7
  <2>. QED
    BY <1>5, <2>1, FoundSame
<1>. QED
  BY <1>1, <1>2, <1>5, <1>6, <1>7

LEMMA ContactMailFacts ==
  /\ \A m \in PutMail :
       /\ m.type = "put" /\ m.name \in Names /\ m.email \in Emails /\ m \notin GetMail /\ m # ReferenceMessage
       /\ m \in DOMAIN PutsOf(m.name) /\ PutsOf(m.name)[m] = m.email
       /\ \A n \in Names : n # m.name => m \notin DOMAIN PutsOf(n)
  /\ \A m \in GetMail :
       /\ m.type = "get" /\ m.name \in Names \ {"Fail"} /\ m \notin PutMail /\ m # ReferenceMessage
       /\ m = GetMessage(m.name)
       /\ \A n \in Names : m \notin DOMAIN PutsOf(n)
  /\ ReferenceMessage.type = "server"
<1>1. \A n, e : /\ PutMessage(n, e).type = "put" /\ PutMessage(n, e).name = n /\ PutMessage(n, e).email = e
                /\ GetMessage(n).type = "get" /\ GetMessage(n).name = n
  BY DEF PutMessage, GetMessage
<1>2. ReferenceMessage.type = "server"
  BY DEF ReferenceMessage
<1>3. \A n : /\ DOMAIN PutsOf(n) = {PutMessage(n, e) : e \in Emails}
             /\ \A m \in DOMAIN PutsOf(n) : PutsOf(n)[m] = m.email
  BY DEF PutsOf
<1>4. /\ \A m \in PutMail : \E n \in Names, e \in Emails : m = PutMessage(n, e)
      /\ \A m \in GetMail : \E n \in Names \ {"Fail"} : m = GetMessage(n)
  BY DEF PutMail, GetMail
<1>5. ASSUME NEW m \in PutMail
      PROVE  /\ m.type = "put" /\ m.name \in Names /\ m.email \in Emails /\ m \notin GetMail /\ m # ReferenceMessage
             /\ m \in DOMAIN PutsOf(m.name) /\ PutsOf(m.name)[m] = m.email
             /\ \A n \in Names : n # m.name => m \notin DOMAIN PutsOf(n)
  <2>1. PICK n \in Names, e \in Emails : m = PutMessage(n, e)
    BY <1>4
  <2>2. m.type = "put" /\ m.name = n /\ m.email = e
    BY <1>1, <2>1
  <2>3. m \notin GetMail /\ m # ReferenceMessage
    BY <1>1, <1>2, <1>4, <2>2
  <2>4. m \in DOMAIN PutsOf(n) /\ PutsOf(n)[m] = e
    BY <1>3, <2>1, <2>2
  <2>5. ASSUME NEW k \in Names, m \in DOMAIN PutsOf(k) PROVE k = n
    <3>1. PICK f \in Emails : m = PutMessage(k, f)
      BY <1>3, <2>5
    <3>2. m.name = k
      BY <1>1, <3>1
    <3>. QED
      BY <2>2, <3>2
  <2>. QED
    BY <2>2, <2>3, <2>4, <2>5
<1>6. ASSUME NEW m \in GetMail
      PROVE  /\ m.type = "get" /\ m.name \in Names \ {"Fail"} /\ m \notin PutMail /\ m # ReferenceMessage
             /\ m = GetMessage(m.name)
             /\ \A n \in Names : m \notin DOMAIN PutsOf(n)
  <2>1. PICK n \in Names \ {"Fail"} : m = GetMessage(n)
    BY <1>4
  <2>2. m.type = "get" /\ m.name = n
    BY <1>1, <2>1
  <2>3. m \notin PutMail /\ m # ReferenceMessage
    BY <1>1, <1>2, <1>4, <2>2
  <2>4. ASSUME NEW k \in Names, m \in DOMAIN PutsOf(k) PROVE FALSE
    <3>1. PICK f \in Emails : m = PutMessage(k, f)
      BY <1>3, <2>4
    <3>2. m.type = "put"
      BY <1>1, <3>1
    <3>. QED
      BY <2>2, <3>2
  <2>. QED
    BY <2>1, <2>2, <2>3, <2>4
<1>. QED
  BY <1>2, <1>5, <1>6

LEMMA NoneIsPending ==
  ASSUME ContactTypes, ToldOnce, mailbox["client"] # <<>>,
         mailbox'["client"] = Tail(mailbox["client"]), script' = script
  PROVE  ~ IsPending' /\ ToldOnce'
<1>1. PICK s, t : s = mailbox["client"] /\ t = Tail(s)
  OBVIOUS
<1>2. s \in Seq(ContactMail) /\ s # <<>>
  BY <1>1 DEF ContactTypes
<1>3. \A i \in DOMAIN t : t[i] # ReferenceMessage
  <2>1. SUFFICES ASSUME NEW i \in DOMAIN t, t[i] = ReferenceMessage PROVE FALSE
    OBVIOUS
  <2>2. i + 1 \in DOMAIN s /\ s[i + 1] = t[i] /\ i \in Int /\ i >= 1
    BY <1>1, <1>2, TailFacts
  <2>3. i + 1 = 1
    BY <1>1, <2>1, <2>2 DEF ToldOnce
  <2>. QED
    BY <2>2, <2>3
<1>4. \A i \in DOMAIN script : script[i].msg # ReferenceMessage
  BY <1>1, <1>2 DEF ToldOnce
<1>. QED
  BY <1>1, <1>3, <1>4 DEF IsPending, ToldOnce

LEMMA StillNone ==
  ASSUME ToldOnce, mailbox["contact"] # <<>> \/ server,
         mailbox'["client"] = mailbox["client"], script' = script
  PROVE  ~ IsPending' /\ ToldOnce'
<1>1. ~ IsPending
  BY DEF ToldOnce
<1>. QED
  BY <1>1 DEF IsPending, ToldOnce

LEMMA ContactsInitially ==
  ASSUME ContactInit, ActorsInit(AllActors, ContactScripts)
  PROVE  ContactsInv
<1>1. /\ server = FALSE /\ contacts = {} /\ passed_on = {} /\ asked = Nothing /\ prints = <<>> /\ lab \in {"lab3", "lab5"}
      /\ script \in ContactScripts /\ "client" \in DOMAIN mailbox /\ "contact" \in DOMAIN mailbox
      /\ mailbox["client"] = <<>> /\ mailbox["contact"] = <<>>
  BY DEF ContactInit, ActorsInit, AllActors, ContactActors
<1>2. PICK L : L = [m \in ContactMail |-> ToTell("client", m)]
  OBVIOUS
<1>3. \A m \in ContactMail : L[m] \in {ToTell("client", x) : x \in ContactMail} /\ L[m].msg = m
  BY <1>2 DEF ToTell
<1>4. /\ \A n \in Names, e \in Emails : PutMessage(n, e) \in ContactMail /\ Puts(n, e) = L[PutMessage(n, e)]
                                        /\ PutMessage(n, e) # ReferenceMessage
      /\ \A n \in Names \ {"Fail"} : GetMessage(n) \in ContactMail /\ Gets(n) = L[GetMessage(n)] /\ GetMessage(n) # ReferenceMessage
      /\ ReferenceMessage \in ContactMail /\ ToTell("client", ReferenceMessage) = L[ReferenceMessage]
  <2>1. /\ \A n \in Names, e \in Emails : PutMessage(n, e) \in PutMail
        /\ \A n \in Names \ {"Fail"} : GetMessage(n) \in GetMail
    BY DEF PutMail, GetMail
  <2>2. PutMail \subseteq ContactMail /\ GetMail \subseteq ContactMail /\ ReferenceMessage \in ContactMail
    BY DEF ContactMail, ListMail
  <2>. QED
    BY <1>2, <2>1, <2>2, ContactMailFacts DEF Puts, Gets
<1>5. script \in Seq({ToTell("client", m) : m \in ContactMail}) /\ \A i \in DOMAIN script : script[i].msg = ReferenceMessage => i = 1
  <2>1. PICK r, sa, sb, sc, fa, ga, gb, go :
          /\ r = ToTell("client", ReferenceMessage) /\ sa = Puts("sacca", "a") /\ sb = Puts("spanga", "b") /\ sc = Puts("sacca", "c")
          /\ fa = Puts("Fail", "a") /\ ga = Gets("sacca") /\ gb = Gets("spanga") /\ go = Gets("other")
    OBVIOUS
  <2>2. /\ "sacca" \in Names \ {"Fail"} /\ "spanga" \in Names \ {"Fail"} /\ "other" \in Names \ {"Fail"} /\ "Fail" \in Names
        /\ "a" \in Emails /\ "b" \in Emails /\ "c" \in Emails
    BY DEF Names, Emails
  <2>3. /\ {r, sa, sb, sc, fa, ga, gb, go} \subseteq {ToTell("client", m) : m \in ContactMail}
        /\ \A x \in {sa, sb, sc, fa, ga, gb, go} : x.msg # ReferenceMessage
    BY <1>3, <1>4, <2>1, <2>2
  <2>4. ASSUME NEW u \in Seq({ga, gb, go, fa, sc}), script = << r, sa, sb >> \o u
        PROVE  /\ script \in Seq({r, sa, sb, sc, fa, ga, gb, go})
               /\ \A i \in DOMAIN script : i = 1 \/ script[i] \in {sa, sb, sc, fa, ga, gb, go}
    <3>1. PICK v : v = << r, sa, sb >>
      OBVIOUS
    <3>2. PICK X : X = {r, sa, sb, sc, fa, ga, gb, go}
      OBVIOUS
    <3>3. v \in Seq(X) /\ \A i \in DOMAIN v : i = 1 \/ v[i] \in {sa, sb}
      BY <3>1, <3>2
    <3>4. u \in Seq(X)
      BY <3>2, SeqMonotonic
    <3>5. \A i \in DOMAIN u : u[i] \in {ga, gb, go, fa, sc}
      OBVIOUS
    <3>6. script = v \o u
      BY <2>4, <3>1
    <3>7. /\ script \in Seq(X)
          /\ \A i \in DOMAIN v : script[i] = v[i]
          /\ \A i \in DOMAIN u : script[i + Len(v)] = u[i]
          /\ \A i \in DOMAIN script : i \in DOMAIN v \/ \E j \in DOMAIN u : i = j + Len(v)
      BY <3>3, <3>4, <3>6, ConcatFacts, SMTT(60)
    <3>. QED
      BY <3>2, <3>3, <3>5, <3>7
  <2>5. << ga, gb, fa, ga, gb >> \in Seq({ga, gb, go, fa, sc}) /\ << gb, go, sc, ga >> \in Seq({ga, gb, go, fa, sc})
    OBVIOUS
  <2>6. script = << r, sa, sb >> \o << ga, gb, fa, ga, gb >> \/ script = << r, sa, sb >> \o << gb, go, sc, ga >>
    BY <1>1, <2>1 DEF ContactScripts
  <2>7. /\ script \in Seq({r, sa, sb, sc, fa, ga, gb, go})
        /\ \A i \in DOMAIN script : i = 1 \/ script[i] \in {sa, sb, sc, fa, ga, gb, go}
    BY <2>4, <2>5, <2>6
  <2>. QED
    BY <2>3, <2>7, SeqMonotonic
<1>6. OneEach({}) /\ <<>> \in Seq(ContactMail) /\ <<>> \in Seq(ListMail) /\ <<>> \in Seq([answer : Replies, due : Replies])
  BY DEF OneEach
<1>7. ContactTypes
  BY <1>1, <1>5, <1>6 DEF ContactTypes
<1>8. ToldOnce
  BY <1>1, <1>5 DEF ToldOnce
<1>. QED
  BY <1>1, <1>7, <1>8 DEF ContactsInv, ClientFree

LEMMA MainTellsTheContacts ==
  ASSUME ContactsInv, MainTells, UNCHANGED contactVars
  PROVE  ContactsInv'
<1>1. PICK l, t, s, m : l = Head(script) /\ t = Tail(script) /\ s = mailbox["client"] /\ m = l.msg
  OBVIOUS
<1>2. /\ script # <<>> /\ script \in Seq({ToTell("client", x) : x \in ContactMail}) /\ s \in Seq(ContactMail)
      /\ "client" \in DOMAIN mailbox /\ "contact" \in DOMAIN mailbox
  BY <1>1 DEF MainTells, AllTold, ContactsInv, ContactTypes
<1>3. l.to = "client" /\ m \in ContactMail /\ t \in Seq({ToTell("client", x) : x \in ContactMail})
  <2>1. l \in {ToTell("client", x) : x \in ContactMail} /\ t \in Seq({ToTell("client", x) : x \in ContactMail})
    BY <1>1, <1>2
  <2>. QED
    BY <1>1, <2>1 DEF ToTell
<1>4. /\ mailbox'["client"] = Append(s, m) /\ mailbox'["contact"] = mailbox["contact"]
      /\ DOMAIN mailbox' = DOMAIN mailbox /\ script' = t
  BY <1>1, <1>2, <1>3, MainTellsChanges
<1>5. Append(s, m) \in Seq(ContactMail)
  BY <1>2, <1>3
<1>6. ContactTypes'
  BY <1>2, <1>3, <1>4, <1>5 DEF ContactsInv, ContactTypes, contactVars
<1>7. ToldOnce'
  <2>1. \A i \in DOMAIN t : t[i].msg # ReferenceMessage
    <3>1. SUFFICES ASSUME NEW i \in DOMAIN t, t[i].msg = ReferenceMessage PROVE FALSE
      OBVIOUS
    <3>2. i + 1 \in DOMAIN script /\ script[i + 1] = t[i] /\ i \in Int /\ i >= 1
      BY <1>1, <1>2, TailFacts
    <3>3. i + 1 = 1
      BY <3>1, <3>2 DEF ContactsInv, ToldOnce
    <3>. QED
      BY <3>2, <3>3
  <2>2. 1 \in DOMAIN script /\ l = script[1]
    BY <1>1, <1>2, TailFacts
  <2>3. PICK u : u = Append(s, m)
    OBVIOUS
  <2>4. CASE m = ReferenceMessage
    <3>1. s = <<>> /\ IsPending
      BY <1>1, <2>2, <2>4 DEF ContactsInv, ToldOnce, IsPending
    <3>2. \A i \in DOMAIN u : i = 1
      BY <2>3, <3>1
    <3>. QED
      BY <1>4, <2>1, <2>3, <3>1, <3>2 DEF ContactsInv, ToldOnce, IsPending, contactVars
  <2>5. CASE m # ReferenceMessage
    <3>1. PICK n : \A i \in DOMAIN u : (i = n /\ u[n] = m) \/ i \in DOMAIN s
      BY <1>2, <1>3, <2>3, AppendFacts
    <3>2. \A i \in DOMAIN s : u[i] = s[i]
      BY <1>2, <1>3, <2>3, AppendFacts
    <3>3. \A i \in DOMAIN u : u[i] = ReferenceMessage => i \in DOMAIN s /\ s[i] = ReferenceMessage
      BY <2>5, <3>1, <3>2
    <3>4. \A i \in DOMAIN u : u[i] = ReferenceMessage => i = 1 /\ IsPending
      BY <1>1, <3>3 DEF ContactsInv, ToldOnce, IsPending
    <3>. QED
      BY <1>4, <2>1, <2>3, <3>4 DEF ContactsInv, ToldOnce, IsPending, contactVars
  <2>. QED
    BY <2>4, <2>5
<1>8. prints' = prints /\ ClientFree' = ClientFree /\ server' = server
  BY DEF contactVars, ClientFree
<1>9. (Agree' <=> Agree) /\ (Asking' <=> Asking) /\ (Answered' <=> Answered) /\ (Unanswered' <=> Unanswered)
  BY <1>4 DEF Agree, Asking, Answered, Unanswered, contactVars
<1>. QED
  BY <1>4, <1>6, <1>7, <1>8, <1>9 DEF ContactsInv

LEMMA AgreeOnPut ==
  ASSUME ContactTypes, Agree, NEW m \in PutMail,
         mailbox'["contact"] = Append(mailbox["contact"], m), contacts' = contacts, passed_on' = Put(passed_on, m)
  PROVE  Agree' /\ OneEach(passed_on')
<1>1. PICK b : b = mailbox["contact"]
  OBVIOUS
<1>2. b \in Seq(ListMail) /\ m \in ListMail
  BY <1>1 DEF ContactTypes, ListMail
<1>3. OneEach(passed_on') /\ Found(passed_on', m.name) = m.email /\ \A n \in Names : n # m.name => Found(passed_on', n) = Found(passed_on, n)
  BY PutChanges DEF ContactTypes
<1>4. ASSUME NEW n \in Names \ {"Fail"}
      PROVE Leads(mailbox'["contact"], PutsOf(n), Found(contacts', n), Found(passed_on', n))
  <2>1. PICK from, end, to : from = Found(contacts, n) /\ end = Found(passed_on, n) /\ to = PutsOf(n)
    OBVIOUS
  <2>2. Leads(b, to, from, end)
    BY <1>1, <2>1 DEF Agree
  <2>3. Leads(Append(b, m), to, from, IF m \in DOMAIN to THEN to[m] ELSE end)
    BY <1>2, <2>2, LeadsAppend
  <2>4. (IF m \in DOMAIN to THEN to[m] ELSE end) = Found(passed_on', n)
    <3>1. CASE n = m.name
      BY <1>3, <2>1, <3>1, ContactMailFacts
    <3>2. CASE n # m.name
      BY <1>3, <2>1, <3>2, ContactMailFacts
    <3>. QED
      BY <3>1, <3>2
  <2>. QED
    BY <1>1, <2>1, <2>3, <2>4
<1>. QED
  BY <1>3, <1>4 DEF Agree

LEMMA AgreeOnGet ==
  ASSUME ContactTypes, Agree, NEW m \in GetMail,
         mailbox'["contact"] = Append(mailbox["contact"], m), contacts' = contacts, passed_on' = passed_on
  PROVE  Agree'
<1>1. PICK b : b = mailbox["contact"]
  OBVIOUS
<1>2. b \in Seq(ListMail) /\ m \in ListMail
  BY <1>1 DEF ContactTypes, ListMail
<1>3. ASSUME NEW n \in Names \ {"Fail"}
      PROVE Leads(mailbox'["contact"], PutsOf(n), Found(contacts', n), Found(passed_on', n))
  <2>1. PICK from, end, to : from = Found(contacts, n) /\ end = Found(passed_on, n) /\ to = PutsOf(n)
    OBVIOUS
  <2>2. Leads(b, to, from, end) /\ m \notin DOMAIN to
    BY <1>1, <2>1, ContactMailFacts DEF Agree
  <2>3. Leads(Append(b, m), to, from, end)
    BY <1>2, <2>2, LeadsAppend
  <2>. QED
    BY <1>1, <2>1, <2>3
<1>. QED
  BY <1>3 DEF Agree

LEMMA AgreeOnListPut ==
  ASSUME ContactTypes, Agree, mailbox["contact"] # <<>>, Head(mailbox["contact"]) \in PutMail,
         mailbox'["contact"] = Tail(mailbox["contact"]), passed_on' = passed_on,
         \/ contacts' = Put(contacts, Head(mailbox["contact"]))
         \/ Head(mailbox["contact"]).name = "Fail" /\ contacts' = contacts
  PROVE  Agree'
<1>1. PICK b, m : b = mailbox["contact"] /\ m = Head(b)
  OBVIOUS
<1>2. b \in Seq(ListMail) /\ b # <<>> /\ m \in PutMail
  BY <1>1 DEF ContactTypes
<1>3. \A n \in Names \ {"Fail"} : (n = m.name => Found(contacts', n) = m.email) /\ (n # m.name => Found(contacts', n) = Found(contacts, n))
  <2>1. CASE contacts' = Put(contacts, m)
    BY <1>2, <2>1, PutChanges DEF ContactTypes
  <2>2. CASE m.name = "Fail" /\ contacts' = contacts
    BY <2>2
  <2>. QED
    BY <1>1, <2>1, <2>2
<1>4. ASSUME NEW n \in Names \ {"Fail"}
      PROVE Leads(mailbox'["contact"], PutsOf(n), Found(contacts', n), Found(passed_on', n))
  <2>1. PICK from, end, to : from = Found(contacts, n) /\ end = Found(passed_on, n) /\ to = PutsOf(n)
    OBVIOUS
  <2>2. Leads(b, to, from, end)
    BY <1>1, <2>1 DEF Agree
  <2>3. Leads(Tail(b), to, IF Head(b) \in DOMAIN to THEN to[Head(b)] ELSE from, end)
    BY <1>2, <2>2, LeadsTail
  <2>4. (IF m \in DOMAIN to THEN to[m] ELSE from) = Found(contacts', n)
    <3>1. CASE n = m.name
      BY <1>2, <1>3, <2>1, <3>1, ContactMailFacts
    <3>2. CASE n # m.name
      BY <1>2, <1>3, <2>1, <3>2, ContactMailFacts
    <3>. QED
      BY <3>1, <3>2
  <2>. QED
    BY <1>1, <2>1, <2>3, <2>4
<1>. QED
  BY <1>4 DEF Agree

LEMMA AgreeOnListGet ==
  ASSUME ContactTypes, Agree, mailbox["contact"] # <<>>, Head(mailbox["contact"]) \in GetMail,
         mailbox'["contact"] = Tail(mailbox["contact"]), passed_on' = passed_on, contacts' = contacts
  PROVE  Agree'
<1>1. PICK b, m : b = mailbox["contact"] /\ m = Head(b)
  OBVIOUS
<1>2. b \in Seq(ListMail) /\ b # <<>> /\ m \in GetMail
  BY <1>1 DEF ContactTypes
<1>3. ASSUME NEW n \in Names \ {"Fail"}
      PROVE Leads(mailbox'["contact"], PutsOf(n), Found(contacts', n), Found(passed_on', n))
  <2>1. PICK from, end, to : from = Found(contacts, n) /\ end = Found(passed_on, n) /\ to = PutsOf(n)
    OBVIOUS
  <2>2. Leads(b, to, from, end) /\ Head(b) \notin DOMAIN to
    BY <1>1, <1>2, <2>1, ContactMailFacts DEF Agree
  <2>3. Leads(Tail(b), to, from, end)
    BY <1>2, <2>2, LeadsTail
  <2>. QED
    BY <1>1, <2>1, <2>3
<1>. QED
  BY <1>3 DEF Agree

LEMMA ClientOfTheContacts ==
  ASSUME ContactsInv, setServer \/ ClientOnPut \/ ClientOnGet
  PROVE  ContactsInv'
<1>1. PICK s, h, b : s = mailbox["client"] /\ h = Head(s) /\ b = mailbox["contact"]
  OBVIOUS
<1>2. /\ s \in Seq(ContactMail) /\ s # <<>> /\ h \in ContactMail /\ Tail(s) \in Seq(ContactMail) /\ b \in Seq(ListMail)
      /\ "client" \in DOMAIN mailbox /\ "contact" \in DOMAIN mailbox
      /\ ClientFree /\ lab' = lab /\ contacts' = contacts /\ prints' = prints
  <2>1. s \in Seq(ContactMail) /\ b \in Seq(ListMail) /\ "client" \in DOMAIN mailbox /\ "contact" \in DOMAIN mailbox
    BY <1>1 DEF ContactsInv, ContactTypes
  <2>2. s # <<>> /\ ClientFree /\ lab' = lab /\ contacts' = contacts /\ prints' = prints
    BY <1>1 DEF setServer, ClientOnPut, ClientOnGet, Handles
  <2>3. h \in ContactMail /\ Tail(s) \in Seq(ContactMail)
    BY <1>1, <2>1, <2>2
  <2>. QED
    BY <2>1, <2>2, <2>3
<1>3. ASSUME TellsNobody("client")
      PROVE  /\ mailbox'["client"] = Tail(s) /\ mailbox'["contact"] = b
             /\ DOMAIN mailbox' = DOMAIN mailbox /\ script' = script
  BY <1>1, <1>2, <1>3, TellsNobodyChanges
<1>4. ASSUME Tells("client", "contact", h)
      PROVE  /\ mailbox'["client"] = Tail(s) /\ mailbox'["contact"] = Append(b, h)
             /\ DOMAIN mailbox' = DOMAIN mailbox /\ script' = script
  BY <1>1, <1>2, <1>4, TellsChanges
<1>5. mailbox'["client"] = Tail(s) /\ script' = script
  BY <1>1, <1>3, <1>4 DEF setServer, ClientOnPut, ClientOnGet, Received
<1>6. ToldOnce' /\ ~ IsPending'
  BY <1>1, <1>2, <1>5, NoneIsPending DEF ContactsInv
<1>7. CASE setServer
  <2>1. /\ mailbox'["contact"] = b /\ DOMAIN mailbox' = DOMAIN mailbox /\ server' = TRUE
        /\ asked' = asked /\ answer' = answer /\ passed_on' = passed_on
    BY <1>3, <1>7 DEF setServer
  <2>2. ContactTypes'
    BY <1>1, <1>2, <1>5, <2>1 DEF ContactsInv, ContactTypes
  <2>3. h = ReferenceMessage
    BY <1>1, <1>2, <1>7, ContactMailFacts DEF setServer, Handles, ContactMail, ListMail
  <2>4. b = <<>> /\ contacts = {} /\ passed_on = {}
    <3>1. 1 \in DOMAIN s /\ s[1] = h
      BY <1>1, <1>2, TailFacts
    <3>2. IsPending
      BY <1>1, <2>3, <3>1 DEF IsPending
    <3>. QED
      BY <1>1, <3>2 DEF ContactsInv, ToldOnce
  <2>5. Agree'
    <3>1. \A n, x : Leads(<<>>, PutsOf(n), x, x)
      BY LeadsEmpty
    <3>. QED
      BY <1>1, <1>2, <2>1, <2>4, <3>1 DEF Agree
  <2>. QED
    BY <1>1, <1>2, <1>6, <2>1, <2>2, <2>4, <2>5 DEF ContactsInv, ClientFree
<1>8. CASE ClientOnPut
  <2>1. h \in PutMail
    BY <1>1, <1>2, <1>8, ContactMailFacts DEF ClientOnPut, Handles, ContactMail, ListMail
  <2>2. server' = server /\ asked' = asked /\ answer' = answer
    BY <1>8 DEF ClientOnPut
  <2>3. CASE server
    <3>1. /\ mailbox'["contact"] = Append(b, h) /\ DOMAIN mailbox' = DOMAIN mailbox /\ passed_on' = Put(passed_on, h)
      BY <1>1, <1>4, <1>8, <2>3 DEF ClientOnPut, Received
    <3>2. Agree /\ \A i \in DOMAIN b : b[i] \in PutMail
      BY <1>1, <1>2, <2>3 DEF ContactsInv
    <3>3. Agree' /\ OneEach(passed_on')
      BY <1>1, <1>2, <2>1, <3>1, <3>2, AgreeOnPut DEF ContactsInv
    <3>4. Append(b, h) \in Seq(ListMail)
      BY <1>2, <2>1 DEF ListMail
    <3>5. \A i \in DOMAIN Append(b, h) : Append(b, h)[i] \in PutMail
      <4>1. PICK u : u = Append(b, h)
        OBVIOUS
      <4>2. h \in ListMail
        BY <2>1 DEF ListMail
      <4>3. PICK n : u[n] = h /\ \A i \in DOMAIN u : i = n \/ i \in DOMAIN b
        BY <1>2, <4>1, <4>2, AppendFacts
      <4>4. \A i \in DOMAIN b : u[i] = b[i]
        BY <1>2, <4>1, <4>2, AppendFacts
      <4>. QED
        BY <2>1, <3>2, <4>1, <4>3, <4>4
    <3>6. ContactTypes'
      BY <1>1, <1>2, <1>5, <2>2, <3>1, <3>3, <3>4 DEF ContactsInv, ContactTypes
    <3>. QED
      BY <1>2, <1>6, <2>2, <2>3, <3>1, <3>3, <3>5, <3>6 DEF ContactsInv, ClientFree
  <2>4. CASE ~ server
    <3>1. mailbox'["contact"] = b /\ DOMAIN mailbox' = DOMAIN mailbox /\ passed_on' = passed_on
      BY <1>1, <1>3, <1>8, <2>4 DEF ClientOnPut
    <3>2. ContactTypes'
      BY <1>1, <1>2, <1>5, <2>2, <3>1 DEF ContactsInv, ContactTypes
    <3>. QED
      BY <1>2, <1>6, <2>2, <2>4, <3>1, <3>2 DEF ContactsInv, ClientFree
  <2>. QED
    BY <2>3, <2>4
<1>9. CASE ClientOnGet
  <2>1. h \in GetMail
    BY <1>1, <1>2, <1>9, ContactMailFacts DEF ClientOnGet, Handles, ContactMail, ListMail
  <2>2. server' = server /\ passed_on' = passed_on /\ answer' = Nothing
    BY <1>9 DEF ClientOnGet
  <2>3. CASE server
    <3>1. mailbox'["contact"] = Append(b, h) /\ DOMAIN mailbox' = DOMAIN mailbox /\ asked' = h.name
      BY <1>1, <1>4, <1>9, <2>3 DEF ClientOnGet, Received
    <3>2. Agree /\ \A i \in DOMAIN b : b[i] \in PutMail
      BY <1>1, <1>2, <2>3 DEF ContactsInv
    <3>3. Agree'
      BY <1>1, <1>2, <2>1, <2>2, <3>1, <3>2, AgreeOnGet DEF ContactsInv
    <3>4. Append(b, h) \in Seq(ListMail) /\ h.name \in Names \ {"Fail"} /\ h = GetMessage(h.name)
      BY <1>2, <2>1, ContactMailFacts DEF ListMail
    <3>5. ContactTypes'
      BY <1>1, <1>2, <1>5, <2>2, <3>1, <3>4 DEF ContactsInv, ContactTypes
    <3>6. Asking'
      <4>1. PICK u : u = Append(b, h)
        OBVIOUS
      <4>2. u # <<>> /\ u[Len(u)] = h /\ Len(u) = Len(b) + 1 /\ Len(b) \in Nat
        BY <1>2, <2>1, <4>1 DEF ListMail
      <4>3. \A i \in DOMAIN u : i < Len(u) => u[i] \in PutMail
        <5>1. SUFFICES ASSUME NEW i \in DOMAIN u, i < Len(u) PROVE u[i] \in PutMail
          OBVIOUS
        <5>2. i \in DOMAIN b /\ u[i] = b[i]
          BY <1>2, <4>1, <4>2, <5>1
        <5>. QED
          BY <3>2, <5>2
      <4>. QED
        BY <2>2, <3>1, <3>3, <3>4, <4>1, <4>2, <4>3 DEF Asking
    <3>7. ~ ClientFree'
      <4>1. Nothing \notin Names
        BY DEF Nothing, Names
      <4>. QED
        BY <3>1, <3>4, <4>1 DEF ClientFree
    <3>. QED
      BY <1>2, <1>6, <2>2, <2>3, <3>5, <3>6, <3>7 DEF ContactsInv
  <2>4. CASE ~ server
    <3>1. mailbox'["contact"] = b /\ DOMAIN mailbox' = DOMAIN mailbox /\ asked' = asked
      BY <1>1, <1>3, <1>9, <2>4 DEF ClientOnGet
    <3>2. ContactTypes'
      BY <1>1, <1>2, <1>5, <2>2, <3>1 DEF ContactsInv, ContactTypes
    <3>. QED
      BY <1>2, <1>6, <2>2, <2>4, <3>1, <3>2 DEF ContactsInv, ClientFree
  <2>. QED
    BY <2>3, <2>4
<1>. QED
  BY <1>7, <1>8, <1>9

LEMMA AskOfTheContacts ==
  ASSUME ContactsInv, IsAnswered \/ AskTimesOut
  PROVE  ContactsInv'
<1>1. ~ ClientFree /\ server
  BY DEF ContactsInv, IsAnswered, AskTimesOut
<1>2. UNCHANGED <<actorVars, lab, contacts, answer, passed_on>> /\ asked' = Nothing
  BY DEF IsAnswered, AskTimesOut
<1>3. ToldOnce'
  <2>1. ~ IsPending
    BY <1>1 DEF ContactsInv, ToldOnce
  <2>. QED
    BY <1>2, <2>1 DEF ContactsInv, ToldOnce, IsPending, actorVars
<1>4. CASE IsAnswered
  <2>1. Answered
    BY <1>1, <1>4 DEF IsAnswered, ContactsInv, Asking, Unanswered
  <2>2. prints' = Append(prints, [answer |-> answer, due |-> Found(passed_on, asked)]) /\ server' = server
    BY <1>4 DEF IsAnswered
  <2>3. PICK r, d : r = answer /\ d = Found(passed_on, asked)
    OBVIOUS
  <2>4. r = d /\ r \in Replies /\ [answer |-> r, due |-> d] \in [answer : Replies, due : Replies]
    BY <1>1, <2>1, <2>3, FoundIs DEF Answered, ContactsInv, ContactTypes, ClientFree
  <2>5. prints \in Seq([answer : Replies, due : Replies]) /\ \A i \in DOMAIN prints : prints[i].answer = prints[i].due
    BY DEF ContactsInv, ContactTypes
  <2>6. prints' \in Seq([answer : Replies, due : Replies]) /\ \A i \in DOMAIN prints' : prints'[i].answer = prints'[i].due
    <3>1. PICK x, u : x = [answer |-> r, due |-> d] /\ u = Append(prints, x)
      OBVIOUS
    <3>2. x.answer = x.due /\ x \in [answer : Replies, due : Replies]
      BY <2>4, <3>1
    <3>3. PICK n : u[n] = x /\ \A i \in DOMAIN u : i = n \/ i \in DOMAIN prints
      BY <2>5, <3>1, <3>2, AppendFacts
    <3>4. u \in Seq([answer : Replies, due : Replies]) /\ \A i \in DOMAIN prints : u[i] = prints[i]
      BY <2>5, <3>1, <3>2, AppendFacts
    <3>5. \A i \in DOMAIN u : u[i].answer = u[i].due
      BY <2>5, <3>2, <3>3, <3>4
    <3>. QED
      BY <2>2, <2>3, <3>1, <3>4, <3>5
  <2>7. ContactTypes'
    BY <1>2, <2>2, <2>6 DEF ContactsInv, ContactTypes, actorVars
  <2>8. Agree' /\ mailbox'["contact"] = <<>>
    BY <1>2, <2>1 DEF Answered, Agree, actorVars
  <2>. QED
    BY <1>1, <1>2, <1>3, <2>2, <2>6, <2>7, <2>8 DEF ContactsInv, ClientFree
<1>5. CASE AskTimesOut
  <2>1. server' = FALSE /\ prints' = prints
    BY <1>5 DEF AskTimesOut
  <2>2. ContactTypes'
    BY <1>2, <2>1 DEF ContactsInv, ContactTypes, actorVars
  <2>. QED
    BY <1>2, <1>3, <2>1, <2>2 DEF ContactsInv, ClientFree
<1>. QED
  BY <1>4, <1>5

LEMMA StepOfTheList ==
  ASSUME ContactsInv, ListStep
  PROVE  ContactsInv'
<1>1. PICK s, h, b, t : s = mailbox["client"] /\ b = mailbox["contact"] /\ h = Head(b) /\ t = Tail(b)
  OBVIOUS
<1>2. /\ s \in Seq(ContactMail) /\ b # <<>> /\ h \in ListMail /\ t \in Seq(ListMail) /\ b \in Seq(ListMail)
      /\ "client" \in DOMAIN mailbox /\ "contact" \in DOMAIN mailbox
      /\ lab' = lab /\ server' = server /\ asked' = asked /\ passed_on' = passed_on /\ prints' = prints
  <2>1. s \in Seq(ContactMail) /\ b \in Seq(ListMail) /\ "client" \in DOMAIN mailbox /\ "contact" \in DOMAIN mailbox
    BY <1>1 DEF ContactsInv, ContactTypes
  <2>2. /\ b # <<>> /\ lab' = lab /\ server' = server /\ asked' = asked /\ passed_on' = passed_on /\ prints' = prints
    BY <1>1 DEF ListStep, ContactOnPut, ContactOnGet, Handles
  <2>3. h \in ListMail /\ t \in Seq(ListMail)
    BY <1>1, <2>1, <2>2
  <2>. QED
    BY <2>1, <2>2, <2>3
<1>3. mailbox'["contact"] = t /\ mailbox'["client"] = s /\ DOMAIN mailbox' = DOMAIN mailbox /\ script' = script
  BY <1>1, <1>2, TellsNobodyChanges DEF ListStep, ContactOnPut, ContactOnGet
<1>4. ToldOnce'
  BY <1>1, <1>2, <1>3, StillNone DEF ContactsInv
<1>5. ClientFree' = ClientFree
  BY <1>2 DEF ClientFree
<1>6. \A i \in DOMAIN t : i + 1 \in DOMAIN b /\ t[i] = b[i + 1] /\ i \in Int /\ i >= 1
  BY <1>1, <1>2, TailFacts
<1>7. Len(b) \in Nat /\ Len(t) = Len(b) - 1 /\ 1 \in DOMAIN b /\ h = b[1] /\ (t = <<>> <=> Len(b) = 1) /\ (t # <<>> => t[Len(t)] = b[Len(b)])
  <2>1. PICK n \in Nat : n = Len(b)
    BY <1>2
  <2>2. n >= 1 /\ Len(t) = n - 1 /\ DOMAIN t = 1 .. n - 1 /\ 1 \in DOMAIN b /\ h = b[1]
    BY <1>1, <1>2, <2>1
  <2>3. t = <<>> <=> n = 1
    BY <1>2, <2>2
  <2>4. ASSUME t # <<>> PROVE t[Len(t)] = b[Len(b)]
    <3>1. PICK k \in Int : k = n - 1
      OBVIOUS
    <3>2. k \in DOMAIN t /\ k + 1 = n
      BY <2>2, <2>3, <2>4, <3>1
    <3>. QED
      BY <1>6, <2>1, <2>2, <3>1, <3>2
  <2>. QED
    BY <2>1, <2>2, <2>3, <2>4
<1>8. CASE ContactOnPut
  <2>1. h \in PutMail
    BY <1>1, <1>2, <1>8, ContactMailFacts DEF ContactOnPut, Handles, ListMail
  <2>2. answer' = answer /\ (contacts' = Put(contacts, h) \/ (h.name = "Fail" /\ contacts' = contacts))
    BY <1>1, <1>8 DEF ContactOnPut, Received, Supervised
  <2>3. OneEach(contacts')
    BY <2>1, <2>2, PutChanges DEF ContactsInv, ContactTypes
  <2>4. ContactTypes'
    BY <1>1, <1>2, <1>3, <2>3 DEF ContactsInv, ContactTypes
  <2>5. Agree => Agree'
    BY <1>1, <1>2, <1>3, <2>1, <2>2, AgreeOnListPut DEF ContactsInv
  <2>6. CASE server /\ ClientFree
    <3>1. Agree' /\ \A i \in DOMAIN t : t[i] \in PutMail
      BY <1>1, <1>6, <2>5, <2>6 DEF ContactsInv
    <3>. QED
      BY <1>2, <1>3, <1>4, <1>5, <2>4, <2>6, <3>1 DEF ContactsInv
  <2>7. CASE ~ ClientFree
    <3>1. Asking
      BY <1>1, <1>2, <2>7 DEF ContactsInv, Answered, Unanswered
    <3>2. h # GetMessage(asked)
      <4>1. asked \in Names \ {"Fail"}
        BY <2>7 DEF ContactsInv, ContactTypes, ClientFree
      <4>2. GetMessage(asked) \in GetMail
        BY <4>1 DEF GetMail
      <4>. QED
        BY <2>1, <4>2, ContactMailFacts
    <3>3. Len(b) # 1
      BY <1>1, <1>7, <3>1, <3>2 DEF Asking
    <3>4. t # <<>> /\ t[Len(t)] = GetMessage(asked)
      BY <1>1, <1>7, <3>1, <3>3 DEF Asking
    <3>5. \A i \in DOMAIN t : i < Len(t) => t[i] \in PutMail
      <4>1. SUFFICES ASSUME NEW i \in DOMAIN t, i < Len(t) PROVE t[i] \in PutMail
        OBVIOUS
      <4>2. i + 1 < Len(b)
        BY <1>6, <1>7, <4>1
      <4>. QED
        BY <1>1, <1>6, <3>1, <4>2 DEF Asking
    <3>6. Asking'
      BY <1>2, <1>3, <2>2, <2>5, <3>1, <3>4, <3>5 DEF Asking
    <3>. QED
      BY <1>2, <1>3, <1>4, <1>5, <2>4, <2>7, <3>6 DEF ContactsInv
  <2>8. CASE ~ server
    BY <1>2, <1>3, <1>4, <1>5, <2>4, <2>8 DEF ContactsInv
  <2>. QED
    BY <2>6, <2>7, <2>8
<1>9. CASE ContactOnGet
  <2>1. h \in GetMail /\ h.name \in Names \ {"Fail"} /\ h = GetMessage(h.name)
    BY <1>1, <1>2, <1>9, ContactMailFacts DEF ContactOnGet, Handles, ListMail
  <2>2. PICK email : email = Found(contacts, h.name)
    OBVIOUS
  <2>3. email # Nothing
    BY <2>1, <2>2, FoundIs DEF ContactsInv, ContactTypes
  <2>4. \/ contacts' = {} /\ answer' = answer
        \/ contacts' = contacts /\ answer' = (IF ClientFree THEN answer ELSE email)
    BY <1>1, <1>9, <2>2 DEF ContactOnGet, Received, Supervised
  <2>5. OneEach(contacts')
    BY <2>4 DEF ContactsInv, ContactTypes, OneEach
  <2>6. ContactTypes'
    BY <1>1, <1>2, <1>3, <2>5 DEF ContactsInv, ContactTypes
  <2>7. CASE server /\ ClientFree
    BY <1>1, <1>7, <2>1, <2>7, ContactMailFacts DEF ContactsInv
  <2>8. CASE ~ ClientFree
    <3>1. Asking
      BY <1>1, <1>2, <2>8 DEF ContactsInv, Answered, Unanswered
    <3>2. t = <<>>
      <4>1. ~ (1 < Len(b))
        BY <1>1, <1>7, <2>1, <3>1, ContactMailFacts DEF Asking
      <4>2. Len(b) = 1
        BY <1>1, <1>2, <1>7, <4>1
      <4>. QED
        BY <1>7, <4>2
    <3>3. h = GetMessage(asked) /\ h.name = asked
      BY <1>1, <1>7, <3>1, <3>2 DEF Asking, GetMessage
    <3>4. CASE answer' = answer
      <4>1. Unanswered'
        BY <1>3, <3>1, <3>2, <3>4 DEF Unanswered, Asking
      <4>. QED
        BY <1>2, <1>3, <1>4, <1>5, <2>6, <2>8, <4>1 DEF ContactsInv
    <3>5. CASE contacts' = contacts /\ answer' = email
      <4>1. Agree'
        BY <1>1, <1>2, <1>3, <2>1, <3>1, <3>5, AgreeOnListGet DEF Asking, ContactsInv
      <4>2. Found(contacts', asked) = Found(passed_on', asked)
        <5>1. Leads(<<>>, PutsOf(asked), Found(contacts', asked), Found(passed_on', asked))
          BY <1>3, <2>1, <3>2, <3>3, <4>1 DEF Agree
        <5>. QED
          BY <5>1, LeadsEmpty
      <4>3. Answered'
        BY <1>2, <1>3, <2>2, <2>3, <3>2, <3>3, <3>5, <4>1, <4>2 DEF Answered
      <4>. QED
        BY <1>2, <1>3, <1>4, <1>5, <2>6, <2>8, <4>3 DEF ContactsInv
    <3>. QED
      BY <2>4, <2>8, <3>4, <3>5
  <2>9. CASE ~ server
    BY <1>2, <1>3, <1>4, <1>5, <2>6, <2>9 DEF ContactsInv
  <2>. QED
    BY <2>7, <2>8, <2>9
<1>. QED
  BY <1>8, <1>9 DEF ListStep

LEMMA ContactsInvStep ==
  ASSUME ContactsInv, ContactActorStep \/ ((MainSleeps \/ MainTells) /\ UNCHANGED contactVars) \/ UNCHANGED <<actorVars, contactVars>>
  PROVE  ContactsInv'
<1>1. CASE MainSleeps
  <2>1. script # <<>> /\ Head(script).to = "nobody" /\ script \in Seq({ToTell("client", m) : m \in ContactMail})
    BY <1>1 DEF MainSleeps, AllTold, ContactsInv, ContactTypes
  <2>2. Head(script) \in {ToTell("client", m) : m \in ContactMail}
    BY <2>1
  <2>. QED
    BY <2>1, <2>2 DEF ToTell
<1>2. CASE UNCHANGED <<actorVars, contactVars>>
  BY <1>2 DEF actorVars, contactVars, ContactsInv, ContactTypes, ToldOnce, IsPending, Agree, Asking, Answered, Unanswered, ClientFree
<1>. QED
  BY <1>1, <1>2, MainTellsTheContacts, ClientOfTheContacts, AskOfTheContacts, StepOfTheList DEF ContactActorStep

LEMMA ContactsMean == ContactsInv => ContactsFound
<1> SUFFICES ASSUME ContactsInv, server, ClientFree, mailbox["contact"] = <<>>, NEW c \in passed_on, c[1] # "Fail"
             PROVE  c \in contacts
  BY DEF ContactsInv, ContactsFound
<1>1. PICK n \in Names, e \in Emails : c = <<n, e>>
  BY DEF ContactsInv, ContactTypes, OneEach
<1>2. n \in Names \ {"Fail"} /\ <<n, e>> \in passed_on
  BY <1>1
<1>3. Leads(<<>>, PutsOf(n), Found(contacts, n), Found(passed_on, n))
  BY <1>2 DEF ContactsInv, Agree
<1>4. Found(contacts, n) = Found(passed_on, n)
  BY <1>3, LeadsEmpty
<1>5. Found(passed_on, n) = e
  BY <1>2, FoundIs DEF ContactsInv, ContactTypes
<1>. QED
  BY <1>1, <1>2, <1>4, <1>5, FoundIs DEF ContactsInv, ContactTypes

(***************************************************************************)
(* What lies in a sequence, and what in front of it.                       *)
(***************************************************************************)

In(m, seq) == \E i \in DOMAIN seq : seq[i] = m

LEMMA InTail ==
  ASSUME NEW S, NEW seq \in Seq(S), seq # <<>>
  PROVE  \A m : In(m, seq) <=> m = Head(seq) \/ In(m, Tail(seq))
<1>1. PICK t : t = Tail(seq)
  OBVIOUS
<1>2. /\ 1 \in DOMAIN seq /\ Head(seq) = seq[1]
      /\ \A i \in DOMAIN t : i + 1 \in DOMAIN seq /\ t[i] = seq[i + 1]
      /\ \A i \in DOMAIN seq : i # 1 => i - 1 \in DOMAIN t /\ t[i - 1] = seq[i]
  BY <1>1, TailFacts
<1>3. ASSUME NEW m, In(m, t) PROVE In(m, seq)
  BY <1>2, <1>3 DEF In
<1>4. ASSUME NEW m, In(m, seq) PROVE m = Head(seq) \/ In(m, t)
  BY <1>2, <1>4 DEF In
<1>. QED
  BY <1>1, <1>2, <1>3, <1>4 DEF In

LEMMA InAppend ==
  ASSUME NEW S, NEW seq \in Seq(S), NEW x \in S
  PROVE  \A m : In(m, Append(seq, x)) <=> In(m, seq) \/ m = x
<1>1. PICK t : t = Append(seq, x)
  OBVIOUS
<1>2. PICK n \in DOMAIN t : t[n] = x /\ \A i \in DOMAIN t : i = n \/ i \in DOMAIN seq
  BY <1>1, AppendFacts
<1>3. \A i \in DOMAIN seq : i \in DOMAIN t /\ t[i] = seq[i]
  BY <1>1, AppendFacts
<1>. QED
  BY <1>1, <1>2, <1>3 DEF In

LEMMA InConcat ==
  ASSUME NEW S, NEW s \in Seq(S), NEW t \in Seq(S)
  PROVE  \A m : In(m, s \o t) <=> In(m, s) \/ In(m, t)
<1>1. PICK u, k : u = s \o t /\ k = Len(s)
  OBVIOUS
<1>2. /\ \A i \in DOMAIN s : i \in DOMAIN u /\ u[i] = s[i]
      /\ \A i \in DOMAIN t : i + k \in DOMAIN u /\ u[i + k] = t[i]
      /\ \A i \in DOMAIN u : i \in DOMAIN s \/ \E j \in DOMAIN t : i = j + k
  BY <1>1, ConcatFacts, SMTT(60)
<1>3. ASSUME NEW m, In(m, s) PROVE In(m, u)
  BY <1>2, <1>3 DEF In
<1>4. ASSUME NEW m, In(m, t) PROVE In(m, u)
  BY <1>2, <1>4 DEF In
<1>5. ASSUME NEW m, In(m, u) PROVE In(m, s) \/ In(m, t)
  BY <1>2, <1>5 DEF In
<1>. QED
  BY <1>1, <1>3, <1>4, <1>5

LEMMA InEmpty == \A m : ~ In(m, <<>>)
BY DEF In

\* The sequence has an x with all its m behind it, and none of its y.
Opens(m, x, y, seq) ==
  \E p \in DOMAIN seq : seq[p] = x /\ \A i \in DOMAIN seq : (i < p => seq[i] # m) /\ (i > p => seq[i] # y)

LEMMA OpensTail ==
  ASSUME NEW S, NEW seq \in Seq(S), seq # <<>>, NEW m, NEW x, NEW y, m # x, Opens(m, x, y, seq)
  PROVE  Head(seq) # m /\ (Opens(m, x, y, Tail(seq)) \/ (Head(seq) = x /\ ~ In(y, Tail(seq))))
<1>1. PICK t : t = Tail(seq)
  OBVIOUS
<1>2. /\ 1 \in DOMAIN seq /\ Head(seq) = seq[1]
      /\ \A i \in DOMAIN t : i + 1 \in DOMAIN seq /\ t[i] = seq[i + 1] /\ i \in Int /\ i >= 1
      /\ \A i \in DOMAIN seq : i \in Int /\ i >= 1 /\ (i # 1 => i - 1 \in DOMAIN t /\ t[i - 1] = seq[i])
  BY <1>1, TailFacts
<1>3. PICK p \in DOMAIN seq : seq[p] = x /\ \A i \in DOMAIN seq : (i < p => seq[i] # m) /\ (i > p => seq[i] # y)
  BY DEF Opens
<1>4. CASE p = 1
  <2>1. \A i \in DOMAIN t : t[i] # y
    <3>1. SUFFICES ASSUME NEW i \in DOMAIN t PROVE t[i] # y
      OBVIOUS
    <3>2. i + 1 > p
      BY <1>2, <1>4
    <3>. QED
      BY <1>2, <1>3, <3>2
  <2>. QED
    BY <1>1, <1>2, <1>3, <1>4, <2>1 DEF In
<1>5. CASE p # 1
  <2>1. PICK q \in DOMAIN t : q = p - 1 /\ t[q] = x /\ q \in Int
    BY <1>2, <1>3, <1>5
  <2>2. ASSUME NEW i \in DOMAIN t PROVE (i < q => t[i] # m) /\ (i > q => t[i] # y)
    <3>0. i \in Int /\ p \in Int /\ q \in Int /\ q = p - 1
      BY <1>2, <1>3, <2>1
    <3>1. (i < q => i + 1 < p) /\ (i > q => i + 1 > p)
      BY <3>0
    <3>. QED
      BY <1>2, <1>3, <3>1
  <2>3. 1 < p
    BY <1>2, <1>5
  <2>. QED
    BY <1>1, <1>2, <1>3, <2>1, <2>2, <2>3 DEF Opens
<1>. QED
  BY <1>4, <1>5

LEMMA OpensAppend ==
  ASSUME NEW S, NEW seq \in Seq(S), NEW z \in S, NEW m, NEW x, NEW y, z # y
  PROVE  /\ Opens(m, x, y, seq) => Opens(m, x, y, Append(seq, z))
         /\ z = x /\ ~ In(m, seq) => Opens(m, x, y, Append(seq, z))
<1>1. PICK t : t = Append(seq, z)
  OBVIOUS
<1>2. PICK n \in DOMAIN t : n \in Int /\ t[n] = z /\ \A i \in DOMAIN t : i \in Int /\ (i = n \/ (i \in DOMAIN seq /\ i < n))
  BY <1>1, AppendFacts
<1>3. \A i \in DOMAIN seq : i \in DOMAIN t /\ t[i] = seq[i]
  BY <1>1, AppendFacts
<1>4. \A i \in DOMAIN seq : i <= n
  BY <1>2, <1>3
<1>5. ASSUME NEW p \in DOMAIN seq, seq[p] = x, \A i \in DOMAIN seq : (i < p => seq[i] # m) /\ (i > p => seq[i] # y)
      PROVE  \A i \in DOMAIN t : (i < p => t[i] # m) /\ (i > p => t[i] # y)
  <2>1. SUFFICES ASSUME NEW i \in DOMAIN t PROVE (i < p => t[i] # m) /\ (i > p => t[i] # y)
    OBVIOUS
  <2>2. p \in Int /\ p <= n /\ i \in Int
    BY <1>2, <1>3, <1>4
  <2>3. CASE i \in DOMAIN seq
    BY <1>3, <1>5, <2>3
  <2>4. CASE i = n
    BY <1>2, <2>2, <2>4
  <2>. QED
    BY <1>2, <2>3, <2>4
<1>6. Opens(m, x, y, seq) => Opens(m, x, y, t)
  BY <1>3, <1>5 DEF Opens
<1>7. ASSUME z = x, ~ In(m, seq) PROVE Opens(m, x, y, t)
  <2>1. \A i \in DOMAIN t : (i < n => t[i] # m) /\ ~ (i > n)
    BY <1>2, <1>3, <1>7 DEF In
  <2>. QED
    BY <1>2, <1>7, <2>1 DEF Opens
<1>. QED
  BY <1>1, <1>6, <1>7

LEMMA OpensConcat ==
  ASSUME NEW S, NEW s \in Seq(S), NEW t \in Seq(S), NEW m, NEW x, NEW y, ~ In(m, s), Opens(m, x, y, t)
  PROVE  Opens(m, x, y, s \o t)
<1>1. PICK u, k : u = s \o t /\ k = Len(s)
  OBVIOUS
<1>2. /\ k \in Nat
      /\ \A i \in DOMAIN s : i \in Int /\ i \in DOMAIN u /\ u[i] = s[i] /\ i <= k
      /\ \A i \in DOMAIN t : i \in Int /\ i >= 1 /\ i + k \in DOMAIN u /\ u[i + k] = t[i]
      /\ \A i \in DOMAIN u : i \in DOMAIN s \/ \E j \in DOMAIN t : i = j + k
  BY <1>1, ConcatFacts, SMTT(60)
<1>3. PICK p \in DOMAIN t : t[p] = x /\ \A i \in DOMAIN t : (i < p => t[i] # m) /\ (i > p => t[i] # y)
  BY DEF Opens
<1>4. p + k \in DOMAIN u /\ u[p + k] = x
  BY <1>2, <1>3
<1>5. ASSUME NEW i \in DOMAIN u PROVE (i < p + k => u[i] # m) /\ (i > p + k => u[i] # y)
  <2>1. CASE i \in DOMAIN s
    <3>1. ~ (i > p + k)
      BY <1>2, <2>1
    <3>. QED
      BY <1>2, <2>1, <3>1 DEF In
  <2>2. ASSUME NEW j \in DOMAIN t, i = j + k PROVE (i < p + k => u[i] # m) /\ (i > p + k => u[i] # y)
    <3>1. (i < p + k => j < p) /\ (i > p + k => j > p)
      BY <1>2, <2>2
    <3>. QED
      BY <1>2, <1>3, <2>2, <3>1
  <2>. QED
    BY <1>2, <2>1, <2>2
<1>. QED
  BY <1>1, <1>4, <1>5 DEF Opens

(***************************************************************************)
(* The publish/subscribe broker: messages, and how far main is.            *)
(***************************************************************************)

SubMail    == {SubscribeMsg("topic0"), SubscribeMsg("topic1")}
PubMail    == {PublishMsg("topic0", 1), PublishMsg("topic1", 2), PublishMsg("topic9", 2), PublishMsg("topic0", 3), PublishMsg("topic1", 4)}
On         == BatchMsg(TRUE)
Off        == BatchMsg(FALSE)
NotifyMail == {NotifyMsg(v, w) : v \in 1 .. 4, w \in Workers}
PubSubMail == {ConfigMsg, On, Off} \cup SubMail \cup PubMail \cup NotifyMail

Published == [m \in PubMail |-> m.value]
Noted(w)  == [m \in {NotifyMsg(v, w) : v \in 1 .. 4} |-> m.value]
Switches  == [m \in {On, Off} |-> IF m = On THEN "on" ELSE "off"]

PublishLines == [l \in {ToTell("publisher", m) : m \in PubMail} |-> l.msg.value]
SwitchLines  == [l \in {Batches(TRUE), Batches(FALSE)} |-> IF l = Batches(TRUE) THEN "on" ELSE "off"]
PubSubLines  == DOMAIN PublishLines \cup DOMAIN SwitchLines
                \cup {ToTell("subscriber", ConfigMsg), ToTell("publisher", ConfigMsg), Subscribes("topic0"), Subscribes("topic1"), Pause}

Topics == {"topic0", "topic1"}

PubSubTypes ==
  /\ script \in Seq(PubSubLines)
  /\ PubSubActors \subseteq DOMAIN mailbox
  /\ \A a \in PubSubActors : mailbox[a] \in Seq(PubSubMail)
  /\ batching \in BOOLEAN /\ (~ batching => batch = <<>>)
  /\ batch \in Seq(PubMail)
  /\ subscriptions \in [Workers -> SUBSET {"topic0", "topic1"}]
  /\ notified \in Seq(NotifyMail)

\* main has told the first k lines of a script.
Told(lines, k) ==
  /\ lines \in PubSubScripts /\ k \in 0 .. 14
  /\ Len(script) = 14 - k
  /\ \A i \in DOMAIN script : script[i] = lines[i + k]

\* Between these values lie those that the subscriber printed, those that it will print,
\* those a worker will tell it, those in the stash, in the broker's mailbox and the publisher's.
Flow(a, b, c, d, e, f) ==
  /\ a \in [Workers -> Nat] /\ b \in [Workers -> Nat]
  /\ \A w \in Workers :
       /\ a[w] <= b[w] /\ b[w] <= c
       /\ Rises(notified, Noted(w), 0, a[w])
       /\ Rises(mailbox["subscriber"], Noted(w), a[w], b[w])
       /\ Rises(mailbox[w], Published, b[w], c)
  /\ c <= d /\ d <= e /\ e <= f
  /\ Rises(batch, Published, c, d)
  /\ Rises(mailbox["broker"], Published, d, e)
  /\ Rises(mailbox["publisher"], Published, e, f)
  /\ Rises(script, PublishLines, f, 4)

Behaviour == IF batching THEN "on" ELSE "off"

\* The broker ends in the behaviour it began with.
EndsOff ==
  \E p : /\ Leads(mailbox["broker"], Switches, Behaviour, p)
         /\ Leads(script, SwitchLines, p, "off")

KnowsTopic(w, t) == t \in subscriptions[w]

\* The line of main's script with the first subscription to a topic.
SubLine(t) == IF t = "topic0" THEN 3 ELSE 4

\* A subscription is on its way, or known.
Underway(t) ==
  \/ In(SubscribeMsg(t), mailbox["subscriber"]) \/ In(SubscribeMsg(t), mailbox["broker"])
  \/ \E w \in Workers : In(SubscribeMsg(t), mailbox[w]) \/ KnowsTopic(w, t)

\* The first subscriptions are so once main has told them, and known after
\* main's first sleep if that was long enough.
Subscribed(k) ==
  \A t \in Topics :
    /\ k >= SubLine(t) => Underway(t)
    /\ k >= 5 /\ patient => \E w \in Workers : KnowsTopic(w, t)

\* main's script publishes m.
Planned(m) == In(ToTell("publisher", m), began)

\* Nothing but what main publishes is under way.
Origins ==
  \A m \in PubMail :
    In(m, mailbox["publisher"]) \/ In(m, mailbox["broker"]) \/ In(m, batch) \/ (\E w \in Workers : In(m, mailbox[w])) => Planned(m)

\* Where a publication can be, if not lost.
Somewhere(m) ==
  \/ In(ToTell("publisher", m), script)
  \/ In(m, mailbox["publisher"]) \/ In(m, mailbox["broker"]) \/ In(m, batch)
  \/ \E w \in Workers : /\ KnowsTopic(w, m.topic)
                        /\ \/ In(m, mailbox[w]) \/ In(NotifyMsg(m.value, w), mailbox["subscriber"])
                           \/ In(NotifyMsg(m.value, w), notified)

\* Who notifies of a value knows its topic.
NotedIsKnown ==
  \A m \in PubMail, w \in Workers :
    Planned(m) /\ (In(NotifyMsg(m.value, w), mailbox["subscriber"]) \/ In(NotifyMsg(m.value, w), notified))
      => KnowsTopic(w, m.topic)

\* main publishes nothing before the sleep of its fifth line.
NothingYet(k) ==
  k < 5 => \A m \in PubMail : ~ In(m, mailbox["publisher"]) /\ ~ In(m, mailbox["broker"]) /\ ~ In(m, batch)

\* Of its first k lines main has turned batching on before it publishes m, and not off since.
OpenAt(lines, k, m) ==
  \E i, j \in DOMAIN lines :
    /\ i <= k /\ i < j /\ lines[i] = Batches(TRUE) /\ lines[j] = ToTell("publisher", m)
    /\ \A n \in DOMAIN lines : i <= n /\ n <= k => lines[n] # Batches(FALSE)

\* The broker stashes m if it comes to it, and does not let it go again.
Gate(m) ==
  \/ batching /\ ~ In(Off, mailbox["broker"])
  \/ ~ In(m, batch) /\ Opens(m, On, Off, mailbox["broker"])

\* No worker and no subscriber has heard of m.
Unheard(m) ==
  \A w \in Workers : /\ ~ In(m, mailbox[w])
                     /\ ~ In(NotifyMsg(m.value, w), mailbox["subscriber"]) /\ ~ In(NotifyMsg(m.value, w), notified)

\* Until main turns batching off, what it publishes is kept.
Waits(lines, k) == \A m \in PubMail : OpenAt(lines, k, m) => Gate(m) /\ Unheard(m)

PubSubInv ==
  /\ PubSubTypes
  /\ \E lines, k : lines = began /\ Told(lines, k) /\ Subscribed(k) /\ NothingYet(k) /\ Waits(lines, k)
  /\ \E a, b : \E c \in Nat, d \in Nat, e \in Nat, f \in Nat : Flow(a, b, c, d, e, f)
  /\ EndsOff
  /\ patient => \A m \in PubMail : Planned(m) /\ m.topic \in Topics => Somewhere(m)
  /\ Origins /\ NotedIsKnown

LEMMA PubSubMailFacts ==
  /\ ConfigMsg.type = "config" /\ On.type = "batch" /\ Off.type = "batch" /\ On.on = TRUE /\ Off.on = FALSE
  /\ \A m \in SubMail : m.type = "subscribe" /\ m.topic \in {"topic0", "topic1"} /\ (m.topic = "topic0" => m = SubscribeMsg("topic0"))
  /\ \A m \in PubMail :
       /\ m.type = "publish" /\ m.value \in Nat /\ m.value >= 1 /\ m.value <= 4
       /\ m \in DOMAIN Published /\ Published[m] = m.value
  /\ \A m \in NotifyMail :
       /\ m.type = "notify" /\ m.worker \in Workers /\ m.value \in Nat /\ m.value >= 1 /\ m.value <= 4
       /\ m = NotifyMsg(m.value, m.worker)
  /\ \A m \in PubSubMail : m.type \in {"config", "batch", "subscribe", "publish", "notify"}
<1>1. \A v : \A w : NotifyMsg(v, w).type = "notify" /\ NotifyMsg(v, w).value = v /\ NotifyMsg(v, w).worker = w
  BY DEF NotifyMsg
<1>2. \A t : \A v : PublishMsg(t, v).type = "publish" /\ PublishMsg(t, v).value = v /\ PublishMsg(t, v).topic = t
  BY DEF PublishMsg
<1>3. \A t : SubscribeMsg(t).type = "subscribe" /\ SubscribeMsg(t).topic = t
  BY DEF SubscribeMsg
<1>4. ConfigMsg.type = "config" /\ On.type = "batch" /\ Off.type = "batch" /\ On.on = TRUE /\ Off.on = FALSE
  BY DEF ConfigMsg, On, Off, BatchMsg
<1>5. \A m \in PubMail :
       /\ m.type = "publish" /\ m.value \in Nat /\ m.value >= 1 /\ m.value <= 4
       /\ m \in DOMAIN Published /\ Published[m] = m.value
  BY <1>2 DEF PubMail, Published
<1>6. ASSUME NEW m \in NotifyMail
      PROVE  /\ m.type = "notify" /\ m.worker \in Workers /\ m.value \in Nat /\ m.value >= 1 /\ m.value <= 4
             /\ m = NotifyMsg(m.value, m.worker)
  <2>1. PICK v \in 1 .. 4, w \in Workers : m = NotifyMsg(v, w)
    BY <1>6 DEF NotifyMail
  <2>. QED
    BY <1>1, <2>1
<1>7. \A m \in SubMail : m.type = "subscribe" /\ m.topic \in {"topic0", "topic1"} /\ (m.topic = "topic0" => m = SubscribeMsg("topic0"))
  BY <1>3 DEF SubMail
<1>. QED
  BY <1>4, <1>5, <1>6, <1>7 DEF PubSubMail

LEMMA SortsOfMail ==
  /\ \A m \in PubSubMail :
       /\ m.type = "config" => m = ConfigMsg
       /\ m.type = "batch" => m = On \/ m = Off
       /\ m.type = "subscribe" => m \in SubMail
       /\ m.type = "publish" => m \in PubMail
       /\ m.type = "notify" => m \in NotifyMail
  /\ \A m : m.type = "config" \/ m.type = "batch" \/ m.type = "subscribe" \/ m.type = "notify" => m \notin PubMail /\ m \notin DOMAIN Published
  /\ \A m : m.type = "config" \/ m.type = "publish" \/ m.type = "subscribe" \/ m.type = "notify" => m \notin DOMAIN Switches /\ m # On /\ m # Off
  /\ \A m, w : m.type = "config" \/ m.type = "batch" \/ m.type = "subscribe" \/ m.type = "publish" => m \notin DOMAIN Noted(w) /\ m \notin NotifyMail
  /\ \A m \in DOMAIN Published : Published[m] \in Int
  /\ \A w : \A m \in DOMAIN Noted(w) : Noted(w)[m] \in Int
  /\ On \in DOMAIN Switches /\ Switches[On] = "on" /\ Off \in DOMAIN Switches /\ Switches[Off] = "off"
  /\ On # Off
<1>1. \A m \in PubSubMail :
       /\ m.type = "config" => m = ConfigMsg
       /\ m.type = "batch" => m = On \/ m = Off
       /\ m.type = "subscribe" => m \in SubMail
       /\ m.type = "publish" => m \in PubMail
       /\ m.type = "notify" => m \in NotifyMail
  BY PubSubMailFacts DEF PubSubMail
<1>2. /\ DOMAIN Published = PubMail /\ DOMAIN Switches = {On, Off}
      /\ \A w : DOMAIN Noted(w) = {NotifyMsg(v, w) : v \in 1 .. 4}
  BY DEF Published, Switches, Noted
<1>3. \A v : \A w : NotifyMsg(v, w).type = "notify" /\ NotifyMsg(v, w).value = v
  BY DEF NotifyMsg
<1>4. \A w : \A m \in DOMAIN Noted(w) : m.type = "notify" /\ m.value \in Int /\ Noted(w)[m] = m.value
  BY <1>2, <1>3 DEF Noted
<1>5. On # Off
  BY PubSubMailFacts
<1>6. /\ On \in DOMAIN Switches /\ Switches[On] = "on" /\ Off \in DOMAIN Switches /\ Switches[Off] = "off"
  BY <1>2, <1>5 DEF Switches
<1>7. \A m : m.type = "config" \/ m.type = "batch" \/ m.type = "subscribe" \/ m.type = "notify" => m \notin PubMail /\ m \notin DOMAIN Published
  BY <1>2, PubSubMailFacts
<1>8. \A m : m.type = "config" \/ m.type = "publish" \/ m.type = "subscribe" \/ m.type = "notify" => m \notin DOMAIN Switches /\ m # On /\ m # Off
  BY <1>2, PubSubMailFacts
<1>9. \A m, w : m.type = "config" \/ m.type = "batch" \/ m.type = "subscribe" \/ m.type = "publish" => m \notin DOMAIN Noted(w) /\ m \notin NotifyMail
  BY <1>4, PubSubMailFacts
<1>10. \A m \in DOMAIN Published : Published[m] \in Int
  BY <1>2, PubSubMailFacts
<1>. QED
  BY <1>1, <1>4, <1>5, <1>6, <1>7, <1>8, <1>9, <1>10

LEMMA NotedFacts ==
  \A m \in NotifyMail : \A w \in Workers :
    /\ m \in DOMAIN Noted(w) <=> m.worker = w
    /\ m.worker = w => Noted(w)[m] = m.value
<1> SUFFICES ASSUME NEW m \in NotifyMail, NEW w \in Workers
             PROVE  (m \in DOMAIN Noted(w) <=> m.worker = w) /\ (m.worker = w => Noted(w)[m] = m.value)
  OBVIOUS
<1>1. PICK v \in 1 .. 4, u \in Workers : m = NotifyMsg(v, u)
  BY DEF NotifyMail
<1>2. \A x : \A y : NotifyMsg(x, y).worker = y /\ NotifyMsg(x, y).value = x
  BY DEF NotifyMsg
<1>3. DOMAIN Noted(w) = {NotifyMsg(x, w) : x \in 1 .. 4}
  BY DEF Noted
<1>4. m.worker = w => m \in DOMAIN Noted(w)
  BY <1>1, <1>2, <1>3
<1>5. m \in DOMAIN Noted(w) => m.worker = w
  BY <1>2, <1>3
<1>6. m \in DOMAIN Noted(w) => Noted(w)[m] = m.value
  BY DEF Noted
<1>. QED
  BY <1>4, <1>5, <1>6

LEMMA PubSubLineFacts ==
  /\ \A m \in PubMail : LET l == ToTell("publisher", m) IN
       l \in DOMAIN PublishLines /\ PublishLines[l] = m.value /\ l.to = "publisher" /\ l.msg = m /\ l \notin DOMAIN SwitchLines
  /\ \A l \in DOMAIN PublishLines :
       /\ l.to = "publisher" /\ l.msg \in PubMail /\ PublishLines[l] = Published[l.msg] /\ PublishLines[l] \in Nat
       /\ l = ToTell("publisher", l.msg) /\ l \notin DOMAIN SwitchLines
  /\ Batches(TRUE) \in DOMAIN SwitchLines /\ SwitchLines[Batches(TRUE)] = "on" /\ Batches(TRUE).msg = On
  /\ Batches(FALSE) \in DOMAIN SwitchLines /\ SwitchLines[Batches(FALSE)] = "off" /\ Batches(FALSE).msg = Off
  /\ \A l \in DOMAIN SwitchLines : l.to = "broker" /\ (l = Batches(TRUE) \/ l = Batches(FALSE)) /\ l \notin DOMAIN PublishLines
  /\ \A l \in {Subscribes("topic0"), Subscribes("topic1")} : l.to = "subscriber" /\ l.msg \in SubMail
  /\ Subscribes("topic0").msg = SubscribeMsg("topic0")
  /\ \A a : ToTell(a, ConfigMsg).to = a /\ ToTell(a, ConfigMsg).msg = ConfigMsg
  /\ Pause.to = "nobody"
  /\ \A l \in PubSubLines : l.to \in {"subscriber", "publisher", "broker", "nobody"} /\ (l.to = "nobody" <=> l = Pause)
  /\ Batches(TRUE) # Batches(FALSE)
<1>1. \A a, m : ToTell(a, m).to = a /\ ToTell(a, m).msg = m
  BY DEF ToTell
<1>2. Pause.to = "nobody"
  BY DEF Pause
<1>3. \A m \in PubMail : m.value \in Nat /\ Published[m] = m.value /\ m.type = "publish"
  BY PubSubMailFacts
<1>4. /\ DOMAIN PublishLines = {ToTell("publisher", m) : m \in PubMail} /\ DOMAIN SwitchLines = {Batches(TRUE), Batches(FALSE)}
      /\ \A l \in DOMAIN PublishLines : PublishLines[l] = l.msg.value
  BY DEF PublishLines, SwitchLines
<1>5. /\ Batches(TRUE).to = "broker" /\ Batches(TRUE).msg = On /\ Batches(FALSE).to = "broker" /\ Batches(FALSE).msg = Off
  BY <1>1 DEF Batches, On, Off
<1>6. Batches(TRUE) # Batches(FALSE)
  BY <1>5, SortsOfMail
<1>7. SwitchLines[Batches(TRUE)] = "on" /\ SwitchLines[Batches(FALSE)] = "off"
  BY <1>4, <1>6 DEF SwitchLines
<1>8. /\ \A l \in {Subscribes("topic0"), Subscribes("topic1")} : l.to = "subscriber" /\ l.msg \in SubMail
      /\ Subscribes("topic0").msg = SubscribeMsg("topic0")
  BY <1>1 DEF Subscribes, SubMail
<1>9. \A l \in DOMAIN PublishLines : /\ l.to = "publisher" /\ l.msg \in PubMail /\ PublishLines[l] = Published[l.msg] /\ PublishLines[l] \in Nat
                                     /\ l = ToTell("publisher", l.msg) /\ l \notin DOMAIN SwitchLines
  <2>1. SUFFICES ASSUME NEW l \in DOMAIN PublishLines
                 PROVE  /\ l.to = "publisher" /\ l.msg \in PubMail /\ PublishLines[l] = Published[l.msg] /\ PublishLines[l] \in Nat
                        /\ l = ToTell("publisher", l.msg) /\ l \notin DOMAIN SwitchLines
    OBVIOUS
  <2>2. PICK m \in PubMail : l = ToTell("publisher", m)
    BY <1>4
  <2>3. l.to = "publisher" /\ l.msg = m
    BY <1>1, <2>2
  <2>4. PublishLines[l] = m.value
    BY <1>4, <2>3
  <2>5. l \notin DOMAIN SwitchLines
    BY <1>4, <1>5, <2>3
  <2>. QED
    BY <1>3, <2>2, <2>3, <2>4, <2>5
<1>10. \A l \in DOMAIN SwitchLines : l.to = "broker" /\ (l = Batches(TRUE) \/ l = Batches(FALSE)) /\ l \notin DOMAIN PublishLines
  BY <1>4, <1>5, <1>9
<1>11. \A l \in PubSubLines : l.to \in {"subscriber", "publisher", "broker", "nobody"} /\ (l.to = "nobody" <=> l = Pause)
  <2>1. SUFFICES ASSUME NEW l \in PubSubLines PROVE l.to \in {"subscriber", "publisher", "broker", "nobody"} /\ (l.to = "nobody" <=> l = Pause)
    OBVIOUS
  <2>2. \/ l \in DOMAIN PublishLines \/ l \in DOMAIN SwitchLines \/ l \in {Subscribes("topic0"), Subscribes("topic1")}
        \/ l = ToTell("subscriber", ConfigMsg) \/ l = ToTell("publisher", ConfigMsg) \/ l = Pause
    BY DEF PubSubLines
  <2>3. l = Pause \/ l.to = "publisher" \/ l.to = "broker" \/ l.to = "subscriber"
    <3>1. l \in DOMAIN PublishLines => l.to = "publisher"
      BY <1>9
    <3>2. l \in DOMAIN SwitchLines => l.to = "broker"
      BY <1>10
    <3>3. l \in {Subscribes("topic0"), Subscribes("topic1")} => l.to = "subscriber"
      BY <1>8
    <3>4. ToTell("subscriber", ConfigMsg).to = "subscriber" /\ ToTell("publisher", ConfigMsg).to = "publisher"
      BY <1>1
    <3>. QED
      BY <2>2, <3>1, <3>2, <3>3, <3>4
  <2>. QED
    BY <1>2, <2>3
<1>12. \A m \in PubMail : LET l == ToTell("publisher", m) IN
       l \in DOMAIN PublishLines /\ PublishLines[l] = m.value /\ l.to = "publisher" /\ l.msg = m /\ l \notin DOMAIN SwitchLines
  BY ZenonT(100), <1>1, <1>4, <1>9
<1>13. \A a : ToTell(a, ConfigMsg).to = a /\ ToTell(a, ConfigMsg).msg = ConfigMsg
  BY <1>1
<1>14. Batches(TRUE) \in DOMAIN SwitchLines /\ Batches(FALSE) \in DOMAIN SwitchLines
  BY <1>4
<1>. QED
  BY <1>2, <1>5, <1>6, <1>7, <1>8, <1>9, <1>10, <1>11, <1>12, <1>13, <1>14, ZenonT(100)

(***************************************************************************)
(* How the actors' steps move the messages.                                *)
(***************************************************************************)

\* Actor x handles h, and tells the `others' a message.
Moves(x, h, others, told) ==
  /\ mailbox[x] # <<>> /\ h = Head(mailbox[x]) /\ mailbox'[x] = Tail(mailbox[x])
  /\ \A y \in others : mailbox'[y] = Append(mailbox[y], told)
  /\ \A y \in PubSubActors : y # x /\ y \notin others => mailbox'[y] = mailbox[y]
  /\ DOMAIN mailbox' = DOMAIN mailbox /\ script' = script /\ began' = began /\ patient' = patient

LEMMA TellsAllMoves ==
  ASSUME PubSubTypes, NEW x \in PubSubActors, mailbox[x] # <<>>, NEW others \in SUBSET PubSubActors, x \notin others, NEW told,
         TellsAll(x, others, told)
  PROVE  Moves(x, Received(x), others, told)
BY DEF TellsAll, Moves, Received, PubSubTypes

\* What the step does when x handles h.
Configures(x, h) == h = ConfigMsg /\ Moves(x, h, {}, h) /\ UNCHANGED pubSubVars
AsksBroker(h)    == h \in SubMail /\ Moves("subscriber", h, {"broker"}, h) /\ UNCHANGED pubSubVars
Notes(h)         == /\ h \in NotifyMail /\ Moves("subscriber", h, {}, h)
                    /\ notified' = Append(notified, h) /\ UNCHANGED <<batching, batch, subscriptions>>
PassesOn(h)      == h \in PubMail /\ Moves("publisher", h, {"broker"}, h) /\ UNCHANGED pubSubVars
Assigns(h, w)    == h \in SubMail /\ Moves("broker", h, {w}, h) /\ UNCHANGED pubSubVars
Spreads(h)       == h \in PubMail /\ ~ batching /\ Moves("broker", h, Workers, h) /\ UNCHANGED pubSubVars
PutsOff(h)       == /\ h \in PubMail /\ batching /\ Moves("broker", h, {}, h)
                    /\ batch' = Append(batch, h) /\ UNCHANGED <<batching, subscriptions, notified>>
Begins(h)        == /\ h = On /\ Moves("broker", h, {}, h)
                    /\ batching' = TRUE /\ UNCHANGED <<batch, subscriptions, notified>>
Ends(h) ==
  /\ h = Off /\ mailbox["broker"] # <<>> /\ h = Head(mailbox["broker"])
  /\ mailbox'["broker"] = batch \o Tail(mailbox["broker"])
  /\ \A y \in PubSubActors : y # "broker" => mailbox'[y] = mailbox[y]
  /\ DOMAIN mailbox' = DOMAIN mailbox /\ script' = script /\ began' = began /\ patient' = patient
  /\ batching' = FALSE /\ batch' = <<>> /\ UNCHANGED <<subscriptions, notified>>
Learns(h, w)     == /\ h \in SubMail /\ Moves(w, h, {}, h)
                    /\ subscriptions' = [subscriptions EXCEPT ![w] = @ \cup {h.topic}] /\ UNCHANGED <<batching, batch, notified>>
Notifies(h, w)   == h \in PubMail /\ h.topic \in subscriptions[w] /\ Moves(w, h, {"subscriber"}, NotifyMsg(h.value, w)) /\ UNCHANGED pubSubVars
Throws(h, w)     == h \in PubMail /\ h.topic \notin subscriptions[w] /\ Moves(w, h, {}, h) /\ UNCHANGED pubSubVars

PubSubMoves(h) ==
  \/ \E x \in {"subscriber", "publisher"} : Configures(x, h)
  \/ AsksBroker(h) \/ Notes(h) \/ PassesOn(h) \/ Spreads(h) \/ PutsOff(h) \/ Begins(h) \/ Ends(h)
  \/ \E w \in Workers : Assigns(h, w) \/ Learns(h, w) \/ Notifies(h, w) \/ Throws(h, w)

LEMMA EveryStepMoves ==
  ASSUME PubSubTypes, PubSubActorStep
  PROVE  \E h \in PubSubMail : PubSubMoves(h)
<1>1. \A x \in PubSubActors : mailbox[x] # <<>> => Received(x) \in PubSubMail
  BY DEF PubSubTypes, Received
<1>2. /\ Workers \subseteq PubSubActors /\ "broker" \in PubSubActors /\ "subscriber" \in PubSubActors /\ "publisher" \in PubSubActors
      /\ "broker" \notin Workers /\ "subscriber" \notin Workers /\ "publisher" \notin Workers
  BY DEF PubSubActors, Workers
<1>3. \A x \in PubSubActors : mailbox[x] # <<>> /\ TellsNobody(x) => Moves(x, Received(x), {}, Received(x))
  BY TellsAllMoves DEF TellsNobody
<1>4. \A x \in PubSubActors, y \in PubSubActors : \A m : mailbox[x] # <<>> /\ x # y /\ Tells(x, y, m) => Moves(x, Received(x), {y}, m)
  BY TellsAllMoves DEF Tells
<1>5. \A x, t : Handles(x, t) <=> mailbox[x] # <<>> /\ Received(x).type = t
  BY DEF Handles, Received
<1>6. ASSUME NEW x \in {"subscriber", "publisher"}, configure(x) PROVE \E h \in PubSubMail : PubSubMoves(h)
  <2>1. mailbox[x] # <<>> /\ Received(x).type = "config" /\ TellsNobody(x) /\ UNCHANGED pubSubVars
    BY <1>5, <1>6 DEF configure
  <2>2. Configures(x, Received(x)) /\ Received(x) \in PubSubMail
    BY <1>1, <1>2, <1>3, <2>1, SortsOfMail DEF Configures
  <2>. QED
    BY <2>2 DEF PubSubMoves
<1>7. CASE SubscriberOnSubscribe
  <2>1. mailbox["subscriber"] # <<>> /\ Received("subscriber").type = "subscribe" /\ Tells("subscriber", "broker", Received("subscriber"))
        /\ UNCHANGED pubSubVars
    BY <1>5, <1>7 DEF SubscriberOnSubscribe
  <2>2. AsksBroker(Received("subscriber")) /\ Received("subscriber") \in PubSubMail
    BY <1>1, <1>2, <1>4, <2>1, SortsOfMail DEF AsksBroker
  <2>. QED
    BY <2>2 DEF PubSubMoves
<1>8. CASE onNotify
  <2>1. /\ mailbox["subscriber"] # <<>> /\ Received("subscriber").type = "notify" /\ TellsNobody("subscriber")
        /\ notified' = Append(notified, Received("subscriber"))
        /\ UNCHANGED <<batching, batch, subscriptions>>
    BY <1>5, <1>8 DEF onNotify
  <2>2. Notes(Received("subscriber")) /\ Received("subscriber") \in PubSubMail
    BY <1>1, <1>2, <1>3, <2>1, SortsOfMail DEF Notes
  <2>. QED
    BY <2>2 DEF PubSubMoves
<1>9. CASE PublisherOnPublish
  <2>1. mailbox["publisher"] # <<>> /\ Received("publisher").type = "publish" /\ Tells("publisher", "broker", Received("publisher"))
        /\ UNCHANGED pubSubVars
    BY <1>5, <1>9 DEF PublisherOnPublish
  <2>2. PassesOn(Received("publisher")) /\ Received("publisher") \in PubSubMail
    BY <1>1, <1>2, <1>4, <2>1, SortsOfMail DEF PassesOn
  <2>. QED
    BY <2>2 DEF PubSubMoves
<1>10. CASE BrokerOnSubscribe
  <2>1. PICK w \in Workers : mailbox["broker"] # <<>> /\ Received("broker").type = "subscribe" /\ Tells("broker", w, Received("broker"))
                             /\ UNCHANGED pubSubVars
    BY <1>5, <1>10 DEF BrokerOnSubscribe
  <2>2. Assigns(Received("broker"), w) /\ Received("broker") \in PubSubMail
    BY <1>1, <1>2, <1>4, <2>1, SortsOfMail DEF Assigns
  <2>. QED
    BY <2>2 DEF PubSubMoves
<1>11. CASE onPublish
  <2>1. mailbox["broker"] # <<>> /\ Received("broker").type = "publish" /\ ~ batching /\ TellsAll("broker", Workers, Received("broker"))
        /\ UNCHANGED pubSubVars
    BY <1>5, <1>11 DEF onPublish
  <2>2. Spreads(Received("broker")) /\ Received("broker") \in PubSubMail
    BY <1>1, <1>2, <2>1, SortsOfMail, TellsAllMoves DEF Spreads
  <2>. QED
    BY <2>2 DEF PubSubMoves
<1>12. CASE onPubBatch
  <2>1. /\ mailbox["broker"] # <<>> /\ Received("broker").type = "publish" /\ batching /\ TellsNobody("broker")
        /\ batch' = Append(batch, Received("broker"))
        /\ UNCHANGED <<batching, subscriptions, notified>>
    BY <1>5, <1>12 DEF onPubBatch
  <2>2. PutsOff(Received("broker")) /\ Received("broker") \in PubSubMail
    BY <1>1, <1>2, <1>3, <2>1, SortsOfMail DEF PutsOff
  <2>. QED
    BY <2>2 DEF PubSubMoves
<1>13. CASE onBatching
  <2>1. /\ mailbox["broker"] # <<>> /\ Received("broker").type = "batch" /\ batching' = Received("broker").on
        /\ UNCHANGED <<subscriptions, notified>>
    BY <1>5, <1>13 DEF onBatching
  <2>2. Received("broker") \in PubSubMail /\ (Received("broker") = On \/ Received("broker") = Off)
    BY <1>1, <1>2, <2>1, SortsOfMail
  <2>3. CASE Received("broker") = On
    <3>1. batching' = TRUE
      BY <2>1, <2>3, PubSubMailFacts
    <3>2. TellsNobody("broker") /\ UNCHANGED batch
      BY <1>13, <3>1 DEF onBatching
    <3>3. Begins(Received("broker"))
      BY <1>2, <1>3, <2>1, <2>3, <3>1, <3>2 DEF Begins
    <3>. QED
      BY <2>2, <3>3 DEF PubSubMoves
  <2>4. CASE Received("broker") = Off
    <3>1. batching' = FALSE
      BY <2>1, <2>4, PubSubMailFacts
    <3>2. Unstashes("broker", batch) /\ batch' = <<>>
      BY <1>13, <3>1 DEF onBatching, unstashAll
    <3>3. "broker" \in DOMAIN mailbox /\ PubSubActors \subseteq DOMAIN mailbox
      BY <1>2 DEF PubSubTypes
    <3>4. Ends(Received("broker"))
      <4>1. /\ mailbox'["broker"] = batch \o Tail(mailbox["broker"])
            /\ \A c \in DOMAIN mailbox : c # "broker" => mailbox'[c] = mailbox[c]
            /\ DOMAIN mailbox' = DOMAIN mailbox /\ script' = script /\ began' = began /\ patient' = patient
        BY <3>2, <3>3, UnstashesChanges
      <4>. QED
        BY <2>1, <2>4, <3>1, <3>2, <3>3, <4>1 DEF Ends, Received
    <3>. QED
      BY <2>2, <3>4 DEF PubSubMoves
  <2>. QED
    BY <2>2, <2>3, <2>4
<1>14. ASSUME NEW w \in Workers, WorkerOnSubscribe(w) PROVE \E h \in PubSubMail : PubSubMoves(h)
  <2>1. /\ mailbox[w] # <<>> /\ Received(w).type = "subscribe" /\ TellsNobody(w)
        /\ subscriptions' = [subscriptions EXCEPT ![w] = @ \cup {Received(w).topic}]
        /\ UNCHANGED <<batching, batch, notified>>
    BY <1>5, <1>14 DEF WorkerOnSubscribe
  <2>2. Learns(Received(w), w) /\ Received(w) \in PubSubMail
    BY <1>1, <1>2, <1>3, <2>1, SortsOfMail DEF Learns
  <2>. QED
    BY <2>2 DEF PubSubMoves
<1>15. ASSUME NEW w \in Workers, WorkerOnPublish(w) PROVE \E h \in PubSubMail : PubSubMoves(h)
  <2>1. /\ mailbox[w] # <<>> /\ Received(w).type = "publish" /\ UNCHANGED pubSubVars
        /\ IF Received(w).topic \in subscriptions[w]
           THEN Tells(w, "subscriber", NotifyMsg(Received(w).value, w))
           ELSE TellsNobody(w)
    BY <1>5, <1>15 DEF WorkerOnPublish
  <2>2. Received(w) \in PubSubMail /\ Received(w) \in PubMail
    BY <1>1, <1>2, <2>1, SortsOfMail
  <2>3. Notifies(Received(w), w) \/ Throws(Received(w), w)
    <3>1. CASE Received(w).topic \in subscriptions[w]
      BY <1>2, <1>4, <2>1, <2>2, <3>1 DEF Notifies
    <3>2. CASE Received(w).topic \notin subscriptions[w]
      BY <1>2, <1>3, <2>1, <2>2, <3>2 DEF Throws
    <3>. QED
      BY <3>1, <3>2
  <2>. QED
    BY <2>2, <2>3 DEF PubSubMoves
<1>. QED
  BY <1>6, <1>7, <1>8, <1>9, <1>10, <1>11, <1>12, <1>13, <1>14, <1>15 DEF PubSubActorStep, BrokerStep

\* What lies in the mailboxes after such a step.
LEMMA MovesIn ==
  ASSUME PubSubTypes, NEW x \in PubSubActors, NEW h, NEW others \in SUBSET PubSubActors, x \notin others, NEW told \in PubSubMail,
         Moves(x, h, others, told)
  PROVE  /\ In(h, mailbox[x])
         /\ \A y \in PubSubActors : \A m :
              /\ In(m, mailbox'[y]) => In(m, mailbox[y]) \/ (y \in others /\ m = told)
              /\ In(m, mailbox[y]) => In(m, mailbox'[y]) \/ (y = x /\ m = h)
         /\ \A y \in others : In(told, mailbox'[y])
<1>1. \A y \in PubSubActors : mailbox[y] \in Seq(PubSubMail)
  BY DEF PubSubTypes
<1>2. \A m : In(m, mailbox[x]) <=> m = h \/ In(m, mailbox'[x])
  BY <1>1, InTail DEF Moves
<1>3. ASSUME NEW y \in others PROVE \A m : In(m, mailbox'[y]) <=> In(m, mailbox[y]) \/ m = told
  <2>1. mailbox'[y] = Append(mailbox[y], told) /\ mailbox[y] \in Seq(PubSubMail)
    BY <1>1, <1>3 DEF Moves
  <2>. QED
    BY <2>1, InAppend
<1>4. \A y \in PubSubActors : y # x /\ y \notin others => mailbox'[y] = mailbox[y]
  BY DEF Moves
<1>. QED
  BY <1>2, <1>3, <1>4

\* The numbers there.
LEMMA MovesRises ==
  ASSUME PubSubTypes, NEW x \in PubSubActors, NEW h, NEW others \in SUBSET PubSubActors, x \notin others, NEW told \in PubSubMail,
         Moves(x, h, others, told),
         NEW y \in PubSubActors, NEW num, NEW lo, NEW hi, Rises(mailbox[y], num, lo, hi), told \notin DOMAIN num \/ y \notin others
  PROVE  Rises(mailbox'[y], num, lo, hi)
<1>1. mailbox[y] \in Seq(PubSubMail)
  BY DEF PubSubTypes
<1>2. CASE y = x
  BY <1>1, <1>2, RisesTail DEF Moves
<1>3. CASE y \in others
  BY <1>1, <1>3, RisesAppend DEF Moves
<1>4. CASE y # x /\ y \notin others
  BY <1>4 DEF Moves
<1>. QED
  BY <1>2, <1>3, <1>4

LEMMA MovesFirst ==
  ASSUME PubSubTypes, NEW x \in PubSubActors, NEW h, NEW others, NEW told, Moves(x, h, others, told),
         NEW num, NEW lo, NEW hi, Rises(mailbox[x], num, lo, hi), h \in DOMAIN num
  PROVE  lo < num[h] /\ num[h] <= hi /\ Rises(mailbox'[x], num, num[h], hi)
<1>1. mailbox[x] \in Seq(PubSubMail)
  BY DEF PubSubTypes
<1>. QED
  BY <1>1, RisesTailNumber DEF Moves

LEMMA MovesLast ==
  ASSUME PubSubTypes, NEW x, NEW h, NEW others \in SUBSET PubSubActors, NEW told \in PubSubMail, Moves(x, h, others, told),
         NEW y \in others, NEW num, NEW lo \in Int, NEW hi \in Int, Rises(mailbox[y], num, lo, hi),
         \A m \in DOMAIN num : num[m] \in Int, told \in DOMAIN num, lo <= hi, hi < num[told]
  PROVE  Rises(mailbox'[y], num, lo, num[told])
<1>1. mailbox[y] \in Seq(PubSubMail)
  BY DEF PubSubTypes
<1>2. mailbox'[y] = Append(mailbox[y], told)
  BY DEF Moves
<1>3. Rises(Append(mailbox[y], told), num, lo, num[told])
  BY <1>1, RisesAppendNumber
<1>. QED
  BY <1>2, <1>3

LEMMA PubSubPlaces ==
  /\ PubSubActors = Workers \cup {"broker", "subscriber", "publisher"} /\ Workers = {"odd", "even"}
  /\ \A w \in Workers : w # "broker" /\ w # "subscriber" /\ w # "publisher"
  /\ \A m \in SubMail \cup PubMail \cup NotifyMail \cup {ConfigMsg, On, Off} : m \in PubSubMail
  /\ \A m \in PubMail, w \in Workers : NotifyMsg(m.value, w) \in NotifyMail
<1>1. \A m \in PubMail, w \in Workers : NotifyMsg(m.value, w) \in NotifyMail
  <2>1. \A m \in PubMail : m.value \in 1 .. 4
    BY PubSubMailFacts
  <2>. QED
    BY <2>1 DEF NotifyMail
<1>. QED
  BY <1>1 DEF PubSubActors, Workers, PubSubMail

LEMMA MovesTypes ==
  ASSUME PubSubTypes, NEW x \in PubSubActors, NEW h, NEW others \in SUBSET PubSubActors, x \notin others, NEW told \in PubSubMail,
         Moves(x, h, others, told)
  PROVE  /\ script' = script /\ began' = began /\ DOMAIN mailbox' = DOMAIN mailbox /\ patient' = patient
         /\ \A y \in PubSubActors : mailbox'[y] \in Seq(PubSubMail)
<1>1. \A y \in PubSubActors : mailbox[y] \in Seq(PubSubMail)
  BY DEF PubSubTypes
<1>2. mailbox[x] # <<>> /\ mailbox'[x] = Tail(mailbox[x])
  BY DEF Moves
<1>3. mailbox'[x] \in Seq(PubSubMail)
  BY <1>1, <1>2
<1>4. \A y \in others : mailbox'[y] \in Seq(PubSubMail)
  <2>1. SUFFICES ASSUME NEW y \in others PROVE mailbox'[y] \in Seq(PubSubMail)
    OBVIOUS
  <2>2. mailbox'[y] = Append(mailbox[y], told) /\ mailbox[y] \in Seq(PubSubMail)
    BY <1>1 DEF Moves
  <2>. QED
    BY <2>2
<1>. QED
  BY <1>1, <1>3, <1>4 DEF Moves

LEMMA PubSubTypesMove ==
  ASSUME PubSubTypes, NEW h \in PubSubMail, PubSubMoves(h)
  PROVE  PubSubTypes' /\ script' = script /\ began' = began /\ patient' = patient
<1>1. \A x, y \in PubSubActors : \A m \in PubSubMail :
        /\ Moves(x, h, {}, m) =>
             script' = script /\ began' = began /\ DOMAIN mailbox' = DOMAIN mailbox /\ patient' = patient /\ \A z \in PubSubActors : mailbox'[z] \in Seq(PubSubMail)
        /\ x # y /\ Moves(x, h, {y}, m) =>
             script' = script /\ began' = began /\ DOMAIN mailbox' = DOMAIN mailbox /\ patient' = patient /\ \A z \in PubSubActors : mailbox'[z] \in Seq(PubSubMail)
  BY MovesTypes
<1> DEFINE Good == /\ script' = script /\ began' = began /\ DOMAIN mailbox' = DOMAIN mailbox /\ patient' = patient
                   /\ \A z \in PubSubActors : mailbox'[z] \in Seq(PubSubMail)
<1>2. Good /\ UNCHANGED pubSubVars => PubSubTypes' /\ script' = script /\ began' = began /\ patient' = patient
  BY DEF PubSubTypes, pubSubVars
<1>3. ASSUME NEW x \in {"subscriber", "publisher"}, Configures(x, h) PROVE PubSubTypes' /\ script' = script /\ began' = began /\ patient' = patient
  BY <1>1, <1>2, <1>3, PubSubPlaces DEF Configures
<1>4. CASE AsksBroker(h)
  BY <1>1, <1>2, <1>4, PubSubPlaces DEF AsksBroker
<1>5. CASE Notes(h)
  <2>1. Good
    BY <1>1, <1>5, PubSubPlaces DEF Notes
  <2>2. notified' \in Seq(NotifyMail)
    BY <1>5 DEF Notes, PubSubTypes
  <2>. QED
    BY <1>5, <2>1, <2>2 DEF Notes, PubSubTypes
<1>6. CASE PassesOn(h)
  BY <1>1, <1>2, <1>6, PubSubPlaces DEF PassesOn
<1>7. CASE Spreads(h)
  <2>1. Good
    BY <1>7, MovesTypes, PubSubPlaces DEF Spreads
  <2>. QED
    BY <1>2, <1>7, <2>1 DEF Spreads
<1>8. CASE PutsOff(h)
  <2>1. Good
    BY <1>1, <1>8, PubSubPlaces DEF PutsOff
  <2>2. batch' \in Seq(PubMail)
    BY <1>8 DEF PutsOff, PubSubTypes
  <2>. QED
    BY <1>8, <2>1, <2>2 DEF PutsOff, PubSubTypes
<1>9. CASE Begins(h)
  <2>1. Good
    BY <1>1, <1>9, PubSubPlaces DEF Begins
  <2>. QED
    BY <1>9, <2>1 DEF Begins, PubSubTypes
<1>10. CASE Ends(h)
  <2>1. batch \in Seq(PubSubMail) /\ mailbox["broker"] \in Seq(PubSubMail)
    <3>1. PubMail \subseteq PubSubMail
      BY PubSubPlaces
    <3>. QED
      BY <3>1, PubSubPlaces, SeqMonotonic DEF PubSubTypes
  <2>2. mailbox'["broker"] \in Seq(PubSubMail)
    <3>1. Tail(mailbox["broker"]) \in Seq(PubSubMail)
      BY <1>10, <2>1 DEF Ends
    <3>. QED
      BY <1>10, <2>1, <3>1 DEF Ends
  <2>3. Good
    BY <1>10, <2>2, PubSubPlaces DEF Ends, PubSubTypes
  <2>4. <<>> \in Seq(PubMail)
    OBVIOUS
  <2>. QED
    BY <1>10, <2>3, <2>4 DEF Ends, PubSubTypes
<1>11. ASSUME NEW w \in Workers, Assigns(h, w) \/ Notifies(h, w) \/ Throws(h, w)
       PROVE PubSubTypes' /\ script' = script /\ began' = began /\ patient' = patient
  <2>1. Good
    <3>1. CASE Assigns(h, w)
      BY <1>1, <3>1, PubSubPlaces DEF Assigns
    <3>2. CASE Notifies(h, w)
      <4>1. NotifyMsg(h.value, w) \in PubSubMail
        BY <3>2, PubSubPlaces DEF Notifies
      <4>2. Moves(w, h, {"subscriber"}, NotifyMsg(h.value, w))
        BY <3>2 DEF Notifies
      <4>. QED
        BY <1>1, <4>1, <4>2, PubSubPlaces
    <3>3. CASE Throws(h, w)
      BY <1>1, <3>3, PubSubPlaces DEF Throws
    <3>. QED
      BY <1>11, <3>1, <3>2, <3>3
  <2>2. UNCHANGED pubSubVars
    BY <1>11 DEF Assigns, Notifies, Throws
  <2>. QED
    BY <1>2, <2>1, <2>2
<1>12. ASSUME NEW w \in Workers, Learns(h, w) PROVE PubSubTypes' /\ script' = script /\ began' = began /\ patient' = patient
  <2>1. Good
    BY <1>1, <1>12, PubSubPlaces DEF Learns
  <2>2. h.topic \in {"topic0", "topic1"}
    BY <1>12, PubSubMailFacts DEF Learns
  <2>3. subscriptions' \in [Workers -> SUBSET {"topic0", "topic1"}]
    BY <1>12, <2>2 DEF Learns, PubSubTypes
  <2>. QED
    BY <1>12, <2>1, <2>3 DEF Learns, PubSubTypes
<1>. QED
  BY <1>3, <1>4, <1>5, <1>6, <1>7, <1>8, <1>9, <1>10, <1>11, <1>12 DEF PubSubMoves

LEMMA MovesToNobody ==
  ASSUME PubSubTypes, NEW x \in PubSubActors, NEW h, NEW t \in PubSubMail, Moves(x, h, {}, t)
  PROVE  /\ In(h, mailbox[x])
         /\ \A z \in PubSubActors : \A m :
              (In(m, mailbox'[z]) => In(m, mailbox[z])) /\ (In(m, mailbox[z]) => In(m, mailbox'[z]) \/ (z = x /\ m = h))
<1>1. PICK others \in SUBSET PubSubActors : others = {} /\ x \notin others
  OBVIOUS
<1>2. others \in SUBSET PubSubActors /\ x \notin others /\ Moves(x, h, others, t)
  BY <1>1
<1>3. /\ In(h, mailbox[x])
      /\ \A y \in PubSubActors : \A m :
           /\ In(m, mailbox'[y]) => In(m, mailbox[y]) \/ (y \in others /\ m = t)
           /\ In(m, mailbox[y]) => In(m, mailbox'[y]) \/ (y = x /\ m = h)
      /\ \A y \in others : In(t, mailbox'[y])
  BY <1>2, MovesIn
<1>. QED
  BY <1>1, <1>3

LEMMA MovesToOne ==
  ASSUME PubSubTypes, NEW x \in PubSubActors, NEW h, NEW y \in PubSubActors, x # y, NEW t \in PubSubMail, Moves(x, h, {y}, t)
  PROVE  /\ In(h, mailbox[x]) /\ In(t, mailbox'[y])
         /\ \A z \in PubSubActors : \A m :
              /\ In(m, mailbox'[z]) => In(m, mailbox[z]) \/ (z = y /\ m = t)
              /\ In(m, mailbox[z]) => In(m, mailbox'[z]) \/ (z = x /\ m = h)
<1>1. PICK others \in SUBSET PubSubActors : others = {y} /\ x \notin others
  OBVIOUS
<1>2. others \in SUBSET PubSubActors /\ x \notin others /\ Moves(x, h, others, t)
  BY <1>1
<1>3. /\ In(h, mailbox[x])
      /\ \A z \in PubSubActors : \A m :
           /\ In(m, mailbox'[z]) => In(m, mailbox[z]) \/ (z \in others /\ m = t)
           /\ In(m, mailbox[z]) => In(m, mailbox'[z]) \/ (z = x /\ m = h)
      /\ \A z \in others : In(t, mailbox'[z])
  BY <1>2, MovesIn, ZenonT(100)
<1>. QED
  BY <1>1, <1>3

LEMMA MovesToAll ==
  ASSUME PubSubTypes, NEW h \in PubSubMail, Moves("broker", h, Workers, h)
  PROVE  /\ \A w \in Workers : In(h, mailbox'[w])
         /\ \A z \in PubSubActors : \A m :
              /\ In(m, mailbox'[z]) => In(m, mailbox[z]) \/ (z \in Workers /\ m = h)
              /\ In(m, mailbox[z]) => In(m, mailbox'[z]) \/ (z = "broker" /\ m = h)
<1>1. Workers \in SUBSET PubSubActors /\ "broker" \notin Workers /\ "broker" \in PubSubActors
  BY PubSubPlaces
<1>. QED
  BY <1>1, MovesIn

\* Where a message m goes in a step that handles h: what is no longer in a mailbox is in another, or used up.
WhereItGoes(m, h) ==
  /\ In(m, mailbox["publisher"]) => In(m, mailbox'["publisher"]) \/ m = ConfigMsg \/ (m \in PubMail /\ In(m, mailbox'["broker"]))
  /\ In(m, mailbox["subscriber"]) =>
       \/ In(m, mailbox'["subscriber"]) \/ m = ConfigMsg
       \/ m \in SubMail /\ In(m, mailbox'["broker"])
       \/ m \in NotifyMail /\ In(m, notified')
  /\ In(m, mailbox["broker"]) =>
       \/ In(m, mailbox'["broker"])
       \/ m \in SubMail /\ \E w \in Workers : In(m, mailbox'[w])
       \/ m \in PubMail /\ In(m, batch')
       \/ m \in PubMail /\ \A w \in Workers : In(m, mailbox'[w])
       \/ m = On /\ batching'
       \/ m = Off
  /\ In(m, batch) => In(m, batch') \/ In(m, mailbox'["broker"])
  /\ \A w \in Workers : In(m, mailbox[w]) =>
       \/ In(m, mailbox'[w])
       \/ m \in SubMail /\ m.topic \in subscriptions'[w]
       \/ m \in PubMail /\ (m.topic \in subscriptions[w] => In(NotifyMsg(m.value, w), mailbox'["subscriber"]))
  /\ In(m, notified) => In(m, notified')
  /\ \A w \in Workers : subscriptions[w] \subseteq subscriptions'[w]

LEMMA WhereMailGoes ==
  ASSUME PubSubTypes, NEW h \in PubSubMail, PubSubMoves(h), NEW m
  PROVE  WhereItGoes(m, h)
<1>1. \A x, y \in PubSubActors : \A t \in PubSubMail :
        /\ Moves(x, h, {}, t) => \A z \in PubSubActors : In(m, mailbox[z]) => In(m, mailbox'[z]) \/ (z = x /\ m = h)
        /\ x # y /\ Moves(x, h, {y}, t) =>
             In(t, mailbox'[y]) /\ \A z \in PubSubActors : In(m, mailbox[z]) => In(m, mailbox'[z]) \/ (z = x /\ m = h)
  BY MovesToNobody, MovesToOne, ZenonT(100)
<1>2. \A w \in Workers : w \in PubSubActors
  BY PubSubPlaces
<1>3. "broker" \in PubSubActors /\ "subscriber" \in PubSubActors /\ "publisher" \in PubSubActors
  BY PubSubPlaces
<1>4. ASSUME NEW x \in {"subscriber", "publisher"}, Configures(x, h) PROVE WhereItGoes(m, h)
  BY <1>1, <1>2, <1>3, <1>4, PubSubPlaces DEF Configures, WhereItGoes, pubSubVars
<1>5. CASE AsksBroker(h)
  BY <1>1, <1>2, <1>3, <1>5, PubSubPlaces DEF AsksBroker, WhereItGoes, pubSubVars
<1>6. CASE Notes(h)
  <2>1. \A n : In(n, notified') <=> In(n, notified) \/ n = h
    BY <1>6, InAppend DEF Notes, PubSubTypes
  <2>. QED
    BY <1>1, <1>2, <1>3, <1>6, <2>1, PubSubPlaces DEF Notes, WhereItGoes
<1>7. CASE PassesOn(h)
  BY <1>1, <1>2, <1>3, <1>7, PubSubPlaces DEF PassesOn, WhereItGoes, pubSubVars
<1>8. CASE Spreads(h)
  <2>1. /\ \A z \in PubSubActors : In(m, mailbox[z]) => In(m, mailbox'[z]) \/ (z = "broker" /\ m = h)
        /\ \A w \in Workers : In(h, mailbox'[w])
    BY <1>8, MovesToAll DEF Spreads
  <2>. QED
    BY <1>2, <1>3, <1>8, <2>1, PubSubPlaces DEF Spreads, WhereItGoes, pubSubVars
<1>9. CASE PutsOff(h)
  <2>1. \A n : In(n, batch') <=> In(n, batch) \/ n = h
    BY <1>9, InAppend DEF PutsOff, PubSubTypes
  <2>. QED
    BY <1>1, <1>2, <1>3, <1>9, <2>1, PubSubPlaces DEF PutsOff, WhereItGoes
<1>10. CASE Begins(h)
  BY <1>1, <1>2, <1>3, <1>10, PubSubPlaces DEF Begins, WhereItGoes
<1>11. CASE Ends(h)
  <2>1. batch \in Seq(PubSubMail) /\ mailbox["broker"] \in Seq(PubSubMail)
    <3>1. PubMail \subseteq PubSubMail
      BY PubSubPlaces
    <3>. QED
      BY <3>1, PubSubPlaces, SeqMonotonic DEF PubSubTypes
  <2>2. PICK t \in Seq(PubSubMail) : t = Tail(mailbox["broker"])
    <3>1. mailbox["broker"] # <<>>
      BY <1>11 DEF Ends
    <3>2. Tail(mailbox["broker"]) \in Seq(PubSubMail)
      BY <2>1, <3>1
    <3>. QED
      BY <3>2
  <2>3. In(m, mailbox["broker"]) <=> m = h \/ In(m, t)
    BY <1>11, <2>1, <2>2, InTail DEF Ends
  <2>4. In(m, batch \o t) <=> In(m, batch) \/ In(m, t)
    BY <2>1, <2>2, InConcat, ZenonT(100)
  <2>5. mailbox'["broker"] = batch \o t
    BY <1>11, <2>2 DEF Ends
  <2>. QED
    BY <1>2, <1>3, <1>11, <2>3, <2>4, <2>5, PubSubPlaces DEF Ends, WhereItGoes
<1>12. ASSUME NEW w \in Workers, Assigns(h, w) PROVE WhereItGoes(m, h)
  <2>1. h \in SubMail /\ h \in PubSubMail /\ Moves("broker", h, {w}, h) /\ UNCHANGED pubSubVars
    BY <1>12 DEF Assigns
  <2>2. In(h, mailbox'[w]) /\ \A z \in PubSubActors : In(m, mailbox[z]) => In(m, mailbox'[z]) \/ (z = "broker" /\ m = h)
    <3>1. "broker" \in PubSubActors /\ w \in PubSubActors /\ "broker" # w
      BY <1>2, <1>3, PubSubPlaces
    <3>. QED
      BY <2>1, <3>1, MovesToOne
  <2>. QED
    BY <1>2, <1>3, <2>1, <2>2, PubSubPlaces DEF WhereItGoes, pubSubVars
<1>13. ASSUME NEW w \in Workers, Learns(h, w) PROVE WhereItGoes(m, h)
  <2>1. subscriptions \in [Workers -> SUBSET {"topic0", "topic1"}]
    BY DEF PubSubTypes
  <2>2. \A u \in Workers : subscriptions[u] \subseteq subscriptions'[u]
    BY <1>13, <2>1 DEF Learns
  <2>3. h.topic \in subscriptions'[w]
    BY <1>13, <2>1 DEF Learns
  <2>. QED
    BY <1>1, <1>2, <1>3, <1>13, <2>2, <2>3, PubSubPlaces DEF Learns, WhereItGoes
<1>14. ASSUME NEW w \in Workers, Notifies(h, w) PROVE WhereItGoes(m, h)
  <2>1. PICK t \in PubSubMail : t = NotifyMsg(h.value, w)
    BY <1>14, PubSubPlaces DEF Notifies
  <2>2. Moves(w, h, {"subscriber"}, t) /\ h \in PubMail /\ h.topic \in subscriptions[w] /\ UNCHANGED pubSubVars
    BY <1>14, <2>1 DEF Notifies
  <2>. QED
    BY <1>1, <1>2, <1>3, <2>1, <2>2, PubSubPlaces DEF WhereItGoes, pubSubVars
<1>15. ASSUME NEW w \in Workers, Throws(h, w) PROVE WhereItGoes(m, h)
  BY <1>1, <1>2, <1>3, <1>15, PubSubPlaces DEF Throws, WhereItGoes, pubSubVars
<1>. QED
  BY <1>4, <1>5, <1>6, <1>7, <1>8, <1>9, <1>10, <1>11, <1>12, <1>13, <1>14, <1>15 DEF PubSubMoves

\* Where a message m in a mailbox comes from.
WhereItIsFrom(m, h) ==
  /\ In(m, mailbox'["publisher"]) => In(m, mailbox["publisher"])
  /\ In(m, mailbox'["broker"]) =>
       \/ In(m, mailbox["broker"]) \/ In(m, batch)
       \/ (m \in PubMail /\ In(m, mailbox["publisher"])) \/ (m \in SubMail /\ In(m, mailbox["subscriber"]))
  /\ In(m, batch') => In(m, batch) \/ In(m, mailbox["broker"])
  /\ \A w \in Workers : In(m, mailbox'[w]) =>
       In(m, mailbox[w]) \/ m \in SubMail \/ (~ batching /\ mailbox["broker"] # <<>> /\ m = Head(mailbox["broker"]))
  /\ In(m, mailbox'["subscriber"]) =>
       \/ In(m, mailbox["subscriber"])
       \/ \E w \in Workers : h \in PubMail /\ In(h, mailbox[w]) /\ h.topic \in subscriptions[w] /\ m = NotifyMsg(h.value, w)
  /\ In(m, notified') => In(m, notified) \/ In(m, mailbox["subscriber"])

LEMMA WhereMailIsFrom ==
  ASSUME PubSubTypes, NEW h \in PubSubMail, PubSubMoves(h), NEW m
  PROVE  WhereItIsFrom(m, h)
<1>1. \A x, y \in PubSubActors : \A t \in PubSubMail :
        /\ Moves(x, h, {}, t) => In(h, mailbox[x]) /\ \A z \in PubSubActors : In(m, mailbox'[z]) => In(m, mailbox[z])
        /\ x # y /\ Moves(x, h, {y}, t) =>
             In(h, mailbox[x]) /\ \A z \in PubSubActors : In(m, mailbox'[z]) => In(m, mailbox[z]) \/ (z = y /\ m = t)
  <2>. SUFFICES ASSUME NEW x \in PubSubActors, NEW y \in PubSubActors, NEW t \in PubSubMail
       PROVE /\ Moves(x, h, {}, t) => In(h, mailbox[x]) /\ \A z \in PubSubActors : In(m, mailbox'[z]) => In(m, mailbox[z])
             /\ x # y /\ Moves(x, h, {y}, t) =>
                  In(h, mailbox[x]) /\ \A z \in PubSubActors : In(m, mailbox'[z]) => In(m, mailbox[z]) \/ (z = y /\ m = t)
    OBVIOUS
  <2>1. ASSUME Moves(x, h, {}, t) PROVE In(h, mailbox[x]) /\ \A z \in PubSubActors : In(m, mailbox'[z]) => In(m, mailbox[z])
    BY <2>1, MovesToNobody
  <2>2. ASSUME x # y, Moves(x, h, {y}, t)
        PROVE  In(h, mailbox[x]) /\ \A z \in PubSubActors : In(m, mailbox'[z]) => In(m, mailbox[z]) \/ (z = y /\ m = t)
    BY <2>2, MovesToOne, ZenonT(100)
  <2>. QED
    BY <2>1, <2>2
<1>2. \A w \in Workers : w \in PubSubActors
  BY PubSubPlaces
<1>3. "broker" \in PubSubActors /\ "subscriber" \in PubSubActors /\ "publisher" \in PubSubActors
  BY PubSubPlaces
<1>4. ASSUME NEW x \in {"subscriber", "publisher"}, Configures(x, h) PROVE WhereItIsFrom(m, h)
  BY <1>1, <1>2, <1>3, <1>4, PubSubPlaces DEF Configures, WhereItIsFrom, pubSubVars
<1>5. CASE AsksBroker(h)
  BY <1>1, <1>2, <1>3, <1>5, PubSubPlaces DEF AsksBroker, WhereItIsFrom, pubSubVars
<1>6. CASE Notes(h)
  <2>1. \A n : In(n, notified') <=> In(n, notified) \/ n = h
    BY <1>6, InAppend DEF Notes, PubSubTypes
  <2>. QED
    BY <1>1, <1>2, <1>3, <1>6, <2>1, PubSubPlaces DEF Notes, WhereItIsFrom
<1>7. CASE PassesOn(h)
  BY <1>1, <1>2, <1>3, <1>7, PubSubPlaces DEF PassesOn, WhereItIsFrom, pubSubVars
<1>8. CASE Spreads(h)
  <2>1. \A z \in PubSubActors : In(m, mailbox'[z]) => In(m, mailbox[z]) \/ (z \in Workers /\ m = h)
    BY <1>8, MovesToAll DEF Spreads
  <2>2. mailbox["broker"] # <<>> /\ h = Head(mailbox["broker"]) /\ ~ batching
    BY <1>8 DEF Spreads, Moves
  <2>. QED
    BY <1>2, <1>3, <1>8, <2>1, <2>2, PubSubPlaces DEF Spreads, WhereItIsFrom, pubSubVars
<1>9. CASE PutsOff(h)
  <2>1. \A n : In(n, batch') <=> In(n, batch) \/ n = h
    BY <1>9, InAppend DEF PutsOff, PubSubTypes
  <2>. QED
    BY <1>1, <1>2, <1>3, <1>9, <2>1, PubSubPlaces DEF PutsOff, WhereItIsFrom
<1>10. CASE Begins(h)
  BY <1>1, <1>2, <1>3, <1>10, PubSubPlaces DEF Begins, WhereItIsFrom
<1>11. CASE Ends(h)
  <2>1. batch \in Seq(PubSubMail) /\ mailbox["broker"] \in Seq(PubSubMail)
    <3>1. PubMail \subseteq PubSubMail
      BY PubSubPlaces
    <3>. QED
      BY <3>1, PubSubPlaces, SeqMonotonic DEF PubSubTypes
  <2>2. PICK t \in Seq(PubSubMail) : t = Tail(mailbox["broker"])
    <3>1. mailbox["broker"] # <<>>
      BY <1>11 DEF Ends
    <3>2. Tail(mailbox["broker"]) \in Seq(PubSubMail)
      BY <2>1, <3>1
    <3>. QED
      BY <3>2
  <2>3. In(m, mailbox["broker"]) <=> m = h \/ In(m, t)
    BY <1>11, <2>1, <2>2, InTail DEF Ends
  <2>4. In(m, batch \o t) <=> In(m, batch) \/ In(m, t)
    BY <2>1, <2>2, InConcat
  <2>5. mailbox'["broker"] = batch \o t
    BY <1>11, <2>2 DEF Ends
  <2>6. ~ In(m, batch')
    BY <1>11, InEmpty DEF Ends
  <2>. QED
    BY <1>2, <1>3, <1>11, <2>3, <2>4, <2>5, <2>6, PubSubPlaces DEF Ends, WhereItIsFrom
<1>12. ASSUME NEW w \in Workers, Assigns(h, w) PROVE WhereItIsFrom(m, h)
  <2>1. h \in SubMail /\ Moves("broker", h, {w}, h) /\ UNCHANGED pubSubVars
    BY <1>12 DEF Assigns
  <2>2. w \in PubSubActors /\ "broker" # w
    BY <1>2, PubSubPlaces
  <2>3. \A z \in PubSubActors : In(m, mailbox'[z]) => In(m, mailbox[z]) \/ (z = w /\ m = h)
    BY <1>1, <1>3, <2>1, <2>2
  <2>. QED
    BY <1>2, <1>3, <2>1, <2>3, PubSubPlaces DEF WhereItIsFrom, pubSubVars
<1>13. ASSUME NEW w \in Workers, Learns(h, w) PROVE WhereItIsFrom(m, h)
  BY <1>1, <1>2, <1>3, <1>13, PubSubPlaces DEF Learns, WhereItIsFrom
<1>14. ASSUME NEW w \in Workers, Notifies(h, w) PROVE WhereItIsFrom(m, h)
  <2>1. PICK t \in PubSubMail : t = NotifyMsg(h.value, w)
    BY <1>14, PubSubPlaces DEF Notifies
  <2>2. Moves(w, h, {"subscriber"}, t) /\ h \in PubMail /\ h.topic \in subscriptions[w] /\ UNCHANGED pubSubVars
    BY <1>14, <2>1 DEF Notifies
  <2>. QED
    BY <1>1, <1>2, <1>3, <2>1, <2>2, PubSubPlaces DEF WhereItIsFrom, pubSubVars
<1>15. ASSUME NEW w \in Workers, Throws(h, w) PROVE WhereItIsFrom(m, h)
  BY <1>1, <1>2, <1>3, <1>15, PubSubPlaces DEF Throws, WhereItIsFrom, pubSubVars
<1>. QED
  BY <1>4, <1>5, <1>6, <1>7, <1>8, <1>9, <1>10, <1>11, <1>12, <1>13, <1>14, <1>15 DEF PubSubMoves

LEMMA SubscribedMoves ==
  ASSUME PubSubTypes, NEW h \in PubSubMail, PubSubMoves(h), NEW k, Subscribed(k)
  PROVE  Subscribed(k)'
<1>. SUFFICES ASSUME NEW t \in Topics
              PROVE  /\ k >= SubLine(t) => Underway(t)'
                     /\ k >= 5 /\ patient' => \E w \in Workers : KnowsTopic(w, t)'
  BY DEF Subscribed
<1>1. PICK m : m = SubscribeMsg(t)
  OBVIOUS
<1>2. m \in SubMail /\ m.topic = t /\ m # ConfigMsg /\ m \notin NotifyMail /\ m \notin PubMail /\ m # On /\ m # Off
  <2>1. m \in SubMail /\ m.topic = t /\ m.type = "subscribe"
    BY <1>1 DEF SubMail, SubscribeMsg, Topics
  <2>. QED
    BY <2>1, SortsOfMail, PubSubMailFacts
<1>3. WhereItGoes(m, h)
  BY WhereMailGoes
<1>4. patient' = patient
  BY PubSubTypesMove
<1>5. \A w \in Workers : KnowsTopic(w, t) => KnowsTopic(w, t)'
  BY <1>3 DEF WhereItGoes, KnowsTopic
<1>6. \A w \in Workers : In(m, mailbox[w]) => In(m, mailbox'[w]) \/ KnowsTopic(w, t)'
  BY <1>2, <1>3 DEF WhereItGoes, KnowsTopic
<1>7. In(m, mailbox["subscriber"]) => In(m, mailbox'["subscriber"]) \/ In(m, mailbox'["broker"])
  BY <1>2, <1>3 DEF WhereItGoes
<1>8. In(m, mailbox["broker"]) => In(m, mailbox'["broker"]) \/ \E w \in Workers : In(m, mailbox'[w])
  BY <1>2, <1>3 DEF WhereItGoes
<1>9. Underway(t) => Underway(t)'
  BY <1>1, <1>5, <1>6, <1>7, <1>8 DEF Underway
<1>10. (k >= SubLine(t) => Underway(t)) /\ (k >= 5 /\ patient => \E w \in Workers : KnowsTopic(w, t))
  BY DEF Subscribed
<1>. QED
  BY <1>4, <1>5, <1>9, <1>10

LEMMA NothingYetMoves ==
  ASSUME PubSubTypes, NEW h \in PubSubMail, PubSubMoves(h), NEW k, NothingYet(k)
  PROVE  NothingYet(k)'
<1>. SUFFICES ASSUME k < 5, NEW m \in PubMail
              PROVE ~ In(m, mailbox'["publisher"]) /\ ~ In(m, mailbox'["broker"]) /\ ~ In(m, batch')
  BY DEF NothingYet
<1>1. WhereItIsFrom(m, h)
  BY WhereMailIsFrom
<1>2. m \notin SubMail
  BY PubSubMailFacts
<1>. QED
  BY <1>1, <1>2 DEF WhereItIsFrom, NothingYet

LEMMA SomewhereMoves ==
  ASSUME PubSubTypes, NEW h \in PubSubMail, PubSubMoves(h), NEW m \in PubMail, Somewhere(m),
         In(m, mailbox["broker"]) => \E w \in Workers : KnowsTopic(w, m.topic)
  PROVE  Somewhere(m)'
<1>1. PICK v, t : v = m.value /\ t = m.topic
  OBVIOUS
<1>2. m # ConfigMsg /\ m \notin NotifyMail /\ m \notin SubMail /\ m # On /\ m # Off
  <2>1. m.type = "publish"
    BY PubSubMailFacts
  <2>. QED
    BY <2>1, SortsOfMail, PubSubMailFacts
<1>3. WhereItGoes(m, h)
  BY WhereMailGoes
<1>4. script' = script
  BY PubSubTypesMove
<1>5. \A w \in Workers : KnowsTopic(w, t) => KnowsTopic(w, t)'
  BY <1>3 DEF WhereItGoes, KnowsTopic
<1>6. CASE In(ToTell("publisher", m), script)
  BY <1>4, <1>6 DEF Somewhere
<1>7. CASE In(m, mailbox["publisher"])
  BY <1>2, <1>3, <1>7 DEF Somewhere, WhereItGoes
<1>8. CASE In(m, mailbox["broker"])
  <2>1. PICK w \in Workers : KnowsTopic(w, t)'
    BY <1>1, <1>5, <1>8
  <2>2. In(m, mailbox'["broker"]) \/ In(m, batch') \/ \A u \in Workers : In(m, mailbox'[u])
    BY <1>2, <1>3, <1>8 DEF WhereItGoes
  <2>. QED
    BY <1>1, <2>1, <2>2 DEF Somewhere
<1>9. CASE In(m, batch)
  BY <1>3, <1>9 DEF Somewhere, WhereItGoes
<1>10. ASSUME NEW w \in Workers, KnowsTopic(w, t),
              In(m, mailbox[w]) \/ In(NotifyMsg(v, w), mailbox["subscriber"]) \/ In(NotifyMsg(v, w), notified)
       PROVE  Somewhere(m)'
  <2>1. PICK n : n = NotifyMsg(v, w)
    OBVIOUS
  <2>2. n # ConfigMsg /\ n \notin SubMail
    <3>1. n.type = "notify"
      BY <2>1 DEF NotifyMsg
    <3>. QED
      BY <3>1, SortsOfMail, PubSubMailFacts
  <2>3. WhereItGoes(n, h)
    BY WhereMailGoes
  <2>4. In(m, mailbox[w]) => In(m, mailbox'[w]) \/ In(n, mailbox'["subscriber"])
    BY <1>1, <1>2, <1>3, <1>10, <2>1 DEF WhereItGoes, KnowsTopic
  <2>5. In(n, mailbox["subscriber"]) => In(n, mailbox'["subscriber"]) \/ In(n, notified')
    BY <2>2, <2>3 DEF WhereItGoes
  <2>6. In(n, notified) => In(n, notified')
    BY <2>3 DEF WhereItGoes
  <2>7. KnowsTopic(w, t)' /\ (In(m, mailbox'[w]) \/ In(n, mailbox'["subscriber"]) \/ In(n, notified'))
    BY <1>5, <1>10, <2>1, <2>4, <2>5, <2>6
  <2>. QED
    BY <1>1, <2>1, <2>7 DEF Somewhere
<1>. QED
  BY <1>1, <1>6, <1>7, <1>8, <1>9, <1>10 DEF Somewhere

\* A script publishes every value once.
LEMMA PlannedOnce ==
  ASSUME Rises(began, PublishLines, 0, 4), \A i \in DOMAIN began : i \in Int,
         NEW m \in PubMail, NEW n \in PubMail, Planned(m), Planned(n), m.value = n.value
  PROVE  m = n
<1>1. PICK x, y : x = ToTell("publisher", m) /\ y = ToTell("publisher", n)
  OBVIOUS
<1>2. x \in DOMAIN PublishLines /\ y \in DOMAIN PublishLines /\ PublishLines[x] = m.value /\ PublishLines[y] = n.value
  BY <1>1, PubSubLineFacts
<1>3. PICK i \in DOMAIN began, j \in DOMAIN began : began[i] = x /\ began[j] = y
  BY <1>1 DEF Planned, In
<1>4. m.value \in Nat
  BY PubSubMailFacts
<1>5. ~ (i < j) /\ ~ (j < i)
  BY <1>2, <1>3, <1>4 DEF Rises
<1>6. i = j
  BY <1>3, <1>5
<1>. QED
  BY <1>1, <1>3, <1>6, PubSubLineFacts

LEMMA OriginsMove ==
  ASSUME PubSubTypes, NEW h \in PubSubMail, PubSubMoves(h), Origins
  PROVE  Origins'
<1>. SUFFICES ASSUME NEW m \in PubMail,
                     \/ In(m, mailbox'["publisher"]) \/ In(m, mailbox'["broker"]) \/ In(m, batch')
                     \/ \E w \in Workers : In(m, mailbox'[w])
              PROVE  Planned(m)'
  BY DEF Origins
<1>1. WhereItIsFrom(m, h)
  BY WhereMailIsFrom
<1>2. m \notin SubMail
  BY PubSubMailFacts
<1>3. mailbox["broker"] # <<>> => In(Head(mailbox["broker"]), mailbox["broker"])
  <2>1. mailbox["broker"] \in Seq(PubSubMail)
    BY PubSubPlaces DEF PubSubTypes
  <2>. QED
    BY <2>1, InTail
<1>4. \/ In(m, mailbox["publisher"]) \/ In(m, mailbox["broker"]) \/ In(m, batch)
      \/ \E w \in Workers : In(m, mailbox[w])
  BY <1>1, <1>2, <1>3 DEF WhereItIsFrom
<1>5. Planned(m)
  BY <1>4 DEF Origins
<1>6. began' = began
  BY PubSubTypesMove
<1>. QED
  BY <1>5, <1>6 DEF Planned

LEMMA NotedIsKnownMoves ==
  ASSUME PubSubTypes, NEW h \in PubSubMail, PubSubMoves(h), NotedIsKnown, Origins,
         Rises(began, PublishLines, 0, 4), \A i \in DOMAIN began : i \in Int
  PROVE  NotedIsKnown'
<1>. SUFFICES ASSUME NEW m \in PubMail, NEW w \in Workers, Planned(m)',
                     In(NotifyMsg(m.value, w), mailbox'["subscriber"]) \/ In(NotifyMsg(m.value, w), notified')
              PROVE  KnowsTopic(w, m.topic)'
  BY DEF NotedIsKnown
<1>0. Planned(m)
  <2>1. began' = began
    BY PubSubTypesMove
  <2>. QED
    BY <2>1 DEF Planned
<1>1. PICK n : n = NotifyMsg(m.value, w)
  OBVIOUS
<1>2. WhereItIsFrom(n, h) /\ WhereItGoes(n, h)
  BY WhereMailIsFrom, WhereMailGoes
<1>3. KnowsTopic(w, m.topic) => KnowsTopic(w, m.topic)'
  BY <1>2 DEF WhereItGoes, KnowsTopic
<1>4. CASE In(n, mailbox["subscriber"]) \/ In(n, notified)
  BY <1>0, <1>1, <1>3, <1>4 DEF NotedIsKnown
<1>5. ASSUME NEW u \in Workers, h \in PubMail, In(h, mailbox[u]), h.topic \in subscriptions[u], n = NotifyMsg(h.value, u)
      PROVE  KnowsTopic(w, m.topic)'
  <2>1. u = w /\ h.value = m.value
    BY <1>1, <1>5 DEF NotifyMsg
  <2>2. Planned(h)
    BY <1>5 DEF Origins
  <2>3. h = m
    BY <1>0, <1>5, <2>1, <2>2, PlannedOnce
  <2>. QED
    BY <1>3, <1>5, <2>1, <2>3 DEF KnowsTopic
<1>. QED
  BY <1>1, <1>2, <1>4, <1>5 DEF WhereItIsFrom

\* The gate stays closed, whatever the broker handles.
LEMMA GateMoves ==
  ASSUME PubSubTypes, NEW h \in PubSubMail, PubSubMoves(h), NEW m \in PubMail, Gate(m)
  PROVE  /\ Gate(m)'
         /\ ~ batching /\ mailbox["broker"] # <<>> => Head(mailbox["broker"]) # m
<1>0. PICK q \in Seq(PubSubMail) : q = mailbox["broker"]
  BY PubSubPlaces DEF PubSubTypes
<1>1. m # On /\ m # Off /\ m # ConfigMsg /\ On # Off /\ m \notin SubMail /\ m \notin NotifyMail
      /\ (\A s \in SubMail : s # On /\ s # Off) /\ (\A p \in PubMail : p # On /\ p # Off)
  <2>1. m.type = "publish" /\ (\A s \in SubMail : s.type = "subscribe") /\ (\A p \in PubMail : p.type = "publish")
    BY PubSubMailFacts
  <2>. QED
    BY <2>1, SortsOfMail, PubSubMailFacts
<1>2. (batching /\ ~ In(Off, q)) \/ (~ In(m, batch) /\ Opens(m, On, Off, q))
  BY <1>0 DEF Gate
<1>3. ASSUME q # <<>>
      PROVE  /\ ~ In(Off, q) => ~ In(Off, Tail(q)) /\ Head(q) # Off
             /\ Opens(m, On, Off, q) =>
                  Head(q) # m /\ (Opens(m, On, Off, Tail(q)) \/ (Head(q) = On /\ ~ In(Off, Tail(q))))
  BY <1>0, <1>1, <1>3, InTail, OpensTail
<1>4. \A z \in PubSubMail : z # Off =>
        /\ ~ In(Off, q) => ~ In(Off, Append(q, z))
        /\ Opens(m, On, Off, q) => Opens(m, On, Off, Append(q, z))
  BY <1>0, InAppend, OpensAppend
<1>5. ~ batching /\ mailbox["broker"] # <<>> => Head(mailbox["broker"]) # m
  BY <1>0, <1>2, <1>3
<1>6. ASSUME mailbox'["broker"] = q, batching' = batching, batch' = batch PROVE Gate(m)'
  BY <1>2, <1>6 DEF Gate
<1>7. ASSUME q # <<>>, mailbox'["broker"] = Tail(q), Head(q) # On, batching' = batching, batch' = batch PROVE Gate(m)'
  BY <1>2, <1>3, <1>7 DEF Gate
<1>8. ASSUME NEW z \in PubSubMail, z # Off, mailbox'["broker"] = Append(q, z), batching' = batching, batch' = batch PROVE Gate(m)'
  BY <1>2, <1>4, <1>8 DEF Gate
<1>9. \A x \in PubSubActors : \A t : x # "broker" /\ Moves(x, h, {}, t) => mailbox'["broker"] = q
  BY <1>0, PubSubPlaces DEF Moves
<1>10. ASSUME NEW x \in {"subscriber", "publisher"}, Configures(x, h) PROVE Gate(m)'
  BY <1>6, <1>9, <1>10, PubSubPlaces DEF Configures, pubSubVars
<1>11. ASSUME AsksBroker(h) \/ PassesOn(h) PROVE Gate(m)'
  <2>1. mailbox'["broker"] = Append(q, h) /\ batching' = batching /\ batch' = batch /\ h # Off
    BY <1>0, <1>1, <1>11 DEF AsksBroker, PassesOn, Moves, pubSubVars
  <2>. QED
    BY <1>8, <2>1
<1>12. ASSUME Notes(h) PROVE Gate(m)'
  BY <1>6, <1>9, <1>12, PubSubPlaces DEF Notes
<1>13. ASSUME Spreads(h) PROVE Gate(m)'
  <2>1. mailbox'["broker"] = Tail(q) /\ h = Head(q) /\ q # <<>> /\ h # On /\ batching' = batching /\ batch' = batch
    BY <1>0, <1>1, <1>13 DEF Spreads, Moves, pubSubVars
  <2>. QED
    BY <1>7, <2>1
<1>14. ASSUME PutsOff(h) PROVE Gate(m)'
  <2>1. /\ mailbox'["broker"] = Tail(q) /\ h = Head(q) /\ q # <<>> /\ h # On /\ batching /\ batching' = batching
        /\ batch' = Append(batch, h) /\ h \in PubMail
    BY <1>0, <1>1, <1>14 DEF PutsOff, Moves
  <2>2. In(m, batch') <=> In(m, batch) \/ m = h
    BY <2>1, InAppend DEF PubSubTypes
  <2>. QED
    BY <1>2, <1>3, <2>1, <2>2 DEF Gate
<1>15. ASSUME Begins(h) PROVE Gate(m)'
  <2>1. mailbox'["broker"] = Tail(q) /\ q # <<>> /\ batching' = TRUE /\ batch' = batch
    BY <1>0, <1>15 DEF Begins, Moves
  <2>. QED
    <3>1. ~ In(m, batch) /\ Opens(m, On, Off, q) => Gate(m)'
      <4>1. ~ In(m, batch) => ~ In(m, batch')
        BY <2>1
      <4>. QED
        BY <1>3, <2>1, <4>1 DEF Gate
    <3>2. ~ In(Off, q) => Gate(m)'
      BY <1>3, <2>1 DEF Gate
    <3>. QED
      BY <1>2, <3>1, <3>2
<1>16. ASSUME Ends(h) PROVE Gate(m)'
  <2>1. q # <<>> /\ Head(q) = Off /\ mailbox'["broker"] = batch \o Tail(q) /\ batch' = <<>>
    BY <1>0, <1>16 DEF Ends
  <2>2. ~ In(m, batch) /\ Opens(m, On, Off, Tail(q))
    BY <1>1, <1>2, <1>3, <2>1
  <2>3. batch \in Seq(PubSubMail)
    <3>1. PubMail \subseteq PubSubMail
      BY PubSubPlaces
    <3>. QED
      BY <3>1, SeqMonotonic DEF PubSubTypes
  <2>4. Tail(q) \in Seq(PubSubMail)
    BY <2>1
  <2>5. Opens(m, On, Off, batch \o Tail(q))
    BY <2>2, <2>3, <2>4, OpensConcat
  <2>6. ~ In(m, batch')
    BY <2>1, InEmpty
  <2>. QED
    BY <2>1, <2>5, <2>6 DEF Gate
<1>17. ASSUME NEW w \in Workers, Assigns(h, w) PROVE Gate(m)'
  <2>1. mailbox'["broker"] = Tail(q) /\ h = Head(q) /\ q # <<>> /\ h # On /\ batching' = batching /\ batch' = batch
    BY <1>0, <1>1, <1>17 DEF Assigns, Moves, pubSubVars
  <2>. QED
    BY <1>7, <2>1
<1>18. ASSUME NEW w \in Workers, Learns(h, w) \/ Notifies(h, w) \/ Throws(h, w) PROVE Gate(m)'
  <2>1. mailbox'["broker"] = q /\ batching' = batching /\ batch' = batch
    BY <1>0, <1>9, <1>18, PubSubPlaces DEF Learns, Notifies, Throws, Moves, pubSubVars
  <2>. QED
    BY <1>6, <2>1
<1>19. Gate(m)'
  BY <1>10, <1>11, <1>12, <1>13, <1>14, <1>15, <1>16, <1>17, <1>18 DEF PubSubMoves
<1>. QED
  BY <1>5, <1>19

LEMMA WaitsMoves ==
  ASSUME PubSubTypes, Origins, NEW h \in PubSubMail, PubSubMoves(h), NEW lines, NEW k, lines = began,
         Rises(lines, PublishLines, 0, 4), \A i \in DOMAIN lines : i \in Int, Waits(lines, k)
  PROVE  Waits(lines, k)'
<1>. SUFFICES ASSUME NEW m \in PubMail, OpenAt(lines, k, m) PROVE Gate(m)' /\ Unheard(m)'
  BY DEF Waits
<1>1. Gate(m) /\ Unheard(m)
  BY DEF Waits
<1>2. Gate(m)' /\ (~ batching /\ mailbox["broker"] # <<>> => Head(mailbox["broker"]) # m)
  BY <1>1, GateMoves
<1>3. Planned(m)
  BY DEF OpenAt, Planned, In
<1>4. m \notin SubMail /\ WhereItIsFrom(m, h)
  BY PubSubMailFacts, WhereMailIsFrom
<1>5. ASSUME NEW w \in Workers
      PROVE  /\ ~ In(m, mailbox'[w])
             /\ ~ In(NotifyMsg(m.value, w), mailbox'["subscriber"]) /\ ~ In(NotifyMsg(m.value, w), notified')
  <2>1. ~ In(m, mailbox'[w])
    BY <1>1, <1>2, <1>4 DEF WhereItIsFrom, Unheard
  <2>2. PICK n : n = NotifyMsg(m.value, w)
    OBVIOUS
  <2>3. WhereItIsFrom(n, h) /\ ~ In(n, mailbox["subscriber"]) /\ ~ In(n, notified)
    BY <1>1, <2>2, WhereMailIsFrom DEF Unheard
  <2>4. ~ In(n, notified')
    BY <2>3 DEF WhereItIsFrom
  <2>5. ASSUME NEW u \in Workers, h \in PubMail, In(h, mailbox[u]), n = NotifyMsg(h.value, u) PROVE FALSE
    <3>1. h.value = m.value
      BY <2>2, <2>5 DEF NotifyMsg
    <3>2. Planned(h)
      BY <2>5 DEF Origins
    <3>3. h = m
      BY <1>3, <2>5, <3>1, <3>2, PlannedOnce
    <3>. QED
      BY <1>1, <2>5, <3>3 DEF Unheard
  <2>6. ~ In(n, mailbox'["subscriber"])
    BY <2>3, <2>5 DEF WhereItIsFrom
  <2>. QED
    BY <2>1, <2>2, <2>4, <2>6
<1>. QED
  BY <1>2, <1>5 DEF Unheard

\* The part of Flow that is about the mailboxes.
Boxes(a, b, c, d, e, f) ==
  /\ \A w \in Workers : Rises(mailbox["subscriber"], Noted(w), a[w], b[w]) /\ Rises(mailbox[w], Published, b[w], c)
  /\ Rises(mailbox["broker"], Published, d, e)
  /\ Rises(mailbox["publisher"], Published, e, f)

LEMMA BoxesKept ==
  ASSUME PubSubTypes, NEW x \in PubSubActors, NEW h, NEW others \in SUBSET PubSubActors, x \notin others, NEW told \in PubSubMail,
         Moves(x, h, others, told),
         others = {} \/ (told \notin DOMAIN Published /\ \A w \in Workers : told \notin DOMAIN Noted(w)),
         NEW a, NEW b, NEW c, NEW d, NEW e, NEW f, Boxes(a, b, c, d, e, f)
  PROVE  Boxes(a, b, c, d, e, f)'
<1>1. ASSUME NEW w \in Workers
      PROVE  Rises(mailbox'["subscriber"], Noted(w), a[w], b[w]) /\ Rises(mailbox'[w], Published, b[w], c)
  <2>1. Rises(mailbox["subscriber"], Noted(w), a[w], b[w]) /\ Rises(mailbox[w], Published, b[w], c)
    BY DEF Boxes
  <2>2. "subscriber" \in PubSubActors /\ w \in PubSubActors
    BY PubSubPlaces
  <2>3. Rises(mailbox'["subscriber"], Noted(w), a[w], b[w])
    BY <2>1, <2>2, MovesRises
  <2>4. Rises(mailbox'[w], Published, b[w], c)
    BY <2>1, <2>2, MovesRises
  <2>. QED
    BY <2>3, <2>4
<1>2. Rises(mailbox'["broker"], Published, d, e)
  <2>1. Rises(mailbox["broker"], Published, d, e) /\ "broker" \in PubSubActors
    BY PubSubPlaces DEF Boxes
  <2>. QED
    BY <2>1, MovesRises
<1>3. Rises(mailbox'["publisher"], Published, e, f)
  <2>1. Rises(mailbox["publisher"], Published, e, f) /\ "publisher" \in PubSubActors
    BY PubSubPlaces DEF Boxes
  <2>. QED
    BY <2>1, MovesRises
<1>4. \A w \in Workers : Noted(w)' = Noted(w)
  BY DEF Noted, NotifyMsg
<1>5. Published' = Published
  BY DEF Published, PubMail, PublishMsg
<1>. QED
  BY <1>1, <1>2, <1>3, <1>4, <1>5 DEF Boxes

\* The part that is not.
Elsewhere(a, b, c, d, e, f) ==
  /\ a \in [Workers -> Nat] /\ b \in [Workers -> Nat]
  /\ \A w \in Workers : a[w] <= b[w] /\ b[w] <= c /\ Rises(notified, Noted(w), 0, a[w])
  /\ c <= d /\ d <= e /\ e <= f
  /\ Rises(batch, Published, c, d)
  /\ Rises(script, PublishLines, f, 4)

LEMMA FlowParts ==
  ASSUME NEW a, NEW b, NEW c, NEW d, NEW e, NEW f
  PROVE  /\ Flow(a, b, c, d, e, f) <=> Elsewhere(a, b, c, d, e, f) /\ Boxes(a, b, c, d, e, f)
         /\ Flow(a, b, c, d, e, f)' <=> Elsewhere(a, b, c, d, e, f)' /\ Boxes(a, b, c, d, e, f)'
BY DEF Flow, Elsewhere, Boxes

LEMMA FlowKept ==
  ASSUME PubSubTypes, NEW x \in PubSubActors, NEW h, NEW others \in SUBSET PubSubActors, x \notin others, NEW told \in PubSubMail,
         Moves(x, h, others, told), others = {} \/ told.type \in {"config", "subscribe", "batch"},
         UNCHANGED <<batch, notified>>,
         NEW a, NEW b, NEW c, NEW d, NEW e, NEW f, Flow(a, b, c, d, e, f)
  PROVE  Flow(a, b, c, d, e, f)'
<1>1. others = {} \/ (told \notin DOMAIN Published /\ \A w \in Workers : told \notin DOMAIN Noted(w))
  BY SortsOfMail
<1>2. Elsewhere(a, b, c, d, e, f) /\ Boxes(a, b, c, d, e, f)
  BY FlowParts
<1>3. Boxes(a, b, c, d, e, f)'
  BY <1>1, <1>2, BoxesKept
<1>4. script' = script
  BY DEF Moves
<1>5. Elsewhere(a, b, c, d, e, f)'
  BY <1>2, <1>4 DEF Elsewhere
<1>. QED
  BY <1>3, <1>5, FlowParts

LEMMA NotesFlow ==
  ASSUME PubSubTypes, NEW h \in PubSubMail, Notes(h),
         NEW a, NEW b, NEW c \in Nat, NEW d \in Nat, NEW e \in Nat, NEW f \in Nat, Flow(a, b, c, d, e, f)
  PROVE  \E g : Flow(g, b, c, d, e, f)'
<1>1. Elsewhere(a, b, c, d, e, f) /\ Boxes(a, b, c, d, e, f)
  BY FlowParts
<1>2. PICK u \in Workers, v \in Nat : u = h.worker /\ v = h.value
  BY PubSubMailFacts DEF Notes
<1>3. \A w \in Workers : (h \in DOMAIN Noted(w) <=> u = w) /\ (u = w => Noted(w)[h] = v)
  BY <1>2, NotedFacts DEF Notes
<1>4. PICK g : g = [a EXCEPT ![u] = v]
  OBVIOUS
<1>5. a \in [Workers -> Nat] /\ b \in [Workers -> Nat]
  BY <1>1 DEF Elsewhere
<1>6. g \in [Workers -> Nat] /\ g[u] = v /\ \A w \in Workers : w # u => g[w] = a[w]
  BY <1>2, <1>4, <1>5
<1>7. "subscriber" \in PubSubActors /\ Moves("subscriber", h, {}, h)
  BY PubSubPlaces DEF Notes
<1>8. Boxes(a, b, c, d, e, f)'
  BY <1>1, <1>7, BoxesKept
<1>9. a[u] < v /\ v <= b[u] /\ Rises(mailbox'["subscriber"], Noted(u), v, b[u])
  <2>1. Rises(mailbox["subscriber"], Noted(u), a[u], b[u])
    BY <1>1 DEF Boxes
  <2>2. h \in DOMAIN Noted(u) /\ Noted(u)[h] = v
    BY <1>3
  <2>3. /\ a[u] < Noted(u)[h] /\ Noted(u)[h] <= b[u] /\ Rises(mailbox'["subscriber"], Noted(u), Noted(u)[h], b[u])
    BY <1>7, <2>1, <2>2, MovesFirst
  <2>. QED
    BY <2>2, <2>3
<1>10. ASSUME NEW w \in Workers PROVE Rises(notified', Noted(w), 0, g[w]) /\ Rises(mailbox'["subscriber"], Noted(w), g[w], b[w])
  <2>1. notified \in Seq(NotifyMail) /\ h \in NotifyMail /\ notified' = Append(notified, h)
    BY DEF Notes, PubSubTypes
  <2>2. Rises(notified, Noted(w), 0, a[w]) /\ a[w] \in Int /\ 0 <= a[w]
    BY <1>1, <1>5 DEF Elsewhere
  <2>3. CASE w = u
    <3>1. h \in DOMAIN Noted(w) /\ Noted(w)[h] = v /\ \A m \in DOMAIN Noted(w) : Noted(w)[m] \in Int
      BY <1>3, <2>3, SortsOfMail
    <3>2. a[w] < Noted(w)[h]
      BY <1>9, <2>3, <3>1
    <3>3. PICK num : num = Noted(w)
      OBVIOUS
    <3>4. Rises(notified, num, 0, a[w]) /\ h \in DOMAIN num /\ (\A m \in DOMAIN num : num[m] \in Int) /\ a[w] < num[h] /\ num[h] = v
      BY <2>2, <3>1, <3>2, <3>3
    <3>5. PICK n \in Int : n = a[w]
      BY <2>2
    <3>6. Rises(notified, num, 0, n) /\ n < num[h] /\ 0 <= n
      BY <2>2, <3>4, <3>5
    <3>7. Rises(Append(notified, h), num, 0, num[h])
      BY <2>1, <3>4, <3>6, RisesAppendNumber, SMTT(60)
    <3>. QED
      BY <1>6, <1>9, <2>1, <2>3, <3>3, <3>4, <3>7
  <2>4. CASE w # u
    <3>1. h \notin DOMAIN Noted(w)
      BY <1>3, <2>4
    <3>2. Rises(Append(notified, h), Noted(w), 0, a[w])
      BY <2>1, <2>2, <3>1, RisesAppend
    <3>3. Rises(mailbox["subscriber"], Noted(w), a[w], b[w])
      BY <1>1 DEF Boxes
    <3>4. Rises(mailbox'["subscriber"], Noted(w), a[w], b[w])
      BY <1>7, <3>1, <3>3, MovesRises
    <3>. QED
      BY <1>6, <2>1, <2>4, <3>2, <3>4
  <2>. QED
    BY <2>3, <2>4
<1>11. \A w \in Workers : Noted(w)' = Noted(w)
  BY DEF Noted, NotifyMsg
<1>12. Boxes(g, b, c, d, e, f)'
  BY <1>8, <1>10, <1>11 DEF Boxes
<1>13. Elsewhere(g, b, c, d, e, f)'
  <2>1. \A w \in Workers : g[w] <= b[w]
    BY <1>1, <1>6, <1>9 DEF Elsewhere
  <2>2. script' = script /\ batch' = batch
    BY DEF Notes, Moves
  <2>. QED
    BY <1>1, <1>6, <1>10, <1>11, <2>1, <2>2 DEF Elsewhere
<1>. QED
  BY <1>12, <1>13, FlowParts

LEMMA PassesOnFlow ==
  ASSUME PubSubTypes, NEW h \in PubSubMail, PassesOn(h),
         NEW a, NEW b, NEW c \in Nat, NEW d \in Nat, NEW e \in Nat, NEW f \in Nat, Flow(a, b, c, d, e, f)
  PROVE  \E g \in Nat : Flow(a, b, c, d, g, f)'
<1>1. Elsewhere(a, b, c, d, e, f) /\ Boxes(a, b, c, d, e, f)
  BY FlowParts
<1>2. PICK others \in SUBSET PubSubActors : others = {"broker"}
  BY PubSubPlaces
<1>3. /\ "publisher" \in PubSubActors /\ "publisher" \notin others /\ "broker" \in others /\ Moves("publisher", h, others, h)
      /\ h \in DOMAIN Published /\ \A m \in DOMAIN Published : Published[m] \in Int
  BY <1>2, PubSubPlaces, PubSubMailFacts, SortsOfMail DEF PassesOn
<1>4. PICK v \in Nat : v = Published[h]
  BY PubSubMailFacts DEF PassesOn
<1>5. e < v /\ v <= f /\ Rises(mailbox'["publisher"], Published, v, f)
  <2>1. Rises(mailbox["publisher"], Published, e, f)
    BY <1>1 DEF Boxes
  <2>. QED
    BY <1>3, <1>4, <2>1, MovesFirst
<1>6. Rises(mailbox'["broker"], Published, d, v)
  <2>1. Rises(mailbox["broker"], Published, d, e) /\ d <= e /\ e < Published[h]
    BY <1>1, <1>4, <1>5 DEF Boxes, Elsewhere
  <2>2. Rises(mailbox'["broker"], Published, d, Published[h])
    BY <1>3, <2>1, MovesLast
  <2>. QED
    BY <1>4, <2>2
<1>7. \A w \in Workers : mailbox'[w] = mailbox[w]
  BY <1>2, <1>3, PubSubPlaces DEF Moves
<1>8. mailbox'["subscriber"] = mailbox["subscriber"]
  BY <1>2, <1>3, PubSubPlaces DEF Moves
<1>9. Boxes(a, b, c, d, v, f)'
  BY <1>1, <1>5, <1>6, <1>7, <1>8 DEF Boxes, Noted, NotifyMsg, Published, PubMail, PublishMsg
<1>10. Elsewhere(a, b, c, d, v, f)'
  <2>1. script' = script /\ batch' = batch /\ notified' = notified
    BY DEF PassesOn, Moves, pubSubVars
  <2>2. d <= v /\ v <= f
    BY <1>1, <1>5 DEF Elsewhere
  <2>. QED
    BY <1>1, <2>1, <2>2 DEF Elsewhere
<1>. QED
  BY <1>9, <1>10, FlowParts

LEMMA SpreadsFlow ==
  ASSUME PubSubTypes, NEW h \in PubSubMail, Spreads(h),
         NEW a, NEW b, NEW c \in Nat, NEW d \in Nat, NEW e \in Nat, NEW f \in Nat, Flow(a, b, c, d, e, f)
  PROVE  \E g \in Nat : Flow(a, b, g, g, e, f)'
<1>1. Elsewhere(a, b, c, d, e, f) /\ Boxes(a, b, c, d, e, f)
  BY FlowParts
<1>2. PICK others \in SUBSET PubSubActors : others = Workers
  BY PubSubPlaces
<1>3. /\ "broker" \in PubSubActors /\ "broker" \notin others /\ Moves("broker", h, others, h)
      /\ h \in DOMAIN Published /\ \A m \in DOMAIN Published : Published[m] \in Int
  BY <1>2, PubSubPlaces, PubSubMailFacts, SortsOfMail DEF Spreads
<1>4. PICK v \in Nat : v = Published[h]
  BY PubSubMailFacts DEF Spreads
<1>5. d < v /\ v <= e /\ Rises(mailbox'["broker"], Published, v, e)
  <2>1. Rises(mailbox["broker"], Published, d, e)
    BY <1>1 DEF Boxes
  <2>. QED
    BY <1>3, <1>4, <2>1, MovesFirst
<1>6. ASSUME NEW w \in Workers PROVE Rises(mailbox'[w], Published, b[w], v)
  <2>1. Rises(mailbox[w], Published, b[w], c) /\ b[w] <= c /\ c <= d /\ w \in others
    BY <1>1, <1>2 DEF Boxes, Elsewhere
  <2>2. PICK n \in Int : n = b[w]
    BY <1>1 DEF Elsewhere
  <2>3. Rises(mailbox[w], Published, n, c) /\ n <= c /\ c < Published[h]
    BY <1>4, <1>5, <2>1, <2>2
  <2>4. Rises(mailbox'[w], Published, n, Published[h])
    BY <1>3, <2>1, <2>3, MovesLast
  <2>. QED
    BY <1>4, <2>2, <2>4
<1>7. mailbox'["subscriber"] = mailbox["subscriber"] /\ mailbox'["publisher"] = mailbox["publisher"]
  BY <1>2, <1>3, PubSubPlaces DEF Moves
<1>8. Boxes(a, b, v, v, e, f)'
  BY <1>1, <1>5, <1>6, <1>7 DEF Boxes, Noted, NotifyMsg, Published, PubMail, PublishMsg
<1>9. Elsewhere(a, b, v, v, e, f)'
  <2>1. script' = script /\ batch' = batch /\ notified' = notified /\ batch = <<>>
    BY DEF Spreads, Moves, pubSubVars, PubSubTypes
  <2>2. Rises(<<>>, Published, v, v)
    BY FullEmpty DEF Full
  <2>3. \A w \in Workers : b[w] <= v
    BY <1>1, <1>5 DEF Elsewhere
  <2>. QED
    BY <1>1, <1>5, <2>1, <2>2, <2>3 DEF Elsewhere, Published, PubMail, PublishMsg
<1>. QED
  BY <1>8, <1>9, FlowParts

LEMMA PutsOffFlow ==
  ASSUME PubSubTypes, NEW h \in PubSubMail, PutsOff(h),
         NEW a, NEW b, NEW c \in Nat, NEW d \in Nat, NEW e \in Nat, NEW f \in Nat, Flow(a, b, c, d, e, f)
  PROVE  \E g \in Nat : Flow(a, b, c, g, e, f)'
<1>1. Elsewhere(a, b, c, d, e, f) /\ Boxes(a, b, c, d, e, f)
  BY FlowParts
<1>2. /\ "broker" \in PubSubActors /\ Moves("broker", h, {}, h)
      /\ h \in DOMAIN Published /\ \A m \in DOMAIN Published : Published[m] \in Int
  BY PubSubPlaces, PubSubMailFacts, SortsOfMail DEF PutsOff
<1>3. PICK v \in Nat : v = Published[h]
  BY PubSubMailFacts DEF PutsOff
<1>4. d < v /\ v <= e /\ Rises(mailbox'["broker"], Published, v, e)
  <2>1. Rises(mailbox["broker"], Published, d, e)
    BY <1>1 DEF Boxes
  <2>. QED
    BY <1>2, <1>3, <2>1, MovesFirst
<1>5. Boxes(a, b, c, d, e, f)'
  BY <1>1, <1>2, BoxesKept
<1>6. Boxes(a, b, c, v, e, f)'
  BY <1>4, <1>5 DEF Boxes, Published, PubMail, PublishMsg
<1>7. Rises(batch', Published, c, v)
  <2>1. Rises(batch, Published, c, d) /\ c <= d /\ d < Published[h] /\ batch \in Seq(PubMail) /\ h \in PubMail /\ batch' = Append(batch, h)
    BY <1>1, <1>3, <1>4 DEF Elsewhere, PutsOff, PubSubTypes
  <2>2. Rises(Append(batch, h), Published, c, Published[h])
    BY <1>2, <2>1, RisesAppendNumber
  <2>. QED
    BY <1>3, <2>1, <2>2
<1>8. Elsewhere(a, b, c, v, e, f)'
  <2>1. script' = script /\ notified' = notified
    BY DEF PutsOff, Moves
  <2>2. c <= v
    BY <1>1, <1>4 DEF Elsewhere
  <2>. QED
    BY <1>1, <1>4, <1>7, <2>1, <2>2 DEF Elsewhere, Published, PubMail, PublishMsg
<1>. QED
  BY <1>6, <1>8, FlowParts

LEMMA EndsFlow ==
  ASSUME PubSubTypes, NEW h \in PubSubMail, Ends(h),
         NEW a, NEW b, NEW c \in Nat, NEW d \in Nat, NEW e \in Nat, NEW f \in Nat, Flow(a, b, c, d, e, f)
  PROVE  Flow(a, b, c, c, e, f)'
<1>1. Elsewhere(a, b, c, d, e, f) /\ Boxes(a, b, c, d, e, f)
  BY FlowParts
<1>2. batch \in Seq(PubSubMail) /\ mailbox["broker"] \in Seq(PubSubMail) /\ mailbox["broker"] # <<>>
  <2>1. PubMail \subseteq PubSubMail
    BY PubSubPlaces
  <2>. QED
    BY <2>1, PubSubPlaces, SeqMonotonic DEF PubSubTypes, Ends
<1>3. PICK t \in Seq(PubSubMail) : t = Tail(mailbox["broker"])
  <2>1. Tail(mailbox["broker"]) \in Seq(PubSubMail)
    BY <1>2
  <2>. QED
    BY <2>1
<1>4. Rises(t, Published, d, e)
  BY <1>1, <1>2, <1>3, RisesTail DEF Boxes
<1>5. Rises(batch \o t, Published, c, e)
  <2>1. Rises(batch, Published, c, d) /\ c <= d /\ d <= e
    BY <1>1 DEF Elsewhere
  <2>2. \A m \in DOMAIN Published : Published[m] \in Int
    BY SortsOfMail
  <2>. QED
    <3>1. PICK s \in Seq(PubSubMail) : s = batch
      BY <1>2
    <3>2. Rises(s, Published, c, d) /\ Rises(t, Published, d, e) /\ c \in Int /\ d \in Int /\ e \in Int
      BY <1>4, <2>1, <3>1
    <3>3. Rises(s \o t, Published, c, e)
      BY <2>1, <2>2, <3>2, RisesConcat
    <3>. QED
      BY <3>1, <3>3
<1>6. /\ mailbox'["broker"] = batch \o t
      /\ \A y \in PubSubActors : y # "broker" => mailbox'[y] = mailbox[y]
  BY <1>3 DEF Ends
<1>7. Boxes(a, b, c, c, e, f)'
  BY <1>1, <1>5, <1>6, PubSubPlaces DEF Boxes, Noted, NotifyMsg, Published, PubMail, PublishMsg
<1>8. Elsewhere(a, b, c, c, e, f)'
  <2>1. script' = script /\ batch' = <<>> /\ notified' = notified
    BY DEF Ends
  <2>2. Rises(<<>>, Published, c, c)
    BY FullEmpty DEF Full
  <2>3. c <= c /\ c <= e
    BY <1>1 DEF Elsewhere
  <2>. QED
    BY <1>1, <2>1, <2>2, <2>3 DEF Elsewhere, Published, PubMail, PublishMsg
<1>. QED
  BY <1>7, <1>8, FlowParts

LEMMA NotifiesFlow ==
  ASSUME PubSubTypes, NEW h \in PubSubMail, NEW u \in Workers, Notifies(h, u),
         NEW a, NEW b, NEW c \in Nat, NEW d \in Nat, NEW e \in Nat, NEW f \in Nat, Flow(a, b, c, d, e, f)
  PROVE  \E g : Flow(a, g, c, d, e, f)'
<1>1. Elsewhere(a, b, c, d, e, f) /\ Boxes(a, b, c, d, e, f)
  BY FlowParts
<1>2. PICK v \in Nat : v = Published[h] /\ v = h.value
  BY PubSubMailFacts DEF Notifies
<1>3. PICK t \in NotifyMail : t = NotifyMsg(v, u)
  BY <1>2, PubSubPlaces DEF Notifies
<1>4. PICK others \in SUBSET PubSubActors : others = {"subscriber"}
  BY PubSubPlaces
<1>5. /\ u \in PubSubActors /\ u \notin others /\ "subscriber" \in others /\ Moves(u, h, others, t) /\ t \in PubSubMail
      /\ h \in DOMAIN Published /\ "subscriber" \in PubSubActors
  BY <1>2, <1>3, <1>4, PubSubPlaces, PubSubMailFacts DEF Notifies
<1>6. t.worker = u /\ t.value = v
  BY <1>3 DEF NotifyMsg
<1>7. \A w \in Workers : (t \in DOMAIN Noted(w) <=> u = w) /\ (u = w => Noted(w)[t] = v)
  BY <1>3, <1>6, NotedFacts
<1>8. a \in [Workers -> Nat] /\ b \in [Workers -> Nat]
  BY <1>1 DEF Elsewhere
<1>9. PICK g : g = [b EXCEPT ![u] = v]
  OBVIOUS
<1>10. g \in [Workers -> Nat] /\ g[u] = v /\ \A w \in Workers : w # u => g[w] = b[w]
  BY <1>2, <1>8, <1>9
<1>11. b[u] < v /\ v <= c /\ Rises(mailbox'[u], Published, v, c)
  <2>1. Rises(mailbox[u], Published, b[u], c)
    BY <1>1 DEF Boxes
  <2>2. b[u] < Published[h] /\ Published[h] <= c /\ Rises(mailbox'[u], Published, Published[h], c)
    BY <1>5, <2>1, MovesFirst
  <2>. QED
    BY <1>2, <2>2
<1>12. ASSUME NEW w \in Workers PROVE Rises(mailbox'["subscriber"], Noted(w), a[w], g[w]) /\ Rises(mailbox'[w], Published, g[w], c)
  <2>1. Rises(mailbox["subscriber"], Noted(w), a[w], b[w]) /\ Rises(mailbox[w], Published, b[w], c) /\ a[w] <= b[w]
    BY <1>1 DEF Boxes, Elsewhere
  <2>2. CASE w = u
    <3>1. PICK num : num = Noted(w)
      OBVIOUS
    <3>2. t \in DOMAIN num /\ num[t] = v /\ \A m \in DOMAIN num : num[m] \in Int
      BY <1>7, <2>2, <3>1, SortsOfMail
    <3>3. PICK k \in Int, n \in Int : k = a[w] /\ n = b[w]
      BY <1>8
    <3>4. Rises(mailbox["subscriber"], num, k, n) /\ k <= n /\ n < num[t]
      BY <1>11, <2>1, <2>2, <3>1, <3>2, <3>3
    <3>5. Rises(mailbox'["subscriber"], num, k, num[t])
      BY <1>5, <3>2, <3>4, MovesLast
    <3>. QED
      BY <1>10, <1>11, <2>2, <3>1, <3>2, <3>3, <3>5
  <2>3. CASE w # u
    <3>1. t \notin DOMAIN Noted(w)
      BY <1>7, <2>3
    <3>2. Rises(mailbox'["subscriber"], Noted(w), a[w], b[w])
      BY <1>5, <2>1, <3>1, MovesRises
    <3>3. mailbox'[w] = mailbox[w]
      BY <1>4, <1>5, <2>3, PubSubPlaces DEF Moves
    <3>. QED
      BY <1>10, <2>1, <2>3, <3>2, <3>3
  <2>. QED
    BY <2>2, <2>3
<1>13. mailbox'["broker"] = mailbox["broker"] /\ mailbox'["publisher"] = mailbox["publisher"]
  BY <1>4, <1>5, PubSubPlaces DEF Moves
<1>14. Boxes(a, g, c, d, e, f)'
  BY <1>1, <1>12, <1>13 DEF Boxes, Noted, NotifyMsg, Published, PubMail, PublishMsg
<1>15. Elsewhere(a, g, c, d, e, f)'
  <2>1. script' = script /\ batch' = batch /\ notified' = notified
    BY DEF Notifies, Moves, pubSubVars
  <2>2. \A w \in Workers : a[w] <= g[w] /\ g[w] <= c
    <3>1. a[u] <= b[u] /\ a[u] \in Int /\ b[u] \in Int
      BY <1>1, <1>8 DEF Elsewhere
    <3>2. a[u] <= v
      BY <1>11, <3>1
    <3>. QED
      BY <1>1, <1>10, <1>11, <3>2 DEF Elsewhere
  <2>. QED
    BY <1>1, <1>10, <2>1, <2>2 DEF Elsewhere, Noted, NotifyMsg
<1>. QED
  BY <1>14, <1>15, FlowParts

(***************************************************************************)
(* What main's two scripts are.                                            *)
(***************************************************************************)

\* What of main's two scripts matters.
WellTold(s) ==
  /\ s \in Seq(PubSubLines) /\ DOMAIN s = 1 .. 14 /\ Len(s) = 14
  /\ s[3] = Subscribes("topic0") /\ s[4] = Subscribes("topic1") /\ s[5] = Pause /\ s[14] = Batches(FALSE)
  /\ \A i \in 1 .. 14 : s[i] \in DOMAIN PublishLines => i > 5
  /\ Rises(s, PublishLines, 0, 4)
  /\ Leads(s, SwitchLines, "off", "off")

LEMMA ConcatByLength ==
  ASSUME NEW S, NEW b \in Seq(S), NEW t \in Seq(S), NEW m \in Nat, NEW n \in Nat, m = Len(b), n = Len(t), NEW u, u = b \o t
  PROVE  /\ u \in Seq(S) /\ Len(u) = m + n /\ DOMAIN u = 1 .. m + n
         /\ \A i \in 1 .. m + n : u[i] = IF i <= m THEN b[i] ELSE t[i - m]
<1>1. u \in Seq(S) /\ Len(u) = m + n
  OBVIOUS
<1>2. \A i \in 1 .. Len(b) + Len(t) : u[i] = IF i <= Len(b) THEN b[i] ELSE t[i - Len(b)]
  OBVIOUS
<1>. QED
  BY <1>1, <1>2

GoesOn(s, rest) == s = Beginning \o rest

LEMMA BeginningThen ==
  ASSUME NEW p1, NEW p2, NEW p3, NEW p4, NEW p5, NEW p6, NEW p7, NEW p8, NEW p9,
         NEW s, GoesOn(s, << p1, p2, p3, p4, p5, p6, p7, p8, p9 >>),
         {p1, p2, p3, p4, p5, p6, p7, p8, p9} \subseteq PubSubLines
  PROVE  /\ s \in Seq(PubSubLines) /\ DOMAIN s = 1 .. 14 /\ Len(s) = 14
         /\ s[1] = ToTell("subscriber", ConfigMsg) /\ s[2] = ToTell("publisher", ConfigMsg)
         /\ s[3] = Subscribes("topic0") /\ s[4] = Subscribes("topic1") /\ s[5] = Pause
         /\ s[6] = p1 /\ s[7] = p2 /\ s[8] = p3 /\ s[9] = p4 /\ s[10] = p5 /\ s[11] = p6 /\ s[12] = p7 /\ s[13] = p8 /\ s[14] = p9
<1>1. PICK b : b = Beginning
  OBVIOUS
<1>2. PICK t : t = << p1, p2, p3, p4, p5, p6, p7, p8, p9 >>
  OBVIOUS
<1>3. /\ b \in Seq(PubSubLines) /\ Len(b) = 5
      /\ b[1] = ToTell("subscriber", ConfigMsg) /\ b[2] = ToTell("publisher", ConfigMsg)
      /\ b[3] = Subscribes("topic0") /\ b[4] = Subscribes("topic1") /\ b[5] = Pause
  <2>1. /\ ToTell("subscriber", ConfigMsg) \in PubSubLines /\ ToTell("publisher", ConfigMsg) \in PubSubLines
        /\ Subscribes("topic0") \in PubSubLines /\ Subscribes("topic1") \in PubSubLines /\ Pause \in PubSubLines
    BY DEF PubSubLines
  <2>. QED
    BY <1>1, <2>1 DEF Beginning
<1>4. t \in Seq(PubSubLines) /\ Len(t) = 9
  BY <1>2
<1>5. t[1] = p1 /\ t[2] = p2 /\ t[3] = p3 /\ t[4] = p4 /\ t[5] = p5 /\ t[6] = p6 /\ t[7] = p7 /\ t[8] = p8 /\ t[9] = p9
  BY <1>2
<1>6. s = b \o t
  BY <1>1, <1>2 DEF GoesOn
<1>7. PICK m \in Nat, n \in Nat : m = Len(b) /\ n = Len(t)
  BY <1>3, <1>4
<1>8. b \in Seq(PubSubLines) /\ t \in Seq(PubSubLines)
  BY <1>3, <1>4
<1>9. /\ s \in Seq(PubSubLines) /\ Len(s) = m + n /\ DOMAIN s = 1 .. m + n
      /\ \A i \in 1 .. m + n : s[i] = IF i <= m THEN b[i] ELSE t[i - m]
  BY <1>6, <1>7, <1>8, ConcatByLength
<1>10. m = 5 /\ n = 9 /\ m + n = 14
  BY <1>3, <1>4, <1>7
<1>11. Len(s) = 14 /\ DOMAIN s = 1 .. 14 /\ \A i \in 1 .. 14 : s[i] = IF i <= 5 THEN b[i] ELSE t[i - 5]
  BY <1>9, <1>10
<1>12. s[1] = b[1] /\ s[2] = b[2] /\ s[3] = b[3] /\ s[4] = b[4] /\ s[5] = b[5]
  BY <1>11
<1>13. s[6] = t[6 - 5] /\ s[7] = t[7 - 5] /\ s[8] = t[8 - 5] /\ s[9] = t[9 - 5] /\ s[10] = t[10 - 5]
  BY <1>11
<1>14. s[11] = t[11 - 5] /\ s[12] = t[12 - 5] /\ s[13] = t[13 - 5] /\ s[14] = t[14 - 5]
  BY <1>11
<1>15. /\ 6 - 5 = 1 /\ 7 - 5 = 2 /\ 8 - 5 = 3 /\ 9 - 5 = 4 /\ 10 - 5 = 5
       /\ 11 - 5 = 6 /\ 12 - 5 = 7 /\ 13 - 5 = 8 /\ 14 - 5 = 9
  OBVIOUS
<1>16. s[6] = p1 /\ s[7] = p2 /\ s[8] = p3 /\ s[9] = p4 /\ s[10] = p5
  BY <1>5, <1>13, <1>15
<1>17. s[11] = p6 /\ s[12] = p7 /\ s[13] = p8 /\ s[14] = p9
  BY <1>5, <1>14, <1>15
<1>. QED
  BY <1>3, <1>9, <1>11, <1>12, <1>16, <1>17

LEMMA ScriptsAreWellTold ==
  ASSUME NEW s \in PubSubScripts
  PROVE  WellTold(s)
<1>1. PICK A, B, C1, D1, B2, F1 : /\ A = Publishes("topic0", 1) /\ B = Publishes("topic1", 2) /\ C1 = Publishes("topic0", 3) /\ D1 = Publishes("topic1", 4)
                              /\ B2 = Publishes("topic9", 2) /\ F1 = Subscribes("topic0")
  OBVIOUS
<1>2. PICK on, off : on = Batches(TRUE) /\ off = Batches(FALSE)
  OBVIOUS
<1>3. PICK g, h : g = ToTell("subscriber", ConfigMsg) /\ h = ToTell("publisher", ConfigMsg)
  OBVIOUS
<1>4. PICK F2 : F2 = Subscribes("topic1")
  OBVIOUS
<1>5. /\ \A x \in {A, B, C1, D1, B2} : x \in DOMAIN PublishLines /\ x \notin DOMAIN SwitchLines /\ x.to = "publisher"
      /\ PublishLines[A] = 1 /\ PublishLines[B] = 2 /\ PublishLines[C1] = 3 /\ PublishLines[D1] = 4 /\ PublishLines[B2] = 2
  <2>1. /\ PublishMsg("topic0", 1) \in PubMail /\ PublishMsg("topic1", 2) \in PubMail /\ PublishMsg("topic9", 2) \in PubMail
        /\ PublishMsg("topic0", 3) \in PubMail /\ PublishMsg("topic1", 4) \in PubMail
    BY DEF PubMail
  <2>2. \A t, v : PublishMsg(t, v).value = v /\ Publishes(t, v) = ToTell("publisher", PublishMsg(t, v))
    BY DEF PublishMsg, Publishes
  <2>. QED
    BY <1>1, <2>1, <2>2, PubSubLineFacts
<1>6. /\ \A x \in {on, off} : x \in DOMAIN SwitchLines /\ x \notin DOMAIN PublishLines /\ x.to = "broker"
      /\ SwitchLines[on] = "on" /\ SwitchLines[off] = "off" /\ on # off
  BY ZenonT(100), <1>2, PubSubLineFacts
<1>7. \A x \in {g, h, F1, F2, Pause} : x \notin DOMAIN SwitchLines /\ x \notin DOMAIN PublishLines
  <2>1. g.to = "subscriber" /\ F1.to = "subscriber" /\ F2.to = "subscriber" /\ Pause.to = "nobody"
    BY <1>1, <1>3, <1>4, PubSubLineFacts
  <2>2. h.msg.type = "config" /\ h.to = "publisher"
    BY <1>3, PubSubLineFacts, PubSubMailFacts
  <2>3. \A x \in DOMAIN PublishLines : x.to = "publisher" /\ x.msg.type = "publish"
    BY PubSubLineFacts, PubSubMailFacts
  <2>4. \A x \in DOMAIN SwitchLines : x.to = "broker"
    BY PubSubLineFacts
  <2>. QED
    BY <2>1, <2>2, <2>3, <2>4
<1>8. {A, B, C1, D1, B2, on, off, F1, Pause} \subseteq PubSubLines
  BY <1>1, <1>5, <1>6 DEF PubSubLines
<1>9. CASE GoesOn(s, << A, B, Pause, on, Pause, C1, D1, Pause, off >>)
  <2>1. /\ s \in Seq(PubSubLines) /\ DOMAIN s = 1 .. 14 /\ Len(s) = 14
        /\ s[1] = g /\ s[2] = h /\ s[3] = F1 /\ s[4] = F2 /\ s[5] = Pause
        /\ s[6] = A /\ s[7] = B /\ s[8] = Pause /\ s[9] = on /\ s[10] = Pause /\ s[11] = C1 /\ s[12] = D1 /\ s[13] = Pause /\ s[14] = off
    <3>1. {A, B, Pause, on, Pause, C1, D1, Pause, off} \subseteq PubSubLines
      BY <1>8
    <3>. QED
      BY <1>1, <1>3, <1>4, <1>9, <3>1, BeginningThen
  <2>2. \A i \in 1 .. 14 : s[i] \in DOMAIN PublishLines =>
          \/ (i = 6 /\ PublishLines[s[i]] = 1) \/ (i = 7 /\ PublishLines[s[i]] = 2)
          \/ (i = 11 /\ PublishLines[s[i]] = 3) \/ (i = 12 /\ PublishLines[s[i]] = 4)
    BY <1>5, <1>6, <1>7, <2>1
  <2>3. Rises(s, PublishLines, 0, 4)
    BY <2>1, <2>2 DEF Rises
  <2>4. Leads(s, SwitchLines, "off", "off")
    <3>1. \A j \in DOMAIN s : ~ (14 < j)
      BY <2>1
    <3>2. 14 \in DOMAIN s /\ s[14] \in DOMAIN SwitchLines /\ SwitchLines[s[14]] = "off"
      BY <1>6, <2>1
    <3>. QED
      BY <3>1, <3>2 DEF Leads
  <2>5. \A i \in 1 .. 14 : s[i] \in DOMAIN PublishLines => i > 5
    BY <2>2
  <2>. QED
    BY <1>1, <1>2, <1>4, <2>1, <2>3, <2>4, <2>5 DEF WellTold
<1>10. CASE GoesOn(s, << on, A, B2, Pause, F1, off, on, C1, off >>)
  <2>1. /\ s \in Seq(PubSubLines) /\ DOMAIN s = 1 .. 14 /\ Len(s) = 14
        /\ s[1] = g /\ s[2] = h /\ s[3] = F1 /\ s[4] = F2 /\ s[5] = Pause
        /\ s[6] = on /\ s[7] = A /\ s[8] = B2 /\ s[9] = Pause /\ s[10] = F1 /\ s[11] = off /\ s[12] = on /\ s[13] = C1 /\ s[14] = off
    <3>1. {on, A, B2, Pause, F1, off, on, C1, off} \subseteq PubSubLines
      BY <1>8
    <3>. QED
      BY <1>1, <1>3, <1>4, <1>10, <3>1, BeginningThen
  <2>2. \A i \in 1 .. 14 : s[i] \in DOMAIN PublishLines =>
          \/ (i = 7 /\ PublishLines[s[i]] = 1) \/ (i = 8 /\ PublishLines[s[i]] = 2)
          \/ (i = 13 /\ PublishLines[s[i]] = 3)
    BY <1>5, <1>6, <1>7, <2>1
  <2>3. Rises(s, PublishLines, 0, 4)
    BY <2>1, <2>2 DEF Rises
  <2>4. Leads(s, SwitchLines, "off", "off")
    <3>1. \A j \in DOMAIN s : ~ (14 < j)
      BY <2>1
    <3>2. 14 \in DOMAIN s /\ s[14] \in DOMAIN SwitchLines /\ SwitchLines[s[14]] = "off"
      BY <1>6, <2>1
    <3>. QED
      BY <3>1, <3>2 DEF Leads
  <2>5. \A i \in 1 .. 14 : s[i] \in DOMAIN PublishLines => i > 5
    BY <2>2
  <2>. QED
    BY <1>1, <1>2, <1>4, <2>1, <2>3, <2>4, <2>5 DEF WellTold
<1>. QED
  BY <1>1, <1>2, <1>9, <1>10 DEF PubSubScripts, GoesOn

(***************************************************************************)
(* main at a line of its script.                                           *)
(***************************************************************************)

\* main is at line l of its script.
AtLine(l) ==
  /\ script # <<>> /\ l = Head(script) /\ script' = Tail(script) /\ began' = began /\ patient' = patient /\ DOMAIN mailbox' = DOMAIN mailbox
  /\ UNCHANGED pubSubVars
  /\ \/ l = Pause /\ mailbox' = mailbox /\ (patient => AtRest)
     \/ /\ l # Pause /\ l.to \in {"subscriber", "publisher", "broker"} /\ l.msg \in PubSubMail
        /\ mailbox'[l.to] = Append(mailbox[l.to], l.msg)
        /\ \A y \in PubSubActors : y # l.to => mailbox'[y] = mailbox[y]

LEMMA MainIsAtALine ==
  ASSUME PubSubTypes, MainSleeps \/ MainTells, UNCHANGED pubSubVars
  PROVE  \E l \in PubSubLines : AtLine(l)
<1>1. PICK l : l = Head(script)
  OBVIOUS
<1>2. script # <<>> /\ l \in PubSubLines /\ script' = Tail(script) /\ began' = began /\ patient' = patient
  BY <1>1 DEF PubSubTypes, MainSleeps, MainTells, AllTold
<1>3. l.to \in {"subscriber", "publisher", "broker", "nobody"} /\ (l.to = "nobody" <=> l = Pause)
  BY <1>2, PubSubLineFacts
<1>4. CASE MainSleeps
  <2>1. l = Pause /\ mailbox' = mailbox /\ (patient => AtRest)
    BY <1>1, <1>3, <1>4 DEF MainSleeps
  <2>. QED
    BY <1>1, <1>2, <2>1 DEF AtLine
<1>5. CASE MainTells
  <2>1. l # Pause /\ l.to \in {"subscriber", "publisher", "broker"}
    BY <1>1, <1>3, <1>5 DEF MainTells
  <2>2. l.msg \in PubSubMail
    <3>1. \/ l \in DOMAIN PublishLines \/ l \in DOMAIN SwitchLines \/ l \in {Subscribes("topic0"), Subscribes("topic1")}
          \/ l = ToTell("subscriber", ConfigMsg) \/ l = ToTell("publisher", ConfigMsg)
      BY <1>2, <2>1 DEF PubSubLines
    <3>2. l \in DOMAIN PublishLines => l.msg \in PubMail
      BY PubSubLineFacts
    <3>3. l \in DOMAIN SwitchLines => l.msg = On \/ l.msg = Off
      <4>1. l \in DOMAIN SwitchLines => l = Batches(TRUE) \/ l = Batches(FALSE)
        BY PubSubLineFacts
      <4>2. Batches(TRUE).msg = On /\ Batches(FALSE).msg = Off
        BY PubSubLineFacts
      <4>. QED
        BY <4>1, <4>2
    <3>4. l \in {Subscribes("topic0"), Subscribes("topic1")} => l.msg \in SubMail
      BY PubSubLineFacts
    <3>5. ToTell("subscriber", ConfigMsg).msg = ConfigMsg /\ ToTell("publisher", ConfigMsg).msg = ConfigMsg
      BY PubSubLineFacts
    <3>6. l.msg \in PubMail \/ l.msg = On \/ l.msg = Off \/ l.msg \in SubMail \/ l.msg = ConfigMsg
      BY <3>1, <3>2, <3>3, <3>4, <3>5
    <3>. QED
      BY <3>6, PubSubPlaces
  <2>3. Head(script).to \in DOMAIN mailbox
    BY <1>1, <2>1, PubSubPlaces DEF PubSubTypes
  <2>4. /\ mailbox'[l.to] = Append(mailbox[l.to], l.msg)
        /\ \A y \in DOMAIN mailbox : y # l.to => mailbox'[y] = mailbox[y]
        /\ DOMAIN mailbox' = DOMAIN mailbox
    BY <1>1, <1>5, <2>3, MainTellsChanges
  <2>5. PubSubActors \subseteq DOMAIN mailbox
    BY DEF PubSubTypes
  <2>. QED
    BY <1>1, <1>2, <2>1, <2>2, <2>4, <2>5 DEF AtLine
<1>. QED
  BY <1>2, <1>4, <1>5

LEMMA AtLineTypes ==
  ASSUME PubSubTypes, NEW l \in PubSubLines, AtLine(l)
  PROVE  PubSubTypes'
<1>1. script' \in Seq(PubSubLines)
  BY DEF PubSubTypes, AtLine
<1>2. ASSUME NEW y \in PubSubActors PROVE mailbox'[y] \in Seq(PubSubMail)
  <2>1. mailbox[y] \in Seq(PubSubMail)
    BY DEF PubSubTypes
  <2>2. mailbox'[y] = mailbox[y] \/ (mailbox'[y] = Append(mailbox[y], l.msg) /\ l.msg \in PubSubMail)
    BY DEF AtLine
  <2>. QED
    BY <2>1, <2>2, SMTT(60)
<1>. QED
  BY <1>1, <1>2 DEF PubSubTypes, AtLine, pubSubVars

LEMMA AtLineIn ==
  ASSUME PubSubTypes, NEW l \in PubSubLines, AtLine(l)
  PROVE  /\ \A y \in PubSubActors : \A m : In(m, mailbox'[y]) <=> In(m, mailbox[y]) \/ (y = l.to /\ m = l.msg)
         /\ \A m : In(m, script) <=> m = l \/ In(m, script')
<1>1. \A m : In(m, script) <=> m = l \/ In(m, script')
  BY InTail DEF PubSubTypes, AtLine
<1>2. ASSUME NEW y \in PubSubActors PROVE \A m : In(m, mailbox'[y]) <=> In(m, mailbox[y]) \/ (y = l.to /\ m = l.msg)
  <2>1. mailbox[y] \in Seq(PubSubMail)
    BY DEF PubSubTypes
  <2>2. CASE y = l.to
    <3>1. mailbox'[y] = Append(mailbox[y], l.msg) /\ l.msg \in PubSubMail
      BY <2>2, PubSubPlaces, PubSubLineFacts DEF AtLine
    <3>. QED
      BY <2>1, <2>2, <3>1, InAppend, SMTT(60)
  <2>3. CASE y # l.to
    BY <2>3 DEF AtLine
  <2>. QED
    BY <2>2, <2>3
<1>. QED
  BY <1>1, <1>2

LEMMA AtLineRises ==
  ASSUME PubSubTypes, NEW l \in PubSubLines, AtLine(l), NEW y \in PubSubActors, NEW num, NEW lo, NEW hi, Rises(mailbox[y], num, lo, hi),
         y # l.to \/ l.msg \notin DOMAIN num
  PROVE  Rises(mailbox'[y], num, lo, hi)
<1>1. mailbox[y] \in Seq(PubSubMail)
  BY DEF PubSubTypes
<1>2. mailbox'[y] = mailbox[y] \/ (y = l.to /\ mailbox'[y] = Append(mailbox[y], l.msg) /\ l.msg \in PubSubMail)
  BY DEF AtLine
<1>. QED
  BY <1>1, <1>2, RisesAppend

LEMMA AtLineFlow ==
  ASSUME PubSubTypes, NEW l \in PubSubLines, AtLine(l),
         NEW a, NEW b, NEW c \in Nat, NEW d \in Nat, NEW e \in Nat, NEW f \in Nat, Flow(a, b, c, d, e, f)
  PROVE  \E g \in Nat : Flow(a, b, c, d, e, g)'
<1>1. Elsewhere(a, b, c, d, e, f) /\ Boxes(a, b, c, d, e, f)
  BY FlowParts
<1>2. script \in Seq(PubSubLines) /\ script # <<>> /\ l = Head(script) /\ script' = Tail(script) /\ batch' = batch /\ notified' = notified
  BY DEF PubSubTypes, AtLine, pubSubVars
<1>3. Rises(script, PublishLines, f, 4)
  BY <1>1 DEF Elsewhere
<1>4. PublishLines' = PublishLines /\ Published' = Published /\ \A w \in Workers : Noted(w)' = Noted(w)
  BY DEF Noted, NotifyMsg, Published, PubMail, PublishMsg, PublishLines, ToTell
<1>5. /\ \A w \in Workers : w # l.to /\ w \in PubSubActors
      /\ "subscriber" \in PubSubActors /\ "broker" \in PubSubActors /\ "publisher" \in PubSubActors
  BY PubSubPlaces, PubSubLineFacts
<1>6. \A w \in Workers : Rises(mailbox'[w], Published, b[w], c)
  <2>1. SUFFICES ASSUME NEW w \in Workers PROVE Rises(mailbox'[w], Published, b[w], c)
    OBVIOUS
  <2>2. Rises(mailbox[w], Published, b[w], c) /\ w # l.to /\ w \in PubSubActors
    BY <1>1, <1>5 DEF Boxes
  <2>. QED
    BY <2>2, AtLineRises
<1>7. l.to = "subscriber" \/ l.to = "broker" => l.msg \notin DOMAIN Published /\ l.msg.type \in {"config", "subscribe", "batch"}
  <2>1. l.to = "subscriber" \/ l.to = "broker" => l \notin DOMAIN PublishLines /\ l # Pause /\ l # ToTell("publisher", ConfigMsg)
    BY PubSubLineFacts
  <2>2. ASSUME l.to = "subscriber" \/ l.to = "broker" PROVE l.msg = On \/ l.msg = Off \/ l.msg \in SubMail \/ l.msg = ConfigMsg
    <3>1. l \in DOMAIN SwitchLines \/ l \in {Subscribes("topic0"), Subscribes("topic1")} \/ l = ToTell("subscriber", ConfigMsg)
      BY <2>1, <2>2 DEF PubSubLines
    <3>2. l \in DOMAIN SwitchLines => l.msg = On \/ l.msg = Off
      <4>1. l \in DOMAIN SwitchLines => l = Batches(TRUE) \/ l = Batches(FALSE)
        BY PubSubLineFacts
      <4>2. Batches(TRUE).msg = On /\ Batches(FALSE).msg = Off
        BY PubSubLineFacts
      <4>. QED
        BY <4>1, <4>2
    <3>3. l \in {Subscribes("topic0"), Subscribes("topic1")} => l.msg \in SubMail
      BY PubSubLineFacts
    <3>4. ToTell("subscriber", ConfigMsg).msg = ConfigMsg
      BY PubSubLineFacts
    <3>. QED
      BY <3>1, <3>2, <3>3, <3>4
  <2>. QED
    BY <2>2, PubSubMailFacts, SortsOfMail
<1>8. \A w \in Workers : Rises(mailbox'["subscriber"], Noted(w), a[w], b[w])
  <2>1. SUFFICES ASSUME NEW w \in Workers PROVE Rises(mailbox'["subscriber"], Noted(w), a[w], b[w])
    OBVIOUS
  <2>2. Rises(mailbox["subscriber"], Noted(w), a[w], b[w]) /\ ("subscriber" # l.to \/ l.msg \notin DOMAIN Noted(w))
    BY <1>1, <1>7, SortsOfMail DEF Boxes
  <2>. QED
    BY <1>5, <2>2, AtLineRises
<1>9. Rises(mailbox'["broker"], Published, d, e)
  <2>1. Rises(mailbox["broker"], Published, d, e) /\ ("broker" # l.to \/ l.msg \notin DOMAIN Published)
    BY <1>1, <1>7 DEF Boxes
  <2>. QED
    BY <1>5, <2>1, AtLineRises
<1>10. Rises(mailbox["publisher"], Published, e, f)
  BY <1>1 DEF Boxes
<1>11. CASE l \in DOMAIN PublishLines
  <2>1. PICK v \in Nat : v = PublishLines[l]
    BY <1>11, PubSubLineFacts
  <2>2. /\ l.to = "publisher" /\ l # Pause /\ l.msg \in PubMail /\ l.msg \in DOMAIN Published /\ Published[l.msg] = v
    BY <1>11, <2>1, PubSubLineFacts, PubSubMailFacts
  <2>3. f < v /\ v <= 4 /\ Rises(script', PublishLines, v, 4)
    BY <1>2, <1>3, <1>11, <2>1, RisesTailNumber
  <2>4. mailbox'["publisher"] = Append(mailbox["publisher"], l.msg) /\ l.msg \in PubSubMail /\ mailbox["publisher"] \in Seq(PubSubMail)
    BY <1>5, <2>2 DEF AtLine, PubSubTypes
  <2>5. Rises(mailbox'["publisher"], Published, e, v)
    <3>1. PICK m \in PubSubMail : m = l.msg
      BY <2>4
    <3>2. m \in DOMAIN Published /\ (\A y \in DOMAIN Published : Published[y] \in Int) /\ e <= f /\ f < Published[m] /\ Published[m] = v
      BY <1>1, <2>2, <2>3, <3>1, SortsOfMail DEF Elsewhere
    <3>3. Rises(Append(mailbox["publisher"], m), Published, e, Published[m])
      BY <1>10, <2>4, <3>2, RisesAppendNumber
    <3>. QED
      BY <2>4, <3>1, <3>2, <3>3
  <2>6. Boxes(a, b, c, d, e, v)'
    BY <1>4, <1>6, <1>8, <1>9, <2>5 DEF Boxes
  <2>7. e <= v
    BY <1>1, <2>3 DEF Elsewhere
  <2>8. Elsewhere(a, b, c, d, e, v)'
    BY <1>1, <1>2, <1>4, <2>3, <2>7 DEF Elsewhere
  <2>. QED
    BY <2>6, <2>8, FlowParts
<1>12. CASE l \notin DOMAIN PublishLines
  <2>1. Rises(script', PublishLines, f, 4)
    BY <1>2, <1>3, RisesTail
  <2>2. l.to = "publisher" => l.msg \notin DOMAIN Published
    <3>1. l.to = "publisher" => l = ToTell("publisher", ConfigMsg)
      BY <1>12, PubSubLineFacts, ZenonT(100) DEF PubSubLines
    <3>. QED
      BY <3>1, PubSubLineFacts, PubSubMailFacts, SortsOfMail
  <2>3. Rises(mailbox'["publisher"], Published, e, f)
    BY <1>5, <1>10, <2>2, AtLineRises
  <2>4. Boxes(a, b, c, d, e, f)'
    BY <1>4, <1>6, <1>8, <1>9, <2>3 DEF Boxes
  <2>5. Elsewhere(a, b, c, d, e, f)'
    BY <1>1, <1>2, <1>4, <2>1 DEF Elsewhere
  <2>. QED
    BY <2>4, <2>5, FlowParts
<1>. QED
  BY <1>11, <1>12

LEMMA FlowMoves ==
  ASSUME PubSubTypes, NEW h \in PubSubMail, PubSubMoves(h),
         NEW a, NEW b, NEW c \in Nat, NEW d \in Nat, NEW e \in Nat, NEW f \in Nat, Flow(a, b, c, d, e, f)
  PROVE  \E i, j : \E k \in Nat, l \in Nat, m \in Nat, n \in Nat : Flow(i, j, k, l, m, n)'
<1>1. ASSUME NEW x \in PubSubActors, NEW t \in PubSubMail, Moves(x, h, {}, t), UNCHANGED <<batch, notified>>
      PROVE  Flow(a, b, c, d, e, f)'
  <2>1. PICK others \in SUBSET PubSubActors : others = {}
    OBVIOUS
  <2>2. Moves(x, h, others, t) /\ x \notin others
    BY <1>1, <2>1
  <2>. QED
    BY <1>1, <2>1, <2>2, FlowKept
<1>2. ASSUME NEW x \in PubSubActors, NEW y \in PubSubActors, x # y, Moves(x, h, {y}, h), h \in SubMail, UNCHANGED <<batch, notified>>
      PROVE  Flow(a, b, c, d, e, f)'
  <2>1. PICK others \in SUBSET PubSubActors : others = {y}
    OBVIOUS
  <2>2. Moves(x, h, others, h) /\ x \notin others
    BY <1>2, <2>1
  <2>3. h.type \in {"config", "subscribe", "batch"}
    BY <1>2, PubSubMailFacts
  <2>. QED
    BY <1>2, <2>2, <2>3, FlowKept
<1> DEFINE Goal == \E i, j : \E k \in Nat, l \in Nat, m \in Nat, n \in Nat : Flow(i, j, k, l, m, n)'
<1>3. Flow(a, b, c, d, e, f)' => Goal
  OBVIOUS
<1>4. UNCHANGED pubSubVars => UNCHANGED <<batch, notified>>
  BY DEF pubSubVars
<1>5. ASSUME NEW x \in {"subscriber", "publisher"}, Configures(x, h) PROVE Goal
  <2>1. x \in PubSubActors /\ Moves(x, h, {}, h) /\ UNCHANGED <<batch, notified>>
    BY <1>4, <1>5, PubSubPlaces DEF Configures
  <2>. QED
    BY <1>1, <1>3, <2>1
<1>6. CASE AsksBroker(h)
  <2>1. Moves("subscriber", h, {"broker"}, h) /\ h \in SubMail /\ UNCHANGED <<batch, notified>>
    BY <1>4, <1>6 DEF AsksBroker
  <2>2. "subscriber" \in PubSubActors /\ "broker" \in PubSubActors /\ "subscriber" # "broker"
    BY PubSubPlaces
  <2>. QED
    BY <1>2, <1>3, <2>1, <2>2
<1>7. CASE Notes(h)
  BY <1>7, NotesFlow
<1>8. CASE PassesOn(h)
  BY <1>8, PassesOnFlow
<1>9. CASE Spreads(h)
  BY <1>9, SpreadsFlow
<1>10. CASE PutsOff(h)
  BY <1>10, PutsOffFlow
<1>11. CASE Begins(h)
  <2>1. "broker" \in PubSubActors /\ Moves("broker", h, {}, h) /\ UNCHANGED <<batch, notified>>
    BY <1>11, PubSubPlaces DEF Begins
  <2>. QED
    BY <1>1, <1>3, <2>1
<1>12. CASE Ends(h)
  BY <1>12, EndsFlow
<1>13. ASSUME NEW w \in Workers, Assigns(h, w) PROVE Goal
  <2>1. Moves("broker", h, {w}, h) /\ h \in SubMail /\ UNCHANGED <<batch, notified>>
    BY <1>4, <1>13 DEF Assigns
  <2>2. "broker" \in PubSubActors /\ w \in PubSubActors /\ "broker" # w
    BY PubSubPlaces
  <2>. QED
    BY <1>2, <1>3, <2>1, <2>2
<1>14. ASSUME NEW w \in Workers, Learns(h, w) PROVE Goal
  <2>1. w \in PubSubActors /\ Moves(w, h, {}, h) /\ UNCHANGED <<batch, notified>>
    BY <1>14, PubSubPlaces DEF Learns
  <2>. QED
    BY <1>1, <1>3, <2>1
<1>15. ASSUME NEW w \in Workers, Notifies(h, w) PROVE Goal
  BY <1>15, NotifiesFlow
<1>16. ASSUME NEW w \in Workers, Throws(h, w) PROVE Goal
  <2>1. w \in PubSubActors /\ Moves(w, h, {}, h) /\ UNCHANGED <<batch, notified>>
    BY <1>4, <1>16, PubSubPlaces DEF Throws
  <2>. QED
    BY <1>1, <1>3, <2>1
<1>. QED
  BY <1>5, <1>6, <1>7, <1>8, <1>9, <1>10, <1>11, <1>12, <1>13, <1>14, <1>15, <1>16 DEF PubSubMoves

\* Where the messages in the broker's mailbox lead, when nobody adds a switch.
LEMMA MovesLeads ==
  ASSUME PubSubTypes, NEW x \in PubSubActors, NEW h, NEW others \in SUBSET PubSubActors, x \notin others, NEW told \in PubSubMail,
         Moves(x, h, others, told), NEW p,
         x # "broker" \/ h \notin DOMAIN Switches, told \notin DOMAIN Switches \/ others = {},
         Leads(mailbox["broker"], Switches, Behaviour, p)
  PROVE  Leads(mailbox'["broker"], Switches, Behaviour, p)
<1>1. mailbox["broker"] \in Seq(PubSubMail) /\ "broker" \in PubSubActors
  BY PubSubPlaces DEF PubSubTypes
<1>2. CASE "broker" = x
  BY <1>1, <1>2, LeadsTail DEF Moves
<1>3. CASE "broker" \in others
  <2>1. mailbox'["broker"] = Append(mailbox["broker"], told) /\ told \notin DOMAIN Switches
    BY <1>3 DEF Moves
  <2>2. Leads(Append(mailbox["broker"], told), Switches, Behaviour, IF told \in DOMAIN Switches THEN Switches[told] ELSE p)
    BY <1>1, LeadsAppend
  <2>. QED
    BY <2>1, <2>2
<1>4. CASE "broker" # x /\ "broker" \notin others
  BY <1>1, <1>4 DEF Moves
<1>. QED
  BY <1>2, <1>3, <1>4

LEMMA EndsOffMoves ==
  ASSUME PubSubTypes, NEW h \in PubSubMail, PubSubMoves(h), EndsOff
  PROVE  EndsOff'
<1>1. PICK p : Leads(mailbox["broker"], Switches, Behaviour, p) /\ Leads(script, SwitchLines, p, "off")
  BY DEF EndsOff
<1>2. script' = script
  BY PubSubTypesMove
<1>3. Switches' = Switches /\ SwitchLines' = SwitchLines
  BY DEF Switches, SwitchLines, On, Off, BatchMsg, Batches, ToTell
<1>4. SUFFICES Leads(mailbox'["broker"], Switches, Behaviour', p)
  BY <1>1, <1>2, <1>3 DEF EndsOff
<1>5. mailbox["broker"] \in Seq(PubSubMail) /\ "broker" \in PubSubActors
  BY PubSubPlaces DEF PubSubTypes
<1>6. ASSUME NEW x \in PubSubActors, NEW t \in PubSubMail, Moves(x, h, {}, t), x # "broker" \/ h \notin DOMAIN Switches
      PROVE  Leads(mailbox'["broker"], Switches, Behaviour, p)
  <2>1. PICK others \in SUBSET PubSubActors : others = {}
    OBVIOUS
  <2>2. Moves(x, h, others, t) /\ x \notin others
    BY <1>6, <2>1
  <2>. QED
    BY <1>1, <1>6, <2>1, <2>2, MovesLeads
<1>7. ASSUME NEW x \in PubSubActors, NEW y \in PubSubActors, x # y, NEW t \in PubSubMail, Moves(x, h, {y}, t),
             x # "broker" \/ h \notin DOMAIN Switches, t \notin DOMAIN Switches
      PROVE  Leads(mailbox'["broker"], Switches, Behaviour, p)
  <2>1. PICK others \in SUBSET PubSubActors : others = {y}
    OBVIOUS
  <2>2. Moves(x, h, others, t) /\ x \notin others
    BY <1>7, <2>1
  <2>. QED
    BY <1>1, <1>7, <2>2, MovesLeads
<1>8. UNCHANGED pubSubVars => Behaviour' = Behaviour
  BY DEF pubSubVars, Behaviour
<1>9. batching' = batching => Behaviour' = Behaviour
  BY DEF Behaviour
<1>10. \A m \in SubMail \cup PubMail \cup NotifyMail \cup {ConfigMsg} : m \notin DOMAIN Switches
  BY PubSubMailFacts, SortsOfMail
<1>11. ASSUME NEW x \in {"subscriber", "publisher"}, Configures(x, h) PROVE Leads(mailbox'["broker"], Switches, Behaviour', p)
  <2>1. x \in PubSubActors /\ x # "broker" /\ Moves(x, h, {}, h) /\ Behaviour' = Behaviour
    BY <1>8, <1>11, PubSubPlaces DEF Configures
  <2>. QED
    BY <1>6, <2>1
<1>12. CASE AsksBroker(h)
  <2>1. /\ Moves("subscriber", h, {"broker"}, h) /\ Behaviour' = Behaviour /\ h \notin DOMAIN Switches
        /\ "subscriber" \in PubSubActors /\ "subscriber" # "broker"
    BY <1>8, <1>10, <1>12, PubSubPlaces DEF AsksBroker
  <2>. QED
    BY <1>5, <1>7, <2>1
<1>13. CASE Notes(h)
  <2>1. "subscriber" \in PubSubActors /\ "subscriber" # "broker" /\ Moves("subscriber", h, {}, h) /\ Behaviour' = Behaviour
    BY <1>9, <1>13, PubSubPlaces DEF Notes
  <2>. QED
    BY <1>6, <2>1
<1>14. CASE PassesOn(h)
  <2>1. /\ Moves("publisher", h, {"broker"}, h) /\ Behaviour' = Behaviour /\ h \notin DOMAIN Switches
        /\ "publisher" \in PubSubActors /\ "publisher" # "broker"
    BY <1>8, <1>10, <1>14, PubSubPlaces DEF PassesOn
  <2>. QED
    BY <1>5, <1>7, <2>1
<1>15. CASE Spreads(h)
  <2>1. Moves("broker", h, Workers, h) /\ Behaviour' = Behaviour /\ h \notin DOMAIN Switches /\ "broker" \notin Workers
    BY <1>8, <1>10, <1>15, PubSubPlaces DEF Spreads
  <2>2. PICK others \in SUBSET PubSubActors : others = Workers
    BY PubSubPlaces
  <2>3. Moves("broker", h, others, h) /\ "broker" \notin others
    BY <2>1, <2>2
  <2>. QED
    BY <1>1, <1>5, <2>1, <2>3, MovesLeads
<1>16. CASE PutsOff(h)
  <2>1. Moves("broker", h, {}, h) /\ Behaviour' = Behaviour /\ h \notin DOMAIN Switches
    BY <1>9, <1>10, <1>16 DEF PutsOff
  <2>. QED
    BY <1>5, <1>6, <2>1
<1>17. CASE Begins(h)
  <2>1. mailbox["broker"] # <<>> /\ h = Head(mailbox["broker"]) /\ mailbox'["broker"] = Tail(mailbox["broker"]) /\ h = On /\ batching' = TRUE
    BY <1>17 DEF Begins, Moves
  <2>2. h \in DOMAIN Switches /\ Switches[h] = "on" /\ Behaviour' = "on"
    BY <2>1, SortsOfMail DEF Behaviour
  <2>3. Leads(Tail(mailbox["broker"]), Switches, IF Head(mailbox["broker"]) \in DOMAIN Switches THEN Switches[Head(mailbox["broker"])] ELSE Behaviour, p)
    BY <1>1, <1>5, <2>1, LeadsTail
  <2>. QED
    BY <2>1, <2>2, <2>3
<1>18. CASE Ends(h)
  <2>1. mailbox["broker"] # <<>> /\ h = Head(mailbox["broker"]) /\ mailbox'["broker"] = batch \o Tail(mailbox["broker"]) /\ h = Off /\ batching' = FALSE
    BY <1>18 DEF Ends
  <2>2. h \in DOMAIN Switches /\ Switches[h] = "off" /\ Behaviour' = "off"
    BY <2>1, SortsOfMail DEF Behaviour
  <2>3. PICK t : t = Tail(mailbox["broker"])
    OBVIOUS
  <2>4. Leads(Tail(mailbox["broker"]), Switches, IF Head(mailbox["broker"]) \in DOMAIN Switches THEN Switches[Head(mailbox["broker"])] ELSE Behaviour, p)
    BY <1>1, <1>5, <2>1, LeadsTail
  <2>5. Leads(t, Switches, "off", p)
    BY <2>1, <2>2, <2>3, <2>4
  <2>6. t \in Seq(PubSubMail)
    BY <1>5, <2>1, <2>3
  <2>7. batch \in Seq(PubMail) /\ PubMail \subseteq PubSubMail
    BY PubSubPlaces DEF PubSubTypes
  <2>8. batch \in Seq(PubSubMail)
    BY <2>7, SeqMonotonic
  <2>9. \A i \in DOMAIN batch : batch[i] \notin DOMAIN Switches
    BY <1>10, <2>7
  <2>10. Leads(batch \o t, Switches, "off", p)
    BY <2>5, <2>6, <2>8, <2>9, LeadsConcat
  <2>. QED
    BY <2>1, <2>2, <2>3, <2>10
<1>19. ASSUME NEW w \in Workers, Assigns(h, w) PROVE Leads(mailbox'["broker"], Switches, Behaviour', p)
  <2>1. Moves("broker", h, {w}, h) /\ Behaviour' = Behaviour /\ h \notin DOMAIN Switches /\ w \in PubSubActors /\ w # "broker"
    BY <1>8, <1>10, <1>19, PubSubPlaces DEF Assigns
  <2>. QED
    BY <1>5, <1>7, <2>1
<1>20. ASSUME NEW w \in Workers, Learns(h, w) PROVE Leads(mailbox'["broker"], Switches, Behaviour', p)
  <2>1. w \in PubSubActors /\ w # "broker" /\ Moves(w, h, {}, h) /\ Behaviour' = Behaviour
    BY <1>9, <1>20, PubSubPlaces DEF Learns
  <2>. QED
    BY <1>6, <2>1
<1>21. ASSUME NEW w \in Workers, Notifies(h, w) PROVE Leads(mailbox'["broker"], Switches, Behaviour', p)
  <2>1. PICK t : t = NotifyMsg(h.value, w)
    OBVIOUS
  <2>2. t \in PubSubMail /\ t \notin DOMAIN Switches
    BY <1>10, <1>21, <2>1, PubSubPlaces DEF Notifies
  <2>3. /\ Moves(w, h, {"subscriber"}, t) /\ Behaviour' = Behaviour
        /\ w \in PubSubActors /\ w # "broker" /\ "subscriber" \in PubSubActors /\ w # "subscriber"
    BY <1>8, <1>21, <2>1, PubSubPlaces DEF Notifies
  <2>. QED
    BY <1>7, <2>2, <2>3
<1>22. ASSUME NEW w \in Workers, Throws(h, w) PROVE Leads(mailbox'["broker"], Switches, Behaviour', p)
  <2>1. w \in PubSubActors /\ w # "broker" /\ Moves(w, h, {}, h) /\ Behaviour' = Behaviour
    BY <1>8, <1>22, PubSubPlaces DEF Throws
  <2>. QED
    BY <1>6, <2>1
<1>. QED
  BY <1>11, <1>12, <1>13, <1>14, <1>15, <1>16, <1>17, <1>18, <1>19, <1>20, <1>21, <1>22 DEF PubSubMoves

LEMMA AtLineEndsOff ==
  ASSUME PubSubTypes, NEW l \in PubSubLines, AtLine(l), EndsOff
  PROVE  EndsOff'
<1>1. PICK p : Leads(mailbox["broker"], Switches, Behaviour, p) /\ Leads(script, SwitchLines, p, "off")
  BY DEF EndsOff
<1>2. /\ script \in Seq(PubSubLines) /\ script # <<>> /\ l = Head(script) /\ script' = Tail(script) /\ batching' = batching
      /\ mailbox["broker"] \in Seq(PubSubMail)
  BY PubSubPlaces DEF PubSubTypes, AtLine, pubSubVars
<1>3. Switches' = Switches /\ SwitchLines' = SwitchLines /\ Behaviour' = Behaviour
  BY <1>2 DEF Switches, SwitchLines, On, Off, BatchMsg, Batches, ToTell, Behaviour
<1>4. SUFFICES \E q : Leads(mailbox'["broker"], Switches, Behaviour, q) /\ Leads(script', SwitchLines, q, "off")
  BY <1>3 DEF EndsOff
<1>5. Leads(Tail(script), SwitchLines, IF Head(script) \in DOMAIN SwitchLines THEN SwitchLines[Head(script)] ELSE p, "off")
  BY <1>1, <1>2, LeadsTail
<1>6. CASE l \in DOMAIN SwitchLines
  <2>1. l.to = "broker" /\ l # Pause /\ l.msg \in DOMAIN Switches /\ Switches[l.msg] = SwitchLines[l] /\ l.msg \in PubSubMail
    <3>1. l.to = "broker" /\ Pause.to = "nobody" /\ (l = Batches(TRUE) \/ l = Batches(FALSE))
      BY <1>6, PubSubLineFacts
    <3>2. /\ SwitchLines[Batches(TRUE)] = "on" /\ Batches(TRUE).msg = On
          /\ SwitchLines[Batches(FALSE)] = "off" /\ Batches(FALSE).msg = Off
      BY PubSubLineFacts
    <3>3. On \in DOMAIN Switches /\ Switches[On] = "on" /\ Off \in DOMAIN Switches /\ Switches[Off] = "off"
      BY SortsOfMail
    <3>. QED
      BY <3>1, <3>2, <3>3, PubSubPlaces
  <2>2. mailbox'["broker"] = Append(mailbox["broker"], l.msg)
    BY <2>1 DEF AtLine
  <2>3. Leads(Append(mailbox["broker"], l.msg), Switches, Behaviour, IF l.msg \in DOMAIN Switches THEN Switches[l.msg] ELSE p)
    BY <1>1, <1>2, <2>1, LeadsAppend
  <2>. QED
    BY <1>2, <1>5, <1>6, <2>1, <2>2, <2>3
<1>7. CASE l \notin DOMAIN SwitchLines
  <2>1. l.to # "broker"
    <3>1. /\ l \in DOMAIN PublishLines => l.to = "publisher"
          /\ l \in {Subscribes("topic0"), Subscribes("topic1")} => l.to = "subscriber"
          /\ ToTell("subscriber", ConfigMsg).to = "subscriber" /\ ToTell("publisher", ConfigMsg).to = "publisher"
          /\ Pause.to = "nobody"
      BY PubSubLineFacts
    <3>. QED
      BY <1>7, <3>1 DEF PubSubLines
  <2>2. mailbox'["broker"] = mailbox["broker"]
    BY <2>1, PubSubPlaces DEF AtLine
  <2>. QED
    BY <1>1, <1>2, <1>5, <1>7, <2>2
<1>. QED
  BY <1>6, <1>7

\* main has one more line behind it.
LEMMA AtLineTold ==
  ASSUME PubSubTypes, NEW l, AtLine(l), NEW lines, NEW k, Told(lines, k)
  PROVE  /\ k \in Int /\ k >= 0 /\ k <= 13 /\ k + 1 \in DOMAIN lines /\ l = lines[k + 1]
         /\ Told(lines, k + 1)'
<1>1. WellTold(lines) /\ DOMAIN lines = 1 .. 14 /\ lines \in PubSubScripts
  BY ScriptsAreWellTold DEF Told, WellTold
<1>2. script \in Seq(PubSubLines) /\ script # <<>> /\ l = Head(script) /\ script' = Tail(script)
  BY DEF PubSubTypes, AtLine
<1>3. Len(script) \in Nat /\ Len(script) >= 1 /\ Len(Tail(script)) = Len(script) - 1
  BY <1>2
<1>4. k \in Int /\ k >= 0 /\ k <= 13
  BY <1>3 DEF Told
<1>5. k + 1 \in 1 .. 14
  BY <1>4
<1>6. l = lines[k + 1]
  <2>1. 1 \in DOMAIN script /\ Head(script) = script[1]
    BY <1>2, TailFacts
  <2>2. script[1] = lines[1 + k]
    BY <2>1 DEF Told
  <2>3. 1 + k = k + 1
    BY <1>4
  <2>. QED
    BY <1>2, <2>1, <2>2, <2>3
<1>7. PICK t : t = Tail(script)
  OBVIOUS
<1>8. PICK n \in Int : n = k + 1
  BY <1>4
<1>9. \A i \in DOMAIN t : t[i] = lines[i + n]
  <2>1. SUFFICES ASSUME NEW i \in DOMAIN t PROVE t[i] = lines[i + n]
    OBVIOUS
  <2>2. i + 1 \in DOMAIN script /\ t[i] = script[i + 1] /\ i \in Int
    BY <1>2, <1>7, TailFacts
  <2>3. script[i + 1] = lines[(i + 1) + k]
    BY <2>2 DEF Told
  <2>4. (i + 1) + k = i + n
    BY <1>4, <1>8, <2>2
  <2>. QED
    BY <2>2, <2>3, <2>4
<1>10. PubSubScripts' = PubSubScripts
  BY DEF PubSubScripts, Beginning, ToTell, ConfigMsg, Subscribes, SubscribeMsg, Publishes, PublishMsg, Batches, BatchMsg, Pause
<1>11. Len(t) = 14 - n
  BY <1>3, <1>4, <1>7, <1>8 DEF Told
<1>12. Told(lines, n)'
  <2>1. n \in 0 .. 14
    BY <1>4, <1>8
  <2>2. script' = t
    BY <1>2, <1>7
  <2>3. Len(script') = 14 - n /\ \A i \in DOMAIN script' : script'[i] = lines[i + n]
    BY <1>9, <1>11, <2>2
  <2>. QED
    BY <1>1, <1>10, <2>1, <2>3 DEF Told
<1>. QED
  BY <1>1, <1>4, <1>5, <1>6, <1>8, <1>12

\* Which lines tell which messages.
LEMMA LinesOfMail ==
  ASSUME NEW l \in PubSubLines, l.to \in PubSubActors
  PROVE  /\ l # Pause /\ l.to \in {"subscriber", "publisher", "broker"}
         /\ l.msg \in PubMail => l \in DOMAIN PublishLines /\ l.to = "publisher" /\ l = ToTell("publisher", l.msg)
         /\ l.msg = Off => l = Batches(FALSE)
         /\ l.msg \notin NotifyMail
<1>1. l # Pause /\ l.to \in {"subscriber", "publisher", "broker"}
  <2>1. l.to \in {"subscriber", "publisher", "broker", "nobody"} /\ Pause.to = "nobody"
    BY PubSubLineFacts
  <2>. QED
    BY <2>1, PubSubPlaces
<1>2. \/ l \in DOMAIN PublishLines \/ l = Batches(TRUE) \/ l = Batches(FALSE) \/ l \in {Subscribes("topic0"), Subscribes("topic1")}
      \/ l = ToTell("subscriber", ConfigMsg) \/ l = ToTell("publisher", ConfigMsg)
  <2>1. l \in DOMAIN SwitchLines => l = Batches(TRUE) \/ l = Batches(FALSE)
    BY PubSubLineFacts
  <2>. QED
    BY <1>1, <2>1 DEF PubSubLines
<1>3. On.type = "batch" /\ Off.type = "batch" /\ On # Off /\ ConfigMsg.type = "config"
  BY SortsOfMail, PubSubMailFacts
<1>4. CASE l \in DOMAIN PublishLines
  <2>1. l.to = "publisher" /\ l.msg \in PubMail /\ l = ToTell("publisher", l.msg)
    BY <1>4, PubSubLineFacts
  <2>2. l.msg.type = "publish"
    BY <2>1, PubSubMailFacts
  <2>3. l.msg \notin NotifyMail
    BY <2>2, SortsOfMail
  <2>. QED
    BY <1>1, <1>3, <1>4, <2>1, <2>2, <2>3
<1>5. ASSUME l.msg.type \in {"batch", "subscribe", "config"}, l.msg = Off => l = Batches(FALSE)
      PROVE  /\ l.msg \in PubMail => l \in DOMAIN PublishLines /\ l.to = "publisher" /\ l = ToTell("publisher", l.msg)
             /\ l.msg = Off => l = Batches(FALSE)
             /\ l.msg \notin NotifyMail
  BY <1>3, <1>5, SortsOfMail
<1>6. CASE l = Batches(TRUE) \/ l = Batches(FALSE)
  <2>1. Batches(TRUE).msg = On /\ Batches(FALSE).msg = Off
    BY PubSubLineFacts
  <2>. QED
    BY <1>1, <1>3, <1>5, <1>6, <2>1
<1>7. CASE l \in {Subscribes("topic0"), Subscribes("topic1")}
  <2>1. l.msg \in SubMail
    BY <1>7, PubSubLineFacts
  <2>2. l.msg.type = "subscribe"
    BY <2>1, PubSubMailFacts
  <2>. QED
    BY <1>1, <1>3, <1>5, <2>2
<1>8. CASE l = ToTell("subscriber", ConfigMsg) \/ l = ToTell("publisher", ConfigMsg)
  <2>1. l.msg = ConfigMsg
    BY <1>8, PubSubLineFacts
  <2>. QED
    BY <1>1, <1>3, <1>5, <2>1
<1>. QED
  BY <1>2, <1>4, <1>6, <1>7, <1>8

LEMMA AtLineSubscribed ==
  ASSUME PubSubTypes, NEW l \in PubSubLines, AtLine(l), NEW lines, NEW k, Told(lines, k), Subscribed(k)
  PROVE  Subscribed(k + 1)'
<1>1. PICK n \in Int : n = k + 1
  BY AtLineTold
<1>. SUFFICES ASSUME NEW t \in Topics
              PROVE  /\ n >= SubLine(t) => Underway(t)'
                     /\ n >= 5 /\ patient' => \E w \in Workers : KnowsTopic(w, t)'
  <2>1. Subscribed(n)'
    BY DEF Subscribed
  <2>. QED
    BY <1>1, <2>1
<1>2. PICK m : m = SubscribeMsg(t)
  OBVIOUS
<1>3. /\ k \in Int /\ k >= 0 /\ k <= 13 /\ l = lines[k + 1]
      /\ WellTold(lines)
  <2>1. lines \in PubSubScripts
    BY DEF Told
  <2>. QED
    BY <2>1, AtLineTold, ScriptsAreWellTold
<1>4. \A y \in PubSubActors : In(m, mailbox[y]) => In(m, mailbox'[y])
  BY AtLineIn
<1>5. subscriptions' = subscriptions /\ patient' = patient
  BY DEF AtLine, pubSubVars
<1>6. \A w \in Workers : KnowsTopic(w, t)' <=> KnowsTopic(w, t)
  BY <1>5 DEF KnowsTopic
<1>7. (k >= SubLine(t) => Underway(t)) /\ (k >= 5 /\ patient => \E w \in Workers : KnowsTopic(w, t))
  BY DEF Subscribed
<1>8. Underway(t) => Underway(t)'
  BY <1>2, <1>4, <1>6, PubSubPlaces DEF Underway
<1>9. SubLine(t) \in {3, 4} /\ lines[SubLine(t)] = Subscribes(t)
  <2>1. t = "topic0" \/ t = "topic1"
    BY DEF Topics
  <2>2. lines[3] = Subscribes("topic0") /\ lines[4] = Subscribes("topic1")
    BY <1>3 DEF WellTold
  <2>. QED
    BY <2>1, <2>2 DEF SubLine
<1>10. n >= SubLine(t) => Underway(t)'
  <2>1. CASE k >= SubLine(t)
    BY <1>7, <1>8, <2>1
  <2>2. CASE k + 1 = SubLine(t)
    <3>1. l = Subscribes(t)
      BY <1>3, <1>9, <2>2
    <3>2. l.to = "subscriber" /\ l.msg = m
      BY <1>2, <3>1 DEF Subscribes, ToTell
    <3>3. In(m, mailbox'["subscriber"])
      BY <3>2, AtLineIn, PubSubPlaces
    <3>. QED
      BY <1>2, <3>3 DEF Underway
  <2>3. n >= SubLine(t) => k >= SubLine(t) \/ k + 1 = SubLine(t)
    BY <1>1, <1>3, <1>9
  <2>. QED
    BY <2>1, <2>2, <2>3
<1>11. n >= 5 /\ patient => \E w \in Workers : KnowsTopic(w, t)'
  <2>1. CASE k >= 5
    BY <1>6, <1>7, <2>1
  <2>2. CASE k = 4
    <3>1. l = Pause
      <4>1. k + 1 = 5
        BY <2>2
      <4>. QED
        BY <1>3, <4>1 DEF WellTold
    <3>2. patient => AtRest
      BY <3>1, PubSubLineFacts DEF AtLine
    <3>3. AtRest => \A y \in PubSubActors : ~ In(m, mailbox[y])
      BY InEmpty DEF AtRest, PubSubTypes
    <3>4. Underway(t)
      BY <1>7, <1>9, <2>2
    <3>. QED
      BY <1>2, <1>6, <3>2, <3>3, <3>4, PubSubPlaces DEF Underway
  <2>3. n >= 5 => k >= 5 \/ k = 4
    BY <1>1, <1>3
  <2>. QED
    BY <2>1, <2>2, <2>3
<1>. QED
  BY <1>5, <1>10, <1>11

LEMMA AtLineNothingYet ==
  ASSUME PubSubTypes, NEW l \in PubSubLines, AtLine(l), NEW lines, NEW k, Told(lines, k), NothingYet(k)
  PROVE  NothingYet(k + 1)'
<1>1. PICK n \in Int : n = k + 1
  BY AtLineTold
<1>2. /\ k \in Int /\ l = lines[n] /\ n \in DOMAIN lines /\ WellTold(lines)
  <2>1. lines \in PubSubScripts
    BY DEF Told
  <2>. QED
    BY <1>1, <2>1, AtLineTold, ScriptsAreWellTold
<1>3. n \in 1 .. 14 /\ (l \in DOMAIN PublishLines => n > 5)
  BY <1>2 DEF WellTold
<1>4. ASSUME n < 5, NEW m \in PubMail
      PROVE  ~ In(m, mailbox'["publisher"]) /\ ~ In(m, mailbox'["broker"]) /\ ~ In(m, batch')
  <2>1. ~ In(m, mailbox["publisher"]) /\ ~ In(m, mailbox["broker"]) /\ ~ In(m, batch)
    <3>1. k < 5
      BY <1>1, <1>2, <1>4
    <3>. QED
      BY <1>4, <3>1 DEF NothingYet
  <2>2. ~ (l \in DOMAIN PublishLines)
    BY <1>3, <1>4
  <2>3. \A y \in PubSubActors : ~ (y = l.to /\ m = l.msg)
    BY <2>2, LinesOfMail
  <2>4. batch' = batch
    BY DEF AtLine, pubSubVars
  <2>. QED
    BY <2>1, <2>3, <2>4, AtLineIn, PubSubPlaces
<1>5. NothingYet(n)'
  BY <1>4 DEF NothingYet
<1>. QED
  BY <1>1, <1>5

LEMMA AtLineSomewhere ==
  ASSUME PubSubTypes, NEW l \in PubSubLines, AtLine(l), NEW m \in PubMail, Somewhere(m)
  PROVE  Somewhere(m)'
<1>2. \A y \in PubSubActors : \A x : In(x, mailbox[y]) => In(x, mailbox'[y])
  BY AtLineIn
<1>3. batch' = batch /\ notified' = notified /\ subscriptions' = subscriptions
  BY DEF AtLine, pubSubVars
<1>4. \A w \in Workers : KnowsTopic(w, m.topic)' <=> KnowsTopic(w, m.topic)
  BY <1>3 DEF KnowsTopic
<1>5. In(ToTell("publisher", m), script) => In(ToTell("publisher", m), script') \/ In(m, mailbox'["publisher"])
  <2>1. PICK x : x = ToTell("publisher", m)
    OBVIOUS
  <2>2. x.to = "publisher" /\ x.msg = m
    BY <2>1 DEF ToTell
  <2>3. In(x, script) => x = l \/ In(x, script')
    BY AtLineIn
  <2>4. x = l => In(m, mailbox'["publisher"])
    BY <2>2, AtLineIn, PubSubPlaces
  <2>. QED
    BY <2>1, <2>3, <2>4
<1>6. \A w \in Workers : In(NotifyMsg(m.value, w), mailbox["subscriber"]) => In(NotifyMsg(m.value, w), mailbox'["subscriber"])
  BY <1>2, PubSubPlaces
<1>7. \A y \in PubSubActors : In(m, mailbox[y]) => In(m, mailbox'[y])
  BY <1>2
<1>. QED
  BY <1>3, <1>4, <1>5, <1>6, <1>7, PubSubPlaces DEF Somewhere

LEMMA AtLineOrigins ==
  ASSUME PubSubTypes, NEW l \in PubSubLines, AtLine(l), NEW lines, NEW k, lines = began, Told(lines, k), Origins
  PROVE  Origins'
<1>. SUFFICES ASSUME NEW m \in PubMail,
                     \/ In(m, mailbox'["publisher"]) \/ In(m, mailbox'["broker"]) \/ In(m, batch')
                     \/ \E w \in Workers : In(m, mailbox'[w])
              PROVE  Planned(m)'
  BY DEF Origins
<1>1. began' = began /\ batch' = batch
  BY DEF AtLine, pubSubVars
<1>2. k + 1 \in DOMAIN lines /\ l = lines[k + 1]
  BY AtLineTold
<1>3. \A y \in PubSubActors : y = l.to /\ m = l.msg => Planned(m)
  <2>1. \A y \in PubSubActors : y = l.to /\ m = l.msg => l = ToTell("publisher", m)
    BY LinesOfMail
  <2>. QED
    BY <1>2, <2>1 DEF Planned, In
<1>4. \A y \in PubSubActors : In(m, mailbox'[y]) => In(m, mailbox[y]) \/ Planned(m)
  BY <1>3, AtLineIn
<1>5. Planned(m)
  BY <1>1, <1>4, PubSubPlaces DEF Origins
<1>. QED
  BY <1>1, <1>5 DEF Planned

LEMMA AtLineNotedIsKnown ==
  ASSUME PubSubTypes, NEW l \in PubSubLines, AtLine(l), NotedIsKnown
  PROVE  NotedIsKnown'
<1>. SUFFICES ASSUME NEW m \in PubMail, NEW w \in Workers, Planned(m)',
                     In(NotifyMsg(m.value, w), mailbox'["subscriber"]) \/ In(NotifyMsg(m.value, w), notified')
              PROVE  KnowsTopic(w, m.topic)'
  BY DEF NotedIsKnown
<1>1. PICK n : n = NotifyMsg(m.value, w)
  OBVIOUS
<1>2. n \in NotifyMail
  BY <1>1, PubSubPlaces
<1>3. notified' = notified /\ subscriptions' = subscriptions /\ began' = began
  BY DEF AtLine, pubSubVars
<1>4. In(n, mailbox'["subscriber"]) => In(n, mailbox["subscriber"])
  <2>1. ~ ("subscriber" = l.to /\ n = l.msg)
    BY <1>2, LinesOfMail, PubSubPlaces
  <2>. QED
    BY <2>1, AtLineIn, PubSubPlaces
<1>5. Planned(m)
  BY <1>3 DEF Planned
<1>. QED
  BY <1>1, <1>3, <1>4, <1>5 DEF NotedIsKnown, KnowsTopic

LEMMA RisesIn ==
  ASSUME NEW seq, NEW num, NEW lo, NEW hi, Rises(seq, num, lo, hi), NEW x \in DOMAIN num, In(x, seq)
  PROVE  lo < num[x] /\ num[x] <= hi
BY DEF Rises, In

\* What main has still to publish is nowhere yet.
LEMMA NotYetPublished ==
  ASSUME PubSubTypes, NEW a, NEW b, NEW c \in Nat, NEW d \in Nat, NEW e \in Nat, NEW f \in Nat, Flow(a, b, c, d, e, f),
         NEW m \in PubMail, In(ToTell("publisher", m), script)
  PROVE  ~ In(m, mailbox["broker"]) /\ ~ In(m, batch) /\ Unheard(m)
<1>1. PICK v \in Nat : v = m.value
  BY PubSubMailFacts
<1>2. m \in DOMAIN Published /\ Published[m] = v
  BY <1>1, PubSubMailFacts
<1>3. PICK x : x = ToTell("publisher", m)
  OBVIOUS
<1>4. x \in DOMAIN PublishLines /\ PublishLines[x] = v
  BY <1>1, <1>3, PubSubLineFacts
<1>5. Rises(script, PublishLines, f, 4) /\ c <= d /\ d <= e /\ e <= f
  BY DEF Flow
<1>6. f < v
  BY <1>3, <1>4, <1>5, RisesIn
<1>7. c < v /\ ~ (v <= e) /\ ~ (v <= d) /\ ~ (v <= c)
  BY <1>5, <1>6
<1>8. ~ In(m, mailbox["broker"])
  <2>1. Rises(mailbox["broker"], Published, d, e)
    BY DEF Flow
  <2>. QED
    BY <1>2, <1>7, <2>1, RisesIn
<1>9. ~ In(m, batch)
  <2>1. Rises(batch, Published, c, d)
    BY DEF Flow
  <2>. QED
    BY <1>2, <1>7, <2>1, RisesIn
<1>10. ASSUME NEW w \in Workers
       PROVE  /\ ~ In(m, mailbox[w])
              /\ ~ In(NotifyMsg(m.value, w), mailbox["subscriber"]) /\ ~ In(NotifyMsg(m.value, w), notified)
  <2>1. /\ Rises(mailbox[w], Published, b[w], c) /\ Rises(notified, Noted(w), 0, a[w])
        /\ Rises(mailbox["subscriber"], Noted(w), a[w], b[w]) /\ a[w] <= b[w] /\ b[w] <= c
    BY DEF Flow
  <2>2. a[w] \in Nat /\ b[w] \in Nat
    BY DEF Flow
  <2>3. ~ In(m, mailbox[w])
    BY <1>2, <1>7, <2>1, RisesIn
  <2>4. PICK n : n = NotifyMsg(m.value, w)
    OBVIOUS
  <2>5. n \in DOMAIN Noted(w) /\ Noted(w)[n] = v
    <3>1. n \in NotifyMail /\ n.worker = w /\ n.value = v
      BY <1>1, <2>4, PubSubPlaces DEF NotifyMsg
    <3>. QED
      BY <3>1, NotedFacts
  <2>6. ~ (v <= a[w]) /\ ~ (v <= b[w])
    BY <1>7, <2>1, <2>2
  <2>7. ~ In(n, mailbox["subscriber"]) /\ ~ In(n, notified)
    BY <2>1, <2>5, <2>6, RisesIn
  <2>. QED
    BY <2>3, <2>4, <2>7
<1>. QED
  BY <1>8, <1>9, <1>10 DEF Unheard

LEMMA AtLineWaits ==
  ASSUME PubSubTypes, NEW l \in PubSubLines, AtLine(l), NEW lines, NEW k, Told(lines, k), Waits(lines, k),
         NEW a, NEW b, NEW c \in Nat, NEW d \in Nat, NEW e \in Nat, NEW f \in Nat, Flow(a, b, c, d, e, f)
  PROVE  Waits(lines, k + 1)'
<1>1. PICK n \in Int : n = k + 1
  BY AtLineTold
<1>2. /\ k \in Int /\ l = lines[n] /\ n \in DOMAIN lines /\ DOMAIN lines = 1 .. 14
  <2>1. lines \in PubSubScripts
    BY DEF Told
  <2>. QED
    BY <1>1, <2>1, AtLineTold, ScriptsAreWellTold DEF WellTold
<1>. SUFFICES ASSUME NEW m \in PubMail, OpenAt(lines, n, m) PROVE Gate(m)' /\ Unheard(m)'
  <2>1. Waits(lines, n)'
    BY DEF Waits
  <2>. QED
    BY <1>1, <2>1
<1>3. PICK i \in DOMAIN lines, j \in DOMAIN lines :
        /\ i <= n /\ i < j /\ lines[i] = Batches(TRUE) /\ lines[j] = ToTell("publisher", m)
        /\ \A p \in DOMAIN lines : i <= p /\ p <= n => lines[p] # Batches(FALSE)
  BY DEF OpenAt
<1>4. batching' = batching /\ batch' = batch /\ notified' = notified
  BY DEF AtLine, pubSubVars
<1>5. \A y \in PubSubActors : \A x : In(x, mailbox'[y]) <=> In(x, mailbox[y]) \/ (y = l.to /\ x = l.msg)
  BY AtLineIn
<1>6. l # Batches(FALSE)
  <2>1. n <= n
    OBVIOUS
  <2>. QED
    BY <1>2, <1>3, <2>1
<1>7. Unheard(m) => Unheard(m)'
  <2>1. ASSUME NEW w \in Workers, Unheard(m)
        PROVE  /\ ~ In(m, mailbox'[w])
               /\ ~ In(NotifyMsg(m.value, w), mailbox'["subscriber"]) /\ ~ In(NotifyMsg(m.value, w), notified')
    <3>1. w \in PubSubActors /\ ~ (w = l.to /\ m = l.msg)
      BY LinesOfMail, PubSubPlaces
    <3>2. PICK x : x = NotifyMsg(m.value, w)
      OBVIOUS
    <3>3. x \in NotifyMail
      BY <3>2, PubSubPlaces
    <3>4. ~ ("subscriber" = l.to /\ x = l.msg)
      BY <3>3, LinesOfMail, PubSubPlaces
    <3>. QED
      BY <1>4, <1>5, <2>1, <3>1, <3>2, <3>4, PubSubPlaces DEF Unheard
  <2>. QED
    BY <2>1 DEF Unheard
<1>8. PICK q \in Seq(PubSubMail) : q = mailbox["broker"]
  BY PubSubPlaces DEF PubSubTypes
<1>9. l.to = "broker" => l.msg # Off /\ l.msg \in PubSubMail /\ mailbox'["broker"] = Append(q, l.msg)
  <2>1. l.to = "broker" => l.to \in PubSubActors
    BY PubSubPlaces
  <2>2. l.to = "broker" => l.msg # Off /\ l # Pause
    BY <1>6, <2>1, LinesOfMail
  <2>. QED
    BY <1>8, <2>2 DEF AtLine
<1>10. l.to # "broker" => mailbox'["broker"] = q
  BY <1>8, PubSubPlaces DEF AtLine
<1>11. On # Off
  BY SortsOfMail
<1>12. Gate(m) => Gate(m)'
  <2>1. CASE l.to = "broker"
    <3>1. (~ In(Off, q) => ~ In(Off, mailbox'["broker"])) /\ (Opens(m, On, Off, q) => Opens(m, On, Off, mailbox'["broker"]))
      <4>1. PICK z \in PubSubMail : z = l.msg /\ z # Off /\ mailbox'["broker"] = Append(q, z)
        BY <1>9, <2>1
      <4>2. ~ In(Off, q) => ~ In(Off, Append(q, z))
        BY <1>8, <4>1, InAppend
      <4>3. Opens(m, On, Off, q) => Opens(m, On, Off, Append(q, z))
        BY <1>8, <4>1, OpensAppend
      <4>. QED
        BY <4>1, <4>2, <4>3
    <3>. QED
      BY <1>4, <1>8, <3>1 DEF Gate
  <2>2. CASE l.to # "broker"
    BY <1>4, <1>8, <1>10, <2>2 DEF Gate
  <2>. QED
    BY <2>1, <2>2
<1>13. CASE i <= k
  <2>1. \A p \in DOMAIN lines : i <= p /\ p <= k => lines[p] # Batches(FALSE)
    <3>1. SUFFICES ASSUME NEW p \in DOMAIN lines, i <= p, p <= k PROVE lines[p] # Batches(FALSE)
      OBVIOUS
    <3>2. p <= n
      BY <1>1, <1>2, <3>1, SMTT(60)
    <3>. QED
      BY <1>3, <3>1, <3>2
  <2>2. OpenAt(lines, k, m)
    BY <1>3, <1>13, <2>1 DEF OpenAt
  <2>3. Gate(m) /\ Unheard(m)
    BY <2>2 DEF Waits
  <2>. QED
    BY <1>7, <1>12, <2>3
<1>14. CASE i = n
  <2>1. l = Batches(TRUE)
    BY <1>2, <1>3, <1>14
  <2>2. l.to = "broker" /\ l.msg = On
    BY <2>1, PubSubLineFacts
  <2>3. In(ToTell("publisher", m), script)
    <3>1. script[j - k] = lines[j] /\ j - k \in DOMAIN script
      <4>1. j \in 1 .. 14 /\ j > n
        BY <1>2, <1>3, <1>14
      <4>2. Len(script) = 14 - k /\ \A p \in DOMAIN script : script[p] = lines[p + k]
        BY DEF Told
      <4>3. DOMAIN script = 1 .. 14 - k
        <5>1. script \in Seq(PubSubLines)
          BY DEF PubSubTypes
        <5>. QED
          BY <4>2, <5>1
      <4>4. j - k \in DOMAIN script /\ (j - k) + k = j
        <5>1. k \in Int /\ j \in Int /\ j <= 14 /\ j > k + 1
          BY <1>1, <1>2, <4>1, SMTT(60)
        <5>2. j - k \in 1 .. 14 - k /\ (j - k) + k = j
          BY <5>1
        <5>. QED
          BY <4>3, <5>2
      <4>. QED
        BY <4>2, <4>4
    <3>. QED
      BY <1>3, <3>1 DEF In
  <2>4. ~ In(m, mailbox["broker"]) /\ ~ In(m, batch) /\ Unheard(m)
    BY <2>3, NotYetPublished
  <2>5. Opens(m, On, Off, mailbox'["broker"])
    BY <1>8, <1>9, <1>11, <2>2, <2>4, OpensAppend
  <2>. QED
    BY <1>4, <1>7, <2>4, <2>5 DEF Gate
<1>. QED
  <2>1. i \in Int
    BY <1>2, SMTT(60)
  <2>2. i <= k \/ i = n
    BY <1>1, <1>2, <1>3, <2>1
  <2>. QED
    BY <1>13, <1>14, <2>2

(***************************************************************************)
(* What the invariant means, and that it holds at first.                   *)
(***************************************************************************)

LEMMA NotifiedFacts ==
  ASSUME PubSubTypes
  PROVE  \A i \in DOMAIN notified : /\ notified[i] \in NotifyMail /\ notified[i].worker \in Workers /\ i \in Int
                                    /\ notified[i] = NotifyMsg(notified[i].value, notified[i].worker)
<1>1. notified \in Seq(NotifyMail)
  BY DEF PubSubTypes
<1>2. \A i \in DOMAIN notified : notified[i] \in NotifyMail /\ i \in Int
  BY <1>1
<1>. QED
  BY <1>2, PubSubMailFacts

LEMMA OrderFromFlow ==
  ASSUME PubSubTypes, NEW a, NEW b, NEW c, NEW d, NEW e, NEW f, Flow(a, b, c, d, e, f)
  PROVE  PublishedOrder
<1> SUFFICES ASSUME NEW i \in DOMAIN notified, NEW j \in DOMAIN notified, i < j, notified[i].worker = notified[j].worker
             PROVE  notified[i].value < notified[j].value
  BY DEF PublishedOrder
<1>1. PICK w \in Workers : w = notified[i].worker
  BY NotifiedFacts
<1>2. notified[i] \in NotifyMail /\ notified[j] \in NotifyMail /\ notified[j].worker = w
  BY <1>1, NotifiedFacts
<1>3. /\ notified[i] \in DOMAIN Noted(w) /\ Noted(w)[notified[i]] = notified[i].value
      /\ notified[j] \in DOMAIN Noted(w) /\ Noted(w)[notified[j]] = notified[j].value
  BY <1>1, <1>2, NotedFacts
<1>4. Rises(notified, Noted(w), 0, a[w])
  BY DEF Flow
<1>5. Noted(w)[notified[i]] < Noted(w)[notified[j]]
  BY <1>3, <1>4 DEF Rises
<1>. QED
  BY <1>3, <1>5

\* The lines with an event are those that tell the publisher.
LEMMA EventLineFacts ==
  ASSUME began \in PubSubScripts, NEW j \in EventLines
  PROVE  j \in 1 .. 14 /\ began[j].msg \in PubMail /\ began[j] = ToTell("publisher", began[j].msg)
<1>1. WellTold(began)
  BY ScriptsAreWellTold
<1>2. PICK l : l = began[j]
  OBVIOUS
<1>3. j \in DOMAIN began /\ l.to = "publisher" /\ l.msg.type = "publish"
  BY <1>2 DEF EventLines
<1>4. j \in 1 .. 14 /\ l \in PubSubLines
  <2>1. began \in Seq(PubSubLines)
    BY <1>1 DEF WellTold
  <2>2. \A n \in DOMAIN began : began[n] \in PubSubLines
    BY <2>1
  <2>3. DOMAIN began = 1 .. 14
    BY <1>1 DEF WellTold
  <2>. QED
    BY <1>2, <1>3, <2>2, <2>3
<1>5. l \in DOMAIN PublishLines
  <2>1. l \notin DOMAIN SwitchLines /\ l # Pause /\ l \notin {Subscribes("topic0"), Subscribes("topic1")}
    BY <1>3, PubSubLineFacts
  <2>2. ConfigMsg.type # "publish" /\ \A x : ToTell(x, ConfigMsg).msg = ConfigMsg
    BY PubSubMailFacts, PubSubLineFacts
  <2>. QED
    BY <1>3, <1>4, <2>1, <2>2 DEF PubSubLines
<1>. QED
  BY <1>2, <1>4, <1>5, PubSubLineFacts

LEMMA BatchKept ==
  ASSUME PubSubTypes, NEW k, Told(began, k), Waits(began, k)
  PROVE  BatchIsKept
<1>. SUFFICES ASSUME NEW j \in EventLines, j <= ToldLines, OfTheBatch(j) PROVE Times(began[j].msg.value) = 0
  BY DEF BatchIsKept
<1>1. WellTold(began) /\ began \in PubSubScripts
  BY ScriptsAreWellTold DEF Told
<1>2. k \in Int /\ ToldLines = k
  <2>1. Len(began) = 14 /\ Len(script) = 14 - k /\ k \in Int
    BY <1>1 DEF Told, WellTold
  <2>. QED
    BY <2>1 DEF ToldLines
<1>3. PICK m : m = began[j].msg
  OBVIOUS
<1>4. m \in PubMail /\ began[j] = ToTell("publisher", m) /\ j \in 1 .. 14
  BY <1>1, <1>3, EventLineFacts
<1>5. PICK i \in 1 .. j : began[i] = Batches(TRUE) /\ \A n \in i .. k : began[n] # Batches(FALSE)
  BY <1>2 DEF OfTheBatch
<1>6. i # j
  <2>1. Batches(TRUE).to = "broker" /\ ToTell("publisher", m).to = "publisher"
    BY <1>4, PubSubLineFacts
  <2>. QED
    BY <1>4, <1>5, <2>1
<1>7. OpenAt(began, k, m)
  <2>1. DOMAIN began = 1 .. 14
    BY <1>1 DEF WellTold
  <2>2. i \in DOMAIN began /\ j \in DOMAIN began /\ i < j /\ i <= k
    BY <1>2, <1>4, <1>5, <1>6, <2>1
  <2>3. \A n \in DOMAIN began : i <= n /\ n <= k => began[n] # Batches(FALSE)
    <3>1. SUFFICES ASSUME NEW n \in DOMAIN began, i <= n, n <= k PROVE began[n] # Batches(FALSE)
      OBVIOUS
    <3>2. n \in i .. k
      BY <1>2, <1>4, <2>1, <3>1
    <3>. QED
      BY <1>5, <3>2
  <2>. QED
    BY <1>4, <1>5, <2>2, <2>3 DEF OpenAt
<1>8. \A w \in Workers : ~ In(NotifyMsg(m.value, w), notified)
  BY <1>4, <1>7 DEF Waits, Unheard
<1>9. \A n \in DOMAIN notified : notified[n].value # m.value
  <2>1. SUFFICES ASSUME NEW n \in DOMAIN notified, notified[n].value = m.value PROVE FALSE
    OBVIOUS
  <2>2. PICK w \in Workers : notified[n] = NotifyMsg(m.value, w)
    BY <2>1, NotifiedFacts
  <2>. QED
    BY <1>8, <2>2 DEF In
<1>10. {n \in DOMAIN notified : notified[n].value = m.value} = {}
  BY <1>9
<1>. QED
  BY <1>3, <1>10, FS_EmptySet DEF Times

LEMMA OnceEach ==
  ASSUME PubSubTypes, PublishedOrder, NotedIsKnown, NEW m \in PubMail, Planned(m)
  PROVE  /\ Times(m.value) \in 0 .. Cardinality({w \in Workers : m.topic \in subscriptions[w]})
         /\ (\E w \in Workers : In(NotifyMsg(m.value, w), notified)) => Times(m.value) # 0
<1>0. PICK v, t : v \in Int /\ v = m.value /\ t = m.topic
  BY PubSubMailFacts
<1> DEFINE K == {w \in Workers : t \in subscriptions[w]}
           T == {i \in DOMAIN notified : notified[i].value = v}
           f == [i \in T |-> notified[i].worker]
<1>1. IsFiniteSet(K)
  <2>1. IsFiniteSet({}) /\ IsFiniteSet({} \cup {"odd"}) /\ IsFiniteSet(({} \cup {"odd"}) \cup {"even"})
    BY FS_EmptySet, FS_AddElement
  <2>2. K \subseteq ({} \cup {"odd"}) \cup {"even"}
    BY DEF Workers
  <2>. QED
    BY <2>1, <2>2, FS_Subset
<1>2. \A i \in T : f[i] \in K
  <2>1. SUFFICES ASSUME NEW i \in T PROVE notified[i].worker \in K
    OBVIOUS
  <2>2. PICK w : w = notified[i].worker
    OBVIOUS
  <2>3. w \in Workers /\ notified[i] = NotifyMsg(v, w)
    BY <2>2, NotifiedFacts
  <2>4. In(NotifyMsg(m.value, w), notified)
    BY <1>0, <2>3 DEF In
  <2>5. KnowsTopic(w, t)
    BY <1>0, <2>3, <2>4 DEF NotedIsKnown
  <2>. QED
    BY <2>2, <2>3, <2>5 DEF KnowsTopic
<1>3. \A i, j \in T : f[i] = f[j] => i = j
  <2>1. SUFFICES ASSUME NEW i \in T, NEW j \in T, notified[i].worker = notified[j].worker PROVE i = j
    OBVIOUS
  <2>2. i \in Int /\ j \in Int /\ notified[i].value = v /\ notified[j].value = v /\ v \in Int
    BY <1>0, NotifiedFacts
  <2>3. ~ (i < j) /\ ~ (j < i)
    BY <2>1, <2>2 DEF PublishedOrder
  <2>. QED
    BY <2>2, <2>3
<1>4. f \in Injection(T, K)
  <2>1. f \in [T -> K]
    BY <1>2
  <2>. QED
    BY <1>3, <2>1 DEF Injection, IsInjective
<1>5. IsFiniteSet(T) /\ Cardinality(T) <= Cardinality(K)
  BY <1>1, <1>4, FS_Injection
<1>6. (\E w \in Workers : In(NotifyMsg(m.value, w), notified)) => T # {}
  <2>1. SUFFICES ASSUME NEW w \in Workers, In(NotifyMsg(m.value, w), notified) PROVE T # {}
    OBVIOUS
  <2>2. PICK i \in DOMAIN notified : notified[i] = NotifyMsg(v, w)
    BY <1>0, <2>1 DEF In
  <2>3. notified[i].value = v
    BY <2>2 DEF NotifyMsg
  <2>. QED
    BY <2>3
<1>7. Cardinality(T) \in Nat /\ Cardinality(K) \in Nat /\ (T # {} => Cardinality(T) # 0)
  BY <1>1, <1>5, FS_EmptySet, FS_CardinalityType
<1>8. Times(m.value) = Cardinality(T) /\ K = {w \in Workers : m.topic \in subscriptions[w]}
  BY <1>0 DEF Times
<1>9. Cardinality(T) \in 0 .. Cardinality(K)
  BY <1>5, <1>7
<1>. QED
  BY <1>6, <1>7, <1>8, <1>9

\* A script subscribes to the two topics only.
LEMMA SubscribedTopics ==
  ASSUME began \in PubSubScripts, NEW t, Subscribes(t) \in ToSet(began)
  PROVE  t \in Topics
<1>1. PICK l : l = Subscribes(t)
  OBVIOUS
<1>2. l.to = "subscriber" /\ l.msg = SubscribeMsg(t)
  BY <1>1 DEF Subscribes, ToTell
<1>3. l.msg.type = "subscribe" /\ l.msg.topic = t
  BY <1>2 DEF SubscribeMsg
<1>4. l \in PubSubLines
  <2>1. WellTold(began)
    BY ScriptsAreWellTold
  <2>2. PICK i \in DOMAIN began : began[i] = l
    BY <1>1 DEF ToSet
  <2>3. began \in Seq(PubSubLines)
    BY <2>1 DEF WellTold
  <2>4. \A n \in DOMAIN began : began[n] \in PubSubLines
    BY <2>3
  <2>. QED
    BY <2>2, <2>4
<1>5. l \in {Subscribes("topic0"), Subscribes("topic1")}
  <2>1. l \notin DOMAIN SwitchLines /\ l # Pause /\ l \notin DOMAIN PublishLines
    BY <1>2, PubSubLineFacts
  <2>2. ConfigMsg.type # "subscribe" /\ \A x : ToTell(x, ConfigMsg).msg = ConfigMsg
    BY PubSubMailFacts, PubSubLineFacts
  <2>. QED
    BY <1>3, <1>4, <2>1, <2>2 DEF PubSubLines
<1>6. l.msg \in SubMail
  BY <1>5, PubSubLineFacts
<1>. QED
  BY <1>3, <1>6, PubSubMailFacts DEF Topics

LEMMA PubSubMeans == PubSubInv => PublishedOrder /\ BatchIsKept /\ NotifiedOnce
<1> SUFFICES ASSUME PubSubInv PROVE PublishedOrder /\ BatchIsKept /\ NotifiedOnce
  OBVIOUS
<1>1. PubSubTypes /\ EndsOff /\ NotedIsKnown /\ (patient => \A m \in PubMail : Planned(m) /\ m.topic \in Topics => Somewhere(m))
  BY DEF PubSubInv
<1>2. PICK k : Told(began, k) /\ Waits(began, k)
  BY DEF PubSubInv
<1>3. PICK a, b : \E c \in Nat, d \in Nat, e \in Nat, f \in Nat : Flow(a, b, c, d, e, f)
  BY DEF PubSubInv
<1>4. PICK c \in Nat, d \in Nat, e \in Nat, f \in Nat : Flow(a, b, c, d, e, f)
  BY <1>3
<1>5. PublishedOrder
  BY <1>1, <1>4, OrderFromFlow
<1>6. BatchIsKept
  BY <1>1, <1>2, BatchKept
<1>7. ASSUME patient, script = <<>>, AtRest PROVE batch = <<>> /\ \A y \in PubSubActors : mailbox[y] = <<>>
  <2>1. \A y \in PubSubActors : mailbox[y] = <<>>
    BY <1>1, <1>7 DEF AtRest, PubSubTypes
  <2>2. batch = <<>>
    <3>1. PICK p : Leads(mailbox["broker"], Switches, Behaviour, p) /\ Leads(script, SwitchLines, p, "off")
      BY <1>1 DEF EndsOff
    <3>2. mailbox["broker"] = <<>>
      BY <2>1, PubSubPlaces
    <3>3. Behaviour = "off"
      BY <1>7, <3>1, <3>2, LeadsEmpty
    <3>. QED
      BY <1>1, <3>3 DEF Behaviour, PubSubTypes
  <2>. QED
    BY <2>1, <2>2
<1>8. ASSUME patient, script = <<>>, AtRest, NEW j \in EventLines, NEW m, m = began[j].msg,
             NEW fewest, fewest = IF Subscribes(m.topic) \in ToSet(began) THEN 1 ELSE 0
      PROVE  Times(m.value) \in fewest .. Cardinality({w \in Workers : m.topic \in subscriptions[w]})
  <2>1. began \in PubSubScripts
    BY <1>2 DEF Told
  <2>2. m \in PubMail /\ began[j] = ToTell("publisher", m) /\ j \in DOMAIN began
    BY <1>8, <2>1, EventLineFacts DEF EventLines
  <2>3. Planned(m)
    BY <2>2 DEF Planned, In
  <2>4. /\ Times(m.value) \in 0 .. Cardinality({w \in Workers : m.topic \in subscriptions[w]})
        /\ (\E w \in Workers : In(NotifyMsg(m.value, w), notified)) => Times(m.value) # 0
    BY <1>1, <1>5, <2>2, <2>3, OnceEach
  <2>5. ASSUME Subscribes(m.topic) \in ToSet(began) PROVE \E w \in Workers : In(NotifyMsg(m.value, w), notified)
    <3>1. m.topic \in Topics
      BY <2>1, <2>5, SubscribedTopics
    <3>2. Somewhere(m)
      BY <1>1, <1>8, <2>2, <2>3, <3>1
    <3>3. PICK l : l = ToTell("publisher", m)
      OBVIOUS
    <3>4. /\ ~ In(l, script) /\ ~ In(m, batch) /\ \A y \in PubSubActors : \A x : ~ In(x, mailbox[y])
      BY <1>7, <1>8, InEmpty
    <3>. QED
      BY <3>2, <3>3, <3>4, PubSubPlaces DEF Somewhere
  <2>6. PICK top : top = Cardinality({w \in Workers : m.topic \in subscriptions[w]})
    OBVIOUS
  <2>7. Times(m.value) \in 0 .. top /\ (fewest = 1 => Times(m.value) # 0) /\ fewest \in {0, 1}
    BY <1>8, <2>4, <2>5, <2>6
  <2>8. Times(m.value) \in fewest .. top
    BY <2>7
  <2>. QED
    BY <2>6, <2>8
<1>9. NotifiedOnce
  BY <1>7, <1>8 DEF NotifiedOnce, AllTold
<1>. QED
  BY <1>5, <1>6, <1>9

LEMMA PubSubInitially ==
  ASSUME PubSubInit, ActorsInit(AllActors, PubSubScripts)
  PROVE  PubSubInv
<1>1. /\ batching = FALSE /\ batch = <<>> /\ subscriptions = [w \in Workers |-> {}] /\ notified = <<>> /\ began = script
      /\ script \in PubSubScripts /\ PubSubActors \subseteq DOMAIN mailbox /\ \A y \in PubSubActors : mailbox[y] = <<>>
  BY DEF PubSubInit, ActorsInit, AllActors
<1>2. WellTold(script)
  BY <1>1, ScriptsAreWellTold
<1>3. PubSubTypes
  <2>1. script \in Seq(PubSubLines)
    BY <1>2 DEF WellTold
  <2>2. <<>> \in Seq(PubSubMail) /\ <<>> \in Seq(PubMail) /\ <<>> \in Seq(NotifyMail)
    OBVIOUS
  <2>. QED
    BY <1>1, <2>1, <2>2 DEF PubSubTypes
<1>4. \A m : ~ In(m, notified) /\ ~ In(m, batch) /\ \A y \in PubSubActors : ~ In(m, mailbox[y])
  BY <1>1, InEmpty
<1>5. Told(script, 0) /\ Subscribed(0) /\ NothingYet(0) /\ Waits(script, 0)
  <2>1. Len(script) = 14 /\ DOMAIN script = 1 .. 14
    BY <1>2 DEF WellTold
  <2>2. \A i \in DOMAIN script : script[i] = script[i + 0]
    BY <2>1
  <2>3. Told(script, 0)
    BY <1>1, <2>1, <2>2 DEF Told
  <2>4. Subscribed(0)
    BY DEF Subscribed, SubLine
  <2>5. NothingYet(0)
    BY <1>4, PubSubPlaces DEF NothingYet
  <2>6. Waits(script, 0)
    <3>1. \A i \in DOMAIN script : ~ (i <= 0)
      BY <2>1
    <3>. QED
      BY <3>1 DEF Waits, OpenAt
  <2>. QED
    BY <2>3, <2>4, <2>5, <2>6
<1>6. \E a, b : \E c \in Nat, d \in Nat, e \in Nat, f \in Nat : Flow(a, b, c, d, e, f)
  <2>1. PICK a : a = [w \in Workers |-> 0]
    OBVIOUS
  <2>2. \A num, x, y : Rises(<<>>, num, x, y)
    BY DEF Rises
  <2>3. Rises(script, PublishLines, 0, 4)
    BY <1>2 DEF WellTold
  <2>4. a \in [Workers -> Nat] /\ \A w \in Workers : a[w] = 0
    BY <2>1
  <2>5. Flow(a, a, 0, 0, 0, 0)
    BY <1>1, <2>2, <2>3, <2>4, PubSubPlaces DEF Flow
  <2>. QED
    BY <2>5
<1>7. EndsOff
  <2>1. Leads(script, SwitchLines, "off", "off")
    BY <1>2 DEF WellTold
  <2>2. Behaviour = "off" /\ mailbox["broker"] = <<>>
    BY <1>1, PubSubPlaces DEF Behaviour
  <2>. QED
    BY <2>1, <2>2, LeadsEmpty DEF EndsOff
<1>8. \A m \in PubMail : Planned(m) => Somewhere(m)
  BY <1>1 DEF Planned, Somewhere
<1>9. Origins /\ NotedIsKnown
  BY <1>4, PubSubPlaces DEF Origins, NotedIsKnown
<1>. QED
  BY <1>1, <1>3, <1>5, <1>6, <1>7, <1>8, <1>9 DEF PubSubInv

(***************************************************************************)
(* The invariant of all of them.                                           *)
(***************************************************************************)

LEMMA PubSubActorsStep ==
  ASSUME PubSubInv, PubSubActorStep
  PROVE  PubSubInv'
<1>1. /\ PubSubTypes /\ EndsOff /\ Origins /\ NotedIsKnown
      /\ patient => \A m \in PubMail : Planned(m) /\ m.topic \in Topics => Somewhere(m)
  BY DEF PubSubInv
<1>2. PICK h \in PubSubMail : PubSubMoves(h)
  BY <1>1, EveryStepMoves
<1>3. PICK lines, k : lines = began /\ Told(lines, k) /\ Subscribed(k) /\ NothingYet(k) /\ Waits(lines, k)
  BY DEF PubSubInv
<1>4. PICK a, b : \E c \in Nat, d \in Nat, e \in Nat, f \in Nat : Flow(a, b, c, d, e, f)
  BY DEF PubSubInv
<1>5. PICK c \in Nat, d \in Nat, e \in Nat, f \in Nat : Flow(a, b, c, d, e, f)
  BY <1>4
<1>6. PubSubTypes' /\ script' = script /\ began' = began /\ patient' = patient
  BY <1>1, <1>2, PubSubTypesMove
<1>7. k \in Int /\ Rises(lines, PublishLines, 0, 4) /\ \A i \in DOMAIN lines : i \in Int
  <2>1. k \in Int /\ lines \in PubSubScripts
    BY <1>3 DEF Told
  <2>2. Rises(lines, PublishLines, 0, 4) /\ DOMAIN lines = 1 .. 14
    BY <2>1, ScriptsAreWellTold DEF WellTold
  <2>. QED
    BY <2>1, <2>2
<1>8. Told(lines, k)'
  <2>1. PubSubScripts' = PubSubScripts
    BY DEF PubSubScripts, Beginning, ToTell, ConfigMsg, Subscribes, SubscribeMsg, Publishes, PublishMsg, Batches, BatchMsg, Pause
  <2>. QED
    BY <1>3, <1>6, <2>1 DEF Told
<1>9. Subscribed(k)' /\ NothingYet(k)' /\ Waits(lines, k)'
  BY <1>1, <1>2, <1>3, <1>7, SubscribedMoves, NothingYetMoves, WaitsMoves
<1>10. \E i, j : \E l \in Nat, m \in Nat, n \in Nat, o \in Nat : Flow(i, j, l, m, n, o)'
  BY <1>1, <1>2, <1>5, FlowMoves
<1>11. EndsOff'
  BY <1>1, <1>2, EndsOffMoves
<1>12. ASSUME patient', NEW m \in PubMail, Planned(m)', m.topic \in Topics PROVE Somewhere(m)'
  <2>1. In(m, mailbox["broker"]) => \E w \in Workers : KnowsTopic(w, m.topic)
    <3>1. k >= 5 => \E w \in Workers : KnowsTopic(w, m.topic)
      BY <1>3, <1>6, <1>12 DEF Subscribed
    <3>2. k < 5 => ~ In(m, mailbox["broker"])
      BY <1>3 DEF NothingYet
    <3>. QED
      BY <1>7, <3>1, <3>2
  <2>2. Planned(m)
    BY <1>6, <1>12 DEF Planned
  <2>3. Somewhere(m)
    BY <1>1, <1>6, <1>12, <2>2
  <2>. QED
    BY <1>1, <1>2, <2>1, <2>3, SomewhereMoves
<1>13. Origins' /\ NotedIsKnown'
  BY <1>1, <1>2, <1>3, <1>7, OriginsMove, NotedIsKnownMoves
<1>14. \E s, j : s = began' /\ Told(s, j)' /\ Subscribed(j)' /\ NothingYet(j)' /\ Waits(s, j)'
  BY <1>3, <1>6, <1>8, <1>9
<1>15. PubMail' = PubMail /\ Topics' = Topics
  BY DEF PubMail, Topics
<1>. QED
  BY <1>6, <1>10, <1>11, <1>12, <1>13, <1>14, <1>15 DEF PubSubInv

LEMMA PubSubMainStep ==
  ASSUME PubSubInv, MainSleeps \/ MainTells, UNCHANGED pubSubVars
  PROVE  PubSubInv'
<1>1. /\ PubSubTypes /\ EndsOff /\ Origins /\ NotedIsKnown
      /\ patient => \A m \in PubMail : Planned(m) /\ m.topic \in Topics => Somewhere(m)
  BY DEF PubSubInv
<1>2. PICK l \in PubSubLines : AtLine(l)
  BY <1>1, MainIsAtALine
<1>3. PICK lines, k : lines = began /\ Told(lines, k) /\ Subscribed(k) /\ NothingYet(k) /\ Waits(lines, k)
  BY DEF PubSubInv
<1>4. PICK a, b : \E c \in Nat, d \in Nat, e \in Nat, f \in Nat : Flow(a, b, c, d, e, f)
  BY DEF PubSubInv
<1>5. PICK c \in Nat, d \in Nat, e \in Nat, f \in Nat : Flow(a, b, c, d, e, f)
  BY <1>4
<1>6. PubSubTypes' /\ patient' = patient /\ began' = began
  BY <1>1, <1>2, AtLineTypes DEF AtLine
<1>7. PICK n : n = k + 1
  OBVIOUS
<1>8. Told(lines, n)'
  BY <1>1, <1>2, <1>3, <1>7, AtLineTold
<1>9. Subscribed(n)'
  BY <1>1, <1>2, <1>3, <1>7, AtLineSubscribed
<1>10. NothingYet(n)'
  BY <1>1, <1>2, <1>3, <1>7, AtLineNothingYet
<1>11. Waits(lines, n)'
  BY <1>1, <1>2, <1>3, <1>5, <1>7, AtLineWaits
<1>12. PICK g \in Nat : Flow(a, b, c, d, e, g)'
  BY <1>1, <1>2, <1>5, AtLineFlow
<1>13. EndsOff' /\ Origins' /\ NotedIsKnown'
  BY <1>1, <1>2, <1>3, AtLineEndsOff, AtLineOrigins, AtLineNotedIsKnown
<1>14. ASSUME patient', NEW m \in PubMail, Planned(m)', m.topic \in Topics PROVE Somewhere(m)'
  <2>1. Planned(m)
    BY <1>6, <1>14 DEF Planned
  <2>2. Somewhere(m)
    BY <1>1, <1>6, <1>14, <2>1
  <2>. QED
    BY <1>1, <1>2, <2>2, AtLineSomewhere, SMTT(60)
<1>15. \E s, j : s = began' /\ Told(s, j)' /\ Subscribed(j)' /\ NothingYet(j)' /\ Waits(s, j)'
  BY <1>3, <1>6, <1>8, <1>9, <1>10, <1>11
<1>16. PubMail' = PubMail /\ Topics' = Topics
  BY DEF PubMail, Topics
<1>. QED
  BY <1>6, <1>12, <1>13, <1>14, <1>15, <1>16 DEF PubSubInv

LEMMA PubSubInvStep ==
  ASSUME PubSubInv, PubSubActorStep \/ ((MainSleeps \/ MainTells) /\ UNCHANGED pubSubVars) \/ UNCHANGED <<actorVars, pubSubVars>>
  PROVE  PubSubInv'
<1>1. CASE PubSubActorStep
  BY <1>1, PubSubActorsStep
<1>2. CASE (MainSleeps \/ MainTells) /\ UNCHANGED pubSubVars
  BY <1>2, PubSubMainStep
<1>3. CASE UNCHANGED <<actorVars, pubSubVars>>
  <2>1. /\ script' = script /\ began' = began /\ mailbox' = mailbox /\ patient' = patient /\ batching' = batching
        /\ batch' = batch /\ subscriptions' = subscriptions /\ notified' = notified
    BY <1>3 DEF actorVars, pubSubVars
  <2>. QED
    <3>1. PubSubTypes' <=> PubSubTypes
      BY <2>1 DEF PubSubTypes
    <3>2. /\ \A lines, k : Told(lines, k)' <=> Told(lines, k)
          /\ \A k : Subscribed(k)' <=> Subscribed(k)
          /\ \A k : NothingYet(k)' <=> NothingYet(k)
          /\ \A lines, k : Waits(lines, k)' <=> Waits(lines, k)
      <4>1. \A lines, k : Told(lines, k)' <=> Told(lines, k)
        BY <2>1 DEF Told, PubSubScripts, Beginning, ToTell, ConfigMsg, Subscribes, SubscribeMsg, Publishes, PublishMsg, Batches, BatchMsg, Pause
      <4>2. \A k : Subscribed(k)' <=> Subscribed(k)
        BY <2>1 DEF Subscribed, Underway, KnowsTopic
      <4>3. \A k : NothingYet(k)' <=> NothingYet(k)
        BY <2>1 DEF NothingYet
      <4>4. \A lines, k : Waits(lines, k)' <=> Waits(lines, k)
        BY <2>1 DEF Waits, Gate, Unheard
      <4>. QED
        BY <4>1, <4>2, <4>3, <4>4
    <3>3. \A a, b, c, d, e, f : Flow(a, b, c, d, e, f)' <=> Flow(a, b, c, d, e, f)
      BY <2>1 DEF Flow
    <3>4. EndsOff' <=> EndsOff
      BY <2>1 DEF EndsOff, Behaviour
    <3>5. \A m : (Somewhere(m)' <=> Somewhere(m)) /\ (Planned(m)' <=> Planned(m))
      BY <2>1 DEF Somewhere, KnowsTopic, Planned
    <3>6. (NotedIsKnown' <=> NotedIsKnown) /\ (Origins' <=> Origins)
      BY <2>1, <3>5 DEF NotedIsKnown, KnowsTopic, Origins
    <3>. QED
      BY <2>1, <3>1, <3>2, <3>3, <3>4, <3>5, <3>6 DEF PubSubInv
<1>. QED
  BY <1>1, <1>2, <1>3

McInv ==
  /\ running \in {"dispatcher", "pub_sub", "counter", "server", "contacts"}
  /\ running = "pub_sub" => PubSubInv
  /\ running = "counter" => CounterInv
  /\ running = "server" => ServerInv
  /\ running = "contacts" => ContactsInv

LEMMA McInitially == McInit => McInv
<1> SUFFICES ASSUME McInit PROVE McInv
  OBVIOUS
<1>1. /\ running \in {"dispatcher", "pub_sub", "counter", "server", "contacts"}
      /\ PubSubInit /\ CounterInit /\ ServerInit /\ ContactInit
      /\ ActorsInit(AllActors, ScriptsOf(running))
  BY DEF McInit, AllActors
<1>2. ASSUME running = "pub_sub" PROVE PubSubInv
  <2>1. ScriptsOf(running) = PubSubScripts
    BY <1>2 DEF ScriptsOf
  <2>. QED
    BY <1>1, <2>1, PubSubInitially
<1>3. ASSUME running = "server" PROVE ServerInv
  <2>1. ScriptsOf(running) = ServerScripts
    BY <1>3 DEF ScriptsOf
  <2>. QED
    BY <1>1, <2>1, ServerInitially
<1>4. ASSUME running = "contacts" PROVE ContactsInv
  <2>1. ScriptsOf(running) = ContactScripts
    BY <1>4 DEF ScriptsOf
  <2>. QED
    BY <1>1, <2>1, ContactsInitially
<1>. QED
  BY <1>1, <1>2, <1>3, <1>4, CounterInitially DEF McInv

LEMMA McStep == McInv /\ [McNext]_allVars => McInv'
<1> SUFFICES ASSUME McInv, [McNext]_allVars PROVE McInv'
  OBVIOUS
<1>1. running' = running
  BY DEF McNext, Dispatching, Counting, MainGoesOn, PubSubGoesOn, ServerGoesOn, ContactsGoOn, allVars
<1>2. ASSUME running = "pub_sub" PROVE PubSubInv'
  <2>1. PubSubActorStep \/ ((MainSleeps \/ MainTells) /\ UNCHANGED pubSubVars) \/ UNCHANGED <<actorVars, pubSubVars>>
    BY <1>2 DEF McNext, Dispatching, Counting, MainGoesOn, PubSubGoesOn, ServerGoesOn, ContactsGoOn, allVars
  <2>2. PubSubInv
    BY <1>2 DEF McInv
  <2>. QED
    BY <2>1, <2>2, PubSubInvStep
<1>3. ASSUME running = "counter" PROVE CounterInv'
  <2>1. [CounterNext]_counterVars
    BY <1>3 DEF McNext, Dispatching, Counting, MainGoesOn, PubSubGoesOn, ServerGoesOn, ContactsGoOn, allVars
  <2>2. CounterInv
    BY <1>3 DEF McInv
  <2>. QED
    BY <2>1, <2>2, CounterStep
<1>4. ASSUME running = "server" PROVE ServerInv'
  <2>1. ServerActorStep \/ ((MainSleeps \/ MainTells) /\ UNCHANGED serverVars) \/ UNCHANGED <<actorVars, serverVars>>
    BY <1>4 DEF McNext, Dispatching, Counting, MainGoesOn, PubSubGoesOn, ServerGoesOn, ContactsGoOn, allVars
  <2>2. ServerInv
    BY <1>4 DEF McInv
  <2>. QED
    BY <2>1, <2>2, ServerInvStep
<1>5. ASSUME running = "contacts" PROVE ContactsInv'
  <2>1. ContactActorStep \/ ((MainSleeps \/ MainTells) /\ UNCHANGED contactVars) \/ UNCHANGED <<actorVars, contactVars>>
    BY <1>5 DEF McNext, Dispatching, Counting, MainGoesOn, PubSubGoesOn, ServerGoesOn, ContactsGoOn, allVars
  <2>2. ContactsInv
    BY <1>5 DEF McInv
  <2>. QED
    BY <2>1, <2>2, ContactsInvStep
<1>6. running \in {"dispatcher", "pub_sub", "counter", "server", "contacts"}
  BY DEF McInv
<1>. QED
  BY <1>1, <1>2, <1>3, <1>4, <1>5, <1>6 DEF McInv

\* What the actors of the labs and of the broker stash is neither lost nor taken out of order,
\* whatever the order in which messages to different actors are handled: see PubSub and AkkaLabs.
THEOREM StashesAreKept == McSpec => []StashesKept
<1>1. McInv => StashesKept
  BY PubSubMeans, CounterMeans, ServerMeans, ContactsMean DEF McInv, StashesKept
<1>. QED
  BY <1>1, McInitially, McStep, PTL DEF McSpec
==============================================================================
