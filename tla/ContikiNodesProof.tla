---------------------------- MODULE ContikiNodesProof --------------------------
(***************************************************************************)
(* The Contiki-NG programs of MCContikiNodes keep what their properties    *)
(* say, for every value of the constants: an invariant for each program,   *)
(* kept by its own steps.                                                  *)
(***************************************************************************)
EXTENDS MCContikiNodes, SequenceTheorems, FiniteSetTheorems, TLAPS

(***************************************************************************)
(* The bounded queue of es1.c.                                             *)
(***************************************************************************)

QueueInv == queue \in Seq(Elements) /\ added \in Elements /\ OrderKept

LEMMA RemainderRange ==
  ASSUME NEW m \in Int, m > 0, NEW k \in Int
  PROVE  k % m \in 0 .. m - 1
  BY SMT

LEMMA AfterIsElement == ASSUME NEW e \in Elements PROVE After(e) \in Elements
<1>1. QueueSize + 1 \in Int /\ QueueSize + 1 > 0 /\ e + 1 \in Int /\ (QueueSize + 1) - 1 = QueueSize
  BY QueueAssumption DEF Elements
<1>2. (e + 1) % (QueueSize + 1) \in 0 .. QueueSize
  BY <1>1, RemainderRange
<1>. QED
  BY <1>2 DEF After, Elements

LEMMA QueueInitially == QueueInit => QueueInv
  BY QueueAssumption DEF QueueInit, QueueInv, OrderKept, Elements

LEMMA QueueStep == QueueInv /\ [QueueNext]_queueVars => QueueInv'
<1> SUFFICES ASSUME QueueInv, [QueueNext]_queueVars PROVE QueueInv'
  OBVIOUS
<1>1. CASE UNCHANGED <<queue, added>>
  BY <1>1 DEF QueueInv, OrderKept
<1>2. CASE producer /\ ~ UNCHANGED <<queue, added>>
  <2>1. HasRoom /\ queue' = Append(queue, added) /\ added' = After(added)
    BY <1>2 DEF producer
  <2>2. added' \in Elements /\ queue' \in Seq(Elements)
    BY <2>1, AfterIsElement, AppendProperties DEF QueueInv
  <2>3. Len(queue) \in Nat /\ Len(queue') = Len(queue) + 1 /\ Len(queue') <= QueueSize
    BY <2>1, QueueAssumption DEF QueueInv, HasRoom
  <2>4. \A i \in 1 .. Len(queue) : queue'[i] = queue[i]
    BY <2>1 DEF QueueInv
  <2>5. queue'[Len(queue')] = added
    BY <2>1, <2>3 DEF QueueInv
  <2>6. \A i \in DOMAIN queue' : After(queue'[i]) = IF i = Len(queue') THEN added' ELSE queue'[i + 1]
    <3> SUFFICES ASSUME NEW i \in DOMAIN queue'
                 PROVE  After(queue'[i]) = IF i = Len(queue') THEN added' ELSE queue'[i + 1]
      OBVIOUS
    <3>1. i \in 1 .. Len(queue')
      BY <2>2
    <3>2. CASE i = Len(queue')
      BY <3>2, <2>5, <2>1
    <3>3. CASE i # Len(queue')
      <4>1. i \in 1 .. Len(queue) /\ i \in DOMAIN queue
        BY <3>1, <3>3, <2>3 DEF QueueInv
      <4>2. After(queue[i]) = IF i = Len(queue) THEN added ELSE queue[i + 1]
        BY <4>1 DEF QueueInv, OrderKept
      <4>3. CASE i = Len(queue)
        BY <4>1, <4>2, <4>3, <2>3, <2>4, <2>5, <3>3
      <4>4. CASE i # Len(queue)
        <5>1. i + 1 \in 1 .. Len(queue)
          BY <4>1, <4>4, <2>3, SMTT(60)
        <5>. QED
          BY <4>1, <4>2, <4>4, <5>1, <2>4, <3>3
      <4>. QED
        BY <4>3, <4>4
    <3>. QED
      BY <3>2, <3>3
  <2>. QED
    BY <2>2, <2>3, <2>6 DEF QueueInv, OrderKept
<1>3. CASE consumer /\ ~ UNCHANGED <<queue, added>>
  <2>1. queue # <<>> /\ queue' = Tail(queue) /\ added' = added
    BY <1>3 DEF consumer
  <2>2. /\ queue' \in Seq(Elements) /\ Len(queue) \in Nat /\ Len(queue') = Len(queue) - 1
        /\ \A i \in 1 .. Len(queue') : queue'[i] = queue[i + 1]
    BY <2>1, HeadTailProperties DEF QueueInv
  <2>3. Len(queue) <= QueueSize /\ \A i \in 1 .. Len(queue) :
           After(queue[i]) = IF i = Len(queue) THEN added ELSE queue[i + 1]
    BY SMTT(60) DEF QueueInv, OrderKept
  <2>4. \A i \in 1 .. Len(queue') : After(queue'[i]) = IF i = Len(queue') THEN added' ELSE queue'[i + 1]
    <3> TAKE i \in 1 .. Len(queue')
    <3>1. i + 1 \in 1 .. Len(queue) /\ (i = Len(queue') <=> i + 1 = Len(queue))
      BY <2>2
    <3>2. After(queue[i + 1]) = IF i + 1 = Len(queue) THEN added ELSE queue[i + 1 + 1]
      BY <3>1, <2>3
    <3>3. i # Len(queue') => i + 1 \in 1 .. Len(queue')
      BY <2>2
    <3>. QED
      BY <2>1, <2>2, <3>1, <3>2, <3>3
  <2>5. DOMAIN queue' = 1 .. Len(queue') /\ Len(queue') <= QueueSize
    BY <2>2, <2>3, QueueAssumption, SMTT(60)
  <2>. QED
    BY <2>1, <2>2, <2>4, <2>5 DEF QueueInv, OrderKept
<1>. QED
  BY <1>1, <1>2, <1>3 DEF QueueNext, QueueTimerExpires, queueVars

(***************************************************************************)
(* The count exchange of es3.                                              *)
(***************************************************************************)

\* A timeout that still waits to be handled was counted if anything was under way.
ExchangeInv ==
  /\ count \in Nat /\ received \in {0, 1} /\ early_timeouts \in Nat
  /\ timer_expired \in BOOLEAN
  /\ requests \in Seq(Nat) /\ responses \in Seq(Nat)
  /\ timer_expired => UnderWay <= early_timeouts
  /\ OneExchangeEach /\ InStep

LEMMA WithoutOne ==
  ASSUME NEW s \in Seq(Nat), NEW i \in DOMAIN s
  PROVE  /\ RemoveAt(s, i) \in Seq(Nat)
         /\ Len(RemoveAt(s, i)) = Len(s) - 1
         /\ \A j \in DOMAIN RemoveAt(s, i) : \E k \in DOMAIN s : RemoveAt(s, i)[j] = s[k]
<1> DEFINE a == SubSeq(s, 1, i - 1)
           b == SubSeq(s, i + 1, Len(s))
<1>1. Len(s) \in Nat /\ i \in 1 .. Len(s) /\ DOMAIN s = 1 .. Len(s)
  OBVIOUS
<1>2. a \in Seq(Nat) /\ Len(a) = i - 1 /\ \A j \in 1 .. i - 1 : a[j] = s[j]
  <2>1. \A j \in 1 .. i - 1 : s[j] \in Nat
    BY <1>1
  <2>2. a \in Seq(Nat) /\ (Len(a) = IF 1 <= i - 1 THEN i - 1 - 1 + 1 ELSE 0)
        /\ \A j \in 1 .. i - 1 - 1 + 1 : a[j] = s[1 + j - 1]
    BY <1>1, <2>1, SubSeqProperties
  <2> HIDE DEF a
  <2>3. i \in Nat /\ i >= 1
    BY <1>1
  <2>4. i - 1 - 1 + 1 = i - 1 /\ \A j \in 1 .. i - 1 : 1 + j - 1 = j
    BY <2>3
  <2>5. Len(a) = i - 1
    BY <2>2, <2>3
  <2>. QED
    BY <2>2, <2>4, <2>5
<1>3. b \in Seq(Nat) /\ Len(b) = Len(s) - i /\ \A j \in 1 .. Len(s) - i : b[j] = s[i + j]
  <2>1. i + 1 \in Int /\ Len(s) \in Int /\ \A j \in i + 1 .. Len(s) : s[j] \in Nat
    BY <1>1
  <2>2. b \in Seq(Nat) /\ (Len(b) = IF i + 1 <= Len(s) THEN Len(s) - (i + 1) + 1 ELSE 0)
        /\ \A j \in 1 .. Len(s) - (i + 1) + 1 : b[j] = s[(i + 1) + j - 1]
    BY ONLY <2>1, SubSeqProperties, SMTT(60)
  <2> HIDE DEF b
  <2>3. \A j \in 1 .. Len(s) - i : (i + 1) + j - 1 = i + j
    BY <1>1
  <2>4. Len(b) = Len(s) - i /\ Len(s) - (i + 1) + 1 = Len(s) - i
    BY <1>1, <2>2, SMTT(60)
  <2>. QED
    BY <2>2, <2>3, <2>4
<1> HIDE DEF a, b
<1>4. /\ a \o b \in Seq(Nat) /\ Len(a \o b) = Len(a) + Len(b)
      /\ \A j \in 1 .. Len(a) + Len(b) : (a \o b)[j] = IF j <= Len(a) THEN a[j] ELSE b[j - Len(a)]
  BY <1>2, <1>3, ConcatProperties
<1>5. RemoveAt(s, i) = a \o b
  BY DEF RemoveAt, a, b
<1>6. Len(a) + Len(b) = Len(s) - 1
  BY <1>1, <1>2, <1>3
<1>7. ASSUME NEW j \in 1 .. Len(s) - 1 PROVE \E k \in 1 .. Len(s) : (a \o b)[j] = s[k]
  <2>1. CASE j <= Len(a)
    <3>1. j \in 1 .. i - 1 /\ j \in 1 .. Len(s)
      BY <2>1, <1>1, <1>2
    <3>2. (a \o b)[j] = a[j]
      BY <2>1, <1>4, <1>6
    <3>. QED
      BY <3>1, <3>2, <1>2
  <2>2. CASE ~ (j <= Len(a))
    <3>1. j - Len(a) \in 1 .. Len(s) - i /\ i + (j - Len(a)) \in 1 .. Len(s)
      BY SMTT(60), <2>2, <1>1, <1>2
    <3>2. (a \o b)[j] = b[j - Len(a)]
      BY <2>2, <1>4, <1>6
    <3>. QED
      BY <3>1, <3>2, <1>3
  <2>. QED
    BY <2>1, <2>2
<1>8. DOMAIN (a \o b) = 1 .. Len(s) - 1
  BY <1>4, <1>6
<1>. QED
  BY <1>1, <1>4, <1>5, <1>6, <1>7, <1>8

LEMMA ExchangeInitially == ExchangeInit => ExchangeInv
<1> SUFFICES ASSUME ExchangeInit PROVE ExchangeInv
  OBVIOUS
<1> USE DEF ExchangeInit
<1>1. requests \in Seq(Nat) /\ Len(requests) = 0 /\ DOMAIN requests = {}
  OBVIOUS
<1>2. responses \in Seq(Nat) /\ Len(responses) = 0 /\ DOMAIN responses = {}
  OBVIOUS
<1>3. UnderWay = 0
  BY <1>1, <1>2 DEF UnderWay
<1>4. timer_expired \in BOOLEAN /\ ~ timer_expired
  BY Zenon
<1>. QED
  BY <1>1, <1>2, <1>3, <1>4 DEF ExchangeInv, OneExchangeEach, InStep

LEMMA ExchangeStep == ExchangeInv /\ [ExchangeNext]_exchangeVars => ExchangeInv'
<1> SUFFICES ASSUME ExchangeInv, [ExchangeNext]_exchangeVars PROVE ExchangeInv'
  OBVIOUS
<1> USE DEF ExchangeInv, UnderWay, OneExchangeEach, InStep
<1>0. Len(requests) \in Nat /\ Len(responses) \in Nat
  OBVIOUS
<1>1. CASE UNCHANGED exchangeVars \/ ChangeRoute
  BY <1>1 DEF exchangeVars, ChangeRoute
<1>2. CASE server_udp_rx_callback
  <2>1. PICK i \in DOMAIN requests :
          /\ requests' = RemoveAt(requests, i) /\ responses' = Append(responses, requests[i])
          /\ UNCHANGED <<count, received, client_events, timer_expired, routed, early_timeouts, timeouts>>
    BY <1>2 DEF server_udp_rx_callback
  <2>2. /\ requests' \in Seq(Nat) /\ Len(requests') = Len(requests) - 1
        /\ \A j \in DOMAIN requests' : \E k \in DOMAIN requests : requests'[j] = requests[k]
    BY <2>1, WithoutOne
  <2>3. requests[i] \in Nat
    OBVIOUS
  <2>4. /\ responses' \in Seq(Nat) /\ Len(responses') = Len(responses) + 1
        /\ \A j \in DOMAIN responses' : IF j = Len(responses) + 1 THEN responses'[j] = requests[i]
                                        ELSE j \in DOMAIN responses /\ responses'[j] = responses[j]
    BY <2>1, <2>3, SMTT(60)
  <2>5. ASSUME early_timeouts = 0
        PROVE  /\ \A j \in DOMAIN requests' : requests'[j] = count
               /\ \A j \in DOMAIN responses' : responses'[j] = count
    BY <2>2, <2>4, <2>5
  <2>6. Len(requests') + Len(responses') = Len(requests) + Len(responses)
    BY <1>0, <2>2, <2>4
  <2>. QED
    BY <2>1, <2>2, <2>4, <2>5, <2>6
<1>3. CASE udp_rx_callback
  <2>1. PICK i \in DOMAIN responses :
          /\ responses' = RemoveAt(responses, i) /\ received' = 1
          /\ UNCHANGED <<count, timer_expired, routed, requests, early_timeouts, timeouts>>
    BY <1>3 DEF udp_rx_callback
  <2>2. /\ responses' \in Seq(Nat) /\ Len(responses') = Len(responses) - 1
        /\ \A j \in DOMAIN responses' : \E k \in DOMAIN responses : responses'[j] = responses[k]
    BY <2>1, WithoutOne
  <2>3. InStep'
    BY <2>1, <2>2
  <2>. QED
    BY <1>0, <2>1, <2>2, <2>3
<1>4. CASE udp_client_process
  <2>1. UNCHANGED <<routed, responses, early_timeouts, timeouts>>
    BY <1>4 DEF udp_client_process
  <2>2. CASE UNCHANGED <<count, received, requests>> /\ (timer_expired' = FALSE \/ timer_expired' = timer_expired)
    <3>0. timer_expired \in BOOLEAN
      OBVIOUS
    <3>1. timer_expired' \in BOOLEAN /\ (timer_expired' => timer_expired)
      <4>1. CASE timer_expired' = FALSE
        <5>1. ~ timer_expired' /\ timer_expired' \in BOOLEAN
          BY <4>1, Zenon
        <5>. QED
          BY <5>1, Zenon
      <4>2. CASE timer_expired' = timer_expired
        BY <4>2, <3>0, Zenon
      <4>. QED
        BY <2>2, <4>1, <4>2, Zenon
    <3>2. /\ count' = count /\ received' = received /\ requests' = requests
          /\ responses' = responses /\ early_timeouts' = early_timeouts
      BY <2>1, <2>2
    <3>. QED
      BY <3>1, <3>2
  <2>3. CASE Wakes /\ timer_expired' = FALSE /\ count' = NextCount /\ received' = 0 /\ requests' = Append(requests, count')
    <3>1. count' \in Nat
      BY <2>3 DEF NextCount
    <3>2. requests' \in Seq(Nat) /\ Len(requests') = Len(requests) + 1
      BY <2>3, <3>1
    <3>3. Len(requests') + Len(responses) <= 1 + early_timeouts
      BY <1>0, <2>3, <3>2 DEF Wakes
    <3>4. ASSUME early_timeouts = 0 PROVE requests = <<>> /\ responses = <<>>
      BY <1>0, <2>3, <3>2, <3>3, <3>4
    <3>5. ASSUME early_timeouts = 0
          PROVE (\A j \in DOMAIN requests' : requests'[j] = count') /\ DOMAIN responses' = {}
      BY <2>1, <2>3, <3>1, <3>4, <3>5
    <3>6. early_timeouts' = 0 =>
            /\ \A j \in DOMAIN requests' : requests'[j] = count'
            /\ \A j \in DOMAIN responses' : responses'[j] = count'
      BY <2>1, <3>5
    <3>7. Len(requests') + Len(responses') + received' <= 1 + early_timeouts'
      BY <1>0, <2>1, <2>3, <3>3
    <3>. QED
      BY <2>1, <2>3, <3>1, <3>2, <3>6, <3>7
  <2>. QED
    BY <1>4, <2>2, <2>3 DEF udp_client_process
<1>5. CASE PeriodicExpires
  BY <1>0, <1>5 DEF PeriodicExpires
<1>6. CASE LoseMessage
  <2>1. UNCHANGED <<count, received, client_events, timer_expired, routed, early_timeouts, timeouts>>
    BY <1>6 DEF LoseMessage
  <2>2. CASE \E i \in DOMAIN requests : requests' = RemoveAt(requests, i) /\ UNCHANGED responses
    <3>1. PICK i \in DOMAIN requests : requests' = RemoveAt(requests, i) /\ UNCHANGED responses
      BY <2>2
    <3>2. /\ requests' \in Seq(Nat) /\ Len(requests') = Len(requests) - 1
          /\ \A j \in DOMAIN requests' : \E k \in DOMAIN requests : requests'[j] = requests[k]
      BY <3>1, WithoutOne
    <3>3. InStep'
      BY <2>1, <3>1, <3>2
    <3>. QED
      BY <1>0, <2>1, <3>1, <3>2, <3>3
  <2>3. CASE \E i \in DOMAIN responses : responses' = RemoveAt(responses, i) /\ UNCHANGED requests
    <3>1. PICK i \in DOMAIN responses : responses' = RemoveAt(responses, i) /\ UNCHANGED requests
      BY <2>3
    <3>2. /\ responses' \in Seq(Nat) /\ Len(responses') = Len(responses) - 1
          /\ \A j \in DOMAIN responses' : \E k \in DOMAIN responses : responses'[j] = responses[k]
      BY <3>1, WithoutOne
    <3>3. InStep'
      BY <2>1, <3>1, <3>2
    <3>. QED
      BY <1>0, <2>1, <3>1, <3>2, <3>3
  <2>. QED
    BY <1>6, <2>2, <2>3 DEF LoseMessage
<1>. QED
  BY <1>1, <1>2, <1>3, <1>4, <1>5, <1>6 DEF ExchangeNext

(***************************************************************************)
(* The MQTT clients.                                                       *)
(***************************************************************************)

\* The library's connection is as the state says.
ConnectionFits ==
  conn = CASE mqtt_state = "CONNECTING" -> "connecting"
           [] mqtt_state \in {"CONNECTED", "PUBLISHING"} -> "connected"
           [] OTHER -> "none"

\* The attempts are those since the registration, or the last stable connection.
AttemptsCounted ==
  /\ conf = "quickstart" /\ mqtt_state # "CONFIG_ERROR"
  /\ mqtt_state = "INIT" => tries = 0
  /\ mqtt_state = "ERROR" => tries \in {0, web_RECONNECT_ATTEMPTS}
  /\ mqtt_state = "REGISTERED" => connect_attempt \in 1 .. web_RECONNECT_ATTEMPTS /\ tries = connect_attempt - 1
  /\ mqtt_state \in {"CONNECTING", "CONNECTED", "PUBLISHING", "DISCONNECTED"} =>
       connect_attempt \in 0 .. web_RECONNECT_ATTEMPTS /\ tries = connect_attempt

\* What the cases of the state machine keep.
MachineInv ==
  /\ mqtt_state \in {"INIT", "REGISTERED", "CONNECTING", "CONNECTED", "PUBLISHING", "DISCONNECTED", "CONFIG_ERROR", "ERROR"}
  /\ ConnectionFits /\ SubscribesFirst
  /\ client = "web" => AttemptsCounted
  /\ client = "nrf52dk" /\ mqtt_state = "ERROR" => conf = "no_token"

\* Where the timer alone runs the state machine there is one event of it at most.
OneTimerEvent == client \in {"lab", "demo"} => expired <= 1 /\ (timer # "off" => expired = 0)

MqttInv ==
  /\ client \in {"lab", "demo", "nrf52dk", "client", "web"} /\ expired \in Nat
  /\ early \in BOOLEAN
  /\ MachineInv /\ WakesUp /\ OneTimerEvent /\ BackoffKept

LEMMA MqttInitially == MqttInit => MqttInv
<1> SUFFICES ASSUME MqttInit PROVE MqttInv
  OBVIOUS
<1>1. /\ client \in {"lab", "demo", "nrf52dk", "client", "web"}
      /\ client = "web" => conf = "quickstart"
      /\ mqtt_state = (IF conf = "long" THEN "CONFIG_ERROR" ELSE "INIT")
      /\ timer = (IF conf = "long" THEN "off" ELSE "now")
      /\ conn = "none" /\ expired = 0 /\ tries = 0
  BY DEF MqttInit, lab_config, demo_config, nrf_config, client_config, web_config, Configured
<1>2. early = FALSE
  BY DEF MqttInit, lab_config, demo_config, nrf_config, client_config, web_config, Configured
<1>3. early \in BOOLEAN /\ ~ early
  BY <1>2, Zenon
<1>4. MachineInv
  BY <1>1 DEF MachineInv, ConnectionFits, SubscribesFirst, AttemptsCounted
<1>5. WakesUp /\ OneTimerEvent /\ BackoffKept
  BY <1>1, <1>3 DEF WakesUp, OneTimerEvent, BackoffKept
<1>6. expired \in Nat
  BY <1>1
<1>. QED
  BY <1>1, <1>3, <1>4, <1>5, <1>6, Zenon DEF MqttInv

\* A case of any of the state machines.
AnyCase(s, a) ==
  \/ Refuses(s) \/ Connects(s, a, StartsConnection) \/ Waits(s) \/ Idles(s)
  \/ Publishes(s, TRUE, SendsIfFits) \/ Publishes(s, Registered, SendsIfFits)
  \/ client # "web" /\ BacksOff(s, a, RETRY_FOREVER)
  \/ client = "web" /\ BacksOff(s, a, web_RECONNECT_ATTEMPTS)

\* The machine goes on from its state, or from the registration after an error.
GoesOn(s, a) ==
  \/ s = mqtt_state /\ a = connect_attempt
  \/ s = "REGISTERED" /\ a = 1 /\ mqtt_state = "ERROR"

LEMMA MachineKeeps ==
  ASSUME MachineInv, NEW s, NEW a, GoesOn(s, a), AnyCase(s, a), client' = client, conf' = conf
  PROVE  MachineInv' /\ (timer' # "off" \/ mqtt_state' \in {"ERROR", "CONFIG_ERROR"})
<1> USE DEF MachineInv, ConnectionFits, SubscribesFirst, AttemptsCounted, GoesOn, SetTimer, web_RECONNECT_ATTEMPTS
<1>1. CASE Refuses(s)
  BY <1>1 DEF Refuses
<1>2. CASE Connects(s, a, StartsConnection)
  BY <1>2 DEF Connects, StartsConnection, LooksAgain
<1>3. CASE Waits(s)
  BY <1>3 DEF Waits
<1>4. CASE Idles(s)
  BY <1>4 DEF Idles, machine
<1>5. CASE Publishes(s, TRUE, SendsIfFits)
  BY <1>5 DEF Publishes, mqtt_ready
<1>6. CASE Publishes(s, Registered, SendsIfFits)
  BY <1>6 DEF Publishes, mqtt_ready, Registered
<1>7. CASE client # "web" /\ BacksOff(s, a, RETRY_FOREVER)
  BY <1>7 DEF BacksOff, MayReconnect, mqtt_disconnect, RETRY_FOREVER
<1>8. CASE client = "web" /\ BacksOff(s, a, web_RECONNECT_ATTEMPTS)
  BY <1>8 DEF BacksOff, MayReconnect, mqtt_disconnect, RETRY_FOREVER
<1>. QED
  BY <1>1, <1>2, <1>3, <1>4, <1>5, <1>6, <1>7, <1>8 DEF AnyCase

\* The state machines are made of these cases.
LEMMA CasesOf ==
  ASSUME MachineInv, NEW s, NEW a, GoesOn(s, a)
  PROVE  /\ client = "lab" /\ lab_state_machine(s, a) => AnyCase(s, a)
         /\ client = "demo" /\ demo_state_machine(s, a) => AnyCase(s, a)
         /\ client = "nrf52dk" /\ nrf_state_machine(s, a) => AnyCase(s, a)
         /\ client = "client" /\ client_state_machine(s, a) => AnyCase(s, a)
         /\ client = "web" /\ web_state_machine(s, a) => AnyCase(s, a)
<1>1. client = "lab" /\ lab_state_machine(s, a) => AnyCase(s, a)
  BY DEF lab_state_machine, lab_publish, lab_connect_to_broker, AnyCase
<1>2. client = "demo" /\ demo_state_machine(s, a) => AnyCase(s, a)
  BY DEF demo_state_machine, demo_publish, demo_connect_to_broker, AnyCase
<1>3. client = "nrf52dk" /\ nrf_state_machine(s, a) => AnyCase(s, a)
  BY DEF nrf_state_machine, nrf_publish, nrf_connect_to_broker, AnyCase
<1>4. client = "client" /\ client_state_machine(s, a) => AnyCase(s, a)
  BY DEF client_state_machine, client_publish, client_connect_to_broker, AnyCase
<1>5. ASSUME client = "web", web_state_machine(s, a) PROVE AnyCase(s, a)
  <2>1. ~ web_takes_config(s)
    BY DEF web_takes_config, MachineInv, GoesOn
  <2>2. Connects(s, a, web_connect_to_broker) => Connects(s, a, StartsConnection)
    BY <1>5 DEF Connects, web_connect_to_broker, MachineInv, AttemptsCounted
  <2>. QED
    BY <1>5, <2>1, <2>2 DEF web_state_machine, web_publish, AnyCase
<1>. QED
  BY <1>1, <1>2, <1>3, <1>4, <1>5

\* What a process does with an event: the machine goes on, and what is left of the events.
LEMMA MachineStep ==
  ASSUME MqttInv, NEW s, NEW a, GoesOn(s, a), AnyCase(s, a), UNCHANGED <<client, conf>>,
         expired' \in Nat, early' \in BOOLEAN,
         client \in {"lab", "demo"} => expired' = 0 /\ ~ early'
  PROVE  MqttInv'
<1>1. MachineInv' /\ (timer' # "off" \/ mqtt_state' \in {"ERROR", "CONFIG_ERROR"})
  BY MachineKeeps DEF MqttInv
<1>2. WakesUp'
  BY <1>1 DEF WakesUp
<1>3. OneTimerEvent'
  BY DEF OneTimerEvent
<1>4. BackoffKept'
  BY DEF BackoffKept
<1>. QED
  BY <1>1, <1>2, <1>3, <1>4 DEF MqttInv

\* What does not touch the machine, the timer or its events.
LEMMA MachineStill ==
  ASSUME MqttInv, UNCHANGED <<client, conf, mqtt_state, connect_attempt, conn, timer, expired, tries, subscribed, early>>,
         pressed = "run" => pressed' = "run",
         poll' = poll \/ client \in {"lab", "demo"}
  PROVE  MqttInv'
  BY DEF MqttInv, MachineInv, ConnectionFits, SubscribesFirst, AttemptsCounted, WakesUp, OneTimerEvent, BackoffKept

LEMMA TimerEventStep ==
  ASSUME MqttInv, NEW s, NEW a, GoesOn(s, a), AnyCase(s, a), UNCHANGED <<client, conf>>,
         expired > 0, expired' = expired - 1, early' = (early \/ Hurries)
  PROVE  MqttInv'
<1>1. expired' \in Nat /\ early \in BOOLEAN
  BY DEF MqttInv
<1>2. early' \in BOOLEAN
  BY <1>1, Zenon DEF Hurries
<1>3. ASSUME client \in {"lab", "demo"} PROVE expired' = 0 /\ ~ early'
  <2>1. expired' = 0 /\ timer = "off"
    BY <1>3 DEF MqttInv, OneTimerEvent
  <2>2. ~ Hurries
    BY <2>1 DEF Hurries
  <2>3. ~ early
    BY <1>3 DEF MqttInv, BackoffKept
  <2>. QED
    BY <2>1, <2>2, <2>3, Zenon
<1>. QED
  BY <1>1, <1>2, <1>3, MachineStep

LEMMA MqttStep == MqttInv /\ [MqttNext]_mqttProgVars => MqttInv'
<1> SUFFICES ASSUME MqttInv, [MqttNext]_mqttProgVars PROVE MqttInv'
  OBVIOUS
<1>0. MachineInv /\ early \in BOOLEAN /\ expired \in Nat
  BY DEF MqttInv
<1>1. CASE UNCHANGED mqttProgVars
  BY <1>1, MachineStill DEF mqttProgVars, mqttVars
\* The machine goes on from its own state.
<1>2. ASSUME AnyCase(mqtt_state, connect_attempt), UNCHANGED <<client, conf>>,
             expired > 0, expired' = expired - 1, early' = (early \/ Hurries)
      PROVE  MqttInv'
  <2>1. PICK s, a : s = mqtt_state /\ a = connect_attempt
    OBVIOUS
  <2>2. GoesOn(s, a) /\ AnyCase(s, a)
    BY <1>2, <2>1, Zenon DEF GoesOn
  <2>. QED
    BY <1>2, <2>2, TimerEventStep
<1>3. ASSUME AnyCase(mqtt_state, connect_attempt) \/ (mqtt_state = "ERROR" /\ AnyCase("REGISTERED", 1)),
             UNCHANGED <<client, conf, expired>>, early' \in BOOLEAN, client \notin {"lab", "demo"}
      PROVE  MqttInv'
  <2>1. CASE AnyCase(mqtt_state, connect_attempt)
    <3>1. PICK s, a : s = mqtt_state /\ a = connect_attempt
      OBVIOUS
    <3>2. GoesOn(s, a) /\ AnyCase(s, a)
      BY <2>1, <3>1, Zenon DEF GoesOn
    <3>3. expired' \in Nat
      BY <1>0, <1>3
    <3>. QED
      BY <1>3, <3>2, <3>3, MachineStep
  <2>2. CASE mqtt_state = "ERROR" /\ AnyCase("REGISTERED", 1)
    <3>1. GoesOn("REGISTERED", 1)
      BY <2>2 DEF GoesOn
    <3>2. expired' \in Nat
      BY <1>0, <1>3
    <3>. QED
      BY <1>3, <2>2, <3>1, <3>2, MachineStep
  <2>. QED
    BY <1>3, <2>1, <2>2
<1>4. GoesOn(mqtt_state, connect_attempt) /\ (mqtt_state = "ERROR" => GoesOn("REGISTERED", 1))
  BY DEF GoesOn
<1>5. early' = (early \/ Hurries) => early' \in BOOLEAN
  BY <1>0, Zenon DEF Hurries
<1>6. CASE client = "lab" /\ lab_process /\ UNCHANGED pressed
  <2>1. CASE PollEvent(Dropped)
    <3>1. mqtt_state' = mqtt_state /\ early' = (early \/ Hurries)
      BY <2>1 DEF PollEvent, Dropped, machine
    <3>2. early' = early
      BY <1>0, <3>1, Zenon DEF Hurries
    <3>. QED
      BY <1>6, <2>1, <3>2, MachineStill DEF PollEvent, Dropped, machine
  <2>2. CASE TimerEvent(lab_state_machine(mqtt_state, connect_attempt))
    <3>1. lab_state_machine(mqtt_state, connect_attempt) /\ UNCHANGED <<client, conf>> /\ expired > 0 /\ expired' = expired - 1
          /\ early' = (early \/ Hurries)
      BY <2>2 DEF TimerEvent
    <3>2. AnyCase(mqtt_state, connect_attempt)
      BY <1>0, <1>4, <1>6, <3>1, CasesOf
    <3>. QED
      BY <1>2, <3>1, <3>2
  <2>. QED
    BY <1>6, <2>1, <2>2 DEF lab_process
<1>7. CASE client = "demo" /\ demo_process /\ UNCHANGED pressed
  <2>1. CASE PollEvent(Dropped)
    <3>1. mqtt_state' = mqtt_state /\ early' = (early \/ Hurries)
      BY <2>1 DEF PollEvent, Dropped, machine
    <3>2. early' = early
      BY <1>0, <3>1, Zenon DEF Hurries
    <3>. QED
      BY <1>7, <2>1, <3>2, MachineStill DEF PollEvent, Dropped, machine
  <2>2. CASE TimerEvent(demo_state_machine(mqtt_state, connect_attempt))
    <3>1. demo_state_machine(mqtt_state, connect_attempt) /\ UNCHANGED <<client, conf>> /\ expired > 0 /\ expired' = expired - 1
          /\ early' = (early \/ Hurries)
      BY <2>2 DEF TimerEvent
    <3>2. AnyCase(mqtt_state, connect_attempt)
      BY <1>0, <1>4, <1>7, <3>1, CasesOf
    <3>. QED
      BY <1>2, <3>1, <3>2
  <2>. QED
    BY <1>7, <2>1, <2>2 DEF demo_process
<1>8. CASE client = "client" /\ client_process /\ UNCHANGED pressed
  <2>1. CASE PollEvent(client_state_machine(mqtt_state, connect_attempt))
    <3>1. client_state_machine(mqtt_state, connect_attempt) /\ UNCHANGED <<client, conf, expired>> /\ early' = (early \/ Hurries)
      BY <2>1 DEF PollEvent
    <3>2. AnyCase(mqtt_state, connect_attempt)
      BY <1>0, <1>4, <1>8, <3>1, CasesOf
    <3>. QED
      BY <1>3, <1>5, <1>8, <3>1, <3>2
  <2>2. CASE TimerEvent(client_state_machine(mqtt_state, connect_attempt))
    <3>1. client_state_machine(mqtt_state, connect_attempt) /\ UNCHANGED <<client, conf>> /\ expired > 0 /\ expired' = expired - 1
          /\ early' = (early \/ Hurries)
      BY <2>2 DEF TimerEvent
    <3>2. AnyCase(mqtt_state, connect_attempt)
      BY <1>0, <1>4, <1>8, <3>1, CasesOf
    <3>. QED
      BY <1>2, <3>1, <3>2
  <2>3. CASE ButtonEvent(client_state_machine("REGISTERED", 1), client_state_machine(mqtt_state, connect_attempt))
    <3>1. /\ IF mqtt_state = "ERROR" THEN client_state_machine("REGISTERED", 1)
             ELSE client_state_machine(mqtt_state, connect_attempt)
          /\ UNCHANGED <<client, conf, expired>> /\ early' = early
      BY <2>3 DEF ButtonEvent
    <3>2. AnyCase(mqtt_state, connect_attempt) \/ (mqtt_state = "ERROR" /\ AnyCase("REGISTERED", 1))
      BY <1>0, <1>4, <1>8, <3>1, CasesOf
    <3>. QED
      BY <1>0, <1>3, <1>8, <3>1, <3>2
  <2>. QED
    BY <1>8, <2>1, <2>2, <2>3 DEF client_process
<1>9. CASE client = "web" /\ web_process /\ UNCHANGED pressed
  <2>1. CASE PollEvent(web_state_machine(mqtt_state, connect_attempt))
    <3>1. web_state_machine(mqtt_state, connect_attempt) /\ UNCHANGED <<client, conf, expired>> /\ early' = (early \/ Hurries)
      BY <2>1 DEF PollEvent
    <3>2. AnyCase(mqtt_state, connect_attempt)
      BY <1>0, <1>4, <1>9, <3>1, CasesOf
    <3>. QED
      BY <1>3, <1>5, <1>9, <3>1, <3>2
  <2>2. CASE TimerEvent(web_state_machine(mqtt_state, connect_attempt))
    <3>1. web_state_machine(mqtt_state, connect_attempt) /\ UNCHANGED <<client, conf>> /\ expired > 0 /\ expired' = expired - 1
          /\ early' = (early \/ Hurries)
      BY <2>2 DEF TimerEvent
    <3>2. AnyCase(mqtt_state, connect_attempt)
      BY <1>0, <1>4, <1>9, <3>1, CasesOf
    <3>. QED
      BY <1>2, <3>1, <3>2
  <2>3. CASE ButtonEvent(web_state_machine("REGISTERED", 1), web_state_machine(mqtt_state, connect_attempt))
    <3>1. /\ IF mqtt_state = "ERROR" THEN web_state_machine("REGISTERED", 1)
             ELSE web_state_machine(mqtt_state, connect_attempt)
          /\ UNCHANGED <<client, conf, expired>> /\ early' = early
      BY <2>3 DEF ButtonEvent
    <3>2. AnyCase(mqtt_state, connect_attempt) \/ (mqtt_state = "ERROR" /\ AnyCase("REGISTERED", 1))
      BY <1>0, <1>4, <1>9, <3>1, CasesOf
    <3>. QED
      BY <1>0, <1>3, <1>9, <3>1, <3>2
  <2>. QED
    BY <1>9, <2>1, <2>2, <2>3 DEF web_process
<1>10. CASE client = "nrf52dk" /\ nrf_process
  <2>1. CASE PollEvent(nrf_state_machine(mqtt_state, connect_attempt))
    <3>1. nrf_state_machine(mqtt_state, connect_attempt) /\ UNCHANGED <<client, conf, expired>> /\ early' = (early \/ Hurries)
      BY <2>1 DEF PollEvent
    <3>2. AnyCase(mqtt_state, connect_attempt)
      BY <1>0, <1>4, <1>10, <3>1, CasesOf
    <3>. QED
      BY <1>3, <1>5, <1>10, <3>1, <3>2
  <2>2. CASE TimerEvent(nrf_state_machine(mqtt_state, connect_attempt))
    <3>1. nrf_state_machine(mqtt_state, connect_attempt) /\ UNCHANGED <<client, conf>> /\ expired > 0 /\ expired' = expired - 1
          /\ early' = (early \/ Hurries)
      BY <2>2 DEF TimerEvent
    <3>2. AnyCase(mqtt_state, connect_attempt)
      BY <1>0, <1>4, <1>10, <3>1, CasesOf
    <3>. QED
      BY <1>2, <3>1, <3>2
  <2>3. ASSUME IF mqtt_state = "ERROR" THEN nrf_state_machine("REGISTERED", 1)
               ELSE nrf_state_machine(mqtt_state, connect_attempt),
               UNCHANGED <<client, conf, expired, early>>
        PROVE  MqttInv'
    <3>1. AnyCase(mqtt_state, connect_attempt) \/ (mqtt_state = "ERROR" /\ AnyCase("REGISTERED", 1))
      BY <1>0, <1>4, <1>10, <2>3, CasesOf
    <3>. QED
      BY <1>0, <1>3, <1>10, <2>3, <3>1
  \* Only a client without a token is in the error state, and taken out of it.
  <2>4. ASSUME nrf_takes_out_of_error, UNCHANGED <<client, conf, conn, timer, expired, subscribed, early>>,
               UNCHANGED poll, pressed = "run" => pressed' = "run"
        PROVE  MqttInv'
    <3>1. CASE mqtt_state = "ERROR"
      <4>1. conf = "no_token" /\ mqtt_state' = "REGISTERED"
        BY <1>0, <1>10, <2>4, <3>1 DEF MachineInv, nrf_takes_out_of_error
      <4>. QED
        BY <1>10, <2>4, <3>1, <4>1
        DEF MqttInv, MachineInv, ConnectionFits, SubscribesFirst, WakesUp, OneTimerEvent, BackoffKept
    <3>2. CASE mqtt_state # "ERROR"
      <4>1. UNCHANGED <<mqtt_state, connect_attempt, tries>>
        BY <2>4, <3>2 DEF nrf_takes_out_of_error
      <4>. QED
        BY <2>4, <4>1, MachineStill
    <3>. QED
      BY <3>1, <3>2
  <2>5. CASE nrf_button
    BY <2>3, <2>4, <2>5 DEF nrf_button, ButtonEvent
  <2>. QED
    BY <1>10, <2>1, <2>2, <2>5 DEF nrf_process
\* The library's callback, the timers and the network.
<1>11. ASSUME MQTT_EVENT_CONNECTED, pressed' = pressed PROVE MqttInv'
  <2>1. /\ mqtt_state = "CONNECTING" /\ mqtt_state' = "CONNECTED" /\ conn' = "connected"
        /\ UNCHANGED <<client, connect_attempt, conf, timer, expired, poll, tries, early>>
    BY <1>0, <1>11 DEF MQTT_EVENT_CONNECTED, OnceConnected, MachineInv, ConnectionFits
  <2>. QED
    BY <1>11, <2>1
    DEF MqttInv, MachineInv, ConnectionFits, SubscribesFirst, AttemptsCounted, WakesUp, OneTimerEvent, BackoffKept
<1>12. ASSUME NEW ignoring, ignoring \in {{}, {"NEWCONFIG"}}, MQTT_EVENT_DISCONNECTED(ignoring), pressed' = pressed
       PROVE  MqttInv'
  <2>1. mqtt_state \in {"CONNECTING", "CONNECTED", "PUBLISHING"}
    BY <1>0, <1>12 DEF MQTT_EVENT_DISCONNECTED, MachineInv, ConnectionFits
  <2>2. /\ mqtt_state' = "DISCONNECTED" /\ conn' = "none" /\ poll' = TRUE
        /\ UNCHANGED <<client, connect_attempt, conf, timer, expired, tries, early>>
    BY <1>12, <2>1 DEF MQTT_EVENT_DISCONNECTED
  <2>3. poll'
    BY <2>2, Zenon
  <2>. QED
    BY <1>12, <2>1, <2>2, <2>3
    DEF MqttInv, MachineInv, ConnectionFits, SubscribesFirst, AttemptsCounted, WakesUp, OneTimerEvent, BackoffKept
<1>13. CASE Elsewhere(Callback)
  BY <1>11, <1>12, <1>13
  DEF Elsewhere, Callback, MqttInv, lab_mqtt_event, demo_mqtt_event, nrf_mqtt_event, client_mqtt_event, web_mqtt_event
<1>14. CASE Elsewhere(TimerExpires)
  BY <1>14 DEF Elsewhere, TimerExpires, MqttInv, MachineInv, ConnectionFits, SubscribesFirst, AttemptsCounted, WakesUp, OneTimerEvent, BackoffKept
<1>15. CASE Elsewhere(ConnectionLives \/ Acknowledged \/ Joins \/ Leaves)
  BY <1>15, MachineStill DEF Elsewhere, ConnectionLives, Acknowledged, Joins, Leaves, machine
<1>. QED
  BY <1>1, <1>6, <1>7, <1>8, <1>9, <1>10, <1>13, <1>14, <1>15 DEF MqttNext, Process, Elsewhere, Surroundings

LEMMA MqttKept == MqttInv => WakesUp /\ SubscribesFirst /\ GivesUpInTime /\ BackoffKept
  BY DEF MqttInv, MachineInv, AttemptsCounted, GivesUpInTime, web_RECONNECT_ATTEMPTS

(***************************************************************************)
(* The tests of 6p-packet.                                                 *)
(***************************************************************************)

FrameIs(type) == frame.type = type

\* Nothing is under way, or only the confirmation of test k, of three messages.
Settled(k) ==
  \/ trans = "none" /\ FrameIs("none") /\ test_index.responder = k + 1
  \/ /\ trans = "confirming" /\ FrameIs("confirmation")
     /\ test_index.responder = k /\ k \in DOMAIN test_case /\ test_case[k].steps = 3

\* Test k was asked for, or answered.
Asked(k) ==
  /\ trans = "open" /\ k \in DOMAIN test_case
  /\ \/ FrameIs("request") /\ test_index.responder = k
     \/ FrameIs("response") /\ test_index.responder = IF test_case[k].steps = 2 THEN k + 1 ELSE k

\* Where the process of the initiator is tells which of these.  A test that was not begun,
\* because the confirmation of the one before was under way, is never done.
InStepSf ==
  LET k == test_index.initiator
  IN /\ at = "test" => ~ trans_done /\ Settled(k - 1)
     /\ at = "wait_timer" => ~ trans_done /\ Settled(k)
     /\ at = "wait_done" =>
          /\ trans_done => Settled(k)
          /\ ~ trans_done => Asked(k) \/ Settled(k - 1)

TestSfInv ==
  /\ lost \in Nat /\ trans_done \in BOOLEAN
  /\ at \in {"test", "wait_done", "wait_timer"}
  /\ trans \in {"none", "open", "confirming"}
  /\ test_index \in [initiator : Nat \ {0}, responder : Nat \ {0}]
  /\ frame \in [type : {"none", "request", "response", "confirmation"}, case : Nat]
  /\ lost = 0 => InStepSf

LEMMA TestCases == \A k \in DOMAIN test_case : test_case[k].steps \in {2, 3}
  BY SMTT(60) DEF test_case, ClearCodes, test_add_2_step, test_add_3_step, test_delete_2_step, test_delete_3_step,
     test_relocate_2_step, test_count_2_step, test_list_2_step, test_list_2_step_eol, test_signal_2_step,
     test_clear_2_step

LEMMA TestNumbers == \A k \in Nat \ {0} : k <= Len(test_case) <=> k \in DOMAIN test_case
<1>1. test_case \in Seq({test_case[k] : k \in DOMAIN test_case})
  BY DEF test_case, ClearCodes
<1>. QED
  BY <1>1

LEMMA TestSfInitially == TestSfInit => TestSfInv
<1> SUFFICES ASSUME TestSfInit PROVE TestSfInv
  OBVIOUS
<1>1. trans_done \in BOOLEAN /\ ~ trans_done
  BY Zenon DEF TestSfInit
<1>2. test_index.initiator - 1 + 1 = test_index.responder
  BY DEF TestSfInit
<1>. QED
  BY <1>1, <1>2 DEF TestSfInit, TestSfInv, InStepSf, Settled, FrameIs, NoFrameYet

LEMMA TestSfStep == TestSfInv /\ [TestSfNext]_testVars => TestSfInv'
<1> SUFFICES ASSUME TestSfInv, [TestSfNext]_testVars PROVE TestSfInv'
  OBVIOUS
<1> DEFINE i == test_index.initiator
           r == test_index.responder
<1>0. i \in Nat \ {0} /\ r \in Nat \ {0}
  BY DEF TestSfInv
<1> USE DEF TestSfInv, InStepSf, Settled, Asked, FrameIs, NoFrameYet
<1>1. CASE UNCHANGED testVars
  BY <1>1 DEF testVars
<1>2. CASE RunTest
  BY <1>2, TestNumbers DEF RunTest, More
<1>3. CASE ResponderInput
  BY <1>3, TestNumbers, TestCases, SMTT(60) DEF ResponderInput, More, Case, ResponderMoves, ResponderDoneAt
<1>4. CASE InitiatorInput
  <2>1. /\ frame.type = "response" /\ UNCHANGED <<test_index, at, lost>>
        /\ IF trans = "open"
           THEN /\ trans_done' = TRUE
                /\ IF test_case[i].steps = 3
                   THEN trans' = "confirming" /\ frame' = [type |-> "confirmation", case |-> frame.case]
                   ELSE trans' = "none" /\ frame' = NoFrameYet
           ELSE frame' = NoFrameYet /\ UNCHANGED <<trans_done, trans>>
    BY <1>4 DEF InitiatorInput, Case
  <2>2. CASE trans # "open"
    BY <2>1, <2>2
  <2>3. CASE trans = "open"
    <3>1. trans_done' \in BOOLEAN /\ trans_done'
      BY <2>1, <2>3, Zenon
    <3>2. CASE test_case[i].steps = 3
      BY <2>1, <2>3, <3>1, <3>2, TestCases
    <3>3. CASE test_case[i].steps # 3
      BY <2>1, <2>3, <3>1, <3>3, TestCases
    <3>. QED
      BY <3>2, <3>3
  <2>. QED
    BY <2>2, <2>3
<1>5. CASE LoseFrame
  BY <1>5 DEF LoseFrame
<1>6. CASE TestTimerExpires
  BY <1>6 DEF TestTimerExpires
<1>7. CASE TestTimerEvent
  BY <1>7 DEF TestTimerEvent
<1>8. CASE DoneEvent
  BY <1>8 DEF DoneEvent
<1>. QED
  BY <1>1, <1>2, <1>3, <1>4, <1>5, <1>6, <1>7, <1>8 DEF TestSfNext

LEMMA TestsKeepStep == TestSfInv => TestsInStep
  BY DEF TestSfInv, InStepSf, Settled, Asked, FrameIs, TestsInStep

(***************************************************************************)
(* The readings of the cc26xx demos.                                       *)
(***************************************************************************)

\* The demo without a network switches nothing off.
SensorInv ==
  /\ publish \in [{1, 2} -> BOOLEAN] /\ converted \in [{1, 2} -> {"value", "none"}]
  /\ program = "demo" => publish[1] /\ publish[2]
  /\ OffShowsNothing

LEMMA SensorInitially == SensorInit => SensorInv
<1> SUFFICES ASSUME SensorInit PROVE SensorInv
  OBVIOUS
<1>1. publish = [r \in {1, 2} |-> TRUE] /\ converted = [r \in {1, 2} |-> "none"]
  BY DEF SensorInit
<1>2. publish \in [{1, 2} -> BOOLEAN] /\ publish[1] /\ publish[2]
  BY <1>1
<1>3. converted \in [{1, 2} -> {"value", "none"}] /\ \A r \in {1, 2} : converted[r] = "none"
  BY <1>1
<1>. QED
  BY <1>2, <1>3 DEF SensorInv, OffShowsNothing, Readings

\* Readings that are taken are those published, if what is switched off is to stay so.
LEMMA ReadingsTaken ==
  ASSUME SensorInv, NEW published \in SUBSET {1, 2}, TakesReadings(published),
         UNCHANGED <<program, sensor, publish>>,
         sensor = "opt" \/ program = "demo" \/ published \subseteq Published
  PROVE  SensorInv'
<1>1. PICK failed \in SUBSET published :
        converted' = [r \in {1, 2} |-> IF r \in published \ failed THEN "value" ELSE converted[r]]
  BY DEF TakesReadings
<1>2. converted' \in [{1, 2} -> {"value", "none"}]
  BY <1>1 DEF SensorInv
<1>3. ASSUME NEW r \in Readings, sensor # "opt", ~ publish[r] PROVE converted'[r] = "none"
  <2>1. r \in {1, 2} /\ converted[r] = "none"
    BY <1>3 DEF SensorInv, OffShowsNothing, Readings
  <2>2. r \notin published
    BY <1>3, <2>1 DEF SensorInv, Published
  <2>. QED
    BY <1>1, <2>1, <2>2
<1>. QED
  BY <1>2, <1>3 DEF SensorInv, OffShowsNothing, Readings

LEMMA SensorStep == SensorInv /\ [SensorNext]_sensorVars => SensorInv'
<1> SUFFICES ASSUME SensorInv, [SensorNext]_sensorVars PROVE SensorInv'
  OBVIOUS
<1>1. CASE UNCHANGED <<program, sensor, publish, converted>>
  BY <1>1 DEF SensorInv, OffShowsNothing, Readings
<1>2. Readings \in SUBSET {1, 2} /\ Published \in SUBSET {1, 2}
  BY DEF Readings, Published
<1>3. CASE program = "web" /\ (web_timer \/ web_sensors_event \/ web_button)
  <2>1. UNCHANGED <<program, sensor, publish>>
    BY <1>3 DEF web_timer, web_sensors_event, web_button
  <2>2. \/ UNCHANGED converted \/ TakesReadings(Published)
        \/ sensor = "opt" /\ TakesReadings(Readings)
    BY <1>3 DEF web_timer, web_sensors_event, web_button, init_sensor_readings, get_reading,
       get_batmon_reading, get_bmp_reading, get_tmp_reading, get_hdc_reading, get_light_reading, get_mpu_reading
  <2>. QED
    BY <1>1, <1>2, <2>1, <2>2, ReadingsTaken
<1>4. CASE program = "demo" /\ demo_sensors
  <2>1. UNCHANGED <<program, sensor, publish>>
    BY <1>4 DEF demo_sensors
  <2>2. \/ UNCHANGED converted \/ TakesReadings(Readings)
        \/ converted' = [r \in {1, 2} |-> "value"]
    BY <1>4 DEF demo_sensors, demo_get_reading, demo_get_bmp_reading, demo_get_light_reading,
       demo_get_mpu_reading, demo_get_hdc_reading, demo_get_tmp_reading, get_sync_sensor_readings
  <2>3. CASE converted' = [r \in {1, 2} |-> "value"]
    <3>1. converted' \in [{1, 2} -> {"value", "none"}]
      BY <2>3
    <3>. QED
      BY <1>4, <2>1, <3>1 DEF SensorInv, OffShowsNothing, Readings
  <2>. QED
    BY <1>1, <1>2, <1>4, <2>1, <2>2, <2>3, ReadingsTaken
<1>5. CASE program = "web" /\ sensor_readings_handler
  <2>1. PICK r \in Readings, on \in BOOLEAN :
          /\ publish' = [publish EXCEPT ![r] = on]
          /\ converted' = [converted EXCEPT ![r] = IF on THEN converted[r] ELSE "none"]
    BY <1>5 DEF sensor_readings_handler
  <2>2. r \in {1, 2} /\ UNCHANGED <<program, sensor>>
    BY <1>5 DEF sensor_readings_handler, Readings
  <2>3. publish' \in [{1, 2} -> BOOLEAN] /\ converted' \in [{1, 2} -> {"value", "none"}]
    BY <2>1, <2>2 DEF SensorInv
  <2>4. ASSUME NEW q \in Readings, sensor # "opt", ~ publish'[q] PROVE converted'[q] = "none"
    <3>1. q \in {1, 2}
      BY DEF Readings
    <3>2. CASE q = r
      <4>1. ~ on
        BY <2>1, <2>2, <2>4, <3>2 DEF SensorInv
      <4>. QED
        BY <2>1, <2>2, <3>2, <4>1 DEF SensorInv
    <3>3. CASE q # r
      BY <2>1, <2>2, <2>4, <3>1, <3>3 DEF SensorInv, OffShowsNothing
    <3>. QED
      BY <3>2, <3>3
  <2>. QED
    BY <1>5, <2>2, <2>3, <2>4 DEF SensorInv, OffShowsNothing, Readings
<1>6. CASE program = "web" /\ adc_process
  <2>1. converted' = [r \in {1, 2} |-> IF r \in Published THEN "value" ELSE converted[r]] /\ UNCHANGED <<program, sensor, publish>>
    BY <1>6 DEF adc_process, get_adc_reading
  <2>2. converted' \in [{1, 2} -> {"value", "none"}]
    BY <2>1 DEF SensorInv
  <2>3. ASSUME NEW r \in Readings, sensor # "opt", ~ publish[r] PROVE converted'[r] = "none"
    BY <2>1, <2>3 DEF SensorInv, OffShowsNothing, Readings, Published
  <2>. QED
    BY <1>6, <2>1, <2>2, <2>3 DEF SensorInv, OffShowsNothing, Readings
<1>7. CASE sensors_changed
  BY <1>1, <1>7 DEF sensors_changed
<1>. QED
  BY <1>1, <1>3, <1>4, <1>5, <1>6, <1>7 DEF SensorNext, web_sensors, sensorVars

(***************************************************************************)
(* The very sleepy node.                                                   *)
(***************************************************************************)

\* The MAC, if it is on, will have been on long enough when the lock or the normal mode ends.
WillBeOn ==
  IF mac THEN on_for + (IF state = "VERY_SLEEPY" THEN st_min_mac_on_duration ELSE st_duration) >= Enough
  ELSE state = "VERY_SLEEPY" /\ on_for = Enough /\ st_min_mac_on_duration = 0

Period == Longer(config.interval, config.duration)

\* Where it is in the period: the seconds since the last notification, and those left.
WillNotify ==
  /\ config.mode = "OFF" => since = 0
  /\ CASE state = "NOTIFY_OBSERVERS" ->
            since <= Period + 1 /\ st_duration <= config.duration /\ st_interval <= Period
       [] state = "NORMAL" ->
            /\ since + st_duration <= config.duration /\ since + st_interval <= Period
            /\ config.mode = "ON" => st_duration > 0
       [] OTHER -> since + st_interval <= Period

SleepyTypeOK ==
  /\ config \in [mode : {"OFF", "ON"}, interval : Nat, duration : Nat] /\ config.duration >= DURATION_MIN
  /\ state \in {"NOTIFY_OBSERVERS", "NORMAL", "VERY_SLEEPY"}
  /\ st_duration \in Nat /\ st_interval \in Nat /\ st_min_mac_on_duration \in Nat
  /\ mac \in BOOLEAN /\ new_config \in BOOLEAN
  /\ on_for \in Nat /\ on_for <= Enough /\ since \in Nat

SleepyInv == SleepyTypeOK /\ WillBeOn /\ (~ new_config => WillNotify)

LEMMA Minima ==
  /\ \A m, n \in Nat : Shorter(m, n) \in Nat /\ Shorter(m, n) <= m /\ Shorter(m, n) <= n /\ Shorter(m, n) \in {m, n}
  /\ \A m, n \in Nat : Longer(m, n) \in Nat /\ Longer(m, n) >= m /\ Longer(m, n) >= n /\ Longer(m, n) \in {m, n}
  /\ \A n \in Nat : OneLess(n) = IF n = 0 THEN 0 ELSE n - 1
  BY DEF Shorter, Longer, OneLess

LEMMA SleepyConstants ==
  /\ DURATION_MIN \in Nat /\ INTERVAL_MIN \in Nat /\ KEEP_MAC_ON_MIN_PERIOD \in Nat
  /\ Enough \in Nat /\ Enough <= DURATION_MIN /\ Enough <= KEEP_MAC_ON_MIN_PERIOD
  BY SleepyAssumption, Minima DEF Enough

LEMMA SleepyInitially == SleepyInit => SleepyInv
<1> SUFFICES ASSUME SleepyInit PROVE SleepyInv
  OBVIOUS
<1>1. /\ config.mode = "OFF" /\ config.interval = INTERVAL_MIN /\ config.duration = DURATION_MIN
      /\ config \in [mode : {"OFF", "ON"}, interval : Nat, duration : Nat]
      /\ state = "NOTIFY_OBSERVERS" /\ st_duration = DURATION_MIN /\ st_interval = INTERVAL_MIN
      /\ st_min_mac_on_duration = 0 /\ on_for = 0 /\ since = 0
  BY SleepyConstants DEF SleepyInit
<1>2. mac \in BOOLEAN /\ mac /\ new_config \in BOOLEAN /\ ~ new_config
  BY Zenon DEF SleepyInit
<1>3. Period \in Nat /\ INTERVAL_MIN <= Period
  BY <1>1, SleepyConstants, Minima DEF Period
<1>4. SleepyTypeOK
  BY <1>1, <1>2, SleepyConstants DEF SleepyTypeOK
<1>5. WillBeOn
  BY <1>1, <1>2, SleepyConstants DEF WillBeOn
<1>6. WillNotify
  BY <1>1, <1>3, SleepyConstants DEF WillNotify
<1>. QED
  BY <1>4, <1>5, <1>6 DEF SleepyInv

\* A pass after its event: what the seconds have left of the timers and of the lock.
LEMMA PassKeeps ==
  ASSUME SleepyTypeOK, WillBeOn,
         NEW s \in {"NOTIFY_OBSERVERS", "NORMAL", "VERY_SLEEPY"},
         NEW timers \in [duration : Nat, interval : Nat], NEW lock \in Nat, NEW seconds \in {0, 1},
         pass(s, timers, lock, seconds), new_config' \in BOOLEAN,
         ~ mac => s # "NORMAL" /\ lock = 0,
         mac /\ s = "VERY_SLEEPY" => on_for + seconds + lock >= Enough,
         s # "VERY_SLEEPY" => (mac /\ on_for + seconds + timers.duration >= Enough) \/ timers.duration >= Enough
  PROVE  SleepyTypeOK' /\ WillBeOn'
<1> DEFINE next == switch_mode(s, timers)
           on == Shorter(on_for + seconds, Enough)
<1>1. PICK needed \in BOOLEAN :
        /\ st_min_mac_on_duration' = Locked(lock, needed)
        /\ state' = next.state /\ st_duration' = next.duration /\ st_interval' = next.interval
        /\ mac' = (keep_mac_on(lock, needed) \/ next.state # "VERY_SLEEPY")
        /\ on_for' = IF mac THEN on ELSE IF mac' THEN 0 ELSE on_for
        /\ since' = IF s = "NOTIFY_OBSERVERS" \/ seconds = 0 \/ config.mode = "OFF" THEN 0 ELSE since + seconds
        /\ config' = config
  BY DEF pass
<1>2. /\ config.interval \in Nat /\ config.duration \in Nat /\ config.duration >= Enough
      /\ config.mode \in {"OFF", "ON"} /\ timers.duration \in Nat /\ timers.interval \in Nat
  BY SleepyConstants DEF SleepyTypeOK
<1>3. on \in Nat /\ on <= Enough /\ (on = on_for + seconds \/ on = Enough)
  <2>1. on_for + seconds \in Nat /\ Enough \in Nat
    BY SleepyConstants DEF SleepyTypeOK
  <2>2. \A m, n \in Nat : Shorter(m, n) \in Nat /\ Shorter(m, n) <= n /\ Shorter(m, n) \in {m, n}
    BY Minima
  <2>. QED
    BY <2>1, <2>2
<1>4. /\ next.state \in {"NOTIFY_OBSERVERS", "NORMAL", "VERY_SLEEPY"}
      /\ next.duration \in Nat /\ next.interval \in Nat
      /\ next.state = "VERY_SLEEPY" => s = "VERY_SLEEPY" \/ timers.duration = 0
      /\ next.state # "VERY_SLEEPY" =>
           next.duration = config.duration \/ (s # "VERY_SLEEPY" /\ next.duration = timers.duration)
  BY <1>2 DEF switch_mode, switch_to_normal, switch_to_very_sleepy
<1>5. Locked(lock, needed) \in Nat /\ Locked(lock, needed) >= lock
  BY SleepyConstants DEF Locked
<1>6. keep_mac_on(lock, needed) => lock > 0 \/ Locked(lock, needed) = KEEP_MAC_ON_MIN_PERIOD
  BY DEF keep_mac_on, Locked
<1>7. ~ keep_mac_on(lock, needed) => lock = 0 /\ Locked(lock, needed) = 0
  BY DEF keep_mac_on, Locked
<1> HIDE DEF next, on
<1>8. mac' \in BOOLEAN /\ (mac' <=> keep_mac_on(lock, needed) \/ state' # "VERY_SLEEPY")
  <2>1. keep_mac_on(lock, needed) \in BOOLEAN
    BY DEF keep_mac_on
  <2>2. (keep_mac_on(lock, needed) \/ next.state # "VERY_SLEEPY") \in BOOLEAN
    BY <2>1, Zenon
  <2>. QED
    BY <1>1, <2>1, <2>2, Zenon
<1>9. on_for' \in Nat /\ on_for' <= Enough /\ since' \in Nat
  <2>1. on_for \in Nat /\ on_for <= Enough /\ since \in Nat
    BY DEF SleepyTypeOK
  <2>2. on_for' \in {on, 0, on_for}
    BY <1>1
  <2>3. since' \in {0, since + seconds}
    BY <1>1
  <2>. QED
    BY <1>3, <2>1, <2>2, <2>3, SleepyConstants
<1>10. SleepyTypeOK'
  BY <1>1, <1>4, <1>5, <1>8, <1>9 DEF SleepyTypeOK
<1>11. mac \in BOOLEAN /\ on_for \in Nat
  BY DEF SleepyTypeOK
<1>12. ASSUME ~ mac' PROVE state' = "VERY_SLEEPY" /\ on_for' = Enough /\ st_min_mac_on_duration' = 0
  <2>1. state' = "VERY_SLEEPY" /\ lock = 0 /\ st_min_mac_on_duration' = 0
    BY <1>1, <1>7, <1>8, <1>12
  <2>2. CASE mac
    <3>1. on_for' = on
      BY <1>1, <2>2
    <3>2. s = "VERY_SLEEPY" => on_for + seconds >= Enough
      BY <2>1, <2>2, <1>11
    <3>3. s # "VERY_SLEEPY" => timers.duration = 0
      BY <1>1, <1>4, <2>1
    <3>4. on_for + seconds >= Enough
      BY <2>2, <3>2, <3>3, <1>11, SleepyConstants
    <3>. QED
      BY <1>3, <1>11, <2>1, <3>1, <3>4, SleepyConstants
  <2>3. CASE ~ mac
    BY <1>1, <1>12, <2>1, <2>3 DEF WillBeOn
  <2>. QED
    BY <2>2, <2>3
<1>13. ASSUME mac' PROVE on_for' + (IF state' = "VERY_SLEEPY" THEN st_min_mac_on_duration' ELSE st_duration') >= Enough
  <2>1. on_for' = IF mac THEN on ELSE 0
    BY <1>1, <1>13
  <2>2. CASE state' = "VERY_SLEEPY"
    <3>1. keep_mac_on(lock, needed)
      BY <1>8, <1>13, <2>2
    <3>2. st_min_mac_on_duration' = Locked(lock, needed)
      BY <1>1
    <3>3. CASE s = "VERY_SLEEPY" /\ mac
      BY <1>3, <1>5, <1>11, <2>1, <2>2, <3>2, <3>3, SleepyConstants
    <3>4. CASE ~ mac
      <4>1. st_min_mac_on_duration' = KEEP_MAC_ON_MIN_PERIOD
        BY <1>6, <3>1, <3>2, <3>4
      <4>. QED
        BY <2>1, <2>2, <3>4, <4>1, SleepyConstants
    <3>5. CASE s # "VERY_SLEEPY" /\ mac
      <4>1. timers.duration = 0
        BY <1>1, <1>4, <2>2, <3>5
      <4>2. on_for + seconds >= Enough
        BY <4>1, <3>5, <1>11, SleepyConstants
      <4>3. on = Enough
        BY <4>2, <1>3, <1>11, SleepyConstants
      <4>. QED
        BY <2>1, <2>2, <3>2, <3>5, <4>3, <1>5, SleepyConstants
    <3>. QED
      BY <3>3, <3>4, <3>5, <1>11
  <2>3. CASE state' # "VERY_SLEEPY"
    <3>1. st_duration' = config.duration \/ (s # "VERY_SLEEPY" /\ st_duration' = timers.duration)
      BY <1>1, <1>4, <2>3
    <3>2. CASE st_duration' >= Enough
      BY <2>1, <2>3, <3>2, <1>2, <1>3, <1>4, <1>1, SleepyConstants
    <3>3. CASE ~ (st_duration' >= Enough)
      <4>1. s # "VERY_SLEEPY" /\ st_duration' = timers.duration /\ mac /\ on_for + seconds + timers.duration >= Enough
        BY <3>1, <3>3, <1>2
      <4>. QED
        BY <2>1, <2>3, <4>1, <1>2, <1>3, <1>11, SleepyConstants
    <3>. QED
      BY <3>2, <3>3
  <2>. QED
    BY <2>2, <2>3
<1>. QED
  BY <1>8, <1>10, <1>12, <1>13 DEF WillBeOn

\* The period after a pass in which the seconds are counted.
LEMMA PassNotifies ==
  ASSUME SleepyTypeOK,
         NEW s \in {"NOTIFY_OBSERVERS", "NORMAL", "VERY_SLEEPY"},
         NEW timers \in [duration : Nat, interval : Nat], NEW lock \in Nat, NEW seconds \in {0, 1},
         pass(s, timers, lock, seconds), since' \in Nat,
         config.mode = "OFF" => since' = 0,
         s # "VERY_SLEEPY" => since' + timers.duration <= config.duration,
         timers.interval > 0 => since' + timers.interval <= Period,
         s = "VERY_SLEEPY" => since' <= Period + 1
  PROVE  WillNotify'
<1>1. /\ state' = switch_mode(s, timers).state /\ st_duration' = switch_mode(s, timers).duration
      /\ st_interval' = switch_mode(s, timers).interval /\ config' = config
  BY DEF pass
<1>2. /\ config.interval \in Nat /\ config.duration \in Nat /\ config.mode \in {"OFF", "ON"}
      /\ timers.duration \in Nat /\ timers.interval \in Nat
  BY DEF SleepyTypeOK
<1>3. Period \in Nat /\ config.interval <= Period /\ config.duration <= Period /\ Period' = Period
  BY <1>1, <1>2, Minima DEF Period
<1>4. CASE s = "VERY_SLEEPY" /\ timers.interval = 0
  <2>1. state' = "NOTIFY_OBSERVERS" /\ st_duration' = config.duration /\ st_interval' = config.interval
    BY <1>1, <1>4 DEF switch_mode, switch_to_normal
  <2>. QED
    BY <1>1, <1>2, <1>3, <1>4, <2>1 DEF WillNotify
<1>5. CASE s = "VERY_SLEEPY" /\ timers.interval # 0
  <2>1. state' = "VERY_SLEEPY" /\ st_interval' = timers.interval
    BY <1>1, <1>5 DEF switch_mode
  <2>. QED
    BY <1>1, <1>2, <1>3, <1>5, <2>1 DEF WillNotify
<1>6. CASE s # "VERY_SLEEPY" /\ timers.duration = 0 /\ config.mode = "ON"
  <2>1. state' = "VERY_SLEEPY" /\ st_interval' = timers.interval
    BY <1>1, <1>6 DEF switch_mode, switch_to_very_sleepy
  <2>. QED
    BY <1>1, <1>2, <1>3, <1>6, <2>1 DEF WillNotify
<1>7. CASE s # "VERY_SLEEPY" /\ ~ (timers.duration = 0 /\ config.mode = "ON")
  <2>1. /\ state' = "NORMAL" /\ st_interval' = timers.interval
        /\ st_duration' = IF timers.duration = 0 THEN config.duration ELSE timers.duration
    BY <1>1, <1>7 DEF switch_mode
  <2>. QED
    BY <1>1, <1>2, <1>3, <1>7, <2>1 DEF WillNotify
<1>. QED
  BY <1>4, <1>5, <1>6, <1>7

LEMMA SleepyStep == SleepyInv /\ [SleepyNext]_sleepyVars => SleepyInv'
<1> SUFFICES ASSUME SleepyInv, [SleepyNext]_sleepyVars PROVE SleepyInv'
  OBVIOUS
<1>1. SleepyTypeOK /\ WillBeOn /\ (~ new_config => WillNotify)
  BY DEF SleepyInv
<1>2. /\ config.interval \in Nat /\ config.duration \in Nat /\ config.duration >= Enough
      /\ config.mode \in {"OFF", "ON"} /\ on_for \in Nat /\ since \in Nat
      /\ st_duration \in Nat /\ st_interval \in Nat /\ st_min_mac_on_duration \in Nat
      /\ state \in {"NOTIFY_OBSERVERS", "NORMAL", "VERY_SLEEPY"}
  BY <1>1, SleepyConstants DEF SleepyTypeOK
<1>3. mac \in BOOLEAN /\ new_config \in BOOLEAN
  BY <1>1 DEF SleepyTypeOK
<1>4. Period \in Nat /\ config.interval <= Period /\ config.duration <= Period
  BY <1>2, Minima DEF Period
<1>5. Full \in [duration : Nat, interval : Nat] /\ Full.duration = config.duration /\ Full.interval = config.interval
  BY <1>2 DEF Full
<1>6. ASSUME NEW s \in {"NOTIFY_OBSERVERS", "NORMAL", "VERY_SLEEPY"}, s \in {"NOTIFY_OBSERVERS", state},
             pass(s, Full, st_min_mac_on_duration, 0), new_config' \in BOOLEAN
      PROVE  SleepyInv'
  <2>1. /\ ~ mac => s # "NORMAL" /\ st_min_mac_on_duration = 0
        /\ mac /\ s = "VERY_SLEEPY" => on_for + 0 + st_min_mac_on_duration >= Enough
    BY <1>1, <1>2, <1>6 DEF WillBeOn
  <2>2. SleepyTypeOK' /\ WillBeOn'
    BY <1>1, <1>2, <1>5, <1>6, <2>1, PassKeeps
  <2>3. since' = 0
    BY <1>6 DEF pass
  <2>4. WillNotify'
    BY <1>1, <1>2, <1>4, <1>5, <1>6, <2>3, PassNotifies
  <2>. QED
    BY <2>2, <2>4 DEF SleepyInv
<1>7. CASE UNCHANGED sleepyVars
  BY <1>1, <1>7 DEF sleepyVars, SleepyInv, SleepyTypeOK, WillBeOn, WillNotify, Period
<1>8. CASE conf_post_handler
  <2>1. UNCHANGED <<state, st_duration, st_interval, st_min_mac_on_duration, mac, on_for, since>>
    BY <1>8 DEF conf_post_handler
  <2>2. CASE UNCHANGED <<config, new_config>>
    BY <1>1, <2>1, <2>2 DEF SleepyInv, SleepyTypeOK, WillBeOn, WillNotify, Period
  <2>3. CASE new_config' = TRUE /\ ~ UNCHANGED <<config, new_config>>
    <3>1. PICK mode \in {"none", "OFF", "ON", "bad"}, i \in Intervals \cup {0}, d \in Durations \cup {0} :
            /\ mode # "bad" /\ d \notin 1 .. DURATION_MIN - 1
            /\ config' = [mode     |-> IF mode = "none" THEN config.mode ELSE mode,
                          interval |-> IF i = 0 THEN config.interval ELSE i,
                          duration |-> IF d = 0 THEN config.duration ELSE d]
      BY ZenonT(100), <1>8, <2>3 DEF conf_post_handler
    <3>2. i \in Nat /\ d \in Nat /\ (d = 0 \/ d >= DURATION_MIN)
      BY <3>1, SleepyConstants, SleepyAssumption
    <3>3. config.duration >= DURATION_MIN
      BY <1>1 DEF SleepyTypeOK
    <3>4. config' \in [mode : {"OFF", "ON"}, interval : Nat, duration : Nat] /\ config'.duration >= DURATION_MIN
      BY <1>2, <3>1, <3>2, <3>3
    <3>5. new_config' \in BOOLEAN /\ new_config'
      BY <2>3, Zenon
    <3>. QED
      BY <1>1, <2>1, <3>4, <3>5 DEF SleepyInv, SleepyTypeOK, WillBeOn
  <2>. QED
    BY <1>8, <2>2, <2>3 DEF conf_post_handler
<1>9. CASE button_event
  <2>1. pass("NOTIFY_OBSERVERS", Full, st_min_mac_on_duration, 0) /\ new_config' = new_config
    BY <1>9 DEF button_event
  <2>. QED
    BY <1>3, <1>6, <2>1
<1>10. CASE new_config_event
  <2>1. pass(state, Full, st_min_mac_on_duration, 0) /\ new_config' = FALSE
    BY <1>10 DEF new_config_event
  <2>2. new_config' \in BOOLEAN
    BY <2>1
  <2>. QED
    BY <1>2, <1>6, <2>1, <2>2
<1>11. CASE timer_event
  <2> DEFINE timers == [duration |-> OneLess(st_duration), interval |-> OneLess(st_interval)]
             lock == OneLess(st_min_mac_on_duration)
  <2>1. ~ new_config /\ pass(state, timers, lock, 1) /\ new_config' = new_config
    BY <1>11 DEF timer_event
  <2>2. /\ timers \in [duration : Nat, interval : Nat] /\ lock \in Nat
        /\ timers.duration = (IF st_duration = 0 THEN 0 ELSE st_duration - 1)
        /\ timers.interval = (IF st_interval = 0 THEN 0 ELSE st_interval - 1)
        /\ lock = (IF st_min_mac_on_duration = 0 THEN 0 ELSE st_min_mac_on_duration - 1)
    <3>1. \A n \in Nat : OneLess(n) = IF n = 0 THEN 0 ELSE n - 1
      BY Minima
    <3>2. \A n \in Nat : OneLess(n) \in Nat
      BY <3>1
    <3>. QED
      BY <1>2, <3>1, <3>2
  <2> HIDE DEF timers, lock
  <2>3. /\ ~ mac => state # "NORMAL" /\ lock = 0
        /\ mac /\ state = "VERY_SLEEPY" => on_for + 1 + lock >= Enough
        /\ state # "VERY_SLEEPY" => mac /\ on_for + 1 + timers.duration >= Enough
    BY <1>1, <1>2, <1>3, <2>2, SleepyConstants DEF WillBeOn
  <2>4. SleepyTypeOK' /\ WillBeOn'
    BY <1>1, <1>2, <1>3, <2>1, <2>2, <2>3, PassKeeps
  <2>5. since' = IF state = "NOTIFY_OBSERVERS" \/ config.mode = "OFF" THEN 0 ELSE since + 1
    BY <2>1 DEF pass
  <2>6. WillNotify
    BY <1>1, <2>1
  <2>7. /\ config.mode = "OFF" => since' = 0
        /\ state # "VERY_SLEEPY" => since' + timers.duration <= config.duration
        /\ timers.interval > 0 => since' + timers.interval <= Period
        /\ state = "VERY_SLEEPY" => since' <= Period + 1
    BY <1>2, <1>4, <2>2, <2>5, <2>6 DEF WillNotify
  <2>8. since' \in Nat
    BY <1>2, <2>5
  <2>9. WillNotify'
    BY <1>1, <1>2, <2>1, <2>2, <2>7, <2>8, PassNotifies
  <2>. QED
    BY <2>4, <2>9 DEF SleepyInv
<1>. QED
  BY <1>7, <1>8, <1>9, <1>10, <1>11 DEF SleepyNext

LEMMA SleepyKeepsTime == SleepyInv => OnLongEnough /\ NotifiesInTime
<1> SUFFICES ASSUME SleepyInv PROVE OnLongEnough /\ NotifiesInTime
  OBVIOUS
<1>1. SleepyTypeOK /\ WillBeOn /\ (~ new_config => WillNotify)
  BY DEF SleepyInv
<1>2. OnLongEnough
  BY <1>1 DEF WillBeOn, OnLongEnough
<1>3. Period \in Nat /\ config.duration <= Period /\ since \in Nat /\ st_duration \in Nat /\ st_interval \in Nat
      /\ config.duration \in Nat
  <2>1. config.interval \in Nat /\ config.duration \in Nat
    BY <1>1 DEF SleepyTypeOK
  <2>. QED
    BY <1>1, <2>1, Minima DEF SleepyTypeOK, Period
<1>4. state \in {"NOTIFY_OBSERVERS", "NORMAL", "VERY_SLEEPY"}
  BY <1>1 DEF SleepyTypeOK
<1>5. WillNotify => since <= Period + 1
  BY <1>3, <1>4 DEF WillNotify
<1>. QED
  BY <1>1, <1>2, <1>5 DEF NotifiesInTime, Period

(***************************************************************************)
(* The tokens of the Trickle demo.                                         *)
(***************************************************************************)

\* The numbers go from the first one to the newest, and a token is its number cut to a byte.
Numbers(first) == first .. first + made

TokensFrom(first) ==
  /\ first \in {0, Tokens - 1} /\ made \in 0 .. MaxNewTokens
  /\ token \in [Motes -> Int] /\ number \in [Motes -> Int]
  /\ on_air \in [Motes -> [to : SUBSET Motes, token : Int, number : Int]]
  /\ \A n \in Motes : number[n] \in Numbers(first) /\ token[n] = number[n] % Tokens
  /\ \A n \in Motes : on_air[n].to # {} =>
       /\ on_air[n].number \in Numbers(first)
       /\ on_air[n].token = on_air[n].number % Tokens
       /\ number[n] >= on_air[n].number

TrickleInv == \E first \in {0, Tokens - 1} : TokensFrom(first)

LEMMA HalfOfTokens == MaxNewTokens \in Nat /\ Tokens \in Nat /\ 2 * MaxNewTokens + 2 <= Tokens
<1>1. Tokens \in Nat /\ Tokens > 0 /\ MaxNewTokens \in Nat /\ MaxNewTokens < Tokens \div 2
  BY TrickleAssumption
<1>2. 2 * (Tokens \div 2) <= Tokens /\ Tokens \div 2 \in Int
  BY <1>1
<1>. QED
  BY <1>1, <1>2

LEMMA SmallRemainder ==
  ASSUME NEW m \in Int, m > 0, NEW k \in 0 .. 2 * m - 1
  PROVE  k % m = IF k < m THEN k ELSE k - m
<1>1. CASE k < m
  BY <1>1, SMT
<1>2. CASE k >= m
  <2>1. k - m \in 0 .. m - 1 /\ k = m * 1 + (k - m)
    BY <1>2
  <2>2. k % m \in 0 .. m - 1 /\ k \div m \in Int /\ k = m * (k \div m) + (k % m)
    BY <1>2, SMT
  <2> DEFINE a == k \div m
             b == k % m
  <2>3. b \in 0 .. m - 1 /\ a \in Int /\ k = m * a + b
    BY <2>2
  <2> HIDE DEF a, b
  <2>4. a = 1
    <3>1. CASE a <= 0
      <4>1. m * a <= 0
        BY <3>1, <2>3
      <4>. QED
        BY <4>1, <2>3, <1>2
    <3>2. CASE a >= 2
      <4>1. m * a >= m * 2
        BY <3>2, <2>3
      <4>. QED
        BY <4>1, <2>3
    <3>. QED
      BY <3>1, <3>2, <2>3
  <2>5. b = k - m
    BY <2>3, <2>4
  <2>. QED
    BY <2>5, <1>2 DEF b
<1>. QED
  BY <1>1, <1>2

\* Tokens as near to each other as those of the demo compare like their numbers.
LEMMA NewerIsNewer ==
  ASSUME NEW first \in {0, Tokens - 1}, made \in 0 .. MaxNewTokens,
         NEW a \in Numbers(first), NEW b \in Numbers(first),
         TheirsIsNewer(a % Tokens, b % Tokens)
  PROVE  a <= b
<1> SUFFICES ASSUME a > b PROVE FALSE
  BY DEF Numbers
<1>1. MaxNewTokens \in Nat /\ Tokens \in Nat /\ 2 * MaxNewTokens + 2 <= Tokens
  BY HalfOfTokens
<1>2. Tokens \in Int /\ Tokens > 0 /\ a \in 0 .. 2 * Tokens - 1 /\ b \in 0 .. 2 * Tokens - 1 /\ a - b \in 1 .. MaxNewTokens
  BY <1>1 DEF Numbers
<1>3. a % Tokens = IF a < Tokens THEN a ELSE a - Tokens
  BY <1>2, SmallRemainder
<1>4. b % Tokens = IF b < Tokens THEN b ELSE b - Tokens
  BY <1>2, SmallRemainder
<1>5. ((a % Tokens) - (b % Tokens)) \in {a - b, a - b - Tokens}
  BY <1>2, <1>3, <1>4
<1>6. (a - b) % Tokens = a - b
  <2>1. a - b \in 0 .. 2 * Tokens - 1 /\ a - b < Tokens
    BY <1>1, <1>2
  <2>. QED
    BY <1>2, <2>1, SmallRemainder
<1>7. (a - b - Tokens) % Tokens = a - b
  <2> DEFINE d == a - b
  <2>1. d \in 1 .. Tokens - 1
    BY <1>1, <1>2
  <2> HIDE DEF d
  <2>2. (d - Tokens) % Tokens = d
    BY <1>2, <2>1, SMT
  <2>. QED
    BY <2>2 DEF d
<1>8. ((a % Tokens) - (b % Tokens)) % Tokens = a - b
  BY <1>5, <1>6, <1>7
<1>9. a - b < Tokens \div 2
  BY <1>2, TrickleAssumption
<1>. QED
  BY <1>8, <1>9, <1>2 DEF TheirsIsNewer

OnAirType == on_air \in [Motes -> [to : SUBSET Motes, token : Int, number : Int]]

\* What is on the air is what was there, or nothing.
AirKept ==
  /\ OnAirType'
  /\ \A k \in Motes : on_air'[k].to # {} =>
       on_air[k].to # {} /\ on_air'[k].number = on_air[k].number /\ on_air'[k].token = on_air[k].token

LEMMA ReceivedOnce ==
  ASSUME OnAirType, NEW n \in Motes, NEW m \in Motes, n \in on_air[m].to, OutOfTheAir(n, m)
  PROVE  AirKept
<1> DEFINE rest == on_air[m].to \ {n}
           left == IF rest = {} THEN Nothing ELSE [on_air[m] EXCEPT !.to = rest]
<1>1. on_air' = [on_air EXCEPT ![m] = left]
  BY DEF OutOfTheAir
<1>2. on_air[m] \in [to : SUBSET Motes, token : Int, number : Int]
  BY DEF OnAirType
<1>3. /\ left \in [to : SUBSET Motes, token : Int, number : Int]
      /\ left.to # {} => left.number = on_air[m].number /\ left.token = on_air[m].token
  BY <1>2 DEF Nothing
<1> HIDE DEF left
<1>4. OnAirType'
  BY <1>1, <1>3 DEF OnAirType
<1>5. \A k \in Motes : on_air'[k] = IF k = m THEN left ELSE on_air[k]
  BY <1>1 DEF OnAirType
<1>. QED
  BY <1>3, <1>4, <1>5 DEF AirKept

LEMMA TrickleInitially == TrickleInit => TrickleInv
<1> SUFFICES ASSUME TrickleInit PROVE TrickleInv
  OBVIOUS
<1>1. PICK first \in {0, Tokens - 1} :
        number = [n \in Motes |-> first] /\ token = [n \in Motes |-> first]
  BY DEF TrickleInit
<1>2. made = 0 /\ on_air = [n \in Motes |-> Nothing]
  BY DEF TrickleInit
<1>3. MaxNewTokens \in Nat /\ Tokens \in Nat /\ Tokens > 0
  BY TrickleAssumption
<1>4. first \in 0 .. Tokens - 1 /\ first % Tokens = first
  <2>1. first \in 0 .. Tokens - 1
    BY <1>3
  <2>. QED
    BY <2>1, <1>3, SMT
<1>5. first \in Numbers(first) /\ first \in Int
  BY <1>2, <1>4 DEF Numbers
<1>6. TokensFrom(first)
  BY <1>1, <1>2, <1>3, <1>4, <1>5 DEF TokensFrom, Nothing
<1>. QED
  BY <1>1, <1>6 DEF TrickleInv

LEMMA TrickleStep == TrickleInv /\ [TrickleNext]_trickleVars => TrickleInv'
<1> SUFFICES ASSUME TrickleInv, [TrickleNext]_trickleVars PROVE TrickleInv'
  OBVIOUS
<1>1. PICK first \in {0, Tokens - 1} : TokensFrom(first)
  BY DEF TrickleInv
<1>2. MaxNewTokens \in Nat /\ Tokens \in Nat /\ Tokens > 0
  BY TrickleAssumption
<1>3. /\ token \in [Motes -> Int] /\ number \in [Motes -> Int] /\ made \in 0 .. MaxNewTokens
      /\ OnAirType
      /\ \A n \in Motes : number[n] \in Numbers(first) /\ token[n] = number[n] % Tokens
  BY <1>1 DEF TokensFrom, OnAirType
<1>4. ASSUME NEW k \in Motes, on_air[k].to # {}
      PROVE  /\ on_air[k].number \in Numbers(first)
             /\ on_air[k].token = on_air[k].number % Tokens
             /\ number[k] >= on_air[k].number
  BY <1>1, <1>4 DEF TokensFrom
\* It is enough that the tokens stay, or the air.
<1>5. ASSUME UNCHANGED <<token, number, made>>, AirKept PROVE TokensFrom(first)'
  <2>1. \A n \in Motes : number'[n] \in Numbers(first)' /\ token'[n] = number'[n] % Tokens
    BY <1>3, <1>5 DEF Numbers
  <2>2. ASSUME NEW k \in Motes, on_air'[k].to # {}
        PROVE  /\ on_air'[k].number \in Numbers(first)'
               /\ on_air'[k].token = on_air'[k].number % Tokens
               /\ number'[k] >= on_air'[k].number
    <3>1. on_air[k].to # {} /\ on_air'[k].number = on_air[k].number /\ on_air'[k].token = on_air[k].token
      BY <1>5, <2>2 DEF AirKept
    <3>. QED
      BY <3>1, <1>4, <1>5 DEF Numbers
  <2>. QED
    BY <1>3, <1>5, <2>1, <2>2 DEF TokensFrom, AirKept, OnAirType
<1>6. CASE UNCHANGED <<token, on_air, number, made>>
  <2>1. AirKept
    BY <1>3, <1>6 DEF AirKept, OnAirType
  <2>. QED
    BY <1>5, <1>6, <2>1 DEF TrickleInv
<1>7. ASSUME NEW n \in Motes, trickle_tx(n), ~ (heard[n] >= REDUNDANCY_CONST) PROVE TokensFrom(first)'
  <2> DEFINE said == [to |-> Hears[n], token |-> token[n], number |-> number[n]]
  <2>1. on_air' = [on_air EXCEPT ![n] = said] /\ UNCHANGED <<token, number, made>>
    BY <1>7 DEF trickle_tx
  <2>2. said \in [to : SUBSET Motes, token : Int, number : Int]
    BY <1>3, TrickleAssumption
  <2>3. said.token = token[n] /\ said.number = number[n]
    OBVIOUS
  <2> HIDE DEF said
  <2>4. OnAirType' /\ \A k \in Motes : on_air'[k] = IF k = n THEN said ELSE on_air[k]
    BY <1>3, <2>1, <2>2 DEF OnAirType
  <2>. QED
    <3>1. \A k \in Motes : number'[k] \in Numbers(first)' /\ token'[k] = number'[k] % Tokens
      BY <1>3, <2>1 DEF Numbers
    <3>2. ASSUME NEW k \in Motes, on_air'[k].to # {}
          PROVE  /\ on_air'[k].number \in Numbers(first)'
                 /\ on_air'[k].token = on_air'[k].number % Tokens
                 /\ number'[k] >= on_air'[k].number
      <4>1. CASE k = n
        <5>1. on_air'[k].number = number[k] /\ on_air'[k].token = token[k]
          BY <4>1, <2>3, <2>4
        <5>2. number[k] \in Int
          BY <1>3
        <5>. QED
          BY <1>3, <2>1, <5>1, <5>2, <3>1
      <4>2. CASE k # n
        <5>1. on_air'[k] = on_air[k]
          BY <4>2, <2>4
        <5>. QED
          BY <1>4, <3>2, <5>1, <2>1 DEF Numbers
      <4>. QED
        BY <4>1, <4>2
    <3>3. token' \in [Motes -> Int] /\ number' \in [Motes -> Int] /\ made' \in 0 .. MaxNewTokens
      BY <1>3, <2>1
    <3>. QED
      BY <2>4, <3>1, <3>2, <3>3 DEF TokensFrom, OnAirType
<1>8. ASSUME NEW n \in Motes, NEW m \in Motes, tcpip_handler(n, m) PROVE TokensFrom(first)'
  <2>1. n \in on_air[m].to /\ OutOfTheAir(n, m) /\ UNCHANGED made
    BY <1>8 DEF tcpip_handler
  <2>2. AirKept
    BY <1>3, <2>1, ReceivedOnce
  <2>3. CASE UNCHANGED <<token, number>>
    BY <1>5, <2>1, <2>2, <2>3
  <2>4. CASE TheirsIsNewer(token[n], on_air[m].token) /\ Takes(n, on_air[m])
    <3>1. on_air[m].to # {}
      BY <2>1
    <3>2. /\ on_air[m].number \in Numbers(first) /\ on_air[m].token = on_air[m].number % Tokens
          /\ number[n] \in Numbers(first) /\ token[n] = number[n] % Tokens
      BY <1>3, <1>4, <3>1
    <3>3. TheirsIsNewer(number[n] % Tokens, on_air[m].number % Tokens)
      BY <2>4, <3>2
    <3>4. number[n] <= on_air[m].number
      BY <1>3, <3>2, <3>3, NewerIsNewer
    <3>5. on_air[m].number \in Int /\ on_air[m].token \in Int
      BY <1>3 DEF OnAirType
    <3>6. /\ token' \in [Motes -> Int] /\ number' \in [Motes -> Int]
          /\ \A k \in Motes : /\ token'[k] = IF k = n THEN on_air[m].token ELSE token[k]
                              /\ number'[k] = IF k = n THEN on_air[m].number ELSE number[k]
      BY <1>3, <2>4, <3>5 DEF Takes
    <3>7. Numbers(first)' = Numbers(first) /\ made' = made
      BY <2>1 DEF Numbers
    <3>8. \A k \in Motes : number'[k] \in Numbers(first)' /\ token'[k] = number'[k] % Tokens
      BY <1>3, <3>2, <3>6, <3>7
    <3>9. ASSUME NEW k \in Motes, on_air'[k].to # {}
          PROVE  /\ on_air'[k].number \in Numbers(first)'
                 /\ on_air'[k].token = on_air'[k].number % Tokens
                 /\ number'[k] >= on_air'[k].number
      <4>1. on_air[k].to # {} /\ on_air'[k].number = on_air[k].number /\ on_air'[k].token = on_air[k].token
        BY <2>2, <3>9 DEF AirKept
      <4>2. /\ on_air[k].number \in Numbers(first) /\ on_air[k].token = on_air[k].number % Tokens
            /\ number[k] >= on_air[k].number
        BY <1>4, <4>1
      <4>3. number[k] \in Int /\ on_air[k].number \in Int
        BY <1>3 DEF OnAirType
      <4>4. number'[k] >= number[k]
        BY <3>4, <3>6, <4>3
      <4>5. number'[k] \in Int
        BY <3>6
      <4>6. number'[k] >= on_air[k].number
        BY <4>2, <4>3, <4>4, <4>5
      <4>. QED
        BY <4>1, <4>2, <4>6, <3>7
    <3>. QED
      BY <1>3, <2>2, <3>6, <3>7, <3>8, <3>9 DEF TokensFrom, AirKept, OnAirType
  <2>. QED
    BY <1>8, <2>3, <2>4 DEF tcpip_handler
<1>9. ASSUME NEW n \in Motes, NewToken(n) PROVE TokensFrom(first)'
  <2>1. /\ made < MaxNewTokens /\ made' = made + 1 /\ on_air' = on_air
        /\ token' = [token EXCEPT ![n] = (@ + 1) % Tokens] /\ number' = [number EXCEPT ![n] = @ + 1]
    BY <1>9 DEF NewToken
  <2>2. made' \in 0 .. MaxNewTokens /\ \A k \in Numbers(first) : k \in Numbers(first)' /\ k + 1 \in Numbers(first)'
    BY <1>2, <1>3, <2>1 DEF Numbers
  <2>3. number[n] \in Int /\ token[n] \in Int /\ token[n] = number[n] % Tokens
    BY <1>3
  <2>4. (token[n] + 1) % Tokens = (number[n] + 1) % Tokens /\ (token[n] + 1) % Tokens \in Int
    <3> DEFINE Cut(k) == k % Tokens
    <3>1. number[n] \in 0 .. 2 * Tokens - 2
      BY <1>3, <2>1, HalfOfTokens DEF Numbers
    <3>2. ASSUME NEW k \in Int, k >= 0, k <= 2 * Tokens - 1
          PROVE  Cut(k) = IF k < Tokens THEN k ELSE k - Tokens
      <4>1. k \in 0 .. 2 * Tokens - 1 /\ Tokens \in Int /\ Tokens > 0
        BY <1>2, <3>2
      <4>. QED
        BY <4>1, SmallRemainder
    <3>3. token[n] = Cut(number[n])
      BY <2>3
    <3> HIDE DEF Cut
    <3>4. /\ number[n] \in Int /\ number[n] >= 0 /\ number[n] <= 2 * Tokens - 1
          /\ number[n] + 1 \in Int /\ number[n] + 1 >= 0 /\ number[n] + 1 <= 2 * Tokens - 1
      BY <3>1, <1>2
    <3>5. token[n] = IF number[n] < Tokens THEN number[n] ELSE number[n] - Tokens
      BY <3>2, <3>3, <3>4
    <3>6. token[n] + 1 \in Int /\ token[n] + 1 >= 0 /\ token[n] + 1 <= 2 * Tokens - 1
      BY <3>4, <3>5, <1>2
    <3>7. Cut(token[n] + 1) = Cut(number[n] + 1) /\ Cut(token[n] + 1) \in Int
      <4>1. PICK a \in Int : a = token[n] + 1
        BY <3>6
      <4>2. PICK b \in Int : b = number[n] + 1
        BY <3>4
      <4>3. (Cut(a) = IF a < Tokens THEN a ELSE a - Tokens) /\ (Cut(b) = IF b < Tokens THEN b ELSE b - Tokens)
        BY <4>1, <4>2, <3>2, <3>4, <3>6
      <4>4. Cut(a) = Cut(b) /\ Cut(a) \in Int
        BY <4>1, <4>2, <4>3, <3>1, <3>5, <1>2
      <4>. QED
        BY <4>1, <4>2, <4>4, Zenon
    <3>. QED
      BY <3>7 DEF Cut
  <2>5. /\ token' \in [Motes -> Int] /\ number' \in [Motes -> Int]
        /\ \A k \in Motes : /\ token'[k] = IF k = n THEN (token[n] + 1) % Tokens ELSE token[k]
                            /\ number'[k] = IF k = n THEN number[n] + 1 ELSE number[k]
    BY <1>3, <2>1, <2>3, <2>4
  <2>6. \A k \in Motes : number'[k] \in Numbers(first)' /\ token'[k] = number'[k] % Tokens
    BY <1>3, <2>2, <2>4, <2>5
  <2>7. ASSUME NEW k \in Motes, on_air'[k].to # {}
        PROVE  /\ on_air'[k].number \in Numbers(first)'
               /\ on_air'[k].token = on_air'[k].number % Tokens
               /\ number'[k] >= on_air'[k].number
    <3>1. /\ on_air[k].number \in Numbers(first) /\ on_air[k].token = on_air[k].number % Tokens
          /\ number[k] >= on_air[k].number
      BY <1>4, <2>1, <2>7
    <3>2. number[k] \in Int /\ on_air[k].number \in Int
      BY <1>3 DEF OnAirType
    <3>3. number'[k] >= on_air[k].number
      BY <2>5, <3>1, <3>2
    <3>. QED
      BY <2>1, <2>2, <3>1, <3>3
  <2>. QED
    BY <1>3, <2>1, <2>2, <2>5, <2>6, <2>7 DEF TokensFrom, OnAirType
<1>10. ASSUME NEW n \in Motes, NEW m \in Motes, RadioLoses(n, m) PROVE TokensFrom(first)'
  <2>1. n \in on_air[m].to /\ OutOfTheAir(n, m) /\ UNCHANGED <<token, number, made>>
    BY <1>10 DEF RadioLoses
  <2>2. AirKept
    BY <1>3, <2>1, ReceivedOnce
  <2>. QED
    BY <1>5, <2>1, <2>2
<1>11. TokensFrom(first)' => TrickleInv'
  BY DEF TrickleInv
<1>12. CASE TrickleNext
  <2>1. PICK n \in Motes :
          \/ TrickleGoesOn(n) \/ NewToken(n)
          \/ \E m \in Motes : tcpip_handler(n, m) \/ RadioLoses(n, m)
    BY <1>12 DEF TrickleNext
  <2>2. CASE IntervalEnds(n) \/ (trickle_tx(n) /\ heard[n] >= REDUNDANCY_CONST)
    BY <2>2, <1>6 DEF IntervalEnds, trickle_tx
  <2>3. CASE trickle_tx(n) /\ ~ (heard[n] >= REDUNDANCY_CONST)
    <3>1. TokensFrom(first)'
      BY <2>3, <1>7
    <3>. QED
      BY <3>1, <1>11
  <2>. QED
    BY <2>1, <2>2, <2>3, <1>8, <1>9, <1>10, <1>11 DEF TrickleGoesOn
<1>. QED
  BY <1>6, <1>12 DEF trickleVars

LEMMA TokensKept == TrickleInv => NothingTakenBack
  BY DEF TrickleInv, TokensFrom, NothingTakenBack

USE ClientAssumption

(***************************************************************************)
(* The temperature client and server: what every slot holds.               *)
(***************************************************************************)

Messages == (SUBSET (1 .. MaxRounds)) \ {{}}

\* How many temperatures were saved in the ring after the one in slot i.
Age(i) == IF i < next_reading THEN next_reading - 1 - i ELSE next_reading - 1 - i + MAX_READINGS

\* In an outage that began in round s the ring holds its latest temperatures.
OutageSince(s) ==
  /\ s \in 1 .. round
  /\ s .. round \subseteq offline
  /\ \A i \in Slots : readings[i] = IF round - Age(i) >= s THEN round - Age(i) ELSE 0

Ring == IF disconnected THEN \E s \in 1 .. round : OutageSince(s) ELSE readings = Empty

\* A round in which the server was in reach came soon enough after r.
Reached(r) == \E q \in r .. r + MAX_READINGS : q <= round /\ q \notin offline

Sent == UNION {sent[k] : k \in 1 .. Len(sent)}

\* Only the temperature of this round may be yet to send, or in the ring.
InTime ==
  /\ \A k \in 1 .. Len(sent) : \A r \in sent[k] : r <= round
  /\ disconnected \/ sleeping => \A k \in 1 .. Len(sent) : \A r \in sent[k] : r < round
  /\ sleeping => ~ disconnected /\ round >= 1 /\ round \notin offline
  /\ sum \subseteq 1 .. round
  /\ offline \subseteq 1 .. round

ReachedInTime ==
  /\ \A k \in 1 .. Len(sent) : \A r \in sent[k] : Reached(r)
  /\ \A r \in sum : Reached(r)

ClientInv ==
  ClientTypeOK /\ Ring /\ InTime /\ ReachedInTime /\ NothingForgotten /\ SentInOrder

LEMMA ClientInitially == ClientInit => ClientInv
<1> SUFFICES ASSUME ClientInit PROVE ClientInv
  OBVIOUS
<1> USE DEF ClientInit
<1>1. ClientTypeOK
  <2>1. <<>> \in Seq(Messages)
    OBVIOUS
  <2>. QED
    BY <2>1 DEF ClientTypeOK, Empty, Slots, Messages
<1>2. Ring /\ InTime /\ ReachedInTime
  BY DEF Ring, InTime, ReachedInTime
<1>3. NothingForgotten /\ SentInOrder
  BY DEF NothingForgotten, SentInOrder
<1>. QED
  BY <1>1, <1>2, <1>3 DEF ClientInv

\* Appending a message to those that were sent.
LEMMA Appended ==
  ASSUME NEW S, NEW s \in Seq(S), NEW m \in S
  PROVE  /\ Append(s, m) \in Seq(S)
         /\ Len(Append(s, m)) = Len(s) + 1
         /\ \A k \in 1 .. Len(s) : Append(s, m)[k] = s[k]
         /\ Append(s, m)[Len(s) + 1] = m
  OBVIOUS

\* Saving one more makes every other temperature of the ring one older.
LEMMA AgeAdvances ==
  ASSUME next_reading \in Slots, next_reading' = Advance, NEW i \in Slots
  PROVE  /\ Age(i) \in 0 .. MAX_READINGS - 1
         /\ Age(i)' = IF i = next_reading THEN 0 ELSE Age(i) + 1
         /\ Age(i) = MAX_READINGS - 1 <=> i = next_reading
         /\ next_reading' \in Slots
  BY DEF Age, Advance, Slots

\* A message with only the rounds up to now, the latest of them not sent before.
LEMMA SentInOrderStep ==
  ASSUME ClientInv, NEW m \in Messages, sent' = Append(sent, m),
         \E r \in m : \A k \in 1 .. Len(sent) : \A q \in sent[k] : q < r
  PROVE  SentInOrder'
<1>1. /\ Len(sent') = Len(sent) + 1
      /\ \A k \in 1 .. Len(sent) : sent'[k] = sent[k]
      /\ sent'[Len(sent) + 1] = m
      /\ Len(sent) \in Nat
  BY Appended DEF ClientInv, ClientTypeOK, Messages
<1> SUFFICES ASSUME NEW k \in 1 .. Len(sent'), NEW n \in 1 .. Len(sent'), k < n,
                    NEW r \in sent'[k]
             PROVE  \E s \in sent'[n] : r < s
  BY DEF SentInOrder
<1>2. CASE n \in 1 .. Len(sent)
  BY <1>1, <1>2 DEF ClientInv, SentInOrder
<1>3. CASE n = Len(sent) + 1
  BY <1>1, <1>3
<1>. QED
  BY <1>1, <1>2, <1>3

\* What is in the messages stays there.
LEMMA NothingForgottenStep ==
  ASSUME ClientInv, NEW m \in Messages, sent' = Append(sent, m), offline' = offline,
         \/ round' = round + 1
         \/ round' = round /\ round \in m,
         round' = round => Stored' = Stored,
         round' = round + 1 => ~ sleeping /\ (round' \in m \/ sleeping'),
         round' = round + 1 => \A r \in Stored : r \in m \/ r \in Stored'
  PROVE  NothingForgotten'
<1>1. /\ Len(sent') = Len(sent) + 1
      /\ \A k \in 1 .. Len(sent) : sent'[k] = sent[k]
      /\ sent'[Len(sent) + 1] = m
      /\ Len(sent) \in Nat
  BY Appended DEF ClientInv, ClientTypeOK, Messages
<1>2. \A r \in m : \E k \in 1 .. Len(sent') : r \in sent'[k]
  BY <1>1
<1>3. \A r : (\E k \in 1 .. Len(sent) : r \in sent[k]) => \E k \in 1 .. Len(sent') : r \in sent'[k]
  BY <1>1
<1>4. \A r : Overwritten(r)' = Overwritten(r)
  BY DEF Overwritten
<1>5. round \in Nat
  BY DEF ClientInv, ClientTypeOK
<1>6. ASSUME NEW r \in 1 .. round'
      PROVE  \/ \E k \in 1 .. Len(sent') : r \in sent'[k]
             \/ r \in Stored'
             \/ sleeping' /\ r = round'
             \/ Overwritten(r)'
  BY <1>2, <1>3, <1>4, <1>5 DEF ClientInv, NothingForgotten
<1>. QED
  BY <1>6 DEF NothingForgotten

\* The rest of the invariant, of a message that was sent.
LEMMA SentStep ==
  ASSUME ClientInv, NEW m \in Messages, sent' = Append(sent, m), offline' = offline,
         round' \in {round, round + 1}, \A r \in m : r <= round' /\ Reached(r)',
         ~ disconnected',
         sleeping' => round' = round + 1 /\ \A r \in m : r < round',
         sum' \subseteq sum \cup m
  PROVE  InTime' /\ ReachedInTime'
<1>1. /\ Len(sent') = Len(sent) + 1
      /\ \A k \in 1 .. Len(sent) : sent'[k] = sent[k]
      /\ sent'[Len(sent) + 1] = m
      /\ Len(sent) \in Nat /\ round \in Nat
      /\ \A r \in m : r \in Nat /\ r >= 1
  BY Appended DEF ClientInv, ClientTypeOK, Messages
<1>2. \A k \in 1 .. Len(sent') : k \in 1 .. Len(sent) \/ k = Len(sent) + 1
  BY <1>1
<1>3. \A r : Reached(r) => Reached(r)'
  BY <1>1 DEF Reached
<1>4. ReachedInTime'
  BY <1>1, <1>2, <1>3 DEF ReachedInTime, ClientInv
<1>5. \A k \in 1 .. Len(sent) : \A r \in sent[k] : r \in Nat /\ r <= round
  BY DEF ClientInv, ClientTypeOK, InTime
<1>6. offline' \subseteq 1 .. round /\ sum' \subseteq 1 .. round'
  BY <1>1 DEF ClientInv, InTime
<1>7. InTime'
  BY <1>1, <1>2, <1>5, <1>6 DEF InTime
<1>. QED
  BY <1>4, <1>7

LEMMA ReachStep == ASSUME ClientInv, ChangeReach PROVE ClientInv'
<1>1. UNCHANGED <<round, sleeping, disconnected, readings, next_reading, sum, sent, offline>> /\ reachable' \in BOOLEAN
  BY DEF ChangeReach, ClientInv, ClientTypeOK
<1>. QED
  BY <1>1, ZenonT(100) DEF ClientInv, ClientTypeOK, Ring, OutageSince, Age, InTime, ReachedInTime, Reached, NothingForgotten, Stored, Overwritten, SentInOrder

LEMMA SendTemperatureStep == ASSUME ClientInv, SendTemperature PROVE ClientInv'
<1>1. /\ ~ sleeping /\ round < MaxRounds /\ round' = round + 1 /\ ~ disconnected
      /\ sent' = Append(sent, {round + 1})
      /\ UNCHANGED <<reachable, sleeping, disconnected, readings, next_reading, sum, offline>>
  BY DEF SendTemperature, Read
<1>2. round \in Nat /\ {round + 1} \in Messages /\ offline \subseteq 1 .. round
  BY <1>1 DEF ClientInv, ClientTypeOK, Messages, InTime
<1>3. ClientTypeOK'
  <2>1. sent' \in Seq(Messages)
    BY <1>1, <1>2, Appended DEF ClientInv, ClientTypeOK, Messages
  <2>. QED
    BY <1>1, <1>2, <2>1 DEF ClientInv, ClientTypeOK, Messages
<1>4. Ring'
  BY <1>1 DEF ClientInv, Ring
<1>5. \A r \in {round + 1} : r <= round' /\ Reached(r)'
  BY <1>1, <1>2 DEF Reached
<1>6. InTime' /\ ReachedInTime'
  BY <1>1, <1>2, <1>5, SentStep
<1>7. NothingForgotten'
  <2>1. Stored' = Stored
    BY <1>1 DEF Stored
  <2>. QED
    BY <1>1, <1>2, <2>1, NothingForgottenStep
<1>8. SentInOrder'
  <2>1. \A k \in 1 .. Len(sent) : \A q \in sent[k] : q < round + 1
    BY <1>2 DEF ClientInv, InTime, ClientTypeOK
  <2>. QED
    BY <1>1, <1>2, <2>1, SentInOrderStep
<1>. QED
  BY <1>3, <1>4, <1>6, <1>7, <1>8 DEF ClientInv

\* The ring has the temperature of this round, and nothing from before the outage or too old.
LEMMA StoredInOutage ==
  ASSUME ClientInv, disconnected
  PROVE  /\ round \in Stored
         /\ \A r \in Stored : r \in 1 .. round /\ r > round - MAX_READINGS
<1>1. PICK s \in 1 .. round : OutageSince(s)
  BY DEF ClientInv, Ring
<1>2. round \in Nat /\ next_reading \in Slots
  BY DEF ClientInv, ClientTypeOK
<1> DEFINE last == IF next_reading = 0 THEN MAX_READINGS - 1 ELSE next_reading - 1
<1>3. last \in Slots /\ Age(last) = 0
  BY <1>2 DEF Age, Slots
<1>4. readings[last] = round
  BY <1>1, <1>2, <1>3 DEF OutageSince
<1>5. \A i \in Slots : Age(i) \in 0 .. MAX_READINGS - 1
  BY <1>2 DEF Age, Slots
<1>6. \A i \in Slots : readings[i] # 0 => readings[i] \in 1 .. round /\ readings[i] > round - MAX_READINGS
  BY <1>1, <1>2, <1>5 DEF OutageSince
<1>. QED
  BY <1>1, <1>2, <1>3, <1>4, <1>6 DEF Stored

LEMMA SendAverageStep == ASSUME ClientInv, SendAverage PROVE ClientInv'
<1>1. /\ ~ sleeping /\ round < MaxRounds /\ round' = round + 1 /\ disconnected
      /\ sum' = sum \cup Stored
      /\ sent' = Append(sent, sum')
      /\ disconnected' = FALSE /\ readings' = Empty /\ sleeping' = TRUE
      /\ UNCHANGED <<reachable, next_reading, offline>>
  BY DEF SendAverage, Read
<1>2. /\ round \in Nat /\ offline \subseteq 1 .. round
      /\ sum \subseteq 1 .. round
  BY DEF ClientInv, ClientTypeOK, InTime
<1>3. /\ round \in Stored
      /\ \A r \in Stored : r \in 1 .. round /\ r > round - MAX_READINGS
  BY <1>1, StoredInOutage
<1>4. sum' \in Messages
  BY <1>1, <1>2, <1>3 DEF Messages
<1>5. ClientTypeOK'
  <2>1. sent' \in Seq(Messages)
    BY <1>1, <1>4, Appended DEF ClientInv, ClientTypeOK, Messages
  <2>2. readings' \in [Slots -> 0 .. MaxRounds]
    BY <1>1 DEF Empty
  <2>3. sum' \in SUBSET (1 .. MaxRounds) /\ round' \in 0 .. MaxRounds
    BY <1>1, <1>2, <1>4 DEF Messages
  <2>. QED
    BY <1>1, <2>1, <2>2, <2>3 DEF ClientInv, ClientTypeOK, Messages
<1>6. Ring'
  BY <1>1 DEF Ring, Empty
<1>7. \A r \in sum' : r <= round' /\ r < round' /\ Reached(r)'
  <2>1. \A r \in Stored : Reached(r)'
    BY <1>1, <1>2, <1>3 DEF Reached
  <2>2. \A r \in sum : Reached(r)'
    BY <1>1, <1>2 DEF ClientInv, ReachedInTime, Reached
  <2>. QED
    BY <1>1, <1>2, <1>3, <2>1, <2>2
<1>8. InTime' /\ ReachedInTime'
  BY <1>1, <1>2, <1>4, <1>7, SentStep
<1>9. NothingForgotten'
  BY <1>1, <1>2, <1>4, NothingForgottenStep
<1>10. SentInOrder'
  <2>1. \A k \in 1 .. Len(sent) : \A q \in sent[k] : q < round
    BY <1>1 DEF ClientInv, InTime
  <2>. QED
    BY <1>1, <1>3, <1>4, <2>1, SentInOrderStep
<1>. QED
  BY <1>5, <1>6, <1>8, <1>9, <1>10 DEF ClientInv

LEMMA SendAfterAverageStep == ASSUME ClientInv, SendAfterAverage PROVE ClientInv'
<1>1. /\ sleeping /\ sleeping' = FALSE
      /\ sent' = Append(sent, {round})
      /\ UNCHANGED <<reachable, round, disconnected, readings, next_reading, sum, offline>>
  BY DEF SendAfterAverage
<1>2. /\ round \in Nat /\ round >= 1 /\ ~ disconnected /\ round \notin offline
      /\ {round} \in Messages
  BY <1>1 DEF ClientInv, ClientTypeOK, InTime, Messages
<1>3. ClientTypeOK'
  <2>1. sent' \in Seq(Messages)
    BY <1>1, <1>2, Appended DEF ClientInv, ClientTypeOK, Messages
  <2>. QED
    BY <1>1, <2>1 DEF ClientInv, ClientTypeOK, Messages
<1>4. Ring'
  BY <1>1, <1>2 DEF ClientInv, Ring
<1>5. \A r \in {round} : r <= round' /\ Reached(r)'
  BY <1>1, <1>2 DEF Reached
<1>6. InTime' /\ ReachedInTime'
  BY <1>1, <1>2, <1>5, SentStep
<1>7. NothingForgotten'
  <2>1. Stored' = Stored
    BY <1>1 DEF Stored
  <2>. QED
    BY <1>1, <1>2, <2>1, NothingForgottenStep
<1>8. SentInOrder'
  <2>1. \A k \in 1 .. Len(sent) : \A q \in sent[k] : q < round
    BY <1>1 DEF ClientInv, InTime
  <2>. QED
    BY <1>1, <1>2, <2>1, SentInOrderStep
<1>. QED
  BY <1>3, <1>4, <1>6, <1>7, <1>8 DEF ClientInv

\* The oldest temperature of a full ring gives way, MAX_READINGS rounds after it was read.
LEMMA SaveTemperatureStep == ASSUME ClientInv, SaveTemperature PROVE ClientInv'
<1>1. /\ ~ sleeping /\ round < MaxRounds /\ round' = round + 1
      /\ disconnected' = TRUE
      /\ readings' = [i \in Slots |-> IF i = next_reading THEN round + 1 ELSE readings[i]]
      /\ next_reading' = Advance
      /\ offline' = offline \cup {round + 1}
      /\ UNCHANGED <<reachable, sleeping, sum, sent>>
  BY DEF SaveTemperature, Read
<1>2. /\ round \in Nat /\ next_reading \in Slots /\ offline \subseteq 1 .. round
      /\ \A i \in Slots : readings[i] \in 0 .. MaxRounds
  BY DEF ClientInv, ClientTypeOK, InTime
<1>3. \A i \in Slots : /\ Age(i) \in 0 .. MAX_READINGS - 1
                       /\ Age(i)' = IF i = next_reading THEN 0 ELSE Age(i) + 1
                       /\ Age(i) = MAX_READINGS - 1 <=> i = next_reading
  BY <1>1, <1>2, AgeAdvances
<1>4. ClientTypeOK'
  <2>1. next_reading' \in Slots
    BY <1>1, <1>2 DEF Advance, Slots
  <2>2. readings' \in [Slots -> 0 .. MaxRounds]
    BY <1>1, <1>2
  <2>3. offline' \in SUBSET (1 .. MaxRounds)
    BY <1>1, <1>2 DEF ClientInv, ClientTypeOK
  <2>. QED
    BY <1>1, <1>2, <2>1, <2>2, <2>3 DEF ClientInv, ClientTypeOK
<1>5. Ring'
  <2>1. CASE disconnected
    <3>1. PICK s \in 1 .. round : OutageSince(s)
      BY <2>1 DEF ClientInv, Ring
    <3>2. s .. round' \subseteq offline'
      BY <1>1, <1>2, <3>1 DEF OutageSince
    <3>3. \A i \in Slots : readings'[i] = IF round' - Age(i)' >= s THEN round' - Age(i)' ELSE 0
      BY <1>1, <1>2, <1>3, <3>1 DEF OutageSince
    <3>4. s \in 1 .. round'
      BY <1>1, <1>2
    <3>. QED
      BY <1>1, <3>2, <3>3, <3>4 DEF Ring, OutageSince
  <2>2. CASE ~ disconnected
    <3>1. \A i \in Slots : readings[i] = 0
      BY <2>2 DEF ClientInv, Ring, Empty
    <3>2. \A i \in Slots : readings'[i] = IF round' - Age(i)' >= round' THEN round' - Age(i)' ELSE 0
      BY <1>1, <1>2, <1>3, <3>1
    <3>3. round' \in 1 .. round' /\ round' .. round' \subseteq offline'
      BY <1>1, <1>2
    <3>. QED
      BY <1>1, <3>2, <3>3 DEF Ring, OutageSince
  <2>. QED
    BY <2>1, <2>2
<1>6. InTime'
  <2>1. InTime /\ sent \in Seq((SUBSET (1 .. MaxRounds)) \ {{}}) /\ Len(sent) \in Nat
    BY DEF ClientInv, ClientTypeOK
  <2>2. \A k \in 1 .. Len(sent) : \A r \in sent[k] : r \in Int /\ r <= round
    BY <2>1 DEF InTime
  <2>3. \A k \in 1 .. Len(sent') : \A r \in sent'[k] : r < round'
    BY <1>1, <1>2, <2>2
  <2>4. sum' \subseteq 1 .. round' /\ offline' \subseteq 1 .. round'
    BY <1>1, <1>2, <2>1 DEF InTime
  <2>5. \A k \in 1 .. Len(sent') : \A r \in sent'[k] : r <= round'
    BY <1>1, <1>2, <2>2
  <2>6. sleeping' => ~ disconnected' /\ round' >= 1 /\ round' \notin offline'
    BY <1>1, <1>2, <2>1 DEF InTime
  <2>. QED
    BY <2>3, <2>4, <2>5, <2>6 DEF InTime
<1>7. ReachedInTime'
  <2>1. \A r : Reached(r) => Reached(r)'
    BY <1>1, <1>2 DEF Reached
  <2>. QED
    BY <1>1, <2>1 DEF ClientInv, ReachedInTime
<1>8. \A r \in Stored : r \in Stored' \/ Overwritten(r)'
  <2> SUFFICES ASSUME NEW r \in Stored PROVE r \in Stored' \/ Overwritten(r)'
    OBVIOUS
  <2>0. PICK i \in Slots : readings[i] = r /\ r # 0
    BY DEF Stored
  <2>1. CASE i # next_reading
    BY <1>1, <2>0, <2>1 DEF Stored
  <2>2. CASE i = next_reading
    <3>1. disconnected
      BY <2>0 DEF ClientInv, Ring, Empty
    <3>2. PICK s \in 1 .. round : OutageSince(s)
      BY <3>1 DEF ClientInv, Ring
    <3>3. r = round - (MAX_READINGS - 1) /\ r >= s
      BY <1>3, <2>0, <2>2, <3>2 DEF OutageSince
    <3>4. r .. r + MAX_READINGS \subseteq offline'
      BY <1>1, <1>2, <3>2, <3>3 DEF OutageSince
    <3>. QED
      BY <3>4 DEF Overwritten
  <2>. QED
    BY <2>1, <2>2
<1>9. NothingForgotten'
  <2>1. round' \in Stored'
    BY <1>1, <1>2 DEF Stored
  <2>2. \A r : Overwritten(r) => Overwritten(r)'
    BY <1>1 DEF Overwritten
  <2>3. ASSUME NEW r \in 1 .. round'
        PROVE  \/ \E k \in 1 .. Len(sent) : r \in sent[k]
               \/ r \in Stored'
               \/ Overwritten(r)'
    BY <1>1, <1>2, <1>8, <2>1, <2>2 DEF ClientInv, NothingForgotten
  <2>. QED
    BY <1>1, <2>3 DEF NothingForgotten
<1>10. SentInOrder'
  BY <1>1 DEF ClientInv, SentInOrder
<1>. QED
  BY <1>4, <1>5, <1>6, <1>7, <1>9, <1>10 DEF ClientInv

LEMMA ClientStepInv == ClientInv /\ [ClientNext]_clientVars => ClientInv'
<1> SUFFICES ASSUME ClientInv, [ClientNext]_clientVars PROVE ClientInv'
  OBVIOUS
<1>1. CASE UNCHANGED clientVars
  BY <1>1, ZenonT(100) DEF clientVars, ClientInv, ClientTypeOK, Ring, OutageSince, Age, InTime, ReachedInTime, Reached, NothingForgotten, Stored, Overwritten, SentInOrder
<1>. QED
  BY <1>1, ReachStep, SendTemperatureStep, SendAverageStep, SendAfterAverageStep, SaveTemperatureStep DEF ClientNext

\* What MAX_READINGS later temperatures should have overwritten is not there, and not sent.
LEMMA OverwrittenIsGone == ClientInv => OldestOverwritten
<1> SUFFICES ASSUME ClientInv, NEW r \in 1 .. round, Overwritten(r)
             PROVE  r \notin Stored /\ \A k \in 1 .. Len(sent) : r \notin sent[k]
  BY DEF OldestOverwritten
<1>1. round \in Nat /\ offline \subseteq 1 .. round
  BY DEF ClientInv, ClientTypeOK, InTime
<1>2. ~ Reached(r)
  BY DEF Reached, Overwritten
<1>3. r + MAX_READINGS <= round
  BY <1>1 DEF Overwritten
<1>4. r \notin Stored
  <2>1. CASE disconnected
    BY <1>1, <1>3, <2>1, StoredInOutage
  <2>2. CASE ~ disconnected
    BY <2>2 DEF ClientInv, Ring, Empty, Stored
  <2>. QED
    BY <2>1, <2>2
<1>. QED
  BY <1>2, <1>4 DEF ClientInv, ReachedInTime

(***************************************************************************)
(* The network and the server: its ring holds the latest messages.         *)
(***************************************************************************)

ServerAge(i) == IF i < serverNext THEN serverNext - 1 - i ELSE serverNext - 1 - i + MAX_READINGS

ServerRing ==
  \A i \in Slots :
    serverReadings[i] = IF ServerAge(i) < Len(serverReceived)
                        THEN serverReceived[Len(serverReceived) - ServerAge(i)] ELSE {}

AirIsSent == \A k \in 1 .. Len(air) : \E m \in 1 .. Len(sent) : air[k] = sent[m]

NetInv ==
  /\ ClientInv /\ AirIsSent /\ ServerRing
  /\ air \in Seq(Messages)
  /\ serverReceived \in Seq(Messages)
  /\ serverReadings \in [Slots -> SUBSET (1 .. MaxRounds)]
  /\ serverNext \in Slots

LEMMA NetInitially == NetInit => NetInv
<1> SUFFICES ASSUME NetInit PROVE NetInv
  OBVIOUS
<1>1. ClientInv
  BY ClientInitially DEF NetInit
<1>2. /\ air = <<>> /\ serverReceived = <<>> /\ serverNext = 0
      /\ serverReadings = [i \in Slots |-> {}]
  BY DEF NetInit
<1>3. <<>> \in Seq(Messages) /\ Len(<<>>) = 0
  OBVIOUS
<1>4. ServerRing
  <2>1. \A i \in Slots : ServerAge(i) \in Nat /\ serverReadings[i] = {}
    BY <1>2 DEF ServerAge, Slots
  <2>. QED
    BY <1>2, <1>3, <2>1 DEF ServerRing
<1>5. AirIsSent /\ serverNext \in Slots
  BY <1>2, <1>3 DEF AirIsSent, Slots
<1>6. serverReadings \in [Slots -> SUBSET (1 .. MaxRounds)]
  BY <1>2
<1>. QED
  BY <1>1, <1>2, <1>3, <1>4, <1>5, <1>6 DEF NetInv

\* The messages that one step adds to a sequence.
LEMMA AddedMessages ==
  ASSUME NEW s \in Seq(Messages), NEW t \in Seq(Messages), Len(s) <= Len(t)
  PROVE  /\ SubSeq(t, Len(s) + 1, Len(t)) \in Seq(Messages)
         /\ \A k \in 1 .. Len(SubSeq(t, Len(s) + 1, Len(t))) :
              \E m \in 1 .. Len(t) : SubSeq(t, Len(s) + 1, Len(t))[k] = t[m]
<1>1. Len(s) \in Nat /\ Len(t) \in Nat
  OBVIOUS
<1>2. \A i \in Len(s) + 1 .. Len(t) : t[i] \in Messages
  BY <1>1
<1>. QED
  BY <1>1, <1>2, SubSeqProperties

\* The client only adds messages to those it sent.
LEMMA ClientAppends ==
  ASSUME ClientInv, ClientInv', ClientNext
  PROVE  /\ sent \in Seq(Messages) /\ sent' \in Seq(Messages)
         /\ Len(sent) <= Len(sent')
         /\ \A k \in 1 .. Len(sent) : sent'[k] = sent[k]
<1>1. sent \in Seq(Messages) /\ sent' \in Seq(Messages)
  BY DEF ClientInv, ClientTypeOK, Messages
<1>2. sent' = sent \/ sent' = Append(sent, {round + 1}) \/ sent' = Append(sent, sum') \/ sent' = Append(sent, {round})
  BY DEF ClientNext, ChangeReach, SendTemperature, SendAverage, SendAfterAverage, SaveTemperature
<1>. QED
  BY <1>1, <1>2

LEMMA ClientStepNet == ASSUME NetInv, ClientStep PROVE NetInv'
<1>1. ClientInv /\ ClientInv' /\ ClientNext
  BY ClientStepInv DEF NetInv, ClientStep
<1> DEFINE new == SubSeq(sent', Len(sent) + 1, Len(sent'))
<1>2. /\ Len(sent) <= Len(sent') /\ Len(sent) \in Nat /\ Len(sent') \in Nat
      /\ \A k \in 1 .. Len(sent) : sent'[k] = sent[k]
      /\ new \in Seq(Messages)
      /\ \A k \in 1 .. Len(new) : \E m \in 1 .. Len(sent') : new[k] = sent'[m]
  BY <1>1, ClientAppends, AddedMessages
<1>3. air' = air \o new /\ UNCHANGED <<serverReadings, serverNext, serverReceived>>
  BY DEF ClientStep, serverVars
<1> HIDE DEF new
<1>4. /\ air' \in Seq(Messages)
      /\ \A k \in 1 .. Len(air') : (\E j \in 1 .. Len(air) : air'[k] = air[j]) \/ (\E j \in 1 .. Len(new) : air'[k] = new[j])
  <2>1. air \in Seq(Messages) /\ new \in Seq(Messages)
    BY <1>2 DEF NetInv
  <2>. QED
    BY <1>3, <2>1, ConcatProperties
<1>5. AirIsSent'
  <2>1. \A j \in 1 .. Len(air) : \E m \in 1 .. Len(sent') : air[j] = sent'[m]
    BY <1>2 DEF NetInv, AirIsSent
  <2>2. ASSUME NEW k \in 1 .. Len(air') PROVE \E m \in 1 .. Len(sent') : air'[k] = sent'[m]
    <3>1. CASE \E j \in 1 .. Len(air) : air'[k] = air[j]
      BY <2>1, <3>1
    <3>2. CASE \E j \in 1 .. Len(new) : air'[k] = new[j]
      BY <1>2, <3>2
    <3>. QED
      BY <1>4, <3>1, <3>2
  <2>. QED
    BY <2>2 DEF AirIsSent
<1>. QED
  BY <1>1, <1>3, <1>4, <1>5 DEF NetInv, ServerRing, ServerAge

\* A message that is not in the air any more.
LEMMA Arrives ==
  ASSUME NetInv, air # <<>>, air' = Tail(air), UNCHANGED sent
  PROVE  air' \in Seq(Messages) /\ AirIsSent' /\ Head(air) \in Messages
<1>1. air \in Seq(Messages) /\ Len(air) \in Nat /\ Len(air) # 0
  BY DEF NetInv
<1>2. /\ Tail(air) \in Seq(Messages) /\ Len(Tail(air)) = Len(air) - 1 /\ Head(air) \in Messages
      /\ \A k \in 1 .. Len(Tail(air)) : Tail(air)[k] = air[k + 1]
  BY <1>1
<1>. QED
  BY <1>1, <1>2 DEF NetInv, AirIsSent

LEMMA SameClient ==
  ASSUME ClientInv, UNCHANGED clientVars
  PROVE  ClientInv'
  BY ClientStepInv

LEMMA LoseStep == ASSUME NetInv, Lose PROVE NetInv'
<1>1. air # <<>> /\ air' = Tail(air) /\ UNCHANGED <<clientVars, sent, serverReadings, serverNext, serverReceived>>
  BY DEF Lose, serverVars, clientVars
<1>. QED
  BY <1>1, Arrives, SameClient DEF NetInv, ServerRing, ServerAge

\* udp_rx_callback writes over the oldest message.
LEMMA ReceiveStep == ASSUME NetInv, Receive PROVE NetInv'
<1>1. /\ air # <<>> /\ air' = Tail(air) /\ UNCHANGED <<clientVars, sent>>
      /\ serverReadings' = [serverReadings EXCEPT ![serverNext] = Head(air)]
      /\ serverNext' = IF serverNext + 1 = MAX_READINGS THEN 0 ELSE serverNext + 1
      /\ serverReceived' = Append(serverReceived, Head(air))
  BY DEF Receive, ServerAdvance, clientVars
<1>2. air' \in Seq(Messages) /\ AirIsSent' /\ Head(air) \in Messages
  BY <1>1, Arrives
<1>3. serverReceived \in Seq(Messages) /\ Len(serverReceived) \in Nat
  BY DEF NetInv
<1>4. /\ serverReceived' \in Seq(Messages)
      /\ Len(serverReceived') = Len(serverReceived) + 1
      /\ \A k \in 1 .. Len(serverReceived) : serverReceived'[k] = serverReceived[k]
      /\ serverReceived'[Len(serverReceived) + 1] = Head(air)
  BY <1>1, <1>2, <1>3, Appended
<1>5. serverNext' \in Slots /\ serverReadings' \in [Slots -> SUBSET (1 .. MaxRounds)]
  BY <1>1, <1>2 DEF NetInv, Slots, Messages
<1>6. ASSUME NEW i \in Slots
      PROVE  /\ ServerAge(i) \in 0 .. MAX_READINGS - 1
             /\ ServerAge(i)' = IF i = serverNext THEN 0 ELSE ServerAge(i) + 1
  BY <1>1 DEF ServerAge, NetInv, Slots
<1>7. ServerRing'
  <2> SUFFICES ASSUME NEW i \in Slots
               PROVE  serverReadings'[i] = IF ServerAge(i)' < Len(serverReceived')
                                           THEN serverReceived'[Len(serverReceived') - ServerAge(i)'] ELSE {}
    BY DEF ServerRing
  <2>1. CASE i = serverNext
    BY <1>1, <1>3, <1>4, <1>6, <2>1 DEF NetInv
  <2>2. CASE i # serverNext
    <3>1. serverReadings'[i] = serverReadings[i] /\ ServerAge(i)' = ServerAge(i) + 1
      BY <1>1, <1>6, <2>2 DEF NetInv
    <3>2. ServerAge(i) \in Nat
      BY <1>6
    <3>. QED
      BY SMTT(60), <1>3, <1>4, <3>1, <3>2 DEF NetInv, ServerRing
  <2>. QED
    BY <2>1, <2>2
<1>. QED
  BY <1>1, <1>2, <1>4, <1>5, <1>7, SameClient DEF NetInv

LEMMA NetStep == NetInv /\ [NetNext]_netVars => NetInv'
<1> SUFFICES ASSUME NetInv, [NetNext]_netVars PROVE NetInv'
  OBVIOUS
<1>1. CASE UNCHANGED netVars
  BY <1>1, SameClient DEF netVars, serverVars, clientVars, NetInv, AirIsSent, ServerRing, ServerAge
<1>. QED
  BY <1>1, ClientStepNet, LoseStep, ReceiveStep DEF NetNext

\* The slots hold what arrived last, each age once.
LEMMA LatestInRing == NetInv => AverageOfLatest
<1> SUFFICES ASSUME NetInv PROVE AverageOfLatest
  OBVIOUS
<1> DEFINE n == Len(serverReceived)
<1>1. serverReceived \in Seq(Messages) /\ n \in Nat /\ \A k \in 1 .. n : serverReceived[k] \in Messages
  BY DEF NetInv
<1>2. serverNext \in 0 .. MAX_READINGS - 1
  BY DEF NetInv, Slots
<1>3. ASSUME NEW i \in Slots, serverReadings[i] # {} PROVE serverReadings[i] \in LatestReceived
  <2>1. ServerAge(i) \in 0 .. MAX_READINGS - 1
    BY <1>2 DEF ServerAge, Slots
  <2>2. ServerAge(i) < n /\ serverReadings[i] = serverReceived[n - ServerAge(i)]
    BY <1>3 DEF NetInv, ServerRing
  <2>3. n - ServerAge(i) \in {k \in 1 .. n : k > n - MAX_READINGS}
    BY <1>1, <2>1, <2>2
  <2>. QED
    BY <2>2, <2>3 DEF LatestReceived
<1>4. ASSUME NEW k \in 1 .. n, k > n - MAX_READINGS
      PROVE  \E i \in Slots : serverReadings[i] = serverReceived[k] /\ serverReadings[i] # {}
  <2> DEFINE a == n - k
             i == IF a < serverNext THEN serverNext - 1 - a ELSE serverNext - 1 - a + MAX_READINGS
  <2>1. a \in 0 .. MAX_READINGS - 1 /\ a < n /\ n - a = k
    BY <1>1, <1>4
  <2>2. i \in Slots /\ ServerAge(i) = a
    BY <1>2, <2>1 DEF ServerAge, Slots
  <2>3. serverReadings[i] = serverReceived[k]
    BY <2>1, <2>2 DEF NetInv, ServerRing
  <2>4. serverReceived[k] # {}
    BY <1>1 DEF Messages
  <2>. QED
    BY <2>2, <2>3, <2>4
<1>. QED
  BY <1>3, <1>4 DEF AverageOfLatest, LatestReceived

(***************************************************************************)
(* The LWM2M server: until something diverts it the user's command is      *)
(* either still to be sent, as it was given, or was sent and forgotten.    *)
(***************************************************************************)

Pending == times_sent = 0 /\ Current = command
Done == times_sent = 1 /\ current_target = Nobody

CommandKnown == command.target \in has_type /\ command.uri # NoText

CommandInStage ==
  /\ stage \in {"routes", "fetching_type"} => diverted
  /\ ~ diverted =>
       /\ stage = "yield" => (Pending /\ ~ CommandKnown) \/ Done
       /\ stage \in {"discover", "command"} => Pending \/ Done
       /\ stage = "requesting" => Current = command /\ times_sent = 1

ServerTypeOK ==
  /\ nodes \subseteq Addresses /\ IsFiniteSet(nodes) /\ links \subseteq Addresses
  /\ retries \in [Addresses -> Nat]
  /\ stage = "fetching_type" => current_target \in nodes

ServerInv == ServerTypeOK /\ TableKept /\ CommandInStage

LEMMA AddedNode ==
  ASSUME IsFiniteSet(nodes), Cardinality(nodes) <= MAX_NODES, nodes \subseteq Addresses, NEW a \in Addresses
  PROVE  /\ IsFiniteSet(add_node(a)) /\ Cardinality(add_node(a)) <= MAX_NODES
         /\ nodes \subseteq add_node(a) /\ add_node(a) \subseteq Addresses
<1>1. CASE Cardinality(nodes) < MAX_NODES
  <2>1. /\ IsFiniteSet(nodes \cup {a})
        /\ Cardinality(nodes \cup {a}) = IF a \in nodes THEN Cardinality(nodes) ELSE Cardinality(nodes) + 1
    BY FS_AddElement
  <2>2. Cardinality(nodes) \in Nat
    BY FS_CardinalityType
  <2>. QED
    BY <1>1, <2>1, <2>2, ServerAssumption DEF add_node
<1>2. CASE ~ (Cardinality(nodes) < MAX_NODES)
  BY <1>2 DEF add_node
<1>. QED
  BY <1>1, <1>2

LEMMA ServerInitially == ServerInit => ServerInv
<1> SUFFICES ASSUME ServerInit PROVE ServerInv
  OBVIOUS
<1>1. IsFiniteSet(nodes) /\ Cardinality(nodes) = 0 /\ nodes = {}
  BY FS_EmptySet DEF ServerInit
<1>2. retries \in [Addresses -> Nat] /\ \A a \in Addresses : retries[a] = 0
  BY DEF ServerInit
<1>3. has_type = {} /\ links = {} /\ stage = "yield" /\ current_target = Nobody /\ command = Current /\ times_sent = 0
  BY DEF ServerInit
<1>4. ServerTypeOK
  BY <1>1, <1>2, <1>3 DEF ServerTypeOK
<1>5. TableKept
  BY <1>1, <1>2, <1>3, ServerAssumption DEF TableKept
<1>6. CommandInStage
  BY <1>3 DEF CommandInStage, Pending, CommandKnown
<1>. QED
  BY <1>4, <1>5, <1>6 DEF ServerInv

LEMMA ServerStep == ServerInv /\ [ServerNext]_lwm2mVars => ServerInv'
<1> SUFFICES ASSUME ServerInv, [ServerNext]_lwm2mVars PROVE ServerInv'
  OBVIOUS
<1> USE DEF ServerInv
<1>1. CASE SomeEvent
  <2>1. /\ UNCHANGED <<nodes, has_type, retries, current_uri, current_value, current_request, command, times_sent>>
        /\ stage = "yield"
    BY <1>1 DEF SomeEvent, tableVars
  <2>2. CASE stage' = "discover" /\ current_target' = current_target /\ UNCHANGED <<links, diverted>>
    <3>1. UNCHANGED Current
      BY <2>1, <2>2 DEF Current, Command
    <3>2. CommandInStage'
      BY <2>1, <2>2, <3>1 DEF CommandInStage, Pending, Done
    <3>3. TableKept' /\ ServerTypeOK'
      BY <2>1, <2>2 DEF TableKept, ServerTypeOK
    <3>. QED
      BY <3>2, <3>3
  <2>3. CASE stage' = "routes" /\ current_target' = Nobody /\ links' \in SUBSET Addresses /\ diverted' = TRUE
    <3>1. CommandInStage'
      BY <2>3 DEF CommandInStage
    <3>2. TableKept' /\ ServerTypeOK'
      BY <2>1, <2>3 DEF TableKept, ServerTypeOK
    <3>. QED
      BY <3>1, <3>2
  <2>. QED
    BY <1>1, <2>2, <2>3 DEF SomeEvent, TimerLookedAt
<1>2. CASE serial_protocol_input
  <2>1. UNCHANGED <<nodes, has_type, retries>> /\ stage = "yield"
    BY <1>2 DEF serial_protocol_input, tableVars
  <2>2. PICK target \in nodes, uri \in Uris, request \in {"PUT", "GET"}, valid \in BOOLEAN :
        \E value \in IF request = "PUT" THEN Values ELSE {NoText} :
          /\ current_uri' = uri /\ current_value' = value /\ current_request' = request
          /\ command' = Command(target, uri, value, request) /\ times_sent' = 0
          /\ \/ stage' = "discover" /\ current_target' = target /\ diverted' = ~ valid /\ UNCHANGED links
             \/ stage' = "routes" /\ current_target' = Nobody /\ diverted' = TRUE /\ links' \in SUBSET Addresses
    BY <1>2 DEF serial_protocol_input
  <2>3. CASE stage' = "discover" /\ current_target' = target /\ UNCHANGED links
    <3>1. Current' = command' /\ times_sent' = 0
      BY <2>2, <2>3 DEF Current, Command
    <3>2. CommandInStage'
      BY <2>3, <3>1 DEF CommandInStage, Pending
    <3>3. TableKept' /\ ServerTypeOK'
      BY <2>1, <2>3 DEF TableKept, ServerTypeOK
    <3>. QED
      BY <3>2, <3>3
  <2>4. CASE stage' = "routes" /\ current_target' = Nobody /\ diverted' = TRUE /\ links' \in SUBSET Addresses
    <3>1. CommandInStage'
      BY <2>4 DEF CommandInStage
    <3>2. TableKept' /\ ServerTypeOK'
      BY <2>1, <2>4 DEF TableKept, ServerTypeOK
    <3>. QED
      BY <3>1, <3>2
  <2>. QED
    BY <2>2, <2>3, <2>4
<1>3. CASE check_rpl_routes
  <2>1. /\ UNCHANGED <<has_type, retries, diverted>> /\ stage = "routes"
        /\ stage' \in {"routes", "discover"}
    BY <1>3 DEF check_rpl_routes, userVars
  <2>2. diverted'
    BY <2>1 DEF CommandInStage
  <2>3. CommandInStage'
    BY <2>2 DEF CommandInStage
  <2>4. CASE UNCHANGED <<links, nodes, current_target>>
    BY <2>1, <2>3, <2>4 DEF TableKept, ServerTypeOK
  <2>5. CASE \E a \in links :
                /\ nodes' = add_node(a) /\ current_target' = (IF a \in nodes' THEN a ELSE Nobody)
                /\ links' \subseteq links
    <3>1. PICK a \in links :
            /\ nodes' = add_node(a) /\ current_target' = (IF a \in nodes' THEN a ELSE Nobody)
            /\ links' \subseteq links
      BY <2>5
    <3>2. a \in Addresses
      BY DEF ServerTypeOK
    <3>3. /\ IsFiniteSet(nodes') /\ Cardinality(nodes') <= MAX_NODES
          /\ nodes \subseteq nodes' /\ nodes' \subseteq Addresses
      BY <3>1, <3>2, AddedNode DEF ServerTypeOK, TableKept
    <3>4. TableKept'
      BY <2>1, <3>1, <3>3 DEF TableKept
    <3>5. ServerTypeOK'
      BY <2>1, <3>1, <3>3 DEF ServerTypeOK
    <3>. QED
      BY <2>3, <3>4, <3>5
  <2>. QED
    BY <1>3, <2>4, <2>5 DEF check_rpl_routes
<1>4. CASE FetchesType
  <2>1. /\ UNCHANGED <<nodes, has_type, current_target, links>> /\ diverted' = TRUE
        /\ current_target # Nobody /\ Discoverable(current_target)
        /\ retries' = [retries EXCEPT ![current_target] = @ + 1]
    BY <1>4 DEF FetchesType, currentVars
  <2>2. current_target \in nodes /\ current_target \in Addresses
    BY <2>1 DEF TableKept, ServerTypeOK
  <2>3. retries[current_target] \in Nat /\ retries[current_target] <= MAX_RETRIES /\ retries \in [Addresses -> Nat]
    BY <2>1, <2>2 DEF Discoverable, ServerTypeOK
  <2>4. \A a \in Addresses : retries'[a] = IF a = current_target THEN retries[a] + 1 ELSE retries[a]
    BY <2>1, <2>2, <2>3
  <2>5. retries' \in [Addresses -> Nat]
    BY <2>1, <2>2, <2>3
  <2>6. \A a \in Addresses : retries'[a] <= MAX_RETRIES + 1 /\ (retries'[a] > 0 => a \in nodes)
    BY <2>2, <2>3, <2>4, ServerAssumption DEF TableKept
  <2>7. TableKept'
    BY <2>1, <2>6 DEF TableKept
  <2>8. ServerTypeOK'
    BY <2>1, <2>2, <2>5 DEF ServerTypeOK
  <2>. QED
    BY <2>1, <2>7, <2>8 DEF CommandInStage
<1>5. CASE NothingToFetch
  <2>1. UNCHANGED <<nodes, has_type, retries, current_target, current_uri, current_value, current_request, links,
                    command, diverted, times_sent>> /\ stage = "discover" /\ stage' = "command"
    BY <1>5 DEF NothingToFetch, tableVars, currentVars, userVars
  <2>2. UNCHANGED Current
    BY <2>1 DEF Current, Command
  <2>3. CommandInStage'
    BY <2>1, <2>2 DEF CommandInStage, Pending, Done
  <2>. QED
    BY <2>1, <2>3 DEF TableKept, ServerTypeOK
<1>6. CASE TypeFetched
  <2>1. /\ UNCHANGED <<nodes, retries, current_target, links, diverted>>
        /\ stage = "fetching_type" /\ stage' = "command" /\ has_type' \in {has_type, has_type \cup {current_target}}
    BY <1>6 DEF TypeFetched, userVars
  <2>2. diverted'
    BY <2>1 DEF CommandInStage
  <2>3. has_type' \subseteq nodes
    BY <2>1 DEF TableKept, ServerTypeOK
  <2>4. TableKept'
    BY <2>1, <2>3 DEF TableKept
  <2>5. ServerTypeOK'
    BY <2>1 DEF ServerTypeOK
  <2>. QED
    BY <2>2, <2>4, <2>5, <2>1 DEF CommandInStage
<1>7. CASE SendsRequest
  <2>1. UNCHANGED <<nodes, has_type, retries, current_target, current_uri, current_value, current_request, links,
                    command, diverted>> /\ stage = "command" /\ stage' = "requesting"
    BY <1>7 DEF SendsRequest, tableVars, currentVars
  <2>2. UNCHANGED Current
    BY <2>1 DEF Current, Command
  <2>3. current_target # Nobody
    BY <1>7, ServerAssumption DEF SendsRequest, ToSend, TableKept, ServerTypeOK
  <2>4. ~ diverted => Pending
    BY <2>1, <2>3 DEF CommandInStage, Done
  <2>5. ~ diverted' => Current' = command' /\ times_sent' = 1
    BY <1>7, <2>1, <2>2, <2>4 DEF Pending, SendsRequest
  <2>. QED
    BY <2>1, <2>5 DEF CommandInStage, TableKept, ServerTypeOK
<1>8. CASE NothingToSend
  <2>1. UNCHANGED <<nodes, has_type, retries, current_target, current_uri, current_value, current_request, links,
                    command, diverted, times_sent>> /\ stage = "command" /\ stage' = "yield"
    BY <1>8 DEF NothingToSend, tableVars, currentVars, userVars
  <2>2. UNCHANGED Current
    BY <2>1 DEF Current, Command
  <2>3. Pending => ~ CommandKnown
    BY <1>8 DEF NothingToSend, ToSend, Pending, CommandKnown, Current, Command
  <2>4. CommandInStage'
    BY <2>1, <2>2, <2>3 DEF CommandInStage, Pending, Done, CommandKnown
  <2>. QED
    BY <2>1, <2>4 DEF TableKept, ServerTypeOK
<1>9. CASE RequestEnds
  <2>1. /\ UNCHANGED <<nodes, has_type, retries, links, command, diverted, times_sent>>
        /\ stage = "requesting" /\ stage' = "yield" /\ current_target' = Nobody
    BY <1>9 DEF RequestEnds, Forgotten, tableVars, userVars
  <2>2. CommandInStage'
    BY <2>1 DEF CommandInStage, Done
  <2>. QED
    BY <2>1, <2>2 DEF TableKept, ServerTypeOK
<1>10. CASE UNCHANGED lwm2mVars
  <2>1. UNCHANGED <<nodes, has_type, retries, current_target, current_uri, current_value, current_request, links,
                    command, diverted, times_sent, stage>>
    BY <1>10 DEF lwm2mVars, tableVars, currentVars, userVars
  <2>2. UNCHANGED Current
    BY <2>1 DEF Current, Command
  <2>3. CommandInStage'
    BY <2>1, <2>2 DEF CommandInStage, Pending, Done, CommandKnown
  <2>. QED
    BY <2>1, <2>3 DEF TableKept, ServerTypeOK
<1>. QED
  BY <1>1, <1>2, <1>3, <1>4, <1>5, <1>6, <1>7, <1>8, <1>9, <1>10 DEF ServerNext

LEMMA CommandsKept == ServerInv => ServerSafe
<1> SUFFICES ASSUME ServerInv PROVE CommandSentOnce
  BY DEF ServerInv, ServerSafe
<1>1. CommandInStage
  BY DEF ServerInv
<1>. QED
  BY <1>1 DEF CommandSentOnce, CommandInStage, Done, CommandKnown

(***************************************************************************)
(* The boards of the jn516x: what they promise is kept by every step.      *)
(***************************************************************************)

LEMMA PrintedAlone == Printed(AllSensors) = AllSensors
<1>1. PICK first, second : first = reading[1] /\ second = reading[2]
  OBVIOUS
<1>2. AllSensors = IF board = "dr1175" THEN <<second, first, second>> ELSE <<first, second>>
  BY <1>1 DEF AllSensors
<1>3. <<second, first, second>> \in Seq({first, second}) /\ <<first, second>> \in Seq({first, second})
  OBVIOUS
<1>4. AllSensors \in Seq({first, second})
  BY <1>2, <1>3
<1>. QED
  BY <1>4, ConcatEmptySeq DEF Printed, Emptied

LEMMA BoardInitially == BoardInit => BoardSafe
  BY DEF BoardInit, BoardSafe, LevelsShow, ObserversHear, NoAnswer

LEMMA BoardStep == BoardSafe /\ [BoardNext]_boardVars => BoardSafe'
<1> SUFFICES ASSUME BoardSafe, [BoardNext]_boardVars PROVE BoardSafe'
  OBVIOUS
<1> USE DEF BoardSafe
<1>1. CASE BoardLeds
  <2>1. UNCHANGED <<board, starting, reading, sensor_events, told, missed>>
    BY <1>1 DEF BoardLeds
  <2>2. ObserversHear'
    BY <2>1 DEF ObserversHear, AllSensors
  <2>3. board = "dr1175" => \A led \in LevelLeds : led \in lit => led \in lit'
    <3>1. LevelLeds = {"RED", "GREEN", "BLUE", "WHITE"} /\ BaseBoardLeds = {"GP0", "GP1"}
      BY DEF LevelLeds, ColorLeds, BaseBoardLeds
    <3>2. CASE put_post_led_handler /\ board = "dr1175"
      BY <3>1, <3>2 DEF put_post_led_handler, SwitchedLeds
    <3>3. CASE UNCHANGED lit
      BY <3>3
    <3>. QED
      BY <1>1, <3>2, <3>3 DEF BoardLeds, put_post_white_led_handler, put_post_rgb_led_handler
  <2>. QED
    BY <2>1, <2>2, <2>3 DEF LevelsShow
<1>2. CASE start_app_timer
  <2>1. UNCHANGED <<board, reading, sensor_events, told, missed>> /\ lit' = lit \cup LevelLeds
    BY <1>2 DEF start_app_timer
  <2>. QED
    BY <2>1 DEF LevelsShow, ObserversHear, AllSensors
<1>3. CASE get_handler
  BY <1>3 DEF get_handler, LevelsShow, ObserversHear, AllSensors
<1>4. CASE Observe
  <2>1. UNCHANGED <<board, starting, lit, reading>> /\ told' = AllSensors
    BY <1>4, PrintedAlone DEF Observe
  <2>. QED
    BY <2>1 DEF LevelsShow, ObserversHear, AllSensors
<1>5. ASSUME NEW s \in BoardSensors, SensorChanges(s) PROVE BoardSafe'
  BY <1>5 DEF SensorChanges, LevelsShow, ObserversHear
<1>6. ASSUME NEW s \in BoardSensors, board_sensors_event(s) PROVE BoardSafe'
  <2>1. UNCHANGED <<board, starting, lit, reading>> /\ UNCHANGED AllSensors
    BY <1>6 DEF board_sensors_event, AllSensors
  <2>2. LevelsShow'
    BY <2>1 DEF LevelsShow
  <2>3. CASE starting
    BY <1>6, <2>2, <2>3 DEF board_sensors_event, ObserversHear
  <2>4. CASE ~ starting
    <3>1. IF told = NoAnswer THEN told' = NoAnswer ELSE told' = AllSensors
      BY <1>6, <2>4, PrintedAlone DEF board_sensors_event
    <3>. QED
      BY <2>1, <2>2, <3>1 DEF ObserversHear
  <2>. QED
    BY <2>3, <2>4
<1>7. CASE UNCHANGED boardVars
  BY <1>7 DEF boardVars, LevelsShow, ObserversHear, AllSensors
<1>. QED
  BY <1>1, <1>2, <1>3, <1>4, <1>5, <1>6, <1>7 DEF BoardNext, LedsNext, ReadingsNext

(***************************************************************************)
(* All of them.  One runs, and the others stand still.                     *)
(***************************************************************************)

LEMMA StepOfEach ==
  [Next]_vars =>
    /\ [NetNext]_netVars /\ [MqttNext]_mqttProgVars /\ [TestSfNext]_testVars /\ [SensorNext]_sensorVars
    /\ [QueueNext]_queueVars /\ [ExchangeNext]_exchangeVars /\ [SleepyNext]_sleepyVars /\ [TrickleNext]_trickleVars
    /\ [ServerNext]_lwm2mVars /\ [BoardNext]_boardVars
  BY DEF Next, Temperature, Mqtt, TestSf6p, Sensors, Queue, Exchange, Sleepy, Trickle, Lwm2m, Board, BoardNext,
         vars, coapVars

\* udp-client.c and udp-server.c: every temperature is sent, in the ring or overwritten in its
\* turn, an average goes before the temperature that ends the outage, and the server's average
\* is of the last messages that arrived.
THEOREM ReadingsAreKept == Spec => []ReadingsKept
<1>1. Init => NetInv
  BY NetInitially DEF Init
<1>2. NetInv /\ [Next]_vars => NetInv'
  BY StepOfEach, NetStep
<1>3. NetInv => ReadingsKept
  <2>1. NetInv => NetTypeOK
    BY DEF NetInv, NetTypeOK, ClientInv, AirIsSent
  <2>. QED
    BY <2>1, OverwrittenIsGone, LatestInRing DEF NetInv, ClientInv, ReadingsKept
<1>. QED
  BY <1>1, <1>2, <1>3, PTL DEF Spec

\* es4, mqtt-demo.c, mqtt-client.c: whatever the network, the broker, the timer and the buttons do,
\* a client that is not in an error state will look at its connection again, gives up after the
\* attempts it has, publishes where it subscribed, and keeps the back-off.
THEOREM ClientsAreSafe == Spec => []MqttSafe
<1>1. Init => MqttInv
  BY MqttInitially DEF Init
<1>2. MqttInv /\ [Next]_vars => MqttInv'
  BY StepOfEach, MqttStep
<1>3. MqttInv => MqttSafe
  BY MqttKept DEF MqttSafe
<1>. QED
  BY <1>1, <1>2, <1>3, PTL DEF Spec

\* es1.c, es3: the elements stay in order and none is missing, whatever is dropped from the event
\* queue; every timeout that comes too early adds one exchange, and nothing else does.
THEOREM LabsAreSafe == Spec => []LabsSafe
<1>1. Init => QueueInv /\ ExchangeInv
  BY QueueInitially, ExchangeInitially DEF Init
<1>2. QueueInv /\ ExchangeInv /\ [Next]_vars => QueueInv' /\ ExchangeInv'
  BY StepOfEach, QueueStep, ExchangeStep
<1>3. QueueInv /\ ExchangeInv => LabsSafe
  BY DEF QueueInv, ExchangeInv, LabsSafe
<1>. QED
  BY <1>1, <1>2, <1>3, PTL DEF Spec

\* very-sleepy-demo.c, cc26xx-web-demo.c, trickle-library.c: the MAC stays on long enough and the
\* observers hear in time for all durations and intervals, what is switched off is not shown, and
\* no node takes back a token as long as none falls behind by half of them.
THEOREM DevicesAreSafe == Spec => []DevicesSafe
<1> DEFINE DevicesInv == SensorInv /\ SleepyInv /\ TrickleInv /\ ServerInv /\ BoardSafe
<1>1. Init => DevicesInv
  BY SensorInitially, SleepyInitially, TrickleInitially, ServerInitially, BoardInitially DEF Init
<1>2. DevicesInv /\ [Next]_vars => DevicesInv'
  BY StepOfEach, SensorStep, SleepyStep, TrickleStep, ServerStep, BoardStep
<1>3. DevicesInv => DevicesSafe
  BY SleepyKeepsTime, TokensKept, CommandsKept DEF SensorInv, DevicesSafe
<1>. QED
  BY <1>1, <1>2, <1>3, PTL DEF Spec

\* test-sf.c: a responder without a lost frame answers every request as the test of the one
\* who asks, though nothing says which test a message is of.
THEOREM TestsStayInStep == Spec => []TestsInStep
<1>1. Init => TestSfInv
  BY TestSfInitially DEF Init
<1>2. TestSfInv /\ [Next]_vars => TestSfInv'
  BY StepOfEach, TestSfStep
<1>. QED
  BY <1>1, <1>2, TestsKeepStep, PTL DEF Spec
=============================================================================
