----------------------------- MODULE MCContikiNodes ---------------------------
(***************************************************************************)
(* The Contiki-NG programs whose liveness is checked, with the lab's: one  *)
(* of them runs, `running` says which, and the others stand still.         *)
(***************************************************************************)
EXTENDS
  TemperatureNetwork, MqttClients, TestSf, SensorDemos, ContikiLabs, TrickleDemo, CoapNodes

VARIABLE running

Programs == {"temperature", "mqtt", "test_sf", "sensors", "queue", "exchange", "sleepy", "trickle",
             "lwm2m", "leds", "board"}

\* Two neighbours.
McHears == 1 :> {2} @@ 2 :> {1}

coapVars == <<lwm2mVars, boardVars>>
vars == <<running, netVars, mqttProgVars, testVars, sensorVars, queueVars, exchangeVars, sleepyVars, trickleVars,
          coapVars>>

\* Those that do not run have only one initial state.
Init ==
  /\ running \in Programs
  /\ NetInit /\ MqttInit /\ TestSfInit /\ SensorInit /\ QueueInit /\ ExchangeInit /\ SleepyInit /\ TrickleInit
  /\ ServerInit /\ BoardInit
  /\ running = "temperature" \/ ~ reachable
  /\ running = "mqtt" \/ (client = "lab" /\ conf = "token")
  /\ running = "sensors" \/ (program = "web" /\ sensor = "opt")
  /\ running = "exchange" \/ routed
  /\ running = "trickle" \/ token[1] = 0
  /\ running \in {"leds", "board"} \/ board = "dr1199"

Temperature == running = "temperature" /\ NetNext
  /\ UNCHANGED <<running, mqttProgVars, testVars, sensorVars, queueVars, exchangeVars, sleepyVars, trickleVars, coapVars>>
Mqtt == running = "mqtt" /\ MqttNext
  /\ UNCHANGED <<running, netVars, testVars, sensorVars, queueVars, exchangeVars, sleepyVars, trickleVars, coapVars>>
TestSf6p == running = "test_sf" /\ TestSfNext
  /\ UNCHANGED <<running, netVars, mqttProgVars, sensorVars, queueVars, exchangeVars, sleepyVars, trickleVars, coapVars>>
Sensors == running = "sensors" /\ SensorNext
  /\ UNCHANGED <<running, netVars, mqttProgVars, testVars, queueVars, exchangeVars, sleepyVars, trickleVars, coapVars>>
Queue == running = "queue" /\ QueueNext
  /\ UNCHANGED <<running, netVars, mqttProgVars, testVars, sensorVars, exchangeVars, sleepyVars, trickleVars, coapVars>>
Exchange == running = "exchange" /\ ExchangeNext
  /\ UNCHANGED <<running, netVars, mqttProgVars, testVars, sensorVars, queueVars, sleepyVars, trickleVars, coapVars>>
Sleepy == running = "sleepy" /\ SleepyNext
  /\ UNCHANGED <<running, netVars, mqttProgVars, testVars, sensorVars, queueVars, exchangeVars, trickleVars, coapVars>>
Trickle == running = "trickle" /\ TrickleNext
  /\ UNCHANGED <<running, netVars, mqttProgVars, testVars, sensorVars, queueVars, exchangeVars, sleepyVars, coapVars>>
Lwm2m == running = "lwm2m" /\ ServerNext
  /\ UNCHANGED <<running, netVars, mqttProgVars, testVars, sensorVars, queueVars, exchangeVars, sleepyVars, trickleVars, boardVars>>
\* The LEDs and the sensors of a board have nothing but its start in common.
Board == ((running = "leds" /\ LedsNext) \/ (running = "board" /\ ReadingsNext))
  /\ UNCHANGED <<running, netVars, mqttProgVars, testVars, sensorVars, queueVars, exchangeVars, sleepyVars, trickleVars, lwm2mVars>>

Next == Temperature \/ Mqtt \/ TestSf6p \/ Sensors \/ Queue \/ Exchange \/ Sleepy \/ Trickle
  \/ Lwm2m \/ Board

\* Of the clients: the queue of the process is emptied, its timer expires, the broker answers
\* and the node finds its network.
MqttFair(step) == running = "mqtt" /\ step

\* Of the sensors: the driver measures, the timers expire and the events are handled.
SensorFair(step) == running = "sensors" /\ step

\* Of the queue: events are handed out, and between any two of them the system looks for
\* timers that ran out.
QueueFair(step) == running = "queue" /\ step

\* Of the tokens: the timer of every node goes on, and what is not lost is received;
\* a node whose time is drawn at random is not suppressed for ever.
TrickleFair(step) == running = "trickle" /\ step

Fairness ==
  /\ WF_mqttProgVars(MqttFair(Smooth(Process))) /\ WF_mqttProgVars(MqttFair(Smooth(Elsewhere(Callback))))
  /\ WF_mqttProgVars(MqttFair(Elsewhere(TimerExpires))) /\ WF_mqttProgVars(MqttFair(Elsewhere(Acknowledged)))
  /\ WF_mqttProgVars(MqttFair(Elsewhere(Joins)))
  /\ WF_sensorVars(SensorFair(sensors_changed))
  /\ WF_sensorVars(SensorFair(web_goes_on)) /\ WF_sensorVars(SensorFair(demo_goes_on))
  /\ WF_queueVars(QueueFair(producer \/ consumer))
  /\ SF_queueVars(QueueFair(QueueTimerExpires("producer")))
  /\ SF_queueVars(QueueFair(QueueTimerExpires("consumer")))
  /\ WF_vars(TestSf6p)
  /\ \A n \in Motes : WF_trickleVars(TrickleFair(TrickleGoesOn(n))) /\ SF_trickleVars(TrickleFair(SpeaksUp(n)))
  /\ \A n, m \in Motes : WF_trickleVars(TrickleFair(tcpip_handler(n, m)))

Spec == Init /\ [][Next]_vars /\ Fairness

\* See TemperatureNetwork: what is kept while the server is out of reach, the
\* order in which it is sent, and what the server makes of it.
ReadingsKept ==
  NetTypeOK /\ NothingForgotten /\ OldestOverwritten /\ SentInOrder /\ AverageOfLatest

\* See MqttClients: the timer or a poll is pending, the attempts are counted, a registered
\* client subscribes first, and the back-off is kept.
MqttSafe == WakesUp /\ GivesUpInTime /\ SubscribesFirst /\ BackoffKept

\* See ContikiLabs: a message under way for each timeout that came too
\* early, and the elements in order.
LabsSafe == OneExchangeEach /\ InStep /\ OrderKept

\* See SensorDemos, TrickleDemo and CoapNodes: the MAC stays on long enough, the observers
\* hear in time, what is switched off is not shown, no node takes back a token, the user's
\* command goes where it should, and a board shows and tells what it should.
DevicesSafe ==
  OnLongEnough /\ NotifiesInTime /\ OffShowsNothing /\ NothingTakenBack /\ ServerSafe /\ BoardSafe

\* See MqttClients, SensorDemos, ContikiLabs and TrickleDemo; and the tests of 6p-packet come to
\* their end when no frame is lost and the timer does not come too early.
Progress ==
  /\ running = "mqtt" => EndsPublishing
  /\ running = "sensors" => PublishedIsShown
  /\ running = "queue" => NobodyStuck
  /\ running = "trickle" => AllAgree
  /\ running = "test_sf" => ([](lost = 0 /\ ~ slow) => <>TestEnds)
=============================================================================
