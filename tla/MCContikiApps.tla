------------------------------ MODULE MCContikiApps ---------------------------
(***************************************************************************)
(* The larger Contiki-NG programs, of which safety is checked: one of them *)
(* runs, `running` says which, and the others stand still.                 *)
(***************************************************************************)
EXTENDS
  SchedulingFunctions, WebDemo, RoutesPage, SerialPrograms, CryptoTests, TLC

VARIABLE running

otherVars == <<sixtopVars, sfsVars, sfpVars>>
driverVars == <<routesVars, sensniffVars, slipVars, uart1Vars, atVars, cryptoVars, pkaVars>>
vars == <<running, otherVars, webVars, driverVars>>

\* Two children of the root, and a chain; the last node asks less often.
McTrees == {(2 :> 1 @@ 3 :> 1), (2 :> 1 @@ 3 :> 2)}
McTicks == 2 :> 6 @@ 3 :> 2
McCommands == 2 :> 5 @@ 3 :> 1

Pair(k, v) == [key |-> k, value |-> v]

\* A POST for each handler, with accepted and refused values before and after one another.
McBodies ==
  { <<>>,
    << Pair("cmd_type", "good"), Pair("auth_token", "good"), Pair("other", "good"), Pair("org_id", "good") >>,
    << Pair("org_id", "good"), Pair("sensor", "off"), Pair("broker_ip", "good"), Pair("type_id", "refused") >>,
    << Pair("net_uart_on", "off"), Pair("net_uart_ip", "good"), Pair("defaults", "good"),
       Pair("net_uart_port", "good"), Pair("net_uart_ip", "refused") >>,
    << Pair("event_type_id", "good"), Pair("ping_interval", "good"), Pair("interval", "good"),
       Pair("broker_port", "good"), Pair("broker_port", "refused") >>,
    << Pair("net_uart_on", "on"), Pair("reconnect", "good"), Pair("net_uart_on", "refused") >> }

Init ==
  /\ running \in {"sf_simple", "sf_plugtest", "web", "pages", "routes", "sensniff", "slip", "uart1", "at", "crypto", "pka"}
  /\ SixTopInit /\ SfSimpleInit /\ SfPlugtestInit /\ WebInit
  /\ RoutesInit /\ SensniffInit /\ SlipInit /\ Uart1Init /\ AtInit /\ CryptoInit /\ PkaInit
  /\ running \in {"sf_simple", "sf_plugtest"} \/ parent = 2 :> 1 @@ 3 :> 1
  /\ running = "routes" \/ router = "border"
  /\ running = "crypto" \/ suite = "ctr"
  /\ running = "pka" \/ pkaTest = "sign"

SfSimpleRuns == running = "sf_simple" /\ SfSimpleNext /\ UNCHANGED <<running, sfpVars, webVars, driverVars>>
\* Bound: three commands in all, unless only one node is told.
SfPlugtestRuns ==
  /\ running = "sf_plugtest" /\ SfPlugtestNext
  /\ commands'[3] = 0 \/ commands'[2] + commands'[3] <= 3
  /\ UNCHANGED <<running, sfsVars, webVars, driverVars>>

\* The web demo without a network for its MQTT client, whose connection is MqttClients' matter.
\* Bound: the client goes on only until the first request (nobody reads what it changes).
WebRuns ==
  /\ running = "web" /\ WebNext /\ ~ has_addr'
  /\ mqtt_client_process => requests = 0
  /\ UNCHANGED <<running, otherVars, driverVars>>

\* The web server alone, of which pages are asked for.
PagesRun ==
  /\ running = "pages" /\ PagesNext
  /\ UNCHANGED <<running, otherVars, driverVars, mqttProgVars, publish, uartVars, flash>>

RoutesRun ==
  /\ running = "routes" /\ RoutesNext
  /\ UNCHANGED <<running, otherVars, webVars, sensniffVars, slipVars, uart1Vars, atVars, cryptoVars, pkaVars>>

SensniffRuns ==
  /\ running = "sensniff" /\ SensniffNext
  /\ UNCHANGED <<running, otherVars, webVars, routesVars, slipVars, uart1Vars, atVars, cryptoVars, pkaVars>>

SlipRadioRuns ==
  /\ running = "slip" /\ SlipNext
  /\ UNCHANGED <<running, otherVars, webVars, routesVars, sensniffVars, uart1Vars, atVars, cryptoVars, pkaVars>>

Uart1NodeRuns ==
  /\ running = "uart1" /\ Uart1Next
  /\ UNCHANGED <<running, otherVars, webVars, routesVars, sensniffVars, slipVars, atVars, cryptoVars, pkaVars>>

AtMasterRuns ==
  /\ running = "at" /\ AtNext
  /\ UNCHANGED <<running, otherVars, webVars, routesVars, sensniffVars, slipVars, uart1Vars, cryptoVars, pkaVars>>

CryptoTestsRun ==
  /\ running = "crypto" /\ CryptoNext
  /\ UNCHANGED <<running, otherVars, webVars, routesVars, sensniffVars, slipVars, uart1Vars, atVars, pkaVars>>

PkaTestsRun ==
  /\ running = "pka" /\ PkaNext
  /\ UNCHANGED <<running, otherVars, webVars, routesVars, sensniffVars, slipVars, uart1Vars, atVars, cryptoVars>>

Next ==
  \/ SfSimpleRuns \/ SfPlugtestRuns \/ WebRuns \/ PagesRun \/ RoutesRun
  \/ SensniffRuns \/ SlipRadioRuns \/ Uart1NodeRuns \/ AtMasterRuns \/ CryptoTestsRun \/ PkaTestsRun

Spec == Init /\ [][Next]_vars

\* When no transaction was disturbed -- a response or its acknowledgement lost, a timeout
\* before the end, two transactions at a node at once, a reservation of a slot in use --
\* a child sends to its parent in exactly the timeslots in which the parent listens to it,
\* and the timeslot all nodes share is still there.
LinksAgree ==
  ~ disturbed =>
    /\ \A c \in Children : response[c] = NoFrame =>
         ToSet(LinksWith(c, "TX", parent[c])) = ToSet(LinksWith(parent[c], "RX", c))
    /\ \A n \in Nodes : schedule[n][1] = SharedLink

\* "XXX: should be had in sixp_nbr": one offset for all the requests.  As long as the parent's
\* cells with a node stay the same, the node is told the first of them, each once and in order,
\* and it starts again when it was told all, lost requests and responses or not.
ListedInOrder ==
  \A c \in Children : ~ moved[c] =>
    /\ IsPrefix(listed[c], Cells(c))
    /\ cell_list_offset[c] = 0 => listed[c] \in {<<>>, Cells(c)}

\* See WebDemo and RoutesPage: one POST at a time changes the configuration,
\* what was accepted is saved, and a page reaches its client whole.
WebSafe == OneAtATime /\ PageIsWhole /\ AcceptedIsSaved /\ RoutesWhole

\* The programs that wait for an interrupt or a callback, each in its own module: a test's
\* verdict is of its own vector, with its keys; both sides share their secret; a command is
\* answered; a packet is reported under its own identifier; a line arrives in order; and
\* a pin keeps what it was set to.
DriversSafe ==
  CryptoSafe /\ SecretsAreValid /\ SecretIsShared /\ CommandsAnswered /\ ReportsItsPacket /\ Uart1Safe /\ PinsHold
=============================================================================
