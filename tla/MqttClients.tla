----------------------------- MODULE MqttClients ------------------------------
(***************************************************************************)
(* What the five MQTT clients of Contiki-NG have in common: the cases of   *)
(* the state machine that registers, connects, subscribes, publishes and   *)
(* reconnects with a back-off, and what their process does with an event.  *)
(* The programs, made of these, follow.  The MQTT library, which runs in   *)
(* a process of its own and calls back, the timers, the network and the    *)
(* broker are external.                                                    *)
(***************************************************************************)
EXTENDS Integers

CONSTANT MaxTroubles     \* how often a connection or the network is lost, or the button pressed

ASSUME MqttAssumption == MaxTroubles \in Nat

RETRY_FOREVER == 255

\* What a configuration may hold: the default organisation, a registered device with its
\* token or without, names too long for the buffers, an address that is none.
Confs == {"quickstart", "token", "no_token", "long", "bad_ip"}

VARIABLES
  client,            \* which of the programs runs
  mqtt_state,        \* state
  connect_attempt,   \* uint8_t
  conf,
  conn,              \* of the library: "none", "connecting", "connected", "disconnecting"
  in_flight,         \* a packet is not sent, or not acknowledged
  has_addr,          \* uip_ds6_get_global(ADDR_PREFERRED) != NULL
  life,              \* connection_life has expired
  timer,             \* publish_periodic_timer: "off", or what it was set for
  expired,           \* how many of its events are in the process's queue
  poll,              \* the process's poll flag
  troubles,
  tries,             \* history: connections tried since the registration or the last stable one
  subscribed,        \* history: in this connection
  early              \* history: a reconnection before the back-off was over

mqttVars == <<client, mqtt_state, connect_attempt, conf, conn, in_flight, has_addr, life, timer,
              expired, poll, troubles, tries, subscribed, early>>

\* What a case of the state machine may change.
machine == <<mqtt_state, connect_attempt, conn, in_flight, timer, tries, subscribed>>

\* init_config(), update_config(): names that are too long are a configuration error, without
\* a timer; otherwise the first event is due at once.
Configured(program, confs) ==
  /\ client = program /\ conf \in confs
  /\ mqtt_state = IF conf = "long" THEN "CONFIG_ERROR" ELSE "INIT"
  /\ connect_attempt = 0
  /\ conn = "none" /\ in_flight = FALSE /\ has_addr = FALSE /\ life = TRUE
  /\ timer = IF conf = "long" THEN "off" ELSE "now"
  /\ expired = 0 /\ poll = FALSE
  /\ troubles = 0 /\ tries = 0 /\ subscribed = FALSE /\ early = FALSE

(***************************************************************************)
(* The cases of state_machine(), in state s with a = connect_attempt       *)
(***************************************************************************)

\* etimer_set does not take back an event that is in the queue already.
SetTimer(t) == timer' = t

\* A device that is not the quickstart one needs a token.
Refuses(s) ==
  /\ s = "INIT" /\ conf = "no_token"
  /\ mqtt_state' = "ERROR" /\ tries' = 0 /\ SetTimer("periodic")
  /\ UNCHANGED <<connect_attempt, conn, in_flight, subscribed>>

\* Mutant: it does not come back to look for a network.
ComesBackOnce(t) == timer' = IF has_addr THEN t ELSE "off"

LooksAgain(t) == timer' = t

\* INIT falls through to REGISTERED.
Connects(s, a, connect_to_broker) ==
  /\ s = "REGISTERED" \/ (s = "INIT" /\ conf # "no_token")
  /\ connect_attempt' = IF s = "INIT" THEN 1 ELSE a
  /\ tries' = (IF s = "INIT" \/ s # mqtt_state THEN 0 ELSE tries) + (IF has_addr THEN 1 ELSE 0)
  /\ IF has_addr THEN connect_to_broker ELSE mqtt_state' = "REGISTERED" /\ UNCHANGED conn
  /\ LooksAgain("network")
  /\ UNCHANGED <<in_flight, subscribed>>

Waits(s) ==
  /\ s = "CONNECTING"
  /\ SetTimer("periodic")
  /\ UNCHANGED <<mqtt_state, connect_attempt, conn, in_flight, tries, subscribed>>

mqtt_ready == conn = "connected" /\ ~ in_flight

\* The library has something to send: a subscription or a publication.
Sends == in_flight' = TRUE

\* A publication that does not fit its buffer is given up.
SendsIfFits == Sends \/ UNCHANGED in_flight

\* It subscribes the first time, if it has to, and publishes from then on.  The connection
\* is stable when connection_life has expired.
Publishes(s, subscribes, publish) ==
  /\ s \in {"CONNECTED", "PUBLISHING"}
  /\ IF life THEN connect_attempt' = 0 /\ tries' = 0 ELSE UNCHANGED <<connect_attempt, tries>>
  /\ IF mqtt_ready
     THEN /\ mqtt_state' = "PUBLISHING" /\ SetTimer("publish")
          /\ IF s = "CONNECTED" /\ subscribes THEN Sends /\ subscribed' = TRUE
             ELSE publish /\ UNCHANGED subscribed
     ELSE /\ mqtt_state' = IF subscribes THEN s ELSE "PUBLISHING"
          /\ SetTimer("periodic") /\ UNCHANGED <<in_flight, subscribed>>
  /\ UNCHANGED conn

\* The library says goodbye to the broker if it is connected.
mqtt_disconnect == conn' = IF conn = "connected" THEN "disconnecting" ELSE conn

MayReconnect(a, attempts) == a < attempts \/ attempts = RETRY_FOREVER

BacksOff(s, a, attempts) ==
  /\ s = "DISCONNECTED"
  /\ IF MayReconnect(a, attempts)
     THEN /\ mqtt_disconnect
          /\ connect_attempt' = (a + 1) % 256
          /\ mqtt_state' = "REGISTERED" /\ SetTimer("backoff")
     ELSE mqtt_state' = "ERROR" /\ SetTimer("periodic") /\ UNCHANGED <<connect_attempt, conn>>
  /\ UNCHANGED <<in_flight, tries, subscribed>>

Idles(s) == s \in {"CONFIG_ERROR", "ERROR"} /\ UNCHANGED machine

(***************************************************************************)
(* The process, and the callback                                           *)
(***************************************************************************)

\* It connects although the back-off is not over.
Hurries == mqtt_state = "REGISTERED" /\ mqtt_state' = "CONNECTING" /\ timer = "backoff"

\* PROCESS_EVENT_POLL comes before any other event.
PollEvent(handled) ==
  /\ poll
  /\ poll' = FALSE /\ handled
  /\ early' = (early \/ Hurries)
  /\ UNCHANGED <<client, conf, has_addr, life, expired, troubles>>

TimerEvent(machine_step) ==
  /\ ~ poll /\ expired > 0
  /\ expired' = expired - 1 /\ machine_step
  /\ early' = (early \/ Hurries)
  /\ UNCHANGED <<client, conf, has_addr, life, poll, troubles>>

\* The button takes the client out of ERROR, and runs the state machine in any state.
ButtonEvent(starts_again, machine_step) ==
  /\ ~ poll /\ troubles < MaxTroubles
  /\ troubles' = troubles + 1
  /\ IF mqtt_state = "ERROR" THEN starts_again ELSE machine_step
  /\ UNCHANGED <<client, conf, has_addr, life, expired, poll, early>>

OnceConnected(s) == "CONNECTED"

MQTT_EVENT_CONNECTED ==
  /\ conn = "connecting" /\ has_addr
  /\ conn' = "connected" /\ in_flight' = FALSE /\ subscribed' = FALSE
  /\ life' = FALSE /\ mqtt_state' = OnceConnected(mqtt_state)
  /\ UNCHANGED <<client, connect_attempt, conf, has_addr, timer, expired, poll, troubles, tries, early>>

\* In some states the event is ignored.
MQTT_EVENT_DISCONNECTED(ignoring) ==
  /\ \/ conn \in {"connecting", "connected"} /\ troubles < MaxTroubles /\ troubles' = troubles + 1
     \/ conn = "disconnecting" /\ UNCHANGED troubles
  /\ conn' = "none" /\ in_flight' = FALSE /\ subscribed' = FALSE
  /\ IF mqtt_state \in ignoring THEN UNCHANGED <<mqtt_state, poll>>
     ELSE mqtt_state' = "DISCONNECTED" /\ poll' = TRUE
  /\ UNCHANGED <<client, connect_attempt, conf, has_addr, life, timer, expired, tries, early>>

(***************************************************************************)
(* Timers, the library and the network                                     *)
(***************************************************************************)

TimerExpires ==
  /\ timer # "off" /\ expired < 2
  /\ timer' = "off" /\ expired' = expired + 1
  /\ UNCHANGED <<client, mqtt_state, connect_attempt, conf, conn, in_flight, has_addr, life, poll, troubles, tries, subscribed, early>>

ConnectionLives ==
  /\ conn = "connected" /\ ~ life
  /\ life' = TRUE
  /\ UNCHANGED <<client, conf, has_addr, expired, poll, troubles, early>> /\ UNCHANGED machine

Acknowledged ==
  /\ in_flight /\ in_flight' = FALSE
  /\ UNCHANGED <<client, mqtt_state, connect_attempt, conf, conn, has_addr, life, timer, expired, poll, troubles, tries, subscribed, early>>

Joins ==
  /\ ~ has_addr /\ has_addr' = TRUE
  /\ UNCHANGED <<client, conf, life, expired, poll, troubles, early>> /\ UNCHANGED machine

Leaves ==
  /\ has_addr /\ troubles < MaxTroubles
  /\ has_addr' = FALSE /\ troubles' = troubles + 1
  /\ UNCHANGED <<client, conf, life, expired, poll, early>> /\ UNCHANGED machine

Surroundings == TimerExpires \/ ConnectionLives \/ Acknowledged \/ Joins \/ Leaves

(***************************************************************************)
(* The MQTT clients: the lab's (Contiki-NG/lab/es4), the demo it was made  *)
(* from (mqtt-demo), the one for the nrf52dk, the one of examples/         *)
(* mqtt-client, and the one in the web demo for the cc26xx, which takes a  *)
(* new configuration over the net.  How they differ: whether the poll that *)
(* the callback asks for is handled, whether a button brings the client    *)
(* back from the error state, whether the "quickstart" organisation is     *)
(* known, how often it reconnects, and the new configuration.              *)
(***************************************************************************)

VARIABLE pressed      \* nrf52dk: which of its button's two events is still to come

mqttProgVars == <<mqttVars, pressed>>

\* The poll is for nobody.
Dropped == UNCHANGED machine

\* A client that knows the quickstart organisation does not subscribe there.
Registered == conf # "quickstart"

StartsConnection == mqtt_state' = "CONNECTING" /\ conn' = IF conn = "none" THEN "connecting" ELSE conn

(***************************************************************************)
(* lab/es4/mqtt-demo.c                                                     *)
(***************************************************************************)
lab_config == Configured("lab", {"token", "long"})
lab_publish == SendsIfFits
lab_connect_to_broker == StartsConnection
lab_state_machine(s, a) ==
  \/ Connects(s, a, lab_connect_to_broker) \/ Waits(s) \/ Publishes(s, TRUE, lab_publish)
  \/ BacksOff(s, a, RETRY_FOREVER) \/ Idles(s)
lab_mqtt_event == MQTT_EVENT_CONNECTED \/ MQTT_EVENT_DISCONNECTED({})
lab_process == PollEvent(Dropped) \/ TimerEvent(lab_state_machine(mqtt_state, connect_attempt))

(***************************************************************************)
(* examples/mqtt-demo/mqtt-demo.c                                          *)
(***************************************************************************)
demo_config == Configured("demo", {"token", "long"})
demo_publish == SendsIfFits
demo_connect_to_broker == StartsConnection
demo_state_machine(s, a) ==
  \/ Connects(s, a, demo_connect_to_broker) \/ Waits(s) \/ Publishes(s, TRUE, demo_publish)
  \/ BacksOff(s, a, RETRY_FOREVER) \/ Idles(s)
demo_mqtt_event == MQTT_EVENT_CONNECTED \/ MQTT_EVENT_DISCONNECTED({})
demo_process == PollEvent(Dropped) \/ TimerEvent(demo_state_machine(mqtt_state, connect_attempt))

(***************************************************************************)
(* nrf52dk/mqtt-demo/mqtt-demo.c.  Its button gives two events, and only   *)
(* one of them runs the state machine: which one is the board's choice.    *)
(***************************************************************************)
nrf_config == Configured("nrf52dk", {"quickstart", "token", "no_token", "long"})
nrf_publish == SendsIfFits
nrf_connect_to_broker == StartsConnection
nrf_state_machine(s, a) ==
  \/ Refuses(s) \/ Connects(s, a, nrf_connect_to_broker) \/ Waits(s)
  \/ Publishes(s, Registered, nrf_publish) \/ BacksOff(s, a, RETRY_FOREVER) \/ Idles(s)
nrf_mqtt_event == MQTT_EVENT_CONNECTED \/ MQTT_EVENT_DISCONNECTED({})

nrf_takes_out_of_error ==
  IF mqtt_state = "ERROR" THEN mqtt_state' = "REGISTERED" /\ connect_attempt' = 1 /\ tries' = 0
  ELSE UNCHANGED <<mqtt_state, connect_attempt, tries>>

nrf_button ==
  \/ pressed = "none" /\ pressed' = "idle" /\ ButtonEvent(nrf_state_machine("REGISTERED", 1), nrf_state_machine(mqtt_state, connect_attempt))
  \/ /\ pressed = "none" /\ pressed' = "run" /\ ~ poll
     /\ troubles < MaxTroubles /\ troubles' = troubles + 1
     /\ nrf_takes_out_of_error
     /\ UNCHANGED <<client, conf, conn, in_flight, has_addr, life, timer, expired, poll, subscribed, early>>
  \/ /\ pressed = "idle" /\ pressed' = "none" /\ ~ poll
     /\ nrf_takes_out_of_error
     /\ UNCHANGED <<client, conf, conn, in_flight, has_addr, life, timer, expired, poll, troubles, subscribed, early>>
  \/ /\ pressed = "run" /\ pressed' = "none" /\ ~ poll
     /\ IF mqtt_state = "ERROR" THEN nrf_state_machine("REGISTERED", 1)
        ELSE nrf_state_machine(mqtt_state, connect_attempt)
     /\ UNCHANGED <<client, conf, has_addr, life, expired, poll, troubles, early>>

nrf_process ==
  \/ PollEvent(nrf_state_machine(mqtt_state, connect_attempt)) /\ UNCHANGED pressed
  \/ TimerEvent(nrf_state_machine(mqtt_state, connect_attempt)) /\ UNCHANGED pressed
  \/ nrf_button

(***************************************************************************)
(* examples/mqtt-client/mqtt-client.c                                      *)
(***************************************************************************)
client_config == Configured("client", {"quickstart", "token", "no_token", "long"})
client_publish == SendsIfFits
client_connect_to_broker == StartsConnection
client_state_machine(s, a) ==
  \/ Refuses(s) \/ Connects(s, a, client_connect_to_broker) \/ Waits(s)
  \/ Publishes(s, Registered, client_publish) \/ BacksOff(s, a, RETRY_FOREVER) \/ Idles(s)
client_mqtt_event == MQTT_EVENT_CONNECTED \/ MQTT_EVENT_DISCONNECTED({})
client_process ==
  \/ PollEvent(client_state_machine(mqtt_state, connect_attempt))
  \/ TimerEvent(client_state_machine(mqtt_state, connect_attempt))
  \/ ButtonEvent(client_state_machine("REGISTERED", 1), client_state_machine(mqtt_state, connect_attempt))

(***************************************************************************)
(* cc26xx-web-demo/mqtt-client.c                                           *)
(***************************************************************************)
web_config == Configured("web", {"quickstart"})
web_publish == SendsIfFits

\* An address that is none shows when it connects.
web_connect_to_broker ==
  IF conf = "bad_ip" THEN mqtt_state' = "CONFIG_ERROR" /\ UNCHANGED conn ELSE StartsConnection

\* Names that are too long show here; otherwise the first event is due at once.
web_update_config ==
  IF conf = "long" THEN mqtt_state' = "CONFIG_ERROR" /\ UNCHANGED timer
  ELSE mqtt_state' = "INIT" /\ SetTimer("now")

\* The new configuration is taken when there is no connection any more.
web_takes_config(s) ==
  /\ s = "NEWCONFIG"
  /\ IF conn = "none" THEN web_update_config ELSE SetTimer("periodic") /\ UNCHANGED mqtt_state
  /\ UNCHANGED <<connect_attempt, conn, in_flight, tries, subscribed>>

web_RECONNECT_ATTEMPTS == 5

web_state_machine(s, a) ==
  \/ Refuses(s) \/ Connects(s, a, web_connect_to_broker) \/ Waits(s)
  \/ Publishes(s, Registered, web_publish) \/ BacksOff(s, a, web_RECONNECT_ATTEMPTS)
  \/ web_takes_config(s) \/ Idles(s)

\* A client that waits for the new configuration goes on waiting.
web_mqtt_event == MQTT_EVENT_CONNECTED \/ MQTT_EVENT_DISCONNECTED({"NEWCONFIG"})

\* The button that publishes, or asks for a publication of fresh readings, runs the state machine.
web_process ==
  \/ PollEvent(web_state_machine(mqtt_state, connect_attempt))
  \/ TimerEvent(web_state_machine(mqtt_state, connect_attempt))
  \/ ButtonEvent(web_state_machine("REGISTERED", 1), web_state_machine(mqtt_state, connect_attempt))

\* new_net_config(), called for a setting that came over the net: the state machine stands
\* still until an event says that the source of the new configuration is done.
web_new_net_config(new) ==
  /\ conf' = new
  /\ IF mqtt_state = "NEWCONFIG" THEN UNCHANGED <<mqtt_state, timer, conn>>
     ELSE mqtt_state' = "NEWCONFIG" /\ timer' = "off" /\ mqtt_disconnect
  /\ UNCHANGED <<client, connect_attempt, in_flight, has_addr, life, expired, poll, troubles, tries, subscribed, early>>

\* httpd_simple_event_new_config, and cc26xx_web_demo_load_config_defaults with the default
\* configuration: the next pass is due in a while, whatever the state.
web_new_config_event(new) ==
  /\ conf' = new /\ SetTimer("new_config")
  /\ UNCHANGED <<client, mqtt_state, connect_attempt, conn, in_flight, has_addr, life, expired, poll, troubles, tries, subscribed, early>>

(***************************************************************************)
(* One of the clients.  The web demo runs with what gives it its settings, *)
(* in WebDemo.                                                             *)
(***************************************************************************)

MqttInit == pressed = "none" /\ (lab_config \/ demo_config \/ nrf_config \/ client_config \/ web_config)

Callback ==
  CASE client = "lab"     -> lab_mqtt_event
    [] client = "demo"    -> demo_mqtt_event
    [] client = "nrf52dk" -> nrf_mqtt_event
    [] client = "client"  -> client_mqtt_event
    [] client = "web"     -> web_mqtt_event

Process ==
  \/ client = "lab"     /\ lab_process    /\ UNCHANGED pressed
  \/ client = "demo"    /\ demo_process   /\ UNCHANGED pressed
  \/ client = "nrf52dk" /\ nrf_process
  \/ client = "client"  /\ client_process /\ UNCHANGED pressed
  \/ client = "web"     /\ web_process    /\ UNCHANGED pressed

Elsewhere(step) == step /\ UNCHANGED pressed

MqttNext == Process \/ Elsewhere(Callback \/ Surroundings)

\* Trouble is bounded, and to press a button is nobody's duty.
Smooth(step) == step /\ troubles' = troubles

(***************************************************************************)
(* Properties                                                              *)
(***************************************************************************)

\* Whatever happens to its connection, a client that is not in an error state will look at
\* it again.  (The nrf52dk without a token can be taken out of the error state by a button
\* that is held long enough for the timer to be off.)
WakesUp ==
  \/ mqtt_state \in {"ERROR", "CONFIG_ERROR"}
  \/ timer # "off" \/ expired > 0 \/ pressed = "run"
  \/ poll /\ client \notin {"lab", "demo"}
  \/ client = "nrf52dk" /\ conf = "no_token"

\* It gives up after RECONNECT_ATTEMPTS connections since the last one that was stable, and
\* not before: "We want RECONNECT_ATTEMPTS attempts if we disconnect after a successful connect".
GivesUpInTime ==
  client = "web" =>
    /\ tries <= web_RECONNECT_ATTEMPTS
    /\ mqtt_state = "ERROR" => tries \in {0, web_RECONNECT_ATTEMPTS}

\* A registered device publishes in a connection in which it has subscribed.
SubscribesFirst ==
  mqtt_state = "PUBLISHING" /\ conf # "quickstart" => subscribed

\* Where only the timer runs the state machine, a client that lost its connection leaves the
\* broker alone until the back-off is over.  (With a poll there may be an older event of the
\* timer in the queue.)
BackoffKept == client \in {"lab", "demo"} => ~ early

\* Connections may be refused and lost and the network come and go; when that stops, the
\* client ends up publishing, or in an error state.
EndsPublishing ==
  <>[](mqtt_state \in {"PUBLISHING", "ERROR", "CONFIG_ERROR"} \/ (client = "nrf52dk" /\ conf = "no_token"))
===============================================================================
