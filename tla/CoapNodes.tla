------------------------------- MODULE CoapNodes -------------------------------
(***************************************************************************)
(* Programs that speak CoAP: the LWM2M server, a client of its devices,    *)
(* and the nodes of the jn516x boards, servers with sensors and LEDs.      *)
(***************************************************************************)
EXTENDS Integers, Sequences, FiniteSets

(***************************************************************************)
(* lwm2m-ipso-objects/example-server.c and serial-protocol.c: the root of  *)
(* a network looks for new nodes every five seconds and asks each for its  *)
(* type; a user at the serial line sets or gets the value of a resource.   *)
(* Both kinds of request go through the same variables, and while one is   *)
(* under way the process hears nothing else.  CoAP, the routing links and  *)
(* the devices are external.  (check_routes() is compiled only with        *)
(* UIP_MAX_ROUTES, which its undeclared `nexthop` does not allow.)         *)
(***************************************************************************)

CONSTANTS
  Addresses,      \* of the nodes in the network
  MAX_NODES,      \* in the table
  MAX_RETRIES,    \* 5 in the code
  Uris, Values    \* in the user's lines

Nobody == "nobody"
NoText == "nothing"         \* the empty string
LIGHT_CONTROL == "light"

ASSUME ServerAssumption ==
  /\ Nobody \notin Addresses /\ IsFiniteSet(Addresses)
  /\ MAX_NODES \in Nat /\ MAX_RETRIES \in Nat

VARIABLES
  nodes,               \* the table
  has_type, retries,   \* of a node
  current_target, current_uri, current_value, current_request,
  stage,               \* where the process is: see ServerNext
  links,               \* those check_rpl_routes() has still to look at
  command,             \* history: the user's last one
  diverted,            \* history: something came between it and its request
  times_sent           \* history: requests since then to nodes whose type is known

tableVars   == <<nodes, has_type, retries>>
currentVars == <<current_target, current_uri, current_value, current_request>>
userVars    == <<command, diverted, times_sent>>
lwm2mVars   == <<tableVars, currentVars, stage, links, userVars>>

Command(target, uri, value, request) == [target |-> target, uri |-> uri, value |-> value, request |-> request]
Current == Command(current_target, current_uri, current_value, current_request)

ServerInit ==
  /\ nodes = {} /\ has_type = {} /\ retries = [a \in Addresses |-> 0]
  /\ current_target = Nobody /\ current_uri = LIGHT_CONTROL /\ current_value = "1" /\ current_request = "PUT"
  /\ stage = "yield" /\ links = {}
  /\ command = Current /\ diverted = FALSE /\ times_sent = 0

\* etimer_expired(): the timer may have run out though it is another event that came first.
TimerLookedAt(target) ==
  \/ stage' = "discover" /\ current_target' = target /\ UNCHANGED <<links, diverted>>
  \/ /\ stage' = "routes" /\ current_target' = Nobody
     /\ links' \in SUBSET Addresses
     /\ diverted' = TRUE

\* Any event: the timer's, EVENT_RUN_NOW, a line that names no known node.
SomeEvent ==
  /\ stage = "yield" /\ TimerLookedAt(current_target)
  /\ UNCHANGED <<tableVars, current_uri, current_value, current_request, command, times_sent>>

\* serial_protocol_input() with set_value() or get_value().  An address that is not valid is
\* reported and used all the same, whatever it is.
serial_protocol_input ==
  /\ stage = "yield"
  /\ \E target \in nodes, uri \in Uris, request \in {"PUT", "GET"}, valid \in BOOLEAN :
     \E value \in IF request = "PUT" THEN Values ELSE {NoText} :
       /\ current_uri' = uri /\ current_value' = value /\ current_request' = request
       /\ command' = Command(target, uri, value, request) /\ times_sent' = 0
       /\ \/ stage' = "discover" /\ current_target' = target /\ diverted' = ~ valid /\ UNCHANGED links
          \/ /\ stage' = "routes" /\ current_target' = Nobody /\ diverted' = TRUE
             /\ links' \in SUBSET Addresses
  /\ UNCHANGED tableVars

add_node(a) == IF Cardinality(nodes) < MAX_NODES THEN nodes \cup {a} ELSE nodes

Discoverable(a) == a \notin has_type /\ retries[a] <= MAX_RETRIES

\* The next link; the target is the node it was at when the loop ended, one to ask or not.
check_rpl_routes ==
  /\ stage = "routes"
  /\ \/ links = {} /\ stage' = "discover" /\ UNCHANGED <<links, nodes, current_target>>
     \/ \E a \in links :
          /\ nodes' = add_node(a)
          /\ current_target' = IF a \in nodes' THEN a ELSE Nobody
          /\ IF a \in nodes' /\ Discoverable(a) THEN stage' = "discover" /\ links' = {}
             ELSE links' = links \ {a} /\ UNCHANGED stage
  /\ UNCHANGED <<has_type, retries, current_uri, current_value, current_request, userVars>>

FetchesType ==
  /\ stage = "discover" /\ current_target # Nobody /\ Discoverable(current_target)
  /\ retries' = [retries EXCEPT ![current_target] = @ + 1]
  /\ stage' = "fetching_type" /\ diverted' = TRUE
  /\ UNCHANGED <<nodes, has_type, currentVars, links, command, times_sent>>

NothingToFetch ==
  /\ stage = "discover" /\ (current_target # Nobody => ~ Discoverable(current_target))
  /\ stage' = "command"
  /\ UNCHANGED <<tableVars, currentVars, links, userVars>>

\* client_chunk_handler() with a type; or an error, or no answer.  The URI is set anew.
TypeFetched ==
  /\ stage = "fetching_type" /\ stage' = "command"
  /\ has_type' \in {has_type, has_type \cup {current_target}}
  /\ current_uri' = LIGHT_CONTROL
  /\ UNCHANGED <<nodes, retries, current_target, current_value, current_request, links, userVars>>

ToSend == current_target \in has_type /\ current_uri # NoText

SendsRequest ==
  /\ stage = "command" /\ ToSend
  /\ stage' = "requesting" /\ times_sent' = IF times_sent = 0 THEN 1 ELSE 2
  /\ UNCHANGED <<tableVars, currentVars, links, command, diverted>>

NothingToSend ==
  /\ stage = "command" /\ ~ ToSend /\ stage' = "yield"
  /\ UNCHANGED <<tableVars, currentVars, links, userVars>>

Forgotten == current_target' = Nobody /\ current_uri' = NoText /\ current_value' = NoText

\* What came of it is printed, with the value of the answer.
RequestEnds ==
  /\ stage = "requesting" /\ stage' = "yield" /\ Forgotten
  /\ UNCHANGED <<tableVars, current_request, links, userVars>>

ServerNext ==
  \/ SomeEvent \/ serial_protocol_input \/ check_rpl_routes
  \/ FetchesType \/ NothingToFetch \/ TypeFetched
  \/ SendsRequest \/ NothingToSend \/ RequestEnds

(***************************************************************************)
(* Properties                                                              *)
(***************************************************************************)

\* The user's command for a node whose type is known is sent once, to that node and as it was
\* given, whatever was left of earlier ones -- unless the timer ran out meanwhile, a type was
\* asked for or the address was not valid: then it may go elsewhere, see the README.
CommandSentOnce ==
  ~ diverted =>
    /\ stage = "requesting" => Current = command
    /\ stage \in {"yield", "requesting"} /\ command.target \in has_type /\ command.uri # NoText => times_sent = 1

\* The table does not overflow, and what is asked and answered is of a node in it.
TableKept ==
  /\ Cardinality(nodes) <= MAX_NODES /\ has_type \subseteq nodes
  /\ current_target \in nodes \cup {Nobody}
  /\ \A a \in Addresses : retries[a] <= MAX_RETRIES + 1 /\ (retries[a] > 0 => a \in nodes)

ServerSafe == CommandSentOnce /\ TableKept

(***************************************************************************)
(* jn516x/rpl/coap-dr1175-node and coap-dr1199-node: the two sensors of a  *)
(* board can be read and, together, observed; its LEDs are switched, those *)
(* of the DR1175 have a level.  All answers are printed into one buffer.   *)
(* CoAP, the sensors' process and the LEDs are external: a LED with a      *)
(* level shows it when it is switched on.                                  *)
(***************************************************************************)

CONSTANT Levels      \* that are asked for

ASSUME LevelsAssumption == Levels \subseteq Nat

VARIABLES
  board,             \* "dr1175" or "dr1199"
  starting,          \* it waits for its timer, CLOCK_SECOND / 10
  lit, level,        \* the LEDs that are switched on; those levels that can be set
  reading,           \* of light_sensor and ht_sensor, or of button_sensor and pot_sensor
  sensor_events,     \* those in the queue
  content,           \* the buffer
  told,              \* the last answer to the observers, or NoAnswer when there is none
  missed             \* history: an event was not waited for since then

boardVars == <<board, starting, lit, level, reading, sensor_events, content, told, missed>>

BoardSensors == {1, 2}
NoAnswer == <<>>

ColorLeds == {"RED", "GREEN", "BLUE"}
LevelLeds == ColorLeds \cup {"WHITE"}
BaseBoardLeds == {"GP0", "GP1"}
SwitchedLeds == BaseBoardLeds \cup IF board = "dr1199" THEN ColorLeds ELSE {}

\* The process has switched its LEDs on, and contiki-jn516x-main all of them off.
BoardInit ==
  /\ board \in {"dr1175", "dr1199"}
  /\ starting = (board = "dr1175")
  /\ lit = {} /\ level = [led \in LevelLeds |-> 0]
  /\ reading = [s \in BoardSensors |-> "low"] /\ sensor_events = {}
  /\ content = <<>> /\ told = NoAnswer /\ missed = FALSE

(***************************************************************************)
(* The LEDs                                                                *)
(***************************************************************************)

Clip(asked) == IF asked > 255 THEN 255 ELSE asked

put_post_white_led_handler ==
  /\ \E white \in Levels : level' = [level EXCEPT !["WHITE"] = Clip(white)]
  /\ UNCHANGED lit

\* A number that is not given is 0.
put_post_rgb_led_handler ==
  /\ \E rgb \in [ColorLeds -> Levels \cup {0}] :
       level' = [led \in LevelLeds |-> IF led \in ColorLeds THEN Clip(rgb[led]) ELSE level[led]]
  /\ UNCHANGED lit

put_post_led_handler ==
  /\ \E led \in SwitchedLeds : lit' \in {lit \cup {led}, lit \ {led}}
  /\ UNCHANGED level

put_post_led_all_handler == lit' \in {SwitchedLeds, {}} /\ UNCHANGED level

BoardLeds ==
  /\ \/ board = "dr1175" /\ (put_post_white_led_handler \/ put_post_rgb_led_handler)
     \/ put_post_led_handler
     \/ board = "dr1199" /\ put_post_led_all_handler
  /\ UNCHANGED <<board, starting, reading, sensor_events, content, told, missed>>

start_app_timer ==
  /\ starting /\ starting' = FALSE
  /\ lit' = lit \cup LevelLeds
  /\ UNCHANGED <<board, level, reading, sensor_events, content, told, missed>>

(***************************************************************************)
(* The sensors                                                             *)
(***************************************************************************)

\* content_len = 0
Emptied == <<>>

Printed(pieces) == Emptied \o pieces

\* Of both sensors; the second one of the DR1175 has two values.
AllSensors == IF board = "dr1175" THEN <<reading[2], reading[1], reading[2]>> ELSE <<reading[1], reading[2]>>

\* GET of a value, of a unit, or of all.
dr1175_get_handler ==
  board = "dr1175" /\ content' \in {Printed(<<reading[s]>>) : s \in BoardSensors} \cup {Printed(<<"unit">>), Printed(AllSensors)}

\* With an Accept that a handler does not know the buffer is emptied.
dr1199_get_handler ==
  board = "dr1199" /\ content' \in {Printed(<<reading[s]>>) : s \in BoardSensors} \cup {Emptied, Printed(AllSensors)}

get_handler ==
  /\ dr1175_get_handler \/ dr1199_get_handler
  /\ UNCHANGED <<board, starting, lit, level, reading, sensor_events, told, missed>>

Observe ==
  /\ content' = Printed(AllSensors) /\ told' = content' /\ missed' = FALSE
  /\ UNCHANGED <<board, starting, lit, level, reading, sensor_events>>

SensorChanges(s) ==
  /\ reading' = [reading EXCEPT ![s] = IF @ = "low" THEN "high" ELSE "low"]
  /\ sensor_events' = sensor_events \cup {s}
  /\ UNCHANGED <<board, starting, lit, level, content, told, missed>>

\* While it waits for its timer an event is gone; then it calls the GET handler for the observers.
board_sensors_event(s) ==
  /\ s \in sensor_events /\ sensor_events' = sensor_events \ {s}
  /\ IF ~ starting
     THEN /\ IF told = NoAnswer THEN UNCHANGED <<content, told>>
             ELSE content' = Printed(AllSensors) /\ told' = content'
          /\ missed' = FALSE
     ELSE missed' = TRUE /\ UNCHANGED <<content, told>>
  /\ UNCHANGED <<board, starting, lit, level, reading>>

LedsNext == BoardLeds \/ start_app_timer
ReadingsNext ==
  \/ start_app_timer \/ get_handler \/ Observe
  \/ \E s \in BoardSensors : SensorChanges(s) \/ board_sensors_event(s)

BoardNext == LedsNext \/ ReadingsNext

(***************************************************************************)
(* Properties                                                              *)
(***************************************************************************)

\* "Level of LEDs=0 ...  However, they are enabled.  A level change will directly be visible",
\* once the process has started, whatever was set and switched before.
LevelsShow == board = "dr1175" /\ ~ starting => LevelLeds \subseteq lit

\* The observers know what the sensors say, as soon as no event is under way, though others
\* have answers printed into the same buffer: but a change in the first moments is missed.
ObserversHear == told # NoAnswer /\ sensor_events = {} /\ ~ missed => told = AllSensors

BoardSafe == LevelsShow /\ ObserversHear
================================================================================
