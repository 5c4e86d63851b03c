------------------------------- MODULE WebDemo --------------------------------
(***************************************************************************)
(* The cc26xx web demo, in two parts: its web server, and what its         *)
(* processes make of a new configuration.                                  *)
(***************************************************************************)
EXTENDS Integers, Sequences, SequencesExt, MqttClients

(***************************************************************************)
(* The web server of the cc26xx web demo (httpd-simple.c): connections in  *)
(* a pool of CONNS blocks, requests read up to where the network has more, *)
(* pages sent in chunks through a buffer, one POST at a time under a lock, *)
(* and a broadcast event when a POST changed the configuration.  uIP's     *)
(* protosockets, memb and the process's event queue are external.          *)
(***************************************************************************)


CONSTANTS
  MAIN_BUF_SIZE,      \* HTTPD_SIMPLE_MAIN_BUF_SIZE, in pieces of a page
  Bodies,             \* of the POST requests: sequences of pairs
  MaxRequests,        \* connections in all
  MaxLost             \* connections that are lost or time out

\* A chunk is made in the temporary buffer, which is one byte longer than the main buffer and
\* has the end of the string in it (httpd-simple.h:53 and :59): no chunk is longer than the main
\* buffer, and the chunks of the model have up to three pieces.
ASSUME HttpdAssumption ==
  /\ MAIN_BUF_SIZE \in Nat /\ MAIN_BUF_SIZE >= 3 /\ MaxRequests \in Nat /\ MaxLost \in Nat

CONNS == 2
Conns == 1..CONNS
NULL == 0

VARIABLES
  conns,              \* the pool
  lock,               \* the connection that may change the configuration, or NULL
  parse,              \* state, of the parser
  config_ok,          \* a value was accepted
  news,               \* events "new configuration" in the queue
  requests, lost

httpdVars == <<conns, lock, parse, config_ok, news, requests, lost>>

\* made counts the pieces of the answer so far; buf is the main buffer, rest what is left in
\* tmp_buf, sent what the client got.
Block(phase) ==
  [phase |-> phase, body |-> <<>>, output |-> <<>>,
   made |-> 0, buf |-> <<>>, rest |-> <<>>, sent |-> <<>>]

HttpdInit ==
  /\ conns = [s \in Conns |-> Block("free")]
  /\ lock = NULL /\ parse = "INIT" /\ config_ok = FALSE /\ news = 0
  /\ requests = 0 /\ lost = 0

UnchangedByOutput == UNCHANGED <<lock, parse, config_ok, news, requests, lost>>

(***************************************************************************)
(* Answers: chunks of one to three pieces, "now" if they are not to wait.  *)
(***************************************************************************)

Chunk(size) == [size |-> size, now |-> FALSE]
Now(size) == [size |-> size, now |-> TRUE]

send_headers(redir, additional) ==
  <<Chunk(1)>> \o (IF redir THEN <<Chunk(1)>> ELSE <<>>)
  \o (IF additional THEN <<Chunk(1)>> ELSE <<>>) \o <<Chunk(1), Now(1)>>

send_string == <<Now(2)>>

generate_top_matter(css) == <<Chunk(1)>> \o (IF css THEN <<Chunk(2)>> ELSE <<>>) \o <<Chunk(3)>>
generate_index == generate_top_matter(FALSE) \o <<Chunk(2), Chunk(3), Chunk(1), Now(1)>>
generate_config == generate_top_matter(TRUE) \o <<Chunk(3), Chunk(3), Now(1)>>
generate_mqtt_config == generate_top_matter(TRUE) \o <<Chunk(1), Chunk(3), Now(1)>>
generate_net_uart_config == generate_top_matter(TRUE) \o <<Chunk(2), Now(1)>>

get_script(name) ==
  CASE name = "index.html"  -> generate_index
    [] name = "config.html" -> generate_config
    [] name = "mqtt.html"   -> generate_mqtt_config
    [] name = "netu.html"   -> generate_net_uart_config

Pages == {"index.html", "config.html", "mqtt.html", "netu.html"}

\* handle_output(): of a GET, and of a POST.
AnswerTo(name) ==
  IF name \in Pages THEN send_headers(FALSE, TRUE) \o get_script(name)
  ELSE send_headers(FALSE, TRUE) \o send_string

AnswerOf(return_code) ==
  IF return_code = "OK" THEN send_headers(TRUE, FALSE) ELSE send_headers(FALSE, TRUE) \o send_string

Pieces(from, size) == [i \in 1..size |-> from + i]

Rest(new, space) == SubSeq(new, space + 1, Len(new))

\* enqueue_chunk(), to where it has to wait: a chunk that does not fit fills the buffer up,
\* and the buffer is sent.
enqueue_chunk(c, chunk) ==
  LET new == Pieces(c.made, chunk.size)
      space == MAIN_BUF_SIZE - Len(c.buf)
  IN IF Len(new) < space
     THEN [c EXCEPT !.buf = @ \o new, !.made = @ + Len(new),
                    !.phase = IF chunk.now THEN "flushing" ELSE "output",
                    !.output = IF chunk.now THEN @ ELSE Tail(@)]
     ELSE [c EXCEPT !.buf = @ \o SubSeq(new, 1, space), !.rest = Rest(new, space),
                    !.made = @ + Len(new), !.phase = "sending"]

\* The thread runs until it has to wait, or closes.
handle_output(block) ==
  LET EnqueueNext(c, chunk) == IF c.phase = "output" THEN enqueue_chunk(c, chunk) ELSE c
      run == FoldLeft(EnqueueNext, block, block.output)
  IN IF run.phase = "output" THEN [run EXCEPT !.phase = "closing"] ELSE run

\* The first PSOCK_SEND of a chunk is acknowledged.
SentFull(s) ==
  LET c == conns[s]
      more == Head(c.output).now /\ c.rest # <<>>
  IN /\ c.phase = "sending"
     /\ conns' = [conns EXCEPT ![s] =
          LET rested == [c EXCEPT !.sent = @ \o c.buf, !.buf = c.rest, !.rest = <<>>]
          IN IF more THEN [rested EXCEPT !.phase = "flushing"]
             ELSE handle_output([rested EXCEPT !.phase = "output", !.output = Tail(@)])]
     /\ UnchangedByOutput

\* The second one is.
Flushed(s) ==
  /\ conns[s].phase = "flushing"
  /\ conns' = [conns EXCEPT ![s] = handle_output(
       [conns[s] EXCEPT !.sent = @ \o conns[s].buf, !.buf = <<>>, !.phase = "output", !.output = Tail(@)])]
  /\ UnchangedByOutput

\* The answer begins as soon as the request is read.
Answering(block, output) ==
  handle_output([block EXCEPT !.phase = "output", !.output = output, !.body = <<>>])

(***************************************************************************)
(* POST                                                                    *)
(***************************************************************************)

lock_obtain(s) == IF lock = NULL THEN s ELSE lock

lock_release(s, l) == IF l = s THEN NULL ELSE l

\* Mutant: only an accepted request is told of.
NotifiesIfOK(ok, return_code) == ok /\ return_code = "OK"

Notifies(ok, return_code) == ok

\* What is done when a request is read, with the lock at l, the parser in state p and ok for
\* config_ok.
PostRead(s, return_code, l, p, ok) ==
  LET code == IF return_code = "OK" /\ p # "MORE" THEN "BR" ELSE return_code IN
  /\ news' = news + (IF Notifies(ok, code) THEN 1 ELSE 0)
  /\ config_ok' = FALSE
  /\ lock' = lock_release(s, l)
  /\ parse' = p
  /\ conns' = [conns EXCEPT ![s] = Answering(conns[s], AnswerOf(code))]

\* The end of the headers of a POST.
PostHeaders(s, length, body) ==
  /\ conns[s].phase = "reading"
  /\ IF length # "OK" THEN PostRead(s, length, lock, parse, config_ok)
     ELSE IF lock_obtain(s) # s THEN PostRead(s, "SU", lock, parse, config_ok)
     ELSE IF body = <<>> THEN PostRead(s, "OK", s, "INIT", config_ok)
     ELSE /\ lock' = s /\ parse' = "INIT"
          /\ conns' = [conns EXCEPT ![s] =
               [@ EXCEPT !.phase = "body", !.body = body]]
          /\ UNCHANGED <<config_ok, news>>
  /\ UNCHANGED <<requests, lost>>

\* parse_post_request_chunk(), up to the end of one pair.  The handlers say OK, ERROR or
\* UNKNOWN; after an unknown pair the parser takes the next one for a part of its value.
Parsed(result) ==
  IF parse = "READING_VAL" THEN "ERROR"
  ELSE CASE result = "OK" -> "MORE" [] result = "ERROR" -> "ERROR" [] result = "UNKNOWN" -> "READING_VAL"

parse_post_request_chunk(s, result) ==
  LET ok == config_ok \/ (result = "OK" /\ parse # "READING_VAL") IN
  /\ IF Parsed(result) = "ERROR" THEN PostRead(s, "BR", lock, "ERROR", ok)
     ELSE IF Len(conns[s].body) = 1 THEN PostRead(s, "OK", lock, Parsed(result), ok)
     ELSE /\ conns' = [conns EXCEPT ![s].body = Tail(@)]
          /\ parse' = Parsed(result) /\ config_ok' = ok
          /\ UNCHANGED <<lock, news>>
  /\ UNCHANGED <<requests, lost>>

(***************************************************************************)
(* appcall()                                                               *)
(***************************************************************************)

\* memb_alloc takes the first free block; without one the connection is aborted.
Connected ==
  /\ requests < MaxRequests /\ requests' = requests + 1
  /\ \E s \in Conns :
       /\ conns[s].phase = "free" /\ \A t \in 1..s - 1 : conns[t].phase # "free"
       /\ conns' = [conns EXCEPT ![s] = Block("reading")]
  /\ UNCHANGED <<lock, parse, config_ok, news, lost>>

GetRead(s, name) ==
  /\ conns[s].phase = "reading"
  /\ conns' = [conns EXCEPT ![s] = Answering(conns[s], AnswerTo(name))]
  /\ UnchangedByOutput

\* Neither GET nor POST, or not a path.
NotUnderstood(s) ==
  /\ conns[s].phase = "reading"
  /\ conns' = [conns EXCEPT ![s].phase = "closing"]
  /\ UnchangedByOutput

\* The block is cleared and freed.
Freed(s) == conns' = [conns EXCEPT ![s] = Block("free")]

\* uip_closed(), after the server closed.
Closed(s) ==
  /\ conns[s].phase = "closing" /\ Freed(s)
  /\ UnchangedByOutput

\* uip_closed() by the client, uip_aborted(), uip_timedout(), or ten seconds without data.
Lost(s) ==
  /\ conns[s].phase \notin {"free", "closing"} /\ lost < MaxLost
  /\ lost' = lost + 1 /\ Freed(s)
  /\ UNCHANGED <<lock, parse, config_ok, news, requests>>

HttpdReads(s, requested) ==
  \/ \E name \in requested : GetRead(s, name)
  \/ NotUnderstood(s)
  \/ \E length \in {"LR", "TL"} : PostHeaders(s, length, <<>>)
  \/ \E body \in Bodies : PostHeaders(s, "OK", body)

HttpdWrites(s) == SentFull(s) \/ Flushed(s) \/ Closed(s)

\* Only pages are asked for.
PagesNext == Connected \/ \E s \in Conns : HttpdWrites(s) \/ Lost(s) \/ \E name \in Pages : GetRead(s, name)

(***************************************************************************)
(* Properties                                                              *)
(***************************************************************************)

\* One request at a time changes the configuration, under the lock.
OneAtATime == \A s \in Conns : conns[s].phase = "body" => lock = s

\* Through all the times it waits for the network, what a client got and what the buffers
\* hold is its answer so far: nothing lost, repeated or of the other connection's.
PageIsWhole ==
  \A s \in Conns :
    /\ conns[s].sent \o conns[s].buf \o conns[s].rest = Pieces(0, conns[s].made)
    /\ conns[s].phase = "closing" => conns[s].buf = <<>>

\* "a global lock which is either NULL or points to the http conn which currently has the lock"
LockOfAConnection == lock # NULL => conns[lock].phase = "body"

(***************************************************************************)
(* The cc26xx web demo: its web server (above), its MQTT client            *)
(* (MqttClients, client "web"), its UART over the net, and the process     *)
(* that keeps the configuration in flash.  They share the configuration,   *)
(* which the handlers of a POST change pair by pair, and tell one another  *)
(* of it by events.  The flash driver is external.                         *)
(***************************************************************************)

VARIABLES
  publish,            \* of a sensor
  net_uart,           \* remote_address and enable, of the configuration
  remote_addr,        \* where the UART's lines go
  uart_input,         \* the UART is kept on
  flash               \* the saved configuration, or NotSaved

webVars == <<httpdVars, mqttProgVars, publish, net_uart, remote_addr, uart_input, flash>>

uartVars == <<net_uart, remote_addr, uart_input>>

Config == [mqtt |-> conf, publish |-> publish, net_uart |-> net_uart]

DefaultUart == [remote_address |-> "default", enable |-> TRUE]

(***************************************************************************)
(* Handlers: what a pair does, and what they say.  A pair has a key and a  *)
(* value; a refused value is "refused".                                    *)
(***************************************************************************)

Refused(p) == p.value = "refused"

\* They stop the MQTT client whether or not the value is taken.
StopsClient(p, new) == web_new_net_config(IF Refused(p) THEN conf ELSE new)

org_id_post_handler(p) == p.key = "org_id" /\ StopsClient(p, IF conf = "quickstart" THEN "no_token" ELSE conf)
type_id_post_handler(p) == p.key = "type_id" /\ StopsClient(p, "long")
event_type_id_post_handler(p) == p.key = "event_type_id" /\ StopsClient(p, conf)
cmd_type_post_handler(p) == p.key = "cmd_type" /\ StopsClient(p, conf)
auth_token_post_handler(p) == p.key = "auth_token" /\ StopsClient(p, IF conf = "no_token" THEN "token" ELSE conf)
ip_addr_post_handler(p) == p.key = "broker_ip" /\ StopsClient(p, "bad_ip")
port_post_handler(p) == p.key = "broker_port" /\ IF Refused(p) THEN UNCHANGED mqttVars ELSE web_new_net_config(conf)
interval_post_handler(p) == p.key = "interval" /\ UNCHANGED mqttVars
reconnect_post_handler(p) == p.key = "reconnect" /\ web_new_net_config(conf)

mqtt_post_handlers(p) ==
  /\ \/ org_id_post_handler(p) \/ type_id_post_handler(p) \/ event_type_id_post_handler(p)
     \/ cmd_type_post_handler(p) \/ auth_token_post_handler(p) \/ ip_addr_post_handler(p)
     \/ port_post_handler(p) \/ interval_post_handler(p) \/ reconnect_post_handler(p)
  /\ UNCHANGED <<publish, uartVars, flash>>

sensor_readings_handler(p) ==
  /\ p.key = "sensor"
  /\ publish' = IF Refused(p) THEN publish ELSE (p.value = "on")
  /\ UNCHANGED <<mqttVars, uartVars, flash>>

ping_interval_post_handler(p) == p.key = "ping_interval" /\ UNCHANGED <<mqttVars, publish, uartVars, flash>>

set_new_ip_address == remote_addr' = "given"
keep_uart_on == uart_input' = TRUE
release_uart == uart_input' = FALSE

remote_port_post_handler(p) == p.key = "net_uart_port" /\ UNCHANGED uartVars
remote_ipv6_post_handler(p) ==
  /\ p.key = "net_uart_ip"
  /\ IF Refused(p) THEN UNCHANGED <<remote_addr, net_uart>>
     ELSE set_new_ip_address /\ net_uart' = [net_uart EXCEPT !.remote_address = "given"]
  /\ UNCHANGED uart_input
on_off_post_handler(p) ==
  /\ p.key = "net_uart_on"
  /\ \/ p.value = "on" /\ keep_uart_on /\ net_uart' = [net_uart EXCEPT !.enable = TRUE]
     \/ p.value = "off" /\ release_uart /\ net_uart' = [net_uart EXCEPT !.enable = FALSE]
     \/ Refused(p) /\ UNCHANGED <<uart_input, net_uart>>
  /\ UNCHANGED remote_addr

uart_post_handlers(p) ==
  /\ remote_port_post_handler(p) \/ remote_ipv6_post_handler(p) \/ on_off_post_handler(p)
  /\ UNCHANGED <<mqttVars, publish, flash>>

NotSaved == [mqtt |-> "erased", publish |-> FALSE, net_uart |-> DefaultUart]

\* save_config(): the flash may not open, or be erased and not written, and either is only
\* printed.
save_config(saved) == flash' \in {saved, NotSaved}

\* set_config_defaults() of the UART leaves the UART itself alone.
set_config_defaults == net_uart' = DefaultUart /\ remote_addr' = "default" /\ UNCHANGED uart_input

\* cc26xx_web_demo_restore_defaults(): the processes are told at once, then it is saved.
restore_defaults ==
  /\ publish' = TRUE /\ web_new_config_event("quickstart") /\ set_config_defaults
  /\ save_config([mqtt |-> "quickstart", publish |-> TRUE, net_uart |-> DefaultUart])

defaults_post_handler(p) == p.key = "defaults" /\ restore_defaults

\* An address that is none is nobody's.
Said(p) ==
  CASE p.key = "other" \/ (p.key = "net_uart_ip" /\ Refused(p)) -> "UNKNOWN"
    [] Refused(p) -> "ERROR"
    [] OTHER -> "OK"

\* A pair that could not be read, or that comes after an unknown one, reaches no handler.
post_handlers(p) ==
  IF p.key = "other" \/ parse = "READING_VAL" THEN UNCHANGED <<mqttVars, publish, uartVars, flash>>
  ELSE mqtt_post_handlers(p) \/ sensor_readings_handler(p) \/ ping_interval_post_handler(p)
       \/ uart_post_handlers(p) \/ defaults_post_handler(p)

(***************************************************************************)
(* Processes                                                               *)
(***************************************************************************)

httpd_post(s) ==
  /\ conns[s].phase = "body"
  /\ post_handlers(Head(conns[s].body))
  /\ parse_post_request_chunk(s, Said(Head(conns[s].body)))
  /\ UNCHANGED pressed

httpd_simple_process ==
  \/ \E s \in Conns : httpd_post(s)
  \/ /\ Connected \/ \E s \in Conns : HttpdReads(s, {"elsewhere.html"}) \/ HttpdWrites(s) \/ Lost(s)
     /\ UNCHANGED <<mqttProgVars, publish, uartVars, flash>>

\* The event reaches every process: cc26xx_web_demo_process saves, mqtt_client_process waits
\* a while and looks.
NewConfigEvent ==
  /\ news > 0 /\ news' = news - 1
  /\ save_config(Config)
  /\ web_new_config_event(conf)
  /\ UNCHANGED <<pressed, conns, lock, parse, config_ok, requests, lost, publish, uartVars>>

\* The button held down.
RestoreDefaults ==
  /\ restore_defaults
  /\ UNCHANGED <<pressed, httpdVars>>

\* A line on the UART that is an address; any other line, and a datagram, is passed on.
net_uart_process ==
  /\ uart_input /\ set_new_ip_address
  /\ UNCHANGED <<httpdVars, mqttProgVars, publish, net_uart, uart_input, flash>>

mqtt_client_process ==
  /\ \/ web_process /\ UNCHANGED pressed
     \/ Elsewhere(Callback \/ Surroundings)
  /\ UNCHANGED <<httpdVars, publish, uartVars, flash>>

\* A flash that does not open, or that holds no configuration, leaves the defaults;
\* a saved configuration differs from them in the sensor.
load_config ==
  \/ flash = NotSaved /\ publish = TRUE /\ net_uart = DefaultUart
  \/ publish = FALSE /\ net_uart = DefaultUart /\ flash = Config

\* The event that follows tells the UART to take its configuration.
WebInit ==
  /\ HttpdInit /\ web_config /\ pressed = "none"
  /\ load_config
  /\ remote_addr = net_uart.remote_address /\ uart_input = net_uart.enable

WebNext == httpd_simple_process \/ NewConfigEvent \/ RestoreDefaults \/ net_uart_process \/ mqtt_client_process

(***************************************************************************)
(* Properties                                                              *)
(***************************************************************************)

\* What a handler accepted is saved, or it will be: whoever's POST it was, whether it ended
\* well, badly or with its connection, and whatever the other connection did meanwhile.
AcceptedIsSaved == flash \in {Config, NotSaved} \/ config_ok \/ news > 0
===============================================================================
