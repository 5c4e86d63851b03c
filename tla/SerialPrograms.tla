---------------------------- MODULE SerialPrograms ----------------------------
(***************************************************************************)
(* Four programs of a node at the end of a serial line: the sniffer, the   *)
(* slip radio, the UART test node and the AT commands.  The first three    *)
(* have an interrupt or a callback that leaves something in a ring for a   *)
(* process.                                                                *)
(***************************************************************************)
EXTENDS Integers, Sequences, FiniteSets

(***************************************************************************)
(* The sniffer of examples/sensniff: a host sends commands over a serial   *)
(* line, byte by byte; the interrupt puts each into a ring buffer, starts  *)
(* a timer and polls the process, which runs the bytes through a state     *)
(* machine; when half a second passes without a byte the timer resets it.  *)
(* The UART, the radio and the host are external.                          *)
(***************************************************************************)

CONSTANTS
  BUFSIZE,       \* of the ring buffer, one less than which fit
  RadioTells,    \* those of the parameters that the radio can tell
  HostFrames,    \* bound: commands of the host
  LineTroubles   \* bound: bytes that are lost or noise, and pauses in the middle

ASSUME SensniffAssumption ==
  BUFSIZE \in Nat \ {0, 1} /\ HostFrames \in Nat /\ LineTroubles \in Nat

VARIABLES
  listening,     \* the radio took promiscuous mode, or the process has ended
  unsent,        \* the rest of the host's command
  rxbuf,         \* the ring buffer
  pending,       \* the process is polled
  ct,            \* the timer: "off", "running", or "expired", with its event in the queue
  parser,        \* state, in_ct and command
  frames, noise, \* commands and disturbances so far
  line_disturbed, \* history: a byte or the time between bytes was wrong since the last pause
  owed           \* history: the answers to come, while nothing is wrong

sensniffVars == <<listening, unsent, rxbuf, pending, ct, parser, frames, noise, line_disturbed, owed>>

magic == <<"C1", "1F", "FE", "72">>
PROTOCOL_VERSION == "02"

Questions == [GET_CHANNEL |-> "CHANNEL", GET_CHANNEL_MIN |-> "CHANNEL_MIN", GET_CHANNEL_MAX |-> "CHANNEL_MAX"]

\* A radio takes channel 11 and not channel 1; a byte of data may look like the magic's first.
SetChannel(data) == <<"SET_CHANNEL", "00", "01", data>>
Commands ==
  { <<question>> : question \in DOMAIN Questions } \cup
  { SetChannel("0B"), SetChannel("01"), SetChannel("C1"),
    <<"UNKNOWN", "00", "00">>, <<"UNKNOWN", "00", "01", "0B">> }

Frame(command) == magic \o <<PROTOCOL_VERSION>> \o command

Reset == [state |-> "MAGIC", in_ct |-> 0, cmd |-> "none", len |-> "none"]

\* What a radio tells of its parameter, or send_error.
Told(parameter) == IF parameter \in RadioTells THEN parameter ELSE "ERR"

\* What a command gets: one without data or with one byte is answered, an unknown one
\* without data is not.
AnswersTo(command) ==
  CASE Len(command) = 1                    -> <<Told(Questions[command[1]])>>
    [] command = SetChannel("0B")          -> <<Told("CHANNEL")>>
    [] command = <<"UNKNOWN", "00", "00">> -> <<>>
    [] OTHER                               -> <<"ERR">>

SensniffInit ==
  /\ listening \in BOOLEAN
  /\ unsent = <<>> /\ rxbuf = <<>> /\ pending = FALSE /\ ct = "off" /\ parser = Reset
  /\ frames = 0 /\ noise = 0 /\ line_disturbed = FALSE /\ owed = <<>>

(***************************************************************************)
(* The host and the line                                                   *)
(***************************************************************************)

Owes(answers) == owed' = IF line_disturbed' THEN <<>> ELSE answers

Disturbs == noise < LineTroubles /\ noise' = noise + 1 /\ line_disturbed' = TRUE

\* The interrupt; a byte that finds the buffer full is lost.  A timer that is set again when
\* its event is in the queue calls back all the same.
char_in(c) ==
  /\ ct' = IF ct = "expired" THEN ct ELSE "running"
  /\ pending' = TRUE
  /\ rxbuf' = IF Len(rxbuf) < BUFSIZE - 1 THEN Append(rxbuf, c) ELSE rxbuf

\* A byte of the host arrives, in the very moment after the pause too, or is lost; nothing
\* takes it when the process has ended.
LineTransmits(c) ==
  \/ /\ listening /\ char_in(c)
     /\ \/ ct # "expired" /\ line_disturbed' = (line_disturbed \/ rxbuf' = rxbuf) /\ UNCHANGED noise
        \/ ct = "expired" /\ Disturbs
  \/ listening /\ Disturbs /\ UNCHANGED <<rxbuf, pending, ct>>
  \/ ~ listening /\ UNCHANGED <<rxbuf, pending, ct, noise, line_disturbed>>

\* The host waits for no answer and no pause.
HostSends ==
  /\ unsent = <<>> /\ frames < HostFrames /\ frames' = frames + 1
  /\ \E command \in Commands :
       /\ LineTransmits(Head(Frame(command))) /\ unsent' = Tail(Frame(command))
       /\ Owes(owed \o AnswersTo(command))
  /\ UNCHANGED <<listening, parser>>

HostGoesOn ==
  /\ unsent # <<>> /\ LineTransmits(Head(unsent)) /\ unsent' = Tail(unsent)
  /\ Owes(owed)
  /\ UNCHANGED <<listening, parser, frames>>

NoiseArrives ==
  /\ listening /\ Disturbs
  /\ \E c \in {"C1", "00"} : char_in(c)
  /\ Owes(owed)
  /\ UNCHANGED <<listening, unsent, parser, frames>>

(***************************************************************************)
(* The process                                                             *)
(***************************************************************************)

\* Mutant: the timer only stops.
reset_nothing == UNCHANGED parser

reset_state == parser' = Reset

\* One that nobody waits for is kept.
Answers(answer) ==
  owed' = CASE line_disturbed                       -> <<>>
            [] owed # <<>> /\ Head(owed) = answer -> Tail(owed)
            [] OTHER                                -> Append(owed, answer)

\* set_channel answers like send_channel when the radio takes the channel.
execute_command(cmd, data) ==
  Answers(IF cmd \in DOMAIN Questions THEN Told(Questions[cmd])
          ELSE IF cmd = "SET_CHANNEL" /\ data = "0B" THEN Told("CHANNEL")
          ELSE "ERR")

NoCommand == UNCHANGED owed

InMagic(c) ==
  /\ parser.state = "MAGIC" /\ NoCommand
  /\ parser' = IF c # magic[parser.in_ct + 1] THEN Reset
               ELSE IF parser.in_ct + 1 < Len(magic) THEN [parser EXCEPT !.in_ct = @ + 1]
               ELSE [parser EXCEPT !.state = "VERSION", !.in_ct = 0]

InVersion(c) ==
  /\ parser.state = "VERSION" /\ NoCommand
  /\ parser' = IF c = PROTOCOL_VERSION THEN [parser EXCEPT !.state = "CMD"] ELSE Reset

InCmd(c) ==
  /\ parser.state = "CMD"
  /\ IF c \in DOMAIN Questions THEN execute_command(c, "none") /\ reset_state
     ELSE parser' = [parser EXCEPT !.state = "LEN_1", !.cmd = c] /\ NoCommand

InLen1(c) ==
  /\ parser.state = "LEN_1" /\ NoCommand
  /\ parser' = [parser EXCEPT !.state = "LEN_2", !.len = c]

\* Only a length of one goes on.
InLen2(c) ==
  /\ parser.state = "LEN_2" /\ NoCommand
  /\ parser' = IF parser.len = "00" /\ c = "01" THEN [parser EXCEPT !.state = "DATA"] ELSE Reset

InData(c) ==
  /\ parser.state = "DATA"
  /\ execute_command(parser.cmd, c) /\ reset_state

\* process_incoming_data, a byte of its loop.
process_incoming_data ==
  /\ pending /\ rxbuf # <<>>
  /\ rxbuf' = Tail(rxbuf)
  /\ LET c == Head(rxbuf) IN
       InMagic(c) \/ InVersion(c) \/ InCmd(c) \/ InLen1(c) \/ InLen2(c) \/ InData(c)
  /\ UNCHANGED <<listening, unsent, pending, ct, frames, noise, line_disturbed>>

LoopEnds ==
  /\ pending /\ rxbuf = <<>>
  /\ pending' = FALSE
  /\ UNCHANGED <<listening, unsent, rxbuf, ct, parser, frames, noise, line_disturbed, owed>>

\* Half a second without a byte, in which a process that is polled has run.
FrameTimesOut ==
  /\ ct = "running" /\ ~ pending /\ ct' = "expired"
  /\ \/ unsent = <<>> /\ UNCHANGED <<noise, line_disturbed>>
     \/ unsent # <<>> /\ Disturbs
  /\ Owes(owed)
  /\ UNCHANGED <<listening, unsent, rxbuf, pending, parser, frames>>

\* The timer's callback; between two commands that is a pause.
TimedOut ==
  /\ ct = "expired" /\ ct' = "off" /\ reset_state
  /\ IF unsent = <<>> /\ rxbuf = <<>>
     THEN line_disturbed' = FALSE /\ owed' = <<>>
     ELSE UNCHANGED <<line_disturbed, owed>>
  /\ UNCHANGED <<listening, unsent, rxbuf, pending, frames, noise>>

SensniffNext ==
  \/ HostSends \/ HostGoesOn \/ NoiseArrives
  \/ process_incoming_data \/ LoopEnds \/ FrameTimesOut \/ TimedOut

(***************************************************************************)
(* Properties                                                              *)
(***************************************************************************)

\* However far the line and the buffer are ahead of the state machine, every command that
\* came whole is executed once, in order, and answered, and leaves it ready for the next one;
\* after a pause this holds again, whatever was lost before.
CommandsAnswered ==
  listening /\ ~ line_disturbed /\ unsent = <<>> /\ rxbuf = <<>> => parser = Reset /\ owed = <<>>

(***************************************************************************)
(* The slip radio (examples/slip-radio): a host sends packets over SLIP    *)
(* with an identifier each; the identifier is kept in a ring, "max 16      *)
(* packets at the same time???", the MAC sends the packet and calls back   *)
(* with a pointer into the ring, and the host is told what became of it.   *)
(* It also sets and asks for parameters of the radio.  SLIP, the MAC and   *)
(* the radio are external.                                                 *)
(***************************************************************************)

CONSTANTS
  RingSize,       \* identifiers in packet_ids
  MacQueue,       \* packets the MAC takes; it calls back at once for one more
  HostPackets     \* bound: packets of the host

ASSUME SlipAssumption == RingSize \in Nat \ {0} /\ MacQueue \in Nat /\ HostPackets \in Nat

VARIABLES
  packet_ids, packet_pos,
  mac,            \* packets in the MAC: what they are and where their identifier is
  sends,          \* packets so far, which are also the identifiers
  params,         \* the radio's parameter
  told            \* the last answer to the host, with what it was about

slipVars == <<packet_ids, packet_pos, mac, sends, params, told>>

Ring == 0 .. RingSize - 1
NoAnswer == [type |-> "none", sid |-> 0, about |-> 0]

SlipInit ==
  /\ packet_ids = [k \in Ring |-> 0] /\ packet_pos = 0
  /\ mac = {} /\ sends = 0 /\ params = 0
  /\ told = NoAnswer

Place == packet_pos

NextPlace == (packet_pos + 1) % RingSize

\* "!S" with attributes that can be read: to the MAC.  A packet that finds its queue full is
\* called back from inside the call.
SendPacket ==
  /\ sends < HostPackets /\ sends' = sends + 1
  /\ packet_ids' = [packet_ids EXCEPT ![Place] = sends']
  /\ \/ /\ Cardinality(mac) < MacQueue
        /\ mac' = mac \cup {[packet |-> sends', ptr |-> packet_pos]}
        /\ UNCHANGED told
     \/ /\ Cardinality(mac) = MacQueue
        /\ told' = [type |-> "R", sid |-> packet_ids'[packet_pos], about |-> sends']
        /\ UNCHANGED mac
  /\ packet_pos' = NextPlace
  /\ UNCHANGED params

\* Its attributes cannot be read: the identifier is stored, and its place is used again.
SendRefused ==
  /\ sends < HostPackets /\ sends' = sends + 1
  /\ packet_ids' = [packet_ids EXCEPT ![Place] = sends']
  /\ UNCHANGED <<packet_pos, mac, params, told>>

\* "!V" and "?V", "?M"; a question for a value is answered, and reported as unknown as well.
ParameterCommand ==
  /\ \/ params' = 1 - params /\ UNCHANGED told
     \/ told' = [type |-> "V", sid |-> params, about |-> params] /\ UNCHANGED params
     \/ told' = [type |-> "M", sid |-> 0, about |-> 0] /\ UNCHANGED params
     \/ told' = [type |-> "E", sid |-> 0, about |-> 0] /\ UNCHANGED params
  /\ UNCHANGED <<packet_ids, packet_pos, mac, sends>>

\* The MAC is done with a packet, of different neighbors in any order.
packet_sent(m) ==
  /\ m \in mac
  /\ mac' = mac \ {m}
  /\ told' = [type |-> "R", sid |-> packet_ids[m.ptr], about |-> m.packet]
  /\ UNCHANGED <<packet_ids, packet_pos, sends, params>>

SlipNext == SendPacket \/ SendRefused \/ ParameterCommand \/ \E m \in mac : packet_sent(m)

(***************************************************************************)
(* Properties                                                              *)
(***************************************************************************)

\* The identifier of a packet that is under way is still in its place, and what the host is
\* told is of the packet it names, if no more packets were sent since than the ring holds.
RecentEnough(packet) == sends - packet < RingSize

ReportsItsPacket ==
  /\ \A m \in mac : RecentEnough(m.packet) => packet_ids[m.ptr] = m.packet
  /\ told.type = "R" /\ RecentEnough(told.about) => told.sid = told.about

(***************************************************************************)
(* The UART test node of jn516x/tsch: the interrupt puts the characters of *)
(* UART1 into a ring buffer of its own and polls a process, which takes    *)
(* them out and, at the end of a line, notifies the observers of a CoAP    *)
(* resource.  The UART and CoAP are external.                              *)
(***************************************************************************)

CONSTANTS
  RINGBUF_SIZE,   \* of the ring and of a line, a power of two in the code
  MaxChars        \* bound: characters that arrive

ASSUME Uart1Assumption == RINGBUF_SIZE \in Nat \ {0, 1} /\ MaxChars \in Nat

VARIABLES
  ringbuf, head_index, tail_index,
  rx_buf,         \* the line so far
  rx_polled,
  arrived,        \* characters so far
  kept,           \* history: those in the ring, in order
  lines           \* history: the last line the observers got, and whether it was all of it

uart1Vars == <<ringbuf, head_index, tail_index, rx_buf, rx_polled, arrived, kept, lines>>

RingIndices == 0 .. RINGBUF_SIZE - 1
Following(index) == (index + 1) % RINGBUF_SIZE

\* Characters are numbered; those in LineEnds end a line.
Nul == 0
Ends(c) == c % 3 = 0

Uart1Init ==
  /\ ringbuf = [k \in RingIndices |-> Nul] /\ head_index = 1 /\ tail_index = 0
  /\ rx_buf = <<>> /\ rx_polled = FALSE /\ arrived = 0 /\ kept = <<>>
  /\ lines = <<>>

Full == head_index = tail_index

\* handleRxChar and put_ringbuf, in the interrupt.
handleRxChar ==
  /\ arrived < MaxChars /\ arrived' = arrived + 1
  /\ \/ Full /\ UNCHANGED <<ringbuf, head_index, rx_polled, kept>>
     \/ /\ ~ Full
        /\ ringbuf' = [ringbuf EXCEPT ![head_index] = arrived']
        /\ head_index' = Following(head_index)
        /\ kept' = Append(kept, arrived')
        /\ rx_polled' = TRUE
  /\ UNCHANGED <<tail_index, rx_buf, lines>>

Empty == head_index = Following(tail_index)

\* get_ringbuf and what is done with the character; a full line is begun anew.
ReadChar ==
  /\ rx_polled /\ ~ Empty
  /\ tail_index' = Following(tail_index)
  /\ LET c == ringbuf[tail_index']
         line == (IF Len(rx_buf) = RINGBUF_SIZE THEN <<>> ELSE rx_buf) \o <<c>>
     IN IF Ends(c) THEN lines' = line /\ rx_buf' = <<>> ELSE rx_buf' = line /\ UNCHANGED lines
  /\ kept' = Tail(kept)
  /\ UNCHANGED <<ringbuf, head_index, rx_polled, arrived>>

\* The loop ends; the process waits for the next poll.
NothingToRead ==
  /\ rx_polled /\ Empty
  /\ rx_polled' = FALSE
  /\ UNCHANGED <<ringbuf, head_index, tail_index, rx_buf, arrived, kept, lines>>

Uart1Next == handleRxChar \/ ReadChar \/ NothingToRead

(***************************************************************************)
(* Properties                                                              *)
(***************************************************************************)

\* The ring between the two indices is the queue of the characters that were kept, in order,
\* also when the indices wrap around, and a full ring is not taken for an empty one; a
\* character in it will be read.
RingIsQueue ==
  /\ Len(kept) = (head_index - tail_index - 1) % RINGBUF_SIZE
  /\ \A k \in DOMAIN kept : ringbuf[(tail_index + k) % RINGBUF_SIZE] = kept[k]
  /\ kept # <<>> => rx_polled

\* The observers get the characters of a line in order, none of an earlier one.
LinesInOrder ==
  \A k \in 1 .. Len(lines) - 1 : lines[k] < lines[k + 1] /\ ~ Ends(lines[k])

Uart1Safe == RingIsQueue /\ LinesInOrder

(***************************************************************************)
(* The hardware tests of zoul/at-test: a line that is an AT command calls  *)
(* the function that was registered for it, which sets LEDs and pins or    *)
(* reads them.  The AT driver, the pins and their macros are external:     *)
(* a number above 7 is no pin, and what a port does then is not known.     *)
(***************************************************************************)

CONSTANTS
  AtPorts,        \* of "A" to "D"
  Pins,           \* of a port
  AtNumbers,      \* in the commands
  MaxAtCommands   \* bound: commands between two resets

ASSUME AtAssumption ==
  AtPorts \subseteq {"A", "B", "C", "D"} /\ Pins \subseteq 0 .. 7 /\ AtNumbers \subseteq 0 .. 9 /\ MaxAtCommands \in Nat

VARIABLES
  gpio,           \* what the port drives each pin to, if it is an output
  analog,         \* pins with the override of the converter, which only a reset takes away
  at_leds,        \* those that are on
  crypto_on,      \* the engine
  ct_reset,       \* the timer of the reset
  at_commands,
  pin_set         \* history: what AT&GPIO made of a pin, or "any" when another command names it

atVars == <<gpio, analog, at_leds, crypto_on, ct_reset, at_commands, pin_set>>

PinStates == {"input", "low", "high"}
AllPins == AtPorts \X Pins

AtInit ==
  /\ gpio = [p \in AllPins |-> "input"] /\ analog = {} /\ at_leds = {}
  /\ crypto_on = FALSE /\ ct_reset = FALSE /\ at_commands = 0 /\ pin_set = [p \in AllPins |-> "any"]

\* AT_DEFAULT_RESPONSE_ERROR, or an answer that changes nothing.
JustAnswers == UNCHANGED <<gpio, analog, at_leds, crypto_on, ct_reset, pin_set>>

config_gpio(port, pins, type) ==
  /\ gpio' = [p \in AllPins |-> IF p[1] = port /\ p[2] \in pins THEN type ELSE gpio[p]]
  /\ UNCHANGED <<at_leds, crypto_on, ct_reset>>

Forgets(port, pins) == pin_set' = [p \in AllPins |-> IF p[1] = port /\ p[2] \in pins THEN "any" ELSE pin_set[p]]

at_cmd_gpio_callback(port, n) ==
  IF n > 7 THEN JustAnswers
  ELSE \E state \in {"low", "high"} :
         /\ config_gpio(port, {n}, state) /\ UNCHANGED analog
         /\ pin_set' = [p \in AllPins |-> IF p = <<port, n>> THEN state ELSE pin_set[p]]

\* The pin after fifty pulses.
floppin == "low"

\* 8 and 9 are accepted.
at_cmd_flop_callback(port, n) ==
  IF n <= 7 THEN config_gpio(port, {n}, floppin) /\ Forgets(port, {n}) /\ UNCHANGED analog
  ELSE /\ \E f \in [Pins -> PinStates] : gpio' = [p \in AllPins |-> IF p[1] = port THEN f[p[2]] ELSE gpio[p]]
       /\ Forgets(port, Pins)
       /\ UNCHANGED <<analog, at_leds, crypto_on, ct_reset>>

\* Of one of the pins 4 to 7 of port A, or of all; a number of 8 is the same.
at_cmd_adc_callback(n) ==
  IF n < 4 \/ n > 8 THEN JustAnswers
  ELSE LET pins == IF n = 8 THEN 4 .. 7 ELSE {n}
       IN /\ config_gpio("A", pins, "input") /\ Forgets("A", pins)
          /\ analog' = analog \cup {p \in AllPins : p[1] = "A" /\ p[2] \in pins}

\* config_gpio() is given the mask of the pin, of which it makes a mask again.
Masked(n) == {m \in Pins : m = 2 ^ n}

\* All pins of a port have a mask that is no pin; "Exclude PA0-PA3" leaves PA4 out as well.
at_cmd_read_callback(port, n) ==
  IF n > 7 \/ (port = "A" /\ n <= 4) THEN JustAnswers
  ELSE config_gpio(port, Masked(n), "input") /\ Forgets(port, Masked(n)) /\ UNCHANGED analog

at_cmd_leds_callback ==
  /\ \E led \in {"RED", "GREEN", "BLUE"} : at_leds' \in {at_leds \cup {led}, at_leds \ {led}}
  /\ UNCHANGED <<gpio, analog, crypto_on, ct_reset, pin_set>>

\* A step of the engine that fails leaves it on.
at_cmd_sha256_callback == crypto_on' \in BOOLEAN /\ UNCHANGED <<gpio, analog, at_leds, ct_reset, pin_set>>

\* After a second, in which other commands come.
at_cmd_reset_callback == ct_reset' = TRUE /\ UNCHANGED <<gpio, analog, at_leds, crypto_on, pin_set>>

AtCommand ==
  /\ at_commands < MaxAtCommands /\ at_commands' = at_commands + 1
  /\ \/ JustAnswers \/ at_cmd_leds_callback \/ at_cmd_sha256_callback \/ at_cmd_reset_callback
     \/ \E port \in AtPorts, n \in AtNumbers :
          \/ at_cmd_gpio_callback(port, n) \/ at_cmd_flop_callback(port, n)
          \/ at_cmd_read_callback(port, n)
     \/ \E n \in AtNumbers : at_cmd_adc_callback(n)

sys_ctrl_reset ==
  /\ ct_reset
  /\ gpio' = [p \in AllPins |-> "input"] /\ analog' = {} /\ at_leds' = {}
  /\ crypto_on' = FALSE /\ ct_reset' = FALSE /\ at_commands' = 0 /\ pin_set' = [p \in AllPins |-> "any"]

AtNext == AtCommand \/ sys_ctrl_reset

(***************************************************************************)
(* Properties                                                              *)
(***************************************************************************)

\* The port drives a pin to what AT&GPIO set it to, whatever the other commands are for, until AT&FLOP or
\* AT&ADC names it, or AT&READ names the pin n of its port of which it is the pin 2^n.
PinsHold == \A p \in AllPins : pin_set[p] # "any" => gpio[p] = pin_set[p]
===============================================================================
