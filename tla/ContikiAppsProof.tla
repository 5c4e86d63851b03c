---------------------------- MODULE ContikiAppsProof ----------------------------
(***************************************************************************)
(* The Contiki-NG programs of MCContikiApps keep what their properties     *)
(* say, for every value of the constants: an invariant for each program,   *)
(* kept by its own steps.                                                  *)
(***************************************************************************)
EXTENDS MCContikiApps, SumTheorems, SequenceTheorems

(***************************************************************************)
(* The hardware tests.  The pins are as PinsHold says, of its own accord.  *)
(***************************************************************************)

LEMMA AtInitially == AtInit => PinsHold
  BY DEF AtInit, PinsHold

LEMMA OnePin ==
  ASSUME NEW port, NEW n, NEW p \in AllPins
  PROVE  p = <<port, n>> <=> p[1] = port /\ p[2] = n
  BY DEF AllPins

\* Pins that are set to something else and forgotten, all of them pins of one port.
LEMMA Forgotten ==
  ASSUME PinsHold, NEW port, NEW pins, Forgets(port, pins),
         NEW f, gpio' = [p \in AllPins |-> IF p[1] = port /\ p[2] \in pins THEN f[p] ELSE gpio[p]]
  PROVE  PinsHold'
  BY DEF PinsHold, Forgets

LEMMA ConfiguredAndForgotten ==
  ASSUME PinsHold, NEW port, NEW pins, NEW type, config_gpio(port, pins, type), Forgets(port, pins)
  PROVE  PinsHold'
  BY DEF PinsHold, Forgets, config_gpio

LEMMA AtStep == PinsHold /\ [AtNext]_atVars => PinsHold'
<1> SUFFICES ASSUME PinsHold, [AtNext]_atVars PROVE PinsHold'
  OBVIOUS
<1>1. CASE UNCHANGED <<gpio, pin_set>>
  BY <1>1 DEF PinsHold
<1>2. CASE sys_ctrl_reset
  BY <1>2 DEF sys_ctrl_reset, PinsHold
<1>3. ASSUME NEW port, NEW n, at_cmd_gpio_callback(port, n) PROVE PinsHold'
  <2>1. CASE n > 7
    BY <1>1, <1>3, <2>1 DEF at_cmd_gpio_callback, JustAnswers
  <2>2. CASE ~ (n > 7)
    <3>1. PICK state \in {"low", "high"} :
            /\ config_gpio(port, {n}, state)
            /\ pin_set' = [p \in AllPins |-> IF p = <<port, n>> THEN state ELSE pin_set[p]]
      BY <1>3, <2>2 DEF at_cmd_gpio_callback
    <3>2. gpio' = [p \in AllPins |-> IF p[1] = port /\ p[2] = n THEN state ELSE gpio[p]]
      BY <3>1 DEF config_gpio
    <3>3. ASSUME NEW p \in AllPins, pin_set'[p] # "any" PROVE gpio'[p] = pin_set'[p]
      BY <3>1, <3>2, <3>3, OnePin DEF PinsHold
    <3>. QED
      BY <3>3 DEF PinsHold
  <2>. QED
    BY <2>1, <2>2
<1>4. ASSUME NEW port, NEW n, at_cmd_flop_callback(port, n) PROVE PinsHold'
  <2>1. CASE n <= 7
    BY <1>4, <2>1, ConfiguredAndForgotten DEF at_cmd_flop_callback
  <2>2. CASE ~ (n <= 7)
    <3>1. PICK f \in [Pins -> PinStates] : gpio' = [p \in AllPins |-> IF p[1] = port THEN f[p[2]] ELSE gpio[p]]
      BY <1>4, <2>2 DEF at_cmd_flop_callback
    <3>2. Forgets(port, Pins)
      BY <1>4, <2>2 DEF at_cmd_flop_callback
    <3>3. \A p \in AllPins : p[2] \in Pins
      BY DEF AllPins
    <3>. QED
      BY <3>1, <3>2, <3>3 DEF PinsHold, Forgets
  <2>. QED
    BY <2>1, <2>2
<1>5. ASSUME NEW n, at_cmd_adc_callback(n) PROVE PinsHold'
  <2>1. CASE n < 4 \/ n > 8
    BY <1>1, <1>5, <2>1 DEF at_cmd_adc_callback, JustAnswers
  <2>2. CASE ~ (n < 4 \/ n > 8)
    BY <1>5, <2>2, ConfiguredAndForgotten DEF at_cmd_adc_callback
  <2>. QED
    BY <2>1, <2>2
<1>6. ASSUME NEW port, NEW n, at_cmd_read_callback(port, n) PROVE PinsHold'
  <2>1. CASE n > 7 \/ (port = "A" /\ n <= 4)
    BY <1>1, <1>6, <2>1 DEF at_cmd_read_callback, JustAnswers
  <2>2. CASE ~ (n > 7 \/ (port = "A" /\ n <= 4))
    BY <1>6, <2>2, ConfiguredAndForgotten DEF at_cmd_read_callback
  <2>. QED
    BY <2>1, <2>2
<1>7. CASE AtCommand
  <2>1. \/ JustAnswers \/ at_cmd_leds_callback \/ at_cmd_sha256_callback \/ at_cmd_reset_callback
        \/ \E port \in AtPorts, n \in AtNumbers :
             at_cmd_gpio_callback(port, n) \/ at_cmd_flop_callback(port, n) \/ at_cmd_read_callback(port, n)
        \/ \E n \in AtNumbers : at_cmd_adc_callback(n)
    BY <1>7 DEF AtCommand
  <2>2. CASE JustAnswers \/ at_cmd_leds_callback \/ at_cmd_sha256_callback \/ at_cmd_reset_callback
    BY <1>1, <2>2 DEF JustAnswers, at_cmd_leds_callback, at_cmd_sha256_callback, at_cmd_reset_callback
  <2>. QED
    BY <2>1, <2>2, <1>3, <1>4, <1>5, <1>6
<1>. QED
  BY <1>1, <1>2, <1>7 DEF AtNext, atVars

(***************************************************************************)
(* The slip radio.                                                         *)
(***************************************************************************)

\* How many places after its own the next packet's is: no more than there were packets since.
Behind(m) == IF packet_pos > m.ptr THEN packet_pos - m.ptr - 1 ELSE packet_pos - m.ptr - 1 + RingSize

SlipInv ==
  /\ packet_ids \in [Ring -> Nat] /\ packet_pos \in Ring /\ sends \in Nat
  /\ \A m \in mac :
       /\ m.ptr \in Ring /\ m.packet \in Nat /\ m.packet <= sends
       /\ RecentEnough(m.packet) => Behind(m) <= sends - m.packet
  /\ told.type = "R" => told.about \in Nat
  /\ ReportsItsPacket

LEMMA SlipInitially == SlipInit => SlipInv
  BY SlipAssumption DEF SlipInit, SlipInv, Ring, NoAnswer, ReportsItsPacket

LEMMA NextPlaceIs ==
  ASSUME packet_pos \in Ring
  PROVE  NextPlace = (IF packet_pos = RingSize - 1 THEN 0 ELSE packet_pos + 1) /\ NextPlace \in Ring
<1>1. RingSize \in Int /\ RingSize > 0 /\ packet_pos \in Int /\ packet_pos >= 0 /\ packet_pos < RingSize
  BY SlipAssumption DEF Ring
<1>2. CASE packet_pos = RingSize - 1
  <2>1. (packet_pos + 1) % RingSize = 0
    BY <1>1, <1>2, SMT
  <2>. QED
    BY <2>1, <1>1, <1>2 DEF NextPlace, Ring
<1>3. CASE packet_pos # RingSize - 1
  <2>1. (packet_pos + 1) % RingSize = packet_pos + 1
    BY <1>1, <1>3, SMT
  <2>. QED
    BY <2>1, <1>1, <1>3 DEF NextPlace, Ring
<1>. QED
  BY <1>2, <1>3

\* One packet more, whose identifier goes to its place.
LEMMA PlaceTaken ==
  ASSUME SlipInv, sends' = sends + 1, packet_ids' = [packet_ids EXCEPT ![Place] = sends'],
         packet_pos' \in {packet_pos, NextPlace}
  PROVE  /\ packet_ids' \in [Ring -> Nat] /\ packet_pos' \in Ring /\ sends' \in Nat
         /\ \A m \in mac :
              /\ m.packet <= sends'
              /\ RecentEnough(m.packet)' => Behind(m)' <= sends' - m.packet /\ packet_ids'[m.ptr] = m.packet
         /\ told.type = "R" /\ sends' - told.about < RingSize => told.sid = told.about
<1>1. RingSize \in Int /\ RingSize > 0 /\ packet_pos \in Int /\ packet_pos >= 0 /\ packet_pos < RingSize /\ sends \in Nat
  BY SlipAssumption DEF SlipInv, Ring
<1>2. packet_ids' \in [Ring -> Nat] /\ packet_pos' \in Ring /\ sends' \in Nat
  BY <1>1, NextPlaceIs DEF SlipInv, Place
<1>3. ASSUME NEW m \in mac
      PROVE  /\ m.packet <= sends'
             /\ RecentEnough(m.packet)' => Behind(m)' <= sends' - m.packet /\ packet_ids'[m.ptr] = m.packet
  <2>1. /\ m.ptr \in Int /\ m.ptr >= 0 /\ m.ptr < RingSize /\ m.packet \in Nat /\ m.packet <= sends
        /\ sends - m.packet < RingSize => Behind(m) <= sends - m.packet /\ packet_ids[m.ptr] = m.packet
    BY SlipAssumption DEF SlipInv, Ring, RecentEnough, ReportsItsPacket
  <2>2. packet_pos' = packet_pos \/ packet_pos' = IF packet_pos = RingSize - 1 THEN 0 ELSE packet_pos + 1
    BY NextPlaceIs DEF SlipInv
  <2>3. ASSUME sends' - m.packet < RingSize
        PROVE  Behind(m)' <= sends' - m.packet /\ packet_ids'[m.ptr] = m.packet
    <3>1. Behind(m) <= sends - m.packet /\ packet_ids[m.ptr] = m.packet
      BY <1>1, <2>1, <2>3
    <3>2. m.ptr # packet_pos
      BY <1>1, <2>1, <2>3, <3>1 DEF Behind
    <3>3. packet_ids'[m.ptr] = m.packet
      BY <3>1, <3>2 DEF Place, SlipInv
    <3>4. Behind(m)' <= sends' - m.packet
      BY <1>1, <2>1, <2>2, <3>1, <3>2 DEF Behind
    <3>. QED
      BY <3>3, <3>4
  <2>. QED
    BY <1>1, <2>1, <2>3 DEF RecentEnough
<1>4. ASSUME told.type = "R", sends' - told.about < RingSize PROVE told.sid = told.about
  <2>1. told.about \in Nat /\ sends' - told.about < RingSize
    BY <1>4 DEF SlipInv
  <2>2. sends - told.about < RingSize
    BY <1>1, <2>1
  <2>. QED
    BY <1>4, <2>2 DEF SlipInv, RecentEnough, ReportsItsPacket
<1>. QED
  BY <1>2, <1>3, <1>4

LEMMA SlipStep == SlipInv /\ [SlipNext]_slipVars => SlipInv'
<1> SUFFICES ASSUME SlipInv, [SlipNext]_slipVars PROVE SlipInv'
  OBVIOUS
<1>1. CASE SendPacket
  <2>1. /\ sends' = sends + 1 /\ packet_ids' = [packet_ids EXCEPT ![Place] = sends'] /\ packet_pos' = NextPlace
    BY <1>1 DEF SendPacket
  <2>2. /\ packet_ids' \in [Ring -> Nat] /\ packet_pos' \in Ring /\ sends' \in Nat
        /\ \A m \in mac :
             /\ m.packet <= sends'
             /\ RecentEnough(m.packet)' => Behind(m)' <= sends' - m.packet /\ packet_ids'[m.ptr] = m.packet
        /\ told.type = "R" /\ sends' - told.about < RingSize => told.sid = told.about
    BY <2>1, PlaceTaken
  <2>3. packet_ids'[packet_pos] = sends' /\ packet_pos \in Ring
    BY <2>1 DEF SlipInv, Place
  <2>4. CASE mac' = mac \cup {[packet |-> sends', ptr |-> packet_pos]} /\ UNCHANGED told
    <3>1. ASSUME NEW m \in mac'
          PROVE  /\ m.ptr \in Ring /\ m.packet \in Nat /\ m.packet <= sends'
                 /\ RecentEnough(m.packet)' => Behind(m)' <= sends' - m.packet /\ packet_ids'[m.ptr] = m.packet
      <4>1. CASE m \in mac
        BY <2>2, <4>1 DEF SlipInv
      <4>2. CASE m = [packet |-> sends', ptr |-> packet_pos]
        <5>1. m.packet = sends' /\ m.ptr = packet_pos
          BY <4>2
        <5>2. Behind(m)' <= 0
          BY <2>1, <2>2, <5>1, NextPlaceIs, SlipAssumption DEF Behind, Ring, SlipInv
        <5>. QED
          BY <2>2, <2>3, <5>1, <5>2
      <4>. QED
        BY <3>1, <2>4, <4>1, <4>2
    <3>. QED
      BY <2>2, <2>4, <3>1 DEF SlipInv, ReportsItsPacket, RecentEnough
  <2>5. CASE told' = [type |-> "R", sid |-> packet_ids'[packet_pos], about |-> sends'] /\ UNCHANGED mac
    <3>1. told'.sid = sends' /\ told'.about = sends'
      BY <2>3, <2>5
    <3>. QED
      BY <2>2, <2>5, <3>1 DEF SlipInv, ReportsItsPacket
  <2>. QED
    BY <1>1, <2>4, <2>5 DEF SendPacket
<1>2. CASE SendRefused
  <2>1. sends' = sends + 1 /\ packet_ids' = [packet_ids EXCEPT ![Place] = sends'] /\ UNCHANGED <<packet_pos, mac, told>>
    BY <1>2 DEF SendRefused
  <2>2. /\ packet_ids' \in [Ring -> Nat] /\ packet_pos' \in Ring /\ sends' \in Nat
        /\ \A m \in mac :
             /\ m.packet <= sends'
             /\ RecentEnough(m.packet)' => Behind(m)' <= sends' - m.packet /\ packet_ids'[m.ptr] = m.packet
        /\ told.type = "R" /\ sends' - told.about < RingSize => told.sid = told.about
    BY <2>1, PlaceTaken
  <2>. QED
    BY <2>1, <2>2 DEF SlipInv, ReportsItsPacket, RecentEnough
<1>3. CASE ParameterCommand
  <2>1. UNCHANGED <<packet_ids, packet_pos, mac, sends>> /\ (told' = told \/ told'.type # "R")
    BY <1>3 DEF ParameterCommand
  <2>. QED
    BY <2>1 DEF SlipInv, ReportsItsPacket, RecentEnough, Behind
<1>4. ASSUME NEW m \in mac, packet_sent(m) PROVE SlipInv'
  <2>1. /\ mac' = mac \ {m} /\ UNCHANGED <<packet_ids, packet_pos, sends>>
        /\ told' = [type |-> "R", sid |-> packet_ids[m.ptr], about |-> m.packet]
    BY <1>4 DEF packet_sent
  <2>2. told'.sid = packet_ids[m.ptr] /\ told'.about = m.packet
    BY <2>1
  <2>. QED
    BY <2>1, <2>2 DEF SlipInv, ReportsItsPacket, RecentEnough, Behind
<1>5. CASE UNCHANGED slipVars
  BY <1>5 DEF slipVars, SlipInv, ReportsItsPacket, RecentEnough, Behind
<1>. QED
  BY <1>1, <1>2, <1>3, <1>4, <1>5 DEF SlipNext
(***************************************************************************)
(* The UART test node.                                                     *)
(***************************************************************************)

LEMMA SmallRemainder ==
  ASSUME NEW m \in Int, m > 0, NEW k \in Int, 0 - m <= k, k < 2 * m
  PROVE  k % m = IF k < 0 THEN k + m ELSE IF k < m THEN k ELSE k - m
<1>1. CASE k >= 0 /\ k < m
  BY <1>1, SMT
<1>2. PICK r \in Int, q \in Int : r = k % m /\ q = k \div m
  BY SMT
<1>3. r >= 0 /\ r < m /\ k = m * q + r
  BY <1>2, SMT
<1>4. CASE k < 0
  <2>1. q = -1
    <3>1. CASE q >= 0
      <4>1. m * q >= 0
        BY <3>1, SMT
      <4>. QED
        BY <1>3, <1>4, <4>1
    <3>2. CASE q <= -2
      <4>1. m * q <= m * (-2)
        BY <3>2, SMT
      <4>. QED
        BY <1>3, <1>4, <4>1
    <3>. QED
      BY <3>1, <3>2
  <2>. QED
    BY <1>2, <1>3, <1>4, <2>1
<1>5. CASE k >= m
  <2>1. q = 1
    <3>1. CASE q <= 0
      <4>1. m * q <= 0
        BY <3>1, SMT
      <4>. QED
        BY <1>3, <1>5, <4>1
    <3>2. CASE q >= 2
      <4>1. m * q >= m * 2
        BY <3>2, SMT
      <4>. QED
        BY <1>3, <1>5, <4>1
    <3>. QED
      BY <3>1, <3>2
  <2>. QED
    BY <1>2, <1>3, <1>5, <2>1
<1>. QED
  BY <1>1, <1>4, <1>5

\* How many characters the indices say there are, and where the k-th of them is.
Held == IF head_index > tail_index THEN head_index - tail_index - 1
        ELSE head_index - tail_index - 1 + RINGBUF_SIZE
PlaceOf(k) == IF tail_index + k < RINGBUF_SIZE THEN tail_index + k ELSE tail_index + k - RINGBUF_SIZE

\* Characters in the order of their arrival.
Ascending(s) == \A j, k \in DOMAIN s : j < k => s[j] < s[k]

Uart1Inv ==
  /\ ringbuf \in [RingIndices -> Nat] /\ head_index \in RingIndices /\ tail_index \in RingIndices
  /\ arrived \in Nat /\ kept \in Seq(Nat) /\ rx_buf \in Seq(Nat) /\ lines \in Seq(Nat)
  /\ Len(kept) = Held
  /\ \A k \in DOMAIN kept : ringbuf[PlaceOf(k)] = kept[k] /\ kept[k] <= arrived
  /\ kept # <<>> => rx_polled
  /\ Ascending(kept) /\ Ascending(rx_buf) /\ Ascending(lines)
  /\ \A k \in DOMAIN rx_buf :
       ~ Ends(rx_buf[k]) /\ rx_buf[k] <= arrived /\ \A j \in DOMAIN kept : rx_buf[k] < kept[j]
  /\ \A k \in DOMAIN lines : k < Len(lines) => ~ Ends(lines[k])

LEMMA RingSizes ==
  /\ RINGBUF_SIZE \in Int /\ RINGBUF_SIZE > 1
  /\ \A k : k \in RingIndices <=> k \in Int /\ k >= 0 /\ k < RINGBUF_SIZE
  BY Uart1Assumption DEF RingIndices

LEMMA FollowingIs ==
  ASSUME NEW k \in RingIndices
  PROVE  Following(k) = (IF k = RINGBUF_SIZE - 1 THEN 0 ELSE k + 1) /\ Following(k) \in RingIndices
<1>1. k + 1 \in Int /\ 0 - RINGBUF_SIZE <= k + 1 /\ k + 1 < 2 * RINGBUF_SIZE
  BY RingSizes
<1>2. (k + 1) % RINGBUF_SIZE = IF k + 1 < 0 THEN k + 1 + RINGBUF_SIZE
                               ELSE IF k + 1 < RINGBUF_SIZE THEN k + 1 ELSE k + 1 - RINGBUF_SIZE
  BY <1>1, RingSizes, SmallRemainder
<1>. QED
  BY <1>2, RingSizes DEF Following

LEMMA Indices ==
  ASSUME Uart1Inv
  PROVE  /\ RINGBUF_SIZE \in Int /\ RINGBUF_SIZE > 1
         /\ head_index \in Int /\ head_index >= 0 /\ head_index < RINGBUF_SIZE
         /\ tail_index \in Int /\ tail_index >= 0 /\ tail_index < RINGBUF_SIZE
         /\ Held = Len(kept) /\ Held \in Int /\ Held >= 0 /\ Held < RINGBUF_SIZE
<1>1. RINGBUF_SIZE \in Int /\ RINGBUF_SIZE > 1
  BY RingSizes
<1>2. head_index \in RingIndices /\ tail_index \in RingIndices /\ Held = Len(kept)
  BY DEF Uart1Inv
<1>3. /\ head_index \in Int /\ head_index >= 0 /\ head_index < RINGBUF_SIZE
      /\ tail_index \in Int /\ tail_index >= 0 /\ tail_index < RINGBUF_SIZE
  BY <1>2, RingSizes
<1>. QED
  BY <1>1, <1>2, <1>3 DEF Held

LEMMA Uart1IsSafe == Uart1Inv => Uart1Safe
<1> SUFFICES ASSUME Uart1Inv PROVE Uart1Safe
  OBVIOUS
<1>1. Len(kept) = (head_index - tail_index - 1) % RINGBUF_SIZE
  <2>1. PICK d \in Int : d = head_index - tail_index - 1
    BY Indices
  <2>2. 0 - RINGBUF_SIZE <= d /\ d < 2 * RINGBUF_SIZE
    BY <2>1, Indices
  <2>3. d % RINGBUF_SIZE = IF d < 0 THEN d + RINGBUF_SIZE ELSE IF d < RINGBUF_SIZE THEN d ELSE d - RINGBUF_SIZE
    BY <2>2, RingSizes, SmallRemainder
  <2>. QED
    BY <2>1, <2>2, <2>3, Indices, SMTT(60) DEF Held
<1>2. ASSUME NEW k \in DOMAIN kept PROVE ringbuf[(tail_index + k) % RINGBUF_SIZE] = kept[k]
  <2>0. k \in Int /\ k >= 1 /\ k <= Held /\ Held < RINGBUF_SIZE
    BY Indices DEF Uart1Inv
  <2>1. PICK d \in Int : d = tail_index + k
    BY <2>0, Indices
  <2>2. k >= 1 /\ k < RINGBUF_SIZE
    BY <2>0, Indices
  <2>3. 0 - RINGBUF_SIZE <= d /\ d < 2 * RINGBUF_SIZE /\ d >= 0
    BY <2>0, <2>1, <2>2, Indices
  <2>4. d % RINGBUF_SIZE = IF d < 0 THEN d + RINGBUF_SIZE ELSE IF d < RINGBUF_SIZE THEN d ELSE d - RINGBUF_SIZE
    BY <2>3, RingSizes, SmallRemainder
  <2>5. (tail_index + k) % RINGBUF_SIZE = PlaceOf(k)
    BY <2>1, <2>3, <2>4, Indices, SMTT(60) DEF PlaceOf
  <2>. QED
    BY <2>5 DEF Uart1Inv
<1>3. ASSUME NEW k \in 1 .. Len(lines) - 1 PROVE lines[k] < lines[k + 1] /\ ~ Ends(lines[k])
  <2>1. k \in DOMAIN lines /\ k + 1 \in DOMAIN lines /\ k < k + 1 /\ k < Len(lines)
    BY SMTT(60) DEF Uart1Inv
  <2>. QED
    BY <2>1 DEF Uart1Inv, Ascending
<1>. QED
  BY <1>1, <1>2, <1>3 DEF Uart1Safe, RingIsQueue, LinesInOrder, Uart1Inv

LEMMA Uart1Initially == Uart1Init => Uart1Inv
<1> SUFFICES ASSUME Uart1Init PROVE Uart1Inv
  OBVIOUS
<1>1. 0 \in RingIndices /\ 1 \in RingIndices
  BY RingSizes
<1>2. kept \in Seq(Nat) /\ rx_buf \in Seq(Nat) /\ lines \in Seq(Nat) /\ Len(kept) = 0 /\ DOMAIN kept = {} /\ DOMAIN rx_buf = {} /\ DOMAIN lines = {}
  BY DEF Uart1Init
<1>. QED
  BY <1>1, <1>2 DEF Uart1Init, Uart1Inv, Held, Ascending, Nul

LEMMA AppendDomain ==
  ASSUME NEW S, NEW s \in Seq(S), NEW e \in S
  PROVE  /\ Append(s, e) \in Seq(S) /\ s \o <<e>> = Append(s, e) /\ Len(Append(s, e)) = Len(s) + 1
         /\ \A k \in DOMAIN Append(s, e) : k \in DOMAIN s \/ k = Len(s) + 1
         /\ \A k \in DOMAIN s : k \in Int /\ k <= Len(s) /\ k \in DOMAIN Append(s, e) /\ Append(s, e)[k] = s[k]
         /\ Append(s, e)[Len(s) + 1] = e /\ Len(s) \in Nat
  OBVIOUS

LEMMA TailDomain ==
  ASSUME NEW S, NEW s \in Seq(S), s # <<>>
  PROVE  /\ Tail(s) \in Seq(S) /\ Len(Tail(s)) = Len(s) - 1
         /\ \A k \in DOMAIN Tail(s) : k \in Int /\ k >= 1 /\ k + 1 \in DOMAIN s /\ Tail(s)[k] = s[k + 1]
         /\ 1 \in DOMAIN s /\ Head(s) = s[1] /\ Len(s) \in Nat /\ Len(s) > 0
  OBVIOUS

LEMMA AscendingAppend ==
  ASSUME NEW s \in Seq(Nat), NEW e \in Nat, Ascending(s), \A k \in DOMAIN s : s[k] < e
  PROVE  Ascending(Append(s, e))
  BY AppendDomain DEF Ascending

LEMMA CharKept ==
  ASSUME Uart1Inv, ~ Full, handleRxChar
  PROVE  Uart1Inv'
<1>1. /\ ringbuf' = [ringbuf EXCEPT ![head_index] = arrived'] /\ head_index' = Following(head_index)
      /\ kept' = Append(kept, arrived') /\ rx_polled' = TRUE /\ arrived' = arrived + 1
      /\ UNCHANGED <<tail_index, rx_buf, lines>>
  BY DEF handleRxChar
<1>2. /\ arrived' \in Nat /\ kept' \in Seq(Nat) /\ Len(kept') = Len(kept) + 1 /\ ringbuf' \in [RingIndices -> Nat]
      /\ head_index' \in RingIndices
  BY <1>1, AppendDomain, FollowingIs DEF Uart1Inv
<1>. head_index # tail_index /\ head_index' = IF head_index = RINGBUF_SIZE - 1 THEN 0 ELSE head_index + 1
  BY <1>1, FollowingIs DEF Full, Uart1Inv
<1>3. Len(kept') = Held'
  BY <1>1, <1>2, Indices, SMTT(60) DEF Held
<1>4. ASSUME NEW k \in DOMAIN kept' PROVE ringbuf'[PlaceOf(k)'] = kept'[k] /\ kept'[k] <= arrived'
  <2>1. CASE k \in DOMAIN kept
    <3>1. ringbuf[PlaceOf(k)] = kept[k] /\ kept[k] <= arrived /\ kept'[k] = kept[k] /\ k \in Int /\ k >= 1 /\ k <= Held
      BY <1>1, <2>1, AppendDomain DEF Uart1Inv
    <3>0. head_index # tail_index /\ tail_index + k \in Int /\ tail_index + k > tail_index
      BY <3>1, Indices
    <3>2. PlaceOf(k) # head_index
      BY <3>0, <3>1, Indices DEF Held, PlaceOf
    <3>3. PlaceOf(k)' = PlaceOf(k)
      BY <1>1 DEF PlaceOf
    <3>4. kept[k] \in Nat
      BY <2>1 DEF Uart1Inv
    <3>. QED
      BY <1>1, <3>1, <3>2, <3>3, <3>4, SMTT(60) DEF Uart1Inv
  <2>2. CASE k = Len(kept) + 1
    <3>1. kept'[k] = arrived'
      BY <1>1, <1>2, <2>2, AppendDomain DEF Uart1Inv
    <3>0. head_index # tail_index /\ Len(kept) = Held /\ tail_index' = tail_index
      BY <1>1, Indices
    <3>2. PlaceOf(k)' = head_index
      BY <2>2, <3>0, Indices DEF Held, PlaceOf
    <3>. QED
      BY <1>1, <1>2, <3>1, <3>2 DEF Uart1Inv
  <2>. QED
    BY <1>1, <1>2, <2>1, <2>2, AppendDomain DEF Uart1Inv
<1>5. Ascending(kept')
  <2>1. \A k \in DOMAIN kept : kept[k] < arrived'
    BY <1>1 DEF Uart1Inv
  <2>. QED
    BY <1>1, <1>2, <2>1, AscendingAppend, Zenon DEF Uart1Inv
<1>6. \A k \in DOMAIN rx_buf' :
        ~ Ends(rx_buf'[k]) /\ rx_buf'[k] <= arrived' /\ \A j \in DOMAIN kept' : rx_buf'[k] < kept'[j]
  <2> SUFFICES ASSUME NEW k \in DOMAIN rx_buf, NEW j \in DOMAIN kept'
               PROVE  ~ Ends(rx_buf[k]) /\ rx_buf[k] <= arrived' /\ rx_buf[k] < kept'[j]
    BY <1>1, <1>2, SMTT(60) DEF Uart1Inv
  <2>1. ~ Ends(rx_buf[k]) /\ rx_buf[k] <= arrived /\ rx_buf[k] \in Nat /\ \A i \in DOMAIN kept : rx_buf[k] < kept[i]
    BY SMTT(60) DEF Uart1Inv
  <2>2. j \in DOMAIN kept \/ j = Len(kept) + 1
    BY <1>1, <1>2, AppendDomain, SMTT(60) DEF Uart1Inv
  <2>3. \A i \in DOMAIN kept : kept'[i] = kept[i]
    BY <1>1, <1>2, AppendDomain DEF Uart1Inv
  <2>4. kept'[Len(kept) + 1] = arrived'
    BY <1>1, <1>2, AppendDomain DEF Uart1Inv
  <2>. QED
    BY <1>1, <2>1, <2>2, <2>3, <2>4, SMTT(60) DEF Uart1Inv
<1>7. \A k \in DOMAIN rx_buf' : rx_buf'[k] <= arrived'
  BY <1>1, SMTT(30) DEF Uart1Inv
<1>. QED
  BY <1>1, <1>2, <1>3, <1>4, <1>5, <1>6, Zenon DEF Uart1Inv

LEMMA CharRead ==
  ASSUME Uart1Inv, ReadChar
  PROVE  Uart1Inv'
<1> DEFINE c == kept[1]
           before == IF Len(rx_buf) = RINGBUF_SIZE THEN <<>> ELSE rx_buf
           line == Append(before, c)
<1>1. /\ ~ Empty /\ tail_index' = Following(tail_index) /\ kept' = Tail(kept)
      /\ UNCHANGED <<ringbuf, head_index, rx_polled, arrived>>
  BY DEF ReadChar
<1>2. /\ tail_index' \in RingIndices
      /\ tail_index' = IF tail_index = RINGBUF_SIZE - 1 THEN 0 ELSE tail_index + 1
  BY <1>1, FollowingIs DEF Uart1Inv
<1>3. Held > 0 /\ kept # <<>>
  <2>1. Held # 0
    BY <1>1, <1>2, Indices DEF Held, Empty
  <2>. QED
    BY <2>1 DEF Uart1Inv
<1>4. /\ kept' \in Seq(Nat) /\ Len(kept') = Len(kept) - 1 /\ 1 \in DOMAIN kept /\ Len(kept) \in Nat
      /\ \A k \in DOMAIN kept' : k \in Int /\ k >= 1 /\ k + 1 \in DOMAIN kept /\ kept'[k] = kept[k + 1]
  BY <1>1, <1>3, TailDomain, Zenon DEF Uart1Inv
<1>5. ringbuf[tail_index'] = c /\ c \in Nat /\ c <= arrived
  <2>1. PlaceOf(1) = tail_index'
    BY <1>2, Indices DEF PlaceOf
  <2>. QED
    BY <1>4, <2>1, SMTT(60) DEF Uart1Inv
<1>6. before \in Seq(Nat) /\ Ascending(before)
  BY SMTT(60) DEF Uart1Inv, Ascending
<1>7. \A k \in DOMAIN before :
        ~ Ends(before[k]) /\ before[k] <= arrived /\ \A j \in DOMAIN kept : before[k] < kept[j]
  BY DEF Uart1Inv
<1>8. IF Ends(c) THEN lines' = line /\ rx_buf' = <<>> ELSE rx_buf' = line /\ lines' = lines
  <2>1. before \o <<c>> = line
    BY <1>5, <1>6, AppendDomain
  <2>. QED
    BY <1>5, <2>1 DEF ReadChar
<1> HIDE DEF before
<1>9. line \in Seq(Nat) /\ Ascending(line)
  BY <1>4, <1>5, <1>6, <1>7, AppendDomain, AscendingAppend, Zenon
<1>10. ASSUME NEW j \in DOMAIN kept' PROVE c < kept'[j]
  <2>1. j + 1 \in DOMAIN kept /\ 1 < j + 1
    BY <1>4
  <2>2. kept[1] < kept[j + 1]
    BY <1>4, <2>1, Zenon DEF Uart1Inv, Ascending
  <2>. QED
    BY <1>4, <2>2
<1>11. \A k \in DOMAIN line : k \in DOMAIN before \/ k = Len(before) + 1
  BY <1>5, <1>6, AppendDomain
<1>12. /\ line[Len(before) + 1] = c /\ Len(line) = Len(before) + 1
       /\ \A k \in DOMAIN before : line[k] = before[k] /\ k < Len(line)
  BY <1>5, <1>6, AppendDomain
<1>13. Len(kept') = Held'
  BY <1>1, <1>2, <1>3, <1>4, Indices, SMTT(60) DEF Held
<1>14. ASSUME NEW k \in DOMAIN kept' PROVE ringbuf'[PlaceOf(k)'] = kept'[k] /\ kept'[k] <= arrived'
  <2>1. kept'[k] = kept[k + 1] /\ k \in Int /\ k >= 1 /\ k + 1 \in DOMAIN kept /\ k + 1 <= Held
    BY <1>4 DEF Uart1Inv
  <2>2. PlaceOf(k)' = PlaceOf(k + 1)
    BY <1>2, <2>1, Indices, SMTT(60) DEF PlaceOf
  <2>. QED
    BY <1>1, <2>1, <2>2, Zenon DEF Uart1Inv
<1>15. Ascending(kept')
  <2> SUFFICES ASSUME NEW j \in DOMAIN kept', NEW k \in DOMAIN kept', j < k PROVE kept'[j] < kept'[k]
    BY DEF Ascending
  <2>1. j + 1 \in DOMAIN kept /\ k + 1 \in DOMAIN kept /\ j + 1 < k + 1
    BY <1>4
  <2>2. kept[j + 1] < kept[k + 1]
    BY <2>1 DEF Uart1Inv, Ascending
  <2>. QED
    BY <1>4, <2>2
<1>16. kept' # <<>> => rx_polled'
  BY <1>1, <1>3 DEF Uart1Inv
<1>17. CASE Ends(c)
  <2>1. lines' = line /\ rx_buf' = <<>>
    BY <1>8, <1>17
  <2>2. rx_buf' \in Seq(Nat) /\ DOMAIN rx_buf' = {}
    BY <2>1
  <2>3. \A k \in DOMAIN lines' : k < Len(lines') => ~ Ends(lines'[k])
    BY <2>1, <1>7, <1>11, <1>12
  <2> HIDE DEF line
  <2>. QED
    BY <1>1, <1>2, <1>4, <1>9, <1>13, <1>14, <1>15, <1>16, <2>1, <2>2, <2>3 DEF Uart1Inv, Ascending
<1>18. CASE ~ Ends(c)
  <2>1. lines' = lines /\ rx_buf' = line
    BY <1>8, <1>18
  <2>2. ASSUME NEW k \in DOMAIN line
        PROVE  ~ Ends(line[k]) /\ line[k] <= arrived /\ \A j \in DOMAIN kept' : line[k] < kept'[j]
    <3>1. CASE k \in DOMAIN before
      <4>1. line[k] = before[k]
        BY <1>12, <3>1
      <4>. QED
        BY <1>4, <1>7, <3>1, <4>1
    <3>2. CASE k = Len(before) + 1
      BY <1>5, <1>10, <1>12, <1>18, <3>2
    <3>. QED
      BY <1>11, <3>1, <3>2
  <2> HIDE DEF line
  <2>. QED
    BY <1>1, <1>2, <1>4, <1>9, <1>13, <1>14, <1>15, <1>16, <2>1, <2>2 DEF Uart1Inv
<1>. QED
  BY <1>17, <1>18

LEMMA Uart1Step == Uart1Inv /\ [Uart1Next]_uart1Vars => Uart1Inv'
<1> SUFFICES ASSUME Uart1Inv, [Uart1Next]_uart1Vars PROVE Uart1Inv'
  OBVIOUS
<1>1. CASE UNCHANGED <<ringbuf, head_index, tail_index, rx_buf, rx_polled, kept, lines>> /\ arrived' \in Nat /\ arrived' >= arrived
  BY <1>1, SMTT(60) DEF Uart1Inv, Held, PlaceOf
<1>2. CASE handleRxChar
  <2>1. CASE Full
    <3>1. UNCHANGED <<ringbuf, head_index, tail_index, rx_buf, rx_polled, kept, lines>> /\ arrived' = arrived + 1
      BY <1>2, <2>1 DEF handleRxChar
    <3>. QED
      BY <1>1, <3>1 DEF Uart1Inv
  <2>. QED
    BY <1>2, <2>1, CharKept
<1>3. CASE ReadChar
  BY <1>3, CharRead
<1>4. CASE NothingToRead
  <2>0. head_index = IF tail_index = RINGBUF_SIZE - 1 THEN 0 ELSE tail_index + 1
    BY <1>4, FollowingIs DEF NothingToRead, Uart1Inv, Empty
  <2>1. Held = 0
    BY <2>0, Indices DEF Held
  <2>2. kept = <<>>
    BY <2>1 DEF Uart1Inv
  <2>. QED
    BY <1>4, <2>2 DEF NothingToRead, Uart1Inv, Held, PlaceOf
<1>5. CASE UNCHANGED uart1Vars
  BY <1>1, <1>5 DEF uart1Vars, Uart1Inv
<1>. QED
  BY <1>2, <1>3, <1>4, <1>5 DEF Uart1Next

(***************************************************************************)
(* The tests of the crypto engine.                                         *)
(***************************************************************************)

VectorKinds == [size : Int, area : Int] \cup [buffers : Int]

LEMMA KeyedVectors ==
  ASSUME NEW index \in Int, NEW areas \in Seq(Int)
  PROVE  WithKeys(index, areas) \in Seq(VectorKinds)
<1>1. \A k \in 1 .. Len(areas) : [size |-> index, area |-> areas[k]] \in VectorKinds
  BY DEF VectorKinds
<1>2. DOMAIN areas = 1 .. Len(areas) /\ Len(areas) \in Nat
  OBVIOUS
<1>. QED
  BY <1>1, <1>2, IsASeq DEF WithKeys

LEMMA AreaLists ==
  /\ Eight \in Seq(Int) /\ Even \in Seq(Int) /\ SubSeq(Eight, 1, 4) \in Seq(Int) /\ SubSeq(Eight, 5, 8) \in Seq(Int)
  /\ Even \o Even \in Seq(Int) /\ <<0, 1, 0, 0, 1, 0>> \in Seq(Int) /\ <<0, 0>> \in Seq(Int)
  BY DEF Eight, Even

LEMMA Together2 ==
  ASSUME NEW S, NEW s \in Seq(S), NEW t \in Seq(S) PROVE s \o t \in Seq(S)
  OBVIOUS

LEMMA TablesAreLists ==
  ASSUME suite \in {"ccm", "gcm", "cbc", "cbc_mac", "ecb", "ctr", "sha256"}
  PROVE  Vectors \in Seq(VectorKinds) /\ Len(Vectors) \in Nat
<1>0. \A index \in {0, 1, 2}, areas \in Seq(Int) : WithKeys(index, areas) \in Seq(VectorKinds)
  BY KeyedVectors
<1>1. /\ Ccm128 \in Seq(VectorKinds) /\ Ccm192 \in Seq(VectorKinds) /\ Ccm256 \in Seq(VectorKinds)
      /\ Gcm128 \in Seq(VectorKinds) /\ Gcm192 \in Seq(VectorKinds) /\ Gcm256 \in Seq(VectorKinds)
      /\ Cbc128Encrypted \in Seq(VectorKinds) /\ Cbc128Decrypted \in Seq(VectorKinds) /\ Cbc192 \in Seq(VectorKinds)
      /\ Cbc256 \in Seq(VectorKinds) /\ CbcMac128 \in Seq(VectorKinds) /\ CbcMac192 \in Seq(VectorKinds)
      /\ CbcMac256 \in Seq(VectorKinds) /\ Ecb128Encrypted \in Seq(VectorKinds) /\ Ecb128Decrypted \in Seq(VectorKinds)
      /\ Ecb192 \in Seq(VectorKinds) /\ Ecb256 \in Seq(VectorKinds)
  <2>1. Ccm128 \in Seq(VectorKinds)
    BY <1>0, AreaLists, Zenon DEF Ccm128
  <2>2. Ccm192 \in Seq(VectorKinds)
    BY <1>0, AreaLists, Zenon DEF Ccm192
  <2>3. Ccm256 \in Seq(VectorKinds)
    BY <1>0, AreaLists, Zenon DEF Ccm256
  <2>4. Gcm128 \in Seq(VectorKinds)
    BY <1>0, AreaLists, Zenon DEF Gcm128
  <2>5. Gcm192 \in Seq(VectorKinds)
    BY <1>0, AreaLists, Zenon DEF Gcm192
  <2>6. Gcm256 \in Seq(VectorKinds)
    BY <1>0, AreaLists, Zenon DEF Gcm256
  <2>7. Cbc128Encrypted \in Seq(VectorKinds)
    BY <1>0, AreaLists, Zenon DEF Cbc128Encrypted
  <2>8. Cbc128Decrypted \in Seq(VectorKinds)
    BY <1>0, AreaLists, Zenon DEF Cbc128Decrypted
  <2>9. Cbc192 \in Seq(VectorKinds)
    BY <1>0, AreaLists, Zenon DEF Cbc192
  <2>10. Cbc256 \in Seq(VectorKinds)
    BY <1>0, AreaLists, Zenon DEF Cbc256
  <2>11. CbcMac128 \in Seq(VectorKinds)
    BY <1>0, AreaLists, Zenon DEF CbcMac128
  <2>12. CbcMac192 \in Seq(VectorKinds)
    BY <1>0, AreaLists, Zenon DEF CbcMac192
  <2>13. CbcMac256 \in Seq(VectorKinds)
    BY <1>0, AreaLists, Zenon DEF CbcMac256
  <2>14. Ecb128Encrypted \in Seq(VectorKinds)
    BY <1>0, AreaLists, Zenon DEF Ecb128Encrypted
  <2>15. Ecb128Decrypted \in Seq(VectorKinds)
    BY <1>0, AreaLists, Zenon DEF Ecb128Decrypted
  <2>16. Ecb192 \in Seq(VectorKinds)
    BY <1>0, AreaLists, Zenon DEF Ecb192
  <2>17. Ecb256 \in Seq(VectorKinds)
    BY <1>0, AreaLists, Zenon DEF Ecb256
  <2>. QED
    BY <2>1, <2>2, <2>3, <2>4, <2>5, <2>6, <2>7, <2>8, <2>9, <2>10, <2>11, <2>12, <2>13, <2>14, <2>15, <2>16, <2>17
<1>2. WithKeys(0, <<0, 0>>) \in Seq(VectorKinds) /\ WithKeys(1, <<0, 0>>) \in Seq(VectorKinds) /\ WithKeys(2, <<0, 0>>) \in Seq(VectorKinds)
  BY <1>0, AreaLists, Zenon
<1>3. Ctr \in Seq(VectorKinds)
  BY <1>2, Together2 DEF Ctr
<1>4. Sha256 \in Seq(VectorKinds)
  <2>1. \A k \in 1 .. 9 : [buffers |-> IF k <= 6 THEN 1 ELSE IF k = 9 THEN 3 ELSE 2] \in VectorKinds
    BY DEF VectorKinds
  <2>. QED
    BY <2>1, IsASeq DEF Sha256
<1>5. Vectors \in Seq(VectorKinds)
  <2>1. CASE suite = "ccm"
    BY <2>1, <1>1, Together2 DEF Vectors
  <2>2. CASE suite = "gcm"
    BY <2>2, <1>1, Together2 DEF Vectors
  <2>3. CASE suite = "cbc"
    BY <2>3, <1>1, Together2 DEF Vectors
  <2>4. CASE suite = "cbc_mac"
    BY <2>4, <1>1, Together2 DEF Vectors
  <2>5. CASE suite = "ecb"
    BY <2>5, <1>1, Together2 DEF Vectors
  <2>6. CASE suite = "ctr"
    BY <2>6, <1>3 DEF Vectors
  <2>7. CASE suite = "sha256"
    BY <2>7, <1>4 DEF Vectors
  <2>. QED
    BY <2>1, <2>2, <2>3, <2>4, <2>5, <2>6, <2>7
<1>. QED
  BY <1>5

\* The keys in the store are of the size that was loaded last; an operation has the vector
\* for which it was started.
CryptoInv ==
  /\ suite \in {"ccm", "gcm", "cbc", "cbc_mac", "ecb", "ctr", "sha256"}
  /\ cryptoAt \in {"begin", "head", "start", "wait", "hash", "compare", "disable", "end"}
  /\ vector \in Int /\ outcomes \in Int
  /\ operand \in [of : Int, is : {"in", "out", "junk"}]
  /\ store.size = key_size_index
  /\ cryptoAt \in {"start", "wait"} => ~ Hashes /\ key_size_index = Current.size
  /\ cryptoAt = "wait" => Current.area \in store.areas /\ operand.of = vector
  /\ vector <= Len(Vectors) + 1
  /\ cryptoAt \in {"start", "wait", "hash", "compare"} => vector <= Len(Vectors)
  /\ cryptoAt \in {"head", "start", "hash", "compare"} => engine = "idle"
  /\ cryptoAt = "disable" => store.areas = {}
  /\ CryptoSafe

LEMMA CryptoInitially == CryptoInit => CryptoInv
<1> SUFFICES ASSUME CryptoInit PROVE CryptoInv
  OBVIOUS
<1>1. Len(Vectors) \in Nat
  BY TablesAreLists, SMTT(30) DEF CryptoInit
<1>. QED
  BY <1>1 DEF CryptoInit, CryptoInv, CryptoSafe, KeyInPlace, ComparesOutput, WillBeWoken, OneVerdictEach

LEMMA CryptoStep == CryptoInv /\ [CryptoNext]_cryptoVars => CryptoInv'
<1> SUFFICES ASSUME CryptoInv, [CryptoNext]_cryptoVars PROVE CryptoInv'
  OBVIOUS
<1>0. suite' = suite
  BY DEF CryptoNext, cryptoVars, crypto_init, aes_load_keys, crypt_start, EngineFinishes, get_result, sha256_init, sha256_process,
     sha256_done, CompareOutput, crypto_disable
<1>1. Vectors' = Vectors /\ Hashes' = Hashes
  BY <1>0 DEF Vectors, Hashes
<1>2. Len(Vectors) \in Nat
  BY TablesAreLists DEF CryptoInv
<1>3. vector' = vector => Current' = Current
  BY <1>1 DEF Current
<1> USE DEF CryptoInv, CryptoSafe, KeyInPlace, ComparesOutput, WillBeWoken, OneVerdictEach
<1>4. CASE crypto_init
  BY <1>0, <1>1, <1>2, <1>3, <1>4 DEF crypto_init
<1>5. CASE aes_load_keys
  BY <1>0, <1>1, <1>2, <1>3, <1>5 DEF aes_load_keys
<1>6. CASE crypt_start
  BY <1>0, <1>1, <1>2, <1>3, <1>6 DEF crypt_start, NextVector, NeedsKeys
<1>7. CASE EngineFinishes
  BY <1>0, <1>1, <1>2, <1>3, <1>7 DEF EngineFinishes
<1>8. CASE get_result
  BY <1>0, <1>1, <1>2, <1>3, <1>8 DEF get_result, NextVector, Woken
<1>9. CASE sha256_init
  BY <1>0, <1>1, <1>2, <1>3, <1>9 DEF sha256_init, NextVector
<1>10. CASE sha256_process
  BY <1>0, <1>1, <1>2, <1>3, <1>10 DEF sha256_process, NextVector
<1>11. CASE sha256_done
  BY <1>0, <1>1, <1>2, <1>3, <1>11 DEF sha256_done, NextVector
<1>12. CASE CompareOutput
  BY <1>0, <1>1, <1>2, <1>3, <1>12 DEF CompareOutput, NextVector
<1>13. CASE crypto_disable
  BY <1>0, <1>1, <1>2, <1>3, <1>13 DEF crypto_disable
<1>14. CASE UNCHANGED cryptoVars
  BY <1>0, <1>1, <1>2, <1>3, <1>14 DEF cryptoVars
<1>. QED
  BY <1>4, <1>5, <1>6, <1>7, <1>8, <1>9, <1>10, <1>11, <1>12, <1>13, <1>14, Zenon DEF CryptoNext

(***************************************************************************)
(* The tests of the public key accelerator.                                *)
(***************************************************************************)

LastOperation == IF pkaTest = "ecdh" THEN 7 ELSE IF pkaTest = "sign" THEN 3 ELSE 1

LEMMA OperationsAre ==
  /\ pkaTest = "ecdh" =>
       /\ Operations[1] = "secret_a" /\ Operations[2] = "secret_b"
       /\ Operations[3] = "round_1a" /\ Operations[4] = "round_1b"
       /\ Operations[5] = "round_2a" /\ Operations[6] = "round_2b" /\ Operations[7] = "check"
  /\ pkaTest = "sign" => Operations[1] = "sign" /\ Operations[2] = "check_r" /\ Operations[3] = "check_s"
  /\ pkaTest = "verify" => Operations[1] = "verify"
  BY DEF Operations

LEMMA OperationCount ==
  ASSUME pkaTest \in {"ecdh", "sign", "verify"}
  PROVE  Len(Operations) = LastOperation /\ \A k : k \in DOMAIN Operations <=> k \in Int /\ k >= 1 /\ k <= LastOperation
<1>1. CASE pkaTest = "ecdh"
  <2>1. Operations = <<"secret_a", "secret_b", "round_1a", "round_1b", "round_2a", "round_2b", "check">>
    BY <1>1, Zenon DEF Operations
  <2>. QED
    BY <1>1, <2>1 DEF LastOperation
<1>2. CASE pkaTest = "sign"
  <2>1. Operations = <<"sign", "check_r", "check_s">>
    BY <1>2, Zenon DEF Operations
  <2>. QED
    BY <1>2, <2>1 DEF LastOperation
<1>3. CASE pkaTest = "verify"
  <2>1. Operations = <<"verify">>
    BY <1>3, Zenon DEF Operations
  <2>. QED
    BY <1>3, <2>1 DEF LastOperation
<1>. QED
  BY <1>1, <1>2, <1>3

\* What a side has computed, by how far the exchange is; with no failure every round adds a secret.
Computed(s, round) ==
  /\ round = 0 => point_out[s] = Unset
  /\ round = 1 => point_out[s] \in {Unset, {s}} /\ (~ failed => point_out[s] = {s})
  /\ round = 2 => point_out[s] \in {Unset, {s}, Sides} /\ (~ failed => point_out[s] = Sides)

Agreed == <<TRUE>>
Refuted == <<FALSE>>

EcdhInv ==
  /\ pkaAt >= 1 /\ pkaAt <= 2 => compared["b"] = Order
  /\ pkaAt = 2 => lessThan = {"a"}
  /\ pkaAt <= 1 => lessThan = {}
  /\ pkaAt >= 3 => lessThan = Sides
  /\ pkaAt >= 1 /\ pkaAt <= 4 => point_in["a"] = {} /\ point_in["b"] = {}
  /\ pkaAt = 5 => point_in["a"] = point_out["b"]
  /\ pkaAt >= 5 /\ pkaAt <= 6 => point_in["b"] \in {Unset, {"a"}} /\ (~ failed => point_in["b"] = {"a"})
  /\ pkaAt = 5 => point_in["b"] = point_out["a"]
  /\ Computed("a", IF pkaAt <= 3 THEN 0 ELSE IF pkaAt <= 5 THEN 1 ELSE 2)
  /\ Computed("b", IF pkaAt <= 4 THEN 0 ELSE IF pkaAt <= 6 THEN 1 ELSE 2)
  /\ pkaAt = 7 /\ accelerator = "busy" => compared["a"] = point_out["a"] /\ compared["b"] = point_out["b"]
  /\ pkaAt <= 7 => printed = <<>>
  /\ pkaAt = 8 =>
       /\ printed \in {Agreed, Refuted} /\ (~ failed => printed = Agreed)
       /\ printed = Agreed => point_out["a"] = point_out["b"]

PkaInv ==
  /\ pkaTest \in {"ecdh", "sign", "verify"}
  /\ pkaAt \in Int /\ pkaAt >= 0 /\ pkaAt <= LastOperation + 1
  /\ accelerator = "busy" => pkaAt >= 1 /\ pkaAt <= LastOperation
  /\ DOMAIN point_in = Sides /\ DOMAIN compared = Sides
  /\ point_out = [s \in Sides |-> point_out[s]] /\ DOMAIN point_out = Sides
  /\ IF pkaTest = "ecdh" THEN EcdhInv ELSE \A s \in Sides : point_out[s] = Unset

LEMMA Different == /\ Unset # {} /\ Unset # {"a"} /\ Unset # {"b"} /\ Unset # Sides /\ Unset # Order
                   /\ {"a"} # {"b"} /\ {"a"} # Sides /\ {"b"} # Sides
                   /\ "a" \in Sides /\ "b" \in Sides /\ {"a", "b"} = Sides /\ Agreed # Refuted
                   /\ \A s \in Sides : s = "a" \/ s = "b"
<1>1. "a" # "b" /\ "a" # "unset" /\ "b" # "unset" /\ "order" # "unset"
  OBVIOUS
<1>2. Agreed # Refuted
  BY DEF Agreed, Refuted
<1>. QED
  BY <1>1, <1>2 DEF Unset, Order, Sides

LEMMA PkaIsSafe == PkaInv => SecretsAreValid /\ SecretIsShared
<1> SUFFICES ASSUME PkaInv PROVE SecretsAreValid /\ SecretIsShared
  OBVIOUS
<1>1. CASE pkaTest = "ecdh"
  <2>1. SecretsAreValid
    BY <1>1, OperationsAre, Different DEF PkaInv, EcdhInv, SecretsAreValid, Operation, Computed, LastOperation
  <2>2. ASSUME pkaAt = 8, ~ failed PROVE printed = Agreed /\ point_out = [s \in Sides |-> Sides]
    <3>1. point_out["a"] = Sides /\ point_out["b"] = Sides
      BY <1>1, <2>2 DEF PkaInv, EcdhInv, Computed, LastOperation
    <3>. QED
      <4>1. printed = Agreed
        BY <1>1, <2>2 DEF PkaInv, EcdhInv
      <4>2. point_out = [s \in Sides |-> Sides]
        BY <3>1, Different DEF PkaInv
      <4>. QED
        BY <4>1, <4>2
  <2>3. ASSUME printed = Agreed
        PROVE  point_out["a"] = point_out["b"] /\ point_out["a"] \in {Sides, Unset}
    <3>1. pkaAt = 8
      <4>1. pkaAt <= 8 /\ pkaAt \in Int
        BY <1>1 DEF PkaInv, LastOperation
      <4>2. pkaAt <= 7 => printed = <<>>
        BY <1>1 DEF PkaInv, EcdhInv
      <4>3. <<>> # Agreed
        BY DEF Agreed
      <4>. QED
        BY <2>3, <4>1, <4>2, <4>3
    <3>. QED
      BY <1>1, <2>3, <3>1, Different DEF PkaInv, EcdhInv, Computed, LastOperation
  <2>. QED
    BY <2>1, <2>2, <2>3, Zenon DEF SecretIsShared, Agreed
<1>2. CASE pkaTest # "ecdh"
  <2>1. SecretsAreValid
    <3>1. accelerator = "busy" => Operation \notin {"secret_a", "secret_b"}
      BY <1>2, OperationsAre DEF PkaInv, Operation, LastOperation
    <3>. QED
      BY <1>2, <3>1 DEF PkaInv, SecretsAreValid
  <2>2. pkaAt # 8
    BY <1>2 DEF PkaInv, LastOperation
  <2>. QED
    BY <1>2, <2>1, <2>2, Zenon DEF SecretIsShared
<1>. QED
  BY <1>1, <1>2

LEMMA PkaInitially == PkaInit => PkaInv
  BY OperationsAre, Different DEF PkaInit, PkaInv, EcdhInv, Computed, LastOperation

LEMMA PkaStep == PkaInv /\ [PkaNext]_pkaVars => PkaInv'
<1> SUFFICES ASSUME PkaInv, [PkaNext]_pkaVars PROVE PkaInv'
  OBVIOUS
<1>0. pkaTest' = pkaTest /\ pkaTest \in {"ecdh", "sign", "verify"}
  BY Zenon DEF PkaInv, PkaNext, pkaVars, pka_init, Spawn, ecc_multiply, SecretCompared, Judged, ecc_dsa_sign, pka_disable
<1>1. Operations' = Operations /\ LastOperation' = LastOperation
  BY <1>0 DEF Operations, LastOperation
<1>2. CASE pka_init
  <2>1. DOMAIN compared' = Sides /\ compared'["b"] = Order
    BY <1>2, Different, Zenon DEF pka_init, PkaInv
  <2>. QED
    BY <1>0, <1>1, <1>2, <2>1, OperationsAre, Different DEF pka_init, PkaInv, EcdhInv, Computed, LastOperation
<1>3. CASE Spawn
  <2>1. DOMAIN compared' = Sides /\ (Operation \in {"secret_a", "secret_b"} => compared'["b"] = compared["b"])
    <3>1. CASE Operation \in {"secret_a", "secret_b"}
      <4>1. compared' = [compared EXCEPT !.a = {Operation}]
        BY <1>3, <3>1 DEF Spawn
      <4>. QED
        BY <4>1, Different, Zenon DEF PkaInv
    <3>2. CASE Operation = "check"
      BY <1>3, <3>2 DEF Spawn, PkaInv
    <3>3. CASE ~ (Operation \in {"secret_a", "secret_b"}) /\ Operation # "check"
      BY <1>3, <3>3 DEF Spawn, PkaInv
    <3>. QED
      BY <3>1, <3>2, <3>3
  <2>2. Operation = "check" => compared' = point_out
    BY <1>3 DEF Spawn
  <2>3. /\ UNCHANGED <<pkaAt, lessThan, point_in, point_out, printed, failed>>
        /\ pkaAt >= 1 /\ pkaAt <= LastOperation
    BY <1>0, <1>3, OperationCount DEF Spawn
  <2>4. accelerator' = "busy" /\ pkaTest' = pkaTest
    BY <1>3 DEF Spawn
  <2>5. CASE pkaTest = "ecdh"
    <3>1. (pkaAt <= 2 => Operation \in {"secret_a", "secret_b"}) /\ (pkaAt = 7 => Operation = "check")
      BY <2>3, <2>5, OperationsAre DEF PkaInv, Operation
    <3>2. (pkaAt <= 2 => compared'["b"] = Order) /\ (pkaAt = 7 => compared' = point_out)
      BY <2>1, <2>2, <2>3, <2>5, <3>1 DEF PkaInv, EcdhInv
    <3>3. EcdhInv'
      BY <2>3, <2>5, <3>2, Zenon DEF PkaInv, EcdhInv, Computed, LastOperation
    <3>. QED
      BY <1>1, <2>1, <2>3, <2>4, <2>5, <3>3 DEF PkaInv
  <2>6. CASE pkaTest # "ecdh"
    BY <1>1, <2>1, <2>3, <2>4, <2>6 DEF PkaInv
  <2>. QED
    BY <2>5, <2>6
<1>4. CASE ecc_multiply
  <2>1. pkaTest = "ecdh" /\ pkaAt \in {3, 4, 5, 6}
    <3>1. pkaAt >= 1 /\ pkaAt <= LastOperation /\ Operation \in {"round_1a", "round_1b", "round_2a", "round_2b"}
      BY <1>4 DEF PkaInv, ecc_multiply
    <3>. QED
      BY <1>0, <3>1, OperationsAre DEF PkaInv, Operation, LastOperation
  <2>2. /\ pkaAt' = pkaAt + 1 /\ accelerator' = "idle" /\ UNCHANGED <<lessThan, compared, printed>>
        /\ \/ /\ point_out' = [point_out EXCEPT ![Side] = IF point_in[Side] = Unset THEN Unset ELSE point_in[Side] \cup {Side}]
              /\ failed' = failed
           \/ failed' = TRUE /\ point_out' = point_out
    BY <1>4 DEF ecc_multiply
  <2>3. /\ Operation # "round_1b" => point_in' = point_in
        /\ Operation = "round_1b" => point_in' = [a |-> point_out'["b"], b |-> point_out'["a"]]
    BY <1>4 DEF ecc_multiply, PublicKeys
  <2>4. /\ point_out' = [s \in Sides |-> point_out'[s]] /\ DOMAIN point_out' = Sides /\ Side \in Sides
        /\ \A s \in Sides : s # Side => point_out'[s] = point_out[s]
        /\ \/ /\ point_out'[Side] = IF point_in[Side] = Unset THEN Unset ELSE point_in[Side] \cup {Side}
              /\ failed' = failed
           \/ failed' = TRUE /\ point_out'[Side] = point_out[Side]
    BY <2>2, Different DEF PkaInv, Side
  <2>5. DOMAIN point_in' = Sides
    BY <2>3, Different DEF PkaInv
  <2>6. EcdhInv'
    <3>1. CASE pkaAt = 3
      <4>1. Operation # "round_1b" /\ Side = "a"
        BY <2>1, <3>1, OperationsAre DEF Operation, Side
      <4>2. point_out'["b"] = point_out["b"] /\ point_in' = point_in
        BY <2>3, <2>4, <4>1, Different
      <4>3. point_in["a"] = {} /\ {} # Unset /\ {} \cup {"a"} = {"a"} /\ point_out["a"] = Unset
        BY <2>1, <3>1, Different DEF PkaInv, EcdhInv, Computed
      <4>. QED
        BY <2>1, <2>2, <2>4, <3>1, <4>1, <4>2, <4>3 DEF PkaInv, EcdhInv, Computed
    <3>2. CASE pkaAt = 4
      <4>1. Operation = "round_1b" /\ Side = "b"
        BY <2>1, <3>2, OperationsAre DEF Operation, Side
      <4>2. point_out'["a"] = point_out["a"] /\ point_in'["a"] = point_out'["b"] /\ point_in'["b"] = point_out'["a"]
        BY <2>3, <2>4, <4>1, Different
      <4>3. point_in["b"] = {} /\ {} # Unset /\ {} \cup {"b"} = {"b"} /\ point_out["b"] = Unset
        BY <2>1, <3>2, Different DEF PkaInv, EcdhInv, Computed
      <4>. QED
        BY <2>1, <2>2, <2>4, <3>2, <4>1, <4>2, <4>3 DEF PkaInv, EcdhInv, Computed
    <3>3. CASE pkaAt = 5
      <4>1. Operation # "round_1b" /\ Side = "a"
        BY <2>1, <3>3, OperationsAre DEF Operation, Side
      <4>2. point_out'["b"] = point_out["b"] /\ point_in' = point_in
        BY <2>3, <2>4, <4>1, Different
      <4>3. point_in["a"] \in {Unset, {"b"}} /\ (~ failed => point_in["a"] = {"b"}) /\ {"b"} # Unset /\ {"b"} \cup {"a"} = Sides
        BY <2>1, <3>3, Different DEF PkaInv, EcdhInv, Computed
      <4>4. point_out'["a"] \in {Unset, {"a"}, Sides}
        <5>1. point_out["a"] \in {Unset, {"a"}}
          BY <2>1, <3>3 DEF PkaInv, EcdhInv, Computed
        <5>. QED
          BY <2>4, <4>1, <4>3, <5>1
      <4>5. (~ failed' => point_out'["a"] = Sides) /\ (failed => failed')
        BY <2>4, <4>1, <4>3
      <4>. QED
        BY <2>1, <2>2, <3>3, <4>2, <4>4, <4>5 DEF PkaInv, EcdhInv, Computed
    <3>4. CASE pkaAt = 6
      <4>1. Operation # "round_1b" /\ Side = "b"
        BY <2>1, <3>4, OperationsAre DEF Operation, Side
      <4>2. point_out'["a"] = point_out["a"] /\ point_in' = point_in
        BY <2>3, <2>4, <4>1, Different
      <4>3. point_in["b"] \in {Unset, {"a"}} /\ (~ failed => point_in["b"] = {"a"}) /\ {"a"} # Unset /\ {"a"} \cup {"b"} = Sides
        BY <2>1, <3>4, Different DEF PkaInv, EcdhInv, Computed
      <4>4. point_out'["b"] \in {Unset, {"b"}, Sides}
        <5>1. point_out["b"] \in {Unset, {"b"}}
          BY <2>1, <3>4 DEF PkaInv, EcdhInv, Computed
        <5>. QED
          BY <2>4, <4>1, <4>3, <5>1
      <4>5. (~ failed' => point_out'["b"] = Sides) /\ (failed => failed')
        BY <2>4, <4>1, <4>3
      <4>. QED
        BY <2>1, <2>2, <3>4, <4>2, <4>4, <4>5 DEF PkaInv, EcdhInv, Computed
    <3>. QED
      BY <2>1, <3>1, <3>2, <3>3, <3>4
  <2>7. pkaAt' \in Int /\ pkaAt' >= 0 /\ pkaAt' <= LastOperation + 1
    BY <2>1, <2>2 DEF LastOperation
  <2>. QED
    BY <1>0, <1>1, <2>1, <2>2, <2>4, <2>5, <2>6, <2>7 DEF PkaInv
<1>5. CASE SecretCompared
  <2>1. pkaTest = "ecdh" /\ ((pkaAt = 1 /\ Side = "a") \/ (pkaAt = 2 /\ Side = "b"))
    <3>1. pkaAt >= 1 /\ pkaAt <= LastOperation /\ Operation \in {"secret_a", "secret_b"}
      BY <1>5 DEF PkaInv, SecretCompared
    <3>2. pkaTest = "ecdh" /\ (pkaAt = 1 \/ pkaAt = 2)
      BY <1>0, <3>1, OperationsAre DEF PkaInv, Operation, LastOperation
    <3>3. (pkaAt = 1 => Operation = "secret_a") /\ (pkaAt = 2 => Operation = "secret_b")
      BY <3>2, OperationsAre DEF Operation
    <3>4. (pkaAt = 1 => Side = "a") /\ (pkaAt = 2 => Side = "b")
      BY <3>3, Zenon DEF Side
    <3>5. pkaAt = 1 => pkaTest = "ecdh" /\ pkaAt = 1 /\ Side = "a"
      BY <3>2, <3>4, Zenon
    <3>6. pkaAt = 2 => pkaTest = "ecdh" /\ pkaAt = 2 /\ Side = "b"
      BY <3>2, <3>4, Zenon
    <3>. QED
      BY <3>2, <3>5, <3>6, Zenon
  <2>2. /\ accelerator' = "idle" /\ UNCHANGED <<compared, point_in, point_out, printed>>
        /\ \/ lessThan' = lessThan \cup {Side} /\ pkaAt' = pkaAt + 1 /\ failed' = failed
           \/ UNCHANGED <<lessThan, pkaAt>> /\ (failed => failed')
    BY <1>5 DEF SecretCompared
  <2>3. pkaAt = 2 => lessThan = {"a"}
    BY <2>1 DEF PkaInv, EcdhInv
  <2>4. \/ lessThan' = Sides /\ pkaAt' = 3
        \/ lessThan' = {"a"} /\ pkaAt' = 2
        \/ lessThan' = lessThan /\ pkaAt' = pkaAt
    <3>1. CASE pkaAt = 1
      <4>1. lessThan = {} /\ Side = "a"
        BY <2>1, <3>1 DEF PkaInv, EcdhInv
      <4>. QED
        BY <2>2, <3>1, <4>1
    <3>2. CASE pkaAt = 2
      <4>1. lessThan \cup {Side} = Sides
        BY <2>1, <2>3, <3>2, Different
      <4>. QED
        BY <2>2, <3>2, <4>1
    <3>. QED
      BY <2>1, <3>1, <3>2
  <2>5. EcdhInv'
    <3>1. CASE lessThan' = Sides /\ pkaAt' = 3
      BY <2>1, <2>2, <3>1, Different DEF PkaInv, EcdhInv, Computed
    <3>2. CASE lessThan' = {"a"} /\ pkaAt' = 2
      BY <2>1, <2>2, <3>2, Different DEF PkaInv, EcdhInv, Computed
    <3>3. CASE lessThan' = lessThan /\ pkaAt' = pkaAt
      BY <2>1, <2>2, <3>3, Different DEF PkaInv, EcdhInv, Computed
    <3>. QED
      BY <2>4, <3>1, <3>2, <3>3
  <2>6. pkaAt' \in Int /\ pkaAt' >= 0 /\ pkaAt' <= LastOperation + 1
    BY <2>1, <2>2 DEF LastOperation
  <2>. QED
    BY <1>0, <1>1, <2>1, <2>2, <2>5, <2>6 DEF PkaInv
<1>6. CASE Judged
  <2>1. /\ pkaAt >= 1 /\ pkaAt <= LastOperation /\ Operation \in {"check", "check_r", "check_s", "verify"}
        /\ accelerator = "busy" /\ accelerator' = "idle" /\ pkaAt' = pkaAt + 1
        /\ UNCHANGED <<pkaTest, lessThan, compared, point_in, point_out>>
    BY <1>6 DEF PkaInv, Judged
  <2>2. CASE pkaTest = "ecdh"
    <3>1. pkaAt = 7 /\ Operation = "check"
      BY <2>1, <2>2, OperationsAre DEF PkaInv, Operation, LastOperation
    <3>2. \/ printed' = Append(printed, compared["a"] = compared["b"]) /\ failed' = failed
          \/ printed' = Append(printed, FALSE) /\ failed' = TRUE
      BY <1>6, <3>1, Zenon DEF Judged
    <3>3. printed = <<>> /\ compared["a"] = point_out["a"] /\ compared["b"] = point_out["b"]
      BY <2>1, <2>2, <3>1 DEF PkaInv, EcdhInv
    <3>4. \/ printed' = Agreed /\ failed' = failed /\ point_out["a"] = point_out["b"]
          \/ printed' = Refuted /\ failed' = failed /\ point_out["a"] # point_out["b"]
          \/ printed' = Refuted /\ failed' = TRUE
      <4>1. \A x : Append(<<>>, x) = <<x>>
        OBVIOUS
      <4>2. (compared["a"] = compared["b"]) = TRUE \/ (compared["a"] = compared["b"]) = FALSE
        OBVIOUS
      <4>. QED
        BY <3>2, <3>3, <4>1, <4>2, Zenon DEF Agreed, Refuted
    <3>5. ~ failed => point_out["a"] = point_out["b"]
      BY <2>2, <3>1 DEF PkaInv, EcdhInv, Computed
    <3>6. EcdhInv'
      <4>1. printed' \in {Agreed, Refuted} /\ (printed' = Agreed => point_out["a"] = point_out["b"])
        BY <3>4, Different, Zenon
      <4>2. ~ failed' => printed' = Agreed
        <5>1. CASE printed' = Refuted /\ failed' = failed /\ point_out["a"] # point_out["b"]
          <6>1. failed
            BY <3>5, <5>1
          <6>. QED
            BY <5>1, <6>1
        <5>2. CASE printed' = Refuted /\ failed' = TRUE
          BY <5>2
        <5>. QED
          BY <3>4, <5>1, <5>2
      <4>3. failed => failed'
        BY <3>4, Zenon
      <4>4. pkaAt' = 8 /\ accelerator' # "busy" /\ lessThan = Sides
        BY <2>1, <2>2, <3>1 DEF PkaInv, EcdhInv
      <4>5. UNCHANGED <<pkaTest, lessThan, compared, point_in, point_out>>
        BY <2>1
      <4>6. Computed("a", 2)' /\ Computed("b", 2)'
        BY <2>1, <2>2, <3>1, <4>3 DEF PkaInv, EcdhInv, Computed
      <4>7. /\ (IF pkaAt' <= 3 THEN 0 ELSE IF pkaAt' <= 5 THEN 1 ELSE 2) = 2
            /\ (IF pkaAt' <= 4 THEN 0 ELSE IF pkaAt' <= 6 THEN 1 ELSE 2) = 2
        BY <4>4
      <4>. QED
        BY <2>1, <2>2, <3>1, <4>1, <4>2, <4>4, <4>5, <4>6, <4>7 DEF PkaInv, EcdhInv
    <3>. QED
      BY <1>1, <2>1, <2>2, <3>1, <3>6 DEF PkaInv, LastOperation
  <2>3. CASE pkaTest # "ecdh"
    BY <1>1, <2>1, <2>3 DEF PkaInv, LastOperation
  <2>. QED
    BY <2>2, <2>3
<1>7. CASE ecc_dsa_sign
  <2>1. /\ pkaAt >= 1 /\ pkaAt <= LastOperation /\ Operation = "sign" /\ accelerator' = "idle" /\ pkaAt' = pkaAt + 1
        /\ UNCHANGED <<pkaTest, lessThan, compared, point_in, point_out>>
    BY <1>7 DEF PkaInv, ecc_dsa_sign
  <2>2. pkaTest # "ecdh"
    BY <2>1, OperationsAre DEF PkaInv, Operation, LastOperation
  <2>. QED
    BY <1>1, <2>1, <2>2 DEF PkaInv, LastOperation
<1>8. CASE pka_disable
  BY <1>0, <1>1, <1>8, OperationsAre, OperationCount, Different, ZenonT(100) DEF pka_disable, PkaInv, EcdhInv, Computed, LastOperation
<1>9. CASE UNCHANGED pkaVars
  BY <1>0, <1>1, <1>9 DEF pkaVars, PkaInv, EcdhInv, Computed, LastOperation
<1>. QED
  BY <1>2, <1>3, <1>4, <1>5, <1>6, <1>7, <1>8, <1>9 DEF PkaNext
(***************************************************************************)
(* The sniffer.                                                            *)
(***************************************************************************)

LEMMA JoinFacts ==
  ASSUME NEW S, NEW s \in Seq(S), NEW u \in Seq(S)
  PROVE  /\ s \o u \in Seq(S) /\ Len(s \o u) = Len(s) + Len(u) /\ Len(s) \in Nat /\ Len(u) \in Nat
         /\ \A k \in DOMAIN (s \o u) :
              \/ k \in DOMAIN s /\ (s \o u)[k] = s[k]
              \/ k \notin DOMAIN s /\ k - Len(s) \in DOMAIN u /\ (s \o u)[k] = u[k - Len(s)]
         /\ \A k \in DOMAIN s : k \in DOMAIN (s \o u) /\ (s \o u)[k] = s[k]
         /\ \A k \in DOMAIN u : k + Len(s) \in DOMAIN (s \o u) /\ (s \o u)[k + Len(s)] = u[k]
  OBVIOUS

JoinOf(z, s, u) ==
  /\ Len(z) = Len(s) + Len(u) /\ Len(s) \in Nat /\ Len(u) \in Nat
  /\ \A k \in DOMAIN z :
       \/ k \in DOMAIN s /\ z[k] = s[k]
       \/ k \notin DOMAIN s /\ k - Len(s) \in DOMAIN u /\ z[k] = u[k - Len(s)]
  /\ \A k \in DOMAIN s : k \in DOMAIN z /\ z[k] = s[k]
  /\ \A k \in DOMAIN u : k + Len(s) \in DOMAIN z /\ z[k + Len(s)] = u[k]

LEMMA Joined ==
  ASSUME NEW S, NEW s \in Seq(S), NEW u \in Seq(S)
  PROVE  s \o u \in Seq(S) /\ JoinOf(s \o u, s, u)
  BY DEF JoinOf

LEMMA DomainIs ==
  ASSUME NEW S, NEW s \in Seq(S)
  PROVE  /\ Len(s) \in Nat
         /\ \A k : k \in DOMAIN s <=> k \in Int /\ k >= 1 /\ k <= Len(s)
         /\ s = <<>> <=> Len(s) = 0
  OBVIOUS

\* What goes over the line.
LineBytes ==
  {"C1", "1F", "FE", "72", "02", "00", "01", "0B", "UNKNOWN", "SET_CHANNEL",
   "GET_CHANNEL", "GET_CHANNEL_MIN", "GET_CHANNEL_MAX"}

TheAnswer(c) ==
  IF Len(c) = 1 THEN Told(Questions[c[1]])
  ELSE IF c[1] = "SET_CHANNEL" /\ c[4] = "0B" THEN Told("CHANNEL") ELSE "ERR"

\* A question, a command with a byte of data, or one that nobody answers.
IsQuestion(c) == Len(c) = 1 /\ c[1] \in DOMAIN Questions
HasData(c)    == Len(c) = 4 /\ c[1] \notin DOMAIN Questions /\ c[2] = "00" /\ c[3] = "01"
IsEmpty(c)    == Len(c) = 3 /\ c[1] \notin DOMAIN Questions /\ c[2] = "00" /\ c[3] # "01"

LEMMA QuestionsAre == DOMAIN Questions = {"GET_CHANNEL", "GET_CHANNEL_MIN", "GET_CHANNEL_MAX"}
  BY DEF Questions

LEMMA CommandKinds ==
  ASSUME NEW c \in Commands
  PROVE  /\ c \in Seq(LineBytes)
         /\ IsQuestion(c) \/ HasData(c) \/ IsEmpty(c)
         /\ AnswersTo(c) = IF Len(c) = 3 THEN <<>> ELSE <<TheAnswer(c)>>
<1>1. CASE c \in {<<question>> : question \in DOMAIN Questions}
  <2>1. PICK q \in DOMAIN Questions : c = <<q>>
    BY <1>1
  <2>2. q \in LineBytes
    BY QuestionsAre DEF LineBytes
  <2>3. Len(c) = 1 /\ c[1] = q /\ c \in Seq(LineBytes)
    BY <2>1, <2>2
  <2>4. AnswersTo(c) = <<Told(Questions[c[1]])>>
    <3>1. c # SetChannel("0B") /\ c # <<"UNKNOWN", "00", "00">>
      BY <2>3 DEF SetChannel
    <3>. QED
      BY <2>3, <3>1, Zenon DEF AnswersTo
  <2>5. IsQuestion(c) /\ TheAnswer(c) = Told(Questions[c[1]])
    BY <2>1, <2>3 DEF IsQuestion, TheAnswer
  <2>6. Len(c) # 3
    BY <2>3
  <2>. QED
    BY <2>3, <2>4, <2>5, <2>6
<1>2. ASSUME NEW data \in {"0B", "01", "C1"}, c = SetChannel(data)
      PROVE  /\ c \in Seq(LineBytes)
             /\ IsQuestion(c) \/ HasData(c) \/ IsEmpty(c)
             /\ AnswersTo(c) = IF Len(c) = 3 THEN <<>> ELSE <<TheAnswer(c)>>
  <2>1. Len(c) = 4 /\ c[1] = "SET_CHANNEL" /\ c[2] = "00" /\ c[3] = "01" /\ c[4] = data /\ c \in Seq(LineBytes)
    BY <1>2 DEF SetChannel, LineBytes
  <2>2. HasData(c)
    BY <2>1, QuestionsAre DEF HasData
  <2>3. Len(c) # 1 /\ Len(c) # 3 /\ c # <<"UNKNOWN", "00", "00">>
    BY <2>1
  <2>4. CASE data = "0B"
    <3>1. AnswersTo(c) = <<Told("CHANNEL")>>
      BY <1>2, <2>3, <2>4, Zenon DEF AnswersTo
    <3>. QED
      BY <2>1, <2>2, <2>3, <2>4, <3>1 DEF TheAnswer
  <2>5. CASE data # "0B"
    <3>1. c # SetChannel("0B")
      BY <2>1, <2>5 DEF SetChannel
    <3>2. AnswersTo(c) = <<"ERR">>
      BY <2>3, <3>1, Zenon DEF AnswersTo
    <3>. QED
      BY <2>1, <2>2, <2>3, <2>5, <3>2 DEF TheAnswer
  <2>. QED
    BY <2>4, <2>5
<1>3. CASE c = <<"UNKNOWN", "00", "00">>
  <2>1. Len(c) = 3 /\ c[1] = "UNKNOWN" /\ c[2] = "00" /\ c[3] = "00" /\ c \in Seq(LineBytes)
    BY <1>3 DEF LineBytes
  <2>2. IsEmpty(c)
    BY <2>1, QuestionsAre DEF IsEmpty
  <2>3. Len(c) # 1 /\ c # SetChannel("0B")
    BY <2>1 DEF SetChannel
  <2>4. AnswersTo(c) = <<>>
    BY <1>3, <2>3, Zenon DEF AnswersTo
  <2>. QED
    BY <2>1, <2>2, <2>4
<1>4. CASE c = <<"UNKNOWN", "00", "01", "0B">>
  <2>1. Len(c) = 4 /\ c[1] = "UNKNOWN" /\ c[2] = "00" /\ c[3] = "01" /\ c \in Seq(LineBytes)
    BY <1>4 DEF LineBytes
  <2>2. HasData(c)
    BY <2>1, QuestionsAre DEF HasData
  <2>3. Len(c) # 1 /\ Len(c) # 3 /\ c # <<"UNKNOWN", "00", "00">> /\ c # SetChannel("0B")
    BY <2>1 DEF SetChannel
  <2>4. AnswersTo(c) = <<"ERR">>
    BY <2>3, Zenon DEF AnswersTo
  <2>. QED
    BY <2>1, <2>2, <2>3, <2>4 DEF TheAnswer
<1>. QED
  BY <1>1, <1>2, <1>3, <1>4 DEF Commands

\* How many bytes a command has.
Bytes(c) == IF IsQuestion(c) THEN 6 ELSE IF IsEmpty(c) THEN 8 ELSE 9

LEMMA FrameIs ==
  ASSUME NEW c \in Commands
  PROVE  /\ Frame(c) \in Seq(LineBytes) /\ Len(Frame(c)) = Bytes(c)
         /\ Frame(c)[1] = magic[1] /\ Frame(c)[2] = magic[2] /\ Frame(c)[3] = magic[3] /\ Frame(c)[4] = magic[4]
         /\ Frame(c)[5] = PROTOCOL_VERSION /\ Frame(c)[6] = c[1]
         /\ ~ IsQuestion(c) => Frame(c)[7] = c[2] /\ Frame(c)[8] = c[3]
         /\ HasData(c) => Frame(c)[9] = c[4]
<1>1. c \in Seq(LineBytes) /\ (IsQuestion(c) \/ HasData(c) \/ IsEmpty(c))
  BY CommandKinds
<1>2. PICK h \in Seq(LineBytes) : h = magic \o <<PROTOCOL_VERSION>>
  <2>1. magic \in Seq(LineBytes) /\ <<PROTOCOL_VERSION>> \in Seq(LineBytes)
    BY DEF magic, PROTOCOL_VERSION, LineBytes
  <2>. QED
    BY <2>1, JoinFacts, Zenon
<1>3. Len(h) = 5 /\ h[1] = magic[1] /\ h[2] = magic[2] /\ h[3] = magic[3] /\ h[4] = magic[4] /\ h[5] = PROTOCOL_VERSION
  BY <1>2 DEF magic, PROTOCOL_VERSION
<1>4. PICK f \in Seq(LineBytes) : f = h \o c
  BY <1>1, JoinFacts, Zenon
<1>5. /\ Len(f) = Len(h) + Len(c)
      /\ \A k \in DOMAIN h : f[k] = h[k]
      /\ \A k \in DOMAIN c : f[k + Len(h)] = c[k]
  BY <1>1, <1>4, JoinFacts
<1>6. 1 \in DOMAIN h /\ 2 \in DOMAIN h /\ 3 \in DOMAIN h /\ 4 \in DOMAIN h /\ 5 \in DOMAIN h
  BY <1>3
<1>7. (IsQuestion(c) => Len(c) = 1) /\ (IsEmpty(c) => Len(c) = 3) /\ (HasData(c) => Len(c) = 4)
  BY DEF IsQuestion, IsEmpty, HasData
<1>8. Len(f) = Bytes(c)
  <2>1. PICK n \in Int, m \in Int : n = Len(f) /\ m = Len(c) /\ n = 5 + m
    <3>1. Len(f) \in Int /\ Len(c) \in Int
      BY <1>1
    <3>. QED
      BY <1>3, <1>5, <3>1
  <2>2. (IsQuestion(c) => n = 6) /\ (IsEmpty(c) => n = 8) /\ (HasData(c) => n = 9)
    <3>1. (IsQuestion(c) => m = 1) /\ (IsEmpty(c) => m = 3) /\ (HasData(c) => m = 4)
      BY <1>7, <2>1, Zenon
    <3>2. n = 5 + m
      BY <2>1
    <3>3. ASSUME IsQuestion(c) PROVE n = 6
      BY <3>1, <3>2, <3>3
    <3>4. ASSUME IsEmpty(c) PROVE n = 8
      BY <3>1, <3>2, <3>4
    <3>5. ASSUME HasData(c) PROVE n = 9
      BY <3>1, <3>2, <3>5
    <3>. QED
      BY <3>3, <3>4, <3>5
  <2>3. n = Bytes(c)
    BY <1>1, <1>7, <2>1, <2>2 DEF Bytes
  <2>. QED
    BY <2>1, <2>3
<1>9. /\ 1 \in DOMAIN c
      /\ ~ IsQuestion(c) => 2 \in DOMAIN c /\ 3 \in DOMAIN c
      /\ HasData(c) => 4 \in DOMAIN c
  BY <1>1, <1>7
<1>10. 1 + Len(h) = 6 /\ 2 + Len(h) = 7 /\ 3 + Len(h) = 8 /\ 4 + Len(h) = 9
  BY <1>3
<1>11. f[6] = c[1] /\ (~ IsQuestion(c) => f[7] = c[2] /\ f[8] = c[3]) /\ (HasData(c) => f[9] = c[4])
  BY <1>5, <1>9, <1>10, Zenon
<1>12. f[1] = h[1] /\ f[2] = h[2] /\ f[3] = h[3] /\ f[4] = h[4] /\ f[5] = h[5]
  BY <1>5, <1>6, Zenon
<1>13. Frame(c) = f
  BY <1>2, <1>4 DEF Frame
<1>. QED
  BY <1>3, <1>8, <1>11, <1>12, <1>13

\* The state machine before a byte of a command.
ParserAt(c, i) ==
  [state |-> IF i <= 4 THEN "MAGIC" ELSE IF i = 5 THEN "VERSION" ELSE IF i = 6 THEN "CMD"
             ELSE IF i = 7 THEN "LEN_1" ELSE IF i = 8 THEN "LEN_2" ELSE "DATA",
   in_ct |-> IF i <= 4 THEN i - 1 ELSE 0,
   cmd   |-> IF i <= 6 THEN "none" ELSE c[1],
   len   |-> IF i <= 7 THEN "none" ELSE c[2]]

\* The state machine's state changes and a field with it.
WithPlace(p, t, m)   == [p EXCEPT !.state = t, !.in_ct = m]
WithCommand(p, t, m) == [p EXCEPT !.state = t, !.cmd = m]
WithLength(p, t, m)  == [p EXCEPT !.state = t, !.len = m]

LEMMA WithPlaceIs ==
  ASSUME NEW p, NEW q, NEW s, NEW n, NEW c, NEW l, NEW t, NEW m, p = [state |-> s, in_ct |-> n, cmd |-> c, len |-> l],
         q = WithPlace(p, t, m)
  PROVE  q = [state |-> t, in_ct |-> m, cmd |-> c, len |-> l]
  BY ZenonT(30) DEF WithPlace

LEMMA WithCommandIs ==
  ASSUME NEW p, NEW q, NEW s, NEW n, NEW c, NEW l, NEW t, NEW m, p = [state |-> s, in_ct |-> n, cmd |-> c, len |-> l],
         q = WithCommand(p, t, m)
  PROVE  q = [state |-> t, in_ct |-> n, cmd |-> m, len |-> l]
  BY ZenonT(30) DEF WithCommand

LEMMA WithLengthIs ==
  ASSUME NEW p, NEW q, NEW s, NEW n, NEW c, NEW l, NEW t, NEW m, p = [state |-> s, in_ct |-> n, cmd |-> c, len |-> l],
         q = WithLength(p, t, m)
  PROVE  q = [state |-> t, in_ct |-> n, cmd |-> c, len |-> m]
  BY ZenonT(30) DEF WithLength

\* Every byte of a command takes it one further; the last one is answered.
LEMMA OneByte ==
  ASSUME NEW c \in Commands, NEW i \in Int, i >= 1, i <= Bytes(c), parser = ParserAt(c, i), NEW x, x = Frame(c)[i],
         InMagic(x) \/ InVersion(x) \/ InCmd(x) \/ InLen1(x) \/ InLen2(x) \/ InData(x)
  PROVE  /\ i < Bytes(c) => parser' = ParserAt(c, i + 1) /\ owed' = owed
         /\ i = Bytes(c) => parser' = Reset /\ IF IsEmpty(c) THEN owed' = owed ELSE Answers(TheAnswer(c))
<1>0. /\ \/ IsQuestion(c) /\ Bytes(c) = 6
         \/ IsEmpty(c) /\ Bytes(c) = 8
         \/ HasData(c) /\ Bytes(c) = 9
      /\ ~ (IsQuestion(c) /\ IsEmpty(c)) /\ ~ (IsQuestion(c) /\ HasData(c)) /\ ~ (HasData(c) /\ IsEmpty(c))
  BY CommandKinds DEF Bytes, IsQuestion, IsEmpty, HasData
<1>1. i = 1 \/ i = 2 \/ i = 3 \/ i = 4 \/ i = 5 \/ i = 6 \/ i = 7 \/ i = 8 \/ i = 9
  BY <1>0
<1>2. CASE i <= 3
  <2>1. parser = [state |-> "MAGIC", in_ct |-> i - 1, cmd |-> "none", len |-> "none"]
    BY <1>2 DEF ParserAt
  <2>2. x = magic[i] /\ i < Len(magic)
    BY <1>1, <1>2, FrameIs DEF magic
  <2>3. parser.state = "MAGIC" /\ parser.in_ct + 1 = i
    BY <2>1
  <2>4. parser' = [parser EXCEPT !.in_ct = @ + 1] /\ owed' = owed
    BY <2>2, <2>3 DEF InMagic, InVersion, InCmd, InLen1, InLen2, InData, NoCommand
  <2>5. ParserAt(c, i + 1) = [state |-> "MAGIC", in_ct |-> i, cmd |-> "none", len |-> "none"]
    BY <1>2 DEF ParserAt
  <2>6. parser' = [state |-> "MAGIC", in_ct |-> i, cmd |-> "none", len |-> "none"]
    <3>1. parser' = [state |-> "MAGIC", in_ct |-> parser.in_ct + 1, cmd |-> "none", len |-> "none"]
      BY <2>1, <2>4
    <3>. QED
      BY <2>3, <3>1
  <2>7. owed' = owed
    BY <2>4
  <2>. QED
    BY <1>0, <1>2, <2>5, <2>6, <2>7
<1>3. CASE i = 4
  <2>1. parser = [state |-> "MAGIC", in_ct |-> 3, cmd |-> "none", len |-> "none"]
    BY <1>3 DEF ParserAt
  <2>2. x = magic[4] /\ Len(magic) = 4
    BY <1>3, FrameIs DEF magic
  <2>3. parser.state = "MAGIC" /\ parser.in_ct + 1 = 4
    BY <2>1
  <2>4. parser' = [parser EXCEPT !.state = "VERSION", !.in_ct = 0] /\ owed' = owed
    BY <2>2, <2>3 DEF InMagic, InVersion, InCmd, InLen1, InLen2, InData, NoCommand
  <2>5. ParserAt(c, i + 1) = [state |-> "VERSION", in_ct |-> 0, cmd |-> "none", len |-> "none"]
    BY <1>3 DEF ParserAt
  <2>6. parser' = [state |-> "VERSION", in_ct |-> 0, cmd |-> "none", len |-> "none"]
    <3>1. parser' = WithPlace(parser, "VERSION", 0)
      BY <2>4, Zenon DEF WithPlace
    <3>. QED
      BY <2>1, <3>1, WithPlaceIs
  <2>7. owed' = owed
    BY <2>4
  <2>. QED
    BY <1>0, <1>3, <2>5, <2>6, <2>7
<1>4. CASE i = 5
  <2>1. parser = [state |-> "VERSION", in_ct |-> 0, cmd |-> "none", len |-> "none"]
    BY <1>4 DEF ParserAt
  <2>2. x = PROTOCOL_VERSION /\ parser.state = "VERSION"
    BY <1>4, <2>1, FrameIs
  <2>4. parser' = [parser EXCEPT !.state = "CMD"] /\ owed' = owed
    BY <2>2 DEF InMagic, InVersion, InCmd, InLen1, InLen2, InData, NoCommand
  <2>5. ParserAt(c, i + 1) = [state |-> "CMD", in_ct |-> 0, cmd |-> "none", len |-> "none"]
    BY <1>4 DEF ParserAt
  <2>6. parser' = [state |-> "CMD", in_ct |-> 0, cmd |-> "none", len |-> "none"]
    BY <2>1, <2>4
  <2>7. owed' = owed
    BY <2>4
  <2>. QED
    BY <1>0, <1>4, <2>5, <2>6, <2>7
<1>5. CASE i = 6
  <2>1. parser = [state |-> "CMD", in_ct |-> 0, cmd |-> "none", len |-> "none"]
    BY <1>5 DEF ParserAt
  <2>2. x = c[1] /\ parser.state = "CMD"
    BY <1>5, <2>1, FrameIs
  <2>3. InCmd(x)
    BY <2>2 DEF InMagic, InVersion, InLen1, InLen2, InData
  <2>4. CASE IsQuestion(c)
    <3>1. Len(c) = 1 /\ x \in DOMAIN Questions
      BY <2>2, <2>4 DEF IsQuestion
    <3>2. execute_command(x, "none") /\ parser' = Reset
      BY <2>3, <3>1 DEF InCmd, reset_state
    <3>3. Answers(TheAnswer(c))
      BY <2>2, <3>1, <3>2 DEF execute_command, TheAnswer
    <3>. QED
      BY <1>0, <1>5, <2>4, <3>2, <3>3
  <2>5. CASE ~ IsQuestion(c)
    <3>1. x \notin DOMAIN Questions
      BY <1>0, <2>2, <2>5 DEF IsEmpty, HasData
    <3>2. parser' = [parser EXCEPT !.state = "LEN_1", !.cmd = x] /\ owed' = owed
      BY <2>3, <3>1 DEF InCmd, NoCommand
    <3>3. ParserAt(c, i + 1) = [state |-> "LEN_1", in_ct |-> 0, cmd |-> c[1], len |-> "none"]
      BY <1>5 DEF ParserAt
    <3>4. parser' = [state |-> "LEN_1", in_ct |-> 0, cmd |-> c[1], len |-> "none"]
      <4>1. parser' = WithCommand(parser, "LEN_1", c[1])
        BY <2>2, <3>2, Zenon DEF WithCommand
      <4>. QED
        BY <2>1, <4>1, WithCommandIs
    <3>5. owed' = owed
      BY <3>2
    <3>. QED
      BY <1>0, <1>5, <2>5, <3>3, <3>4, <3>5
  <2>. QED
    BY <2>4, <2>5
<1>6. CASE i = 7
  <2>1. parser = [state |-> "LEN_1", in_ct |-> 0, cmd |-> c[1], len |-> "none"]
    BY <1>6 DEF ParserAt
  <2>2. x = c[2] /\ parser.state = "LEN_1" /\ ~ IsQuestion(c)
    BY <1>0, <1>6, <2>1, FrameIs
  <2>4. parser' = [parser EXCEPT !.state = "LEN_2", !.len = x] /\ owed' = owed
    BY <2>2 DEF InMagic, InVersion, InCmd, InLen1, InLen2, InData, NoCommand
  <2>5. ParserAt(c, i + 1) = [state |-> "LEN_2", in_ct |-> 0, cmd |-> c[1], len |-> c[2]]
    BY <1>6 DEF ParserAt
  <2>6. parser' = [state |-> "LEN_2", in_ct |-> 0, cmd |-> c[1], len |-> c[2]]
    <3>1. parser' = WithLength(parser, "LEN_2", c[2])
      BY <2>2, <2>4, Zenon DEF WithLength
    <3>. QED
      BY <2>1, <3>1, WithLengthIs
  <2>7. owed' = owed
    BY <2>4
  <2>. QED
    BY <1>0, <1>6, <2>2, <2>5, <2>6, <2>7
<1>7. CASE i = 8
  <2>1. parser = [state |-> "LEN_2", in_ct |-> 0, cmd |-> c[1], len |-> c[2]]
    BY <1>7 DEF ParserAt
  <2>2. x = c[3] /\ parser.state = "LEN_2" /\ parser.len = c[2] /\ ~ IsQuestion(c) /\ c[2] = "00"
    BY <1>0, <1>7, <2>1, FrameIs DEF IsEmpty, HasData
  <2>3. InLen2(x)
    BY <2>2 DEF InMagic, InVersion, InCmd, InLen1, InData
  <2>4. CASE HasData(c)
    <3>1. x = "01"
      BY <2>2, <2>4 DEF HasData
    <3>2. parser' = [parser EXCEPT !.state = "DATA"] /\ owed' = owed
      BY <2>2, <2>3, <3>1 DEF InLen2, NoCommand
    <3>3. ParserAt(c, i + 1) = [state |-> "DATA", in_ct |-> 0, cmd |-> c[1], len |-> c[2]]
      BY <1>7 DEF ParserAt
    <3>4. parser' = [state |-> "DATA", in_ct |-> 0, cmd |-> c[1], len |-> c[2]]
      BY <2>1, <3>2
    <3>. QED
      BY <1>0, <1>7, <2>4, <3>2, <3>3, <3>4
  <2>5. CASE ~ HasData(c)
    <3>1. x # "01" /\ IsEmpty(c)
      BY <1>0, <1>7, <2>2, <2>5 DEF IsEmpty
    <3>2. parser' = Reset /\ owed' = owed
      BY <2>2, <2>3, <3>1 DEF InLen2, NoCommand
    <3>. QED
      BY <1>0, <1>7, <3>1, <3>2
  <2>. QED
    BY <2>4, <2>5
<1>8. CASE i = 9
  <2>1. parser = [state |-> "DATA", in_ct |-> 0, cmd |-> c[1], len |-> c[2]]
    BY <1>8 DEF ParserAt
  <2>0. HasData(c) /\ Len(c) # 1
    BY <1>0, <1>8 DEF HasData
  <2>2. x = c[4] /\ parser.state = "DATA" /\ parser.cmd = c[1] /\ c[1] \notin DOMAIN Questions
    BY <1>8, <2>0, <2>1, FrameIs DEF HasData
  <2>3. execute_command(parser.cmd, x) /\ parser' = Reset
    BY <2>2 DEF InMagic, InVersion, InCmd, InLen1, InLen2, InData, reset_state
  <2>4. Answers(TheAnswer(c))
    BY <2>0, <2>2, <2>3 DEF execute_command, TheAnswer
  <2>. QED
    BY <1>0, <1>8, <2>0, <2>3, <2>4
<1>9. i <= 3 \/ i = 4 \/ i = 5 \/ i = 6 \/ i = 7 \/ i = 8 \/ i = 9
  BY <1>1
<1>. QED
  BY <1>2, <1>3, <1>4, <1>5, <1>6, <1>7, <1>8, <1>9

\* Of every byte that is still to be parsed: its command, its place in it, and how many
\* answers there will have been with it.
Tags == [cmd : Commands, i : Int, nth : Int]

Ending(x)     == x.i = Bytes(x.cmd)
Gives(x)      == IF Ending(x) /\ ~ IsEmpty(x.cmd) THEN 1 ELSE 0
Follows(x, y) ==
  /\ IF Ending(x) THEN y.i = 1 ELSE y.cmd = x.cmd /\ y.i = x.i + 1
  /\ y.nth = x.nth + Gives(y)

LEMMA GivesIs ==
  ASSUME NEW x PROVE Gives(x) \in Int /\ Gives(x) >= 0 /\ Gives(x) <= 1
  BY DEF Gives

\* A byte of a command; when it is the last one, its answer is owed.
TagIs(x, byte, b) ==
  /\ x.i >= 1 /\ x.i <= Bytes(x.cmd) /\ byte = Frame(x.cmd)[x.i]
  /\ Gives(x) = 1 => x.nth - b \in DOMAIN owed /\ owed[x.nth - b] = TheAnswer(x.cmd)

Tagged(s, t, b) ==
  /\ s \in Seq(LineBytes) /\ t \in Seq(Tags) /\ b \in Int /\ Len(t) = Len(s)
  /\ \E A : owed \in Seq(A)
  /\ \A k \in DOMAIN t : TagIs(t[k], s[k], b)
  /\ \A k \in DOMAIN t : k + 1 \in DOMAIN t => Follows(t[k], t[k + 1])
  /\ \A j, k \in DOMAIN t : j < k => t[k].nth >= t[j].nth + Gives(t[k])
  /\ t = <<>> => parser = Reset /\ owed = <<>>
  /\ t # <<>> =>
       /\ parser = ParserAt(t[1].cmd, t[1].i) /\ t[1].nth = b + Gives(t[1])
       /\ Ending(t[Len(t)]) /\ t[Len(t)].nth = b + Len(owed)

SensniffInv ==
  /\ rxbuf \in Seq(LineBytes) /\ unsent \in Seq(LineBytes)
  /\ rxbuf # <<>> => pending
  /\ listening /\ ~ line_disturbed =>
       /\ ct = "expired" => rxbuf = <<>> /\ unsent = <<>>
       /\ \E t, b : Tagged(rxbuf \o unsent, t, b)

LEMMA SensniffIsSafe == SensniffInv => CommandsAnswered
<1> SUFFICES ASSUME SensniffInv, listening, ~ line_disturbed, unsent = <<>>, rxbuf = <<>>
             PROVE  parser = Reset /\ owed = <<>>
  BY DEF CommandsAnswered
<1>1. PICK t, b : Tagged(rxbuf \o unsent, t, b)
  BY DEF SensniffInv
<1>2. Len(t) = 0 /\ t \in Seq(Tags)
  BY <1>1 DEF Tagged
<1>3. t = <<>>
  BY <1>2
<1>. QED
  BY <1>1, <1>3 DEF Tagged

\* Nothing is to be parsed, nothing is owed.
LEMMA TaggedEmpty ==
  ASSUME NEW s, s = <<>>, parser = Reset, owed = <<>>
  PROVE  Tagged(s, <<>>, 0)
<1>1. s \in Seq(LineBytes) /\ <<>> \in Seq(Tags) /\ owed \in Seq(Int) /\ DOMAIN <<>> = {} /\ Len(<<>>) = 0
  OBVIOUS
<1>. QED
  BY <1>1 DEF Tagged

LEMMA SensniffInitially == SensniffInit => SensniffInv
<1> SUFFICES ASSUME SensniffInit PROVE SensniffInv
  OBVIOUS
<1>1. rxbuf = <<>> /\ unsent = <<>> /\ parser = Reset /\ owed = <<>>
  BY DEF SensniffInit
<1>2. <<>> \in Seq(LineBytes) /\ <<>> \o <<>> = <<>>
  OBVIOUS
<1>3. Tagged(rxbuf \o unsent, <<>>, 0)
  BY <1>1, <1>2, TaggedEmpty
<1>. QED
  BY <1>1, <1>2, <1>3 DEF SensniffInv

\* A byte that was not lost and came in time.
LEMMA CameWhole ==
  ASSUME NEW c, LineTransmits(c), listening, ~ line_disturbed'
  PROVE  ~ line_disturbed /\ ct # "expired" /\ ct' # "expired" /\ rxbuf' = Append(rxbuf, c)
  BY Zenon DEF LineTransmits, Disturbs, char_in

LEMMA TransmittedTypes ==
  ASSUME SensniffInv, NEW c \in LineBytes, LineTransmits(c) \/ char_in(c)
  PROVE  rxbuf' \in Seq(LineBytes) /\ (rxbuf' # <<>> => pending')
<1>1. rxbuf \in Seq(LineBytes) /\ Append(rxbuf, c) \in Seq(LineBytes)
  BY DEF SensniffInv
<1>2. CASE char_in(c)
  BY <1>1, <1>2 DEF char_in
<1>3. CASE UNCHANGED <<rxbuf, pending>>
  BY <1>1, <1>3 DEF SensniffInv
<1>. QED
  BY <1>2, <1>3 DEF LineTransmits

LEMMA OneFurther ==
  ASSUME NEW s \in Seq(LineBytes), NEW u \in Seq(LineBytes), u # <<>>
  PROVE  Head(u) \in LineBytes /\ Tail(u) \in Seq(LineBytes) /\ Append(s, Head(u)) \o Tail(u) = s \o u
  OBVIOUS

LEMMA FrameParts ==
  ASSUME NEW c \in Commands
  PROVE  /\ Head(Frame(c)) \in LineBytes /\ Tail(Frame(c)) \in Seq(LineBytes)
         /\ \A s \in Seq(LineBytes) : Append(s, Head(Frame(c))) \o Tail(Frame(c)) = s \o Frame(c)
<1>1. PICK f \in Seq(LineBytes) : f = Frame(c) /\ Len(f) > 0
  BY FrameIs DEF Bytes
<1>2. f # <<>>
  BY <1>1
<1>3. Head(f) \in LineBytes /\ Tail(f) \in Seq(LineBytes)
  BY <1>2
<1>4. ASSUME NEW s \in Seq(LineBytes) PROVE Append(s, Head(f)) \o Tail(f) = s \o f
  BY <1>2, OneFurther
<1>. QED
  BY <1>1, <1>3, <1>4

LEMMA Weighs ==
  /\ \A m, g, l \in Int : g >= 0 /\ l >= m + g => m <= l
  /\ \A m, g, l \in Int : m <= l => l + g >= m + g
OBVIOUS

\* A command that is sent: its bytes and its answer come after all others.
LEMMA CommandSent ==
  ASSUME NEW s, NEW t, NEW b, Tagged(s, t, b), NEW c \in Commands,
         owed' = owed \o AnswersTo(c), parser' = parser
  PROVE  \E u : Tagged(s \o Frame(c), u, b)'
<1>. PICK n \in Int : n = Bytes(c) /\ n >= 6
  BY DEF Bytes
<1>. PICK f \in Seq(LineBytes) : f = Frame(c) /\ Len(f) = n
  BY FrameIs
<1>. DEFINE last == Len(owed) + b
            e == IF IsEmpty(c) THEN 0 ELSE 1
            new == [k \in 1 .. n |-> [cmd |-> c, i |-> k, nth |-> IF k = n THEN last + e ELSE last]]
<1>1. PICK A : owed \in Seq(A)
  BY DEF Tagged
<1>2. s \in Seq(LineBytes) /\ t \in Seq(Tags) /\ b \in Int /\ Len(t) = Len(s) /\ Len(owed) \in Int /\ last \in Int
  BY <1>1 DEF Tagged
<1>3. /\ new \in Seq(Tags) /\ Len(new) = n
      /\ \A k : k \in DOMAIN new <=> k \in Int /\ k >= 1 /\ k <= n
      /\ \A k \in DOMAIN new : new[k].cmd = c /\ new[k].i = k /\ new[k].nth = IF k = n THEN last + e ELSE last
  <2>1. \A k \in 1 .. n : [cmd |-> c, i |-> k, nth |-> IF k = n THEN last + e ELSE last] \in Tags
    BY <1>2 DEF Tags
  <2>2. new \in Seq(Tags)
    BY <2>1, IsASeq
  <2>3. DOMAIN new = 1 .. n /\ Len(new) = n
    BY <2>2
  <2>. QED
    BY <2>2, <2>3
<1> HIDE DEF new
<1>. PICK v \in Seq(Tags) : v = new /\ Len(v) = n /\ DOMAIN v = DOMAIN new
  BY <1>3
<1>. PICK u : u = t \o v
  BY Zenon
<1>4. /\ u \in Seq(Tags) /\ Len(u) = Len(t) + n /\ Len(t) \in Nat
      /\ \A k \in DOMAIN u :
           \/ k \in DOMAIN t /\ u[k] = t[k]
           \/ k \notin DOMAIN t /\ k - Len(t) \in DOMAIN new /\ u[k] = new[k - Len(t)]
      /\ \A k \in DOMAIN t : k \in DOMAIN u /\ u[k] = t[k]
      /\ \A k \in DOMAIN new : k + Len(t) \in DOMAIN u /\ u[k + Len(t)] = new[k]
  <2>0. t \in Seq(Tags)
    BY <1>2
  <2>1. u \in Seq(Tags) /\ JoinOf(u, t, v)
    BY <2>0, Joined
  <2>. QED
    BY <2>1, Zenon DEF JoinOf
<1>. PICK z : z = s \o f
  BY Zenon
<1>5. /\ z \in Seq(LineBytes) /\ Len(z) = Len(s) + n
      /\ \A k \in DOMAIN s : k \in DOMAIN z /\ z[k] = s[k]
      /\ \A k \in DOMAIN f : k + Len(s) \in DOMAIN z /\ z[k + Len(s)] = f[k]
  <2>0. s \in Seq(LineBytes)
    BY <1>2
  <2>1. z \in Seq(LineBytes) /\ JoinOf(z, s, f)
    BY <2>0, Joined
  <2>. QED
    BY <2>1, Zenon DEF JoinOf
<1>6. PICK B : /\ owed' \in Seq(B) /\ Len(owed') = Len(owed) + e
               /\ \A k \in DOMAIN owed : k \in DOMAIN owed' /\ owed'[k] = owed[k]
               /\ e = 1 => Len(owed) + 1 \in DOMAIN owed' /\ owed'[Len(owed) + 1] = TheAnswer(c)
  <2>1. CASE IsEmpty(c)
    <3>1. AnswersTo(c) = <<>>
      BY <2>1, CommandKinds DEF IsEmpty
    <3>2. owed' = owed
      BY <1>1, <3>1
    <3>. QED
      BY <1>1, <2>1, <3>2
  <2>2. CASE ~ IsEmpty(c)
    <3>1. AnswersTo(c) = <<TheAnswer(c)>>
      <4>1. Len(c) # 3
        <5>1. CASE IsQuestion(c)
          BY <5>1 DEF IsQuestion
        <5>2. CASE HasData(c)
          BY <5>2 DEF HasData
        <5>. QED
          BY <2>2, <5>1, <5>2, CommandKinds
      <4>. QED
        BY <4>1, CommandKinds
    <3>. PICK B : B = A \cup {TheAnswer(c)}
      BY Zenon
    <3>2. owed \in Seq(B) /\ TheAnswer(c) \in B
      BY <1>1
    <3>3. owed' = Append(owed, TheAnswer(c))
      BY <3>1, <3>2, AppendDomain
    <3>4. /\ owed' \in Seq(B) /\ Len(owed') = Len(owed) + 1
          /\ \A k \in DOMAIN owed : k \in DOMAIN owed' /\ owed'[k] = owed[k]
          /\ owed'[Len(owed) + 1] = TheAnswer(c)
      BY <3>2, <3>3, AppendDomain
    <3>5. Len(owed) + 1 \in DOMAIN owed'
      BY <1>2, <3>4
    <3>. QED
      BY <2>2, <3>4, <3>5
  <2>. QED
    BY <2>1, <2>2
<1>7. /\ \A k : k \in DOMAIN t <=> k \in Int /\ k >= 1 /\ k <= Len(t)
      /\ \A k : k \in DOMAIN u <=> k \in Int /\ k >= 1 /\ k <= Len(u)
      /\ \A k : k \in DOMAIN f <=> k \in Int /\ k >= 1 /\ k <= n
  BY <1>2, <1>4, DomainIs
<1>8. ASSUME NEW k \in DOMAIN new PROVE Gives(new[k]) = (IF k = n THEN e ELSE 0) /\ (Ending(new[k]) <=> k = n)
  BY <1>3, Zenon DEF Gives, Ending
<1>9. ASSUME NEW k \in DOMAIN u PROVE TagIs(u[k], z[k], b)'
  <2>1. CASE k \in DOMAIN t
    <3>1. TagIs(t[k], s[k], b) /\ u[k] = t[k]
      BY <1>4, <2>1, Zenon DEF Tagged
    <3>2. z[k] = s[k]
      BY <1>2, <1>5, <1>7, <2>1, DomainIs
    <3>. QED
      BY <1>6, <3>1, <3>2, Zenon DEF TagIs
  <2>2. CASE k \notin DOMAIN t
    <3>. PICK j \in DOMAIN new : j = k - Len(t) /\ u[k] = new[j]
      BY <1>4, <2>2, Zenon
    <3>1. j \in Int /\ j >= 1 /\ j <= n /\ k = j + Len(s)
      BY <1>2, <1>3, <1>4, <1>7
    <3>2. z[k] = f[j]
      BY <1>5, <1>7, <3>1, Zenon
    <3>3. new[j].cmd = c /\ new[j].i = j /\ new[j].nth = IF j = n THEN last + e ELSE last
      BY <1>3, Zenon
    <3>4. ASSUME Gives(new[j]) = 1 PROVE new[j].nth - b \in DOMAIN owed' /\ owed'[new[j].nth - b] = TheAnswer(c)
      <4>1. j = n /\ e = 1
        BY <1>8, <3>4, SMTT(60)
      <4>2. new[j].nth - b = Len(owed) + 1
        BY <1>2, <3>3, <4>1, SMTT(60)
      <4>. QED
        BY <1>6, <4>1, <4>2, Zenon
    <3>. QED
      BY <3>1, <3>2, <3>3, <3>4, Zenon DEF TagIs
  <2>. QED
    BY <2>1, <2>2, Zenon
<1>10. ASSUME NEW k \in DOMAIN u, k + 1 \in DOMAIN u PROVE Follows(u[k], u[k + 1])
  <2>0. k \in Int /\ k >= 1 /\ k + 1 <= Len(t) + n /\ Len(t) \in Int
    BY <1>4, <1>7, <1>10
  <2>1. CASE k + 1 <= Len(t)
    <3>1. k \in DOMAIN t /\ k + 1 \in DOMAIN t
      BY <1>7, <2>0, <2>1, SMTT(60)
    <3>. QED
      BY <1>4, <3>1, Zenon DEF Tagged
  <2>2. CASE k = Len(t)
    <3>1. k \in DOMAIN t /\ t # <<>>
      BY <1>2, <1>7, <2>0, <2>2, DomainIs, SMTT(60)
    <3>2. Ending(t[k]) /\ t[k].nth = last
      BY <1>2, <2>2, <3>1 DEF Tagged
    <3>3. 1 \in DOMAIN new /\ u[k + 1] = new[1]
      <4>1. 1 \in DOMAIN new
        BY <1>3
      <4>2. u[1 + Len(t)] = new[1]
        BY <1>4, <4>1
      <4>. QED
        BY <2>0, <2>2, <4>1, <4>2
    <3>4. new[1].i = 1 /\ new[1].nth = last /\ Gives(new[1]) = 0
      <4>1. 1 # n
        OBVIOUS
      <4>2. new[1].i = 1 /\ new[1].nth = last
        BY <1>3, <3>3, <4>1, Zenon
      <4>3. Gives(new[1]) = 0
        BY <1>8, <3>3, <4>1, Zenon
      <4>. QED
        BY <4>2, <4>3
    <3>. QED
      BY <1>2, <1>4, <3>1, <3>2, <3>3, <3>4, SMTT(60) DEF Follows
  <2>3. CASE k > Len(t)
    <3>. PICK j \in Int : j = k - Len(t)
      BY <2>0
    <3>1. j \in DOMAIN new /\ j + 1 \in DOMAIN new /\ j + Len(t) = k /\ (j + 1) + Len(t) = k + 1 /\ j < n
      BY <1>3, <2>0, <2>3, SMTT(60)
    <3>2. u[k] = new[j] /\ u[k + 1] = new[j + 1]
      BY <1>4, <3>1, Zenon
    <3>3. /\ new[j].cmd = c /\ new[j].i = j /\ new[j].nth = last
          /\ new[j + 1].cmd = c /\ new[j + 1].i = j + 1 /\ new[j + 1].nth = IF j + 1 = n THEN last + e ELSE last
      <4>1. /\ new[j].cmd = c /\ new[j].i = j /\ new[j].nth = IF j = n THEN last + e ELSE last
            /\ new[j + 1].cmd = c /\ new[j + 1].i = j + 1 /\ new[j + 1].nth = IF j + 1 = n THEN last + e ELSE last
        BY <1>3, <3>1, Zenon
      <4>2. j # n
        BY <3>1
      <4>. QED
        BY <4>1, <4>2
    <3>4. ~ Ending(new[j]) /\ Gives(new[j + 1]) = IF j + 1 = n THEN e ELSE 0
      <4>1. j # n /\ j + 1 \in DOMAIN new
        BY <3>1
      <4>. QED
        BY <1>8, <3>1, <4>1, Zenon
    <3>5. u[k + 1].nth = u[k].nth + Gives(u[k + 1])
      BY <1>2, <3>2, <3>3, <3>4, SMTT(60)
    <3>6. ~ Ending(u[k]) /\ u[k + 1].cmd = u[k].cmd /\ u[k + 1].i = u[k].i + 1
      BY <3>2, <3>3, <3>4
    <3>. QED
      BY <3>5, <3>6 DEF Follows
  <2>. QED
    BY <2>0, <2>1, <2>2, <2>3, SMTT(60)
<1>11. ASSUME NEW j \in DOMAIN u, NEW k \in DOMAIN u, j < k PROVE u[k].nth >= u[j].nth + Gives(u[k])
  <2>0. j \in Int /\ k \in Int /\ j >= 1 /\ k <= Len(t) + n /\ Len(t) \in Int
    BY <1>4, <1>7
  <2>1. CASE k <= Len(t)
    <3>1. j \in DOMAIN t /\ k \in DOMAIN t
      BY <1>7, <1>11, <2>0, <2>1
    <3>2. t[k].nth >= t[j].nth + Gives(t[k])
      BY <1>11, <3>1, Zenon DEF Tagged
    <3>3. u[j] = t[j] /\ u[k] = t[k]
      BY <1>4, <3>1, Zenon
    <3>. QED
      BY <3>2, <3>3
  <2>2. CASE k > Len(t)
    <3>. PICK i \in DOMAIN new : i = k - Len(t) /\ u[k] = new[i]
      BY <1>4, <1>7, <2>0, <2>2, SMTT(60)
    <3>1. u[k].nth = last + Gives(u[k]) /\ Gives(u[k]) \in Int /\ Gives(u[k]) >= 0
      <4>1. new[i].nth = IF i = n THEN last + e ELSE last
        BY <1>3, Zenon
      <4>2. Gives(new[i]) = IF i = n THEN e ELSE 0
        BY <1>8, Zenon
      <4>3. e = 0 \/ e = 1
        OBVIOUS
      <4> HIDE DEF e, last
      <4>4. new[i].nth = last + Gives(new[i])
        BY <1>2, <4>1, <4>2, <4>3, SMTT(60)
      <4>. QED
        BY <4>4, GivesIs
    <3>2. u[j].nth \in Int /\ u[j].nth <= last
      <4>1. CASE j < Len(t)
        <5>1. j \in DOMAIN t /\ Len(t) \in DOMAIN t /\ t # <<>>
          BY <1>2, <1>7, <2>0, <4>1, SMTT(60)
        <5>2. t[Len(t)].nth >= t[j].nth + Gives(t[Len(t)]) /\ t[Len(t)].nth = b + Len(owed)
          BY <4>1, <5>1, Zenon DEF Tagged
        <5>3. t[j].nth \in Int /\ Gives(t[Len(t)]) \in Int /\ Gives(t[Len(t)]) >= 0
          <6>1. t[j] \in Tags
            BY <1>2, <5>1, SMTT(60)
          <6>2. t[j].nth \in Int
            BY <6>1, Zenon DEF Tags
          <6>. QED
            BY <6>2, GivesIs, Zenon
        <5>4. u[j] = t[j]
          BY <1>4, <5>1, Zenon
        <5>5. Len(owed) + b = last
          OBVIOUS
        <5>6. t[Len(t)].nth = last
          BY <1>2, <5>2, <5>5
        <5>7. last \in Int
          BY <1>2
        <5> HIDE DEF last
        <5>8. last >= t[j].nth + Gives(t[Len(t)])
          BY <5>2, <5>6, Zenon
        <5>9. t[j].nth <= last
          BY <5>3, <5>7, <5>8, Weighs, Zenon
        <5>. QED
          BY <5>3, <5>4, <5>9, Zenon
      <4>2. CASE j = Len(t)
        <5>1. j \in DOMAIN t /\ t # <<>>
          BY <1>2, <1>7, <2>0, <4>2, SMTT(60)
        <5>2. u[j] = t[j] /\ t[j].nth = b + Len(owed)
          BY <1>4, <4>2, <5>1 DEF Tagged
        <5>. QED
          BY <1>2, <5>2
      <4>3. CASE j > Len(t)
        <5>. PICK h \in DOMAIN new : h = j - Len(t) /\ u[j] = new[h]
          BY <1>4, <1>7, <2>0, <4>3, SMTT(60)
        <5>1. h # n
          BY <1>3, <1>11, <2>0
        <5>2. new[h].nth = last
          BY <1>3, <5>1
        <5>3. last \in Int
          BY <1>2
        <5> HIDE DEF last
        <5>4. u[j].nth = last
          BY <5>2
        <5>. QED
          BY <5>3, <5>4
      <4>. QED
        BY <2>0, <4>1, <4>2, <4>3, SMTT(60)
    <3>3. last \in Int
      BY <1>2
    <3> HIDE DEF last
    <3>4. last + Gives(u[k]) >= u[j].nth + Gives(u[k])
      BY <3>1, <3>2, <3>3, Weighs, Zenon
    <3>. QED
      BY <3>1, <3>4, Zenon
  <2>. QED
    BY <2>0, <2>1, <2>2, SMTT(60)
<1>12. /\ parser' = ParserAt(u[1].cmd, u[1].i) /\ u[1].nth = b + Gives(u[1])
       /\ Ending(u[Len(u)]) /\ u[Len(u)].nth = b + Len(owed')
  <2>1. n \in DOMAIN new /\ u[Len(u)] = new[n]
    <3>1. n \in DOMAIN new
      BY <1>3
    <3>2. u[n + Len(t)] = new[n]
      BY <1>4, <3>1, Zenon
    <3>. QED
      BY <1>4, <3>1, <3>2, SMTT(60)
  <2>2. Ending(u[Len(u)]) /\ u[Len(u)].nth = b + Len(owed')
    BY <1>2, <1>3, <1>6, <1>8, <2>1, SMTT(60)
  <2>3. CASE t = <<>>
    <3>1. parser = Reset /\ Len(owed) = 0 /\ Len(t) = 0
      BY <2>3 DEF Tagged
    <3>2. 1 \in DOMAIN new /\ u[1] = new[1]
      <4>1. 1 \in DOMAIN new
        BY <1>3
      <4>2. u[1 + Len(t)] = new[1]
        BY <1>4, <4>1
      <4>. QED
        BY <3>1, <4>1, <4>2
    <3>3. new[1].i = 1 /\ new[1].nth = b /\ Gives(new[1]) = 0
      <4>1. 1 # n
        OBVIOUS
      <4>2. new[1].i = 1 /\ new[1].nth = last
        BY <1>3, <3>2, <4>1, Zenon
      <4>3. Gives(new[1]) = 0
        BY <1>8, <3>2, <4>1, Zenon
      <4>. QED
        BY <1>2, <3>1, <4>2, <4>3
    <3>4. ParserAt(u[1].cmd, 1) = Reset
      BY DEF ParserAt, Reset
    <3>. QED
      BY <1>2, <2>2, <3>1, <3>2, <3>3, <3>4
  <2>4. CASE t # <<>>
    <3>1. 1 \in DOMAIN t
      BY <1>2, <2>4
    <3>2. u[1] = t[1]
      BY <1>4, <3>1
    <3>. QED
      BY <2>2, <2>4, <3>2 DEF Tagged
  <2>. QED
    BY <2>3, <2>4, Zenon
<1>13. Len(u) = Len(z) /\ u # <<>>
  BY <1>2, <1>4, <1>5
<1>. QED
  BY <1>2, <1>4, <1>5, <1>6, <1>9, <1>10, <1>12, <1>13, <1>11, ZenonT(100) DEF Tagged

LEMMA ByteParsed ==
  ASSUME NEW s, NEW t, NEW b, Tagged(s, t, b), s # <<>>, ~ line_disturbed, NEW x, x = Head(s),
         InMagic(x) \/ InVersion(x) \/ InCmd(x) \/ InLen1(x) \/ InLen2(x) \/ InData(x)
  PROVE  \E u, e : Tagged(Tail(s), u, e)'
<1>. PICK A : owed \in Seq(A)
  BY DEF Tagged
<1>1. s \in Seq(LineBytes) /\ t \in Seq(Tags) /\ b \in Int /\ Len(t) = Len(s)
  BY DEF Tagged
<1>2. t # <<>> /\ Len(t) \in Nat /\ Len(t) > 0 /\ x = s[1]
  BY <1>1
<1>. PICK u : u = Tail(t)
  BY Zenon
<1>. PICK z : z = Tail(s)
  BY Zenon
<1>3. /\ u \in Seq(Tags) /\ Len(u) = Len(t) - 1
      /\ \A k \in DOMAIN u : k \in Int /\ k >= 1 /\ k + 1 \in DOMAIN t /\ u[k] = t[k + 1]
      /\ 1 \in DOMAIN t
  BY <1>1, <1>2, TailDomain
<1>4. /\ z \in Seq(LineBytes) /\ Len(z) = Len(s) - 1
      /\ \A k \in DOMAIN z : z[k] = s[k + 1]
  BY <1>1, TailDomain
<1>5. /\ \A k : k \in DOMAIN t <=> k \in Int /\ k >= 1 /\ k <= Len(t)
      /\ \A k : k \in DOMAIN u <=> k \in Int /\ k >= 1 /\ k <= Len(u)
      /\ \A k : k \in DOMAIN z <=> k \in Int /\ k >= 1 /\ k <= Len(z)
  BY <1>1, <1>3, <1>4, DomainIs
<1>. PICK g \in Tags : g = t[1]
  BY <1>1, <1>3
<1>. PICK e \in Int : e = b + Gives(g)
  BY <1>1 DEF Gives
<1>6. g.cmd \in Commands /\ g.i \in Int /\ g.nth \in Int
  BY DEF Tags
<1>7. /\ g.i >= 1 /\ g.i <= Bytes(g.cmd) /\ x = Frame(g.cmd)[g.i] /\ parser = ParserAt(g.cmd, g.i) /\ g.nth = e
      /\ Gives(g) = 1 => g.nth - b \in DOMAIN owed /\ owed[g.nth - b] = TheAnswer(g.cmd)
  BY <1>2, <1>3, Zenon DEF Tagged, TagIs
<1>8. /\ g.i < Bytes(g.cmd) => parser' = ParserAt(g.cmd, g.i + 1) /\ owed' = owed
      /\ g.i = Bytes(g.cmd) => parser' = Reset /\ IF IsEmpty(g.cmd) THEN owed' = owed ELSE Answers(TheAnswer(g.cmd))
  BY <1>6, <1>7, OneByte, Zenon
<1>9. /\ Gives(g) = 0 => owed' = owed
      /\ Gives(g) = 1 => owed # <<>> /\ owed' = Tail(owed)
      /\ Gives(g) \in {0, 1}
  <2>1. ASSUME Gives(g) = 1 PROVE owed # <<>> /\ owed' = Tail(owed)
    <3>1. 1 \in DOMAIN owed /\ owed[1] = TheAnswer(g.cmd)
      BY <1>1, <1>7, <2>1
    <3>2. owed # <<>> /\ Head(owed) = owed[1]
      BY <3>1
    <3>3. Answers(TheAnswer(g.cmd))
      BY <1>8, <2>1 DEF Gives, Ending
    <3>. QED
      BY <3>1, <3>2, <3>3, Zenon DEF Answers
  <2>2. ASSUME Gives(g) = 0 PROVE owed' = owed
    <3>1. g.i # Bytes(g.cmd) \/ IsEmpty(g.cmd)
      BY <2>2 DEF Gives, Ending
    <3>2. Bytes(g.cmd) \in Int
      BY DEF Bytes
    <3>. QED
      BY <1>6, <1>7, <1>8, <3>1, <3>2
  <2>3. Gives(g) \in {0, 1}
    BY DEF Gives
  <2>. QED
    BY <2>1, <2>2, <2>3
<1>10. /\ owed' \in Seq(A) /\ Len(owed') = Len(owed) - Gives(g) /\ Len(owed) \in Nat
       /\ \A k \in DOMAIN owed : k \in Int /\ (k - Gives(g) >= 1 => k - Gives(g) \in DOMAIN owed' /\ owed'[k - Gives(g)] = owed[k])
  <2>1. CASE Gives(g) = 0
    <3>1. \A k \in DOMAIN owed : k \in Int /\ k - Gives(g) = k
      BY <2>1
    <3>. QED
      BY <1>9, <2>1, <3>1
  <2>2. CASE Gives(g) = 1
    <3>1. owed # <<>> /\ owed' = Tail(owed)
      BY <1>9, <2>2
    <3>2. \A k \in DOMAIN owed : k \in Int /\ (k - 1 >= 1 => k - 1 \in DOMAIN owed' /\ owed'[k - 1] = owed[k])
      BY <3>1
    <3>. QED
      BY <2>2, <3>1, <3>2
  <2>. QED
    BY <1>9, <2>1, <2>2
<1>11. ASSUME NEW k \in DOMAIN u PROVE TagIs(u[k], z[k], e)'
  <2>1. k \in Int /\ k + 1 \in DOMAIN t /\ u[k] = t[k + 1] /\ z[k] = s[k + 1] /\ 1 < k + 1
    BY <1>1, <1>3, <1>4, <1>5, SMTT(60)
  <2>2. TagIs(t[k + 1], s[k + 1], b)
    BY <2>1 DEF Tagged
  <2>. PICK y \in Tags : y = t[k + 1]
    BY <1>1, <2>1
  <2>3. y.nth \in Int /\ y.nth >= e + Gives(y)
    <3>1. t[k + 1].nth >= t[1].nth + Gives(t[k + 1])
      BY <1>3, <2>1, Zenon DEF Tagged
    <3>. QED
      BY <1>7, <3>1 DEF Tags
  <2>4. ASSUME Gives(y) = 1 PROVE y.nth - e \in DOMAIN owed' /\ owed'[y.nth - e] = TheAnswer(y.cmd)
    <3>1. y.nth - b \in DOMAIN owed /\ owed[y.nth - b] = TheAnswer(y.cmd)
      BY <2>2, <2>4 DEF TagIs
    <3>2. (y.nth - b) - Gives(g) = y.nth - e /\ y.nth - e >= 1
      BY <1>1, <1>9, <2>3, <2>4, SMTT(60)
    <3>. QED
      BY <1>10, <3>1, <3>2
  <2>. QED
    BY <2>1, <2>2, <2>4, Zenon DEF TagIs
<1>12. ASSUME NEW k \in DOMAIN u, k + 1 \in DOMAIN u PROVE Follows(u[k], u[k + 1])
  <2>1. k + 1 \in DOMAIN t /\ (k + 1) + 1 \in DOMAIN t /\ u[k] = t[k + 1] /\ u[k + 1] = t[(k + 1) + 1]
    BY <1>3, <1>12
  <2>. QED
    BY <2>1, Zenon DEF Tagged
<1>13. ASSUME NEW j \in DOMAIN u, NEW k \in DOMAIN u, j < k PROVE u[k].nth >= u[j].nth + Gives(u[k])
  <2>1. j + 1 \in DOMAIN t /\ k + 1 \in DOMAIN t /\ j + 1 < k + 1 /\ u[j] = t[j + 1] /\ u[k] = t[k + 1]
    BY <1>3, <1>13
  <2>2. t[k + 1].nth >= t[j + 1].nth + Gives(t[k + 1])
    BY <2>1, Zenon DEF Tagged
  <2>. QED
    BY <2>1, <2>2
<1>14. Ending(t[Len(t)]) /\ t[Len(t)].nth = b + Len(owed)
  BY <1>2 DEF Tagged
<1>15. ASSUME u = <<>> PROVE parser' = Reset /\ owed' = <<>>
  <2>1. Len(t) = 1
    <3>1. Len(u) = 0
      BY <1>3, <1>15, DomainIs, Zenon
    <3>. QED
      BY <1>2, <1>3, <3>1
  <2>2. Ending(g) /\ g.nth = b + Len(owed)
    BY <1>14, <2>1
  <2>3. Len(owed') = 0
    BY <1>1, <1>7, <1>9, <1>10, <2>2, SMTT(60)
  <2>. QED
    BY <1>8, <1>10, <2>2, <2>3 DEF Ending
<1>16. ASSUME u # <<>>
       PROVE  /\ parser' = ParserAt(u[1].cmd, u[1].i) /\ u[1].nth = e + Gives(u[1])
              /\ Ending(u[Len(u)]) /\ u[Len(u)].nth = e + Len(owed')
  <2>1. Len(u) >= 1 /\ 1 \in DOMAIN u /\ Len(u) \in DOMAIN u
    BY <1>3, <1>16
  <2>2. u[1] = t[2] /\ u[Len(u)] = t[Len(t)] /\ 2 \in DOMAIN t
    <3>1. u[1] = t[1 + 1] /\ 1 + 1 \in DOMAIN t /\ u[Len(u)] = t[Len(u) + 1]
      BY <1>3, <2>1
    <3>2. Len(u) + 1 = Len(t)
      BY <1>2, <1>3
    <3>. QED
      BY <3>1, <3>2
  <2>3. Follows(g, t[2])
    <3>1. Follows(t[1], t[1 + 1])
      <4>1. 1 \in DOMAIN t /\ 1 + 1 \in DOMAIN t
        BY <1>3, <2>1
      <4>. QED
        BY <4>1, Zenon DEF Tagged
    <3>. QED
      BY <3>1
  <2>4. u[1].nth = e + Gives(u[1])
    BY <1>7, <2>2, <2>3 DEF Follows
  <2>5. Ending(u[Len(u)]) /\ u[Len(u)].nth = e + Len(owed')
    BY <1>1, <1>9, <1>10, <1>14, <2>2, SMTT(60)
  <2>6. CASE Ending(g)
    <3>1. parser' = Reset /\ u[1].i = 1
      BY <1>8, <2>2, <2>3, <2>6 DEF Ending, Follows
    <3>2. ParserAt(u[1].cmd, 1) = Reset
      BY DEF ParserAt, Reset
    <3>. QED
      BY <2>4, <2>5, <3>1, <3>2, Zenon
  <2>7. CASE ~ Ending(g)
    <3>1. g.i < Bytes(g.cmd)
      <4>1. Bytes(g.cmd) \in Int
        BY DEF Bytes
      <4>. QED
        BY <1>6, <1>7, <2>7, <4>1 DEF Ending
    <3>2. u[1].cmd = g.cmd /\ u[1].i = g.i + 1
      BY <2>2, <2>3, <2>7 DEF Follows
    <3>. QED
      BY <1>8, <2>4, <2>5, <3>1, <3>2, Zenon
  <2>. QED
    BY <2>6, <2>7, Zenon
<1>17. Len(u) = Len(z)
  BY <1>1, <1>3, <1>4
<1>18. /\ \A k \in DOMAIN u : TagIs(u[k], z[k], e)'
       /\ \A k \in DOMAIN u : k + 1 \in DOMAIN u => Follows(u[k], u[k + 1])
       /\ \A j, k \in DOMAIN u : j < k => u[k].nth >= u[j].nth + Gives(u[k])
  BY <1>11, <1>12, <1>13, Zenon
<1>19. z \in Seq(LineBytes) /\ u \in Seq(Tags) /\ e \in Int /\ owed' \in Seq(A)
  BY <1>3, <1>4, <1>10
<1>20. Tagged(z, u, e)'
  BY <1>15, <1>16, <1>17, <1>18, <1>19, Zenon DEF Tagged
<1>. QED
  BY <1>20

LEMMA SensniffStep == SensniffInv /\ [SensniffNext]_sensniffVars => SensniffInv'
<1> SUFFICES ASSUME SensniffInv, [SensniffNext]_sensniffVars PROVE SensniffInv'
  OBVIOUS
<1>0. rxbuf \in Seq(LineBytes) /\ unsent \in Seq(LineBytes) /\ (rxbuf # <<>> => pending)
  BY DEF SensniffInv
<1>1. ASSUME UNCHANGED <<listening, unsent, rxbuf, parser>>, listening /\ ~ line_disturbed' => ~ line_disturbed /\ owed' = owed,
             rxbuf' # <<>> => pending', listening /\ ~ line_disturbed' /\ ct' = "expired" => rxbuf = <<>> /\ unsent = <<>>
      PROVE  SensniffInv'
  <2>1. ASSUME listening, ~ line_disturbed' PROVE \E t, b : Tagged(rxbuf \o unsent, t, b)'
    <3>1. PICK t, b : Tagged(rxbuf \o unsent, t, b)
      BY <1>1, <2>1 DEF SensniffInv
    <3>2. Tagged(rxbuf \o unsent, t, b)'
      BY <1>1, <2>1, <3>1 DEF Tagged, TagIs
    <3>. QED
      BY <3>2
  <2>. QED
    BY <1>0, <1>1, <2>1 DEF SensniffInv
<1>2. CASE HostSends
  <2>. PICK command \in Commands :
         /\ LineTransmits(Head(Frame(command))) /\ unsent' = Tail(Frame(command)) /\ Owes(owed \o AnswersTo(command))
    BY <1>2 DEF HostSends
  <2>1. unsent = <<>> /\ UNCHANGED <<listening, parser>>
    BY <1>2 DEF HostSends
  <2>2. rxbuf' \in Seq(LineBytes) /\ (rxbuf' # <<>> => pending') /\ unsent' \in Seq(LineBytes)
    BY FrameParts, TransmittedTypes, Zenon
  <2>3. ASSUME listening, ~ line_disturbed' PROVE ct' # "expired" /\ \E t, b : Tagged(rxbuf \o unsent, t, b)'
    <3>1. ~ line_disturbed /\ ct' # "expired" /\ rxbuf' = Append(rxbuf, Head(Frame(command)))
      BY <2>3, CameWhole
    <3>2. PICK t, b : Tagged(rxbuf \o unsent, t, b)
      BY <2>3, <3>1 DEF SensniffInv
    <3>3. rxbuf \o unsent = rxbuf
      BY <1>0, <2>1
    <3>4. (rxbuf \o unsent)' = rxbuf \o Frame(command)
      BY <1>0, <3>1, FrameParts, Zenon
    <3>5. owed' = owed \o AnswersTo(command)
      BY <2>3 DEF Owes
    <3>6. \E u : Tagged(rxbuf \o unsent, u, b)'
      <4>. PICK s : s = rxbuf
        OBVIOUS
      <4>1. Tagged(s, t, b)
        BY <3>2, <3>3
      <4>. PICK c \in Commands : c = command
        OBVIOUS
      <4>2. \E u : Tagged(s \o Frame(c), u, b)'
        BY <2>1, <3>5, <4>1, CommandSent, Zenon
      <4>. QED
        BY <3>4, <4>2, Zenon
    <3>. QED
      BY <3>1, <3>6
  <2>. QED
    BY <2>1, <2>2, <2>3 DEF SensniffInv
<1>3. CASE HostGoesOn
  <2>1. /\ unsent # <<>> /\ LineTransmits(Head(unsent)) /\ unsent' = Tail(unsent) /\ Owes(owed)
        /\ UNCHANGED <<listening, parser>>
    BY <1>3 DEF HostGoesOn
  <2>2. rxbuf' \in Seq(LineBytes) /\ (rxbuf' # <<>> => pending') /\ unsent' \in Seq(LineBytes)
    BY <1>0, <2>1, OneFurther, TransmittedTypes
  <2>3. ASSUME listening, ~ line_disturbed' PROVE ct' # "expired" /\ \E t, b : Tagged(rxbuf \o unsent, t, b)'
    <3>1. ~ line_disturbed /\ ct' # "expired" /\ rxbuf' = Append(rxbuf, Head(unsent))
      BY <2>1, <2>3, CameWhole
    <3>2. PICK t, b : Tagged(rxbuf \o unsent, t, b)
      BY <2>3, <3>1 DEF SensniffInv
    <3>3. (rxbuf \o unsent)' = rxbuf \o unsent
      BY <1>0, <2>1, <3>1, OneFurther, Zenon
    <3>4. owed' = owed /\ parser' = parser
      BY <2>1, <2>3 DEF Owes
    <3>5. Tagged(rxbuf \o unsent, t, b)'
      BY <3>2, <3>3, <3>4 DEF Tagged, TagIs
    <3>. QED
      BY <3>1, <3>5
  <2>. QED
    BY <2>1, <2>2, <2>3 DEF SensniffInv
<1>4. CASE NoiseArrives
  <2>1. line_disturbed' /\ unsent' = unsent /\ \E c \in {"C1", "00"} : char_in(c)
    BY <1>4 DEF NoiseArrives, Disturbs
  <2>2. rxbuf' \in Seq(LineBytes) /\ (rxbuf' # <<>> => pending')
    BY <2>1, TransmittedTypes DEF LineBytes
  <2>. QED
    BY <1>0, <2>1, <2>2 DEF SensniffInv
<1>5. CASE process_incoming_data
  <2>1. /\ pending /\ rxbuf # <<>> /\ rxbuf' = Tail(rxbuf) /\ UNCHANGED <<listening, unsent, pending, ct, line_disturbed>>
    BY <1>5 DEF process_incoming_data
  <2>. PICK x : x = Head(rxbuf)
    OBVIOUS
  <2>2. InMagic(x) \/ InVersion(x) \/ InCmd(x) \/ InLen1(x) \/ InLen2(x) \/ InData(x)
    BY <1>5 DEF process_incoming_data
  <2>3. ASSUME listening, ~ line_disturbed' PROVE ct' # "expired" /\ \E t, b : Tagged(rxbuf \o unsent, t, b)'
    <3>1. PICK t, b : Tagged(rxbuf \o unsent, t, b)
      BY <2>1, <2>3 DEF SensniffInv
    <3>2. /\ rxbuf \o unsent # <<>> /\ Head(rxbuf \o unsent) = x
          /\ Tail(rxbuf) \o unsent = Tail(rxbuf \o unsent)
      BY <1>0, <2>1, SMTT(60)
    <3>. PICK s : s = rxbuf \o unsent
      BY Zenon
    <3>3. Tagged(s, t, b) /\ s # <<>> /\ x = Head(s) /\ ~ line_disturbed
      BY <2>1, <2>3, <3>1, <3>2
    <3>4. \E u, e : Tagged(Tail(s), u, e)'
      BY <2>2, <3>3, ByteParsed, Zenon
    <3>5. Tail(s) = (rxbuf \o unsent)'
      BY <2>1, <3>2
    <3>6. ct' # "expired"
      BY <2>1, <2>3 DEF SensniffInv
    <3>. QED
      BY <3>4, <3>5, <3>6, Zenon
  <2>4. rxbuf' \in Seq(LineBytes)
    BY <1>0, <2>1
  <2>. QED
    BY <1>0, <2>1, <2>3, <2>4 DEF SensniffInv
<1>6. CASE LoopEnds
  <2>1. /\ rxbuf = <<>> /\ UNCHANGED <<listening, unsent, rxbuf, ct, parser, line_disturbed, owed>>
    BY <1>6 DEF LoopEnds
  <2>. QED
    BY <1>1, <2>1 DEF SensniffInv
<1>7. CASE FrameTimesOut
  <2>1. /\ ~ pending /\ ct' = "expired" /\ UNCHANGED <<listening, unsent, rxbuf, pending, parser>>
        /\ (unsent = <<>> /\ line_disturbed' = line_disturbed) \/ line_disturbed' = TRUE
        /\ Owes(owed)
    BY <1>7 DEF FrameTimesOut, Disturbs
  <2>2. ~ line_disturbed' => owed' = owed /\ ~ line_disturbed /\ unsent = <<>>
    BY <2>1 DEF Owes
  <2>. QED
    BY <1>0, <1>1, <2>1, <2>2
<1>8. CASE TimedOut
  <2>1. /\ ct = "expired" /\ ct' = "off" /\ parser' = Reset /\ UNCHANGED <<listening, unsent, rxbuf, pending>>
        /\ IF unsent = <<>> /\ rxbuf = <<>> THEN line_disturbed' = FALSE /\ owed' = <<>> ELSE UNCHANGED <<line_disturbed, owed>>
    BY <1>8 DEF TimedOut, reset_state
  <2>2. ASSUME listening, ~ line_disturbed' PROVE \E t, b : Tagged(rxbuf \o unsent, t, b)'
    <3>1. unsent = <<>> /\ rxbuf = <<>>
      BY <2>1, <2>2 DEF SensniffInv
    <3>2. owed' = <<>> /\ (rxbuf \o unsent)' = <<>>
      BY <2>1, <3>1
    <3>3. Tagged(rxbuf \o unsent, <<>>, 0)'
      <4>1. <<>> \in Seq(LineBytes) /\ <<>> \in Seq(Tags) /\ owed' \in Seq(Int) /\ DOMAIN <<>> = {} /\ Len(<<>>) = 0
        BY <3>2
      <4>. QED
        BY <2>1, <3>2, <4>1 DEF Tagged
    <3>. QED
      BY <3>3
  <2>. QED
    BY <1>0, <2>1, <2>2 DEF SensniffInv
<1>9. CASE UNCHANGED sensniffVars
  BY <1>0, <1>1, <1>9 DEF sensniffVars, SensniffInv
<1>. QED
  BY <1>2, <1>3, <1>4, <1>5, <1>6, <1>7, <1>8, <1>9 DEF SensniffNext

(***************************************************************************)
(* The programs together: one of them runs, the others stand still.        *)
(***************************************************************************)

DriversInv == CryptoInv /\ PkaInv /\ SensniffInv /\ SlipInv /\ Uart1Inv /\ PinsHold

\* A step of the programs is a step of each of them, or leaves it as it is.
LEMMA DriversStandStill ==
  ASSUME [Next]_vars
  PROVE  /\ [CryptoNext]_cryptoVars /\ [PkaNext]_pkaVars /\ [SensniffNext]_sensniffVars
         /\ [SlipNext]_slipVars /\ [Uart1Next]_uart1Vars /\ [AtNext]_atVars
<1>1. CASE UNCHANGED driverVars
  BY <1>1 DEF driverVars
<1>2. CASE SensniffRuns
  BY <1>2 DEF SensniffRuns
<1>3. CASE SlipRadioRuns
  BY <1>3 DEF SlipRadioRuns
<1>4. CASE Uart1NodeRuns
  BY <1>4 DEF Uart1NodeRuns
<1>5. CASE AtMasterRuns
  BY <1>5 DEF AtMasterRuns
<1>6. CASE CryptoTestsRun
  BY <1>6 DEF CryptoTestsRun
<1>7. CASE PkaTestsRun
  BY <1>7 DEF PkaTestsRun
<1>8. CASE RoutesRun
  BY <1>8 DEF RoutesRun
<1>9. CASE SfSimpleRuns \/ SfPlugtestRuns \/ WebRuns \/ PagesRun
  BY <1>1, <1>9 DEF SfSimpleRuns, SfPlugtestRuns, WebRuns, PagesRun
<1>10. CASE UNCHANGED vars
  BY <1>1, <1>10 DEF vars
<1>. QED
  BY <1>2, <1>3, <1>4, <1>5, <1>6, <1>7, <1>8, <1>9, <1>10 DEF Next

LEMMA DriversSteps == DriversInv /\ [Next]_vars => DriversInv'
<1> SUFFICES ASSUME DriversInv, [Next]_vars PROVE DriversInv'
  OBVIOUS
<1>1. /\ [CryptoNext]_cryptoVars /\ [PkaNext]_pkaVars /\ [SensniffNext]_sensniffVars
      /\ [SlipNext]_slipVars /\ [Uart1Next]_uart1Vars /\ [AtNext]_atVars
  BY DriversStandStill
<1>2. CryptoInv /\ PkaInv /\ SensniffInv /\ SlipInv /\ Uart1Inv /\ PinsHold
  BY DEF DriversInv
<1>3. CryptoInv'
  BY <1>1, <1>2, CryptoStep
<1>4. PkaInv'
  BY <1>1, <1>2, PkaStep
<1>5. SensniffInv'
  BY <1>1, <1>2, SensniffStep
<1>6. SlipInv'
  BY <1>1, <1>2, SlipStep
<1>7. Uart1Inv'
  BY <1>1, <1>2, Uart1Step
<1>8. PinsHold'
  BY <1>1, <1>2, AtStep
<1>. QED
  BY <1>3, <1>4, <1>5, <1>6, <1>7, <1>8 DEF DriversInv

\* See DriversSafe: verdicts, secrets, answers, reports, lines and pins.
THEOREM DriversAreSafe == Spec => []DriversSafe
<1>1. Init => DriversInv
  BY CryptoInitially, PkaInitially, SensniffInitially, SlipInitially, Uart1Initially, AtInitially DEF Init, DriversInv
<1>2. DriversInv => DriversSafe
  <2>1. CryptoInv => CryptoSafe
    BY DEF CryptoInv
  <2>2. SlipInv => ReportsItsPacket
    BY DEF SlipInv
  <2>. QED
    BY <2>1, <2>2, PkaIsSafe, SensniffIsSafe, Uart1IsSafe DEF DriversInv, DriversSafe
<1>. QED
  BY <1>1, <1>2, DriversSteps, PTL DEF Spec

(***************************************************************************)
(* The web server's pages.  handle_output() folds the chunks of an answer, *)
(* from the left: the function that the fold chooses exists, and is known  *)
(* for the first k chunks.                                                 *)
(***************************************************************************)

EnqueueNext(c, chunk) == IF c.phase = "output" THEN enqueue_chunk(c, chunk) ELSE c
Latest(s) == CHOOSE x \in s : \A y \in s : x >= y
Enqueuing(f, o, b, s) == IF s = {} THEN b ELSE EnqueueNext(f[s \ {Latest(s)}], o[Latest(s)])
Enqueues(f, o, b) == f = [s \in SUBSET DOMAIN o |-> Enqueuing(f, o, b, s)]
Enqueued(o, b) == CHOOSE f : Enqueues(f, o, b)
Closes(c) == IF c.phase = "output" THEN [c EXCEPT !.phase = "closing"] ELSE c

LEMMA OutputUnfolds == ASSUME NEW b PROVE handle_output(b) = Closes(Enqueued(b.output, b)[DOMAIN b.output])
  BY DEF handle_output, FoldLeft, MapThenFoldSet, Max, Closes, Enqueued, Enqueues, Enqueuing, Latest, EnqueueNext

LEMMA LatestIs ==
  ASSUME NEW s, NEW k \in s, s \subseteq Int, \A i \in s : i <= k
  PROVE  Latest(s) = k
<1>1. \A x \in s : (\A y \in s : x >= y) => x = k
  OBVIOUS
<1>2. k \in s /\ \A y \in s : k >= y
  OBVIOUS
<1>. QED
  BY <1>1, <1>2, Zenon DEF Latest

LEMMA LatestIsIn ==
  ASSUME NEW n \in Nat, NEW s \in SUBSET Nat, s # {}, \A i \in s : i <= n
  PROVE  Latest(s) \in s /\ \A i \in s : i <= Latest(s)
<1> DEFINE HasLatest(r) == \E k \in r : \A i \in r : i <= k
           T == {m \in Nat : \A r \in SUBSET Nat : r # {} /\ (\A i \in r : i <= m) => HasLatest(r)}
<1>1. 0 \in T
  <2> SUFFICES ASSUME NEW r \in SUBSET Nat, r # {}, \A i \in r : i <= 0 PROVE HasLatest(r)
    OBVIOUS
  <2>1. PICK k \in r : TRUE
    BY Zenon
  <2>2. \A i \in r : i <= k
    BY <2>1
  <2>. QED
    BY <2>1, <2>2
<1>2. ASSUME NEW m \in Nat, m \in T PROVE m + 1 \in T
  <2> SUFFICES ASSUME NEW r \in SUBSET Nat, r # {}, \A i \in r : i <= m + 1 PROVE HasLatest(r)
    OBVIOUS
  <2>1. CASE m + 1 \in r
    BY <2>1
  <2>2. CASE m + 1 \notin r
    <3>1. \A i \in r : i <= m
      BY <2>2
    <3>. QED
      BY <1>2, <3>1
  <2>. QED
    BY <2>1, <2>2
<1>3. n \in T
  <2> HIDE DEF T
  <2>. QED
    BY <1>1, <1>2, NatInduct
<1>4. PICK k \in s : \A i \in s : i <= k
  BY <1>3
<1>5. Latest(s) = k
  <2>1. s \subseteq Int
    OBVIOUS
  <2>. QED
    BY <1>4, <2>1, LatestIs, Zenon
<1>. QED
  BY <1>4, <1>5

LEMMA EnqueuedExists ==
  ASSUME NEW o, NEW b, NEW n \in Nat, DOMAIN o \in SUBSET Nat, \A i \in DOMAIN o : 1 <= i /\ i <= n
  PROVE  Enqueues(Enqueued(o, b), o, b)
<1> DEFINE D == DOMAIN o
           Good(g, m) == \A s \in SUBSET D : (\A i \in s : i <= m) => g[s] = Enqueuing(g, o, b, s)
           Total(g) == g = [s \in SUBSET D |-> g[s]]
           T == {m \in Nat : \E g : Total(g) /\ Good(g, m)}
<1>1. 0 \in T
  <2>1. PICK g : g = [s \in SUBSET D |-> b]
    BY Zenon
  <2>2. Good(g, 0)
    <3>1. ASSUME NEW s \in SUBSET D, \A i \in s : i <= 0 PROVE s = {}
      BY <3>1
    <3>. QED
      BY <2>1, <3>1 DEF Enqueuing
  <2>3. Total(g)
    BY <2>1
  <2>. QED
    BY <2>2, <2>3, Zenon
<1>2. ASSUME NEW m \in Nat, m \in T PROVE m + 1 \in T
  <2>1. PICK g : Total(g) /\ Good(g, m)
    BY <1>2, Zenon
  <2>2. PICK h : h = [s \in SUBSET D |-> Enqueuing(g, o, b, s)]
    BY Zenon
  <2>3. ASSUME NEW s \in SUBSET D, \A i \in s : i <= m + 1 PROVE h[s] = Enqueuing(h, o, b, s)
    <3>1. CASE s = {}
      BY <2>2, <3>1 DEF Enqueuing
    <3>2. CASE s # {}
      <4>. PICK k : k = Latest(s)
        OBVIOUS
      <4>1. s \in SUBSET Nat /\ k \in s /\ \A i \in s : i <= k
        BY <2>3, <3>2, LatestIsIn, Zenon
      <4>2. s \ {k} \in SUBSET D /\ \A i \in s \ {k} : i <= m
        BY <2>3, <4>1
      <4>3. g[s \ {k}] = h[s \ {k}]
        BY <2>1, <2>2, <4>2, Zenon
      <4>. QED
        BY <2>2, <3>2, <4>3 DEF Enqueuing
    <3>. QED
      BY <3>1, <3>2
  <2>4. Good(h, m + 1)
    BY <2>3
  <2>5. Total(h)
    BY <2>2
  <2>. QED
    <3> HIDE DEF Good, Total
    <3>. QED
      BY <2>4, <2>5
<1>3. n \in T
  <2> HIDE DEF T
  <2>. QED
    BY <1>1, <1>2, NatInduct
<1>4. PICK g : Total(g) /\ Good(g, n)
  BY <1>3, Zenon
<1>5. \A s \in SUBSET D : g[s] = Enqueuing(g, o, b, s)
  BY <1>4, Zenon
<1>6. Enqueues(g, o, b)
  BY <1>4, <1>5, Zenon DEF Enqueues
<1>. QED
  BY <1>6 DEF Enqueued

UpTo(o, k) == {i \in DOMAIN o : i <= k}

\* The first k chunks enqueued, and one more.
LEMMA EnqueuedStepByStep ==
  ASSUME NEW X, NEW o \in Seq(X), NEW b
  PROVE  /\ Enqueued(o, b)[UpTo(o, 0)] = b
         /\ \A k \in Nat : k < Len(o) =>
              Enqueued(o, b)[UpTo(o, k + 1)] = EnqueueNext(Enqueued(o, b)[UpTo(o, k)], o[k + 1])
         /\ UpTo(o, Len(o)) = DOMAIN o
<1>1. DOMAIN o = 1 .. Len(o) /\ Len(o) \in Nat
  OBVIOUS
<1>2. DOMAIN o \in SUBSET Nat /\ \A i \in DOMAIN o : 1 <= i /\ i <= Len(o)
  BY <1>1
<1>3. PICK f : f = Enqueued(o, b) /\ f = [s \in SUBSET DOMAIN o |-> Enqueuing(f, o, b, s)]
  <2>1. Enqueues(Enqueued(o, b), o, b)
    BY <1>1, <1>2, EnqueuedExists, Zenon
  <2>. QED
    BY <2>1 DEF Enqueues
<1>4. f[UpTo(o, 0)] = b
  <2>1. UpTo(o, 0) = {} /\ UpTo(o, 0) \in SUBSET DOMAIN o
    BY <1>1 DEF UpTo
  <2>. QED
    BY <1>3, <2>1 DEF Enqueuing
<1>5. ASSUME NEW k \in Nat, k < Len(o) PROVE f[UpTo(o, k + 1)] = EnqueueNext(f[UpTo(o, k)], o[k + 1])
  <2>. PICK s : s = UpTo(o, k + 1)
    OBVIOUS
  <2>1. k + 1 \in s /\ s \subseteq Int /\ s \in SUBSET DOMAIN o /\ \A i \in s : i <= k + 1
    BY <1>1, <1>5 DEF UpTo
  <2>2. Latest(s) = k + 1
    BY <2>1, LatestIs
  <2>3. s \ {k + 1} = UpTo(o, k)
    BY <1>1, <1>5 DEF UpTo
  <2>. QED
    BY <1>3, <2>1, <2>2, <2>3, Zenon DEF Enqueuing
<1>6. UpTo(o, Len(o)) = DOMAIN o
  BY <1>1 DEF UpTo
<1>. QED
  BY <1>3, <1>4, <1>5, <1>6, Zenon

(***************************************************************************)
(* A connection of the web server, and what it has made of its page.       *)
(***************************************************************************)

Chunks == [size : {1, 2, 3}, now : {TRUE, FALSE}]
Phases == {"free", "reading", "body", "output", "sending", "flushing", "closing"}

BlocksWith(B) ==
  [phase : Phases, body : B, output : Seq(Chunks), made : Nat, buf : Seq(Int), rest : Seq(Int), sent : Seq(Int)]

Whole(c) == c.sent \o c.buf \o c.rest = Pieces(0, c.made)

\* The last chunk of an answer does not wait for more.
EndsNow(o) == o # <<>> => o[Len(o)].now = TRUE

\* The output thread runs; it waits for an acknowledgement; it does not run.
Ready(c) ==
  /\ \E B : c \in BlocksWith(B)
  /\ c.phase = "output" /\ Whole(c) /\ EndsNow(c.output)
  /\ c.rest = <<>> /\ Len(c.buf) <= MAIN_BUF_SIZE /\ (c.output = <<>> => c.buf = <<>>)

Waiting(c) ==
  /\ \E B : c \in BlocksWith(B)
  /\ Whole(c) /\ EndsNow(c.output) /\ c.output # <<>>
  /\ \/ c.phase = "flushing" /\ c.output[1].now = TRUE /\ c.rest = <<>>
     \/ c.phase = "sending" /\ Len(c.rest) <= MAIN_BUF_SIZE

Quiet(c) ==
  /\ \E B : c \in BlocksWith(B)
  /\ Whole(c) /\ c.phase \in {"free", "reading", "body", "closing"} /\ c.buf = <<>> /\ c.rest = <<>>

Answered(c) == Waiting(c) \/ (Quiet(c) /\ c.phase = "closing")

LEMMA PiecesAre ==
  ASSUME NEW m \in Nat, NEW k \in Nat
  PROVE  /\ Pieces(m, k) \in Seq(Int) /\ Len(Pieces(m, k)) = k
         /\ \A i \in 1 .. k : Pieces(m, k)[i] = m + i
<1>1. Pieces(m, k) = [i \in 1 .. k |-> m + i]
  BY DEF Pieces
<1>2. \A i \in 1 .. k : m + i \in Int
  OBVIOUS
<1>3. Pieces(m, k) \in Seq(Int)
  BY <1>1, <1>2, IsASeq
<1>. QED
  BY <1>1, <1>3

LEMMA MorePieces ==
  ASSUME NEW m \in Nat, NEW k \in Nat PROVE Pieces(0, m) \o Pieces(m, k) = Pieces(0, m + k)
<1>0. 0 \in Nat /\ m + k \in Nat
  OBVIOUS
<1>. PICK a \in Seq(Int) : a = Pieces(0, m) /\ Len(a) = m /\ \A i \in 1 .. m : a[i] = 0 + i
  BY <1>0, PiecesAre
<1>. PICK b \in Seq(Int) : b = Pieces(m, k) /\ Len(b) = k /\ \A i \in 1 .. k : b[i] = m + i
  BY PiecesAre, Zenon
<1>. PICK c \in Seq(Int) : c = Pieces(0, m + k) /\ Len(c) = m + k /\ \A i \in 1 .. m + k : c[i] = 0 + i
  BY <1>0, PiecesAre, Zenon
<1>1. a \o b \in Seq(Int) /\ Len(a \o b) = Len(c)
  BY SMTT(60)
<1>2. ASSUME NEW i \in 1 .. Len(c) PROVE (a \o b)[i] = c[i]
  <2>1. CASE i <= m
    BY <2>1, SMTT(60)
  <2>2. CASE i > m
    <3>1. (a \o b)[i] = b[i - m] /\ i - m \in 1 .. k
      BY <2>2, SMTT(60)
    <3>. QED
      BY <3>1, <2>2, SMTT(60)
  <2>. QED
    BY <2>1, <2>2, SMTT(60)
<1>3. a \o b = c
  BY <1>1, <1>2, SeqEqual, Zenon
<1>. QED
  BY <1>3

LEMMA Split ==
  ASSUME NEW s \in Seq(Int), NEW n \in Nat, n <= Len(s)
  PROVE  /\ SubSeq(s, 1, n) \in Seq(Int) /\ Rest(s, n) \in Seq(Int)
         /\ Len(Rest(s, n)) <= Len(s) /\ SubSeq(s, 1, n) \o Rest(s, n) = s
<1>0. /\ Len(s) \in Nat /\ 1 \in 1 .. Len(s) + 1 /\ n \in (1 - 1) .. Len(s) /\ Len(s) \in n .. Len(s)
      /\ 1 \in Int /\ n + 1 \in Int /\ Len(s) \in Int
      /\ (\A i \in 1 .. n : s[i] \in Int) /\ \A i \in (n + 1) .. Len(s) : s[i] \in Int
  OBVIOUS
<1>1. SubSeq(s, 1, n) \in Seq(Int)
  BY <1>0, SubSeqProperties
<1>2. Rest(s, n) = SubSeq(s, n + 1, Len(s))
  BY DEF Rest
<1>3. SubSeq(s, n + 1, Len(s)) \in Seq(Int)
  BY <1>0, SubSeqProperties
<1>4. Len(SubSeq(s, n + 1, Len(s))) = IF n + 1 <= Len(s) THEN Len(s) - (n + 1) + 1 ELSE 0
  BY <1>0, SubSeqProperties
<1>5. SubSeq(s, 1, n) \o SubSeq(s, n + 1, Len(s)) = SubSeq(s, 1, Len(s))
  BY <1>0, ConcatAdjacentSubSeq, Zenon
<1>6. SubSeq(s, 1, Len(s)) = s
  BY SubSeqFull
<1>7. Len(Rest(s, n)) <= Len(s)
  BY <1>0, <1>2, <1>4
<1>. QED
  BY <1>1, <1>2, <1>3, <1>5, <1>6, <1>7, Zenon

LEMMA Regrouped ==
  ASSUME NEW a \in Seq(Int), NEW b \in Seq(Int), NEW c \in Seq(Int) PROVE (a \o b) \o c = a \o (b \o c)
<1>. PICK l : l = (a \o b) \o c
  BY Zenon
<1>. PICK r : r = a \o (b \o c)
  BY Zenon
<1>1. l \in Seq(Int) /\ r \in Seq(Int) /\ Len(l) = Len(r)
  OBVIOUS
<1>2. ASSUME NEW i \in 1 .. Len(l) PROVE l[i] = r[i]
  OBVIOUS
<1>3. l = r
  BY <1>1, <1>2, SeqEqual, Zenon
<1>. QED
  BY <1>3

LEMMA Associates ==
  ASSUME NEW a \in Seq(Int), NEW b \in Seq(Int), NEW c \in Seq(Int), NEW d \in Seq(Int)
  PROVE  /\ a \o b \o c = a \o (b \o c)
         /\ a \o b \o <<>> = a \o b /\ (a \o b) \o c \o <<>> = a \o b \o c
         /\ a \o (b \o c) \o d = (a \o b) \o (c \o d) /\ a \o <<>> = a
         /\ a \o b \in Seq(Int)
<1>1. a \o b \in Seq(Int) /\ b \o c \in Seq(Int) /\ c \o d \in Seq(Int)
  OBVIOUS
<1>2. a \o b \o c \in Seq(Int)
  BY <1>1
<1>3. a \o b \o c = a \o (b \o c)
  BY Regrouped, ZenonT(100)
<1>4. a \o b \o <<>> = a \o b /\ a \o <<>> = a
  BY <1>1, ConcatEmptySeq
<1>5. (a \o b) \o c \o <<>> = a \o b \o c
  BY <1>2, ConcatEmptySeq
<1>6. (a \o b) \o c \o d = (a \o b) \o (c \o d)
  <2>1. \A e \in Seq(Int) : (e \o c) \o d = e \o (c \o d)
    BY Regrouped, ZenonT(100)
  <2>. QED
    BY <1>1, <2>1, Zenon
<1>7. a \o (b \o c) \o d = (a \o b) \o (c \o d)
  BY <1>3, <1>6
<1>. QED
  BY <1>1, <1>3, <1>4, <1>5, <1>7

LEMMA TailOf ==
  ASSUME NEW o \in Seq(Chunks), o # <<>>, EndsNow(o)
  PROVE  /\ Tail(o) \in Seq(Chunks) /\ EndsNow(Tail(o)) /\ o[1] \in Chunks
         /\ Len(Tail(o)) = Len(o) - 1 /\ \A i \in 1 .. Len(o) - 1 : Tail(o)[i] = o[i + 1]
         /\ Tail(o) = <<>> => o[1].now = TRUE
<1>1. /\ Tail(o) \in Seq(Chunks) /\ o[1] \in Chunks /\ Len(o) \in Nat /\ Len(o) > 0
      /\ Len(Tail(o)) = Len(o) - 1 /\ \A i \in 1 .. Len(o) - 1 : Tail(o)[i] = o[i + 1]
  OBVIOUS
<1>2. EndsNow(Tail(o))
  BY <1>1 DEF EndsNow
<1>3. ASSUME Tail(o) = <<>> PROVE o[1].now = TRUE
  <2>1. PICK n \in Nat : n = Len(o) /\ n > 0 /\ Len(Tail(o)) = n - 1
    BY <1>1, Zenon
  <2>2. Len(<<>>) = 0
    OBVIOUS
  <2>3. n - 1 = 0
    BY <1>3, <2>1, <2>2, Zenon
  <2>4. n = 1
    BY <2>3
  <2>5. Len(o) = 1
    BY <2>1, <2>4, Zenon
  <2>. QED
    BY <2>5 DEF EndsNow
<1>. QED
  BY <1>1, <1>2, <1>3, Zenon

\* What an EXCEPT changes, and what it leaves.
Fill(c, b, m, p, o) == [c EXCEPT !.buf = b, !.made = m, !.phase = p, !.output = o]
Spill(c, b, r, m, p) == [c EXCEPT !.buf = b, !.rest = r, !.made = m, !.phase = p]

LEMMA Filled ==
  ASSUME NEW B, NEW c \in BlocksWith(B), NEW b \in Seq(Int), NEW m \in Nat, NEW p \in Phases, NEW o \in Seq(Chunks),
         NEW d, d = Fill(c, b, m, p, o)
  PROVE  /\ d \in BlocksWith(B) /\ d.phase = p /\ d.buf = b /\ d.made = m /\ d.output = o
         /\ d.rest = c.rest /\ d.sent = c.sent
  BY Zenon DEF BlocksWith, Fill

LEMMA Spilled ==
  ASSUME NEW B, NEW c \in BlocksWith(B), NEW b \in Seq(Int), NEW r \in Seq(Int), NEW m \in Nat, NEW p \in Phases,
         NEW d, d = Spill(c, b, r, m, p)
  PROVE  /\ d \in BlocksWith(B) /\ d.phase = p /\ d.buf = b /\ d.made = m /\ d.rest = r
         /\ d.output = c.output /\ d.sent = c.sent
  BY Zenon DEF BlocksWith, Spill

LEMMA Fields ==
  ASSUME NEW B, NEW c \in BlocksWith(B)
  PROVE  /\ c.phase \in Phases /\ c.output \in Seq(Chunks) /\ c.made \in Nat
         /\ c.buf \in Seq(Int) /\ c.rest \in Seq(Int) /\ c.sent \in Seq(Int) /\ c.body \in B
  BY DEF BlocksWith

\* A chunk that is put into the buffer, or does not fit in: of a connection taken apart.
IsApart(c, o, m, b, s) ==
  /\ Ready(c) /\ o \in Seq(Chunks) /\ o = c.output /\ o # <<>> /\ m \in Nat /\ m = c.made
  /\ b \in Seq(Int) /\ b = c.buf /\ s \in Seq(Int) /\ s = c.sent
HasChunk(o, m, b, chunk, k, new, space) ==
  /\ chunk \in Chunks /\ chunk = o[1] /\ k \in Nat /\ k = chunk.size /\ k <= 3
  /\ new \in Seq(Int) /\ new = Pieces(m, k) /\ Len(new) = k
  /\ space \in Nat /\ space = MAIN_BUF_SIZE - Len(b)
IsSplit(f, r, k, new, space) ==
  /\ f \in Seq(Int) /\ r \in Seq(Int)
  /\ space <= k => f = SubSeq(new, 1, space) /\ r = Rest(new, space) /\ Len(r) <= k /\ f \o r = new

LEMMA Fits ==
  ASSUME NEW b \in Seq(Int), NEW new \in Seq(Int), Len(new) < MAIN_BUF_SIZE - Len(b)
  PROVE  Len(b \o new) <= MAIN_BUF_SIZE
  BY HttpdAssumption

LEMMA Added4 ==
  ASSUME NEW s \in Seq(Int), NEW b \in Seq(Int), NEW new \in Seq(Int)
  PROVE  /\ b \o new \in Seq(Int) /\ s \o b \in Seq(Int)
         /\ s \o (b \o new) \o <<>> = (s \o b) \o new
<1>1. b \o new \in Seq(Int) /\ s \o b \in Seq(Int) /\ s \o (b \o new) \in Seq(Int)
  OBVIOUS
<1>2. s \o (b \o new) \o <<>> = s \o (b \o new)
  BY <1>1, ConcatEmptySeq
<1>3. s \o (b \o new) = (s \o b) \o new
  BY Regrouped, Zenon
<1>. QED
  BY <1>1, <1>2, <1>3

Regroups(s, b, f, r) == b \o f \in Seq(Int) /\ s \o (b \o f) \o r = (s \o b) \o (f \o r)

LEMMA Added5 ==
  ASSUME NEW s \in Seq(Int), NEW b \in Seq(Int), NEW f \in Seq(Int), NEW r \in Seq(Int)
  PROVE  Regroups(s, b, f, r)
<1>1. b \o f \in Seq(Int)
  OBVIOUS
<1>2. s \o b \in Seq(Int)
  OBVIOUS
<1>3. (s \o b) \o f = s \o (b \o f)
  BY Regrouped, Zenon
<1>4. \A e \in Seq(Int) : (e \o f) \o r = e \o (f \o r)
  BY Regrouped, Zenon
<1>5. ((s \o b) \o f) \o r = (s \o b) \o (f \o r)
  BY <1>2, <1>4, Zenon
<1>. QED
  BY <1>1, <1>3, <1>5 DEF Regroups

IsMade(x, y, z, t, o, m, b, k, new, f) == x = b \o new /\ y = m + k /\ z = b \o f /\ t = Tail(o)

LEMMA ChunkedApart ==
  ASSUME NEW B, NEW c, c \in BlocksWith(B), NEW o, NEW m, NEW b, NEW s, IsApart(c, o, m, b, s),
         NEW chunk, NEW k, NEW new, NEW space, HasChunk(o, m, b, chunk, k, new, space),
         NEW f, NEW r, IsSplit(f, r, k, new, space),
         NEW x, NEW y, NEW z, NEW t, IsMade(x, y, z, t, o, m, b, k, new, f),
         NEW d, d = enqueue_chunk(c, chunk)
  PROVE  Waiting(d) \/ (Ready(d) /\ d.output = t)
<1>1. /\ o \in Seq(Chunks) /\ o # <<>> /\ EndsNow(o) /\ c.rest = <<>> /\ c.phase = "output"
      /\ s \o b \o <<>> = Pieces(0, m) /\ o = c.output /\ m = c.made /\ b = c.buf /\ s = c.sent
      /\ m \in Nat /\ b \in Seq(Int) /\ s \in Seq(Int)
  BY Zenon DEF IsApart, Ready, Whole
<1>2. k \in Nat /\ new \in Seq(Int) /\ chunk \in Chunks /\ y = m + k /\ y \in Nat /\ x = b \o new /\ z = b \o f /\ t = Tail(o)
  BY <1>1, SMTT(60) DEF HasChunk, IsMade
<1>3. (s \o b) \o new = Pieces(0, m + k)
  <2>1. s \o b \o <<>> = s \o b
    BY <1>1, Associates
  <2>2. s \o b = Pieces(0, m)
    BY <1>1, <2>1, Zenon
  <2>3. Pieces(0, m) \o Pieces(m, k) = Pieces(0, m + k)
    BY <1>1, <1>2, MorePieces, Zenon
  <2>. QED
    BY <2>2, <2>3 DEF HasChunk
<1>4. s \o (x) \o <<>> = Pieces(0, y) /\ x \in Seq(Int)
  BY <1>1, <1>2, <1>3, Added4, ZenonT(100)
<1>4a. x \in Seq(Int) /\ y \in Nat /\ o \in Seq(Chunks) /\ t \in Seq(Chunks)
  <2>1. Tail(o) \in Seq(Chunks)
    BY <1>1, TailOf
  <2>. QED
    BY <1>1, <1>2, <1>4, <2>1
<1>5. t \in Seq(Chunks) /\ EndsNow(t) /\ (t = <<>> => o[1].now = TRUE)
  BY <1>1, <1>2, TailOf, Zenon
<1>6. CASE k < space /\ chunk.now = TRUE
  <2>1. d = Fill(c, x, y, "flushing", o)
    BY <1>1, <1>2, <1>6, Zenon DEF enqueue_chunk, HasChunk, Fill, Spill
  <2>2. "flushing" \in Phases
    BY DEF Phases
  <2>3. /\ d \in BlocksWith(B) /\ d.phase = "flushing" /\ d.buf = x /\ d.made = y /\ d.output = o
        /\ d.rest = c.rest /\ d.sent = c.sent
    BY <1>4a, <2>1, <2>2, Filled
  <2>4. o[1].now = TRUE
    BY <1>6 DEF HasChunk
  <2>. QED
    BY <1>1, <1>4, <2>3, <2>4, SMTT(30) DEF Waiting, Whole
<1>7. CASE k < space /\ chunk.now # TRUE
  <2>0. chunk.now = FALSE /\ o[1].now # TRUE
    BY <1>2, <1>7, Zenon DEF Chunks, HasChunk
  <2>1. d = Fill(c, x, y, "output", t)
    BY <1>1, <1>2, <1>7, <2>0, Zenon DEF enqueue_chunk, HasChunk, Fill, Spill
  <2>2. "output" \in Phases
    BY DEF Phases
  <2>3. /\ d \in BlocksWith(B) /\ d.phase = "output" /\ d.buf = x /\ d.made = y /\ d.output = t
        /\ d.rest = c.rest /\ d.sent = c.sent
    BY <1>4a, <2>1, <2>2, Filled
  <2>4. Len(x) <= MAIN_BUF_SIZE
    <3>1. Len(new) < MAIN_BUF_SIZE - Len(b)
      BY <1>7 DEF HasChunk
    <3>. QED
      BY <1>1, <1>2, <3>1, Fits
  <2>. QED
    BY <1>1, <1>4, <1>5, <2>0, <2>3, <2>4, Zenon DEF Ready, Whole
<1>8. CASE ~ k < space
  <2>0. space <= k /\ f \in Seq(Int) /\ r \in Seq(Int)
    BY <1>2, <1>8, SMTT(60) DEF HasChunk, IsSplit
  <2>1. f = SubSeq(new, 1, space) /\ r = Rest(new, space) /\ Len(r) <= k /\ f \o r = new
    BY <2>0 DEF IsSplit
  <2>2. d = Spill(c, z, r, y, "sending")
    BY <1>1, <1>2, <1>8, <2>1, Zenon DEF enqueue_chunk, HasChunk, Fill, Spill
  <2>3. "sending" \in Phases
    BY DEF Phases
  <2>4. z \in Seq(Int) /\ s \o z \o r = (s \o b) \o (f \o r)
    <3>1. s \in Seq(Int) /\ b \in Seq(Int) /\ z = b \o f
      BY <1>1, <1>2
    <3>2. b \o f \in Seq(Int) /\ s \o (b \o f) \o r = (s \o b) \o (f \o r)
      <4>1. Regroups(s, b, f, r)
        BY <2>0, <3>1, Added5
      <4>. QED
        BY <4>1 DEF Regroups
    <3>. QED
      BY <3>1, <3>2
  <2>5. /\ d \in BlocksWith(B) /\ d.phase = "sending" /\ d.buf = z /\ d.made = y /\ d.rest = r
        /\ d.output = c.output /\ d.sent = c.sent
    <3>1. z \in Seq(Int) /\ r \in Seq(Int)
      BY <2>0, <2>4
    <3>. QED
      BY <1>4a, <2>2, <2>3, <3>1, Spilled, Z3T(60)
  <2>6. Len(r) <= MAIN_BUF_SIZE
    <3>1. Len(r) \in Nat /\ k <= 3
      BY <2>0 DEF HasChunk
    <3>. QED
      BY <1>2, <2>1, <3>1, HttpdAssumption
  <2>7. s \o z \o r = Pieces(0, y)
    BY <1>2, <1>3, <2>1, <2>4, Zenon
  <2>. QED
    BY <1>1, <2>5, <2>6, <2>7 DEF Waiting, Whole
<1>. QED
  BY <1>6, <1>7, <1>8, Zenon

LEMMA Chunked ==
  ASSUME NEW c, Ready(c), c.output # <<>>
  PROVE  LET d == enqueue_chunk(c, c.output[1]) IN Waiting(d) \/ (Ready(d) /\ d.output = Tail(c.output))
<1>1. PICK B : c \in BlocksWith(B)
  BY DEF Ready
<1>. DEFINE o == c.output  m == c.made  b == c.buf  s == c.sent  chunk == o[1]  k == chunk.size
            new == Pieces(m, k)  space == MAIN_BUF_SIZE - Len(b)
            f == IF space > k THEN <<>> ELSE SubSeq(new, 1, space)
            r == IF space > k THEN <<>> ELSE Rest(new, space)
            x == b \o new  y == m + k  z == b \o f  t == Tail(o)
<1>2. o \in Seq(Chunks) /\ o # <<>> /\ m \in Nat /\ b \in Seq(Int) /\ s \in Seq(Int)
  BY <1>1, Fields
<1>3. chunk \in Chunks
  BY <1>2
<1>4. IsApart(c, o, m, b, s)
  BY <1>2 DEF IsApart
<1>5. chunk = o[1] /\ k = chunk.size /\ new = Pieces(m, k) /\ space = MAIN_BUF_SIZE - Len(b)
  OBVIOUS
<1>6. Len(b) \in Nat /\ Len(b) <= MAIN_BUF_SIZE
  BY <1>2 DEF Ready
<1> HIDE DEF chunk
<1>7. k \in Nat /\ k <= 3
  BY <1>3 DEF Chunks
<1> HIDE DEF k
<1>8. new \in Seq(Int) /\ Len(new) = k
  BY <1>2, <1>7, PiecesAre, Zenon
<1> HIDE DEF b
<1>9. space \in Nat
  BY <1>6, HttpdAssumption
<1> HIDE DEF new, space
<1>10. IsSplit(f, r, k, new, space)
  <2>1. CASE space > k
    <3>1. f = <<>> /\ r = <<>> /\ <<>> \in Seq(Int)
      BY <2>1
    <3>2. ~ space <= k
      BY <1>7, <1>9, <2>1
    <3>. QED
      BY <3>1, <3>2, Zenon DEF IsSplit
  <2>2. CASE ~ space > k
    <3>1. f = SubSeq(new, 1, space) /\ r = Rest(new, space) /\ space <= Len(new)
      BY <1>7, <1>8, <1>9, <2>2
    <3> HIDE DEF f, r
    <3>2. f \in Seq(Int) /\ r \in Seq(Int) /\ Len(r) <= Len(new) /\ f \o r = new
      BY <1>8, <1>9, <3>1, Split, Zenon
    <3>. QED
      BY <1>8, <3>1, <3>2, Zenon DEF IsSplit
  <2>. QED
    BY <2>1, <2>2
<1> HIDE DEF f, r
<1>11. HasChunk(o, m, b, chunk, k, new, space)
  BY <1>3, <1>5, <1>7, <1>8, <1>9 DEF HasChunk
<1>12. IsMade(x, y, z, t, o, m, b, k, new, f)
  BY DEF IsMade
<1> HIDE DEF o, m, s, x, y, z, t
<1>13. ASSUME NEW d, d = enqueue_chunk(c, chunk) PROVE Waiting(d) \/ (Ready(d) /\ d.output = t)
  BY <1>1, <1>4, <1>10, <1>11, <1>12, <1>13, ChunkedApart
<1>. QED
  BY <1>13 DEF chunk, o, t

\* The thread has enqueued k chunks of o, or it waits.
InFold(d, o, k) ==
  \/ Waiting(d)
  \/ Ready(d) /\ Len(d.output) = Len(o) - k /\ \A i \in 1 .. Len(o) - k : d.output[i] = o[i + k]

LEMMA FoldGoesOn ==
  ASSUME NEW o \in Seq(Chunks), NEW k \in Nat, k < Len(o), NEW d, InFold(d, o, k)
  PROVE  InFold(EnqueueNext(d, o[k + 1]), o, k + 1)
<1>1. CASE Waiting(d)
  <2>1. d.phase # "output"
    BY <1>1 DEF Waiting
  <2>. QED
    BY <1>1, <2>1 DEF EnqueueNext, InFold
<1>2. CASE Ready(d) /\ Len(d.output) = Len(o) - k /\ \A i \in 1 .. Len(o) - k : d.output[i] = o[i + k]
  <2>1. PICK B : d \in BlocksWith(B)
    BY <1>2 DEF Ready
  <2>2. d.output \in Seq(Chunks) /\ EndsNow(d.output) /\ d.phase = "output"
    BY <1>2, <2>1, Fields DEF Ready
  <2>3. d.output[1] = o[k + 1] /\ Len(d.output) > 0 /\ Len(d.output) = Len(o) - k /\ Len(o) \in Nat
    <3>1. Len(o) \in Nat /\ 1 \in 1 .. Len(o) - k /\ 1 + k = k + 1 /\ Len(o) - k > 0
      OBVIOUS
    <3>2. d.output[1] = o[1 + k] /\ Len(d.output) = Len(o) - k
      BY <1>2, <3>1
    <3>. QED
      BY <3>1, <3>2
  <2>4. d.output # <<>>
    BY <2>2, <2>3
  <2>5. EnqueueNext(d, o[k + 1]) = enqueue_chunk(d, d.output[1])
    BY <2>2, <2>3 DEF EnqueueNext
  <2>. PICK e : e = EnqueueNext(d, o[k + 1])
    OBVIOUS
  <2>6. Waiting(e) \/ (Ready(e) /\ e.output = Tail(d.output))
    BY <1>2, <2>4, <2>5, Chunked
  <2>7. ASSUME Ready(e), e.output = Tail(d.output)
        PROVE  Len(e.output) = Len(o) - (k + 1) /\ \A i \in 1 .. Len(o) - (k + 1) : e.output[i] = o[i + (k + 1)]
    <3>1. Len(Tail(d.output)) = Len(d.output) - 1 /\ \A i \in 1 .. Len(d.output) - 1 : Tail(d.output)[i] = d.output[i + 1]
      BY <2>2, <2>4, TailOf
    <3>2. Len(e.output) = Len(o) - (k + 1)
      BY <2>3, <2>7, <3>1
    <3>3. ASSUME NEW i \in 1 .. Len(o) - (k + 1) PROVE e.output[i] = o[i + (k + 1)]
      <4>0. i \in 1 .. (Len(o) - k) - 1 /\ i + 1 \in 1 .. Len(o) - k /\ (i + 1) + k = i + (k + 1)
        OBVIOUS
      <4>1. i \in 1 .. Len(d.output) - 1 /\ i + 1 \in 1 .. Len(o) - k /\ (i + 1) + k = i + (k + 1)
        BY <2>3, <4>0
      <4>2. e.output[i] = d.output[i + 1]
        BY <2>7, <3>1, <4>1
      <4>3. d.output[i + 1] = o[(i + 1) + k]
        BY <1>2, <4>1
      <4>. QED
        BY <4>1, <4>2, <4>3
    <3>. QED
      BY <3>2, <3>3
  <2>. QED
    BY <2>6, <2>7 DEF InFold
<1>. QED
  BY <1>1, <1>2 DEF InFold

LEMMA Closed_ ==
  ASSUME NEW B, NEW c \in BlocksWith(B), NEW d, d = [c EXCEPT !.phase = "closing"]
  PROVE  /\ d \in BlocksWith(B) /\ d.phase = "closing" /\ d.buf = c.buf /\ d.made = c.made /\ d.output = c.output
         /\ d.rest = c.rest /\ d.sent = c.sent
  BY Zenon DEF BlocksWith, Phases

\* The thread runs until it waits for an acknowledgement, or the page is made.
LEMMA OutputRuns == ASSUME NEW c, Ready(c) PROVE Answered(handle_output(c))
<1>. DEFINE o == c.output
            F(k) == Enqueued(o, c)[UpTo(o, k)]
            T == {k \in Nat : k <= Len(o) => InFold(F(k), o, k)}
<1>1. PICK B : c \in BlocksWith(B)
  BY DEF Ready
<1>2. o \in Seq(Chunks) /\ Len(o) \in Nat
  BY <1>1, Fields
<1>3. /\ F(0) = c
      /\ \A k \in Nat : k < Len(o) => F(k + 1) = EnqueueNext(F(k), o[k + 1])
      /\ UpTo(o, Len(o)) = DOMAIN o
  BY <1>2, EnqueuedStepByStep
<1>4. handle_output(c) = Closes(F(Len(o)))
  BY <1>3, OutputUnfolds
<1> HIDE DEF F
<1>5. 0 \in T
  <2>1. InFold(c, o, 0)
    BY <1>2 DEF InFold
  <2>. QED
    BY <1>3, <2>1
<1>6. ASSUME NEW k \in Nat, k \in T PROVE k + 1 \in T
  <2> SUFFICES ASSUME k + 1 <= Len(o) PROVE InFold(F(k + 1), o, k + 1)
    OBVIOUS
  <2>1. k < Len(o) /\ InFold(F(k), o, k)
    BY <1>2, <1>6
  <2>2. InFold(EnqueueNext(F(k), o[k + 1]), o, k + 1)
    BY <1>2, <2>1, FoldGoesOn
  <2>. QED
    BY <1>3, <2>1, <2>2
<1>7. Len(o) \in T
  <2> HIDE DEF T
  <2>. QED
    BY <1>2, <1>5, <1>6, NatInduct
<1>. PICK d : d = F(Len(o))
  OBVIOUS
<1>8. Waiting(d) \/ (Ready(d) /\ Len(d.output) = 0)
  BY <1>2, <1>7 DEF InFold
<1>9. CASE Waiting(d)
  <2>1. Closes(d) = d
    BY <1>9 DEF Waiting, Closes
  <2>. QED
    BY <1>4, <1>9, <2>1 DEF Answered
<1>10. CASE Ready(d) /\ Len(d.output) = 0
  <2>1. PICK X : d \in BlocksWith(X)
    BY <1>10 DEF Ready
  <2>2. d.output = <<>>
    BY <1>10, <2>1, Fields
  <2>3. Closes(d) = [d EXCEPT !.phase = "closing"]
    BY <1>10 DEF Closes, Ready
  <2>. PICK e : e = Closes(d)
    OBVIOUS
  <2>4. /\ e \in BlocksWith(X) /\ e.phase = "closing" /\ e.buf = d.buf /\ e.made = d.made
        /\ e.rest = d.rest /\ e.sent = d.sent
    BY <2>1, <2>3, Closed_
  <2>5. Quiet(e)
    BY <1>10, <2>2, <2>4, Zenon DEF Quiet, Ready, Whole
  <2>. QED
    BY <1>4, <2>4, <2>5 DEF Answered
<1>. QED
  BY <1>8, <1>9, <1>10

\* Answers end with a chunk that does not wait.
IsAnswer(o) == o \in Seq(Chunks) /\ o # <<>> /\ o[Len(o)].now = TRUE

LEMMA ChunkIs == \A k \in {1, 2, 3} : Chunk(k) \in Chunks /\ Now(k) \in Chunks /\ Now(k).now = TRUE
  BY DEF Chunk, Now, Chunks

LEMMA AnswersJoin ==
  ASSUME NEW a \in Seq(Chunks), NEW b, IsAnswer(b)
  PROVE  IsAnswer(a \o b)
<1>1. b \in Seq(Chunks) /\ Len(b) \in Nat /\ Len(b) > 0
  BY DEF IsAnswer
<1>2. a \o b \in Seq(Chunks) /\ Len(a \o b) = Len(a) + Len(b) /\ (a \o b)[Len(a) + Len(b)] = b[Len(b)] /\ Len(a) \in Nat
  BY <1>1
<1>3. a \o b # <<>>
  BY <1>1, <1>2
<1>. QED
  BY <1>2, <1>3 DEF IsAnswer

LEMMA Literals ==
  ASSUME NEW a \in Chunks, NEW b \in Chunks, NEW c \in Chunks, NEW d \in Chunks, d.now = TRUE
  PROVE  /\ <<a>> \in Seq(Chunks) /\ <<a, b>> \in Seq(Chunks) /\ <<a, b, c>> \in Seq(Chunks)
         /\ IsAnswer(<<d>>) /\ IsAnswer(<<a, d>>) /\ IsAnswer(<<a, b, d>>) /\ IsAnswer(<<a, b, c, d>>)
  BY DEF IsAnswer

LEMMA Joins2 == ASSUME NEW a \in Seq(Chunks), NEW b \in Seq(Chunks) PROVE a \o b \in Seq(Chunks)
  OBVIOUS

LEMMA HeadersAnswer == \A r, a \in BOOLEAN : IsAnswer(send_headers(r, a)) /\ send_headers(r, a) \in Seq(Chunks)
<1>1. /\ <<Chunk(1)>> \in Seq(Chunks) /\ <<>> \in Seq(Chunks) /\ IsAnswer(<<Chunk(1), Now(1)>>)
  <2>1. Chunk(1) \in Chunks /\ Now(1) \in Chunks /\ Now(1).now = TRUE
    BY ChunkIs
  <2>2. IsAnswer(<<Chunk(1), Now(1)>>)
    BY <2>1, Literals, Zenon
  <2>. QED
    BY <2>1, <2>2, Literals
<1> SUFFICES ASSUME NEW r \in BOOLEAN, NEW a \in BOOLEAN PROVE IsAnswer(send_headers(r, a))
  BY Zenon DEF IsAnswer
<1>. DEFINE x == IF r THEN <<Chunk(1)>> ELSE <<>>
            y == IF a THEN <<Chunk(1)>> ELSE <<>>
<1>2. x \in Seq(Chunks) /\ y \in Seq(Chunks)
  BY <1>1
<1>3. send_headers(r, a) = <<Chunk(1)>> \o x \o y \o <<Chunk(1), Now(1)>>
  BY DEF send_headers
<1> HIDE DEF x, y
<1>4. <<Chunk(1)>> \o x \o y \in Seq(Chunks)
  BY <1>1, <1>2, Joins2
<1>. QED
  BY <1>1, <1>3, <1>4, AnswersJoin, Zenon

LEMMA MatterIs == \A css \in BOOLEAN : generate_top_matter(css) \in Seq(Chunks)
<1>1. <<Chunk(1)>> \in Seq(Chunks) /\ <<Chunk(2)>> \in Seq(Chunks) /\ <<Chunk(3)>> \in Seq(Chunks) /\ <<>> \in Seq(Chunks)
  BY ChunkIs, Literals
<1> SUFFICES ASSUME NEW css \in BOOLEAN PROVE generate_top_matter(css) \in Seq(Chunks)
  OBVIOUS
<1>. DEFINE x == IF css THEN <<Chunk(2)>> ELSE <<>>
<1>2. x \in Seq(Chunks)
  BY <1>1
<1>3. generate_top_matter(css) = <<Chunk(1)>> \o x \o <<Chunk(3)>>
  BY DEF generate_top_matter
<1> HIDE DEF x
<1>. QED
  BY <1>1, <1>2, <1>3, Joins2

LEMMA ScriptsAnswer == \A name \in Pages : IsAnswer(get_script(name))
<1>1. /\ generate_top_matter(TRUE) \in Seq(Chunks) /\ generate_top_matter(FALSE) \in Seq(Chunks)
  BY MatterIs, Zenon
<1>2. /\ IsAnswer(<<Chunk(2), Chunk(3), Chunk(1), Now(1)>>) /\ IsAnswer(<<Chunk(3), Chunk(3), Now(1)>>)
      /\ IsAnswer(<<Chunk(1), Chunk(3), Now(1)>>) /\ IsAnswer(<<Chunk(2), Now(1)>>)
  <2>1. Chunk(1) \in Chunks /\ Chunk(2) \in Chunks /\ Chunk(3) \in Chunks /\ Now(1) \in Chunks /\ Now(1).now = TRUE
    BY ChunkIs
  <2>2. IsAnswer(<<Chunk(2), Chunk(3), Chunk(1), Now(1)>>)
    BY <2>1, Literals, Zenon
  <2>3. IsAnswer(<<Chunk(3), Chunk(3), Now(1)>>)
    BY <2>1, Literals, Zenon
  <2>4. IsAnswer(<<Chunk(1), Chunk(3), Now(1)>>)
    BY <2>1, Literals, Zenon
  <2>5. IsAnswer(<<Chunk(2), Now(1)>>)
    BY <2>1, Literals, Zenon
  <2>. QED
    BY <2>2, <2>3, <2>4, <2>5
<1>3. IsAnswer(generate_index) /\ IsAnswer(generate_config) /\ IsAnswer(generate_mqtt_config) /\ IsAnswer(generate_net_uart_config)
  BY <1>1, <1>2, AnswersJoin, Zenon DEF generate_index, generate_config, generate_mqtt_config, generate_net_uart_config
<1>. QED
  BY <1>3, Zenon DEF Pages, get_script

LEMMA AnswersAre == \A name : IsAnswer(AnswerTo(name)) /\ IsAnswer(AnswerOf(name))
<1>1. IsAnswer(send_string)
  BY ChunkIs, Literals, Zenon DEF send_string
<1>2. send_headers(FALSE, TRUE) \in Seq(Chunks) /\ IsAnswer(send_headers(TRUE, FALSE))
  BY HeadersAnswer, Zenon
<1>3. IsAnswer(send_headers(FALSE, TRUE) \o send_string)
  BY <1>1, <1>2, AnswersJoin, Zenon
<1>4. \A name \in Pages : IsAnswer(send_headers(FALSE, TRUE) \o get_script(name))
  BY <1>2, ScriptsAnswer, AnswersJoin, Zenon
<1>. QED
  BY <1>2, <1>3, <1>4, Zenon DEF AnswerTo, AnswerOf

(***************************************************************************)
(* The web server's steps.                                                 *)
(***************************************************************************)

BlockInv(c) == Waiting(c) \/ Quiet(c)

HttpdInv ==
  /\ DOMAIN conns = Conns /\ conns = [s \in Conns |-> conns[s]]
  /\ \A s \in Conns : BlockInv(conns[s])
  /\ OneAtATime

LEMMA EmptyBlock == \A p \in {"free", "reading"} : Quiet(Block(p)) /\ Block(p).phase = p
<1> SUFFICES ASSUME NEW p \in {"free", "reading"} PROVE Quiet(Block(p)) /\ Block(p).phase = p
  OBVIOUS
<1>1. Block(p) \in BlocksWith({<<>>})
  BY DEF Block, BlocksWith, Phases
<1>2. /\ Block(p).phase = p /\ Block(p).buf = <<>> /\ Block(p).rest = <<>> /\ Block(p).sent = <<>> /\ Block(p).made = 0
  BY DEF Block
<1>3. Pieces(0, 0) = <<>>
  <2>1. Pieces(0, 0) \in Seq(Int) /\ Len(Pieces(0, 0)) = 0
    BY PiecesAre
  <2>. QED
    BY <2>1
<1>4. <<>> \o <<>> \o <<>> = <<>>
  OBVIOUS
<1>5. Whole(Block(p))
  BY <1>2, <1>3, <1>4 DEF Whole
<1>. QED
  BY <1>1, <1>2, <1>5 DEF Quiet

\* One block turned into another.
LEMMA BlockTurned ==
  ASSUME HttpdInv, NEW s \in Conns, NEW d, BlockInv(d), conns' = [conns EXCEPT ![s] = d],
         \/ d.phase # "body" /\ (lock' = lock \/ (lock = s /\ lock' = NULL) \/ (lock \in {NULL, s} /\ lock' \in {NULL, s}))
         \/ lock' = s /\ lock \in {NULL, s}
         \/ conns[s].phase = "body" /\ lock' = lock
  PROVE  HttpdInv'
<1>1. DOMAIN conns' = Conns /\ conns' = [t \in Conns |-> conns'[t]]
  BY DEF HttpdInv
<1>2. \A t \in Conns : conns'[t] = IF t = s THEN d ELSE conns[t]
  BY DEF HttpdInv
<1>3. \A t \in Conns : BlockInv(conns'[t])
  BY <1>2 DEF HttpdInv
<1>4. OneAtATime'
  <2>1. \A t \in Conns : t # NULL
    BY DEF Conns, CONNS, NULL
  <2>. QED
    BY <1>2, <2>1 DEF OneAtATime, HttpdInv
<1>. QED
  BY <1>1, <1>3, <1>4 DEF HttpdInv, BlockInv

Emptied3(c, n, b, e) == [c EXCEPT !.sent = n, !.buf = b, !.rest = e]
GoesOn(c, p, o) == [c EXCEPT !.phase = p, !.output = o]
InPhase(c, p) == [c EXCEPT !.phase = p]
FlushedTo(c, n, e, p, o) == [c EXCEPT !.sent = n, !.buf = e, !.phase = p, !.output = o]

IsRested(d, c, n, b, e) == d = Emptied3(c, n, b, e)
IsOn(d, c, p, o) == d = GoesOn(c, p, o)
IsFlushed(d, c, n, e, p, o) == d = FlushedTo(c, n, e, p, o)

LEMMA Rested ==
  ASSUME NEW B, NEW c \in BlocksWith(B), NEW n \in Seq(Int), NEW b \in Seq(Int), NEW e \in Seq(Int),
         NEW d, IsRested(d, c, n, b, e)
  PROVE  /\ d \in BlocksWith(B) /\ d.phase = c.phase /\ d.output = c.output /\ d.made = c.made
         /\ d.sent = n /\ d.buf = b /\ d.rest = e
  BY Zenon DEF BlocksWith, IsRested, Emptied3

LEMMA GoneOn ==
  ASSUME NEW B, NEW c \in BlocksWith(B), NEW p \in Phases, NEW o \in Seq(Chunks), NEW d, IsOn(d, c, p, o)
  PROVE  /\ d \in BlocksWith(B) /\ d.phase = p /\ d.output = o /\ d.made = c.made
         /\ d.sent = c.sent /\ d.buf = c.buf /\ d.rest = c.rest
  BY Zenon DEF BlocksWith, IsOn, GoesOn

LEMMA PhaseOnly ==
  ASSUME NEW B, NEW c \in BlocksWith(B), NEW p \in Phases, NEW d, d = InPhase(c, p)
  PROVE  /\ d \in BlocksWith(B) /\ d.phase = p /\ d.output = c.output /\ d.made = c.made
         /\ d.sent = c.sent /\ d.buf = c.buf /\ d.rest = c.rest
  BY Zenon DEF BlocksWith, InPhase

LEMMA FlushedIs ==
  ASSUME NEW B, NEW c \in BlocksWith(B), NEW n \in Seq(Int), NEW p \in Phases, NEW o \in Seq(Chunks),
         NEW e \in Seq(Int), NEW d, IsFlushed(d, c, n, e, p, o)
  PROVE  /\ d \in BlocksWith(B) /\ d.phase = p /\ d.output = o /\ d.made = c.made
         /\ d.sent = n /\ d.buf = e /\ d.rest = c.rest
  BY Zenon DEF BlocksWith, IsFlushed, FlushedTo

LEMMA AnswerBegins ==
  ASSUME NEW c, Quiet(c), NEW o, IsAnswer(o)
  PROVE  Answered(Answering(c, o))
<1>1. PICK B : c \in BlocksWith(B)
  BY DEF Quiet
<1>. PICK X : X = B \cup {<<>>}
  BY Zenon
<1>. PICK d : d = [c EXCEPT !.phase = "output", !.output = o, !.body = <<>>]
  OBVIOUS
<1>2. o \in Seq(Chunks) /\ EndsNow(o) /\ o # <<>>
  BY DEF IsAnswer, EndsNow
<1>3. /\ d \in BlocksWith(X) /\ d.phase = "output" /\ d.output = o /\ d.made = c.made
      /\ d.sent = c.sent /\ d.buf = c.buf /\ d.rest = c.rest
  BY <1>1, <1>2, Zenon DEF BlocksWith, Phases
<1>4. c.buf = <<>> /\ c.rest = <<>> /\ Whole(c)
  BY DEF Quiet
<1>5. Whole(d)
  BY <1>3, <1>4, Zenon DEF Whole
<1>6. Len(d.buf) <= MAIN_BUF_SIZE
  <2>1. Len(<<>>) = 0
    OBVIOUS
  <2>. QED
    BY <1>3, <1>4, <2>1, HttpdAssumption
<1>7. Ready(d)
  BY <1>2, <1>3, <1>4, <1>5, <1>6 DEF Ready
<1>. QED
  BY <1>7, OutputRuns DEF Answering

\* What is sent is taken out of the buffer.
LEMMA BufferSent ==
  ASSUME NEW c, Waiting(c), NEW B, NEW d, d \in BlocksWith(B), d.made = c.made,
         d.sent = c.sent \o c.buf, d.buf = c.rest, d.rest = <<>>
  PROVE  Whole(d)
<1>1. PICK X : c \in BlocksWith(X)
  BY DEF Waiting
<1>2. c.sent \in Seq(Int) /\ c.buf \in Seq(Int) /\ c.rest \in Seq(Int)
  BY <1>1, Fields
<1>3. (c.sent \o c.buf) \o c.rest \o <<>> = c.sent \o c.buf \o c.rest
  <2>1. c.sent \o c.buf \o c.rest \in Seq(Int)
    BY <1>2
  <2>. QED
    BY <2>1, ConcatEmptySeq
<1>4. Whole(c)
  BY DEF Waiting
<1>. QED
  BY <1>3, <1>4 DEF Whole

LEMMA HeadIs == ASSUME NEW o \in Seq(Chunks), o # <<>> PROVE Head(o) = o[1] /\ o[1] \in Chunks
  OBVIOUS

LEMMA SentBlock ==
  ASSUME NEW c, Waiting(c), c.phase = "sending", NEW d, IsRested(d, c, c.sent \o c.buf, c.rest, <<>>)
  PROVE  /\ Head(c.output).now /\ c.rest # <<>> => Waiting(InPhase(d, "flushing"))
         /\ ~ (Head(c.output).now /\ c.rest # <<>>) => Answered(handle_output(GoesOn(d, "output", Tail(c.output))))
<1>1. PICK B : c \in BlocksWith(B)
  BY DEF Waiting
<1>2. /\ c.output \in Seq(Chunks) /\ c.output # <<>> /\ EndsNow(c.output)
      /\ c.sent \in Seq(Int) /\ c.buf \in Seq(Int) /\ c.rest \in Seq(Int) /\ Len(c.rest) <= MAIN_BUF_SIZE
  BY <1>1, Fields DEF Waiting
<1>. DEFINE n == c.sent \o c.buf  b == c.rest  z == <<>>
<1>3. n \in Seq(Int) /\ b \in Seq(Int) /\ z \in Seq(Int) /\ IsRested(d, c, n, b, z)
  BY <1>2
<1>a. n = c.sent \o c.buf /\ b = c.rest /\ z = <<>>
  OBVIOUS
<1>. HIDE DEF n, b, z
<1>b. /\ d \in BlocksWith(B) /\ d.output = c.output /\ d.made = c.made
      /\ d.sent = n /\ d.buf = b /\ d.rest = z
  BY <1>1, <1>3, Rested
<1>4. /\ d \in BlocksWith(B) /\ d.output = c.output /\ d.made = c.made
      /\ d.sent = c.sent \o c.buf /\ d.buf = c.rest /\ d.rest = <<>>
  BY <1>a, <1>b
<1>d. d \in BlocksWith(B)
  BY <1>4
<1>5. Whole(d)
  BY <1>4, BufferSent, Zenon
<1>6. "flushing" \in Phases /\ "output" \in Phases
  BY DEF Phases
<1>7. Head(c.output) = c.output[1] /\ c.output[1] \in Chunks
  BY <1>2, HeadIs
<1>8. ASSUME Head(c.output).now, c.rest # <<>> PROVE Waiting(InPhase(d, "flushing"))
  <2>. PICK e : e = InPhase(d, "flushing")
    OBVIOUS
  <2>1. /\ e \in BlocksWith(B) /\ e.phase = "flushing" /\ e.output = c.output /\ e.made = d.made
        /\ e.sent = d.sent /\ e.buf = d.buf /\ e.rest = d.rest
    <3>1. d \in BlocksWith(B)
      BY <1>4
    <3>2. /\ e \in BlocksWith(B) /\ e.phase = "flushing" /\ e.output = d.output /\ e.made = d.made
          /\ e.sent = d.sent /\ e.buf = d.buf /\ e.rest = d.rest
      BY <1>6, <3>1, PhaseOnly
    <3>. QED
      BY <1>4, <3>2, Zenon
  <2>2. c.output[1].now = TRUE
    BY <1>7, <1>8 DEF Chunks
  <2>3. Whole(e)
    BY <1>5, <2>1, Zenon DEF Whole
  <2>. QED
    BY <1>2, <1>4, <2>1, <2>2, <2>3 DEF Waiting
<1>9. ASSUME ~ (Head(c.output).now /\ c.rest # <<>>)
      PROVE  Answered(handle_output(GoesOn(d, "output", Tail(c.output))))
  <2>. PICK e : IsOn(e, d, "output", Tail(c.output))
    BY DEF IsOn
  <2>. DEFINE p == "output"  o == Tail(c.output)
  <2>a. IsOn(e, d, p, o)
    OBVIOUS
  <2>e. p = "output" /\ o = Tail(c.output)
    OBVIOUS
  <2>1. /\ Tail(c.output) \in Seq(Chunks) /\ EndsNow(Tail(c.output))
        /\ Tail(c.output) = <<>> => c.output[1].now = TRUE
    BY <1>2, TailOf, Zenon
  <2>b. p \in Phases /\ o \in Seq(Chunks)
    BY <1>6, <2>1
  <2>. HIDE DEF p, o
  <2>c. /\ e \in BlocksWith(B) /\ e.phase = p /\ e.output = o /\ e.made = d.made
        /\ e.sent = d.sent /\ e.buf = d.buf /\ e.rest = d.rest
    BY <1>d, <2>a, <2>b, GoneOn
  <2>2. /\ e \in BlocksWith(B) /\ e.phase = "output" /\ e.output = Tail(c.output) /\ e.made = d.made
        /\ e.sent = d.sent /\ e.buf = d.buf /\ e.rest = d.rest
    BY <2>e, <2>c
  <2>3. Whole(e)
    BY <1>5, <2>2, Zenon DEF Whole
  <2>4. e.output = <<>> => e.buf = <<>>
    BY <1>4, <1>7, <1>9, <2>1, <2>2, Zenon
  <2>5. Ready(e)
    BY <1>2, <1>4, <2>1, <2>2, <2>3, <2>4 DEF Ready
  <2>. QED
    BY <2>5, OutputRuns DEF IsOn
<1>. QED
  BY <1>8, <1>9

LEMMA FlushedBlock ==
  ASSUME NEW c, Waiting(c), c.phase = "flushing"
  PROVE  Answered(handle_output(FlushedTo(c, c.sent \o c.buf, <<>>, "output", Tail(c.output))))
<1>1. PICK B : c \in BlocksWith(B)
  BY DEF Waiting
<1>2. /\ c.output \in Seq(Chunks) /\ c.output # <<>> /\ EndsNow(c.output)
      /\ c.sent \in Seq(Int) /\ c.buf \in Seq(Int) /\ c.rest = <<>>
  BY <1>1, Fields DEF Waiting
<1>. PICK e : IsFlushed(e, c, c.sent \o c.buf, <<>>, "output", Tail(c.output))
  BY DEF IsFlushed
<1>. DEFINE n == c.sent \o c.buf  f == <<>>  p == "output"  o == Tail(c.output)
<1>3. n \in Seq(Int) /\ f \in Seq(Int) /\ p \in Phases
  BY <1>2 DEF Phases
<1>5. Tail(c.output) \in Seq(Chunks) /\ EndsNow(Tail(c.output))
  BY <1>2, TailOf, Zenon
<1>a. IsFlushed(e, c, n, f, p, o) /\ o \in Seq(Chunks)
  BY <1>5
<1>c. n = c.sent \o c.buf /\ f = <<>> /\ p = "output" /\ o = Tail(c.output)
  OBVIOUS
<1>. HIDE DEF n, f, p, o
<1>b. /\ e \in BlocksWith(B) /\ e.phase = p /\ e.output = o /\ e.made = c.made
      /\ e.sent = n /\ e.buf = f /\ e.rest = c.rest
  BY <1>1, <1>3, <1>a, FlushedIs
<1>6. /\ e \in BlocksWith(B) /\ e.phase = "output" /\ e.output = Tail(c.output) /\ e.made = c.made
      /\ e.sent = c.sent \o c.buf /\ e.buf = <<>> /\ e.rest = <<>>
  BY <1>2, <1>c, <1>b
<1>7. Whole(e)
  BY <1>2, <1>6, BufferSent, Zenon
<1>8. Len(e.buf) <= MAIN_BUF_SIZE
  <2>1. Len(<<>>) = 0
    OBVIOUS
  <2>. QED
    BY <1>6, <2>1, HttpdAssumption
<1>9. Ready(e)
  BY <1>5, <1>6, <1>7, <1>8 DEF Ready
<1>. QED
  BY <1>9, OutputRuns DEF IsFlushed

LEMMA AnsweredBlock == ASSUME NEW d, Answered(d) PROVE BlockInv(d) /\ d.phase # "body"
  BY DEF Answered, Waiting, BlockInv

LEMMA WritesKeep == ASSUME HttpdInv, NEW s \in Conns, HttpdWrites(s) PROVE HttpdInv'
<1>1. BlockInv(conns[s])
  BY DEF HttpdInv
<1>. DEFINE c == conns[s]  d == Emptied3(c, c.sent \o c.buf, c.rest, <<>>)
<1>2. CASE SentFull(s)
  <2>1. c.phase = "sending" /\ Waiting(c) /\ lock' = lock
    BY <1>1, <1>2 DEF SentFull, BlockInv, Quiet, UnchangedByOutput
  <2>2. CASE Head(c.output).now /\ c.rest # <<>>
    <3>1. conns' = [conns EXCEPT ![s] = InPhase(d, "flushing")]
      BY <1>2, <2>2 DEF SentFull, InPhase, Emptied3
    <3>2. Waiting(InPhase(d, "flushing"))
      BY <2>1, <2>2, SentBlock DEF IsRested
    <3>. PICK e : e = InPhase(d, "flushing")
      OBVIOUS
    <3>3. BlockInv(e) /\ e.phase # "body"
      BY <3>2, AnsweredBlock DEF Answered
    <3>. QED
      BY <2>1, <3>1, <3>3, BlockTurned, Zenon
  <2>3. CASE ~ (Head(c.output).now /\ c.rest # <<>>)
    <3>. PICK e : e = handle_output(GoesOn(d, "output", Tail(c.output)))
      OBVIOUS
    <3>1. conns' = [conns EXCEPT ![s] = e]
      BY <1>2, <2>3, Zenon DEF SentFull, GoesOn, Emptied3
    <3>2. Answered(e)
      BY <2>1, <2>3, SentBlock DEF IsRested
    <3>3. BlockInv(e) /\ e.phase # "body"
      BY <3>2, AnsweredBlock
    <3>. QED
      BY <2>1, <3>1, <3>3, BlockTurned, Zenon
  <2>. QED
    BY <2>2, <2>3
<1>3. CASE Flushed(s)
  <2>1. c.phase = "flushing" /\ Waiting(c) /\ lock' = lock
    BY <1>1, <1>3 DEF Flushed, BlockInv, Quiet, UnchangedByOutput
  <2>. PICK e : e = handle_output(FlushedTo(c, c.sent \o c.buf, <<>>, "output", Tail(c.output)))
    OBVIOUS
  <2>2. conns' = [conns EXCEPT ![s] = e]
    BY <1>3 DEF Flushed, FlushedTo
  <2>3. Answered(e)
    BY <2>1, FlushedBlock
  <2>4. BlockInv(e) /\ e.phase # "body"
    BY <2>3, AnsweredBlock
  <2>. QED
    BY <2>1, <2>2, <2>4, BlockTurned, Zenon
<1>4. CASE Closed(s)
  <2>1. conns' = [conns EXCEPT ![s] = Block("free")] /\ lock' = lock
    BY <1>4 DEF Closed, Freed, UnchangedByOutput
  <2>2. BlockInv(Block("free")) /\ Block("free").phase # "body"
    BY EmptyBlock DEF BlockInv
  <2>. QED
    BY <2>1, <2>2, BlockTurned, Zenon
<1>. QED
  BY <1>2, <1>3, <1>4 DEF HttpdWrites

InBody(c, p, b) == [c EXCEPT !.phase = p, !.body = b]

LEMMA BodyOnly ==
  ASSUME NEW c, Quiet(c), NEW p \in {"body", "closing", "reading"}, NEW b, NEW d, d = InBody(c, p, b)
  PROVE  Quiet(d) /\ d.phase = p
<1>1. PICK B : c \in BlocksWith(B)
  BY DEF Quiet
<1>. PICK X : X = B \cup {b}
  BY Zenon
<1>2. /\ d \in BlocksWith(X) /\ d.phase = p /\ d.made = c.made
      /\ d.sent = c.sent /\ d.buf = c.buf /\ d.rest = c.rest
  BY <1>1, Zenon DEF BlocksWith, Phases, InBody
<1>. QED
  BY <1>2 DEF Quiet, Whole

LEMMA ClosingOnly ==
  ASSUME NEW c, Quiet(c), NEW d, d = InPhase(c, "closing")
  PROVE  Quiet(d) /\ d.phase = "closing"
<1>1. PICK B : c \in BlocksWith(B)
  BY DEF Quiet
<1>2. /\ d \in BlocksWith(B) /\ d.phase = "closing" /\ d.made = c.made
      /\ d.sent = c.sent /\ d.buf = c.buf /\ d.rest = c.rest
  BY <1>1, Zenon DEF BlocksWith, Phases, InPhase
<1>. QED
  BY <1>2, Zenon DEF Quiet, Whole

LEMMA QuietBlock ==
  ASSUME HttpdInv, NEW s \in Conns, conns[s].phase \in {"reading", "body"}
  PROVE  Quiet(conns[s])
  BY DEF HttpdInv, BlockInv, Waiting

\* An answer begins: no block but this one changes, and the lock is released if it was held.
LEMMA AnsweringKeeps ==
  ASSUME HttpdInv, NEW s \in Conns, conns[s].phase \in {"reading", "body"}, NEW o, IsAnswer(o),
         conns' = [conns EXCEPT ![s] = Answering(conns[s], o)],
         lock' = lock \/ (lock = s /\ lock' = NULL) \/ (lock \in {NULL, s} /\ lock' \in {NULL, s})
  PROVE  HttpdInv'
<1>1. Quiet(conns[s])
  BY QuietBlock
<1>. PICK e : e = Answering(conns[s], o)
  OBVIOUS
<1>2. Answered(e)
  BY <1>1, AnswerBegins
<1>3. BlockInv(e) /\ e.phase # "body"
  BY <1>2, AnsweredBlock
<1>. QED
  BY <1>3, BlockTurned, Zenon

LEMMA PostReadKeeps ==
  ASSUME HttpdInv, NEW s \in Conns, conns[s].phase \in {"reading", "body"}, NEW code, NEW l, NEW p, NEW ok,
         l = lock \/ (l = s /\ lock \in {NULL, s}), PostRead(s, code, l, p, ok)
  PROVE  HttpdInv'
<1>. PICK given : given = IF code = "OK" /\ p # "MORE" THEN "BR" ELSE code
  OBVIOUS
<1>1. conns' = [conns EXCEPT ![s] = Answering(conns[s], AnswerOf(given))] /\ lock' = lock_release(s, l)
  BY DEF PostRead
<1>2. lock' = lock \/ (lock = s /\ lock' = NULL) \/ (lock \in {NULL, s} /\ lock' \in {NULL, s})
  BY <1>1 DEF lock_release
<1>. PICK o : o = AnswerOf(given)
  OBVIOUS
<1>3. IsAnswer(o)
  BY AnswersAre
<1>4. conns' = [conns EXCEPT ![s] = Answering(conns[s], o)]
  BY <1>1
<1>. QED
  BY <1>2, <1>3, <1>4, AnsweringKeeps, Zenon

LEMMA PostHeadersKeep ==
  ASSUME HttpdInv, NEW s \in Conns, NEW length, NEW body, PostHeaders(s, length, body)
  PROVE  HttpdInv'
<1>1. conns[s].phase \in {"reading", "body"}
  BY DEF PostHeaders
<1>2. CASE PostRead(s, length, lock, parse, config_ok)
  BY <1>1, <1>2, PostReadKeeps
<1>3. CASE PostRead(s, "SU", lock, parse, config_ok)
  BY <1>1, <1>3, PostReadKeeps
<1>4. CASE lock_obtain(s) = s /\ PostRead(s, "OK", s, "INIT", config_ok)
  <2>1. lock \in {NULL, s}
    BY <1>4 DEF lock_obtain
  <2>. QED
    BY <1>1, <1>4, <2>1, PostReadKeeps
<1>5. CASE /\ lock_obtain(s) = s /\ lock' = s
           /\ conns' = [conns EXCEPT ![s] = [@ EXCEPT !.phase = "body", !.body = body]]
  <2>1. lock \in {NULL, s}
    BY <1>5 DEF lock_obtain
  <2>. PICK e : e = InBody(conns[s], "body", body)
    OBVIOUS
  <2>2. conns' = [conns EXCEPT ![s] = e]
    BY <1>5 DEF InBody
  <2>3. Quiet(conns[s])
    BY <1>1, QuietBlock
  <2>4. Quiet(e)
    BY <2>3, BodyOnly
  <2>5. BlockInv(e)
    BY <2>4 DEF BlockInv
  <2>. QED
    BY <1>5, <2>1, <2>2, <2>5, BlockTurned, Zenon
<1>. QED
  BY <1>2, <1>3, <1>4, <1>5 DEF PostHeaders

LEMMA ChunkParsedKeeps ==
  ASSUME HttpdInv, NEW s \in Conns, conns[s].phase = "body", NEW result, parse_post_request_chunk(s, result)
  PROVE  HttpdInv'
<1>1. conns[s].phase \in {"reading", "body"}
  OBVIOUS
<1>. PICK ok : ok = (config_ok \/ (result = "OK" /\ parse # "READING_VAL"))
  OBVIOUS
<1>2. \/ PostRead(s, "BR", lock, "ERROR", ok)
      \/ PostRead(s, "OK", lock, Parsed(result), ok)
      \/ conns' = [conns EXCEPT ![s].body = Tail(@)] /\ lock' = lock
  BY Zenon DEF parse_post_request_chunk
<1>3. CASE PostRead(s, "BR", lock, "ERROR", ok)
  BY <1>1, <1>3, PostReadKeeps
<1>4. CASE PostRead(s, "OK", lock, Parsed(result), ok)
  <2>. PICK p : p = Parsed(result)
    OBVIOUS
  <2>1. PostRead(s, "OK", lock, p, ok)
    BY <1>4
  <2>. QED
    BY <1>1, <2>1, PostReadKeeps
<1>5. CASE conns' = [conns EXCEPT ![s].body = Tail(@)] /\ lock' = lock
  <2>1. Quiet(conns[s])
    BY <1>1, QuietBlock
  <2>. PICK e : e = InBody(conns[s], "body", Tail(conns[s].body))
    OBVIOUS
  <2>2. conns' = [conns EXCEPT ![s] = e]
    <3>1. e = [conns[s] EXCEPT !.body = Tail(@)]
      <4>1. PICK B : conns[s] \in BlocksWith(B)
        BY <2>1 DEF Quiet
      <4>. QED
        BY <4>1, Zenon DEF BlocksWith, InBody
    <3>. QED
      BY <1>5, <3>1, Zenon
  <2>3. Quiet(e)
    BY <2>1, BodyOnly
  <2>4. BlockInv(e)
    BY <2>3 DEF BlockInv
  <2>. QED
    BY <1>5, <2>2, <2>4, BlockTurned, Zenon
<1>. QED
  BY <1>2, <1>3, <1>4, <1>5

LEMMA ReadsKeep == ASSUME HttpdInv, NEW s \in Conns, NEW requested, HttpdReads(s, requested) PROVE HttpdInv'
<1>1. ASSUME NEW name \in requested, GetRead(s, name) PROVE HttpdInv'
  <2>. PICK o : o = AnswerTo(name)
    OBVIOUS
  <2>1. IsAnswer(o)
    BY AnswersAre
  <2>2. conns' = [conns EXCEPT ![s] = Answering(conns[s], o)] /\ lock' = lock /\ conns[s].phase = "reading"
    BY <1>1 DEF GetRead, UnchangedByOutput
  <2>. QED
    BY <2>1, <2>2, AnsweringKeeps, Zenon
<1>2. ASSUME NotUnderstood(s) PROVE HttpdInv'
  <2>. PICK e : e = InPhase(conns[s], "closing")
    OBVIOUS
  <2>1. conns' = [conns EXCEPT ![s] = e] /\ lock' = lock
    BY <1>2 DEF NotUnderstood, InPhase, UnchangedByOutput
  <2>2. Quiet(conns[s])
    BY <1>2, QuietBlock DEF NotUnderstood
  <2>3. Quiet(e) /\ e.phase = "closing"
    BY <2>2, ClosingOnly
  <2>. QED
    BY <2>1, <2>3, BlockTurned, Zenon DEF BlockInv
<1>3. ASSUME NEW length \in {"LR", "TL"}, PostHeaders(s, length, <<>>) PROVE HttpdInv'
  BY <1>3, PostHeadersKeep
<1>4. ASSUME NEW body \in Bodies, PostHeaders(s, "OK", body) PROVE HttpdInv'
  BY <1>4, PostHeadersKeep
<1>. QED
  BY <1>1, <1>2, <1>3, <1>4 DEF HttpdReads

LEMMA ConnectedKeeps == ASSUME HttpdInv, Connected PROVE HttpdInv'
<1>1. PICK s \in Conns : conns' = [conns EXCEPT ![s] = Block("reading")]
  BY Zenon DEF Connected
<1>2. BlockInv(Block("reading")) /\ Block("reading").phase # "body" /\ lock' = lock
  BY EmptyBlock DEF BlockInv, Connected
<1>. QED
  BY <1>1, <1>2, BlockTurned, Zenon

LEMMA LostKeeps == ASSUME HttpdInv, NEW s \in Conns, Lost(s) PROVE HttpdInv'
<1>1. conns' = [conns EXCEPT ![s] = Block("free")] /\ lock' = lock
  BY DEF Lost, Freed
<1>2. BlockInv(Block("free")) /\ Block("free").phase # "body"
  BY EmptyBlock DEF BlockInv
<1>. QED
  BY <1>1, <1>2, BlockTurned, Zenon

LEMMA HttpdStandsStill == ASSUME HttpdInv, conns' = conns, lock' = lock PROVE HttpdInv'
  BY DEF HttpdInv, OneAtATime, BlockInv

LEMMA HttpdBegins == HttpdInit => HttpdInv
<1> SUFFICES ASSUME HttpdInit PROVE HttpdInv
  OBVIOUS
<1>1. conns = [s \in Conns |-> Block("free")]
  BY DEF HttpdInit
<1>2. \A s \in Conns : conns[s] = Block("free")
  BY <1>1
<1>3. BlockInv(Block("free")) /\ Block("free").phase = "free"
  BY EmptyBlock DEF BlockInv
<1>. QED
  BY <1>1, <1>2, <1>3 DEF HttpdInv, OneAtATime

LEMMA PagesKeep == ASSUME HttpdInv, PagesNext PROVE HttpdInv'
<1>1. ASSUME NEW s \in Conns, NEW name \in Pages, GetRead(s, name) PROVE HttpdInv'
  <2>1. HttpdReads(s, Pages)
    BY <1>1 DEF HttpdReads
  <2>. QED
    BY <2>1, ReadsKeep
<1>. QED
  BY <1>1, ConnectedKeeps, WritesKeep, LostKeeps DEF PagesNext

LEMMA HttpdSafe == HttpdInv => OneAtATime /\ PageIsWhole
<1> SUFFICES ASSUME HttpdInv PROVE OneAtATime /\ PageIsWhole
  OBVIOUS
<1>1. ASSUME NEW s \in Conns
      PROVE  /\ conns[s].sent \o conns[s].buf \o conns[s].rest = Pieces(0, conns[s].made)
             /\ conns[s].phase = "closing" => conns[s].buf = <<>>
  <2>1. Whole(conns[s])
    BY DEF HttpdInv, BlockInv, Waiting, Quiet
  <2>2. conns[s].phase = "closing" => conns[s].buf = <<>>
    BY DEF HttpdInv, BlockInv, Waiting, Quiet
  <2>. QED
    BY <2>1, <2>2 DEF Whole
<1>. QED
  BY <1>1, Zenon DEF PageIsWhole, HttpdInv

(***************************************************************************)
(* The web demo's configuration, and what is saved of it.                  *)
(***************************************************************************)

SavedInv == AcceptedIsSaved /\ news \in Nat /\ client = "web"

Noted == config_ok \/ news > 0

\* The configuration is what it was, or it is saved at once.
Settled == (Config' = Config /\ flash' = flash) \/ flash' \in {Config', NotSaved}

LEMMA SavedOrNoted == ASSUME AcceptedIsSaved, Settled, Noted => Noted' PROVE AcceptedIsSaved'
<1>1. NotSaved' = NotSaved
  BY DEF NotSaved, DefaultUart
<1>2. CASE Noted
  BY <1>2, Zenon DEF AcceptedIsSaved, Noted
<1>3. CASE ~ Noted
  BY <1>1, <1>3, Zenon DEF AcceptedIsSaved, Noted, Settled
<1>. QED
  BY <1>2, <1>3

LEMMA SavedStandsStill ==
  ASSUME SavedInv, UNCHANGED <<flash, conf, publish, net_uart, config_ok, news, client>> PROVE SavedInv'
<1>1. Config' = Config
  BY DEF Config
<1>. QED
  BY <1>1 DEF SavedInv, AcceptedIsSaved, NotSaved, DefaultUart

\* The configuration as the other processes have it.
LEMMA NewNetConfig ==
  ASSUME NEW new, web_new_net_config(new) PROVE conf' = new /\ client' = client
  BY DEF web_new_net_config

LEMMA RestoredIs == ASSUME restore_defaults PROVE Settled /\ client' = client
<1>1. conf' = "quickstart" /\ publish' = TRUE /\ net_uart' = DefaultUart /\ client' = client
  BY DEF restore_defaults, web_new_config_event, set_config_defaults
<1>2. Config' = [mqtt |-> "quickstart", publish |-> TRUE, net_uart |-> DefaultUart]
  BY <1>1 DEF Config
<1>3. flash' \in {Config', NotSaved}
  BY <1>2 DEF restore_defaults, save_config
<1>. QED
  BY <1>1, <1>3 DEF Settled

\* A handler that does not say OK leaves the configuration alone, unless it restores it.
LEMMA HandlersChange ==
  ASSUME NEW p, post_handlers(p)
  PROVE  /\ Settled \/ (Said(p) = "OK" /\ parse # "READING_VAL")
         /\ client' = client
<1>1. CASE p.key = "other" \/ parse = "READING_VAL"
  <2>1. UNCHANGED <<mqttVars, publish, uartVars, flash>>
    BY <1>1 DEF post_handlers
  <2>. QED
    BY <2>1 DEF Settled, Config, mqttVars, uartVars
<1>2. CASE ~ (p.key = "other" \/ parse = "READING_VAL")
  <2>1. CASE mqtt_post_handlers(p)
    <3>1. client' = client /\ (Refused(p) => conf' = conf) /\ p.key # "net_uart_ip"
      BY <2>1, NewNetConfig DEF mqtt_post_handlers, org_id_post_handler, type_id_post_handler,
        event_type_id_post_handler, cmd_type_post_handler, auth_token_post_handler, ip_addr_post_handler,
        port_post_handler, interval_post_handler, reconnect_post_handler, StopsClient, mqttVars
    <3>2. UNCHANGED <<publish, net_uart, flash>>
      BY <2>1 DEF mqtt_post_handlers, uartVars
    <3>3. CASE Refused(p)
      BY <3>1, <3>2, <3>3 DEF Settled, Config
    <3>4. CASE ~ Refused(p)
      BY <1>2, <3>1, <3>4 DEF Said
    <3>. QED
      BY <3>1, <3>3, <3>4
  <2>2. CASE sensor_readings_handler(p)
    <3>1. client' = client /\ conf' = conf /\ UNCHANGED <<net_uart, flash>> /\ (Refused(p) => publish' = publish)
      BY <2>2 DEF sensor_readings_handler, mqttVars, uartVars
    <3>3. CASE Refused(p)
      BY <3>1, <3>3 DEF Settled, Config
    <3>4. CASE ~ Refused(p)
      BY <1>2, <3>1, <3>4 DEF Said
    <3>. QED
      BY <3>1, <3>3, <3>4
  <2>3. CASE ping_interval_post_handler(p)
    <3>1. UNCHANGED <<mqttVars, publish, uartVars, flash>>
      BY <2>3 DEF ping_interval_post_handler
    <3>. QED
      BY <3>1 DEF Settled, Config, mqttVars, uartVars
  <2>4. CASE uart_post_handlers(p)
    <3>1. client' = client /\ conf' = conf /\ UNCHANGED <<publish, flash>>
      BY <2>4 DEF uart_post_handlers, mqttVars
    <3>2. Refused(p) => net_uart' = net_uart
      BY <2>4 DEF uart_post_handlers, remote_port_post_handler, remote_ipv6_post_handler, on_off_post_handler,
        Refused, uartVars
    <3>3. CASE Refused(p)
      BY <3>1, <3>2, <3>3 DEF Settled, Config
    <3>4. CASE ~ Refused(p)
      BY <1>2, <3>1, <3>4 DEF Said
    <3>. QED
      BY <3>1, <3>3, <3>4
  <2>5. CASE defaults_post_handler(p)
    BY <2>5, RestoredIs DEF defaults_post_handler
  <2>. QED
    BY <1>2, <2>1, <2>2, <2>3, <2>4, <2>5 DEF post_handlers
<1>. QED
  BY <1>1, <1>2

\* What is accepted is told of, or will be.
LEMMA PostReadTells ==
  ASSUME NEW s, NEW code, NEW l, NEW p, NEW ok, news \in Nat, PostRead(s, code, l, p, ok)
  PROVE  news' \in Nat /\ (ok \/ news > 0 => news' > 0)
<1>1. /\ ok => news' = news + 1
      /\ ~ ok => news' = news + 0
  BY DEF PostRead, Notifies
<1>. QED
  BY <1>1

LEMMA ChunkParsedTells ==
  ASSUME NEW s, NEW result, news \in Nat, parse_post_request_chunk(s, result)
  PROVE  /\ news' \in Nat
         /\ Noted \/ (result = "OK" /\ parse # "READING_VAL") => Noted'
<1>. DEFINE ok == config_ok \/ (result = "OK" /\ parse # "READING_VAL")
<1>1. \/ PostRead(s, "BR", lock, "ERROR", ok)
      \/ PostRead(s, "OK", lock, Parsed(result), ok)
      \/ config_ok' = ok /\ news' = news
  BY Zenon DEF parse_post_request_chunk
<1>2. CASE PostRead(s, "BR", lock, "ERROR", ok)
  <2>1. news' \in Nat /\ (ok \/ news > 0 => news' > 0)
    BY <1>2, PostReadTells, Zenon
  <2>. QED
    BY <2>1 DEF Noted
<1>3. CASE PostRead(s, "OK", lock, Parsed(result), ok)
  <2>1. news' \in Nat /\ (ok \/ news > 0 => news' > 0)
    BY <1>3, PostReadTells, Zenon
  <2>. QED
    BY <2>1 DEF Noted
<1>4. CASE config_ok' = ok /\ news' = news
  <2>1. ok => config_ok'
    BY <1>4, Zenon
  <2>. QED
    BY <1>4, <2>1, Zenon DEF Noted
<1>. QED
  BY <1>1, <1>2, <1>3, <1>4

LEMMA PostHeadersTell ==
  ASSUME NEW s, NEW length, NEW body, news \in Nat, PostHeaders(s, length, body)
  PROVE  news' \in Nat /\ (Noted => Noted')
<1>1. \/ \E code, l, p : PostRead(s, code, l, p, config_ok)
      \/ config_ok' = config_ok /\ news' = news
  BY Zenon DEF PostHeaders
<1>2. ASSUME NEW code, NEW l, NEW p, PostRead(s, code, l, p, config_ok) PROVE news' \in Nat /\ (Noted => Noted')
  <2>1. news' \in Nat /\ (config_ok \/ news > 0 => news' > 0)
    BY <1>2, PostReadTells
  <2>. QED
    BY <2>1 DEF Noted
<1>. QED
  BY <1>1, <1>2 DEF Noted

LEMMA PostSaved == ASSUME SavedInv, NEW s, httpd_post(s) PROVE SavedInv'
<1>. PICK p : p = Head(conns[s].body)
  OBVIOUS
<1>. PICK said : said = Said(p)
  OBVIOUS
<1>1. post_handlers(p) /\ parse_post_request_chunk(s, said)
  BY DEF httpd_post
<1>2. (Settled \/ (said = "OK" /\ parse # "READING_VAL")) /\ client' = client
  BY <1>1, HandlersChange
<1>3. news' \in Nat /\ (Noted \/ (said = "OK" /\ parse # "READING_VAL") => Noted')
  BY <1>1, ChunkParsedTells DEF SavedInv
<1>4. AcceptedIsSaved'
  <2>1. CASE said = "OK" /\ parse # "READING_VAL"
    <3>1. Noted'
      BY <1>3, <2>1
    <3>. QED
      BY <3>1, Zenon DEF Noted, AcceptedIsSaved
  <2>2. CASE Settled
    BY <1>3, <2>2, SavedOrNoted DEF SavedInv
  <2>. QED
    BY <1>2, <2>1, <2>2
<1>. QED
  BY <1>2, <1>3, <1>4 DEF SavedInv

LEMMA HttpdSaved == ASSUME SavedInv, httpd_simple_process PROVE SavedInv'
<1>1. ASSUME NEW s \in Conns, httpd_post(s) PROVE SavedInv'
  BY <1>1, PostSaved
<1>2. ASSUME Connected \/ \E s \in Conns : HttpdReads(s, {"elsewhere.html"}) \/ HttpdWrites(s) \/ Lost(s),
             UNCHANGED <<mqttProgVars, publish, uartVars, flash>>
      PROVE  SavedInv'
  <2>1. Settled /\ client' = client
    BY <1>2 DEF Settled, Config, mqttProgVars, mqttVars, uartVars
  <2>2. news' \in Nat /\ (Noted => Noted')
    <3>1. ASSUME NEW s \in Conns, NEW length, NEW body, PostHeaders(s, length, body) PROVE news' \in Nat /\ (Noted => Noted')
      BY <3>1, PostHeadersTell DEF SavedInv
    <3>2. ASSUME config_ok' = config_ok, news' = news PROVE news' \in Nat /\ (Noted => Noted')
      BY <3>2 DEF SavedInv, Noted
    <3>3. Connected => config_ok' = config_ok /\ news' = news
      BY DEF Connected
    <3>4. \A s \in Conns : HttpdWrites(s) \/ Lost(s) => config_ok' = config_ok /\ news' = news
      BY DEF HttpdWrites, SentFull, Flushed, Closed, Lost, UnchangedByOutput
    <3>5. ASSUME NEW s \in Conns, HttpdReads(s, {"elsewhere.html"}) PROVE news' \in Nat /\ (Noted => Noted')
      <4>1. ASSUME NEW name, GetRead(s, name) PROVE config_ok' = config_ok /\ news' = news
        BY <4>1 DEF GetRead, UnchangedByOutput
      <4>2. NotUnderstood(s) => config_ok' = config_ok /\ news' = news
        BY DEF NotUnderstood, UnchangedByOutput
      <4>. QED
        BY <3>1, <3>2, <3>5, <4>1, <4>2 DEF HttpdReads
    <3>. QED
      BY <1>2, <3>2, <3>3, <3>4, <3>5
  <2>3. AcceptedIsSaved'
    BY <2>1, <2>2, SavedOrNoted DEF SavedInv
  <2>. QED
    BY <2>1, <2>2, <2>3 DEF SavedInv
<1>. QED
  BY <1>1, <1>2 DEF httpd_simple_process

LEMMA ConfKept == ASSUME client = "web", mqtt_client_process PROVE conf' = conf /\ client' = client
<1>1. web_process => conf' = conf /\ client' = client
  BY DEF web_process, PollEvent, TimerEvent, ButtonEvent
<1>2. Surroundings => conf' = conf /\ client' = client
  BY DEF Surroundings, TimerExpires, ConnectionLives, Acknowledged, Joins, Leaves
<1>3. web_mqtt_event => conf' = conf /\ client' = client
  BY DEF web_mqtt_event, MQTT_EVENT_CONNECTED, MQTT_EVENT_DISCONNECTED
<1>4. Callback => web_mqtt_event
  BY Zenon DEF Callback
<1>. QED
  BY <1>1, <1>2, <1>3, <1>4, Zenon DEF mqtt_client_process, Elsewhere

LEMMA WebSaved == ASSUME SavedInv, WebNext PROVE SavedInv'
<1>1. CASE NewConfigEvent
  <2>1. Config' = Config
    BY <1>1 DEF NewConfigEvent, Config, web_new_config_event, uartVars
  <2>2. flash' \in {Config', NotSaved}
    BY <1>1, <2>1 DEF NewConfigEvent, save_config
  <2>3. NotSaved' = NotSaved
    BY DEF NotSaved, DefaultUart
  <2>4. AcceptedIsSaved'
    BY <2>2, <2>3 DEF AcceptedIsSaved
  <2>5. news' \in Nat /\ client' = client
    BY <1>1 DEF NewConfigEvent, SavedInv, web_new_config_event
  <2>. QED
    BY <2>4, <2>5 DEF SavedInv
<1>2. CASE RestoreDefaults
  <2>1. Settled /\ client' = client
    BY <1>2, RestoredIs DEF RestoreDefaults
  <2>2. config_ok' = config_ok /\ news' = news
    BY <1>2 DEF RestoreDefaults, httpdVars
  <2>3. AcceptedIsSaved'
    BY <2>1, <2>2, SavedOrNoted DEF SavedInv, Noted
  <2>. QED
    BY <2>1, <2>2, <2>3 DEF SavedInv
<1>3. CASE net_uart_process
  <2>1. UNCHANGED <<flash, conf, publish, net_uart, config_ok, news, client>>
    BY <1>3 DEF net_uart_process, httpdVars, mqttProgVars, mqttVars
  <2>. QED
    BY <2>1, SavedStandsStill
<1>4. CASE mqtt_client_process
  <2>1. UNCHANGED <<flash, publish, net_uart, config_ok, news>>
    BY <1>4 DEF mqtt_client_process, httpdVars, uartVars
  <2>2. conf' = conf /\ client' = client
    BY <1>4, ConfKept DEF SavedInv
  <2>. QED
    BY <2>1, <2>2, SavedStandsStill
<1>. QED
  BY <1>1, <1>2, <1>3, <1>4, HttpdSaved DEF WebNext

LEMMA SavedBegins == WebInit => SavedInv
<1> SUFFICES ASSUME WebInit PROVE SavedInv
  OBVIOUS
<1>1. client = "web" /\ news = 0
  BY DEF WebInit, web_config, Configured, HttpdInit
<1>2. flash \in {Config, NotSaved}
  BY DEF WebInit, load_config
<1>. QED
  BY <1>1, <1>2 DEF SavedInv, AcceptedIsSaved

LEMMA WebHttpd == ASSUME HttpdInv, WebNext PROVE HttpdInv'
<1>1. ASSUME NEW s \in Conns, httpd_post(s) PROVE HttpdInv'
  <2>. PICK said : said = Said(Head(conns[s].body))
    OBVIOUS
  <2>1. conns[s].phase = "body" /\ parse_post_request_chunk(s, said)
    BY <1>1 DEF httpd_post
  <2>. QED
    BY <2>1, ChunkParsedKeeps
<1>2. CASE httpd_simple_process
  <2>1. ASSUME NEW s \in Conns, HttpdReads(s, {"elsewhere.html"}) PROVE HttpdInv'
    BY <2>1, ReadsKeep
  <2>. QED
    BY <1>1, <1>2, <2>1, ConnectedKeeps, WritesKeep, LostKeeps DEF httpd_simple_process
<1>3. NewConfigEvent \/ RestoreDefaults \/ net_uart_process \/ mqtt_client_process => conns' = conns /\ lock' = lock
  BY DEF NewConfigEvent, RestoreDefaults, net_uart_process, mqtt_client_process, httpdVars
<1>. QED
  BY <1>2, <1>3, HttpdStandsStill DEF WebNext

(***************************************************************************)
(* The page of the border router and of the IP64 router.                   *)
(***************************************************************************)

Words == {"top", "Neighbors", "n1", "n2", "/", "Routes", "r1", "bottom"}
Steps == {"free", "reading", "output", "closing"}
Segments ==
  {"none", "headers", "top", "neighbors header", "a neighbor", "neighbors footer",
   "routes header", "a route", "footer", "bottom"}

PagesWith(L, X) == [phase : Steps, at : Segments, sendlen : L, wire : X, got : X]
IsPage(c) == \E L, X : c \in PagesWith(L, X)

Upto(k) == SubSeq(WholePage, 1, k)
Between(k, m) == SubSeq(WholePage, k + 1, m)

\* How much of the page the client has, k, and how much it will have with the segment that
\* waits, m.
Places(r, n, t, at, k, m) ==
  \/ at = "headers" /\ k = 0 /\ m = 0
  \/ at = "top" /\ k = 0 /\ m = 1
  \/ at = "neighbors header" /\ r = "border" /\ k = 1 /\ m = 2
  \/ at = "a neighbor" /\ r = "border" /\ n = 1 /\ k = 2 /\ m = 3
  \/ at = "a neighbor" /\ r = "border" /\ n = 2 /\ k = 3 /\ m = 4
  \/ at = "a neighbor" /\ r = "ip64" /\ n = 1 /\ k = 1 /\ m = 3
  \/ at = "neighbors footer" /\ r = "border" /\ k = 4 /\ m = 5
  \/ at = "routes header" /\ r = "border" /\ k = 5 /\ m = 6
  \/ at = "routes header" /\ r = "ip64" /\ k = 3 /\ m = 6
  \/ at = "a route" /\ t = 1 /\ k = 6 /\ m = 7
  \/ at = "footer" /\ k = 7 /\ m = 8
  \/ at = "bottom" /\ k = 8 /\ m = 9

InPlace(at, k, m) == Places(router, nbr, route, at, k, m)

OutOfBuffer == {"headers", "top", "bottom"}

\* A segment is still in the buffer as it was sent.
InBuffer(c) == c.at \notin OutOfBuffer => SubSeq(buf, 1, c.sendlen) = c.wire

Alone(c) ==
  /\ \E k, m \in 0 .. 9 : InPlace(c.at, k, m) /\ c.got = Upto(k) /\ c.wire = Between(k, m)
  /\ InBuffer(c)

\* A page that is nobody else's.
PageInv(s) ==
  /\ http[s].phase = "output" => /\ Making = {s} /\ Alone(http[s])
                                 /\ router = "border" => ~ cut_off
  /\ http[s].phase = "closing" => http[s].got = WholePage
  /\ http[s].phase \in {"free", "reading"} => http[s].got = <<>>

\* Of the border router: the last line is taken out when it is acknowledged.
BufferInv ==
  /\ buf \in Seq(Words) /\ blen \in Nat /\ blen <= Len(buf)
  /\ (router = "border" /\ ~ cut_off /\ \A s \in Making : http[s].at \in OutOfBuffer) => blen = 0

RoutesInv ==
  /\ router \in {"border", "ip64"} /\ mixed \subseteq Pool
  /\ nbr \in {0, 1, 2} /\ route \in {0, 1}
  /\ DOMAIN http = Pool /\ http = [s \in Pool |-> http[s]]
  /\ \A s \in Pool : IsPage(http[s])
  /\ BufferInv
  /\ \A s \in Pool : s \notin mixed => PageInv(s)

Word(i) ==
  IF i = 1 THEN "top" ELSE IF i = 2 THEN "Neighbors" ELSE IF i = 3 THEN "n1" ELSE IF i = 4 THEN "n2"
  ELSE IF i = 5 THEN "/" ELSE IF i = 6 THEN "Routes" ELSE IF i = 7 THEN "r1" ELSE IF i = 8 THEN "/" ELSE "bottom"

LEMMA WordsAre == /\ \A i \in 1 .. 9 : Word(i) \in Words
                  /\ Word(1) = "top" /\ Word(2) = "Neighbors" /\ Word(3) = "n1" /\ Word(4) = "n2" /\ Word(5) = "/"
                  /\ Word(6) = "Routes" /\ Word(7) = "r1" /\ Word(8) = "/" /\ Word(9) = "bottom"
  BY DEF Word, Words

LEMMA OneWord == ASSUME NEW x \in Words PROVE <<x>> \in Seq(Words) /\ Len(<<x>>) = 1 /\ <<x>>[1] = x
  OBVIOUS

LEMMA TwoWords ==
  ASSUME NEW x \in Words, NEW y \in Words
  PROVE  <<x, y>> \in Seq(Words) /\ Len(<<x, y>>) = 2 /\ <<x, y>>[1] = x /\ <<x, y>>[2] = y
  OBVIOUS

LEMMA JoinedWords ==
  ASSUME NEW a \in Seq(Words), NEW b \in Seq(Words)
  PROVE  /\ a \o b \in Seq(Words) /\ Len(a \o b) = Len(a) + Len(b)
         /\ \A i \in 1 .. Len(a) : (a \o b)[i] = a[i]
         /\ \A i \in 1 .. Len(b) : (a \o b)[Len(a) + i] = b[i]
  OBVIOUS

\* Lists of two and one.
IsTwo(a, x, y) == a \in Seq(Words) /\ Len(a) = 2 /\ a[1] = x /\ a[2] = y
IsOne(a, x) == a \in Seq(Words) /\ Len(a) = 1 /\ a[1] = x

LEMMA TwoIs == ASSUME NEW x \in Words, NEW y \in Words PROVE IsTwo(<<x, y>>, x, y)
  BY DEF IsTwo
LEMMA OneIs == ASSUME NEW x \in Words PROVE IsOne(<<x>>, x)
  BY DEF IsOne


\* The first words of the page.
Begins(f, n) == f \in Seq(Words) /\ Len(f) = n /\ \A i \in Int : 1 <= i /\ i <= n => f[i] = Word(i)

LEMMA TwoMore ==
  ASSUME NEW n \in Nat, NEW f, Begins(f, n), NEW c, NEW x, NEW y, IsTwo(c, x, y), x = Word(n + 1), y = Word(n + 2)
  PROVE  Begins(f \o c, n + 2)
<1>. PICK g : g = f \o c
  BY Zenon
<1>1. f \in Seq(Words) /\ Len(f) = n /\ c \in Seq(Words) /\ Len(c) = 2 /\ c[1] = x /\ c[2] = y
  BY DEF Begins, IsTwo
<1>2. g \in Seq(Words) /\ Len(g) = n + 2
  <2>1. g \in Seq(Words) /\ Len(g) = Len(f) + Len(c)
    BY <1>1, JoinedWords, Zenon
  <2>. QED
    BY <1>1, <2>1, Zenon
<1>3. ASSUME NEW i \in Int, 1 <= i, i <= n PROVE g[i] = Word(i)
  <2>1. i \in 1 .. Len(f)
    BY <1>1, <1>3
  <2>2. g[i] = f[i]
    BY <1>1, <2>1, JoinedWords
  <2>. QED
    BY <1>3, <2>2 DEF Begins
<1>4. g[n + 1] = x /\ g[n + 2] = y
  <2>1. \A i \in 1 .. Len(c) : g[Len(f) + i] = c[i]
    BY <1>1, JoinedWords, ZenonT(100)
  <2>2. 1 \in 1 .. Len(c) /\ 2 \in 1 .. Len(c)
    BY <1>1
  <2>3. g[Len(f) + 1] = x /\ g[Len(f) + 2] = y
    BY <1>1, <2>1, <2>2, Zenon
  <2>. QED
    BY <1>1, <2>3, Zenon
<1>5. ASSUME NEW i \in Int, 1 <= i, i <= n + 2 PROVE g[i] = Word(i)
  <2>1. CASE i <= n
    BY <1>3, <1>5, <2>1, Zenon
  <2>2. CASE i = n + 1
    BY <1>4, <2>2, Zenon
  <2>3. CASE i = n + 2
    BY <1>4, <2>3, Zenon
  <2>4. i <= n \/ i = n + 1 \/ i = n + 2
    BY <1>5
  <2>. QED
    BY <2>1, <2>2, <2>3, <2>4, Zenon
<1>. QED
  BY <1>2, <1>5 DEF Begins

LEMMA OneMore ==
  ASSUME NEW n \in Nat, NEW f, Begins(f, n), NEW c, NEW x, IsOne(c, x), x = Word(n + 1)
  PROVE  Begins(f \o c, n + 1)
<1>. PICK g : g = f \o c
  BY Zenon
<1>1. f \in Seq(Words) /\ Len(f) = n /\ c \in Seq(Words) /\ Len(c) = 1 /\ c[1] = x
  BY DEF Begins, IsOne
<1>j. /\ g \in Seq(Words) /\ Len(g) = Len(f) + Len(c)
      /\ \A i \in 1 .. Len(f) : g[i] = f[i]
      /\ \A i \in 1 .. Len(c) : g[Len(f) + i] = c[i]
  BY <1>1, JoinedWords, Zenon
<1>2. g \in Seq(Words) /\ Len(g) = n + 1
  BY <1>1, <1>j
<1>3. ASSUME NEW i \in Int, 1 <= i, i <= n PROVE g[i] = Word(i)
  <2>1. i \in 1 .. Len(f)
    BY <1>1, <1>3
  <2>2. g[i] = f[i]
    BY <1>1, <2>1, JoinedWords
  <2>. QED
    BY <1>3, <2>2 DEF Begins
<1>4. g[n + 1] = x
  <2>1. g[Len(f) + 1] = x
    BY <1>1, <1>j
  <2>. QED
    BY <1>1, <2>1, Zenon
<1>5. ASSUME NEW i \in Int, 1 <= i, i <= n + 1 PROVE g[i] = Word(i)
  <2>1. CASE i <= n
    BY <1>3, <1>5, <2>1, Zenon
  <2>2. CASE i = n + 1
    BY <1>4, <2>2, Zenon
  <2>4. i <= n \/ i = n + 1
    BY <1>5
  <2>. QED
    BY <2>1, <2>2, <2>4, Zenon
<1>. QED
  BY <1>2, <1>5 DEF Begins

LEMMA PageIs == Begins(WholePage, 9)
<1>0. /\ "top" \in Words /\ "Neighbors" \in Words /\ "n1" \in Words /\ "n2" \in Words /\ "/" \in Words
      /\ "Routes" \in Words /\ "r1" \in Words /\ "bottom" \in Words
  BY DEF Words
<1>. PICK a : a = <<"top", "Neighbors">> /\ IsTwo(a, "top", "Neighbors")
  BY <1>0, TwoIs, Zenon
<1>. PICK b : b = Neighbors /\ IsTwo(b, "n1", "n2")
  BY <1>0, TwoIs, Zenon DEF Neighbors
<1>. PICK c : c = <<"/", "Routes">> /\ IsTwo(c, "/", "Routes")
  BY <1>0, TwoIs, Zenon
<1>. PICK d : d = Routes /\ IsOne(d, "r1")
  BY <1>0, OneIs, Zenon DEF Routes
<1>. PICK e : e = <<"/", "bottom">> /\ IsTwo(e, "/", "bottom")
  BY <1>0, TwoIs, Zenon
<1>1. Begins(a, 2)
  BY WordsAre DEF Begins, IsTwo
<1>. PICK f : f = a \o b /\ Begins(f, 4)
  <2>1. Begins(a \o b, 2 + 2)
    <3>1. Word(2 + 1) = "n1" /\ Word(2 + 2) = "n2" /\ 2 \in Nat
      BY WordsAre
    <3>. QED
      BY <1>1, <3>1, TwoMore, Zenon
  <2>2. 2 + 2 = 4
    OBVIOUS
  <2>. QED
    BY <2>1, <2>2, Zenon
<1>. PICK g : g = f \o c /\ Begins(g, 6)
  <2>1. Begins(f \o c, 4 + 2)
    <3>1. Word(4 + 1) = "/" /\ Word(4 + 2) = "Routes" /\ 4 \in Nat
      BY WordsAre
    <3>. QED
      BY <3>1, TwoMore, Zenon
  <2>2. 4 + 2 = 6
    OBVIOUS
  <2>. QED
    BY <2>1, <2>2, Zenon
<1>. PICK h : h = g \o d /\ Begins(h, 7)
  <2>1. Begins(g \o d, 6 + 1)
    <3>1. Word(6 + 1) = "r1" /\ 6 \in Nat
      BY WordsAre
    <3>. QED
      BY <3>1, OneMore, Zenon
  <2>2. 6 + 1 = 7
    OBVIOUS
  <2>. QED
    BY <2>1, <2>2, Zenon
<1>2. Begins(h \o e, 9)
  <2>1. Begins(h \o e, 7 + 2)
    <3>1. Word(7 + 1) = "/" /\ Word(7 + 2) = "bottom" /\ 7 \in Nat
      BY WordsAre
    <3>. QED
      BY <3>1, TwoMore, Zenon
  <2>2. 7 + 2 = 9
    OBVIOUS
  <2>. QED
    BY <2>1, <2>2, Zenon
<1>3. WholePage = h \o e
  BY Zenon DEF WholePage
<1>. QED
  BY <1>2, <1>3

LEMMA PageWords == WholePage \in Seq(Words) /\ Len(WholePage) = 9 /\ \A i \in 1 .. 9 : WholePage[i] = Word(i)
<1>1. /\ WholePage \in Seq(Words) /\ Len(WholePage) = 9
      /\ \A i \in Int : 1 <= i /\ i <= 9 => WholePage[i] = Word(i)
  BY PageIs DEF Begins
<1>2. \A i \in 1 .. 9 : i \in Int /\ 1 <= i /\ i <= 9
  OBVIOUS
<1>. QED
  BY <1>1, <1>2, Zenon

LEMMA BetweenIs ==
  ASSUME NEW k \in Nat, NEW m \in Nat, k <= m, m <= 9
  PROVE  /\ Between(k, m) \in Seq(Words) /\ Len(Between(k, m)) = m - k
         /\ \A i \in 1 .. m - k : Between(k, m)[i] = Word(k + i)
<1>. PICK W : W = WholePage
  OBVIOUS
<1>0. W \in Seq(Words) /\ Len(W) = 9 /\ \A i \in 1 .. 9 : W[i] = Word(i)
  BY PageWords
<1>1. k + 1 \in Int /\ m \in Int /\ \A i \in (k + 1) .. m : W[i] \in Words
  <2>1. \A i \in (k + 1) .. m : i \in 1 .. 9
    OBVIOUS
  <2>. QED
    BY <1>0, <2>1, WordsAre
<1>2. /\ SubSeq(W, k + 1, m) \in Seq(Words)
      /\ Len(SubSeq(W, k + 1, m)) = IF k + 1 <= m THEN m - (k + 1) + 1 ELSE 0
      /\ \A i \in 1 .. m - (k + 1) + 1 : SubSeq(W, k + 1, m)[i] = W[k + 1 + i - 1]
  BY <1>1, SubSeqProperties
<1>3. Len(SubSeq(W, k + 1, m)) = m - k
  BY <1>2
<1>4. \A i \in 1 .. m - k : i \in 1 .. m - (k + 1) + 1 /\ k + 1 + i - 1 = k + i /\ k + i \in 1 .. 9
  OBVIOUS
<1>5. \A i \in 1 .. m - k : SubSeq(W, k + 1, m)[i] = Word(k + i)
  BY <1>0, <1>2, <1>4, Zenon
<1>. QED
  BY <1>2, <1>3, <1>5 DEF Between

LEMMA UptoGrows ==
  ASSUME NEW k \in Nat, NEW m \in Nat, k <= m, m <= 9
  PROVE  Upto(k) \o Between(k, m) = Upto(m)
<1>. PICK W : W = WholePage
  OBVIOUS
<1>0. W \in Seq(Words) /\ Len(W) = 9
  BY PageWords
<1>1. 1 \in 1 .. Len(W) + 1 /\ k \in (1 - 1) .. Len(W) /\ m \in k .. Len(W)
  BY <1>0
<1>2. SubSeq(W, 1, k) \o SubSeq(W, k + 1, m) = SubSeq(W, 1, m)
  BY <1>0, <1>1, ConcatAdjacentSubSeq
<1>. QED
  BY <1>2 DEF Upto, Between

LEMMA UptoEnds == Upto(0) = <<>> /\ Upto(9) = WholePage /\ Between(0, 0) = <<>>
<1>. PICK W : W = WholePage
  OBVIOUS
<1>0. W \in Seq(Words) /\ Len(W) = 9
  BY PageWords
<1>1. SubSeq(W, 1, Len(W)) = W
  BY <1>0, SubSeqFull
<1>2. 0 + 1 = 1
  OBVIOUS
<1>3. Between(0, 0) = <<>>
  <2>. PICK b : b = Between(0, 0)
    OBVIOUS
  <2>1. b \in Seq(Words) /\ Len(b) = 0
    BY BetweenIs
  <2>. QED
    BY <2>1
<1>4. Upto(0) = Between(0, 0)
  BY <1>2, Zenon DEF Upto, Between
<1>. QED
  BY <1>0, <1>1, <1>3, <1>4 DEF Upto

\* The segments.
LEMMA OneSegment ==
  ASSUME NEW k \in Nat, k <= 8, NEW x, x = Word(k + 1) PROVE Between(k, k + 1) = <<x>> /\ <<x>> \in Seq(Words)
<1>. PICK b : b = Between(k, k + 1)
  OBVIOUS
<1>1. b \in Seq(Words) /\ Len(b) = 1 /\ b[1] = Word(k + 1)
  <2>1. /\ Between(k, k + 1) \in Seq(Words) /\ Len(Between(k, k + 1)) = (k + 1) - k
        /\ \A i \in 1 .. (k + 1) - k : Between(k, k + 1)[i] = Word(k + i)
    <3>1. k + 1 \in Nat /\ k <= k + 1 /\ k + 1 <= 9
      OBVIOUS
    <3>. QED
      BY <3>1, BetweenIs, Zenon
  <2>2. (k + 1) - k = 1 /\ 1 \in 1 .. 1
    OBVIOUS
  <2>. QED
    BY <2>1, <2>2, Zenon
<1>2. b = <<b[1]>>
  BY <1>1
<1>. QED
  BY <1>1, <1>2, Zenon

LEMMA SegmentsAre ==
  /\ Between(0, 1) = <<"top">> /\ Between(1, 2) = <<"Neighbors">> /\ Between(2, 3) = <<Neighbors[1]>>
  /\ Between(3, 4) = <<Neighbors[2]>> /\ Between(4, 5) = <<"/">> /\ Between(5, 6) = <<"Routes">>
  /\ Between(6, 7) = <<Routes[1]>> /\ Between(7, 8) = <<"/">> /\ Between(8, 9) = <<"bottom">>
<1>1. \A k \in 0 .. 8 : Between(k, k + 1) = <<Word(k + 1)>>
  BY OneSegment
<1>2. /\ 0 + 1 = 1 /\ 1 + 1 = 2 /\ 2 + 1 = 3 /\ 3 + 1 = 4 /\ 4 + 1 = 5 /\ 5 + 1 = 6 /\ 6 + 1 = 7 /\ 7 + 1 = 8 /\ 8 + 1 = 9
      /\ 0 \in 0 .. 8 /\ 1 \in 0 .. 8 /\ 2 \in 0 .. 8 /\ 3 \in 0 .. 8 /\ 4 \in 0 .. 8 /\ 5 \in 0 .. 8 /\ 6 \in 0 .. 8
      /\ 7 \in 0 .. 8 /\ 8 \in 0 .. 8
  OBVIOUS
<1>3. Neighbors[1] = "n1" /\ Neighbors[2] = "n2" /\ Routes[1] = "r1"
  BY DEF Neighbors, Routes
<1>4. Between(0, 1) = <<Word(1)>> /\ Between(1, 2) = <<Word(2)>> /\ Between(2, 3) = <<Word(3)>>
  BY <1>1, <1>2, Zenon
<1>5. Between(3, 4) = <<Word(4)>> /\ Between(4, 5) = <<Word(5)>> /\ Between(5, 6) = <<Word(6)>>
  BY <1>1, <1>2, Zenon
<1>6. Between(6, 7) = <<Word(7)>> /\ Between(7, 8) = <<Word(8)>> /\ Between(8, 9) = <<Word(9)>>
  BY <1>1, <1>2, Zenon
<1>. QED
  BY <1>3, <1>4, <1>5, <1>6, WordsAre, Zenon

\* Two segments in one: of the IP64 router.
LEMMA TwoSegments ==
  ASSUME NEW k \in Nat, NEW l \in Nat, NEW m \in Nat, k <= l, l <= m, m <= 9
  PROVE  Between(k, l) \o Between(l, m) = Between(k, m)
<1>. PICK W : W = WholePage
  OBVIOUS
<1>0. W \in Seq(Words) /\ Len(W) = 9
  BY PageWords
<1>1. k + 1 \in 1 .. Len(W) + 1 /\ l \in ((k + 1) - 1) .. Len(W) /\ m \in l .. Len(W)
  BY <1>0
<1>2. SubSeq(W, k + 1, l) \o SubSeq(W, l + 1, m) = SubSeq(W, k + 1, m)
  BY <1>0, <1>1, ConcatAdjacentSubSeq, Zenon
<1>. QED
  BY <1>2 DEF Between

\* ADD into the buffer from e on: what was before e stays, and from the start nothing stays
\* before it.
LEMMA AddedIs ==
  ASSUME NEW b \in Seq(Words), NEW e \in Nat, e <= Len(b), NEW p \in Seq(Words)
  PROVE  /\ Added(b, e, p) \in Seq(Words) /\ e + Len(p) <= Len(Added(b, e, p))
         /\ e = 0 => SubSeq(Added(b, e, p), 1, e + Len(p)) = p
<1>0. Len(b) \in Nat /\ Len(p) \in Nat /\ \A i \in 1 .. Len(b) : b[i] \in Words
  OBVIOUS
<1>. PICK h : h = SubSeq(b, 1, e)
  BY Zenon
<1>. PICK t : t = SubSeq(b, e + Len(p) + 1, Len(b))
  BY Zenon
<1>1. h \in Seq(Words) /\ Len(h) = e
  <2>1. 1 \in Int /\ e \in Int /\ \A i \in 1 .. e : b[i] \in Words
    BY <1>0
  <2>2. SubSeq(b, 1, e) \in Seq(Words) /\ Len(SubSeq(b, 1, e)) = IF 1 <= e THEN e - 1 + 1 ELSE 0
    BY <2>1, SubSeqProperties
  <2>. QED
    BY <2>2
<1>2. t \in Seq(Words)
  <2>1. e + Len(p) + 1 \in Int /\ Len(b) \in Int /\ \A i \in (e + Len(p) + 1) .. Len(b) : b[i] \in Words
    BY <1>0
  <2>. QED
    BY <2>1, SubSeqProperties
<1>3. Added(b, e, p) = h \o p \o t
  BY DEF Added
<1>4. h \o p \in Seq(Words) /\ Len(h \o p) = e + Len(p)
  BY <1>1
<1>5. (h \o p) \o t \in Seq(Words) /\ e + Len(p) <= Len((h \o p) \o t)
  <2>. PICK g : g = h \o p
    BY Zenon
  <2>1. g \in Seq(Words) /\ Len(g) = e + Len(p)
    BY <1>4
  <2>2. g \o t \in Seq(Words) /\ Len(g \o t) = Len(g) + Len(t) /\ Len(t) \in Nat
    BY <1>2, <2>1, JoinedWords
  <2>3. Len(g) <= Len(g) + Len(t)
    <3>1. \A i, j \in Nat : i <= i + j
      OBVIOUS
    <3>2. Len(g) \in Nat
      BY <2>1
    <3>. QED
      BY <2>2, <3>1, <3>2, Zenon
  <2>4. e + Len(p) <= Len(g \o t)
    BY <2>1, <2>2, <2>3, Zenon
  <2>. QED
    BY <2>2, <2>4, Zenon
<1>6. ASSUME e = 0 PROVE SubSeq(Added(b, e, p), 1, e + Len(p)) = p
  <2>1. h = <<>>
    BY <1>1, <1>6
  <2>2. h \o p = p
    BY <2>1, ConcatEmptySeq, Zenon
  <2>3. Added(b, e, p) = p \o t
    BY <1>3, <2>2, Zenon
  <2>. PICK g : g = p \o t
    BY Zenon
  <2>4. g \in Seq(Words) /\ Len(p) <= Len(g) /\ \A i \in 1 .. Len(p) : g[i] = p[i]
    BY <1>2
  <2>. PICK q : q = SubSeq(g, 1, Len(p))
    OBVIOUS
  <2>5. /\ q \in Seq(Words) /\ Len(q) = Len(p)
        /\ \A i \in 1 .. Len(p) : q[i] = p[i]
    <3>1. 1 \in Int /\ Len(p) \in Int /\ \A i \in 1 .. Len(p) : g[i] \in Words
      BY <2>4
    <3>2. /\ q \in Seq(Words) /\ Len(q) = IF 1 <= Len(p) THEN Len(p) - 1 + 1 ELSE 0
          /\ \A i \in 1 .. Len(p) - 1 + 1 : q[i] = g[1 + i - 1]
      BY <2>4, <3>1, SubSeqProperties
    <3>3. Len(q) = Len(p)
      BY <1>0, <3>2
    <3>4. \A i \in 1 .. Len(p) : i \in 1 .. Len(p) - 1 + 1 /\ 1 + i - 1 = i
      BY <1>0
    <3>. QED
      BY <2>4, <3>2, <3>3, <3>4, Zenon
  <2>6. q = p
    BY <2>5, SeqEqual
  <2>7. e + Len(p) = Len(p)
    BY <1>0, <1>6
  <2>. QED
    BY <2>3, <2>6, <2>7
<1>. QED
  BY <1>3, <1>5, <1>6, Zenon

(***************************************************************************)
(* What is sent, and what follows.                                         *)
(***************************************************************************)

\* c with the segment sent: w of it, if the buffer was empty before.
SentAs(d, c, at, w, e) ==
  /\ IsPage(d)
  /\ d.phase = c.phase /\ d.at = at /\ d.got = c.got
  /\ e = 0 => d.wire = w
  /\ at \notin OutOfBuffer => SubSeq(buf', 1, d.sendlen) = d.wire

IsTransmitted(d, c, at, memory, length) ==
  /\ IsPage(d) /\ d.phase = c.phase /\ d.at = at /\ d.got = c.got
  /\ d.sendlen = length /\ d.wire = SubSeq(memory, 1, length)

LEMMA TransmitsIs ==
  ASSUME NEW c, IsPage(c), NEW at \in Segments, NEW memory, NEW length
  PROVE  IsTransmitted(Transmits(c, at, memory, length), c, at, memory, length)
<1>. PICK L, X : c \in PagesWith(L, X)
  BY DEF IsPage
<1>. PICK w : w = SubSeq(memory, 1, length)
  BY Zenon
<1>. PICK M : M = L \cup {length}
  BY Zenon
<1>. PICK Y : Y = X \cup {w}
  BY Zenon
<1>. PICK d : d = [c EXCEPT !.at = at, !.sendlen = length, !.wire = w]
  OBVIOUS
<1>1. d = Transmits(c, at, memory, length)
  BY DEF Transmits
<1>2. /\ d \in PagesWith(M, Y) /\ d.phase = c.phase /\ d.at = at /\ d.got = c.got /\ d.sendlen = length /\ d.wire = w
  BY Zenon DEF PagesWith
<1>3. IsTransmitted(d, c, at, memory, length)
  BY <1>2, Zenon DEF IsTransmitted, IsPage
<1>. QED
  BY <1>1, <1>3, Zenon

LEMMA ConstantSent ==
  ASSUME NEW s \in Pool, NEW c, IsPage(c), NEW at \in {"top", "bottom"}, SendConstant(s, c, at)
  PROVE  \E d : /\ http' = [http EXCEPT ![s] = d] /\ SentAs(d, c, at, <<at>>, 0)
                /\ buf' = buf /\ blen' = Emptied(c.at)
<1>. PICK m : m = <<at>>
  BY Zenon
<1>. PICK d : d = Transmits(c, at, m, 1)
  OBVIOUS
<1>1. at \in Segments
  BY Zenon DEF Segments
<1>2. IsTransmitted(d, c, at, m, 1)
  BY <1>1, TransmitsIs, Zenon
<1>3. SubSeq(m, 1, 1) = m
  <2>1. at \in Words
    BY DEF Words
  <2>2. m \in Seq(Words) /\ Len(m) = 1
    BY <2>1, OneWord
  <2>3. SubSeq(m, 1, Len(m)) = m
    BY <2>2, SubSeqFull, Zenon
  <2>. QED
    BY <2>2, <2>3
<1>4. at \in OutOfBuffer
  BY DEF OutOfBuffer
<1>5. SentAs(d, c, at, <<at>>, 0)
  BY <1>2, <1>3, <1>4, Zenon DEF SentAs, IsTransmitted
<1>6. http' = [http EXCEPT ![s] = d] /\ buf' = buf /\ blen' = Emptied(c.at)
  BY DEF SendConstant
<1>. QED
  BY <1>5, <1>6, Zenon

LEMMA BufferIsSent ==
  ASSUME NEW s \in Pool, NEW c, IsPage(c), NEW at \in Segments, NEW p \in Seq(Words),
         NEW e \in Nat, e = Emptied(c.at), buf \in Seq(Words), e <= Len(buf), SendBuffer(s, c, at, p)
  PROVE  \E d : /\ http' = [http EXCEPT ![s] = d] /\ SentAs(d, c, at, p, e)
                /\ buf' \in Seq(Words) /\ blen' \in Nat /\ blen' <= Len(buf')
<1>. PICK m : m = Added(buf, e, p)
  OBVIOUS
<1>. PICK l : l = e + Len(p)
  OBVIOUS
<1>. PICK d : d = Transmits(c, at, m, l)
  OBVIOUS
<1>1. buf' = m /\ blen' = l /\ http' = [http EXCEPT ![s] = d]
  BY Zenon DEF SendBuffer
<1>2. m \in Seq(Words) /\ l <= Len(m) /\ (e = 0 => SubSeq(m, 1, l) = p)
  BY AddedIs, Zenon
<1>3. l \in Nat
  OBVIOUS
<1>4. IsTransmitted(d, c, at, m, l)
  BY TransmitsIs, Zenon
<1>5. SentAs(d, c, at, p, e)
  BY <1>1, <1>2, <1>4, Zenon DEF SentAs, IsTransmitted
<1>. QED
  BY <1>1, <1>2, <1>3, <1>5, Zenon

\* The thread goes on from one segment to the next.
SendsConstant(s, c, from, at) == c.at = from /\ SendConstant(s, c, at)
SendsBuffer(s, c, from, at, w) == c.at = from /\ SendBuffer(s, c, at, w)

BorderStep(s, c) ==
  \/ SendsConstant(s, c, "headers", "top") /\ nbr' = nbr /\ route' = route
  \/ SendsBuffer(s, c, "top", "neighbors header", Between(1, 2)) /\ nbr' = nbr /\ route' = route
  \/ SendsBuffer(s, c, "neighbors header", "a neighbor", Between(2, 3)) /\ nbr' = 1 /\ route' = route
  \/ nbr = 1 /\ SendsBuffer(s, c, "a neighbor", "a neighbor", Between(3, 4)) /\ nbr' = 2 /\ route' = route
  \/ nbr # 1 /\ SendsBuffer(s, c, "a neighbor", "neighbors footer", Between(4, 5)) /\ nbr' = 0 /\ route' = route
  \/ SendsBuffer(s, c, "neighbors footer", "routes header", Between(5, 6)) /\ nbr' = nbr /\ route' = route
  \/ SendsBuffer(s, c, "routes header", "a route", Between(6, 7)) /\ nbr' = nbr /\ route' = 1
  \/ SendsBuffer(s, c, "a route", "footer", Between(7, 8)) /\ nbr' = nbr /\ route' = 0
  \/ SendsConstant(s, c, "footer", "bottom") /\ nbr' = nbr /\ route' = route

Ip64Step(s, c) ==
  \/ SendsConstant(s, c, "headers", "top") /\ nbr' = nbr /\ route' = route
  \/ SendsBuffer(s, c, "top", "a neighbor", Between(1, 3)) /\ nbr' = 1 /\ route' = route
  \/ nbr = 1 /\ SendsBuffer(s, c, "a neighbor", "routes header", Between(3, 6)) /\ nbr' = 0 /\ route' = route
  \/ nbr # 1 /\ SendsBuffer(s, c, "a neighbor", "routes header", Between(4, 6)) /\ nbr' = 0 /\ route' = route
  \/ SendsBuffer(s, c, "routes header", "a route", Between(6, 7)) /\ nbr' = nbr /\ route' = 1
  \/ SendsBuffer(s, c, "a route", "footer", Between(7, 8)) /\ nbr' = nbr /\ route' = 0
  \/ SendsConstant(s, c, "footer", "bottom") /\ nbr' = nbr /\ route' = route

LEMMA PointersMove ==
  /\ First(Neighbors) = 1 /\ After(Neighbors, 0) = 0 /\ After(Neighbors, 1) = 2 /\ After(Neighbors, 2) = 0
  /\ First(Routes) = 1 /\ After(Routes, 0) = 0 /\ After(Routes, 1) = 0
<1>1. Neighbors # <<>> /\ Len(Neighbors) = 2 /\ Routes # <<>> /\ Len(Routes) = 1
  BY DEF Neighbors, Routes
<1>. QED
  BY <1>1 DEF First, After, NoPointer

LEMMA BorderSteps ==
  ASSUME NEW s, NEW c, nbr \in {0, 1, 2}, route \in {0, 1}, BorderGoesOn(s, c) PROVE BorderStep(s, c)
<1>. DEFINE n == IF c.at = "neighbors header" THEN First(Neighbors) ELSE After(Neighbors, nbr)
            t == IF c.at = "routes header" THEN First(Routes) ELSE After(Routes, route)
<1>0. NoPointer = 0 /\ 1 # NoPointer /\ 2 # NoPointer
  BY DEF NoPointer
<1>1. CASE c.at = "headers" /\ SendConstant(s, c, "top") /\ UNCHANGED <<nbr, route>>
  BY <1>1, Zenon DEF BorderStep, SendsConstant
<1>2. CASE c.at = "top" /\ SendBuffer(s, c, "neighbors header", <<"Neighbors">>) /\ UNCHANGED <<nbr, route>>
  BY <1>2, SegmentsAre, Zenon DEF BorderStep, SendsBuffer
<1>3. CASE /\ c.at \in {"neighbors header", "a neighbor"} /\ nbr' = n /\ route' = route
           /\ IF n # NoPointer THEN SendBuffer(s, c, "a neighbor", <<Neighbors[n]>>)
              ELSE SendBuffer(s, c, "neighbors footer", <<"/">>)
  <2>1. CASE c.at = "neighbors header"
    <3>1. n = 1
      BY <2>1, PointersMove, Zenon
    <3>a. n # NoPointer
      BY <1>0, <3>1, Zenon
    <3>2. SendBuffer(s, c, "a neighbor", <<Neighbors[1]>>)
      BY <1>3, <3>1, <3>a, Zenon
    <3>. QED
      BY <1>3, <2>1, <3>1, <3>2, SegmentsAre, Zenon DEF BorderStep, SendsBuffer
  <2>2. CASE c.at = "a neighbor" /\ nbr = 1
    <3>1. n = 2
      BY <2>2, PointersMove, Zenon
    <3>a. n # NoPointer
      BY <1>0, <3>1, Zenon
    <3>2. SendBuffer(s, c, "a neighbor", <<Neighbors[2]>>)
      BY <1>3, <3>1, <3>a, Zenon
    <3>. QED
      BY <1>3, <2>2, <3>1, <3>2, SegmentsAre, Zenon DEF BorderStep, SendsBuffer
  <2>3. CASE c.at = "a neighbor" /\ nbr # 1
    <3>1. n = 0
      BY <2>3, PointersMove, Zenon
    <3>a. n = NoPointer
      BY <1>0, <3>1, Zenon
    <3>2. SendBuffer(s, c, "neighbors footer", <<"/">>)
      BY <1>3, <3>1, <3>a, Zenon
    <3>. QED
      BY <1>3, <2>3, <3>1, <3>2, SegmentsAre, Zenon DEF BorderStep, SendsBuffer
  <2>. QED
    BY <1>3, <2>1, <2>2, <2>3, Zenon
<1>4. CASE c.at = "neighbors footer" /\ SendBuffer(s, c, "routes header", <<"Routes">>) /\ UNCHANGED <<nbr, route>>
  BY <1>4, SegmentsAre, Zenon DEF BorderStep, SendsBuffer
<1>5. CASE /\ c.at \in {"routes header", "a route"} /\ route' = t /\ nbr' = nbr
           /\ IF t # NoPointer THEN SendBuffer(s, c, "a route", <<Routes[t]>>)
              ELSE SendBuffer(s, c, "footer", <<"/">>)
  <2>1. CASE c.at = "routes header"
    <3>1. t = 1
      BY <2>1, PointersMove, Zenon
    <3>a. t # NoPointer
      BY <1>0, <3>1, Zenon
    <3>2. SendBuffer(s, c, "a route", <<Routes[1]>>)
      BY <1>5, <3>1, <3>a, Zenon
    <3>. QED
      BY <1>5, <2>1, <3>1, <3>2, SegmentsAre, Zenon DEF BorderStep, SendsBuffer
  <2>2. CASE c.at = "a route"
    <3>1. t = 0
      BY <2>2, PointersMove, Zenon
    <3>a. t = NoPointer
      BY <1>0, <3>1, Zenon
    <3>2. SendBuffer(s, c, "footer", <<"/">>)
      BY <1>5, <3>1, <3>a, Zenon
    <3>. QED
      BY <1>5, <2>2, <3>1, <3>2, SegmentsAre, Zenon DEF BorderStep, SendsBuffer
  <2>. QED
    BY <1>5, <2>1, <2>2, Zenon
<1>6. CASE c.at = "footer" /\ SendConstant(s, c, "bottom") /\ UNCHANGED <<nbr, route>>
  BY <1>6, Zenon DEF BorderStep, SendsConstant
<1>. QED
  BY <1>1, <1>2, <1>3, <1>4, <1>5, <1>6, Zenon DEF BorderGoesOn

\* The buffer of the IP64 router is empty when neighbors are added.
LEMMA Ip64Emptied == ASSUME router = "ip64" PROVE Emptied("top") = 0 /\ Emptied("a neighbor") = 0
  BY DEF Emptied

LEMMA ThreeJoined ==
  /\ Between(1, 2) \o Between(2, 3) = Between(1, 3)
  /\ Between(3, 4) \o (Between(4, 5) \o Between(5, 6)) = Between(3, 6)
  /\ Between(4, 5) \o Between(5, 6) = Between(4, 6)
<1>1. \A k, l, m \in Nat : k <= l /\ l <= m /\ m <= 9 => Between(k, l) \o Between(l, m) = Between(k, m)
  BY TwoSegments, Zenon
<1>2. 1 \in Nat /\ 2 \in Nat /\ 3 \in Nat /\ 4 \in Nat /\ 5 \in Nat /\ 6 \in Nat
  OBVIOUS
<1>3. 1 <= 2 /\ 2 <= 3 /\ 3 <= 4 /\ 4 <= 5 /\ 5 <= 6 /\ 4 <= 6 /\ 3 <= 9 /\ 6 <= 9
  OBVIOUS
<1>. QED
  <2>1. Between(1, 2) \o Between(2, 3) = Between(1, 3)
    BY <1>1, <1>2, <1>3, Zenon
  <2>2. Between(4, 5) \o Between(5, 6) = Between(4, 6)
    BY <1>1, <1>2, <1>3, Zenon
  <2>3. Between(3, 4) \o Between(4, 6) = Between(3, 6)
    BY <1>1, <1>2, <1>3, Zenon
  <2>. QED
    BY <2>1, <2>2, <2>3, Zenon

LEMMA SingleIs == ASSUME NEW q \in Seq(Words), Len(q) = 1 PROVE q = <<q[1]>>
  OBVIOUS

LEMMA NeighborsAre ==
  /\ Neighbors \in Seq(Words) /\ Len(Neighbors) = 2
  /\ SubSeq(Neighbors, 1, 2) = Neighbors
  /\ SubSeq(Neighbors, 1, 1) = <<Neighbors[1]>> /\ SubSeq(Neighbors, 2, 2) = <<Neighbors[2]>>
<1>. PICK N : N = Neighbors
  OBVIOUS
<1>0. "n1" \in Words /\ "n2" \in Words
  BY DEF Words
<1>1. IsTwo(N, "n1", "n2")
  BY <1>0, TwoIs, Zenon DEF Neighbors
<1>2. N \in Seq(Words) /\ Len(N) = 2 /\ N[1] \in Words /\ N[2] \in Words
  BY <1>0, <1>1 DEF IsTwo
<1>3. SubSeq(N, 1, 2) = N
  <2>1. SubSeq(N, 1, Len(N)) = N
    BY <1>2, SubSeqFull
  <2>. QED
    BY <1>2, <2>1, Zenon
<1>4. \A i \in {1, 2} : SubSeq(N, i, i) = <<N[i]>>
  <2> SUFFICES ASSUME NEW i \in {1, 2} PROVE SubSeq(N, i, i) = <<N[i]>>
    OBVIOUS
  <2>1. i \in Int /\ \A j \in i .. i : N[j] \in Words
    BY <1>2
  <2>. PICK q : q = SubSeq(N, i, i)
    BY Zenon
  <2>0. /\ SubSeq(N, i, i) \in Seq(Words) /\ Len(SubSeq(N, i, i)) = IF i <= i THEN i - i + 1 ELSE 0
        /\ \A j \in 1 .. i - i + 1 : SubSeq(N, i, i)[j] = N[i + j - 1]
    BY <2>1, SubSeqProperties, Z3T(60)
  <2>2. /\ q \in Seq(Words) /\ Len(q) = IF i <= i THEN i - i + 1 ELSE 0
        /\ \A j \in 1 .. i - i + 1 : q[j] = N[i + j - 1]
    BY <2>0, Zenon
  <2>3. Len(q) = 1 /\ q[1] = N[i]
    <3>1. i <= i /\ i - i + 1 = 1 /\ i + 1 - 1 = i /\ 1 \in 1 .. 1
      BY <2>1
    <3>. QED
      BY <2>2, <3>1, Zenon
  <2>4. q = <<q[1]>>
    BY <2>2, <2>3, SingleIs, Zenon
  <2>. QED
    BY <2>3, <2>4, Zenon
<1>5. 1 \in {1, 2} /\ 2 \in {1, 2}
  OBVIOUS
<1>. QED
  BY <1>2, <1>3, <1>4, <1>5, Zenon

LEMMA HeaderIs == <<"/", "Routes">> = Between(4, 6)
<1>0. "/" \in Words /\ "Routes" \in Words
  BY DEF Words
<1>. PICK a : a = <<"/", "Routes">>
  BY Zenon
<1>1. a \in Seq(Words) /\ Len(a) = 2 /\ a[1] = "/" /\ a[2] = "Routes"
  BY <1>0, TwoWords, Zenon
<1>. PICK b : b = Between(4, 6)
  OBVIOUS
<1>2. b \in Seq(Words) /\ Len(b) = 2 /\ b[1] = Word(5) /\ b[2] = Word(6)
  <2>1. /\ Between(4, 6) \in Seq(Words) /\ Len(Between(4, 6)) = 6 - 4
        /\ \A i \in 1 .. 6 - 4 : Between(4, 6)[i] = Word(4 + i)
    <3>1. 4 \in Nat /\ 6 \in Nat /\ 4 <= 6 /\ 6 <= 9
      OBVIOUS
    <3>. QED
      BY <3>1, BetweenIs, Zenon
  <2>2. 6 - 4 = 2 /\ 4 + 1 = 5 /\ 4 + 2 = 6 /\ 1 \in 1 .. 2 /\ 2 \in 1 .. 2
    OBVIOUS
  <2>. QED
    BY <2>1, <2>2, Zenon
<1>3. a[1] = b[1] /\ a[2] = b[2]
  BY <1>1, <1>2, WordsAre, Zenon
<1>4. \A i \in 1 .. Len(a) : a[i] = b[i]
  <2>1. \A i \in 1 .. Len(a) : i = 1 \/ i = 2
    BY <1>1
  <2>. QED
    BY <1>3, <2>1, Zenon
<1>5. a = b
  BY <1>1, <1>2, <1>4, SeqEqual
<1>. QED
  BY <1>5

\* What the IP64 router adds, given how much room it has.
LEMMA NeighborsAdded ==
  ASSUME NEW s, NEW c, NEW before, NEW from, NEW left, NEW part, NEW space \in Int, NEW fit \in Int,
         Ip64Neighbors(s, c, before, from),
         left = IF from = NoPointer THEN <<>> ELSE SubSeq(Neighbors, from, Len(Neighbors)),
         space = IsFull - Emptied(c.at) - Len(before),
         fit = IF space > 1 THEN space ELSE 1,
         part = SubSeq(left, 1, IF fit < Len(left) THEN fit ELSE Len(left))
  PROVE  IF left # <<>> /\ Emptied(c.at) + Len(before) + Len(part) >= IsFull
         THEN SendBuffer(s, c, "a neighbor", before \o part) /\ nbr' = from + Len(part) - 1
         ELSE SendBuffer(s, c, "routes header", before \o left \o <<"/", "Routes">>) /\ nbr' = NoPointer
  BY Zenon DEF Ip64Neighbors

LEMMA FirstNeighbors ==
  ASSUME NEW s, NEW c, router = "ip64", c.at = "top", Ip64Neighbors(s, c, <<"Neighbors">>, First(Neighbors))
  PROVE  SendBuffer(s, c, "a neighbor", Between(1, 3)) /\ nbr' = 1
<1>. PICK before : before = <<"Neighbors">>
  OBVIOUS
<1>. PICK l : l = <<Neighbors[1]>>
  BY Zenon
<1>0. "Neighbors" \in Words /\ Neighbors[1] \in Words
  BY DEF Words, Neighbors
<1>1. Len(before) = 1 /\ Len(l) = 1
  BY <1>0, OneWord, Zenon
<1>2. Emptied(c.at) = 0 /\ First(Neighbors) = 1 /\ 1 # NoPointer /\ IsFull = 2 /\ NoPointer = 0
  <2>1. 1 # 0
    OBVIOUS
  <2>. QED
    BY <2>1, Ip64Emptied, PointersMove, Zenon DEF NoPointer, IsFull
<1>3. Ip64Neighbors(s, c, before, 1)
  BY <1>2, Zenon
<1>4. Neighbors = IF 1 = NoPointer THEN <<>> ELSE SubSeq(Neighbors, 1, Len(Neighbors))
  BY <1>2, NeighborsAre, Zenon
<1>5. 1 = IsFull - Emptied(c.at) - Len(before) /\ 1 = IF 1 > 1 THEN 1 ELSE 1
  BY <1>1, <1>2
<1>6. l = SubSeq(Neighbors, 1, IF 1 < Len(Neighbors) THEN 1 ELSE Len(Neighbors))
  <2>1. 1 < 2
    OBVIOUS
  <2>. QED
    BY <2>1, NeighborsAre, Zenon
<1>7. Neighbors # <<>> /\ Emptied(c.at) + Len(before) + Len(l) >= IsFull
  <2>1. Neighbors # <<>>
    BY DEF Neighbors
  <2>. QED
    BY <1>1, <1>2, <2>1
<1>8. SendBuffer(s, c, "a neighbor", before \o l) /\ nbr' = 1 + Len(l) - 1
  <2>1. 1 \in Int
    OBVIOUS
  <2>. QED
    BY <1>3, <1>4, <1>5, <1>6, <1>7, <2>1, NeighborsAdded, ZenonT(100)
<1>9. before \o l = Between(1, 3)
  BY SegmentsAre, ThreeJoined, Zenon
<1>10. 1 + 1 - 1 = 1
  OBVIOUS
<1>. QED
  BY <1>1, <1>8, <1>9, <1>10, Zenon

IsNone(l) == l = <<>>

LEMMA NoneIs == ASSUME NEW l, IsNone(l), NEW p \in Seq(Words) PROVE l \in Seq(Words) /\ Len(l) = 0 /\ l \o p = p
  BY ConcatEmptySeq DEF IsNone

LEMMA SmallNumbers ==
  /\ 2 # 0 /\ 4 - 3 = 1 /\ 2 - 0 - 0 = 2 /\ 2 > 1 /\ 2 \in Int /\ 0 # 2
  /\ \A k : k = 0 \/ k = 1 => ~ (0 + 0 + k >= 2) /\ ~ (2 < k)
  /\ 3 \in Nat /\ 4 \in Nat /\ 6 \in Nat /\ 3 <= 4 /\ 4 <= 9 /\ 4 <= 6 /\ 6 <= 9
  OBVIOUS

\* The neighbors that are left: one, or none.
LeftFrom(from) == IF from = NoPointer THEN <<>> ELSE SubSeq(Neighbors, from, Len(Neighbors))

LEMMA LeftIs ==
  ASSUME NEW from \in {0, 2}
  PROVE  /\ LeftFrom(from) \in Seq(Words) /\ (Len(LeftFrom(from)) = 0 \/ Len(LeftFrom(from)) = 1)
         /\ from = 0 => IsNone(LeftFrom(from))
         /\ from = 2 => LeftFrom(from) = Between(3, 4)
<1>1. CASE from = 0
  <2>1. LeftFrom(from) = <<>>
    BY <1>1, Zenon DEF LeftFrom, NoPointer
  <2>2. <<>> \in Seq(Words) /\ Len(<<>>) = 0
    OBVIOUS
  <2>3. from # 2
    BY <1>1
  <2>. QED
    BY <2>1, <2>2, <2>3, Zenon DEF IsNone
<1>2. CASE from = 2
  <2>1. from # 0
    BY <1>2
  <2>2. LeftFrom(from) = Between(3, 4)
    BY <1>2, <2>1, NeighborsAre, SegmentsAre, Zenon DEF LeftFrom, NoPointer
  <2>3. Between(3, 4) \in Seq(Words) /\ Len(Between(3, 4)) = 4 - 3
    BY SmallNumbers, BetweenIs, Zenon
  <2>. QED
    BY <2>1, <2>2, <2>3, SmallNumbers, Zenon
<1>. QED
  BY <1>1, <1>2

LEMMA MoreNeighbors ==
  ASSUME NEW s, NEW c, NEW from \in {0, 2}, router = "ip64", c.at = "a neighbor", NEW before, IsNone(before),
         Ip64Neighbors(s, c, before, from)
  PROVE  /\ SendBuffer(s, c, "routes header", IF from = 2 THEN Between(3, 6) ELSE Between(4, 6))
         /\ nbr' = 0
<1>. DEFINE left == LeftFrom(from)
            part == SubSeq(left, 1, IF 2 < Len(left) THEN 2 ELSE Len(left))
<1>1. Len(before) = 0
  BY NoneIs, LeftIs, Zenon
<1>2. Emptied(c.at) = 0 /\ IsFull = 2 /\ NoPointer = 0
  BY Ip64Emptied, Zenon DEF NoPointer, IsFull
<1>3. left \in Seq(Words) /\ (Len(left) = 0 \/ Len(left) = 1)
  BY LeftIs, Zenon
<1>5. part = left
  <2>1. ~ (2 < Len(left))
    BY <1>3, SmallNumbers, Zenon
  <2>2. part = SubSeq(left, 1, Len(left))
    BY <2>1, Zenon
  <2>3. SubSeq(left, 1, Len(left)) = left
    BY <1>3, SubSeqFull, Zenon
  <2>. QED
    BY <2>2, <2>3, Zenon
<1>6. 2 = IsFull - Emptied(c.at) - Len(before) /\ 2 = IF 2 > 1 THEN 2 ELSE 1
  BY <1>1, <1>2, SmallNumbers, Zenon
<1>7. ~ (Emptied(c.at) + Len(before) + Len(part) >= IsFull)
  <2>1. Len(part) = 0 \/ Len(part) = 1
    BY <1>3, <1>5, Zenon
  <2>. QED
    BY <1>1, <1>2, <2>1, SmallNumbers, Zenon
<1>8. SendBuffer(s, c, "routes header", before \o left \o <<"/", "Routes">>) /\ nbr' = NoPointer
  <2>1. left = IF from = NoPointer THEN <<>> ELSE SubSeq(Neighbors, from, Len(Neighbors))
    BY Zenon DEF LeftFrom
  <2>. QED
    BY <1>6, <1>7, <2>1, SmallNumbers, NeighborsAdded, Zenon
<1>9. before \o left = left
  BY <1>3, NoneIs, Zenon
<1>10. from = 2 => before \o left \o <<"/", "Routes">> = Between(3, 6)
  <2>1. Between(3, 4) \o Between(4, 6) = Between(3, 6)
    BY ThreeJoined, Zenon
  <2>. QED
    BY <1>9, <2>1, LeftIs, HeaderIs, Zenon
<1>11. from = 0 => before \o left \o <<"/", "Routes">> = Between(4, 6)
  <2>1. Between(4, 6) \in Seq(Words)
    BY SmallNumbers, BetweenIs, Zenon
  <2>2. from = 0 => left \o Between(4, 6) = Between(4, 6)
    BY <2>1, LeftIs, NoneIs, Zenon
  <2>. QED
    BY <1>9, <2>2, HeaderIs, Zenon
<1>12. from = 0 \/ from = 2
  BY Zenon
<1>13. CASE from = 0
  BY <1>2, <1>8, <1>11, <1>13, SmallNumbers, Zenon
<1>14. CASE from = 2
  BY <1>2, <1>8, <1>10, <1>14, SmallNumbers, Zenon
<1>. QED
  BY <1>12, <1>13, <1>14, Zenon

LEMMA Ip64Steps ==
  ASSUME NEW s, NEW c, router = "ip64", nbr \in {0, 1, 2}, route \in {0, 1}, Ip64GoesOn(s, c) PROVE Ip64Step(s, c)
<1>. DEFINE t == IF c.at = "routes header" THEN First(Routes) ELSE After(Routes, route)
<1>0. NoPointer = 0 /\ 1 # NoPointer /\ 2 # NoPointer
  BY DEF NoPointer
<1>1. CASE c.at = "headers" /\ SendConstant(s, c, "top") /\ UNCHANGED <<nbr, route>>
  BY <1>1, Zenon DEF Ip64Step, SendsConstant
<1>2. CASE c.at = "top" /\ Ip64Neighbors(s, c, <<"Neighbors">>, First(Neighbors)) /\ route' = route
  <2>1. SendBuffer(s, c, "a neighbor", Between(1, 3)) /\ nbr' = 1
    BY <1>2, FirstNeighbors, Zenon
  <2>. QED
    BY <1>2, <2>1, Zenon DEF Ip64Step, SendsBuffer
<1>3. CASE c.at = "a neighbor" /\ Ip64Neighbors(s, c, <<>>, After(Neighbors, nbr)) /\ route' = route
  <2>. PICK f : f = After(Neighbors, nbr)
    OBVIOUS
  <2>1. f \in {0, 2} /\ (nbr = 1 <=> f = 2)
    BY PointersMove
  <2>2. SendBuffer(s, c, "routes header", IF f = 2 THEN Between(3, 6) ELSE Between(4, 6)) /\ nbr' = 0
    <3>1. IsNone(<<>>)
      BY DEF IsNone
    <3>2. Ip64Neighbors(s, c, <<>>, f) /\ c.at = "a neighbor"
      BY <1>3, Zenon
    <3>. QED
      BY <2>1, <3>1, <3>2, MoreNeighbors, Zenon
  <2>3. CASE nbr = 1
    <3>1. SendBuffer(s, c, "routes header", Between(3, 6))
      BY <2>1, <2>2, <2>3, Zenon
    <3>. QED
      BY <1>3, <2>2, <2>3, <3>1, Zenon DEF Ip64Step, SendsBuffer
  <2>4. CASE nbr # 1
    <3>1. SendBuffer(s, c, "routes header", Between(4, 6))
      BY <2>1, <2>2, <2>4, Zenon
    <3>. QED
      BY <1>3, <2>2, <2>4, <3>1, Zenon DEF Ip64Step, SendsBuffer
  <2>. QED
    BY <2>3, <2>4
<1>5. CASE /\ c.at \in {"routes header", "a route"} /\ route' = t /\ nbr' = nbr
           /\ IF t # NoPointer THEN SendBuffer(s, c, "a route", <<Routes[t]>>)
              ELSE SendBuffer(s, c, "footer", <<"/">>)
  <2>1. CASE c.at = "routes header"
    <3>1. t = 1
      BY <2>1, PointersMove, Zenon
    <3>2. SendBuffer(s, c, "a route", <<Routes[1]>>)
      BY <1>0, <1>5, <3>1, Zenon
    <3>. QED
      BY <1>5, <2>1, <3>1, <3>2, SegmentsAre, Zenon DEF Ip64Step, SendsBuffer
  <2>2. CASE c.at = "a route"
    <3>1. t = 0
      BY <2>2, PointersMove, Zenon
    <3>2. SendBuffer(s, c, "footer", <<"/">>)
      BY <1>0, <1>5, <3>1, Zenon
    <3>. QED
      BY <1>5, <2>2, <3>1, <3>2, SegmentsAre, Zenon DEF Ip64Step, SendsBuffer
  <2>. QED
    BY <1>5, <2>1, <2>2, Zenon
<1>6. CASE c.at = "footer" /\ SendConstant(s, c, "bottom") /\ UNCHANGED <<nbr, route>>
  BY <1>6, Zenon DEF Ip64Step, SendsConstant
<1>. QED
  BY <1>1, <1>2, <1>3, <1>5, <1>6, Zenon DEF Ip64GoesOn

LeadsTo(from, at, a, b) ==
  \A k, m \in 0 .. 9 : InPlace(from, k, m) => m = a /\ Places(router, nbr', route', at, a, b)

\* The segments with what they hold of the page.
Puts(s, c, at, w) ==
  \/ c.at = "headers" /\ at = "top" /\ w = <<at>> /\ SendConstant(s, c, at)
  \/ c.at = "footer" /\ at = "bottom" /\ w = <<at>> /\ SendConstant(s, c, at)
  \/ c.at \notin {"headers", "footer"} /\ at \in Segments \ OutOfBuffer /\ SendBuffer(s, c, at, w)

StepsOn(s, c, at, a, b) ==
  /\ a \in Nat /\ b \in Nat /\ a <= b /\ b <= 9 /\ Puts(s, c, at, Between(a, b)) /\ LeadsTo(c.at, at, a, b)
  /\ nbr' \in {0, 1, 2} /\ route' \in {0, 1}

IsConstant(from, at) == (from = "headers" /\ at = "top") \/ (from = "footer" /\ at = "bottom")
FromBuffer(from, at) == from \notin {"headers", "footer"} /\ at \in Segments \ OutOfBuffer

\* A step of the page's thread, by where it comes from.
LEMMA ConstantSteps ==
  ASSUME NEW s, NEW c, NEW from, NEW at, SendsConstant(s, c, from, at), NEW a \in Nat, NEW b \in Nat, a <= b, b <= 9,
         nbr' \in {0, 1, 2}, route' \in {0, 1}, LeadsTo(from, at, a, b),
         IsConstant(from, at), Between(a, b) = <<at>>
  PROVE  StepsOn(s, c, at, a, b)
  BY Zenon DEF IsConstant, StepsOn, Puts, SendsConstant

LEMMA BufferSteps ==
  ASSUME NEW s, NEW c, NEW from, NEW at, NEW a \in Nat, NEW b \in Nat, a <= b, b <= 9,
         SendsBuffer(s, c, from, at, Between(a, b)), nbr' \in {0, 1, 2}, route' \in {0, 1}, LeadsTo(from, at, a, b),
         FromBuffer(from, at)
  PROVE  StepsOn(s, c, at, a, b)
  BY Zenon DEF FromBuffer, StepsOn, Puts, SendsBuffer

LEMMA BorderStepsOn ==
  ASSUME NEW s, NEW c, router = "border", nbr \in {0, 1, 2}, route \in {0, 1}, BorderStep(s, c)
  PROVE  \E at, a, b : StepsOn(s, c, at, a, b)
<1>0. /\ 0 <= 1 /\ 1 <= 2 /\ 2 <= 3 /\ 3 <= 4 /\ 4 <= 5 /\ 5 <= 6 /\ 6 <= 7 /\ 7 <= 8 /\ 8 <= 9
      /\ 1 <= 9 /\ 2 <= 9 /\ 3 <= 9 /\ 4 <= 9 /\ 5 <= 9 /\ 6 <= 9 /\ 7 <= 9 /\ 9 <= 9
      /\ 0 \in Nat /\ 1 \in Nat /\ 2 \in Nat /\ 3 \in Nat /\ 4 \in Nat /\ 5 \in Nat /\ 6 \in Nat /\ 7 \in Nat
      /\ 8 \in Nat /\ 9 \in Nat
  OBVIOUS
<1>n. nbr' \in {0, 1, 2} /\ route' \in {0, 1}
  BY Zenon DEF BorderStep
<1>s. /\ FromBuffer("top", "neighbors header") /\ FromBuffer("neighbors header", "a neighbor")
      /\ FromBuffer("a neighbor", "a neighbor") /\ FromBuffer("a neighbor", "neighbors footer")
      /\ FromBuffer("neighbors footer", "routes header") /\ FromBuffer("routes header", "a route")
      /\ FromBuffer("a route", "footer") /\ IsConstant("headers", "top") /\ IsConstant("footer", "bottom")
  BY DEF FromBuffer, IsConstant, Segments, OutOfBuffer
<1>1. CASE SendsConstant(s, c, "headers", "top")
  <2>1. LeadsTo("headers", "top", 0, 1)
    BY DEF LeadsTo, InPlace, Places
  <2>. QED
    BY <1>0, <1>1, <1>n, <1>s, <2>1, SegmentsAre, ConstantSteps, Zenon
<1>2. CASE SendsBuffer(s, c, "top", "neighbors header", Between(1, 2))
  <2>1. LeadsTo("top", "neighbors header", 1, 2)
    BY DEF LeadsTo, InPlace, Places
  <2>2. StepsOn(s, c, "neighbors header", 1, 2)
    BY <1>0, <1>2, <1>n, <1>s, <2>1, BufferSteps, Zenon
  <2>. QED
    BY <2>2, Zenon
<1>3. CASE SendsBuffer(s, c, "neighbors header", "a neighbor", Between(2, 3)) /\ nbr' = 1
  <2>1. LeadsTo("neighbors header", "a neighbor", 2, 3)
    BY <1>3, ZenonT(100) DEF LeadsTo, InPlace, Places
  <2>2. StepsOn(s, c, "a neighbor", 2, 3)
    BY <1>0, <1>3, <1>n, <1>s, <2>1, BufferSteps, Zenon
  <2>. QED
    BY <2>2, Zenon
<1>4. CASE nbr = 1 /\ SendsBuffer(s, c, "a neighbor", "a neighbor", Between(3, 4)) /\ nbr' = 2
  <2>1. LeadsTo("a neighbor", "a neighbor", 3, 4)
    BY <1>4, ZenonT(100) DEF LeadsTo, InPlace, Places
  <2>2. StepsOn(s, c, "a neighbor", 3, 4)
    BY <1>0, <1>4, <1>n, <1>s, <2>1, BufferSteps, Zenon
  <2>. QED
    BY <2>2, Zenon
<1>5. CASE nbr # 1 /\ SendsBuffer(s, c, "a neighbor", "neighbors footer", Between(4, 5))
  <2>1. LeadsTo("a neighbor", "neighbors footer", 4, 5)
    BY <1>5, ZenonT(100) DEF LeadsTo, InPlace, Places
  <2>2. StepsOn(s, c, "neighbors footer", 4, 5)
    BY <1>0, <1>5, <1>n, <1>s, <2>1, BufferSteps, Zenon
  <2>. QED
    BY <2>2, Zenon
<1>6. CASE SendsBuffer(s, c, "neighbors footer", "routes header", Between(5, 6))
  <2>1. LeadsTo("neighbors footer", "routes header", 5, 6)
    BY <1>6, ZenonT(100) DEF LeadsTo, InPlace, Places
  <2>2. StepsOn(s, c, "routes header", 5, 6)
    BY <1>0, <1>6, <1>n, <1>s, <2>1, BufferSteps, Zenon
  <2>. QED
    BY <2>2, Zenon
<1>7. CASE SendsBuffer(s, c, "routes header", "a route", Between(6, 7)) /\ route' = 1
  <2>1. LeadsTo("routes header", "a route", 6, 7)
    BY <1>7, ZenonT(100) DEF LeadsTo, InPlace, Places
  <2>2. StepsOn(s, c, "a route", 6, 7)
    BY <1>0, <1>7, <1>n, <1>s, <2>1, BufferSteps, Zenon
  <2>. QED
    BY <2>2, Zenon
<1>8. CASE SendsBuffer(s, c, "a route", "footer", Between(7, 8))
  <2>1. LeadsTo("a route", "footer", 7, 8)
    BY <1>8, ZenonT(100) DEF LeadsTo, InPlace, Places
  <2>2. StepsOn(s, c, "footer", 7, 8)
    BY <1>0, <1>8, <1>n, <1>s, <2>1, BufferSteps, Zenon
  <2>. QED
    BY <2>2
<1>9. CASE SendsConstant(s, c, "footer", "bottom")
  <2>1. LeadsTo("footer", "bottom", 8, 9)
    BY DEF LeadsTo, InPlace, Places
  <2>. QED
    BY <1>0, <1>9, <1>n, <1>s, <2>1, SegmentsAre, ConstantSteps, ZenonT(100)
<1>. QED
  BY <1>1, <1>2, <1>3, <1>4, <1>5, <1>6, <1>7, <1>8, <1>9, Zenon DEF BorderStep

LEMMA Ip64StepsOn ==
  ASSUME NEW s, NEW c, router = "ip64", nbr \in {0, 1, 2}, route \in {0, 1}, Ip64Step(s, c)
  PROVE  \E at, a, b : StepsOn(s, c, at, a, b)
<1>0. /\ 0 <= 1 /\ 1 <= 3 /\ 3 <= 6 /\ 4 <= 6 /\ 6 <= 7 /\ 7 <= 8 /\ 8 <= 9
      /\ 1 <= 9 /\ 3 <= 9 /\ 6 <= 9 /\ 7 <= 9 /\ 9 <= 9
      /\ 0 \in Nat /\ 1 \in Nat /\ 3 \in Nat /\ 4 \in Nat /\ 6 \in Nat /\ 7 \in Nat /\ 8 \in Nat /\ 9 \in Nat
  OBVIOUS
<1>n. nbr' \in {0, 1, 2} /\ route' \in {0, 1}
  BY Zenon DEF Ip64Step
<1>s. /\ FromBuffer("top", "a neighbor") /\ FromBuffer("a neighbor", "routes header")
      /\ FromBuffer("routes header", "a route") /\ FromBuffer("a route", "footer")
      /\ IsConstant("headers", "top") /\ IsConstant("footer", "bottom")
  BY DEF FromBuffer, IsConstant, Segments, OutOfBuffer
<1>1. CASE SendsConstant(s, c, "headers", "top")
  <2>1. LeadsTo("headers", "top", 0, 1)
    BY DEF LeadsTo, InPlace, Places
  <2>. QED
    BY <1>0, <1>1, <1>n, <1>s, <2>1, SegmentsAre, ConstantSteps, Zenon
<1>2. CASE SendsBuffer(s, c, "top", "a neighbor", Between(1, 3)) /\ nbr' = 1
  <2>1. LeadsTo("top", "a neighbor", 1, 3)
    BY <1>2, ZenonT(100) DEF LeadsTo, InPlace, Places
  <2>2. StepsOn(s, c, "a neighbor", 1, 3)
    BY <1>0, <1>2, <1>n, <1>s, <2>1, BufferSteps, Zenon
  <2>. QED
    BY <2>2, Zenon
<1>3. CASE nbr = 1 /\ SendsBuffer(s, c, "a neighbor", "routes header", Between(3, 6))
  <2>1. LeadsTo("a neighbor", "routes header", 3, 6)
    BY <1>3, ZenonT(100) DEF LeadsTo, InPlace, Places
  <2>2. StepsOn(s, c, "routes header", 3, 6)
    BY <1>0, <1>3, <1>n, <1>s, <2>1, BufferSteps, Zenon
  <2>. QED
    BY <2>2, Zenon
<1>4. CASE nbr # 1 /\ SendsBuffer(s, c, "a neighbor", "routes header", Between(4, 6))
  <2>1. LeadsTo("a neighbor", "routes header", 4, 6)
    BY <1>4, ZenonT(100) DEF LeadsTo, InPlace, Places
  <2>2. StepsOn(s, c, "routes header", 4, 6)
    BY <1>0, <1>4, <1>n, <1>s, <2>1, BufferSteps, Zenon
  <2>. QED
    BY <2>2, Zenon
<1>7. CASE SendsBuffer(s, c, "routes header", "a route", Between(6, 7)) /\ route' = 1
  <2>1. LeadsTo("routes header", "a route", 6, 7)
    BY <1>7, ZenonT(100) DEF LeadsTo, InPlace, Places
  <2>2. StepsOn(s, c, "a route", 6, 7)
    BY <1>0, <1>7, <1>n, <1>s, <2>1, BufferSteps, Zenon
  <2>. QED
    BY <2>2, Zenon
<1>8. CASE SendsBuffer(s, c, "a route", "footer", Between(7, 8))
  <2>1. LeadsTo("a route", "footer", 7, 8)
    BY <1>8, ZenonT(100) DEF LeadsTo, InPlace, Places
  <2>2. StepsOn(s, c, "footer", 7, 8)
    BY <1>0, <1>8, <1>n, <1>s, <2>1, BufferSteps, Zenon
  <2>. QED
    BY <2>2
<1>9. CASE SendsConstant(s, c, "footer", "bottom")
  <2>1. LeadsTo("footer", "bottom", 8, 9)
    BY DEF LeadsTo, InPlace, Places
  <2>. QED
    BY <1>0, <1>9, <1>n, <1>s, <2>1, SegmentsAre, ConstantSteps, ZenonT(100)
<1>. QED
  BY <1>1, <1>2, <1>3, <1>4, <1>7, <1>8, <1>9, Zenon DEF Ip64Step

LEMMA EmptiedIs ==
  ASSUME NEW at PROVE Emptied(at) = 0 \/ Emptied(at) = blen
  BY DEF Emptied

LEMMA EmptiedEnds ==
  /\ Emptied("headers") = blen
  /\ router = "border" => Emptied("footer") = 0
  /\ router = "ip64" => Emptied("top") = 0
  /\ \A at : at \notin {"headers", "top", "footer", "bottom"} => Emptied(at) = 0
  /\ router = "border" => Emptied("top") = blen
  BY DEF Emptied

BufferKept == buf' \in Seq(Words) /\ blen' \in Nat /\ blen' <= Len(buf')

\* d is c with its next segment sent.
SegmentSent(d, c, at, w) ==
  /\ IsPage(d) /\ d.phase = c.phase /\ d.at = at /\ d.got = c.got
  /\ (Emptied(c.at) = 0 \/ at \in OutOfBuffer) => d.wire = w
  /\ at \notin OutOfBuffer => SubSeq(buf', 1, d.sendlen) = d.wire
  /\ at \in OutOfBuffer => blen' = Emptied(c.at) /\ (c.at = "headers" \/ (c.at = "footer" /\ at = "bottom"))

LEMMA SegmentIsSent ==
  ASSUME BufferInv, NEW s \in Pool, NEW c, IsPage(c), NEW at, NEW w \in Seq(Words), Puts(s, c, at, w)
  PROVE  BufferKept /\ \E d : http' = [http EXCEPT ![s] = d] /\ SegmentSent(d, c, at, w)
<1>. PICK e : e = Emptied(c.at)
  OBVIOUS
<1>1. blen \in Nat /\ blen <= Len(buf) /\ buf \in Seq(Words)
  BY DEF BufferInv
<1>2. e = 0 \/ e = blen
  BY EmptiedIs
<1>3. e \in Nat /\ e <= Len(buf)
  BY <1>1, <1>2
<1>4. CASE /\ c.at = "headers" \/ (c.at = "footer" /\ at = "bottom")
           /\ at \in {"top", "bottom"} /\ w = <<at>> /\ SendConstant(s, c, at)
  <2>1. PICK d : /\ http' = [http EXCEPT ![s] = d] /\ SentAs(d, c, at, <<at>>, 0)
                 /\ buf' = buf /\ blen' = Emptied(c.at)
    BY <1>4, ConstantSent
  <2>2. at \in OutOfBuffer
    BY <1>4 DEF OutOfBuffer
  <2>3. SegmentSent(d, c, at, w)
    BY <1>4, <2>1, <2>2, Zenon DEF SegmentSent, SentAs
  <2>4. BufferKept
    BY <1>1, <1>3, <2>1 DEF BufferKept
  <2>. QED
    BY <2>1, <2>3, <2>4, Zenon
<1>5. CASE at \in Segments \ OutOfBuffer /\ SendBuffer(s, c, at, w)
  <2>1. PICK d : /\ http' = [http EXCEPT ![s] = d] /\ SentAs(d, c, at, w, e)
                 /\ buf' \in Seq(Words) /\ blen' \in Nat /\ blen' <= Len(buf')
    BY <1>1, <1>3, <1>5, BufferIsSent, Zenon
  <2>3. SegmentSent(d, c, at, w)
    BY <1>5, <2>1, Zenon DEF SegmentSent, SentAs
  <2>. QED
    BY <2>1, <2>3, Zenon DEF BufferKept
<1>. QED
  BY <1>4, <1>5 DEF Puts

\* One block of the pool changed.
LEMMA PageTurned ==
  ASSUME RoutesInv, NEW s \in Pool, NEW d, IsPage(d), http' = [http EXCEPT ![s] = d],
         router' = router, mixed' \subseteq Pool, nbr' \in {0, 1, 2}, route' \in {0, 1}, BufferInv',
         s \notin mixed' => PageInv(s)',
         \A t \in Pool \ {s} : t \notin mixed' =>
           /\ t \notin mixed
           /\ http[t].phase = "output" => /\ s \notin Making /\ d.phase # "output"
                                          /\ UNCHANGED <<nbr, route, buf>> /\ (cut_off' => cut_off)
  PROVE  RoutesInv'
<1>1. /\ DOMAIN http = Pool /\ http = [t \in Pool |-> http[t]]
      /\ \A t \in Pool : IsPage(http[t])
  BY DEF RoutesInv
<1>2. /\ DOMAIN http' = Pool /\ http' = [t \in Pool |-> http'[t]]
      /\ \A t \in Pool : http'[t] = IF t = s THEN d ELSE http[t]
  BY <1>1
<1>3. \A t \in Pool : IsPage(http'[t])
  BY <1>1, <1>2
<1>4. ASSUME NEW t \in Pool, t # s, t \notin mixed' PROVE PageInv(t)'
  <2>1. http'[t] = http[t] /\ t \notin mixed
    BY <1>2, <1>4
  <2>2. PageInv(t)
    BY <2>1 DEF RoutesInv
  <2>3. CASE http[t].phase = "output"
    <3>1. /\ Making = {t} /\ Alone(http[t]) /\ (router = "border" => ~ cut_off)
      BY <2>2, <2>3 DEF PageInv
    <3>2. d.phase # "output" /\ UNCHANGED <<nbr, route, buf>> /\ (cut_off' => cut_off)
      BY <1>4, <2>3
    <3>3. Making' = {t}
      BY <1>2, <1>4, <2>3, <3>1, <3>2 DEF Making
    <3>4. Alone(http[t])'
      BY <2>1, <3>1, <3>2, Zenon DEF Alone, InBuffer, InPlace
    <3>. QED
      BY <2>1, <2>3, <3>1, <3>2, <3>3, <3>4 DEF PageInv
  <2>4. CASE http[t].phase # "output"
    BY <2>1, <2>2, <2>4 DEF PageInv
  <2>. QED
    BY <2>3, <2>4
<1>5. \A t \in Pool : t \notin mixed' => PageInv(t)'
  BY <1>4
<1>6. router' \in {"border", "ip64"}
  BY DEF RoutesInv
<1>. QED
  BY <1>2, <1>3, <1>5, <1>6 DEF RoutesInv

\* What the client has of the page when the segment is acknowledged.
Grown(c, g) == [c EXCEPT !.got = g]

LEMMA GrownIs ==
  ASSUME NEW c, IsPage(c), NEW g
  PROVE  /\ IsPage(Grown(c, g)) /\ Grown(c, g).phase = c.phase /\ Grown(c, g).at = c.at
         /\ Grown(c, g).sendlen = c.sendlen /\ Grown(c, g).wire = c.wire /\ Grown(c, g).got = g
<1>. PICK L, X : c \in PagesWith(L, X)
  BY DEF IsPage
<1>. PICK Y : Y = X \cup {g}
  BY Zenon
<1>. PICK d : d = [c EXCEPT !.got = g]
  BY Zenon
<1>1. /\ d \in PagesWith(L, Y) /\ d.phase = c.phase /\ d.at = c.at
      /\ d.sendlen = c.sendlen /\ d.wire = c.wire /\ d.got = g
  BY DEF PagesWith
<1>2. d = Grown(c, g)
  BY DEF Grown
<1>3. IsPage(d)
  BY <1>1 DEF IsPage
<1>. QED
  BY <1>1, <1>2, <1>3, Zenon

OthersAlone(s) == \A t \in Pool \ {s} : t \notin mixed => http[t].phase # "output"

LEMMA OthersWait ==
  ASSUME RoutesInv, NEW s \in Pool, http[s].phase = "output" PROVE OthersAlone(s)
<1> SUFFICES ASSUME NEW t \in Pool \ {s}, t \notin mixed, http[t].phase = "output" PROVE FALSE
  BY DEF OthersAlone
<1>1. PageInv(t)
  BY DEF RoutesInv
<1>2. Making = {t} /\ s \in Making
  BY <1>1 DEF PageInv, Making
<1>. QED
  BY <1>2

\* The segment that is acknowledged.
LEMMA AckedIs ==
  ASSUME RoutesInv, NEW s \in Pool, Acked(s)
  PROVE  \E at, a, b, d :
           /\ StepsOn(s, Grown(http[s], IF s \in mixed THEN <<>> ELSE http[s].got \o http[s].wire), at, a, b)
           /\ BufferKept /\ http' = [http EXCEPT ![s] = d]
           /\ SegmentSent(d, Grown(http[s], IF s \in mixed THEN <<>> ELSE http[s].got \o http[s].wire), at, Between(a, b))
<1>. PICK g : g = IF s \in mixed THEN <<>> ELSE http[s].got \o http[s].wire
  BY Zenon
<1>. PICK c : c = Grown(http[s], g)
  OBVIOUS
<1>1. IF router = "border" THEN BorderGoesOn(s, c) ELSE Ip64GoesOn(s, c)
  BY Zenon DEF Acked, Grown
<1>2. router \in {"border", "ip64"} /\ nbr \in {0, 1, 2} /\ route \in {0, 1} /\ IsPage(http[s]) /\ BufferInv
  BY DEF RoutesInv
<1>3. IsPage(c)
  BY <1>2, GrownIs, Zenon
<1>4. \E at, a, b : StepsOn(s, c, at, a, b)
  <2>1. CASE router = "border"
    <3>1. BorderGoesOn(s, c)
      BY <1>1, <2>1
    <3>2. BorderStep(s, c)
      BY <1>2, <3>1, BorderSteps
    <3>. QED
      BY <1>2, <2>1, <3>2, BorderStepsOn, Zenon
  <2>2. CASE router = "ip64"
    <3>1. Ip64GoesOn(s, c)
      BY <1>1, <2>2
    <3>2. Ip64Step(s, c)
      BY <1>2, <2>2, <3>1, Ip64Steps, Zenon
    <3>. QED
      BY <1>2, <2>2, <3>2, Ip64StepsOn, Zenon
  <2>. QED
    BY <1>2, <2>1, <2>2
<1>5. PICK at, a, b : StepsOn(s, c, at, a, b)
  BY <1>4
<1>6. Between(a, b) \in Seq(Words) /\ Puts(s, c, at, Between(a, b))
  BY <1>5, BetweenIs, Zenon DEF StepsOn
<1>7. BufferKept /\ \E d : http' = [http EXCEPT ![s] = d] /\ SegmentSent(d, c, at, Between(a, b))
  BY <1>2, <1>3, <1>6, SegmentIsSent, Zenon
<1>. QED
  BY <1>5, <1>7, Zenon

\* The buffer is emptied with the last line.
LEMMA AckedBuffer ==
  ASSUME RoutesInv, NEW s \in Pool, Acked(s), NEW c, c.at = http[s].at, c.phase = http[s].phase,
         NEW d, NEW at, NEW w, http' = [http EXCEPT ![s] = d], SegmentSent(d, c, at, w), BufferKept
  PROVE  BufferInv'
<1>1. /\ DOMAIN http = Pool /\ http[s].phase = "output" /\ router' = router /\ router \in {"border", "ip64"} /\ BufferInv
      /\ cut_off' = (cut_off /\ blen' # 0 /\ Emptied(http[s].at) # 0)
  BY DEF Acked, RoutesInv
<1>2. /\ \A t \in Pool : http'[t] = IF t = s THEN d ELSE http[t]
      /\ d.at = at /\ d.phase = "output"
  BY <1>1 DEF SegmentSent
<1>3. ASSUME router' = "border", ~ cut_off', \A t \in Making' : http'[t].at \in OutOfBuffer PROVE blen' = 0
  <2>1. \A t \in Pool : t \in Making' <=> t \in Making
    BY <1>1, <1>2 DEF Making
  <2>2. s \in Making /\ at \in OutOfBuffer
    BY <1>1, <1>2, <1>3, <2>1 DEF Making
  <2>3. blen' = Emptied(c.at) /\ (c.at = "headers" \/ c.at = "footer")
    BY <2>2 DEF SegmentSent
  <2>4. CASE c.at = "footer"
    BY <1>1, <1>3, <2>3, <2>4, EmptiedEnds
  <2>5. CASE c.at = "headers"
    <3>1. Emptied("headers") = blen /\ blen' = blen
      BY <2>3, <2>5, EmptiedEnds
    <3>2. CASE cut_off
      <4>1. blen' = 0 \/ Emptied(http[s].at) = 0
        BY <1>1, <1>3, <3>2, Zenon
      <4>. QED
        BY <2>5, <3>1, <4>1, Zenon
    <3>3. CASE ~ cut_off
      <4>1. \A t \in Making : http[t].at \in OutOfBuffer
        <5> SUFFICES ASSUME NEW t \in Making PROVE http[t].at \in OutOfBuffer
          OBVIOUS
        <5>1. t \in Pool
          BY DEF Making
        <5>2. CASE t = s
          BY <2>5, <5>2, Zenon DEF OutOfBuffer
        <5>3. CASE t # s
          BY <1>2, <1>3, <2>1, <5>1, <5>3
        <5>. QED
          BY <5>2, <5>3
      <4>2. router = "border"
        BY <1>1, <1>3
      <4>3. blen = 0
        BY <1>1, <3>3, <4>1, <4>2 DEF BufferInv
      <4>. QED
        BY <3>1, <4>3
    <3>. QED
      BY <3>2, <3>3
  <2>. QED
    BY <2>3, <2>4, <2>5
<1>4. OutOfBuffer' = OutOfBuffer /\ Words' = Words
  BY DEF OutOfBuffer, Words
<1>. QED
  BY <1>3, <1>4 DEF BufferInv, BufferKept

LEMMA PlacesAre ==
  ASSUME NEW r, NEW n, NEW t, NEW at, NEW k, NEW m, Places(r, n, t, at, k, m)
  PROVE  k \in Nat /\ m \in Nat /\ k <= m /\ m <= 9 /\ k \in 0 .. 9 /\ m \in 0 .. 9
<1>1. \/ (k = 0 /\ m = 0) \/ (k = 0 /\ m = 1) \/ (k = 1 /\ m = 2) \/ (k = 2 /\ m = 3) \/ (k = 3 /\ m = 4) \/ (k = 1 /\ m = 3)
      \/ (k = 4 /\ m = 5) \/ (k = 5 /\ m = 6) \/ (k = 3 /\ m = 6) \/ (k = 6 /\ m = 7) \/ (k = 7 /\ m = 8) \/ (k = 8 /\ m = 9)
  BY ZenonT(100) DEF Places
<1>. QED
  BY <1>1

\* A page that is made alone goes on where it was.
LEMMA AckedAlone ==
  ASSUME RoutesInv, NEW s \in Pool, s \notin mixed, Acked(s), NEW c, IsPage(c),
         c.at = http[s].at, c.got = http[s].got \o http[s].wire, c.phase = http[s].phase,
         NEW d, NEW at, NEW a, NEW b, http' = [http EXCEPT ![s] = d], StepsOn(s, c, at, a, b),
         SegmentSent(d, c, at, Between(a, b))
  PROVE  PageInv(s)'
<1>1. /\ DOMAIN http = Pool /\ http[s].phase = "output" /\ http[s].at # "bottom" /\ router' = router
      /\ router \in {"border", "ip64"} /\ BufferInv
      /\ cut_off' = (cut_off /\ blen' # 0 /\ Emptied(http[s].at) # 0)
  BY DEF Acked, RoutesInv
<1>2. /\ \A t \in Pool : http'[t] = IF t = s THEN d ELSE http[t]
      /\ d.at = at /\ d.phase = "output" /\ d.got = c.got
  BY <1>1 DEF SegmentSent
<1>3. Making = {s} /\ Alone(http[s]) /\ (router = "border" => ~ cut_off)
  BY <1>1 DEF RoutesInv, PageInv
<1>4. PICK k, m \in 0 .. 9 : InPlace(c.at, k, m) /\ http[s].got = Upto(k) /\ http[s].wire = Between(k, m)
  BY <1>3 DEF Alone
<1>5. k \in Nat /\ m \in Nat /\ k <= m /\ m <= 9
  BY <1>4, PlacesAre, Zenon DEF InPlace
<1>6. m = a /\ Places(router, nbr', route', at, a, b)
  BY <1>4, Zenon DEF StepsOn, LeadsTo
<1>7. d.got = Upto(a)
  BY <1>2, <1>4, <1>5, <1>6, UptoGrows, Zenon
<1>8. Emptied(c.at) = 0 \/ at \in OutOfBuffer
  <2>1. CASE c.at \in {"headers", "footer"}
    <3>1. Puts(s, c, at, Between(a, b))
      BY Zenon DEF StepsOn
    <3>. QED
      BY <2>1, <3>1 DEF Puts, OutOfBuffer
  <2>2. CASE c.at \notin {"headers", "top", "footer", "bottom"}
    BY <2>2, EmptiedEnds
  <2>3. CASE c.at = "top"
    <3>1. CASE router = "ip64"
      BY <2>3, <3>1, EmptiedEnds
    <3>2. CASE router = "border"
      <4>1. \A t \in Making : http[t].at \in OutOfBuffer
        BY <1>3, <2>3, Zenon DEF OutOfBuffer
      <4>2. blen = 0
        BY <1>1, <1>3, <3>2, <4>1 DEF BufferInv
      <4>. QED
        BY <2>3, <3>2, <4>2, EmptiedEnds
    <3>. QED
      BY <1>1, <3>1, <3>2
  <2>. QED
    BY <1>1, <2>1, <2>2, <2>3
<1>9. d.wire = Between(a, b)
  BY <1>8 DEF SegmentSent
<1>10. at \notin OutOfBuffer => SubSeq(buf', 1, d.sendlen) = d.wire
  BY DEF SegmentSent
<1>11. Making' = {s}
  BY <1>1, <1>2, <1>3 DEF Making
<1>12. router' = "border" => ~ cut_off'
  BY <1>1, <1>3, Zenon
<1>13. http'[s] = d
  BY <1>2
<1>14. Alone(http[s])'
  <2>1. InPlace(at, a, b)'
    BY <1>1, <1>6 DEF InPlace
  <2>2. a \in 0 .. 9 /\ b \in 0 .. 9
    BY <1>6, PlacesAre, Zenon
  <2>3. \E i, j \in 0 .. 9 : Places(router', nbr', route', at, i, j) /\ d.got = Upto(i) /\ d.wire = Between(i, j)
    BY <1>1, <1>6, <1>7, <1>9, <2>2, Zenon
  <2>4. (Alone(http[s])') <=> /\ \E i, j \in 0 .. 9 : /\ Places(router', nbr', route', http'[s].at, i, j)
                                                     /\ http'[s].got = Upto(i) /\ http'[s].wire = Between(i, j)
                              /\ http'[s].at \notin OutOfBuffer => SubSeq(buf', 1, http'[s].sendlen) = http'[s].wire
    BY DEF Alone, InBuffer, InPlace, OutOfBuffer, Upto, Between, Places, WholePage, Neighbors, Routes
  <2>. QED
    BY <1>2, <1>10, <1>13, <2>3, <2>4, Zenon
<1>. QED
  BY <1>2, <1>11, <1>12, <1>13, <1>14 DEF PageInv

LEMMA AckedKeeps == ASSUME RoutesInv, NEW s \in Pool, Acked(s) PROVE RoutesInv'
<1>. PICK g : g = IF s \in mixed THEN <<>> ELSE http[s].got \o http[s].wire
  BY Zenon
<1>. PICK c : c = Grown(http[s], g)
  OBVIOUS
<1>1. PICK at, a, b, d : /\ StepsOn(s, c, at, a, b) /\ BufferKept /\ http' = [http EXCEPT ![s] = d]
                         /\ SegmentSent(d, c, at, Between(a, b))
  BY AckedIs, Zenon
<1>2. IsPage(c) /\ c.at = http[s].at /\ c.phase = http[s].phase /\ c.got = g
  <2>. PICK h : h = http[s]
    BY Zenon
  <2>1. IsPage(h) /\ c = Grown(h, g)
    BY DEF RoutesInv
  <2>. PICK e : e = Grown(h, g)
    BY Zenon
  <2>2. IsPage(e) /\ e.at = h.at /\ e.phase = h.phase /\ e.got = g
    BY <2>1, GrownIs
  <2>. QED
    BY <2>1, <2>2
<1>3. BufferInv'
  BY <1>1, <1>2, AckedBuffer, Zenon
<1>4. s \notin mixed => PageInv(s)'
  <2>1. ASSUME s \notin mixed PROVE PageInv(s)'
    <3>1. c.got = http[s].got \o http[s].wire
      BY <1>2, <2>1, Zenon
    <3>. QED
      BY <1>1, <1>2, <2>1, <3>1, AckedAlone, Zenon
  <2>. QED
    BY <2>1
<1>5. mixed' = mixed /\ router' = router /\ http[s].phase = "output"
  BY DEF Acked
<1>6. OthersAlone(s)
  BY <1>5, OthersWait
<1>7. nbr' \in {0, 1, 2} /\ route' \in {0, 1} /\ IsPage(d) /\ mixed' \subseteq Pool
  BY <1>1, <1>5, Zenon DEF StepsOn, SegmentSent, RoutesInv
<1>8. \A t \in Pool \ {s} : t \notin mixed' => t \notin mixed /\ http[t].phase # "output"
  BY <1>5, <1>6 DEF OthersAlone
<1>9. s \notin mixed' => PageInv(s)'
  BY <1>4, <1>5
<1>. QED
  BY <1>1, <1>3, <1>5, <1>7, <1>8, <1>9, PageTurned, Zenon

\* A page that is new, sent or gone.
InStep(c, p) == [c EXCEPT !.phase = p]

LEMMA InStepIs ==
  ASSUME NEW c, IsPage(c), NEW p \in Steps
  PROVE  /\ IsPage(InStep(c, p)) /\ InStep(c, p).phase = p /\ InStep(c, p).at = c.at
         /\ InStep(c, p).sendlen = c.sendlen /\ InStep(c, p).wire = c.wire /\ InStep(c, p).got = c.got
<1>. PICK L, X : c \in PagesWith(L, X)
  BY DEF IsPage
<1>. PICK d : d = [c EXCEPT !.phase = p]
  BY Zenon
<1>1. /\ d \in PagesWith(L, X) /\ d.phase = p /\ d.at = c.at
      /\ d.sendlen = c.sendlen /\ d.wire = c.wire /\ d.got = c.got
  BY DEF PagesWith
<1>2. d = InStep(c, p)
  BY DEF InStep
<1>3. IsPage(d)
  BY <1>1 DEF IsPage
<1>. QED
  BY <1>1, <1>2, <1>3, Zenon

Nothing == <<>>

LEMMA FreeIs == IsPage(Free) /\ Free.phase = "free" /\ Free.at = "none" /\ Free.got = <<>>
<1>1. Free = [phase |-> "free", at |-> "none", sendlen |-> 0, wire |-> Nothing, got |-> Nothing]
  BY DEF Free, Nothing
<1>2. Free \in PagesWith({0}, {Nothing})
  BY <1>1 DEF PagesWith, Steps, Segments
<1>3. IsPage(Free)
  BY <1>2 DEF IsPage
<1>. QED
  BY <1>1, <1>3, Zenon DEF Nothing

\* A block that is not made a page of: the buffer stays, and so do the others' pages.
LEMMA BlockChanged ==
  ASSUME RoutesInv, NEW s \in Pool, NEW d, IsPage(d), http' = [http EXCEPT ![s] = d],
         UNCHANGED <<router, nbr, route, buf, blen>>, mixed' \in {mixed, mixed \ {s}},
         d.phase # "output",
         \/ http[s].phase # "output" /\ (cut_off' <=> cut_off)
         \/ http[s].phase = "output" /\ cut_off' = TRUE
         \/ http[s].phase = "output" /\ http[s].at = "bottom" /\ cut_off' = cut_off,
         s \notin mixed' => /\ d.phase = "closing" => d.got = WholePage
                            /\ d.phase \in {"free", "reading"} => d.got = <<>>
  PROVE  RoutesInv'
<1>1. DOMAIN http = Pool /\ BufferInv /\ mixed \subseteq Pool /\ router \in {"border", "ip64"}
      /\ nbr \in {0, 1, 2} /\ route \in {0, 1}
  BY DEF RoutesInv
<1>2. \A t \in Pool : http'[t] = IF t = s THEN d ELSE http[t]
  BY <1>1
<1>3. OutOfBuffer' = OutOfBuffer /\ Words' = Words
  BY DEF OutOfBuffer, Words
<1>4. ASSUME router = "border", ~ cut_off', \A t \in Making' : http'[t].at \in OutOfBuffer PROVE blen = 0
  <2>1. ~ cut_off
    BY <1>4
  <2>2. \A t \in Making : http[t].at \in OutOfBuffer
    <3> SUFFICES ASSUME NEW t \in Making PROVE http[t].at \in OutOfBuffer
      OBVIOUS
    <3>1. t \in Pool /\ http[t].phase = "output"
      BY DEF Making
    <3>2. CASE t = s
      <4>1. http[s].at = "bottom"
        BY <1>4, <3>1, <3>2
      <4>. QED
        BY <3>2, <4>1 DEF OutOfBuffer
    <3>3. CASE t # s
      BY <1>2, <1>4, <3>1, <3>3 DEF Making
    <3>. QED
      BY <3>2, <3>3
  <2>. QED
    BY <1>1, <1>4, <2>1, <2>2 DEF BufferInv
<1>5. BufferInv'
  BY <1>1, <1>3, <1>4 DEF BufferInv
<1>6. s \notin mixed' => PageInv(s)'
  <2>1. (WholePage)' = WholePage
    BY DEF WholePage, Neighbors, Routes
  <2>. QED
    BY <1>2, <2>1 DEF PageInv
<1>7. ASSUME NEW t \in Pool \ {s}, t \notin mixed'
      PROVE  /\ t \notin mixed
             /\ http[t].phase = "output" => s \notin Making /\ d.phase # "output" /\ UNCHANGED <<nbr, route, buf>> /\ (cut_off' => cut_off)
  <2>1. t \notin mixed
    BY <1>7
  <2>2. ASSUME http[t].phase = "output" PROVE s \notin Making /\ (cut_off' => cut_off)
    <3>1. Making = {t}
      BY <2>1, <2>2 DEF RoutesInv, PageInv
    <3>2. s \notin Making
      BY <1>7, <3>1
    <3>3. http[s].phase # "output"
      BY <3>2 DEF Making
    <3>. QED
      BY <3>2, <3>3
  <2>. QED
    BY <2>1, <2>2
<1>8. router' = router /\ nbr' \in {0, 1, 2} /\ route' \in {0, 1} /\ mixed' \subseteq Pool
  BY <1>1
<1>. QED
  BY <1>5, <1>6, <1>7, <1>8, PageTurned, Zenon

LEMMA RoutesConnectedKeeps == ASSUME RoutesInv, RoutesConnected PROVE RoutesInv'
<1>1. PICK s \in Pool : /\ http[s].phase = "free" /\ http' = [http EXCEPT ![s] = [Free EXCEPT !.phase = "reading"]]
                        /\ mixed' = mixed \ {s}
  BY Zenon DEF RoutesConnected
<1>. PICK d : d = InStep(Free, "reading")
  OBVIOUS
<1>2. "reading" \in Steps
  BY DEF Steps
<1>3. IsPage(d) /\ d.phase = "reading" /\ d.got = <<>>
  BY <1>2, FreeIs, InStepIs, Zenon
<1>4. http' = [http EXCEPT ![s] = d]
  BY <1>1 DEF InStep
<1>5. UNCHANGED <<router, nbr, route, buf, blen, cut_off>>
  BY DEF RoutesConnected
<1>. QED
  BY <1>1, <1>3, <1>4, <1>5, BlockChanged, Zenon

LEMMA RequestReadKeeps == ASSUME RoutesInv, NEW s \in Pool, RequestRead(s) PROVE RoutesInv'
<1>1. /\ UNCHANGED <<router, nbr, route, buf, blen, cut_off>> /\ http[s].phase = "reading"
      /\ DOMAIN http = Pool /\ BufferInv /\ mixed \subseteq Pool /\ router \in {"border", "ip64"}
      /\ nbr \in {0, 1, 2} /\ route \in {0, 1} /\ IsPage(http[s])
  BY DEF RequestRead, RoutesInv
<1>2. CASE http' = [http EXCEPT ![s] = Free] /\ mixed' = mixed
  BY <1>1, <1>2, FreeIs, BlockChanged, Zenon
<1>3. CASE /\ http' = [http EXCEPT ![s] = [Transmits(@, "headers", <<>>, 0) EXCEPT !.phase = "output"]]
           /\ mixed' = IF Making # {} THEN mixed \cup Making \cup {s}
                       ELSE IF cut_off /\ router = "border" THEN mixed \cup {s} ELSE mixed
  <2>. PICK e : e = Transmits(http[s], "headers", Nothing, 0)
    OBVIOUS
  <2>. PICK d : d = InStep(e, "output")
    OBVIOUS
  <2>1. "headers" \in Segments /\ "output" \in Steps
    BY DEF Segments, Steps
  <2>2. IsTransmitted(e, http[s], "headers", Nothing, 0)
    BY <1>1, <2>1, TransmitsIs, Zenon
  <2>3. IsPage(d) /\ d.phase = "output" /\ d.at = "headers" /\ d.got = http[s].got /\ d.wire = SubSeq(Nothing, 1, 0)
    BY <2>1, <2>2, InStepIs, Zenon DEF IsTransmitted
  <2>4. http' = [http EXCEPT ![s] = d]
    BY <1>3 DEF InStep, Nothing
  <2>5. \A t \in Pool : http'[t] = IF t = s THEN d ELSE http[t]
    BY <1>1, <2>4
  <2>6. OutOfBuffer' = OutOfBuffer /\ Words' = Words /\ "headers" \in OutOfBuffer
    BY DEF OutOfBuffer, Words
  <2>7. ASSUME router = "border", ~ cut_off, \A t \in Making' : http'[t].at \in OutOfBuffer PROVE blen = 0
    <3>1. \A t \in Making : http[t].at \in OutOfBuffer
      BY <1>1, <2>3, <2>5, <2>7 DEF Making
    <3>. QED
      BY <1>1, <2>7, <3>1 DEF BufferInv
  <2>8. BufferInv'
    BY <1>1, <2>6, <2>7 DEF BufferInv
  <2>9. ASSUME s \notin mixed' PROVE PageInv(s)'
    <3>1. Making = {} /\ ~ (cut_off /\ router = "border") /\ s \notin mixed
      BY <1>3, <2>9
    <3>2. http[s].got = <<>>
      BY <1>1, <3>1 DEF RoutesInv, PageInv
    <3>3. Making' = {s}
      BY <2>3, <2>5, <3>1 DEF Making
    <3>4. SubSeq(Nothing, 1, 0) = <<>>
      <4>1. Nothing \in Seq(Words) /\ Len(Nothing) = 0
        BY DEF Nothing
      <4>2. SubSeq(Nothing, 1, Len(Nothing)) = Nothing
        BY <4>1, SubSeqFull, Zenon
      <4>. QED
        BY <4>1, <4>2, Zenon DEF Nothing
    <3>5. d.got = Upto(0) /\ d.wire = Between(0, 0)
      BY <2>3, <3>2, <3>4, UptoEnds, Zenon
    <3>6. Places(router', nbr', route', "headers", 0, 0)
      BY DEF Places
    <3>7. 0 \in 0 .. 9
      OBVIOUS
    <3>8. \E i, j \in 0 .. 9 : Places(router', nbr', route', d.at, i, j) /\ d.got = Upto(i) /\ d.wire = Between(i, j)
      BY <2>3, <3>5, <3>6, <3>7, Zenon
    <3>9. http'[s] = d
      BY <2>5
    <3>10. Alone(http[s])'
      <4>1. (Alone(http[s])') <=> /\ \E i, j \in 0 .. 9 : /\ Places(router', nbr', route', http'[s].at, i, j)
                                                         /\ http'[s].got = Upto(i) /\ http'[s].wire = Between(i, j)
                                  /\ http'[s].at \notin OutOfBuffer => SubSeq(buf', 1, http'[s].sendlen) = http'[s].wire
        BY DEF Alone, InBuffer, InPlace, OutOfBuffer, Upto, Between, Places, WholePage, Neighbors, Routes
      <4>. QED
        BY <2>3, <2>6, <3>8, <3>9, <4>1, Zenon
    <3>11. router' = "border" => ~ cut_off'
      BY <1>1, <3>1, Zenon
    <3>. QED
      BY <2>3, <3>3, <3>9, <3>10, <3>11 DEF PageInv
  <2>10. \A t \in Pool \ {s} : t \notin mixed' => t \notin mixed /\ http[t].phase # "output"
    BY <1>3 DEF Making
  <2>11. mixed' \subseteq Pool
    BY <1>1, <1>3 DEF Making
  <2>12. router' = router /\ nbr' \in {0, 1, 2} /\ route' \in {0, 1}
    BY <1>1
  <2>. QED
    BY <2>3, <2>4, <2>8, <2>9, <2>10, <2>11, <2>12, PageTurned, Zenon
<1>. QED
  BY <1>2, <1>3 DEF RequestRead

LEMMA PageSentKeeps == ASSUME RoutesInv, NEW s \in Pool, PageSent(s) PROVE RoutesInv'
<1>1. /\ UNCHANGED <<router, nbr, route, buf, blen, cut_off, mixed>> /\ http[s].phase = "output" /\ http[s].at = "bottom"
      /\ IsPage(http[s])
  BY DEF PageSent, RoutesInv
<1>. PICK g : g = IF s \in mixed THEN <<>> ELSE http[s].got \o http[s].wire
  BY Zenon
<1>. PICK c : c = Grown(http[s], g)
  OBVIOUS
<1>. PICK d : d = InStep(c, "closing")
  OBVIOUS
<1>2. "closing" \in Steps
  BY DEF Steps
<1>a. IsPage(c) /\ c.got = g
  BY <1>1, GrownIs, ZenonT(100)
<1>3. IsPage(d) /\ d.phase = "closing" /\ d.got = g
  BY <1>a, <1>2, InStepIs, Zenon
<1>4. http' = [http EXCEPT ![s] = d]
  <2>1. [http[s] EXCEPT !.phase = "closing", !.got = g] = d
    <3>. PICK L, X : http[s] \in PagesWith(L, X)
      BY <1>1 DEF IsPage
    <3>. QED
      BY Zenon DEF PagesWith, InStep, Grown
  <2>2. http' = [http EXCEPT ![s] = [http[s] EXCEPT !.phase = "closing", !.got = g]]
    BY Zenon DEF PageSent
  <2>. QED
    BY <2>1, <2>2, Zenon
<1>5. ASSUME s \notin mixed PROVE d.got = WholePage
  <2>1. Alone(http[s])
    BY <1>1, <1>5 DEF RoutesInv, PageInv
  <2>2. PICK k, m \in 0 .. 9 : InPlace(http[s].at, k, m) /\ http[s].got = Upto(k) /\ http[s].wire = Between(k, m)
    BY <2>1, Zenon DEF Alone
  <2>3. k = 8 /\ m = 9
    BY <1>1, <2>2 DEF InPlace, Places
  <2>4. 8 \in Nat /\ 9 \in Nat /\ 8 <= 9 /\ 9 <= 9
    OBVIOUS
  <2>5. Upto(8) \o Between(8, 9) = WholePage
    BY <2>4, UptoGrows, UptoEnds, Zenon
  <2>6. g = http[s].got \o http[s].wire
    BY <1>5, ZenonT(100)
  <2>. QED
    BY <1>3, <2>2, <2>3, <2>5, <2>6, Zenon
<1>6. s \notin mixed' => /\ d.phase = "closing" => d.got = WholePage
                         /\ d.phase \in {"free", "reading"} => d.got = <<>>
  BY <1>1, <1>3, <1>5
<1>. QED
  BY <1>1, <1>3, <1>4, <1>6, BlockChanged, Zenon

Rewired(c, w) == [c EXCEPT !.wire = w]

LEMMA RewiredIs ==
  ASSUME NEW c, IsPage(c), NEW w
  PROVE  /\ IsPage(Rewired(c, w)) /\ Rewired(c, w).phase = c.phase /\ Rewired(c, w).at = c.at
         /\ Rewired(c, w).sendlen = c.sendlen /\ Rewired(c, w).wire = w /\ Rewired(c, w).got = c.got
<1>. PICK L, X : c \in PagesWith(L, X)
  BY DEF IsPage
<1>. PICK Y : Y = X \cup {w}
  BY Zenon
<1>. PICK d : d = [c EXCEPT !.wire = w]
  BY Zenon
<1>1. /\ d \in PagesWith(L, Y) /\ d.phase = c.phase /\ d.at = c.at
      /\ d.sendlen = c.sendlen /\ d.wire = w /\ d.got = c.got
  BY DEF PagesWith
<1>2. d = Rewired(c, w)
  BY DEF Rewired
<1>3. IsPage(d)
  BY <1>1 DEF IsPage
<1>. QED
  BY <1>1, <1>2, <1>3, Zenon

LEMMA RetransmittedKeeps == ASSUME RoutesInv, NEW s \in Pool, Retransmitted(s) PROVE RoutesInv'
<1>1. /\ UNCHANGED <<router, nbr, route, buf, blen, cut_off, mixed>> /\ http[s].phase = "output"
      /\ http[s].at \notin OutOfBuffer /\ DOMAIN http = Pool /\ BufferInv /\ mixed \subseteq Pool
      /\ nbr \in {0, 1, 2} /\ route \in {0, 1} /\ IsPage(http[s])
  BY DEF Retransmitted, RoutesInv, OutOfBuffer
<1>. PICK w : w = SubSeq(buf, 1, http[s].sendlen)
  BY Zenon
<1>. PICK d : d = Rewired(http[s], w)
  OBVIOUS
<1>2. /\ IsPage(d) /\ d.phase = "output" /\ d.at = http[s].at /\ d.got = http[s].got
      /\ d.sendlen = http[s].sendlen /\ d.wire = w
  <2>1. IsPage(http[s])
    BY <1>1
  <2>2. /\ IsPage(d) /\ d.phase = http[s].phase /\ d.at = http[s].at /\ d.got = http[s].got
        /\ d.sendlen = http[s].sendlen /\ d.wire = w
    BY <2>1, RewiredIs, ZenonT(100)
  <2>. QED
    BY <1>1, <2>2, Zenon
<1>3. http' = [http EXCEPT ![s] = d]
  BY DEF Retransmitted, Rewired
<1>4. \A t \in Pool : http'[t] = IF t = s THEN d ELSE http[t]
  BY <1>1, <1>3
<1>5. \A t \in Pool : http'[t].phase = http[t].phase /\ http'[t].at = http[t].at
  BY <1>1, <1>2, <1>4
<1>6. Making' = Making
  BY <1>5 DEF Making
<1>7. OutOfBuffer' = OutOfBuffer /\ Words' = Words
  BY DEF OutOfBuffer, Words
<1>8. BufferInv'
  <2>1. (\A t \in Making' : http'[t].at \in OutOfBuffer) => \A t \in Making : http[t].at \in OutOfBuffer
    BY <1>5, <1>6 DEF Making
  <2>. QED
    BY <1>1, <1>7, <2>1 DEF BufferInv
<1>9. ASSUME s \notin mixed' PROVE PageInv(s)'
  <2>1. Making = {s} /\ Alone(http[s]) /\ (router = "border" => ~ cut_off)
    BY <1>1, <1>9 DEF RoutesInv, PageInv
  <2>2. w = http[s].wire
    BY <1>1, <2>1 DEF Alone, InBuffer
  <2>3. Alone(d)
    BY <1>2, <2>1, <2>2, Zenon DEF Alone, InBuffer
  <2>4. http'[s] = d
    BY <1>4
  <2>5. Alone(http[s])'
    BY <1>1, <2>3, <2>4, Zenon DEF Alone, InBuffer, InPlace
  <2>6. router' = "border" => ~ cut_off'
    BY <1>1, <2>1
  <2>. QED
    BY <1>2, <1>6, <2>1, <2>4, <2>5, <2>6 DEF PageInv
<1>10. OthersAlone(s)
  BY <1>1, OthersWait
<1>11. \A t \in Pool \ {s} : t \notin mixed' => t \notin mixed /\ http[t].phase # "output"
  BY <1>1, <1>10 DEF OthersAlone
<1>12. router' = router /\ nbr' \in {0, 1, 2} /\ route' \in {0, 1} /\ mixed' \subseteq Pool
  BY <1>1
<1>. QED
  BY <1>2, <1>3, <1>8, <1>9, <1>11, <1>12, PageTurned, Zenon

LEMMA RoutesClosedKeeps == ASSUME RoutesInv, NEW s \in Pool, RoutesClosed(s) PROVE RoutesInv'
<1>1. /\ UNCHANGED <<router, nbr, route, buf, blen, cut_off, mixed>> /\ http[s].phase = "closing"
      /\ http' = [http EXCEPT ![s] = Free]
  BY DEF RoutesClosed
<1>. QED
  BY <1>1, FreeIs, BlockChanged, Zenon

LEMMA RoutesLostKeeps == ASSUME RoutesInv, NEW s \in Pool, RoutesLost(s) PROVE RoutesInv'
<1>1. /\ UNCHANGED <<router, nbr, route, buf, blen, mixed>> /\ http' = [http EXCEPT ![s] = Free]
      /\ cut_off' = (cut_off \/ http[s].phase = "output")
  BY DEF RoutesLost
<1>2. \/ http[s].phase # "output" /\ (cut_off' <=> cut_off)
      \/ http[s].phase = "output" /\ cut_off' = TRUE
  BY <1>1, Zenon
<1>. QED
  BY <1>1, <1>2, FreeIs, BlockChanged, Zenon

LEMMA RoutesBegin == RoutesInit => RoutesInv
<1> SUFFICES ASSUME RoutesInit PROVE RoutesInv
  OBVIOUS
<1>1. /\ http = [s \in Pool |-> Free] /\ router \in {"border", "ip64"} /\ mixed = {}
      /\ nbr = 0 /\ route = 0 /\ blen = 0 /\ buf = <<>>
  BY DEF RoutesInit, NoPointer
<1>2. \A s \in Pool : http[s] = Free
  BY <1>1
<1>3. BufferInv
  <2>1. buf \in Seq(Words) /\ Len(buf) = 0
    BY <1>1
  <2>. QED
    BY <1>1, <2>1 DEF BufferInv
<1>4. \A s \in Pool : PageInv(s)
  BY <1>2, FreeIs DEF PageInv
<1>. QED
  BY <1>1, <1>2, <1>3, <1>4, FreeIs DEF RoutesInv

LEMMA RoutesKept == ASSUME RoutesInv, RoutesNext PROVE RoutesInv'
  BY RoutesConnectedKeeps, RequestReadKeeps, AckedKeeps, PageSentKeeps, RetransmittedKeeps, RoutesClosedKeeps,
     RoutesLostKeeps DEF RoutesNext

LEMMA RoutesStandStill == ASSUME RoutesInv, UNCHANGED routesVars PROVE RoutesInv'
<1>1. UNCHANGED <<router, http, buf, blen, nbr, route, cut_off, mixed>>
  BY DEF routesVars
<1>2. BufferInv'
  BY <1>1, SMTT(60) DEF RoutesInv, BufferInv, Making, OutOfBuffer, Words
<1>3. \A s \in Pool : s \notin mixed => PageInv(s)'
  BY <1>1 DEF RoutesInv, PageInv, Making, Alone, InBuffer, InPlace
<1>. QED
  BY <1>1, <1>2, <1>3 DEF RoutesInv

LEMMA PageLength == Len(WholePage) = 9
  BY PageWords

LEMMA RoutesSafe == RoutesInv => RoutesWhole
<1> SUFFICES ASSUME RoutesInv, NEW s \in Pool, s \notin mixed
    PROVE /\ \E n \in 0 .. 9 : http[s].got = SubSeq(WholePage, 1, n)
          /\ http[s].phase = "closing" => http[s].got = WholePage
  BY PageLength DEF RoutesWhole
<1>1. PageInv(s) /\ IsPage(http[s])
  BY DEF RoutesInv
<1>2. http[s].phase \in Steps
  BY <1>1 DEF IsPage, PagesWith
<1>3. 0 \in 0 .. 9 /\ 9 \in 0 .. 9
  OBVIOUS
<1>4. CASE http[s].phase = "output"
  <2>1. \E k \in 0 .. 9 : http[s].got = Upto(k)
    BY <1>1, <1>4 DEF PageInv, Alone
  <2>. QED
    BY <1>4, <2>1, Zenon DEF Upto
<1>5. CASE http[s].phase = "closing"
  <2>1. http[s].got = Upto(9) /\ http[s].got = WholePage
    BY <1>1, <1>5, UptoEnds DEF PageInv
  <2>. QED
    BY <1>3, <2>1 DEF Upto
<1>6. CASE http[s].phase \in {"free", "reading"}
  <2>1. http[s].got = Upto(0)
    BY <1>1, <1>6, UptoEnds DEF PageInv
  <2>. QED
    BY <1>3, <1>6, <2>1 DEF Upto
<1>. QED
  BY <1>2, <1>4, <1>5, <1>6 DEF Steps

(***************************************************************************)
(* The web servers among the programs.                                     *)
(***************************************************************************)

WebInv == HttpdInv /\ SavedInv /\ RoutesInv

\* A step of the programs is one of the web demo, of its pages or of the routers' page, or
\* none of them sees it.
LEMMA WebStandsStill ==
  ASSUME [Next]_vars
  PROVE  \/ WebNext /\ UNCHANGED routesVars
         \/ PagesNext /\ UNCHANGED <<routesVars, mqttProgVars, publish, uartVars, flash>>
         \/ RoutesNext /\ UNCHANGED webVars
         \/ UNCHANGED <<webVars, routesVars>>
<1>1. CASE SfSimpleRuns \/ SfPlugtestRuns
  BY <1>1 DEF SfSimpleRuns, SfPlugtestRuns, driverVars
<1>2. CASE WebRuns
  BY <1>2 DEF WebRuns, driverVars
<1>3. CASE PagesRun
  BY <1>3 DEF PagesRun, driverVars
<1>4. CASE RoutesRun
  BY <1>4 DEF RoutesRun
<1>5. CASE SensniffRuns \/ SlipRadioRuns \/ Uart1NodeRuns \/ AtMasterRuns \/ CryptoTestsRun \/ PkaTestsRun
  BY <1>5 DEF SensniffRuns, SlipRadioRuns, Uart1NodeRuns, AtMasterRuns, CryptoTestsRun, PkaTestsRun
<1>6. CASE UNCHANGED vars
  BY <1>6 DEF vars, driverVars
<1>. QED
  BY <1>1, <1>2, <1>3, <1>4, <1>5, <1>6 DEF Next

\* Asking for a page changes no configuration.
LEMMA PagesSaved ==
  ASSUME SavedInv, PagesNext, UNCHANGED <<mqttProgVars, publish, uartVars, flash>> PROVE SavedInv'
<1>1. UNCHANGED <<config_ok, news>>
  BY Zenon DEF PagesNext, Connected, HttpdWrites, SentFull, Flushed, Closed, UnchangedByOutput, Lost, GetRead
<1>2. UNCHANGED <<flash, conf, publish, net_uart, client>>
  BY DEF mqttProgVars, mqttVars, uartVars
<1>. QED
  BY <1>1, <1>2, SavedStandsStill, SMTT(60)

LEMMA WebSteps == WebInv /\ [Next]_vars => WebInv'
<1> SUFFICES ASSUME WebInv, [Next]_vars PROVE WebInv'
  OBVIOUS
<1>1. HttpdInv /\ SavedInv /\ RoutesInv
  BY DEF WebInv
<1>2. CASE WebNext /\ UNCHANGED routesVars
  BY <1>1, <1>2, WebHttpd, WebSaved, RoutesStandStill DEF WebInv
<1>3. CASE PagesNext /\ UNCHANGED <<routesVars, mqttProgVars, publish, uartVars, flash>>
  BY <1>1, <1>3, PagesKeep, PagesSaved, RoutesStandStill DEF WebInv
<1>4. CASE UNCHANGED webVars /\ (RoutesNext \/ UNCHANGED routesVars)
  <2>1. conns' = conns /\ lock' = lock /\ UNCHANGED <<flash, conf, publish, net_uart, config_ok, news, client>>
    BY <1>4 DEF webVars, httpdVars, mqttProgVars, mqttVars
  <2>2. HttpdInv' /\ SavedInv'
    BY <1>1, <2>1, HttpdStandsStill, SavedStandsStill
  <2>3. RoutesInv'
    BY <1>1, <1>4, RoutesKept, RoutesStandStill
  <2>. QED
    BY <2>2, <2>3 DEF WebInv
<1>. QED
  BY <1>2, <1>3, <1>4, WebStandsStill

\* See WebSafe: one POST at a time, whole pages, and what was accepted is saved.
THEOREM WebIsSafe == Spec => []WebSafe
<1>1. Init => WebInv
  <2>1. WebInit => HttpdInit
    BY DEF WebInit
  <2>. QED
    BY <2>1, HttpdBegins, SavedBegins, RoutesBegin DEF Init, WebInv
<1>2. WebInv => WebSafe
  BY HttpdSafe, RoutesSafe DEF WebInv, SavedInv, WebSafe
<1>. QED
  BY <1>1, <1>2, WebSteps, PTL DEF Spec

(***************************************************************************)
(* What is kept of a list.  Only is a recursive function, and what it      *)
(* gives is found by induction over the list's length.                     *)
(***************************************************************************)

KeptUpTo(g, row, held, i) ==
  IF i = 0 THEN <<>> ELSE IF row[i] \in held THEN Append(g[i - 1], row[i]) ELSE g[i - 1]
Keeps(g, row, held) == g = [i \in 0 .. Len(row) |-> KeptUpTo(g, row, held, i)]
Keeper(row, held) == CHOOSE g : Keeps(g, row, held)

LEMMA OnlyUnfolds == ASSUME NEW row, NEW held PROVE Only(row, held) = Keeper(row, held)[Len(row)]
  BY DEF Only, Keeper, Keeps, KeptUpTo

LEMMA KeptType ==
  ASSUME NEW X, NEW row \in Seq(X), NEW held, NEW i \in 0 .. Len(row), NEW g,
         i # 0 => g[i - 1] \in Seq(X)
  PROVE  KeptUpTo(g, row, held, i) \in Seq(X)
<1>1. CASE i = 0
  BY <1>1 DEF KeptUpTo
<1>2. CASE i # 0
  <2>1. row[i] \in X /\ g[i - 1] \in Seq(X)
    BY <1>2
  <2>2. Append(g[i - 1], row[i]) \in Seq(X)
    BY <2>1
  <2>. QED
    BY <1>2, <2>1, <2>2 DEF KeptUpTo
<1>. QED
  BY <1>1, <1>2

\* There is such a function, so it is the one that is chosen.
LEMMA KeeperExists ==
  ASSUME NEW X, NEW row \in Seq(X), NEW held PROVE Keeps(Keeper(row, held), row, held)
<1> DEFINE Good(g, n) == \A i \in 0 .. Len(row) : i <= n => g[i] = KeptUpTo(g, row, held, i)
           T == {n \in Nat : \E g \in [0 .. Len(row) -> Seq(X)] : Good(g, n)}
<1>1. 0 \in T
  <2>. PICK g : g = [i \in 0 .. Len(row) |-> <<>>]
    BY Zenon
  <2>1. g \in [0 .. Len(row) -> Seq(X)]
    OBVIOUS
  <2>2. Good(g, 0)
    BY DEF KeptUpTo
  <2>. QED
    BY <2>1, <2>2, Zenon
<1>2. ASSUME NEW n \in Nat, n \in T PROVE n + 1 \in T
  <2>1. PICK g \in [0 .. Len(row) -> Seq(X)] : Good(g, n)
    BY <1>2
  <2>. PICK h : h = [i \in 0 .. Len(row) |-> KeptUpTo(g, row, held, i)]
    OBVIOUS
  <2>2. \A i \in 0 .. Len(row) : h[i] \in Seq(X)
    <3> SUFFICES ASSUME NEW i \in 0 .. Len(row) PROVE KeptUpTo(g, row, held, i) \in Seq(X)
      OBVIOUS
    <3>1. i # 0 => g[i - 1] \in Seq(X)
      <4>1. i # 0 => i - 1 \in 0 .. Len(row)
        OBVIOUS
      <4>. QED
        BY <4>1, Zenon
    <3>. QED
      BY <3>1, KeptType
  <2>3. h \in [0 .. Len(row) -> Seq(X)]
    BY <2>2
  <2>4. ASSUME NEW i \in 0 .. Len(row), i <= n + 1 PROVE h[i] = KeptUpTo(h, row, held, i)
    <3>1. i # 0 => i - 1 \in 0 .. Len(row) /\ i - 1 <= n
      BY <2>4
    <3>2. i # 0 => g[i - 1] = KeptUpTo(g, row, held, i - 1) /\ h[i - 1] = KeptUpTo(g, row, held, i - 1)
      BY <2>1, <3>1
    <3>. QED
      BY <3>2 DEF KeptUpTo
  <2>5. Good(h, n + 1)
    BY <2>4
  <2>. QED
    <3> HIDE DEF Good
    <3>. QED
      BY <2>3, <2>5
<1>3. Len(row) \in T
  <2> HIDE DEF T
  <2>1. \A n \in Nat : n \in T
    BY <1>1, <1>2, NatInduct
  <2>. QED
    BY <2>1
<1>4. PICK g \in [0 .. Len(row) -> Seq(X)] : Good(g, Len(row))
  BY <1>3
<1>5. Keeps(g, row, held)
  <2>1. \A i \in 0 .. Len(row) : g[i] = KeptUpTo(g, row, held, i)
    BY <1>4
  <2>2. g = [i \in 0 .. Len(row) |-> g[i]]
    BY <1>4
  <2>. QED
    BY <2>1, <2>2 DEF Keeps
<1>. QED
  BY <1>5 DEF Keeper

LEMMA NothingKept == ASSUME NEW g, NEW row, NEW held PROVE KeptUpTo(g, row, held, 0) = <<>>
  BY DEF KeptUpTo

LEMMA KeptInDomain ==
  ASSUME NEW X, NEW row \in Seq(X), NEW held
  PROVE  \A i \in 0 .. Len(row) : Keeper(row, held)[i] = KeptUpTo(Keeper(row, held), row, held, i)
<1>. PICK a : a = Keeper(row, held)
  OBVIOUS
<1>1. a = [i \in 0 .. Len(row) |-> KeptUpTo(a, row, held, i)]
  BY KeeperExists DEF Keeps
<1>. QED
  BY <1>1

\* What has been held of the first i.
Chosen(row, held, i) == {x \in held : \E j \in 1 .. i : x = row[j]}

LEMMA KeptSoFar ==
  ASSUME NEW X, NEW row \in Seq(X), NEW held
  PROVE  \A n \in Nat : n <= Len(row) =>
           /\ Keeper(row, held)[n] \in Seq(X)
           /\ ToSet(Keeper(row, held)[n]) = Chosen(row, held, n)
           /\ n >= 1 /\ row[1] \in held =>
                Len(Keeper(row, held)[n]) >= 1 /\ Keeper(row, held)[n][1] = row[1]
<1>. PICK a : a = Keeper(row, held)
  OBVIOUS
<1> DEFINE Right(n) == /\ a[n] \in Seq(X) /\ ToSet(a[n]) = Chosen(row, held, n)
                       /\ n >= 1 /\ row[1] \in held => Len(a[n]) >= 1 /\ a[n][1] = row[1]
           T == {n \in Nat : n <= Len(row) => Right(n)}
<1>0. \A i \in 0 .. Len(row) : a[i] = KeptUpTo(a, row, held, i)
  BY KeptInDomain
<1>a. a[0] = <<>>
  <2>1. 0 \in 0 .. Len(row)
    OBVIOUS
  <2>. QED
    BY <1>0, <2>1, NothingKept, Zenon
<1>1. 0 \in T
  <2>1. <<>> \in Seq(X) /\ ~ (0 >= 1)
    OBVIOUS
  <2>2. ToSet(<<>>) = {}
    BY DEF ToSet
  <2>3. Chosen(row, held, 0) = {}
    BY DEF Chosen
  <2>4. Right(0)
    BY <1>a, <2>1, <2>2, <2>3, Zenon
  <2>. QED
    BY <2>4
<1>2. ASSUME NEW n \in Nat, n \in T PROVE n + 1 \in T
  <2> SUFFICES ASSUME n + 1 <= Len(row) PROVE Right(n + 1)
    OBVIOUS
  <2>1. Right(n)
    BY <1>2
  <2>2. a[n + 1] = IF row[n + 1] \in held THEN Append(a[n], row[n + 1]) ELSE a[n]
    BY <1>0 DEF KeptUpTo
  <2>3. row[n + 1] \in X
    OBVIOUS
  <2>4. CASE row[n + 1] \in held
    <3>1. a[n + 1] = Append(a[n], row[n + 1])
      BY <2>2, <2>4
    <3>2. a[n + 1] \in Seq(X) /\ Len(a[n + 1]) = Len(a[n]) + 1
      BY <2>1, <2>3, <3>1
    <3>3. \A i \in 1 .. Len(a[n]) : a[n + 1][i] = a[n][i]
      BY <2>1, <2>3, <3>1
    <3>4. a[n + 1][Len(a[n]) + 1] = row[n + 1]
      BY <2>1, <2>3, <3>1
    <3>5. ToSet(a[n + 1]) = ToSet(a[n]) \cup {row[n + 1]}
      <4>1. DOMAIN a[n] = 1 .. Len(a[n]) /\ DOMAIN a[n + 1] = 1 .. Len(a[n]) + 1
        BY <2>1, <3>2
      <4>2. \A x \in ToSet(a[n]) : x \in ToSet(a[n + 1])
        BY <3>3, <4>1 DEF ToSet
      <4>3. row[n + 1] \in ToSet(a[n + 1])
        BY <2>1, <3>4, <4>1 DEF ToSet
      <4>4. ASSUME NEW i \in DOMAIN a[n + 1] PROVE a[n + 1][i] \in ToSet(a[n]) \cup {row[n + 1]}
        <5>1. CASE i = Len(a[n]) + 1
          BY <3>4, <5>1
        <5>2. CASE i # Len(a[n]) + 1
          <6>1. i \in 1 .. Len(a[n])
            BY <2>1, <4>1, <5>2
          <6>. QED
            BY <3>3, <4>1, <6>1 DEF ToSet
        <5>. QED
          BY <5>1, <5>2
      <4>. QED
        BY <4>2, <4>3, <4>4, ZenonT(100) DEF ToSet
    <3>6. Chosen(row, held, n + 1) = Chosen(row, held, n) \cup {row[n + 1]}
      BY <2>4 DEF Chosen
    <3>7. row[1] \in held => Len(a[n + 1]) >= 1 /\ a[n + 1][1] = row[1]
      <4>1. CASE n = 0
        <5>1. Len(a[n]) = 0
          BY <1>a, <4>1
        <5>. QED
          BY <2>1, <3>2, <3>4, <4>1, <5>1
      <4>2. CASE n # 0
        <5>1. ASSUME row[1] \in held PROVE Len(a[n]) >= 1 /\ a[n][1] = row[1]
          <6>1. n >= 1
            BY <4>2
          <6>. QED
            BY <2>1, <5>1, <6>1
        <5>2. Len(a[n]) \in Nat
          BY <2>1
        <5>3. Len(a[n]) >= 1 => a[n + 1][1] = a[n][1]
          BY <3>3, <5>2
        <5>. QED
          BY <3>2, <5>1, <5>2, <5>3
      <4>. QED
        BY <4>1, <4>2
    <3>. QED
      BY <2>1, <3>2, <3>5, <3>6, <3>7
  <2>5. CASE row[n + 1] \notin held
    <3>1. a[n + 1] = a[n]
      BY <2>2, <2>5
    <3>2. Chosen(row, held, n + 1) = Chosen(row, held, n)
      BY <2>5 DEF Chosen
    <3>3. row[1] \in held => n >= 1
      BY <2>5
    <3>. QED
      BY <2>1, <3>1, <3>2, <3>3
  <2>. QED
    BY <2>4, <2>5
<1>3. \A n \in Nat : n \in T
  <2> HIDE DEF T
  <2>. QED
    BY <1>1, <1>2, NatInduct
<1>. QED
  BY <1>3

\* What is held, as a set, and the first of it.
LEMMA OnlyIs ==
  ASSUME NEW X, NEW row \in Seq(X), NEW held
  PROVE  /\ Only(row, held) \in Seq(X)
         /\ ToSet(Only(row, held)) = ToSet(row) \cap held
         /\ Len(row) >= 1 /\ row[1] \in held => Len(Only(row, held)) >= 1 /\ Only(row, held)[1] = row[1]
<1>1. Len(row) \in Nat /\ Len(row) <= Len(row)
  OBVIOUS
<1>. PICK o : o = Only(row, held)
  OBVIOUS
<1>2. /\ o \in Seq(X) /\ ToSet(o) = Chosen(row, held, Len(row))
      /\ Len(row) >= 1 /\ row[1] \in held => Len(o) >= 1 /\ o[1] = row[1]
  BY <1>1, OnlyUnfolds, KeptSoFar
<1>3. Chosen(row, held, Len(row)) = ToSet(row) \cap held
  BY DEF Chosen, ToSet
<1>. QED
  BY <1>2, <1>3

\* Of one.
LEMMA OnlyOfOne ==
  ASSUME NEW x, NEW held PROVE Only(<<x>>, held) = IF x \in held THEN <<x>> ELSE <<>>
<1>. PICK row : row = <<x>>
  BY Zenon
<1>. PICK a : a = Keeper(row, held)
  OBVIOUS
<1>1. row \in Seq({x}) /\ Len(row) = 1 /\ row[1] = x
  OBVIOUS
<1>2. \A i \in 0 .. Len(row) : a[i] = KeptUpTo(a, row, held, i)
  BY <1>1, KeptInDomain, Zenon
<1>3. 0 \in 0 .. Len(row) /\ 1 \in 0 .. Len(row)
  BY <1>1
<1>4. a[0] = <<>>
  <2>1. a[0] = KeptUpTo(a, row, held, 0)
    BY <1>2, <1>3
  <2>. QED
    BY <2>1, NothingKept
<1>5. KeptUpTo(a, row, held, 1) = IF x \in held THEN Append(a[0], x) ELSE a[0]
  BY <1>1 DEF KeptUpTo
<1>6. a[1] = IF x \in held THEN <<x>> ELSE <<>>
  <2>1. Append(<<>>, x) = <<x>>
    OBVIOUS
  <2>. QED
    BY <1>2, <1>3, <1>4, <1>5, <2>1, Zenon
<1>7. Only(row, held) = a[1]
  BY <1>1, OnlyUnfolds, Zenon
<1>. QED
  BY <1>6, <1>7, Zenon

(***************************************************************************)
(* The scheduling functions: what they share.                              *)
(***************************************************************************)

IsList(s) == \E X : s \in Seq(X)

\* Each node has a schedule, and each child the two sides and the two frames of its transaction.
Stations ==
  /\ parent \in Trees
  /\ DOMAIN schedule = Nodes /\ \A n \in Nodes : IsList(schedule[n])
  /\ DOMAIN asking = Children /\ DOMAIN serving = Children
  /\ DOMAIN request = Children /\ DOMAIN response = Children

LEMMA Family ==
  ASSUME parent \in Trees, NEW c \in Children
  PROVE  /\ c \in Nodes /\ parent[c] \in Nodes /\ parent[c] # c
         /\ parent[c] \in Children => parent[parent[c]] # c
  BY SixTopAssumption DEF SixTopAssumption, Children

LEMMA ListIs == ASSUME NEW s, IsList(s) PROVE Len(s) \in Nat /\ DOMAIN s = 1 .. Len(s)
  BY DEF IsList

LEMMA OnlyList == ASSUME NEW s, IsList(s), NEW held PROVE IsList(Only(s, held))
  BY OnlyIs DEF IsList

LEMMA WithoutList == ASSUME NEW s, IsList(s), NEW cells PROVE IsList(Without(s, cells))
  BY OnlyList DEF Without

LEMMA WithList == ASSUME NEW s, IsList(s), NEW opt, NEW peer, NEW slot PROVE IsList(With(s, opt, peer, slot))
<1>. PICK w : w = Without(s, {slot})
  OBVIOUS
<1>1. IsList(w)
  BY WithoutList
<1>. PICK X : w \in Seq(X)
  BY <1>1 DEF IsList
<1>. PICK l : l = [slot |-> slot, opt |-> opt, peer |-> peer]
  BY Zenon
<1>2. Append(w, l) \in Seq(X \cup {l})
  <2>1. w \in Seq(X \cup {l})
    OBVIOUS
  <2>. QED
    BY <2>1
<1>3. With(s, opt, peer, slot) = Append(w, l)
  BY DEF With
<1>. QED
  BY <1>2, <1>3 DEF IsList

\* One node's schedule changes.
LEMMA Rescheduled ==
  ASSUME DOMAIN schedule = Nodes, \A n \in Nodes : IsList(schedule[n]),
         NEW n \in Nodes, NEW links, IsList(links), schedule' = [schedule EXCEPT ![n] = links]
  PROVE  /\ DOMAIN schedule' = Nodes /\ \A m \in Nodes : IsList(schedule'[m])
         /\ schedule'[n] = links /\ \A m \in Nodes \ {n} : schedule'[m] = schedule[m]
<1>1. \A m \in Nodes : schedule'[m] = IF m = n THEN links ELSE schedule[m]
  OBVIOUS
<1>2. \A m \in Nodes : IsList(schedule'[m])
  BY <1>1
<1>. QED
  BY <1>1, <1>2

SidesKept ==
  /\ parent' = parent
  /\ DOMAIN asking' = DOMAIN asking /\ DOMAIN serving' = DOMAIN serving
  /\ DOMAIN request' = DOMAIN request /\ DOMAIN response' = DOMAIN response

SchedulesKept == DOMAIN schedule' = Nodes /\ \A n \in Nodes : IsList(schedule'[n])

LEMMA StationsKept == ASSUME Stations, SidesKept, SchedulesKept PROVE Stations'
  BY DEF Stations, SidesKept, SchedulesKept, Children

LEMMA TroubleKeeps == ASSUME NEW c, Trouble(c) PROVE SidesKept /\ schedule' = schedule
<1>1. CASE LoseRequest(c)
  BY <1>1 DEF LoseRequest, SidesKept
<1>2. CASE LoseResponse(c)
  BY <1>2 DEF LoseResponse, SidesKept
<1>3. CASE AckLost(c)
  BY <1>3 DEF AckLost, SidesKept
<1>4. CASE TimeoutOf(c)
  BY <1>4 DEF TimeoutOf, SidesKept
<1>. QED
  BY <1>1, <1>2, <1>3, <1>4 DEF Trouble

LEMMA SimpleStations == ASSUME Stations, SfSimpleNext PROVE Stations'
<1>1. PICK c \in Children :
        \/ Tick(c) \/ SimpleRequestInput(c) \/ SimpleResponseInput(c) \/ SimpleResponseSent(c) \/ Trouble(c)
  BY DEF SfSimpleNext
<1>2. c \in Nodes /\ parent[c] \in Nodes
  BY Family DEF Stations
<1>3. IsList(schedule[c]) /\ IsList(schedule[parent[c]]) /\ DOMAIN schedule = Nodes /\ \A n \in Nodes : IsList(schedule[n])
  BY <1>2 DEF Stations
<1>4. CASE Tick(c)
  <2>1. SidesKept
    BY <1>4 DEF Tick, sf_simple_add_links, sf_simple_remove_links, Request, SidesKept
  <2>2. schedule' = schedule
    BY <1>4 DEF Tick
  <2>. QED
    BY <1>3, <2>1, <2>2, StationsKept DEF SchedulesKept
<1>5. CASE SimpleRequestInput(c)
  <2>1. SidesKept
    BY <1>5 DEF SimpleRequestInput, add_req_input, delete_req_input, Respond, NoResponse, SidesKept
  <2>2. schedule' = schedule
    BY <1>5 DEF SimpleRequestInput
  <2>. QED
    BY <1>3, <2>1, <2>2, StationsKept DEF SchedulesKept
<1>6. CASE SimpleResponseInput(c)
  <2>1. SidesKept
    BY <1>6 DEF SimpleResponseInput, Takes, SidesKept
  <2>. PICK links : links = IF asking[c] = "ADD" THEN add_links_to_schedule(c, "TX", parent[c], response[c].cells)
                            ELSE remove_links_to_schedule(c, response[c].cells)
    OBVIOUS
  <2>2. IsList(links)
    BY <1>3, WithList, WithoutList DEF add_links_to_schedule, remove_links_to_schedule
  <2>3. schedule' = [schedule EXCEPT ![c] = links]
    BY <1>6 DEF SimpleResponseInput
  <2>4. SchedulesKept
    BY <1>2, <1>3, <2>2, <2>3, Rescheduled DEF SchedulesKept
  <2>. QED
    BY <2>1, <2>4, StationsKept
<1>7. CASE SimpleResponseSent(c)
  <2>1. SidesKept
    BY <1>7 DEF SimpleResponseSent, Sent, SidesKept
  <2>. PICK links : links = IF serving[c].callback = "add" THEN add_response_sent_callback(c)
                            ELSE delete_response_sent_callback(c)
    OBVIOUS
  <2>2. IsList(links)
    BY <1>3, WithList, WithoutList DEF add_response_sent_callback, delete_response_sent_callback,
       add_links_to_schedule, remove_links_to_schedule
  <2>3. schedule' = schedule \/ schedule' = [schedule EXCEPT ![parent[c]] = links]
    BY <1>7 DEF SimpleResponseSent
  <2>4. SchedulesKept
    BY <1>2, <1>3, <2>2, <2>3, Rescheduled DEF SchedulesKept
  <2>. QED
    BY <2>1, <2>4, StationsKept
<1>8. CASE Trouble(c)
  BY <1>3, <1>8, TroubleKeeps, StationsKept DEF SchedulesKept
<1>. QED
  BY <1>1, <1>4, <1>5, <1>6, <1>7, <1>8

LEMMA ShellKeeps ==
  ASSUME Stations, NEW c \in Children, shell_subcmd(c)
  PROVE  SidesKept /\ SchedulesKept
<1>1. c \in Nodes /\ IsList(schedule[c]) /\ DOMAIN schedule = Nodes /\ \A n \in Nodes : IsList(schedule[n])
  BY Family DEF Stations
<1>2. UNCHANGED <<parent, serving, response>>
  BY DEF shell_subcmd
<1>3. PICK args \in parse_args :
        \/ add_delete(c, args.cmd, args.slot) \/ count(c) \/ list(c) \/ clear(c)
  BY DEF shell_subcmd
<1>4. \E cmd, cells : Request(c, cmd, cells)
  BY <1>3 DEF add_delete, count, list, clear
<1>5. SidesKept
  BY <1>2, <1>4 DEF Request, SidesKept
<1>6. schedule' = schedule \/ schedule' = [schedule EXCEPT ![c] = reserve_cell(c, args.slot)]
  BY <1>3 DEF add_delete, count, list, clear
<1>7. IsList(reserve_cell(c, args.slot))
  BY <1>1, WithList, WithoutList DEF reserve_cell, add_cell, delete_cell
<1>8. SchedulesKept
  BY <1>1, <1>6, <1>7, Rescheduled DEF SchedulesKept
<1>. QED
  BY <1>5, <1>8

LEMMA HandlersKeep ==
  ASSUME Stations, NEW c \in Children, PlugtestRequestInput(c)
  PROVE  SidesKept /\ SchedulesKept
<1>1. /\ parent[c] \in Nodes /\ IsList(schedule[parent[c]])
      /\ DOMAIN schedule = Nodes /\ \A n \in Nodes : IsList(schedule[n])
  BY Family DEF Stations
<1>2. \E rc, cells, callback, len : Respond(c, rc, cells, callback, len)
  BY DEF PlugtestRequestInput, add_req_handler, delete_req_handler, count_req_handler, list_req_handler, clear_req_handler
<1>3. SidesKept
  BY <1>2 DEF PlugtestRequestInput, Respond, SidesKept
<1>4. schedule' = schedule \/ schedule' = [schedule EXCEPT ![parent[c]] = clear_cells(parent[c], c)]
  BY DEF PlugtestRequestInput, add_req_handler, delete_req_handler, count_req_handler, list_req_handler, clear_req_handler
<1>5. IsList(clear_cells(parent[c], c))
  BY <1>1, OnlyList DEF clear_cells
<1>6. SchedulesKept
  BY <1>1, <1>4, <1>5, Rescheduled DEF SchedulesKept
<1>. QED
  BY <1>3, <1>6

LEMMA ResponseInputKeeps ==
  ASSUME Stations, NEW c \in Children, PlugtestResponseInput(c)
  PROVE  SidesKept /\ SchedulesKept
<1>1. c \in Nodes /\ IsList(schedule[c]) /\ DOMAIN schedule = Nodes /\ \A n \in Nodes : IsList(schedule[n])
  BY Family DEF Stations
<1>2. SidesKept
  BY DEF PlugtestResponseInput, Takes, SidesKept
<1>3. PICK links :
        /\ links \in {add_res_handler(c, response[c].cells[1]), delete_res_handler(c, response[c].cells[1]),
                      clear_res_handler(c), schedule[c]}
        /\ schedule' = [schedule EXCEPT ![c] = links]
  BY Zenon DEF PlugtestResponseInput
<1>4. IsList(links)
  BY <1>1, <1>3, WithList, WithoutList, OnlyList
     DEF add_res_handler, delete_res_handler, clear_res_handler, add_cell, delete_cell, clear_cells
<1>5. SchedulesKept
  BY <1>1, <1>3, <1>4, Rescheduled DEF SchedulesKept
<1>. QED
  BY <1>2, <1>5

LEMMA ResponseSentKeeps ==
  ASSUME Stations, NEW c \in Children, PlugtestResponseSent(c)
  PROVE  SidesKept /\ SchedulesKept
<1>1. /\ parent[c] \in Nodes /\ IsList(schedule[parent[c]])
      /\ DOMAIN schedule = Nodes /\ \A n \in Nodes : IsList(schedule[n])
  BY Family DEF Stations
<1>2. SidesKept
  BY DEF PlugtestResponseSent, Sent, SidesKept
<1>. PICK links : links = IF serving[c].callback = "add" THEN add_res_sent_callback(c) ELSE delete_res_sent_callback(c)
  OBVIOUS
<1>3. IsList(links)
  BY <1>1, WithList, WithoutList DEF add_res_sent_callback, delete_res_sent_callback, add_cell, delete_cell
<1>4. schedule' = schedule \/ schedule' = [schedule EXCEPT ![parent[c]] = links]
  BY DEF PlugtestResponseSent
<1>5. SchedulesKept
  BY <1>1, <1>3, <1>4, Rescheduled DEF SchedulesKept
<1>. QED
  BY <1>2, <1>5

LEMMA PlugtestStations == ASSUME Stations, SfPlugtestNext PROVE Stations'
<1>1. PICK c \in Children : \/ shell_subcmd(c) \/ PlugtestRequestInput(c)
                            \/ PlugtestResponseInput(c) \/ PlugtestResponseSent(c) \/ Trouble(c)
  BY DEF SfPlugtestNext
<1>2. CASE Trouble(c)
  <2>1. SchedulesKept
    BY <1>2, TroubleKeeps DEF SchedulesKept, Stations
  <2>. QED
    BY <1>2, <2>1, TroubleKeeps, StationsKept
<1>. QED
  BY <1>1, <1>2, ShellKeeps, HandlersKeep, ResponseInputKeeps, ResponseSentKeeps, StationsKept

(***************************************************************************)
(* The cells that are listed.                                              *)
(***************************************************************************)

\* What was told of the cells L when the offset is o.
ToldOf(o, l, L) ==
  /\ o > 0 => o < Len(L) /\ l = SubSeq(L, 1, o)
  /\ o = 0 => l = <<>> \/ l = L

\* A response to a LIST request, for the offset o.
Answer(rs, o, l, m, L) ==
  /\ Len(rs.cells) \in Nat
  /\ ~ m => /\ o = 0 => l = <<>>
            /\ Len(L) = 0 => rs.rc = "EOL" /\ rs.cells = <<>>
            /\ Len(L) > 0 => /\ rs.cells = <<L[o + 1]>>
                             /\ rs.rc = IF o + 1 = Len(L) THEN "EOL" ELSE "SUCCESS"

Listing(a, rq, rs, o, l, m, L) ==
  /\ o \in Nat
  /\ rs # NoFrame => rq = NoRequest
  /\ rq # NoRequest => /\ a = None \/ a = rq.cmd
                       /\ rq.cmd = "LIST" => rq.cells = <<o>>
  /\ rs # NoFrame /\ a = "LIST" => Answer(rs, o, l, m, L)
  /\ ~ m => ToldOf(o, l, L)

ListingOf(c) ==
  Listing(asking[c], request[c], response[c], cell_list_offset[c], listed[c], moved[c], Cells(c))

ListingInv ==
  /\ Stations
  /\ DOMAIN cell_list_offset = Children /\ DOMAIN listed = Children /\ DOMAIN moved = Children
  /\ \A c \in Children : ListingOf(c)

\* As it was, or the cells moved since.
Unmoved(m, L, m1, L1) == ~ m1 => ~ m /\ L1 = L

LEMMA MovedOn ==
  ASSUME NEW a, NEW rq, NEW rs, NEW o, NEW l, NEW m, NEW L, Listing(a, rq, rs, o, l, m, L),
         NEW m1, NEW L1, Unmoved(m, L, m1, L1)
  PROVE  Listing(a, rq, rs, o, l, m1, L1)
  BY DEF Listing, Answer, ToldOf, Unmoved

\* A transaction is over, or a frame is lost.
LEMMA LessIsUnderWay ==
  ASSUME NEW a, NEW rq, NEW rs, NEW o, NEW l, NEW m, NEW L, Listing(a, rq, rs, o, l, m, L),
         NEW a1 \in {a, None}, NEW rq1 \in {rq, NoRequest}, NEW rs1 \in {rs, NoFrame}
  PROVE  Listing(a1, rq1, rs1, o, l, m, L)
<1>1. None # "LIST"
  BY DEF None
<1>. QED
  BY <1>1 DEF Listing

\* A command.
LEMMA CommandGiven ==
  ASSUME NEW a, NEW rq, NEW o, NEW l, NEW m, NEW L, Listing(a, rq, NoFrame, o, l, m, L),
         NEW cmd, NEW cells, cmd = "LIST" => cells = <<o>>
  PROVE  Listing(cmd, [cmd |-> cmd, cells |-> cells], NoFrame, o, l, m, L)
  BY DEF Listing

LEMMA Cleared ==
  ASSUME NEW L, NEW cells
  PROVE  Listing("CLEAR", [cmd |-> "CLEAR", cells |-> cells], NoFrame, 0, <<>>, FALSE, L)
<1>. PICK l : l = <<>>
  OBVIOUS
<1>1. Listing("CLEAR", [cmd |-> "CLEAR", cells |-> cells], NoFrame, 0, l, FALSE, L)
  BY DEF Listing, ToldOf
<1>. QED
  BY <1>1, Zenon

\* A handler other than that of LIST answers.
LEMMA OtherAnswered ==
  ASSUME NEW a, NEW rq, NEW rs, NEW o, NEW l, NEW m, NEW L, Listing(a, rq, rs, o, l, m, L),
         rq # NoRequest, rq.cmd # "LIST", NEW rs1
  PROVE  Listing(a, NoRequest, rs1, o, l, m, L)
<1>1. None # "LIST"
  BY DEF None
<1>. QED
  BY <1>1 DEF Listing

\* The handler of LIST answers.
LEMMA EmptyIs == ASSUME NEW s, IsList(s) PROVE (s = <<>>) <=> Len(s) = 0
  BY DEF IsList

LEMMA ListAnswered ==
  ASSUME NEW a, NEW rq, NEW rs, NEW o, NEW l, NEW m, NEW L, Listing(a, rq, rs, o, l, m, L), IsList(L),
         rq # NoRequest, rq.cmd = "LIST", NEW rs1, NEW l1, NEW m1,
         IF L = <<>> THEN rs1.rc = "EOL" /\ rs1.cells = <<>>
         ELSE /\ rs1.rc = IF o + 1 = Len(L) THEN "EOL" ELSE "SUCCESS"
              /\ rs1.cells = <<IF o < Len(L) THEN L[o + 1] ELSE Garbage>>,
         IF o = 0 THEN m1 = FALSE /\ l1 = <<>> ELSE m1 = m /\ l1 = l
  PROVE  Listing(a, NoRequest, rs1, o, l1, m1, L)
<1>1. o \in Nat /\ (~ m => ToldOf(o, l, L)) /\ Len(L) \in Nat
  BY ListIs DEF Listing
<1>2. ToldOf(0, <<>>, L)
  <2>1. ~ (0 > 0)
    OBVIOUS
  <2>. QED
    BY <2>1, Zenon DEF ToldOf
<1>3. ~ m1 => ToldOf(o, l1, L)
  BY <1>1, <1>2, Zenon
<1>4. Len(rs1.cells) \in Nat
  <2>1. \A x : Len(<<x>>) \in Nat
    OBVIOUS
  <2>2. Len(<<>>) \in Nat
    OBVIOUS
  <2>. QED
    BY <2>1, <2>2, Zenon
<1>5. ASSUME ~ m1, Len(L) > 0 PROVE o < Len(L)
  BY <1>1, <1>3, <1>5 DEF ToldOf
<1>6. o = 0 => l1 = <<>>
  BY Zenon
<1>7. Len(L) = 0 => rs1.rc = "EOL" /\ rs1.cells = <<>>
  BY EmptyIs, Zenon
<1>8. ASSUME ~ m1, Len(L) > 0
      PROVE  rs1.cells = <<L[o + 1]>> /\ rs1.rc = IF o + 1 = Len(L) THEN "EOL" ELSE "SUCCESS"
  <2>1. Len(L) # 0
    BY <1>1, <1>8
  <2>2. L # <<>>
    BY <2>1, EmptyIs, Zenon
  <2>. QED
    BY <1>5, <1>8, <2>2, Zenon
<1>9. Answer(rs1, o, l1, m1, L)
  BY <1>4, <1>6, <1>7, <1>8, Zenon DEF Answer
<1>. QED
  BY <1>1, <1>3, <1>9, Zenon DEF Listing

LEMMA FirstOnes ==
  ASSUME NEW L, IsList(L), NEW o \in Nat, o < Len(L)
  PROVE  /\ SubSeq(L, 1, o) \o <<L[o + 1]>> = SubSeq(L, 1, o + 1)
         /\ o + 1 = Len(L) => SubSeq(L, 1, o + 1) = L
         /\ Len(SubSeq(L, 1, o)) = o
<1>. PICK X : L \in Seq(X)
  BY DEF IsList
<1>. PICK s : s = SubSeq(L, 1, o)
  BY Zenon
<1>. PICK t : t = SubSeq(L, 1, o + 1)
  BY Zenon
<1>. PICK w : w = <<L[o + 1]>>
  BY Zenon
<1>1. s \in Seq(X) /\ Len(s) = o /\ \A i \in 1 .. o : s[i] = L[i]
  OBVIOUS
<1>2. t \in Seq(X) /\ Len(t) = o + 1 /\ \A i \in 1 .. o + 1 : t[i] = L[i]
  OBVIOUS
<1>3. w \in Seq(X) /\ Len(w) = 1 /\ w[1] = L[o + 1]
  OBVIOUS
<1>4. /\ s \o w \in Seq(X) /\ Len(s \o w) = o + 1
      /\ \A i \in 1 .. o + 1 : (s \o w)[i] = IF i <= o THEN s[i] ELSE w[i - o]
  BY <1>1, <1>3
<1>5. s \o w = t
  <2>1. \A i \in 1 .. o + 1 : (s \o w)[i] = t[i]
    BY <1>1, <1>2, <1>3, <1>4
  <2>. QED
    BY <1>2, <1>4, <2>1, SeqEqual, Zenon
<1>6. o + 1 = Len(L) => t = L
  BY <1>2, SeqEqual
<1>. QED
  BY <1>1, <1>5, <1>6

LEMMA ListTaken ==
  ASSUME NEW a, NEW rq, NEW rs, NEW o, NEW l, NEW m, NEW L, Listing(a, rq, rs, o, l, m, L), IsList(L),
         rs # NoFrame, a = "LIST", NEW rs1, NEW o1, NEW l1,
         o1 = IF rs.rc = "SUCCESS" THEN o + Len(rs.cells) ELSE 0, l1 = l \o rs.cells
  PROVE  Listing(None, rq, rs1, o1, l1, m, L)
<1>1. /\ o \in Nat /\ Len(L) \in Nat /\ rq = NoRequest
      /\ Answer(rs, o, l, m, L) /\ (~ m => ToldOf(o, l, L))
  BY ListIs DEF Listing
<1>2. Len(rs.cells) \in Nat
  BY <1>1 DEF Answer
<1>3. o1 \in Nat
  BY <1>1, <1>2
<1>4. ASSUME ~ m PROVE ToldOf(o1, l1, L)
  <2>1. CASE Len(L) = 0
    <3>1. rs.rc = "EOL" /\ rs.cells = <<>> /\ o = 0
      BY <1>1, <1>4, <2>1 DEF Answer, ToldOf
    <3>2. l = <<>>
      BY <1>1, <1>4, <3>1 DEF Answer
    <3>3. "EOL" # "SUCCESS" /\ <<>> \o <<>> = <<>> /\ ~ (0 > 0)
      OBVIOUS
    <3>4. o1 = 0 /\ l1 = <<>>
      BY <3>1, <3>2, <3>3, Zenon
    <3>. QED
      BY <3>3, <3>4, Zenon DEF ToldOf
  <2>2. CASE Len(L) > 0
    <3>1. /\ rs.cells = <<L[o + 1]>> /\ rs.rc = IF o + 1 = Len(L) THEN "EOL" ELSE "SUCCESS"
          /\ o = 0 => l = <<>>
      BY <1>1, <1>4, <2>2, Zenon DEF Answer
    <3>2. o < Len(L) /\ l = SubSeq(L, 1, o)
      <4>1. CASE o = 0
        <5>1. SubSeq(L, 1, 0) = <<>>
          OBVIOUS
        <5>. QED
          BY <2>2, <3>1, <4>1, <5>1, Zenon
      <4>2. CASE o # 0
        <5>1. o > 0
          BY <1>1, <4>2
        <5>. QED
          BY <1>1, <1>4, <5>1, Zenon DEF ToldOf
      <4>. QED
        BY <4>1, <4>2
    <3>3. l1 = SubSeq(L, 1, o + 1)
      BY <1>1, <3>1, <3>2, FirstOnes, ZenonT(100)
    <3>4. CASE o + 1 = Len(L)
      <4>1. l1 = L
        BY <1>1, <3>2, <3>3, <3>4, FirstOnes, Zenon
      <4>2. o1 = 0
        BY <3>1, <3>4
      <4>3. ~ (0 > 0)
        OBVIOUS
      <4>. QED
        BY <4>1, <4>2, <4>3, Zenon DEF ToldOf
    <3>5. CASE o + 1 # Len(L)
      <4>1. rs.rc = "SUCCESS"
        BY <3>1, <3>5, Zenon
      <4>2. Len(<<L[o + 1]>>) = 1
        OBVIOUS
      <4>3. o1 = o + 1
        BY <3>1, <4>1, <4>2, Zenon
      <4>4. o + 1 > 0 /\ o + 1 < Len(L) /\ o + 1 # 0
        BY <1>1, <3>2, <3>5
      <4>. QED
        BY <3>3, <4>3, <4>4, Zenon DEF ToldOf
    <3>. QED
      BY <3>4, <3>5
  <2>. QED
    BY <1>1, <2>1, <2>2
<1>5. None # "LIST"
  BY DEF None
<1>. QED
  BY <1>1, <1>3, <1>4, <1>5, Zenon DEF Listing

\* A response to another command is taken.
LEMMA OtherTaken ==
  ASSUME NEW a, NEW rq, NEW rs, NEW o, NEW l, NEW m, NEW L, Listing(a, rq, rs, o, l, m, L), rs # NoFrame, NEW rs1
  PROVE  Listing(None, rq, rs1, o, l, m, L)
<1>1. None # "LIST"
  BY DEF None
<1>. QED
  BY <1>1 DEF Listing

LEMMA CellsList == ASSUME Stations, NEW c \in Children PROVE IsList(Cells(c))
<1>. PICK links : links = LinksOf(schedule[parent[c]], "RX", c)
  OBVIOUS
<1>1. IsList(schedule[parent[c]])
  BY Family DEF Stations
<1>2. Len(links) \in Nat
  BY <1>1, OnlyList, ListIs DEF LinksOf
<1>. PICK f : f = [i \in 1 .. Len(links) |-> links[i].slot]
  BY Zenon
<1>. PICK X : X = {links[i].slot : i \in 1 .. Len(links)}
  BY Zenon
<1>3. f \in [1 .. Len(links) -> X]
  OBVIOUS
<1>4. f \in Seq(X)
  BY <1>2, <1>3
<1>5. Cells(c) = f
  BY DEF Cells, LinksWith
<1>. QED
  BY <1>4, <1>5, Zenon DEF IsList

\* The history tells whether the cells moved.
LEMMA MovesTell ==
  ASSUME Moves(schedule'), parent' = parent, NEW d \in Children
  PROVE  Unmoved(moved[d], Cells(d), moved'[d], Cells(d)')
<1>1. moved'[d] = (moved[d] \/ (LinksOf(schedule'[parent[d]], "RX", d) # LinksOf(schedule[parent[d]], "RX", d)))
  BY DEF Moves
<1>2. LinksOf(schedule'[parent[d]], "RX", d) = LinksOf(schedule[parent[d]], "RX", d) => Cells(d)' = Cells(d)
  BY DEF Cells, LinksWith
<1>. QED
  BY <1>1, <1>2, Zenon DEF Unmoved

LEMMA CellsStay == ASSUME schedule' = schedule, parent' = parent, NEW d PROVE Cells(d)' = Cells(d)
  BY DEF Cells, LinksWith, LinksOf

\* What a step of child c leaves to the others.
OthersAsTheyWere(c) ==
  \A d \in Children \ {c} :
    /\ asking'[d] = asking[d] /\ request'[d] = request[d] /\ response'[d] = response[d]
    /\ cell_list_offset'[d] = cell_list_offset[d] /\ listed'[d] = listed[d]
    /\ Unmoved(moved[d], Cells(d), moved'[d], Cells(d)')

LEMMA ListingKept ==
  ASSUME ListingInv, Stations', parent' = parent, NEW c \in Children, ListingOf(c)', OthersAsTheyWere(c),
         DOMAIN cell_list_offset' = Children, DOMAIN listed' = Children, DOMAIN moved' = Children
  PROVE  ListingInv'
<1>1. Children' = Children
  BY DEF Children
<1>2. ASSUME NEW d \in Children, d # c PROVE ListingOf(d)'
  <2>1. ListingOf(d)
    BY DEF ListingInv
  <2>2. Listing(asking[d], request[d], response[d], cell_list_offset[d], listed[d], moved'[d], Cells(d)')
    BY <1>2, <2>1, MovedOn, Zenon DEF ListingOf, OthersAsTheyWere
  <2>. QED
    BY <1>2, <2>2 DEF ListingOf, OthersAsTheyWere
<1>. QED
  BY <1>1, <1>2 DEF ListingInv

LEMMA SidesOf ==
  ASSUME ListingInv
  PROVE  /\ DOMAIN asking = Children /\ DOMAIN request = Children /\ DOMAIN response = Children
         /\ DOMAIN cell_list_offset = Children /\ DOMAIN listed = Children /\ DOMAIN moved = Children
  BY DEF ListingInv, Stations

LEMMA TroubleListing ==
  ASSUME ListingInv, NEW c \in Children, Trouble(c), UNCHANGED sfpVars, Stations' PROVE ListingInv'
<1>1. parent' = parent /\ schedule' = schedule
  BY TroubleKeeps DEF SidesKept
<1>2. cell_list_offset' = cell_list_offset /\ listed' = listed /\ moved' = moved
  BY DEF sfpVars
<1>3. /\ asking'[c] \in {asking[c], None} /\ request'[c] \in {request[c], NoRequest} /\ response'[c] \in {response[c], NoFrame}
      /\ \A d \in Children \ {c} : asking'[d] = asking[d] /\ request'[d] = request[d] /\ response'[d] = response[d]
  <2>1. CASE LoseRequest(c)
    BY <2>1, SidesOf DEF LoseRequest
  <2>2. CASE LoseResponse(c)
    BY <2>2, SidesOf DEF LoseResponse
  <2>3. CASE AckLost(c)
    BY <2>3, SidesOf DEF AckLost
  <2>4. CASE TimeoutOf(c)
    BY <2>4, SidesOf DEF TimeoutOf
  <2>. QED
    BY <2>1, <2>2, <2>3, <2>4 DEF Trouble
<1>4. \A d \in Children : Cells(d)' = Cells(d)
  BY <1>1, CellsStay
<1>5. ListingOf(c)'
  <2>1. ListingOf(c)
    BY DEF ListingInv
  <2>2. ASSUME NEW a1, NEW q1, NEW s1, a1 \in {asking[c], None}, q1 \in {request[c], NoRequest}, s1 \in {response[c], NoFrame}
        PROVE  Listing(a1, q1, s1, cell_list_offset[c], listed[c], moved[c], Cells(c))
    BY <2>1, <2>2, LessIsUnderWay DEF ListingOf
  <2>3. Listing(asking'[c], request'[c], response'[c], cell_list_offset[c], listed[c], moved[c], Cells(c))
    BY <1>3, <2>2
  <2>. QED
    BY <1>2, <1>4, <2>3 DEF ListingOf
<1>6. OthersAsTheyWere(c)
  BY <1>2, <1>3, <1>4 DEF OthersAsTheyWere, Unmoved
<1>. QED
  BY <1>1, <1>2, <1>5, <1>6, SidesOf, ListingKept

LEMMA SentListing ==
  ASSUME ListingInv, NEW c \in Children, PlugtestResponseSent(c), Stations' PROVE ListingInv'
<1>1. /\ parent' = parent /\ asking' = asking /\ request' = request /\ cell_list_offset' = cell_list_offset
      /\ listed' = listed /\ response' = [response EXCEPT ![c] = NoFrame] /\ Moves(schedule')
  BY DEF PlugtestResponseSent, Sent
<1>2. \A d \in Children : Unmoved(moved[d], Cells(d), moved'[d], Cells(d)')
  BY <1>1, MovesTell
<1>3. response'[c] = NoFrame /\ \A d \in Children \ {c} : response'[d] = response[d]
  BY <1>1, SidesOf
<1>4. ListingOf(c)'
  <2>1. ListingOf(c)
    BY DEF ListingInv
  <2>2. Listing(asking[c], request[c], NoFrame, cell_list_offset[c], listed[c], moved[c], Cells(c))
    BY <2>1, LessIsUnderWay, Zenon DEF ListingOf
  <2>3. Listing(asking[c], request[c], NoFrame, cell_list_offset[c], listed[c], moved'[c], Cells(c)')
    BY <1>2, <2>2, MovedOn, Zenon
  <2>. QED
    BY <1>1, <1>3, <2>3 DEF ListingOf
<1>5. OthersAsTheyWere(c)
  BY <1>1, <1>2, <1>3 DEF OthersAsTheyWere
<1>6. DOMAIN moved' = Children
  BY <1>1 DEF Moves
<1>. QED
  BY <1>1, <1>4, <1>5, <1>6, SidesOf, ListingKept

LEMMA TakenListing ==
  ASSUME ListingInv, NEW c \in Children, PlugtestResponseInput(c), Stations' PROVE ListingInv'
<1>1. /\ parent' = parent /\ request' = request /\ asking' = [asking EXCEPT ![c] = None]
      /\ response' = [response EXCEPT ![c].delivered = TRUE] /\ response[c] # NoFrame /\ Moves(schedule')
      /\ cell_list_offset' = IF asking[c] = "LIST"
           THEN [cell_list_offset EXCEPT ![c] = list_res_handler(c, response[c].rc, Len(response[c].cells))]
           ELSE cell_list_offset
      /\ listed' = IF asking[c] = "LIST" THEN [listed EXCEPT ![c] = @ \o response[c].cells] ELSE listed
  BY DEF PlugtestResponseInput, Takes
<1>2. \A d \in Children : Unmoved(moved[d], Cells(d), moved'[d], Cells(d)')
  BY <1>1, MovesTell
<1>3. /\ asking'[c] = None
      /\ \A d \in Children \ {c} : asking'[d] = asking[d] /\ response'[d] = response[d]
                                   /\ cell_list_offset'[d] = cell_list_offset[d] /\ listed'[d] = listed[d]
      /\ DOMAIN cell_list_offset' = Children /\ DOMAIN listed' = Children
  BY <1>1, SidesOf
<1>4. Listing(None, request[c], response'[c], cell_list_offset'[c], listed'[c], moved[c], Cells(c))
  <2>1. ListingOf(c)
    BY DEF ListingInv
  <2>2. CASE asking[c] = "LIST"
    <3>1. cell_list_offset'[c] = IF response[c].rc = "SUCCESS" THEN cell_list_offset[c] + Len(response[c].cells) ELSE 0
      BY <1>1, <2>2, SidesOf DEF list_res_handler
    <3>2. listed'[c] = listed[c] \o response[c].cells
      BY <1>1, <2>2, SidesOf
    <3>3. IsList(Cells(c))
      BY CellsList DEF ListingInv
    <3>. QED
      BY <1>1, <2>1, <2>2, <3>1, <3>2, <3>3, ListTaken, Zenon DEF ListingOf
  <2>3. CASE asking[c] # "LIST"
    <3>1. cell_list_offset' = cell_list_offset /\ listed' = listed
      BY <1>1, <2>3
    <3>. QED
      BY <1>1, <2>1, <3>1, OtherTaken, Zenon DEF ListingOf
  <2>. QED
    BY <2>2, <2>3
<1>5. ListingOf(c)'
  <2>1. Listing(None, request[c], response'[c], cell_list_offset'[c], listed'[c], moved'[c], Cells(c)')
    BY <1>2, <1>4, MovedOn, Zenon
  <2>. QED
    BY <1>1, <1>3, <2>1 DEF ListingOf
<1>6. OthersAsTheyWere(c)
  BY <1>1, <1>2, <1>3 DEF OthersAsTheyWere
<1>7. DOMAIN moved' = Children
  BY <1>1 DEF Moves
<1>. QED
  BY <1>1, <1>3, <1>5, <1>6, <1>7, SidesOf, ListingKept

\* A step of c that changes no offset and no list, but may move cells.
LEMMA ShellListing ==
  ASSUME ListingInv, NEW c \in Children, shell_subcmd(c), Stations' PROVE ListingInv'
<1>1. parent' = parent /\ response' = response /\ response[c] = NoFrame
  BY DEF shell_subcmd, CanAsk
<1>2. PICK args \in parse_args :
        \/ args.cmd \in {"ADD", "DELETE"} /\ add_delete(c, args.cmd, args.slot)
        \/ count(c) \/ list(c) \/ clear(c)
  BY DEF shell_subcmd
<1>3. ASSUME NEW cmd, NEW cells, Request(c, cmd, cells), cmd = "LIST" => cells = <<cell_list_offset[c]>>,
             UNCHANGED <<cell_list_offset, listed>>,
             Moves(schedule') \/ UNCHANGED <<schedule, moved>>
      PROVE  ListingInv'
  <2>1. /\ asking'[c] = cmd /\ request'[c] = [cmd |-> cmd, cells |-> cells]
        /\ \A d \in Children \ {c} : asking'[d] = asking[d] /\ request'[d] = request[d]
    BY <1>3, SidesOf DEF Request
  <2>2. \A d \in Children : Unmoved(moved[d], Cells(d), moved'[d], Cells(d)')
    BY <1>1, <1>3, MovesTell, CellsStay DEF Unmoved
  <2>3. DOMAIN moved' = Children
    BY <1>3, SidesOf DEF Moves
  <2>4. Listing(cmd, [cmd |-> cmd, cells |-> cells], NoFrame, cell_list_offset[c], listed[c], moved[c], Cells(c))
    <3>1. Listing(asking[c], request[c], NoFrame, cell_list_offset[c], listed[c], moved[c], Cells(c))
      BY <1>1 DEF ListingInv, ListingOf
    <3>. QED
      BY <1>3, <3>1, CommandGiven
  <2>5. Listing(cmd, [cmd |-> cmd, cells |-> cells], NoFrame, cell_list_offset[c], listed[c], moved'[c], Cells(c)')
    BY <2>2, <2>4, MovedOn, Zenon
  <2>6. ListingOf(c)'
    BY <1>1, <1>3, <2>1, <2>5 DEF ListingOf
  <2>7. OthersAsTheyWere(c)
    BY <1>1, <1>3, <2>1, <2>2 DEF OthersAsTheyWere
  <2>. QED
    BY <1>1, <1>3, <2>3, <2>6, <2>7, SidesOf, ListingKept, SMTT(30)
<1>4. CASE args.cmd \in {"ADD", "DELETE"} /\ add_delete(c, args.cmd, args.slot)
  <2>. PICK cmd : cmd = args.cmd
    OBVIOUS
  <2>1. Request(c, cmd, <<args.slot>>) /\ cmd # "LIST" /\ UNCHANGED <<cell_list_offset, listed>> /\ Moves(schedule')
    BY <1>4 DEF add_delete
  <2>. QED
    BY <1>3, <2>1
<1>5. CASE count(c)
  <2>1. Request(c, "COUNT", <<>>) /\ UNCHANGED <<cell_list_offset, listed, schedule, moved>>
    BY <1>5 DEF count
  <2>2. "COUNT" # "LIST"
    OBVIOUS
  <2>. QED
    BY <1>3, <2>1, <2>2
<1>6. CASE list(c)
  <2>1. Request(c, "LIST", <<cell_list_offset[c]>>) /\ UNCHANGED <<cell_list_offset, listed, schedule, moved>>
    BY <1>6 DEF list
  <2>. QED
    BY <1>3, <2>1
<1>7. CASE clear(c)
  <2>1. /\ Request(c, "CLEAR", <<>>) /\ schedule' = schedule
        /\ cell_list_offset' = [cell_list_offset EXCEPT ![c] = 0]
        /\ listed' = [listed EXCEPT ![c] = <<>>] /\ moved' = [moved EXCEPT ![c] = FALSE]
    BY <1>7 DEF clear
  <2>2. /\ asking'[c] = "CLEAR" /\ request'[c] = [cmd |-> "CLEAR", cells |-> <<>>]
        /\ cell_list_offset'[c] = 0 /\ listed'[c] = <<>> /\ moved'[c] = FALSE
        /\ \A d \in Children \ {c} : /\ asking'[d] = asking[d] /\ request'[d] = request[d]
                                     /\ cell_list_offset'[d] = cell_list_offset[d]
                                     /\ listed'[d] = listed[d] /\ moved'[d] = moved[d]
    BY <2>1, SidesOf DEF Request
  <2>3. \A d \in Children : Cells(d)' = Cells(d)
    BY <1>1, <2>1, CellsStay
  <2>4. ListingOf(c)'
    BY <1>1, <2>2, Cleared, Zenon DEF ListingOf
  <2>5. OthersAsTheyWere(c)
    BY <1>1, <2>2, <2>3 DEF OthersAsTheyWere, Unmoved
  <2>. QED
    BY <1>1, <2>1, <2>4, <2>5, SidesOf, ListingKept
<1>. QED
  BY <1>2, <1>4, <1>5, <1>6, <1>7

LEMMA HandlerListing ==
  ASSUME ListingInv, NEW c \in Children, PlugtestRequestInput(c), Stations' PROVE ListingInv'
<1>1. /\ UNCHANGED <<parent, asking, cell_list_offset>> /\ request' = [request EXCEPT ![c] = NoRequest]
      /\ request[c] # NoRequest
  BY DEF PlugtestRequestInput
<1>2. request'[c] = NoRequest /\ \A d \in Children \ {c} : request'[d] = request[d]
  BY <1>1, SidesOf
<1>3. PICK rs : response' = [response EXCEPT ![c] = rs]
  BY DEF PlugtestRequestInput, add_req_handler, delete_req_handler, count_req_handler, list_req_handler,
     clear_req_handler, Respond
<1>4. response'[c] = rs /\ \A d \in Children \ {c} : response'[d] = response[d]
  BY <1>3, SidesOf
<1>5. Listing(asking[c], request[c], response[c], cell_list_offset[c], listed[c], moved[c], Cells(c))
  BY DEF ListingInv, ListingOf
<1>6. CASE list_req_handler(c)
  <2>1. /\ request[c].cmd = "LIST" /\ schedule' = schedule
        /\ LET cells == Cells(c)  offset == request[c].cells[1] IN
           /\ IF cells = <<>> THEN Respond(c, "EOL", <<>>, None, 0)
              ELSE Respond(c, IF EndsAt(offset, Len(cells)) THEN "EOL" ELSE "SUCCESS",
                           <<IF offset < Len(cells) THEN cells[offset + 1] ELSE Garbage>>, None, 0)
           /\ IF offset = 0
              THEN moved' = [moved EXCEPT ![c] = FALSE] /\ listed' = [listed EXCEPT ![c] = <<>>]
              ELSE UNCHANGED <<moved, listed>>
    BY <1>6 DEF list_req_handler
  <2>2. request[c].cells[1] = cell_list_offset[c]
    BY <1>1, <1>5, <2>1 DEF Listing
  <2>. PICK L : L = Cells(c)
    OBVIOUS
  <2>. PICK o : o = cell_list_offset[c]
    OBVIOUS
  <2>3. IF L = <<>> THEN Respond(c, "EOL", <<>>, None, 0)
        ELSE Respond(c, IF o + 1 = Len(L) THEN "EOL" ELSE "SUCCESS", <<IF o < Len(L) THEN L[o + 1] ELSE Garbage>>, None, 0)
    BY <2>1, <2>2, Zenon DEF EndsAt
  <2>4. ASSUME NEW rc, NEW cells, Respond(c, rc, cells, None, 0) PROVE response'[c].rc = rc /\ response'[c].cells = cells
    <3>1. response'[c] = [rc |-> rc, cells |-> cells, delivered |-> FALSE]
      BY <2>4, SidesOf DEF Respond
    <3>. QED
      BY <3>1
  <2>5. IF L = <<>> THEN response'[c].rc = "EOL" /\ response'[c].cells = <<>>
        ELSE /\ response'[c].rc = IF o + 1 = Len(L) THEN "EOL" ELSE "SUCCESS"
             /\ response'[c].cells = <<IF o < Len(L) THEN L[o + 1] ELSE Garbage>>
    BY <2>3, <2>4, Zenon
  <2>6. /\ IF o = 0 THEN moved'[c] = FALSE /\ listed'[c] = <<>> ELSE moved'[c] = moved[c] /\ listed'[c] = listed[c]
        /\ \A d \in Children \ {c} : moved'[d] = moved[d] /\ listed'[d] = listed[d]
        /\ DOMAIN moved' = Children /\ DOMAIN listed' = Children
    <3>1. CASE o = 0
      BY <2>1, <2>2, <3>1, SidesOf
    <3>2. CASE o # 0
      BY <2>1, <2>2, <3>2, SidesOf
    <3>. QED
      BY <3>1, <3>2, Zenon
  <2>7. \A d \in Children : Cells(d)' = Cells(d)
    BY <1>1, <2>1, CellsStay
  <2>8. IsList(L)
    BY CellsList DEF ListingInv
  <2>9. Listing(asking[c], NoRequest, response'[c], o, listed'[c], moved'[c], L)
    BY <1>1, <1>5, <2>1, <2>5, <2>6, <2>8, ListAnswered, ZenonT(100)
  <2>10. ListingOf(c)'
    BY <1>1, <1>2, <2>7, <2>9 DEF ListingOf
  <2>11. OthersAsTheyWere(c)
    BY <1>1, <1>2, <1>4, <2>6, <2>7 DEF OthersAsTheyWere, Unmoved
  <2>. QED
    BY <1>1, <2>6, <2>10, <2>11, SidesOf, ListingKept
<1>7. CASE add_req_handler(c) \/ delete_req_handler(c) \/ count_req_handler(c) \/ clear_req_handler(c)
  <2>1. request[c].cmd # "LIST" /\ listed' = listed /\ (Moves(schedule') \/ UNCHANGED <<schedule, moved>>)
    BY <1>7 DEF add_req_handler, delete_req_handler, count_req_handler, clear_req_handler
  <2>2. \A d \in Children : Unmoved(moved[d], Cells(d), moved'[d], Cells(d)')
    BY <1>1, <2>1, MovesTell, CellsStay DEF Unmoved
  <2>3. DOMAIN moved' = Children
    BY <2>1, SidesOf DEF Moves
  <2>4. Listing(asking[c], NoRequest, rs, cell_list_offset[c], listed[c], moved[c], Cells(c))
    BY <1>1, <1>5, <2>1, OtherAnswered
  <2>5. Listing(asking[c], NoRequest, rs, cell_list_offset[c], listed[c], moved'[c], Cells(c)')
    BY <2>2, <2>4, MovedOn, Zenon
  <2>6. ListingOf(c)'
    BY <1>1, <1>2, <1>4, <2>1, <2>5 DEF ListingOf
  <2>7. OthersAsTheyWere(c)
    BY <1>1, <1>2, <1>4, <2>1, <2>2 DEF OthersAsTheyWere
  <2>. QED
    BY <1>1, <2>1, <2>3, <2>6, <2>7, SidesOf, ListingKept
<1>. QED
  BY <1>6, <1>7 DEF PlugtestRequestInput

LEMMA ListingSteps == ASSUME ListingInv, SfPlugtestNext PROVE ListingInv'
<1>1. PICK c \in Children : \/ shell_subcmd(c) \/ PlugtestRequestInput(c)
                            \/ PlugtestResponseInput(c) \/ PlugtestResponseSent(c)
                            \/ Trouble(c) /\ UNCHANGED sfpVars
  BY DEF SfPlugtestNext
<1>2. Stations'
  BY PlugtestStations DEF ListingInv
<1>. QED
  BY <1>1, <1>2, ShellListing, HandlerListing, TakenListing, SentListing, TroubleListing

LEMMA ListingBegins == ASSUME SixTopInit, SfPlugtestInit PROVE Stations /\ ListingInv
<1>1. Stations
  <2>1. <<SharedLink>> \in Seq({SharedLink})
    OBVIOUS
  <2>. QED
    BY <2>1, Zenon DEF SixTopInit, Stations, IsList
<1>2. ASSUME NEW c \in Children PROVE ListingOf(c)
  <2>1. /\ asking[c] = None /\ request[c] = NoRequest /\ response[c] = NoFrame
        /\ cell_list_offset[c] = 0 /\ listed[c] = <<>>
    BY DEF SixTopInit, SfPlugtestInit
  <2>2. ~ (0 > 0) /\ 0 \in Nat
    OBVIOUS
  <2>. QED
    BY <2>1, <2>2, Zenon DEF ListingOf, Listing, ToldOf
<1>. QED
  BY <1>1, <1>2 DEF ListingInv, SfPlugtestInit

LEMMA ListingInOrder ==
  ASSUME NEW o, NEW l, NEW L, o \in Nat, IsList(L), ToldOf(o, l, L)
  PROVE  IsPrefix(l, L) /\ (o = 0 => l \in {<<>>, L})
<1>1. Len(L) \in Nat
  BY ListIs
<1>2. CASE o = 0
  <2>1. Len(<<>>) = 0 /\ SubSeq(<<>>, 1, 0) = <<>> /\ SubSeq(L, 1, 0) = <<>> /\ 0 <= Len(L)
    BY <1>1
  <2>2. IsPrefix(<<>>, L)
    BY <2>1, Zenon DEF IsPrefix
  <2>3. IsPrefix(L, L)
    BY <1>1 DEF IsPrefix
  <2>. QED
    BY <1>2, <2>2, <2>3, Zenon DEF ToldOf
<1>3. CASE o # 0
  <2>1. o < Len(L) /\ l = SubSeq(L, 1, o)
    BY <1>3 DEF ToldOf
  <2>2. Len(l) = o
    BY <2>1, FirstOnes
  <2>3. SubSeq(l, 1, o) = l
    <3>1. PICK X : L \in Seq(X)
      BY DEF IsList
    <3>2. l \in Seq(X)
      BY <2>1, <3>1
    <3>. QED
      BY <2>2, <3>2, SubSeqFull
  <2>. QED
    BY <1>1, <1>3, <2>1, <2>2, <2>3 DEF IsPrefix
<1>. QED
  BY <1>2, <1>3

\* Nothing was told.
Untold ==
  /\ DOMAIN cell_list_offset = Children /\ DOMAIN listed = Children
  /\ \A c \in Children : cell_list_offset[c] = 0 /\ listed[c] = <<>>

ListedInv == Stations /\ IF running = "sf_plugtest" THEN ListingInv ELSE Untold

LEMMA StationsStay == ASSUME Stations, UNCHANGED sixtopVars PROVE Stations'
  BY DEF Stations, sixtopVars, Children

LEMMA ListingStays == ASSUME ListingInv, UNCHANGED <<sixtopVars, sfpVars>> PROVE ListingInv'
<1>1. Stations' /\ Children' = Children
  BY StationsStay DEF ListingInv, Children, sixtopVars
<1>2. /\ UNCHANGED <<asking, request, response, cell_list_offset, listed, moved, schedule, parent>>
  BY DEF sixtopVars, sfpVars
<1>3. \A c \in Children : Cells(c)' = Cells(c)
  BY <1>2, CellsStay
<1>4. \A c \in Children : ListingOf(c)'
  BY <1>2, <1>3 DEF ListingInv, ListingOf
<1>. QED
  BY <1>1, <1>2, <1>4 DEF ListingInv

LEMMA UntoldStays == ASSUME Untold, parent' = parent, UNCHANGED <<cell_list_offset, listed>> PROVE Untold'
  BY DEF Untold, Children

\* A step of the programs, as the scheduling functions see it.
LEMMA SchedulersStep ==
  ASSUME [Next]_vars
  PROVE  /\ running' = running
         /\ \/ running = "sf_simple" /\ SfSimpleNext /\ UNCHANGED sfpVars
            \/ running = "sf_plugtest" /\ SfPlugtestNext /\ UNCHANGED sfsVars
            \/ UNCHANGED otherVars
<1>1. CASE SfSimpleRuns
  BY <1>1 DEF SfSimpleRuns
<1>2. CASE SfPlugtestRuns
  BY <1>2 DEF SfPlugtestRuns
<1>3. CASE WebRuns \/ PagesRun
  BY <1>3 DEF WebRuns, PagesRun
<1>4. CASE RoutesRun \/ SensniffRuns \/ SlipRadioRuns \/ Uart1NodeRuns \/ AtMasterRuns \/ CryptoTestsRun \/ PkaTestsRun
  BY <1>4 DEF RoutesRun, SensniffRuns, SlipRadioRuns, Uart1NodeRuns, AtMasterRuns, CryptoTestsRun, PkaTestsRun
<1>5. CASE UNCHANGED vars
  BY <1>5 DEF vars
<1>. QED
  BY <1>1, <1>2, <1>3, <1>4, <1>5 DEF Next

LEMMA ListedSteps == ListedInv /\ [Next]_vars => ListedInv'
<1> SUFFICES ASSUME ListedInv, [Next]_vars PROVE ListedInv'
  OBVIOUS
<1>1. Stations /\ running' = running
  BY SchedulersStep DEF ListedInv
<1>2. CASE running = "sf_simple" /\ SfSimpleNext /\ UNCHANGED sfpVars
  <2>1. Stations'
    BY <1>1, <1>2, SimpleStations
  <2>2. parent' = parent
    BY <1>2, TroubleKeeps DEF SfSimpleNext, Tick, SimpleRequestInput, SimpleResponseInput, SimpleResponseSent,
       Takes, Sent, SidesKept
  <2>3. running # "sf_plugtest"
    BY <1>2
  <2>4. Untold'
    BY <1>2, <2>2, <2>3, UntoldStays DEF ListedInv, sfpVars
  <2>. QED
    BY <1>1, <2>1, <2>3, <2>4 DEF ListedInv
<1>3. CASE running = "sf_plugtest" /\ SfPlugtestNext
  <2>1. ListingInv'
    BY <1>3, ListingSteps DEF ListedInv
  <2>. QED
    BY <1>1, <1>3, <2>1 DEF ListedInv, ListingInv
<1>4. CASE UNCHANGED otherVars
  <2>1. UNCHANGED <<sixtopVars, sfpVars>>
    BY <1>4 DEF otherVars
  <2>2. parent' = parent /\ UNCHANGED <<cell_list_offset, listed>>
    BY <2>1 DEF sixtopVars, sfpVars
  <2>. QED
    BY <1>1, <2>1, <2>2, StationsStay, ListingStays, UntoldStays DEF ListedInv
<1>. QED
  BY <1>2, <1>3, <1>4, SchedulersStep

\* See ListedInOrder: the cells of the parent are told each once and in order, whatever is lost.
THEOREM CellsAreListedInOrder == Spec => []ListedInOrder
<1>1. Init => ListedInv
  <2> SUFFICES ASSUME Init PROVE ListedInv
    OBVIOUS
  <2>1. SixTopInit /\ SfPlugtestInit
    BY DEF Init
  <2>2. Untold
    BY <2>1 DEF SfPlugtestInit, Untold
  <2>. QED
    BY <2>1, <2>2, ListingBegins DEF ListedInv
<1>2. ListedInv => ListedInOrder
  <2> SUFFICES ASSUME ListedInv, NEW c \in Children, ~ moved[c]
      PROVE  IsPrefix(listed[c], Cells(c)) /\ (cell_list_offset[c] = 0 => listed[c] \in {<<>>, Cells(c)})
    BY DEF ListedInOrder
  <2>1. IsList(Cells(c))
    BY CellsList DEF ListedInv
  <2>2. cell_list_offset[c] \in Nat /\ ToldOf(cell_list_offset[c], listed[c], Cells(c))
    <3>1. CASE running = "sf_plugtest"
      BY <3>1 DEF ListedInv, ListingInv, ListingOf, Listing
    <3>2. CASE running # "sf_plugtest"
      <4>1. cell_list_offset[c] = 0 /\ listed[c] = <<>>
        BY <3>2 DEF ListedInv, Untold
      <4>2. ~ (0 > 0) /\ 0 \in Nat
        OBVIOUS
      <4>. QED
        BY <4>1, <4>2, Zenon DEF ToldOf
    <3>. QED
      BY <3>1, <3>2
  <2>. QED
    BY <2>1, <2>2, ListingInOrder
<1>. QED
  BY <1>1, <1>2, ListedSteps, PTL DEF Spec

(***************************************************************************)
(* The two ends of the links.                                              *)
(***************************************************************************)

Link(s, o, q) == [slot |-> s, opt |-> o, peer |-> q]
Links(n) == ToSet(schedule[n])
Timeslots == Nat \ {0}

\* The timeslots of n's links with q, those in use, and a child's and its parent's with it.
Marks(n, o, q) == {l.slot : l \in {k \in Links(n) : k.opt = o /\ k.peer = q}}
Used(n) == {l.slot : l \in Links(n)}
Tx(c) == Marks(c, "TX", parent[c])
Rx(c) == Marks(parent[c], "RX", c)

LinkOf(n, l) ==
  /\ l = Link(l.slot, l.opt, l.peer)
  /\ \/ l = SharedLink
     \/ l.slot \in Timeslots /\ l.opt = "TX" /\ n \in Children /\ l.peer = parent[n]
     \/ l.slot \in Timeslots /\ l.opt = "RX" /\ l.peer \in Children /\ parent[l.peer] = n

\* The shared link comes first, and a timeslot is of one link.
Orderly(n) ==
  /\ Len(schedule[n]) >= 1 /\ schedule[n][1] = SharedLink
  /\ \A l \in Links(n) : LinkOf(n, l)
  /\ \A l, k \in Links(n) : l.slot = k.slot => l = k

\* A node takes part in one transaction.
Exclusive(c) ==
  serving[c] # Idle =>
    /\ \A d \in Children \ {c} : parent[d] = parent[c] => serving[d] = Idle
    /\ parent[c] \in Children => asking[parent[c]] = None

\* The cell that was left for the callback.
CellLeft(c) ==
  IF running = "sf_simple" THEN res_storage[parent[c]][1]
  ELSE IF serving[c].callback = "add" THEN pending_add[parent[c]] ELSE pending_delete[parent[c]]

\* A request that may be under way, in the program r.
IsRequest(r, rq, tx, ut) ==
  IF r = "sf_simple"
  THEN \/ rq.cmd = "ADD" /\ IsList(rq.cells) /\ \A s \in ToSet(rq.cells) : s \in Timeslots /\ s \notin ut
       \/ rq.cmd = "DELETE" /\ \E s \in tx : rq.cells = <<s>>
  ELSE \/ rq.cmd = "ADD" /\ \E s \in Timeslots : s \notin ut /\ rq.cells = <<s>>
       \/ rq.cmd = "DELETE" /\ \E s \in Nat : rq.cells = <<s>>
       \/ rq.cmd \in {"COUNT", "LIST", "CLEAR"}

\* What the parent does when its response has arrived: nothing, add x or delete x.
ToAdd(sv, x, up)    == sv.callback = "add" /\ x \in Timeslots /\ x \notin up
ToDelete(sv, x, rx) == sv.callback = "delete" /\ x \in rx

\* The response of a parent that has nothing more to do.
IsReport(a, rs, tx, rx) ==
  \/ a \in {"ADD", "DELETE"} /\ rs.rc # "SUCCESS" /\ tx = rx
  \/ a \in {"COUNT", "LIST"} /\ tx = rx
  \/ a = "CLEAR" /\ rx = {}

\* A response under way.
IsResponse(r, a, rs, sv, tx, rx, ut, up, x) ==
  \/ a = "ADD" /\ tx = rx /\ rs.rc = "SUCCESS" /\ rs.cells = <<x>> /\ x \notin ut /\ ToAdd(sv, x, up)
  \/ a = "DELETE" /\ tx = rx /\ rs.rc = "SUCCESS" /\ rs.cells = <<x>> /\ ToDelete(sv, x, rx)
  \/ r # "sf_simple" /\ sv.callback = None /\ IsReport(a, rs, tx, rx)

\* The child has done what it asked for, the parent has not.
IsDelivered(r, sv, tx, rx, up, x) ==
  \/ ToAdd(sv, x, up) /\ tx = rx \cup {x}
  \/ ToDelete(sv, x, rx) /\ tx = rx \ {x}
  \/ r # "sf_simple" /\ sv.callback = None /\ tx = rx

Transaction(r, a, rq, rs, sv, tx, rx, ut, up, x) ==
  /\ rs = [rc |-> rs.rc, cells |-> rs.cells, delivered |-> rs.delivered]
  /\ rs = NoFrame => tx = rx
  /\ a = None => rq = NoRequest
  /\ rq # NoRequest => a = rq.cmd /\ rs = NoFrame /\ sv = Idle /\ IsRequest(r, rq, tx, ut)
  /\ rs # NoFrame /\ a = None => sv # Idle /\ rs.delivered /\ IsDelivered(r, sv, tx, rx, up, x)
  /\ rs # NoFrame /\ a # None => sv # Idle /\ ~ rs.delivered /\ IsResponse(r, a, rs, sv, tx, rx, ut, up, x)

TransactionOf(c) ==
  Transaction(running, asking[c], request[c], response[c], serving[c],
              Tx(c), Rx(c), Used(c), Used(parent[c]), CellLeft(c))

\* sf_simple's buffer has that cell and no other.
LeftAlone(c) ==
  running = "sf_simple" /\ serving[c].callback \in {"add", "delete"} =>
    serving[c].len = 1 /\ res_storage[parent[c]] = <<CellLeft(c)>>

Undisturbed ==
  /\ \A n \in Nodes : Orderly(n)
  /\ \A c \in Children : Exclusive(c) /\ TransactionOf(c) /\ LeftAlone(c)

Stores == DOMAIN res_storage = Nodes /\ DOMAIN pending_add = Nodes /\ DOMAIN pending_delete = Nodes

LinksInv == Stations /\ Stores /\ (~ disturbed => Undisturbed)


LEMMA AppendedIs ==
  ASSUME NEW w, IsList(w), NEW x
  PROVE  /\ ToSet(Append(w, x)) = ToSet(w) \cup {x} /\ IsList(Append(w, x))
         /\ Len(w) >= 1 => Len(Append(w, x)) >= 1 /\ Append(w, x)[1] = w[1]
<1>. PICK X : w \in Seq(X)
  BY DEF IsList
<1>. PICK v : v = Append(w, x)
  BY Zenon
<1>. PICK Y : Y = X \cup {x}
  BY Zenon
<1>1. w \in Seq(Y) /\ x \in Y
  OBVIOUS
<1>2. /\ v \in Seq(Y) /\ Len(v) = Len(w) + 1
      /\ \A i \in 1 .. Len(w) : v[i] = w[i]
      /\ v[Len(w) + 1] = x
  BY <1>1
<1>3. DOMAIN w = 1 .. Len(w) /\ DOMAIN v = 1 .. Len(w) + 1 /\ Len(w) \in Nat
  BY <1>2
<1>4. \A y \in ToSet(w) : y \in ToSet(v)
  BY <1>2, <1>3 DEF ToSet
<1>5. x \in ToSet(v)
  BY <1>2, <1>3 DEF ToSet
<1>6. ASSUME NEW i \in DOMAIN v PROVE v[i] \in ToSet(w) \cup {x}
  <2>1. i = Len(w) + 1 \/ i \in 1 .. Len(w)
    BY <1>3
  <2>. QED
    BY <1>2, <1>3, <2>1 DEF ToSet
<1>7. ToSet(v) = ToSet(w) \cup {x}
  BY <1>4, <1>5, <1>6 DEF ToSet
<1>8. Len(w) >= 1 => Len(v) >= 1 /\ v[1] = w[1]
  BY <1>2, <1>3
<1>9. IsList(v)
  BY <1>2 DEF IsList
<1>. QED
  BY <1>7, <1>8, <1>9

LEMMA SharedIs == SharedLink = Link(0, "SHARED", 0) /\ SharedLink.slot = 0 /\ SharedLink.opt = "SHARED" /\ SharedLink.peer = 0
  BY DEF SharedLink, Link

LEMMA LinkIs == ASSUME NEW s, NEW o, NEW q PROVE Link(s, o, q).slot = s /\ Link(s, o, q).opt = o /\ Link(s, o, q).peer = q
  BY DEF Link

LEMMA MarksAre ==
  ASSUME NEW n, \A l \in Links(n) : LinkOf(n, l), NEW o, NEW q, NEW s
  PROVE  s \in Marks(n, o, q) <=> Link(s, o, q) \in Links(n)
<1>1. ASSUME s \in Marks(n, o, q) PROVE Link(s, o, q) \in Links(n)
  <2>1. PICK l \in Links(n) : l.opt = o /\ l.peer = q /\ l.slot = s
    BY <1>1 DEF Marks
  <2>2. l = Link(l.slot, l.opt, l.peer)
    BY DEF LinkOf
  <2>. QED
    BY <2>1, <2>2
<1>2. ASSUME Link(s, o, q) \in Links(n) PROVE s \in Marks(n, o, q)
  BY <1>2, LinkIs DEF Marks
<1>. QED
  BY <1>1, <1>2

\* What was left of the links.
LEMMA WithoutIs ==
  ASSUME NEW n, IsList(schedule[n]), Orderly(n), NEW held, NEW w, w = Only(schedule[n], held)
  PROVE  /\ IsList(w) /\ ToSet(w) = Links(n) \cap held
         /\ SharedLink \in held => Len(w) >= 1 /\ w[1] = SharedLink
<1>. PICK X : schedule[n] \in Seq(X)
  BY DEF IsList
<1>1. Len(schedule[n]) >= 1 /\ schedule[n][1] = SharedLink
  BY DEF Orderly
<1>. QED
  BY <1>1, OnlyIs, ZenonT(100) DEF IsList, Links

\* A node's new list of links.
LEMMA Relinked ==
  ASSUME NEW n, NEW w, schedule'[n] = w, parent' = parent, Len(w) >= 1, w[1] = SharedLink,
         NEW L, ToSet(w) = L, \A l \in L : LinkOf(n, l), \A l, k \in L : l.slot = k.slot => l = k
  PROVE  Orderly(n)' /\ Links(n)' = L
<1>1. Links(n)' = L
  BY DEF Links, ToSet
<1>2. \A l : (LinkOf(n, l))' <=> LinkOf(n, l)
  BY DEF LinkOf, Children, Link, SharedLink, Timeslots
<1>3. SharedLink' = SharedLink
  BY DEF SharedLink
<1>. QED
  BY <1>1, <1>2, <1>3 DEF Orderly

MarksFact ==
  \A n, o, q, s : (\A l \in Links(n) : LinkOf(n, l)) => (s \in Marks(n, o, q) <=> Link(s, o, q) \in Links(n))

LEMMA MarksSpelled == MarksFact
  BY MarksAre, Zenon DEF MarksFact

LEMMA MarksNext ==
  ASSUME NEW n, Orderly(n)', NEW o, NEW q
  PROVE  \A s : s \in Marks(n, o, q)' <=> Link(s, o, q) \in Links(n)'
<1>1. MarksFact'
  BY MarksSpelled, PTL
<1>2. (\A l \in Links(n) : LinkOf(n, l))'
  BY Zenon DEF Orderly
<1>. QED
  BY <1>1, <1>2, Zenon DEF MarksFact

\* What becomes of n's links with q, of one option, and of those with others.
Alters(n, o, q, m) ==
  /\ Orderly(n)'
  /\ Marks(n, o, q)' = m
  /\ \A o2, q2 : q2 # q => Marks(n, o2, q2)' = Marks(n, o2, q2)

LEMMA LinkEqual == ASSUME NEW s, NEW o, NEW q, NEW s2, NEW o2, NEW q2
  PROVE  Link(s, o, q) = Link(s2, o2, q2) <=> s = s2 /\ o = o2 /\ q = q2
  BY DEF Link

LEMMA WithoutUnfolds ==
  ASSUME NEW s, NEW S, NEW k, k = {l \in ToSet(s) : l.slot \notin S}
  PROVE  Without(s, S) = Only(s, k)
  BY Zenon DEF Without

\* What is left without some timeslots that are not the shared one.
LEMMA SlotsGone ==
  ASSUME NEW n, Orderly(n), IsList(schedule[n]), NEW S, 0 \notin S, NEW v, v = Without(schedule[n], S)
  PROVE  /\ IsList(v) /\ Len(v) >= 1 /\ v[1] = SharedLink
         /\ \A l : l \in ToSet(v) <=> l \in Links(n) /\ l.slot \notin S
<1> DEFINE k == {l \in ToSet(schedule[n]) : l.slot \notin S}
<1>a. Without(schedule[n], S) = Only(schedule[n], k)
  BY WithoutUnfolds, Zenon
<1>2. \A l : l \in k <=> l \in Links(n) /\ l.slot \notin S
  BY DEF Links
<1>3. SharedLink \in Links(n)
  BY DEF Orderly, Links, ToSet, IsList
<1>4. SharedLink \in k
  BY <1>2, <1>3, SharedIs
<1> HIDE DEF k
<1>1. v = Only(schedule[n], k)
  BY <1>a
<1>5. IsList(v) /\ ToSet(v) = Links(n) \cap k /\ Len(v) >= 1 /\ v[1] = SharedLink
  BY <1>1, <1>4, WithoutIs, Zenon
<1>. QED
  BY <1>2, <1>5

\* A link more, the first or the last of its timeslot.
LEMMA LinkAdded ==
  ASSUME NEW n, Orderly(n), IsList(schedule[n]), NEW o, NEW q, NEW s, s # 0, s \notin Used(n),
         NEW w, w = With(schedule[n], o, q, s)
  PROVE  /\ IsList(w) /\ Len(w) >= 1 /\ w[1] = SharedLink
         /\ ToSet(w) = Links(n) \cup {Link(s, o, q)}
<1>. PICK v : v = Without(schedule[n], {s})
  OBVIOUS
<1>. PICK a : a = Link(s, o, q)
  OBVIOUS
<1>. PICK S : S = {s}
  OBVIOUS
<1>1. 0 \notin S /\ v = Without(schedule[n], S)
  OBVIOUS
<1>2. /\ IsList(v) /\ Len(v) >= 1 /\ v[1] = SharedLink
      /\ \A l : l \in ToSet(v) <=> l \in Links(n) /\ l.slot \notin S
  BY <1>1, SlotsGone, Zenon
<1>3. ToSet(v) = Links(n)
  BY <1>2, Zenon DEF Used
<1>4. w = Append(v, a)
  BY DEF With, Link
<1>5. /\ ToSet(Append(v, a)) = ToSet(v) \cup {a} /\ IsList(Append(v, a))
      /\ Len(v) >= 1 => Len(Append(v, a)) >= 1 /\ Append(v, a)[1] = v[1]
  BY <1>2, AppendedIs, Zenon
<1>. QED
  BY <1>2, <1>3, <1>4, <1>5, Zenon

\* The links with others stay, and of the others only one may come or go.
LEMMA AddsLink ==
  ASSUME NEW n, Orderly(n), IsList(schedule[n]), parent' = parent, NEW o, NEW q, NEW s \in Timeslots, s \notin Used(n),
         LinkOf(n, Link(s, o, q)), schedule'[n] = With(schedule[n], o, q, s)
  PROVE  Alters(n, o, q, Marks(n, o, q) \cup {s})
<1>. PICK w : w = With(schedule[n], o, q, s)
  OBVIOUS
<1>. PICK a : a = Link(s, o, q)
  OBVIOUS
<1>. PICK L : L = Links(n) \cup {a}
  BY Zenon
<1>1. s # 0
  BY DEF Timeslots
<1>7. ToSet(w) = L /\ Len(w) >= 1 /\ w[1] = SharedLink
  BY <1>1, LinkAdded
<1>9. a.slot = s
  BY LinkIs
<1>10. \A l \in L : LinkOf(n, l)
  BY DEF Orderly
<1>11. \A l, h \in L : l.slot = h.slot => l = h
  BY <1>9 DEF Orderly, Used
<1>12. Orderly(n)' /\ Links(n)' = L
  BY <1>7, <1>10, <1>11, Relinked, Zenon
<1>13. ASSUME NEW o2, NEW q2, NEW t
       PROVE  t \in Marks(n, o2, q2)' <=> t \in Marks(n, o2, q2) \/ (t = s /\ o2 = o /\ q2 = q)
  <2>1. t \in Marks(n, o2, q2)' <=> Link(t, o2, q2) \in L
    BY <1>12, MarksNext, Zenon
  <2>2. t \in Marks(n, o2, q2) <=> Link(t, o2, q2) \in Links(n)
    <3>1. \A l \in Links(n) : LinkOf(n, l)
      BY Zenon DEF Orderly
    <3>. QED
      BY <3>1, MarksAre, Zenon
  <2>3. Link(t, o2, q2) = a <=> t = s /\ o2 = o /\ q2 = q
    BY LinkEqual
  <2>. QED
    BY <2>1, <2>2, <2>3
<1>14. Marks(n, o, q)' = Marks(n, o, q) \cup {s}
  <2>1. \A t : t \in Marks(n, o, q)' <=> t \in Marks(n, o, q) \/ t = s
    BY <1>13
  <2>. QED
    BY <2>1
<1>15. ASSUME NEW o2, NEW q2, q2 # q PROVE Marks(n, o2, q2)' = Marks(n, o2, q2)
  <2>1. \A t : t \in Marks(n, o2, q2)' <=> t \in Marks(n, o2, q2)
    BY <1>13, <1>15, Zenon
  <2>. QED
    BY <2>1, Zenon
<1>. QED
  BY <1>12, <1>14, <1>15, Zenon DEF Alters

LEMMA NodeSame ==
  ASSUME NEW m, schedule'[m] = schedule[m], parent' = parent
  PROVE  /\ Links(m)' = Links(m) /\ Used(m)' = Used(m)
         /\ \A o, q : Marks(m, o, q)' = Marks(m, o, q)
         /\ Orderly(m) => Orderly(m)'
<1>1. Links(m)' = Links(m)
  BY DEF Links, ToSet
<1>2. \A l : (LinkOf(m, l))' <=> LinkOf(m, l)
  BY DEF LinkOf, Children, Link, SharedLink, Timeslots
<1>3. SharedLink' = SharedLink
  BY DEF SharedLink
<1>4. Used(m)' = Used(m)
  BY <1>1, Zenon DEF Used
<1>5. ASSUME NEW o, NEW q PROVE Marks(m, o, q)' = Marks(m, o, q)
  BY <1>1, Zenon DEF Marks
<1>6. Orderly(m) => Orderly(m)'
  BY <1>1, <1>2, <1>3 DEF Orderly
<1>. QED
  BY <1>1, <1>4, <1>5, <1>6

\* What a step of child c leaves alone, if it changes what is at n about q.
OthersStand(c) ==
  \A d \in Children \ {c} :
    asking'[d] = asking[d] /\ request'[d] = request[d] /\ response'[d] = response[d] /\ serving'[d] = serving[d]

NodeStands(m) ==
  /\ schedule'[m] = schedule[m] /\ res_storage'[m] = res_storage[m]
  /\ pending_add'[m] = pending_add[m] /\ pending_delete'[m] = pending_delete[m]

TwoEnds(c, n, q) == (n = c /\ q = parent[c]) \/ (n = parent[c] /\ q = c)

Changes(c, n, q) ==
  /\ parent' = parent /\ running' = running /\ OthersStand(c)
  /\ \A m \in Nodes \ {n} : NodeStands(m)
  /\ Orderly(n)'
  /\ \A o2, q2 : q2 # q => Marks(n, o2, q2)' = Marks(n, o2, q2)
  /\ ~ Overlaps(n, c)

StandsStill(c) ==
  /\ parent' = parent /\ running' = running /\ OthersStand(c) /\ \A m \in Nodes : NodeStands(m)

\* Only who asks needs its own timeslots, and only who is served its parent's.
LEMMA TransactionKept ==
  ASSUME NEW r, NEW a, NEW rq, NEW rs, NEW sv, NEW tx, NEW rx, NEW ut, NEW up, NEW x,
         Transaction(r, a, rq, rs, sv, tx, rx, ut, up, x),
         NEW ut1, NEW up1, NEW x1, a # None => ut1 = ut, sv # Idle => up1 = up /\ x1 = x
  PROVE  Transaction(r, a, rq, rs, sv, tx, rx, ut1, up1, x1)
<1>1. CASE a = None /\ sv = Idle
  BY <1>1, Zenon DEF Transaction
<1>2. CASE a = None /\ sv # Idle
  BY <1>2, Zenon DEF Transaction
<1>3. CASE a # None /\ sv = Idle
  BY <1>3, Zenon DEF Transaction
<1>4. CASE a # None /\ sv # Idle
  BY <1>4, Zenon
<1>. QED
  BY <1>1, <1>2, <1>3, <1>4

\* Another child's transaction.
LEMMA OtherKept ==
  ASSUME Undisturbed, parent' = parent, running' = running, NEW d \in Children,
         asking'[d] = asking[d], request'[d] = request[d], response'[d] = response[d], serving'[d] = serving[d],
         Tx(d)' = Tx(d), Rx(d)' = Rx(d),
         asking[d] # None => Used(d)' = Used(d),
         serving[d] # Idle => Used(parent[d])' = Used(parent[d]) /\ NodeStands(parent[d])
  PROVE  TransactionOf(d)' /\ LeftAlone(d)'
<1>1. TransactionOf(d) /\ LeftAlone(d)
  BY Zenon DEF Undisturbed
<1>2. serving[d] # Idle => CellLeft(d)' = CellLeft(d)
  BY DEF CellLeft, NodeStands
<1>. PICK ut1 : ut1 = Used(d)'
  OBVIOUS
<1>. PICK up1 : up1 = Used(parent[d])'
  OBVIOUS
<1>. PICK x1 : x1 = CellLeft(d)'
  OBVIOUS
<1>3. Transaction(running, asking[d], request[d], response[d], serving[d], Tx(d), Rx(d), ut1, up1, x1)
  <2>1. Transaction(running, asking[d], request[d], response[d], serving[d],
                    Tx(d), Rx(d), Used(d), Used(parent[d]), CellLeft(d))
    BY <1>1, Zenon DEF TransactionOf
  <2>2. asking[d] # None => ut1 = Used(d)
    OBVIOUS
  <2>3. serving[d] # Idle => up1 = Used(parent[d]) /\ x1 = CellLeft(d)
    BY <1>2
  <2>. QED
    BY <2>1, <2>2, <2>3, TransactionKept
<1>4. TransactionOf(d)'
  BY <1>3 DEF TransactionOf
<1>5. CASE serving[d] = Idle
  <2>1. serving'[d].callback = "idle"
    BY <1>5 DEF Idle
  <2>. QED
    BY <1>4, <2>1 DEF LeftAlone
<1>6. CASE serving[d] # Idle
  <2>1. res_storage'[parent'[d]] = res_storage[parent[d]] /\ CellLeft(d)' = CellLeft(d)
    BY <1>2, <1>6 DEF NodeStands
  <2>. QED
    BY <1>1, <1>4, <2>1 DEF LeftAlone
<1>. QED
  BY <1>4, <1>5, <1>6

LEMMA StillOthers ==
  ASSUME Stations, Undisturbed, NEW c, StandsStill(c), NEW d \in Children \ {c}
  PROVE  TransactionOf(d)' /\ LeftAlone(d)'
<1>1. parent' = parent /\ d \in Nodes /\ parent[d] \in Nodes
  BY Family DEF StandsStill, Stations
<1>2. NodeStands(d) /\ NodeStands(parent[d])
  BY <1>1 DEF StandsStill
<1>3. /\ Tx(d)' = Tx(d) /\ Rx(d)' = Rx(d)
      /\ Used(d)' = Used(d) /\ Used(parent[d])' = Used(parent[d])
  BY <1>1, <1>2, NodeSame DEF NodeStands, Tx, Rx
<1>. QED
  BY <1>1, <1>2, <1>3, OtherKept DEF StandsStill, OthersStand

LEMMA ChangeOthers ==
  ASSUME Stations, Undisturbed, NEW c \in Children, NEW n, NEW q, TwoEnds(c, n, q), Changes(c, n, q),
         NEW d \in Children \ {c}
  PROVE  TransactionOf(d)' /\ LeftAlone(d)'
<1>1. /\ parent' = parent /\ d \in Nodes /\ parent[d] \in Nodes /\ parent[d] # d
      /\ parent[c] \in Nodes /\ c \in Nodes /\ parent[c] # c
      /\ parent[c] \in Children => parent[parent[c]] # c
  BY Family DEF Changes, Stations
<1>2. /\ d # n => NodeStands(d)
      /\ parent[d] # n => NodeStands(parent[d])
  BY <1>1 DEF Changes
<1>3. /\ d = n => asking[d] = None
      /\ parent[d] = n => serving[d] = Idle
  BY DEF Changes, Overlaps
<1>4. d = n => parent[d] # q
  BY <1>1 DEF TwoEnds
<1>5. parent[d] = n => d # q
  BY <1>1 DEF TwoEnds
<1>6. Tx(d)' = Tx(d)
  BY <1>1, <1>2, <1>4, NodeSame DEF NodeStands, Tx, Changes
<1>7. Rx(d)' = Rx(d)
  BY <1>1, <1>2, <1>5, NodeSame DEF NodeStands, Rx, Changes
<1>8. asking[d] # None => Used(d)' = Used(d)
  BY <1>1, <1>2, <1>3, NodeSame DEF NodeStands
<1>9. serving[d] # Idle => Used(parent[d])' = Used(parent[d]) /\ NodeStands(parent[d])
  BY <1>1, <1>2, <1>3, NodeSame DEF NodeStands
<1>. QED
  BY <1>1, <1>6, <1>7, <1>8, <1>9, OtherKept DEF Changes, OthersStand

\* A new transaction does not meet another one.
Enters(c) ==
  /\ serving'[c] # Idle => serving[c] # Idle \/ ~ Overlaps(parent[c], c)
  /\ asking'[c] # None => asking[c] # None \/ ~ Overlaps(c, c)

LEMMA ExclusiveKept ==
  ASSUME Stations, \A d \in Children : Exclusive(d), parent' = parent, NEW c \in Children, OthersStand(c), Enters(c),
         NEW d \in Children
  PROVE  Exclusive(d)'
<1>1. Children' = Children /\ parent[c] # c /\ parent[d] # d
  BY Family DEF Children, Stations
<1>2. SUFFICES ASSUME serving'[d] # Idle
               PROVE  /\ \A e1 \in Children \ {d} : parent[e1] = parent[d] => serving'[e1] = Idle
                      /\ parent[d] \in Children => asking'[parent[d]] = None
  BY <1>1, Zenon DEF Exclusive, Idle, None
<1>3. ASSUME NEW e1 \in Children \ {d}, parent[e1] = parent[d] PROVE serving'[e1] = Idle
  <2>1. CASE d = c
    BY <1>2, <1>3, <2>1 DEF OthersStand, Enters, Exclusive, Overlaps
  <2>2. CASE d # c /\ e1 = c
    BY <1>2, <1>3, <2>2 DEF OthersStand, Enters, Exclusive, Overlaps
  <2>3. CASE d # c /\ e1 # c
    BY <1>2, <1>3, <2>3 DEF OthersStand, Exclusive
  <2>. QED
    BY <2>1, <2>2, <2>3
<1>4. ASSUME parent[d] \in Children PROVE asking'[parent[d]] = None
  <2>1. CASE parent[d] = c
    BY <1>1, <1>2, <1>4, <2>1 DEF OthersStand, Enters, Exclusive, Overlaps
  <2>2. CASE parent[d] # c /\ d = c
    BY <1>1, <1>2, <1>4, <2>2 DEF OthersStand, Enters, Exclusive, Overlaps
  <2>3. CASE parent[d] # c /\ d # c
    BY <1>1, <1>2, <1>4, <2>3 DEF OthersStand, Exclusive
  <2>. QED
    BY <2>1, <2>2, <2>3
<1>. QED
  BY <1>3, <1>4

\* A step, from what becomes of c's own transaction.
LEMMA StillTogether ==
  ASSUME Stations, Undisturbed, NEW c \in Children, StandsStill(c), Enters(c), TransactionOf(c)', LeftAlone(c)'
  PROVE  Undisturbed'
<1>1. parent' = parent /\ Children' = Children /\ OthersStand(c)
  BY DEF StandsStill, Children
<1>2. ASSUME NEW m \in Nodes PROVE Orderly(m)'
  BY <1>1, NodeSame DEF StandsStill, NodeStands, Undisturbed
<1>3. ASSUME NEW d \in Children PROVE Exclusive(d)'
  BY <1>1, ExclusiveKept DEF Undisturbed
<1>4. ASSUME NEW d \in Children PROVE TransactionOf(d)' /\ LeftAlone(d)'
  BY StillOthers
<1>. QED
  BY <1>1, <1>2, <1>3, <1>4 DEF Undisturbed

LEMMA ChangeTogether ==
  ASSUME Stations, Undisturbed, NEW c \in Children, NEW n, NEW q, TwoEnds(c, n, q), Changes(c, n, q), Enters(c),
         TransactionOf(c)', LeftAlone(c)'
  PROVE  Undisturbed'
<1>1. parent' = parent /\ Children' = Children /\ OthersStand(c)
  BY DEF Changes, Children
<1>2. ASSUME NEW m \in Nodes PROVE Orderly(m)'
  BY <1>1, NodeSame DEF Changes, NodeStands, Undisturbed
<1>3. ASSUME NEW d \in Children PROVE Exclusive(d)'
  BY <1>1, ExclusiveKept DEF Undisturbed
<1>4. ASSUME NEW d \in Children PROVE TransactionOf(d)' /\ LeftAlone(d)'
  BY ChangeOthers
<1>. QED
  BY <1>1, <1>2, <1>3, <1>4 DEF Undisturbed

LEMMA OnlyHeads ==
  ASSUME NEW w, IsList(w), Len(w) >= 1, w[1] = SharedLink, NEW held, SharedLink \in held, NEW v, v = Only(w, held)
  PROVE  ToSet(v) = ToSet(w) \cap held /\ Len(v) >= 1 /\ v[1] = SharedLink
<1>. PICK X : w \in Seq(X)
  BY DEF IsList
<1>. QED
  BY OnlyIs, Zenon

\* Links that go.
LEMMA Trimmed ==
  ASSUME NEW n, Orderly(n), IsList(schedule[n]), parent' = parent, NEW held, SharedLink \in held,
         schedule'[n] = Only(schedule[n], held)
  PROVE  Orderly(n)' /\ Links(n)' = Links(n) \cap held
<1>. PICK w : w = Only(schedule[n], held)
  OBVIOUS
<1>. PICK L : L = Links(n) \cap held
  BY Zenon
<1>1. ToSet(w) = L /\ Len(w) >= 1 /\ w[1] = SharedLink
  BY WithoutIs, Zenon
<1>2. \A l \in L : LinkOf(n, l)
  BY DEF Orderly
<1>3. \A l, k \in L : l.slot = k.slot => l = k
  BY DEF Orderly
<1>. QED
  BY <1>1, <1>2, <1>3, Relinked, Zenon

\* Marks before and after, of links that go.
LEMMA MarksTrimmed ==
  ASSUME NEW n, Orderly(n), Orderly(n)', NEW held, Links(n)' = Links(n) \cap held, NEW o, NEW q, NEW t
  PROVE  t \in Marks(n, o, q)' <=> t \in Marks(n, o, q) /\ Link(t, o, q) \in held
<1>1. t \in Marks(n, o, q)' <=> Link(t, o, q) \in Links(n) \cap held
  BY MarksNext, Zenon
<1>2. t \in Marks(n, o, q) <=> Link(t, o, q) \in Links(n)
  <2>1. \A l \in Links(n) : LinkOf(n, l)
    BY Zenon DEF Orderly
  <2>. QED
    BY <2>1, MarksAre, Zenon
<1>. QED
  BY <1>1, <1>2

\* One of the links with q goes, by its timeslot.
LEMMA DropsLink ==
  ASSUME NEW n, Orderly(n), IsList(schedule[n]), parent' = parent, NEW o, o # "SHARED", NEW q, NEW s \in Marks(n, o, q),
         NEW S, S = {s}, schedule'[n] = Without(schedule[n], S)
  PROVE  Alters(n, o, q, Marks(n, o, q) \ S)
<1>. PICK held : held = {l \in ToSet(schedule[n]) : l.slot \notin S}
  BY Zenon
<1>. PICK a : a = Link(s, o, q)
  OBVIOUS
<1>1. schedule'[n] = Only(schedule[n], held)
  <2>1. Without(schedule[n], S) = Only(schedule[n], held)
    BY WithoutUnfolds
  <2>. QED
    BY <2>1
<1>2. a \in Links(n) /\ a.slot = s /\ a.opt = o
  <2>1. \A l \in Links(n) : LinkOf(n, l)
    BY Zenon DEF Orderly
  <2>. QED
    BY <2>1, MarksAre, LinkIs
<1>3. s # 0
  BY <1>2, SharedIs DEF Orderly, LinkOf, Timeslots
<1>4. \A l : l \in held <=> l \in Links(n) /\ l.slot # s
  BY DEF Links
<1>5. SharedLink \in held
  <2>1. SharedLink \in Links(n)
    BY DEF Orderly, Links, ToSet, IsList
  <2>. QED
    BY <1>3, <1>4, <2>1, SharedIs
<1>6. Orderly(n)' /\ Links(n)' = Links(n) \cap held
  BY <1>1, <1>5, Trimmed, Zenon
<1>7. ASSUME NEW t, NEW o2, NEW q2
      PROVE  t \in Marks(n, o2, q2)' <=> t \in Marks(n, o2, q2) /\ t # s
  <2>1. t \in Marks(n, o2, q2)' <=> t \in Marks(n, o2, q2) /\ Link(t, o2, q2) \in held
    BY <1>6, MarksTrimmed, Zenon
  <2>2. t \in Marks(n, o2, q2) <=> Link(t, o2, q2) \in Links(n)
    <3>1. \A l \in Links(n) : LinkOf(n, l)
      BY Zenon DEF Orderly
    <3>. QED
      BY <3>1, MarksAre, Zenon
  <2>3. Link(t, o2, q2).slot = t
    BY LinkIs
  <2>. QED
    BY <1>4, <2>1, <2>2, <2>3, Zenon
<1>8. Marks(n, o, q)' = Marks(n, o, q) \ S
  <2>1. \A t : t \in Marks(n, o, q)' <=> t \in Marks(n, o, q) /\ t # s
    BY <1>7
  <2>. QED
    BY <2>1
<1>9. ASSUME NEW o2, NEW q2, q2 # q PROVE Marks(n, o2, q2)' = Marks(n, o2, q2)
  <2>1. s \notin Marks(n, o2, q2)
    <3>1. SUFFICES ASSUME s \in Marks(n, o2, q2) PROVE FALSE
      OBVIOUS
    <3>2. \A l \in Links(n) : LinkOf(n, l)
      BY Zenon DEF Orderly
    <3>3. Link(s, o2, q2) \in Links(n)
      BY <3>1, <3>2, MarksAre, Zenon
    <3>4. Link(s, o2, q2) = a
      BY <1>2, <3>3, LinkIs DEF Orderly
    <3>. QED
      BY <1>9, <3>4, LinkEqual
  <2>2. \A t : t \in Marks(n, o2, q2)' <=> t \in Marks(n, o2, q2) /\ t # s
    BY <1>7
  <2>3. \A t : t \in Marks(n, o2, q2)' <=> t \in Marks(n, o2, q2)
    BY <2>1, <2>2, Zenon
  <2>. QED
    BY <2>3, Zenon
<1>. QED
  BY <1>6, <1>8, <1>9, Zenon DEF Alters

LEMMA ClearUnfolds ==
  ASSUME NEW n, NEW q, NEW k, k = {l \in ToSet(schedule[n]) : l.peer # q}
  PROVE  clear_cells(n, q) = Only(schedule[n], k)
  BY Zenon DEF clear_cells

\* All the links with q go.
LEMMA ClearsLinks ==
  ASSUME NEW n, Orderly(n), IsList(schedule[n]), parent' = parent, NEW o, NEW q, q # 0,
         schedule'[n] = clear_cells(n, q)
  PROVE  Alters(n, o, q, {})
<1>. PICK held : held = {l \in ToSet(schedule[n]) : l.peer # q}
  BY Zenon
<1>1. schedule'[n] = Only(schedule[n], held)
  BY ClearUnfolds, Zenon
<1>2. \A l : l \in held <=> l \in Links(n) /\ l.peer # q
  BY DEF Links
<1>3. SharedLink \in held
  <2>1. SharedLink \in Links(n)
    BY DEF Orderly, Links, ToSet, IsList
  <2>. QED
    BY <1>2, <2>1, SharedIs
<1>4. Orderly(n)' /\ Links(n)' = Links(n) \cap held
  BY <1>1, <1>3, Trimmed, Zenon
<1>5. ASSUME NEW t, NEW o2, NEW q2
      PROVE  t \in Marks(n, o2, q2)' <=> t \in Marks(n, o2, q2) /\ q2 # q
  <2>1. t \in Marks(n, o2, q2)' <=> t \in Marks(n, o2, q2) /\ Link(t, o2, q2) \in held
    BY <1>4, MarksTrimmed, Zenon
  <2>2. t \in Marks(n, o2, q2) <=> Link(t, o2, q2) \in Links(n)
    <3>1. \A l \in Links(n) : LinkOf(n, l)
      BY Zenon DEF Orderly
    <3>. QED
      BY <3>1, MarksAre, Zenon
  <2>3. Link(t, o2, q2).peer = q2
    BY LinkIs
  <2>. QED
    BY <1>2, <2>1, <2>2, <2>3, Zenon
<1>6. Marks(n, o, q)' = {}
  <2>1. \A t : t \notin Marks(n, o, q)'
    BY <1>5
  <2>. QED
    BY <2>1
<1>7. ASSUME NEW o2, NEW q2, q2 # q PROVE Marks(n, o2, q2)' = Marks(n, o2, q2)
  <2>1. \A t : t \in Marks(n, o2, q2)' <=> t \in Marks(n, o2, q2)
    BY <1>5, <1>7, Zenon
  <2>. QED
    BY <2>1, Zenon
<1>. QED
  BY <1>4, <1>6, <1>7, Zenon DEF Alters

\* A timeslot is taken and given back.
LEMMA Reserved ==
  ASSUME NEW n, Orderly(n), IsList(schedule[n]), parent' = parent, NEW q, NEW s, s # 0, s \notin Used(n),
         NEW w, w = With(schedule[n], "none", q, s), NEW S, S = {s}, schedule'[n] = Without(w, S)
  PROVE  Orderly(n)' /\ Links(n)' = Links(n)
<1>. PICK a : a = Link(s, "none", q)
  OBVIOUS
<1>. PICK held : held = {l \in ToSet(w) : l.slot \notin S}
  BY Zenon
<1>. PICK v : v = Only(w, held)
  BY Zenon
<1>1. IsList(w) /\ Len(w) >= 1 /\ w[1] = SharedLink /\ ToSet(w) = Links(n) \cup {a}
  BY LinkAdded
<1>2. schedule'[n] = v
  BY WithoutUnfolds, Zenon
<1>3. a.slot = s
  BY LinkIs
<1>4. \A l \in Links(n) : l.slot # s
  BY DEF Used
<1>5. SharedLink \in held
  <2>1. SharedLink \in Links(n)
    BY DEF Orderly, Links, ToSet, IsList
  <2>. QED
    BY <1>1, <2>1, SharedIs
<1>6. ToSet(v) = ToSet(w) \cap held /\ Len(v) >= 1 /\ v[1] = SharedLink
  BY <1>1, <1>5, OnlyHeads, SMTT(60)
<1>7. ToSet(v) = Links(n)
  BY <1>1, <1>3, <1>4, <1>6, Zenon
<1>8. (\A l \in Links(n) : LinkOf(n, l)) /\ (\A l, k \in Links(n) : l.slot = k.slot => l = k)
  BY Zenon DEF Orderly
<1>. QED
  BY <1>2, <1>6, <1>7, <1>8, Relinked, Zenon

\* The steps of a transaction.  A request is sent.
LEMMA AskStep ==
  ASSUME NEW r, NEW rq, NEW tx, NEW rx, NEW ut, NEW up, NEW x,
         Transaction(r, None, rq, NoFrame, Idle, tx, rx, ut, up, x),
         NEW a1, a1 # None, NEW rq1, rq1.cmd = a1, IsRequest(r, rq1, tx, ut), NEW up1, NEW x1
  PROVE  Transaction(r, a1, rq1, NoFrame, Idle, tx, rx, ut, up1, x1)
  BY Zenon DEF Transaction

\* A request is answered.
LEMMA AnswerStep ==
  ASSUME NEW r, NEW a, NEW rq, NEW rs, NEW sv, NEW tx, NEW rx, NEW ut, NEW up, NEW x,
         Transaction(r, a, rq, rs, sv, tx, rx, ut, up, x), rq # NoRequest,
         NEW rs1, rs1 # NoFrame, rs1 = [rc |-> rs1.rc, cells |-> rs1.cells, delivered |-> FALSE],
         NEW sv1, sv1 # Idle, NEW rx1, NEW x1, IsResponse(r, a, rs1, sv1, tx, rx1, ut, up, x1), NEW up1,
         sv1.callback = "add" => up1 = up
  PROVE  Transaction(r, a, NoRequest, rs1, sv1, tx, rx1, ut, up1, x1)
<1>1. a # None
  BY Zenon DEF Transaction
<1>2. IsResponse(r, a, rs1, sv1, tx, rx1, ut, up1, x1)
  BY DEF IsResponse, ToAdd
<1>3. rs1.delivered = FALSE
  OBVIOUS
<1>. QED
  BY <1>1, <1>2, <1>3 DEF Transaction

\* The request is over without an answer, or lost.
LEMMA NoAnswerStep ==
  ASSUME NEW r, NEW a, NEW rq, NEW rs, NEW sv, NEW tx, NEW rx, NEW ut, NEW up, NEW x,
         Transaction(r, a, rq, rs, sv, tx, rx, ut, up, x), rq # NoRequest, NEW sv1, NEW x1
  PROVE  Transaction(r, a, NoRequest, rs, sv1, tx, rx, ut, up, x1)
<1>1. rs = NoFrame
  BY Zenon DEF Transaction
<1>. QED
  BY <1>1, Zenon DEF Transaction

\* The response is delivered.
LEMMA TakeStep ==
  ASSUME NEW r, NEW a, NEW rq, NEW rs, NEW sv, NEW tx, NEW rx, NEW ut, NEW up, NEW x,
         Transaction(r, a, rq, rs, sv, tx, rx, ut, up, x), rs # NoFrame, a # None,
         NEW rs1, rs1 = [rs EXCEPT !.delivered = TRUE], NEW tx1, NEW ut1, IsDelivered(r, sv, tx1, rx, up, x)
  PROVE  Transaction(r, None, rq, rs1, sv, tx1, rx, ut1, up, x)
<1>1. rs = [rc |-> rs.rc, cells |-> rs.cells, delivered |-> rs.delivered]
  BY Zenon DEF Transaction
<1>2. rs1 = [rc |-> rs.rc, cells |-> rs.cells, delivered |-> TRUE]
  BY <1>1, Zenon
<1>3. rs1.rc = rs.rc /\ rs1.cells = rs.cells /\ rs1.delivered = TRUE
  BY <1>2
<1>4. rs1 = [rc |-> rs1.rc, cells |-> rs1.cells, delivered |-> rs1.delivered]
  BY <1>2, <1>3, Zenon
<1>5. rs1 # NoFrame
  BY <1>3 DEF NoFrame
<1>6. rq = NoRequest /\ sv # Idle
  BY Zenon DEF Transaction
<1>. QED
  BY <1>3, <1>4, <1>5, <1>6, Zenon DEF Transaction

\* The parent hears of it, and then the transaction is over.
LEMMA OverStep ==
  ASSUME NEW r, NEW a, NEW rq, NEW rs, NEW sv, NEW tx, NEW rx, NEW ut, NEW up, NEW x,
         Transaction(r, a, rq, rs, sv, tx, rx, ut, up, x), rs # NoFrame, rs.delivered,
         NEW tx1, NEW ut1, NEW up1, NEW x1
  PROVE  /\ a = None /\ sv # Idle /\ IsDelivered(r, sv, tx, rx, up, x)
         /\ Transaction(r, a, rq, NoFrame, Idle, tx1, tx1, ut1, up1, x1)
<1>1. a = None /\ rq = NoRequest /\ sv # Idle /\ IsDelivered(r, sv, tx, rx, up, x)
  BY Zenon DEF Transaction
<1>2. NoFrame = [rc |-> NoFrame.rc, cells |-> NoFrame.cells, delivered |-> NoFrame.delivered]
  BY DEF NoFrame
<1>. QED
  BY <1>1, <1>2, Zenon DEF Transaction

\* One side gives up when nothing is under way.
LEMMA GiveUpStep ==
  ASSUME NEW r, NEW a, NEW rq, NEW sv, NEW tx, NEW rx, NEW ut, NEW up, NEW x,
         Transaction(r, a, rq, NoFrame, sv, tx, rx, ut, up, x), NEW x1
  PROVE  /\ Transaction(r, a, rq, NoFrame, Idle, tx, rx, ut, up, x1)
         /\ rq = NoRequest => Transaction(r, None, rq, NoFrame, sv, tx, rx, ut, up, x)
  BY Zenon DEF Transaction

\* The two ends of c's links after a step at one of them, or at none.
LEMMA ChildSide ==
  ASSUME Stations, NEW c \in Children, Changes(c, c, parent[c])
  PROVE  /\ Tx(c)' = Marks(c, "TX", parent[c])' /\ Rx(c)' = Rx(c)
         /\ Used(parent[c])' = Used(parent[c]) /\ NodeStands(parent[c]) /\ parent' = parent
<1>1. parent' = parent /\ c \in Nodes /\ parent[c] \in Nodes /\ parent[c] # c /\ NodeStands(parent[c])
  BY Family DEF Changes, Stations
<1>2. Tx(c)' = Marks(c, "TX", parent[c])'
  BY <1>1 DEF Tx
<1>3. Rx(c)' = Rx(c) /\ Used(parent[c])' = Used(parent[c])
  BY <1>1, NodeSame DEF NodeStands, Rx
<1>. QED
  BY <1>1, <1>2, <1>3

LEMMA ParentSide ==
  ASSUME Stations, NEW c \in Children, Changes(c, parent[c], c)
  PROVE  /\ Rx(c)' = Marks(parent[c], "RX", c)' /\ Tx(c)' = Tx(c)
         /\ Used(c)' = Used(c) /\ parent' = parent
<1>1. parent' = parent /\ c \in Nodes /\ parent[c] \in Nodes /\ parent[c] # c /\ NodeStands(c)
  BY Family DEF Changes, Stations
<1>2. Rx(c)' = Marks(parent[c], "RX", c)'
  BY <1>1 DEF Rx
<1>3. Tx(c)' = Tx(c) /\ Used(c)' = Used(c)
  BY <1>1, NodeSame DEF NodeStands, Tx
<1>. QED
  BY <1>1, <1>2, <1>3

LEMMA SidesSame ==
  ASSUME Stations, parent' = parent, schedule' = schedule, NEW c \in Children
  PROVE  Tx(c)' = Tx(c) /\ Rx(c)' = Rx(c) /\ Used(c)' = Used(c) /\ Used(parent[c])' = Used(parent[c])
  BY NodeSame DEF Tx, Rx

\* What c's transaction has become.
LEMMA NextTransaction ==
  ASSUME NEW c, NEW a, NEW rq, NEW rs, NEW sv, NEW tx, NEW rx, NEW ut, NEW up, NEW x,
         Transaction(running, a, rq, rs, sv, tx, rx, ut, up, x),
         parent' = parent, running' = running, asking'[c] = a, request'[c] = rq, response'[c] = rs, serving'[c] = sv,
         Tx(c)' = tx, Rx(c)' = rx, Used(c)' = ut, Used(parent[c])' = up, CellLeft(c)' = x
  PROVE  TransactionOf(c)'
  BY DEF TransactionOf

LEMMA NotLeftAlone == ASSUME NEW c, serving'[c].callback \notin {"add", "delete"} PROVE LeftAlone(c)'
  BY DEF LeftAlone

LEMMA CellStays ==
  ASSUME NEW c, parent' = parent, running' = running, NodeStands(parent[c]), serving'[c] = serving[c]
  PROVE  CellLeft(c)' = CellLeft(c)
  BY DEF CellLeft, NodeStands

LEMMA LeftAloneStays ==
  ASSUME NEW c, LeftAlone(c), parent' = parent, running' = running, NodeStands(parent[c]), serving'[c] = serving[c]
  PROVE  LeftAlone(c)'
<1>1. CellLeft(c)' = CellLeft(c)
  BY CellStays
<1>. QED
  BY <1>1 DEF LeftAlone, NodeStands

\* The timeslots of a list of links.
SlotsIn(w) == [i \in 1 .. Len(w) |-> w[i].slot]

LEMMA LinksWithUnfolds ==
  ASSUME NEW n, NEW o, NEW q, NEW k, k = {l \in ToSet(schedule[n]) : l.opt = o /\ l.peer = q}
  PROVE  LinksWith(n, o, q) = SlotsIn(Only(schedule[n], k))
  BY Zenon DEF LinksWith, LinksOf, SlotsIn

LEMMA SlotsInAre ==
  ASSUME NEW w, IsList(w)
  PROVE  /\ \A s : s \in ToSet(SlotsIn(w)) <=> \E l \in ToSet(w) : l.slot = s
         /\ SlotsIn(w) # <<>> => \E s : s \in ToSet(SlotsIn(w))
<1>. PICK v : v = SlotsIn(w)
  OBVIOUS
<1>1. Len(w) \in Nat /\ DOMAIN w = 1 .. Len(w)
  BY ListIs
<1>2. DOMAIN v = 1 .. Len(w) /\ \A i \in 1 .. Len(w) : v[i] = w[i].slot
  BY DEF SlotsIn
<1>3. ASSUME NEW s PROVE s \in ToSet(v) <=> \E l \in ToSet(w) : l.slot = s
  BY <1>1, <1>2 DEF ToSet
<1>4. ASSUME v # <<>> PROVE \E s : s \in ToSet(v)
  <2>1. Len(w) # 0
    <3>1. SUFFICES ASSUME Len(w) = 0 PROVE FALSE
      OBVIOUS
    <3>2. v = [i \in 1 .. 0 |-> w[i].slot]
      BY <3>1 DEF SlotsIn
    <3>3. v \in Seq({}) /\ Len(v) = 0
      BY <3>2
    <3>. QED
      BY <1>4, <3>3
  <2>2. 1 \in DOMAIN v
    BY <1>1, <1>2, <2>1
  <2>. QED
    BY <2>2 DEF ToSet
<1>. QED
  BY <1>3, <1>4

LEMMA LinksWithIs ==
  ASSUME NEW n, Orderly(n), IsList(schedule[n]), NEW o, NEW q
  PROVE  /\ ToSet(LinksWith(n, o, q)) = Marks(n, o, q)
         /\ LinksWith(n, o, q) # <<>> => \E s : s \in Marks(n, o, q)
<1>. PICK k : k = {l \in ToSet(schedule[n]) : l.opt = o /\ l.peer = q}
  BY Zenon
<1>. PICK w : w = Only(schedule[n], k)
  OBVIOUS
<1>. PICK v : v = SlotsIn(w)
  OBVIOUS
<1>1. IsList(w) /\ ToSet(w) = Links(n) \cap k
  BY WithoutIs, Zenon
<1>2. LinksWith(n, o, q) = v
  BY LinksWithUnfolds
<1>3. \A l : l \in ToSet(w) <=> l \in Links(n) /\ l.opt = o /\ l.peer = q
  BY <1>1 DEF Links
<1>4. /\ \A s : s \in ToSet(v) <=> \E l \in ToSet(w) : l.slot = s
      /\ v # <<>> => \E s : s \in ToSet(v)
  BY <1>1, SlotsInAre, Zenon
<1>5. \A s : s \in Marks(n, o, q) <=> \E l \in ToSet(w) : l.slot = s
  BY <1>3, Zenon DEF Marks
<1>6. ToSet(v) = Marks(n, o, q)
  BY <1>4, <1>5, Zenon
<1>. QED
  BY <1>2, <1>4, <1>6, Zenon

LEMMA LeastOf == ASSUME NEW S \in SUBSET Nat, S # {} PROVE \E k \in S : \A i \in S : k <= i
<1> DEFINE HasLeast(r) == \E k \in r : \A i \in r : k <= i
           T == {m \in Nat : \A r \in SUBSET Nat : (\E i \in r : i <= m) => HasLeast(r)}
<1>1. 0 \in T
  <2> SUFFICES ASSUME NEW r \in SUBSET Nat, NEW i \in r, i <= 0 PROVE HasLeast(r)
    OBVIOUS
  <2>1. \A j \in r : i <= j
    OBVIOUS
  <2>. QED
    BY <2>1
<1>2. ASSUME NEW m \in Nat, m \in T PROVE m + 1 \in T
  <2> SUFFICES ASSUME NEW r \in SUBSET Nat, NEW i \in r, i <= m + 1 PROVE HasLeast(r)
    OBVIOUS
  <2>1. CASE \E j \in r : j <= m
    BY <1>2, <2>1
  <2>2. CASE ~ \E j \in r : j <= m
    <3>1. \A j \in r : i <= j
      BY <2>2
    <3>. QED
      BY <3>1
  <2>. QED
    BY <2>1, <2>2
<1>3. T \subseteq Nat
  OBVIOUS
<1> HIDE DEF T
<1>4. \A m \in Nat : m \in T
  BY <1>1, <1>2, <1>3, NatInduct
<1>5. PICK i \in S : TRUE
  BY Zenon
<1>6. i \in Nat /\ i <= i
  OBVIOUS
<1>. QED
  BY <1>4, <1>5, <1>6, Zenon DEF T

\* The first of the links to send to the peer.
LEMMA FirstIsLink ==
  ASSUME NEW n, Orderly(n), IsList(schedule[n]), NEW o, NEW q, NEW w, w = LinksWith(n, o, q), w # <<>>
  PROVE  (CHOOSE s \in ToSet(w) : \A t \in ToSet(w) : s <= t) \in Marks(n, o, q)
<1>. PICK M : M = Marks(n, o, q)
  OBVIOUS
<1>1. ToSet(w) = M /\ \E s : s \in M
  BY LinksWithIs
<1>2. M \in SUBSET Nat
  BY SharedIs DEF Marks, Orderly, LinkOf, Timeslots
<1>3. \E s \in M : \A t \in M : s <= t
  BY <1>1, <1>2, LeastOf
<1>4. (CHOOSE s \in M : \A t \in M : s <= t) \in M
  BY <1>3, Zenon
<1>. QED
  BY <1>1, <1>4

LEMMA InUseIs == ASSUME NEW n, IsList(schedule[n]), NEW s PROVE InUse(n, s) <=> s \in Used(n)
  BY DEF InUse, Used, Links, ToSet

\* Nothing that matters happens.
LEMMA AllStands ==
  ASSUME Stations, Undisturbed, parent' = parent, running' = running, schedule' = schedule,
         res_storage' = res_storage, pending_add' = pending_add, pending_delete' = pending_delete,
         UNCHANGED <<asking, serving, request, response>>
  PROVE  Undisturbed'
<1>1. Children' = Children
  BY DEF Children
<1>2. ASSUME NEW m \in Nodes PROVE Orderly(m)'
  BY NodeSame DEF Undisturbed
<1>3. ASSUME NEW d \in Children PROVE Exclusive(d)'
  BY DEF Undisturbed, Exclusive, Children, Idle, None
<1>4. ASSUME NEW d \in Children PROVE TransactionOf(d)' /\ LeftAlone(d)'
  <2>1. NodeStands(parent[d])
    BY DEF NodeStands
  <2>2. Tx(d)' = Tx(d) /\ Rx(d)' = Rx(d) /\ Used(d)' = Used(d) /\ Used(parent[d])' = Used(parent[d])
    BY SidesSame
  <2>. QED
    BY <2>1, <2>2, OtherKept
<1>. QED
  BY <1>1, <1>2, <1>3, <1>4 DEF Undisturbed

LEMMA Responded ==
  ASSUME Stations, NEW c \in Children, NEW rc, NEW cells, NEW callback, NEW len, Respond(c, rc, cells, callback, len)
  PROVE  /\ serving'[c] = [callback |-> callback, len |-> len]
         /\ response'[c] = [rc |-> rc, cells |-> cells, delivered |-> FALSE]
         /\ \A d \in Children \ {c} : serving'[d] = serving[d] /\ response'[d] = response[d]
  BY DEF Respond, Stations

\* A request is sent by a child whose schedule keeps its links.
LEMMA Asks ==
  ASSUME Stations, Undisturbed, NEW c \in Children, CanAsk(c), NEW cmd, cmd # None, NEW cells, Request(c, cmd, cells),
         IsRequest(running, [cmd |-> cmd, cells |-> cells], Tx(c), Used(c)),
         parent' = parent, running' = running, UNCHANGED <<serving, response, res_storage, pending_add, pending_delete>>,
         ~ Overlaps(c, c), \A m \in Nodes \ {c} : schedule'[m] = schedule[m], Orderly(c)', Links(c)' = Links(c)
  PROVE  Undisturbed'
<1>. PICK rq : rq = [cmd |-> cmd, cells |-> cells]
  OBVIOUS
<1>. PICK q : q = parent[c]
  OBVIOUS
<1>1. /\ asking[c] = None /\ serving[c] = Idle /\ response[c] = NoFrame
      /\ asking'[c] = cmd /\ request'[c] = rq /\ rq.cmd = cmd
      /\ \A d \in Children \ {c} : asking'[d] = asking[d] /\ request'[d] = request[d]
  BY DEF CanAsk, Request, Stations
<1>2. Used(c)' = Used(c) /\ \A o2, q2 : Marks(c, o2, q2)' = Marks(c, o2, q2)
  <2>1. Used(c)' = Used(c)
    BY Zenon DEF Used
  <2>2. ASSUME NEW o2, NEW q2 PROVE Marks(c, o2, q2)' = Marks(c, o2, q2)
    BY Zenon DEF Marks
  <2>. QED
    BY <2>1, <2>2
<1>3. Changes(c, c, q)
  BY <1>1, <1>2 DEF Changes, OthersStand, NodeStands
<1>4. TwoEnds(c, c, q)
  BY DEF TwoEnds
<1>5. Enters(c)
  BY <1>1 DEF Enters
<1>6. Tx(c)' = Tx(c) /\ Rx(c)' = Rx(c) /\ Used(parent[c])' = Used(parent[c])
  BY <1>2, <1>3, ChildSide DEF Tx
<1>7. TransactionOf(c)'
  <2>1. Transaction(running, None, request[c], NoFrame, Idle, Tx(c), Rx(c), Used(c), Used(parent[c]), CellLeft(c))
    BY <1>1 DEF Undisturbed, TransactionOf
  <2>. PICK x1 : x1 = CellLeft(c)'
    OBVIOUS
  <2>2. Transaction(running, cmd, rq, NoFrame, Idle, Tx(c), Rx(c), Used(c), Used(parent[c]), x1)
    BY <1>1, <2>1, AskStep
  <2>. QED
    BY <1>1, <1>2, <1>6, <2>2, NextTransaction
<1>8. LeftAlone(c)'
  BY <1>1, NotLeftAlone DEF Idle
<1>. QED
  BY <1>3, <1>4, <1>5, <1>7, <1>8, ChangeTogether

LEMMA TickLinks ==
  ASSUME Stations, Undisturbed, running = "sf_simple", running' = running, NEW c \in Children, Tick(c),
         UNCHANGED sfpVars, ~ disturbed'
  PROVE  Undisturbed'
<1>1. /\ UNCHANGED <<parent, schedule, serving, response, res_storage, pending_add, pending_delete>>
      /\ CanAsk(c) /\ (asking'[c] # None => ~ Overlaps(c, c))
  BY Zenon DEF Tick, sfpVars
<1>2. c \in Nodes /\ IsList(schedule[c]) /\ Orderly(c)
  BY Family DEF Stations, Undisturbed
<1>3. Orderly(c)' /\ Links(c)' = Links(c)
  BY <1>1, <1>2, NodeSame
<1>4. ASSUME NEW cmd, cmd # None, NEW cells, Request(c, cmd, cells),
             IsRequest("sf_simple", [cmd |-> cmd, cells |-> cells], Tx(c), Used(c))
      PROVE  Undisturbed'
  <2>1. asking'[c] = cmd
    BY <1>4 DEF Request, Stations
  <2>. QED
    BY <1>1, <1>3, <1>4, <2>1, Asks
<1>5. CASE UNCHANGED <<asking, request>>
  BY <1>1, <1>5, AllStands
<1>6. ASSUME NEW cells \in [1 .. MaxLinks -> Slots], \A i \in DOMAIN cells : ~ InUse(c, cells[i]), Request(c, "ADD", cells)
      PROVE  Undisturbed'
  <2>. PICK rq : rq = [cmd |-> "ADD", cells |-> cells]
    BY Zenon
  <2>1. IsList(cells)
    <3>1. cells \in Seq(Slots)
      BY SchedulingAssumption DEF SchedulingAssumption
    <3>. QED
      BY <3>1 DEF IsList
  <2>2. \A s \in ToSet(cells) : s \in Timeslots /\ s \notin Used(c)
    BY <1>2, <1>6, InUseIs, SixTopAssumption, Zenon DEF ToSet, SixTopAssumption, Timeslots
  <2>3. rq.cmd = "ADD" /\ rq.cells = cells
    OBVIOUS
  <2>4. IsRequest("sf_simple", rq, Tx(c), Used(c))
    BY <2>1, <2>2, <2>3, Zenon DEF IsRequest
  <2>5. "ADD" # None
    BY DEF None
  <2>. QED
    BY <1>4, <1>6, <2>4, <2>5
<1>7. CASE sf_simple_remove_links(c)
  <2>. PICK w : w = LinksWith(c, "TX", parent[c])
    OBVIOUS
  <2>1. CASE w = <<>>
    BY <1>5, <1>7, <2>1 DEF sf_simple_remove_links
  <2>2. CASE w # <<>>
    <3>. PICK s : s = CHOOSE t \in ToSet(w) : \A u \in ToSet(w) : t <= u
      OBVIOUS
    <3>1. Request(c, "DELETE", <<s>>)
      BY <1>7, <2>2, Zenon DEF sf_simple_remove_links
    <3>2. s \in Tx(c)
      BY <1>2, <2>2, FirstIsLink DEF Tx
    <3>. PICK cells : cells = <<s>>
      BY Zenon
    <3>. PICK rq : rq = [cmd |-> "DELETE", cells |-> cells]
      BY Zenon
    <3>3. rq.cmd = "DELETE" /\ rq.cells = cells
      OBVIOUS
    <3>4. IsRequest("sf_simple", rq, Tx(c), Used(c))
      BY <3>2, <3>3, Zenon DEF IsRequest
    <3>5. "DELETE" # None
      BY DEF None
    <3>. QED
      BY <1>4, <3>1, <3>4, <3>5, Zenon
  <2>. QED
    BY <2>1, <2>2
<1>8. sf_simple_add_links(c) \/ sf_simple_remove_links(c) \/ UNCHANGED <<asking, request>>
  BY Zenon DEF Tick
<1>. QED
  BY <1>5, <1>6, <1>7, <1>8, Zenon DEF sf_simple_add_links

LEMMA FirstIs ==
  ASSUME NEW X, NEW f \in Seq(X), Len(f) >= 1
  PROVE  f[1] \in ToSet(f) /\ SubSeq(f, 1, 1) = <<f[1]>>
<1>. PICK g : g = SubSeq(f, 1, 1)
  BY Zenon
<1>. PICK s : s = f[1]
  OBVIOUS
<1>. PICK w : w = <<s>>
  BY Zenon
<1>1. s \in X /\ g \in Seq(X) /\ Len(g) = 1 /\ g[1] = s
  OBVIOUS
<1>2. w \in Seq(X) /\ Len(w) = 1 /\ w[1] = s
  BY <1>1
<1>3. g = w
  <2>1. \A i \in 1 .. 1 : g[i] = w[i]
    BY <1>1, <1>2
  <2>. QED
    BY <1>1, <1>2, <2>1, SeqEqual, Zenon
<1>4. s \in ToSet(f)
  BY DEF ToSet
<1>. QED
  BY <1>3, <1>4, Zenon

\* The first cell of a request that is free.
LEMMA FirstFeasibleIs ==
  ASSUME NEW n, IsList(schedule[n]), NEW cells, IsList(cells), NEW free, free = FirstFeasible(n, cells), free # <<>>
  PROVE  \E s \in ToSet(cells) : s \notin Used(n) /\ free = <<s>>
<1>. PICK k : k = {s \in ToSet(cells) : ~ InUse(n, s)}
  BY Zenon
<1>. PICK f : f = Only(cells, k)
  BY Zenon
<1>. PICK X : cells \in Seq(X)
  BY DEF IsList
<1>1. f \in Seq(X) /\ ToSet(f) = ToSet(cells) \cap k
  BY OnlyIs
<1>2. free = SubSeq(f, 1, IF f = <<>> THEN 0 ELSE 1)
  BY Zenon DEF FirstFeasible, Feasible
<1>3. f # <<>>
  <2>1. SUFFICES ASSUME f = <<>> PROVE FALSE
    OBVIOUS
  <2>2. free = SubSeq(f, 1, 0)
    BY <1>2, <2>1, Zenon
  <2>3. SubSeq(f, 1, 0) = <<>>
    BY <1>1
  <2>. QED
    BY <2>2, <2>3
<1>4. Len(f) >= 1
  BY <1>1, <1>3
<1>5. free = SubSeq(f, 1, 1)
  BY <1>2, <1>3, Zenon
<1>. PICK s : s = f[1]
  BY Zenon
<1>6. f[1] \in ToSet(f) /\ SubSeq(f, 1, 1) = <<f[1]>>
  BY <1>1, <1>4, FirstIs, Zenon
<1>7. free = <<s>> /\ s \in ToSet(f)
  BY <1>5, <1>6, Zenon
<1>8. s \in ToSet(cells) /\ s \notin Used(n)
  BY <1>1, <1>7, InUseIs
<1>. QED
  BY <1>7, <1>8, Zenon

\* Cells of the parent, and of the child.
LEMMA MarksUsed == ASSUME NEW n, NEW o, NEW q, NEW s \in Marks(n, o, q) PROVE s \in Used(n)
  BY DEF Marks, Used

\* A request is handled and the parent's schedule stays.
LEMMA HandledStill ==
  ASSUME Stations, Undisturbed, NEW c \in Children, parent' = parent, running' = running,
         schedule' = schedule, asking' = asking, request' = [request EXCEPT ![c] = NoRequest],
         \A d \in Children \ {c} : serving'[d] = serving[d] /\ response'[d] = response[d],
         \A m \in Nodes \ {parent[c]} :
           res_storage'[m] = res_storage[m] /\ pending_add'[m] = pending_add[m] /\ pending_delete'[m] = pending_delete[m],
         ~ Overlaps(parent[c], c)
  PROVE  /\ Changes(c, parent[c], c) /\ TwoEnds(c, parent[c], c) /\ Enters(c) /\ request'[c] = NoRequest
         /\ Tx(c)' = Tx(c) /\ Rx(c)' = Rx(c) /\ Used(c)' = Used(c) /\ Used(parent[c])' = Used(parent[c])
<1>1. request'[c] = NoRequest /\ \A d \in Children \ {c} : request'[d] = request[d]
  BY DEF Stations
<1>2. OthersStand(c)
  BY <1>1 DEF OthersStand
<1>3. Orderly(parent[c])' /\ \A o2, q2 : Marks(parent[c], o2, q2)' = Marks(parent[c], o2, q2)
  BY Family, NodeSame DEF Stations, Undisturbed
<1>4. Changes(c, parent[c], c)
  BY <1>2, <1>3 DEF Changes, NodeStands
<1>5. Enters(c) /\ TwoEnds(c, parent[c], c)
  BY DEF Enters, TwoEnds
<1>. QED
  BY <1>1, <1>4, <1>5, SidesSame

\* The answer to it.
LEMMA HandledTransaction ==
  ASSUME Stations, Undisturbed, NEW c \in Children, parent' = parent, running' = running, asking' = asking,
         request[c] # NoRequest, request'[c] = NoRequest,
         NEW rc, rc # None, NEW cells, NEW callback, callback # "idle", NEW len, Respond(c, rc, cells, callback, len),
         Tx(c)' = Tx(c), Used(c)' = Used(c), callback = "add" => Used(parent[c])' = Used(parent[c]),
         \A rs1, sv1 : rs1.rc = rc /\ rs1.cells = cells /\ sv1.callback = callback =>
           IsResponse(running, asking[c], rs1, sv1, Tx(c), Rx(c)', Used(c), Used(parent[c]), CellLeft(c)')
  PROVE  TransactionOf(c)'
<1>. PICK rs1 : rs1 = [rc |-> rc, cells |-> cells, delivered |-> FALSE]
  BY Zenon
<1>. PICK sv1 : sv1 = [callback |-> callback, len |-> len]
  BY Zenon
<1>. PICK rx1 : rx1 = Rx(c)'
  OBVIOUS
<1>. PICK up1 : up1 = Used(parent[c])'
  OBVIOUS
<1>. PICK x1 : x1 = CellLeft(c)'
  OBVIOUS
<1>1. serving'[c] = sv1 /\ response'[c] = rs1
  BY Responded
<1>2. /\ rs1.rc = rc /\ rs1.cells = cells /\ rs1.delivered = FALSE
      /\ rs1 = [rc |-> rs1.rc, cells |-> rs1.cells, delivered |-> FALSE] /\ sv1.callback = callback
  OBVIOUS
<1>3. rs1 # NoFrame /\ sv1 # Idle
  BY <1>2 DEF NoFrame, Idle
<1>4. IsResponse(running, asking[c], rs1, sv1, Tx(c), rx1, Used(c), Used(parent[c]), x1)
  BY <1>2, Zenon
<1>5. Transaction(running, asking[c], request[c], response[c], serving[c],
                  Tx(c), Rx(c), Used(c), Used(parent[c]), CellLeft(c))
  BY Zenon DEF Undisturbed, TransactionOf
<1>6. sv1.callback = "add" => up1 = Used(parent[c])
  BY <1>2
<1>7. Transaction(running, asking[c], NoRequest, rs1, sv1, Tx(c), rx1, Used(c), up1, x1)
  BY <1>2, <1>3, <1>4, <1>5, <1>6, AnswerStep
<1>. QED
  BY <1>1, <1>7, NextTransaction

LEMMA SimpleRequestLinks ==
  ASSUME Stations, Stores, Undisturbed, running = "sf_simple", running' = running, NEW c \in Children,
         SimpleRequestInput(c), UNCHANGED sfpVars, ~ disturbed'
  PROVE  Undisturbed'
<1>. PICK p : p = parent[c]
  OBVIOUS
<1>1. /\ UNCHANGED <<parent, schedule, asking, pending_add, pending_delete>>
      /\ request[c] # NoRequest /\ request' = [request EXCEPT ![c] = NoRequest] /\ ~ Overlaps(p, c)
  BY Zenon DEF SimpleRequestInput, sfpVars
<1>2. c \in Nodes /\ p \in Nodes /\ IsList(schedule[p]) /\ Orderly(p)
  BY Family DEF Stations, Undisturbed
<1>3. TransactionOf(c) /\ LeftAlone(c)
  BY Zenon DEF Undisturbed
<1>4. Tx(c) = Rx(c) /\ asking[c] = request[c].cmd /\ IsRequest("sf_simple", request[c], Tx(c), Used(c))
  BY <1>1, <1>3, Zenon DEF TransactionOf, Transaction
<1>5. ASSUME NEW cells, res_storage' = [res_storage EXCEPT ![p] = cells],
             \A d \in Children \ {c} : serving'[d] = serving[d] /\ response'[d] = response[d]
      PROVE  /\ Changes(c, p, c) /\ TwoEnds(c, p, c) /\ Enters(c) /\ request'[c] = NoRequest
             /\ Tx(c)' = Tx(c) /\ Rx(c)' = Rx(c) /\ Used(c)' = Used(c) /\ Used(p)' = Used(p)
             /\ res_storage'[p] = cells
  <2>1. res_storage'[p] = cells /\ \A m \in Nodes \ {p} : res_storage'[m] = res_storage[m]
    BY <1>2, <1>5 DEF Stores
  <2>. QED
    BY <1>1, <1>5, <2>1, HandledStill, Zenon
<1>6. ASSUME NEW s, NEW cells, cells = <<s>>, res_storage' = [res_storage EXCEPT ![p] = cells],
             NEW callback \in {"add", "delete"}, Respond(c, "SUCCESS", cells, callback, 1),
             \/ asking[c] = "ADD" /\ callback = "add" /\ s \in Timeslots /\ s \notin Used(c) /\ s \notin Used(p)
             \/ asking[c] = "DELETE" /\ callback = "delete" /\ s \in Rx(c)
      PROVE  Undisturbed'
  <2>1. /\ Changes(c, p, c) /\ TwoEnds(c, p, c) /\ Enters(c) /\ request'[c] = NoRequest
        /\ Tx(c)' = Tx(c) /\ Rx(c)' = Rx(c) /\ Used(c)' = Used(c) /\ Used(p)' = Used(p)
        /\ res_storage'[p] = cells
    BY <1>5, <1>6, Responded, Zenon
  <2>2. CellLeft(c)' = s
    BY <1>1, <1>6, <2>1 DEF CellLeft
  <2>3. ASSUME NEW rs1, NEW sv1, rs1.rc = "SUCCESS", rs1.cells = cells, sv1.callback = callback
        PROVE  IsResponse(running, asking[c], rs1, sv1, Tx(c), Rx(c)', Used(c), Used(parent[c]), CellLeft(c)')
    BY <1>4, <1>6, <2>1, <2>2, <2>3, Zenon DEF IsResponse, ToAdd, ToDelete
  <2>4. "SUCCESS" # None /\ callback # "idle"
    BY <1>6 DEF None
  <2>5. TransactionOf(c)'
    BY <1>1, <1>6, <2>1, <2>3, <2>4, HandledTransaction
  <2>6. LeftAlone(c)'
    <3>1. serving'[c].len = 1
      <4>1. serving'[c] = [callback |-> callback, len |-> 1]
        BY <1>6 DEF Respond, Stations
      <4>. QED
        BY <4>1
    <3>2. res_storage'[parent'[c]] = <<CellLeft(c)'>>
      BY <1>1, <1>6, <2>1, <2>2, Zenon
    <3>. QED
      BY <3>1, <3>2 DEF LeftAlone
  <2>. QED
    BY <2>1, <2>5, <2>6, ChangeTogether
<1>7. CASE add_req_input(c)
  <2>. PICK free : free = FirstFeasible(p, request[c].cells)
    OBVIOUS
  <2>1. /\ request[c].cmd = "ADD" /\ res_storage' = [res_storage EXCEPT ![p] = free]
        /\ IF free # <<>> THEN Respond(c, "SUCCESS", free, "add", Len(free)) ELSE NoResponse(c)
    BY <1>7, Zenon DEF add_req_input
  <2>2. IsList(request[c].cells) /\ \A s \in ToSet(request[c].cells) : s \in Timeslots /\ s \notin Used(c)
    BY <1>4, <2>1 DEF IsRequest
  <2>3. CASE free # <<>>
    <3>1. PICK s \in ToSet(request[c].cells) : s \notin Used(p) /\ free = <<s>>
      BY <1>2, <2>2, <2>3, FirstFeasibleIs
    <3>2. Len(free) = 1
      BY <3>1
    <3>3. Respond(c, "SUCCESS", free, "add", 1)
      BY <2>1, <2>3, <3>2, Zenon
    <3>. QED
      BY <1>4, <1>6, <2>1, <2>2, <3>1, <3>3, Zenon
  <2>4. CASE free = <<>>
    <3>. PICK sv1 : sv1 = [callback |-> None, len |-> 0]
      BY Zenon
    <3>1. /\ serving'[c] = sv1 /\ response' = response
          /\ \A d \in Children \ {c} : serving'[d] = serving[d] /\ response'[d] = response[d]
      BY <2>1, <2>4 DEF NoResponse, Stations
    <3>2. /\ Changes(c, p, c) /\ TwoEnds(c, p, c) /\ Enters(c) /\ request'[c] = NoRequest
          /\ Tx(c)' = Tx(c) /\ Rx(c)' = Rx(c) /\ Used(c)' = Used(c) /\ Used(p)' = Used(p)
      BY <1>5, <2>1, <3>1, Zenon
    <3>. PICK x1 : x1 = CellLeft(c)'
      OBVIOUS
    <3>3. Transaction(running, asking[c], NoRequest, response[c], sv1, Tx(c), Rx(c), Used(c), Used(p), x1)
      BY <1>1, <1>3, NoAnswerStep DEF TransactionOf
    <3>4. TransactionOf(c)'
      BY <1>1, <3>1, <3>2, <3>3, NextTransaction
    <3>5. LeftAlone(c)'
      BY <3>1, NotLeftAlone DEF None
    <3>. QED
      BY <3>2, <3>4, <3>5, ChangeTogether
  <2>. QED
    BY <2>3, <2>4
<1>8. CASE delete_req_input(c)
  <2>. PICK used : used = Only(request[c].cells, {s \in ToSet(request[c].cells) : InUse(p, s)})
    OBVIOUS
  <2>1. /\ request[c].cmd = "DELETE" /\ res_storage' = [res_storage EXCEPT ![p] = used]
        /\ Respond(c, "SUCCESS", used, "delete", Len(used))
    BY <1>8, Zenon DEF delete_req_input
  <2>2. PICK s \in Tx(c) : request[c].cells = <<s>>
    BY <1>4, <2>1 DEF IsRequest
  <2>3. s \in Rx(c)
    BY <1>4
  <2>4. InUse(p, s)
    BY <1>2, <2>3, MarksUsed, InUseIs DEF Rx
  <2>5. used = <<s>>
    <3>. PICK k : k = {t \in ToSet(request[c].cells) : InUse(p, t)}
      OBVIOUS
    <3>1. s \in ToSet(request[c].cells)
      BY <2>2 DEF ToSet
    <3>2. s \in k
      BY <2>4, <3>1
    <3>3. Only(<<s>>, k) = <<s>>
      BY <3>2, OnlyOfOne
    <3>. QED
      BY <2>2, <3>3, Zenon
  <2>6. Len(used) = 1
    BY <2>5
  <2>7. Respond(c, "SUCCESS", used, "delete", 1)
    BY <2>1, <2>6, Zenon
  <2>. QED
    BY <1>4, <1>6, <2>1, <2>3, <2>5, <2>7
<1>. QED
  BY <1>7, <1>8 DEF SimpleRequestInput

\* The response arrives, and c's schedule follows.
LEMMA TakenStep ==
  ASSUME Stations, Undisturbed, NEW c \in Children, running' = running, Takes(c),
         UNCHANGED <<res_storage, pending_add, pending_delete>>, schedule' = [schedule EXCEPT ![c] = schedule'[c]],
         NEW m, Alters(c, "TX", parent[c], m), IsDelivered(running, serving[c], m, Rx(c), Used(parent[c]), CellLeft(c))
  PROVE  Undisturbed'
<1>. PICK q : q = parent[c]
  OBVIOUS
<1>. PICK rs1 : rs1 = [response[c] EXCEPT !.delivered = TRUE]
  BY Zenon
<1>1. /\ parent' = parent /\ serving' = serving /\ request' = request /\ asking[c] # None /\ response[c] # NoFrame
      /\ asking'[c] = None /\ response'[c] = rs1
      /\ \A d \in Children \ {c} : asking'[d] = asking[d] /\ response'[d] = response[d]
  BY DEF Takes, Stations
<1>2. c \in Nodes /\ parent[c] # c /\ \A n \in Nodes \ {c} : schedule'[n] = schedule[n]
  BY Family DEF Stations
<1>3. ~ Overlaps(c, c)
  BY <1>1 DEF Overlaps, Undisturbed, Exclusive
<1>4. Changes(c, c, q)
  BY <1>1, <1>2, <1>3 DEF Changes, Alters, OthersStand, NodeStands
<1>5. TwoEnds(c, c, q) /\ Enters(c)
  BY <1>1 DEF TwoEnds, Enters
<1>6. Tx(c)' = m /\ Rx(c)' = Rx(c) /\ Used(parent[c])' = Used(parent[c]) /\ NodeStands(parent[c])
  BY <1>4, ChildSide DEF Alters
<1>7. CellLeft(c)' = CellLeft(c)
  BY <1>1, <1>6, CellStays
<1>8. TransactionOf(c)'
  <2>1. Transaction(running, asking[c], request[c], response[c], serving[c],
                    Tx(c), Rx(c), Used(c), Used(parent[c]), CellLeft(c))
    BY Zenon DEF Undisturbed, TransactionOf
  <2>. PICK ut1 : ut1 = Used(c)'
    OBVIOUS
  <2>2. Transaction(running, None, request[c], rs1, serving[c], m, Rx(c), ut1, Used(parent[c]), CellLeft(c))
    BY <1>1, <2>1, TakeStep
  <2>. QED
    BY <1>1, <1>6, <1>7, <2>2, NextTransaction
<1>9. LeftAlone(c)'
  BY <1>1, <1>6, LeftAloneStays DEF Undisturbed
<1>. QED
  BY <1>4, <1>5, <1>8, <1>9, ChangeTogether

\* What the response was, in its three cases.
LEMMA Taking ==
  ASSUME Undisturbed, NEW c \in Children, Takes(c)
  PROVE  IsResponse(running, asking[c], response[c], serving[c], Tx(c), Rx(c), Used(c), Used(parent[c]), CellLeft(c))
<1>1. response[c] # NoFrame /\ asking[c] # None
  BY DEF Takes
<1>. QED
  BY <1>1, Zenon DEF Undisturbed, TransactionOf, Transaction

LEMMA OneCell == ASSUME NEW x PROVE ToSet(<<x>>) = {x} /\ <<x>>[1] = x /\ <<x>> # <<>>
<1>1. DOMAIN <<x>> = 1 .. 1 /\ <<x>>[1] = x
  OBVIOUS
<1>. QED
  BY <1>1 DEF ToSet

LEMMA SimpleResponseLinks ==
  ASSUME Stations, Undisturbed, running = "sf_simple", running' = running, NEW c \in Children,
         SimpleResponseInput(c), UNCHANGED sfpVars
  PROVE  Undisturbed'
<1>. PICK x : x = CellLeft(c)
  OBVIOUS
<1>. PICK q : q = parent[c]
  OBVIOUS
<1>1. /\ Takes(c) /\ parent' = parent /\ UNCHANGED <<res_storage, pending_add, pending_delete>>
      /\ schedule' = [schedule EXCEPT ![c] =
           IF asking[c] = "ADD" THEN add_links_to_schedule(c, "TX", parent[c], response[c].cells)
           ELSE remove_links_to_schedule(c, response[c].cells)]
  BY DEF SimpleResponseInput, Takes, sfsVars, sfpVars
<1>2. c \in Nodes /\ IsList(schedule[c]) /\ Orderly(c) /\ DOMAIN schedule = Nodes
  BY Family DEF Stations, Undisturbed
<1>3. /\ schedule'[c] = IF asking[c] = "ADD" THEN add_links_to_schedule(c, "TX", q, response[c].cells)
                        ELSE remove_links_to_schedule(c, response[c].cells)
      /\ schedule' = [schedule EXCEPT ![c] = schedule'[c]]
  BY <1>1, <1>2
<1>4. CASE asking[c] = "ADD"
  <2>1. /\ Tx(c) = Rx(c) /\ response[c].cells = <<x>> /\ x \notin Used(c) /\ ToAdd(serving[c], x, Used(q))
    BY <1>1, <1>4, Taking DEF IsResponse, IsReport
  <2>2. x \in Timeslots
    BY <2>1 DEF ToAdd
  <2>3. schedule'[c] = With(schedule[c], "TX", q, x)
    <3>1. schedule'[c] = add_links_to_schedule(c, "TX", q, <<x>>)
      BY <1>3, <1>4, <2>1, Zenon
    <3>. QED
      BY <3>1, OneCell, Zenon DEF add_links_to_schedule
  <2>4. LinkOf(c, Link(x, "TX", q))
    BY <2>2, LinkIs DEF LinkOf
  <2>. PICK m : m = Rx(c) \cup {x}
    BY Zenon
  <2>5. Alters(c, "TX", parent[c], m)
    BY <1>1, <1>2, <2>1, <2>2, <2>3, <2>4, AddsLink DEF Tx
  <2>6. IsDelivered(running, serving[c], m, Rx(c), Used(parent[c]), CellLeft(c))
    BY <2>1, Zenon DEF IsDelivered
  <2>. QED
    BY <1>1, <1>3, <2>5, <2>6, TakenStep, Zenon
<1>5. CASE asking[c] # "ADD"
  <2>1. Tx(c) = Rx(c) /\ response[c].cells = <<x>> /\ ToDelete(serving[c], x, Rx(c))
    BY <1>1, <1>5, Taking DEF IsResponse, IsReport
  <2>2. x \in Marks(c, "TX", q)
    BY <2>1 DEF ToDelete, Tx
  <2>. PICK S : S = {x}
    BY Zenon
  <2>3. schedule'[c] = Without(schedule[c], S)
    <3>1. schedule'[c] = remove_links_to_schedule(c, <<x>>)
      BY <1>3, <1>5, <2>1, Zenon
    <3>. QED
      BY <3>1, OneCell, Zenon DEF remove_links_to_schedule
  <2>. PICK m : m = Rx(c) \ S
    BY Zenon
  <2>4. Alters(c, "TX", parent[c], m)
    BY <1>1, <1>2, <2>1, <2>2, <2>3, DropsLink, Zenon DEF Tx
  <2>5. IsDelivered(running, serving[c], m, Rx(c), Used(parent[c]), CellLeft(c))
    BY <2>1, Zenon DEF IsDelivered
  <2>. QED
    BY <1>1, <1>3, <2>4, <2>5, TakenStep, Zenon
<1>. QED
  BY <1>4, <1>5

\* The parent hears of the delivery, and its schedule follows.
LEMMA SentStep ==
  ASSUME Stations, Undisturbed, NEW c \in Children, running' = running, Sent(c),
         UNCHANGED <<res_storage, pending_add, pending_delete>>,
         \A n \in Nodes \ {parent[c]} : schedule'[n] = schedule[n],
         Alters(parent[c], "RX", c, Tx(c))
  PROVE  Undisturbed'
<1>. PICK p : p = parent[c]
  OBVIOUS
<1>1. /\ parent' = parent /\ asking' = asking /\ request' = request /\ response[c] # NoFrame /\ response[c].delivered
      /\ response'[c] = NoFrame /\ serving'[c] = Idle
      /\ \A d \in Children \ {c} : serving'[d] = serving[d] /\ response'[d] = response[d]
  BY DEF Sent, Stations
<1>2. p \in Nodes /\ p # c
  BY Family DEF Stations
<1>. PICK ut1 : ut1 = Used(c)'
  OBVIOUS
<1>. PICK up1 : up1 = Used(parent[c])'
  OBVIOUS
<1>. PICK x1 : x1 = CellLeft(c)'
  OBVIOUS
<1>3. serving[c] # Idle /\ Transaction(running, asking[c], request[c], NoFrame, Idle, Tx(c), Tx(c), ut1, up1, x1)
  <2>1. Transaction(running, asking[c], request[c], response[c], serving[c],
                    Tx(c), Rx(c), Used(c), Used(parent[c]), CellLeft(c))
    BY Zenon DEF Undisturbed, TransactionOf
  <2>. QED
    BY <1>1, <2>1, OverStep
<1>4. ~ Overlaps(p, c)
  BY <1>2, <1>3 DEF Overlaps, Undisturbed, Exclusive
<1>5. Changes(c, p, c)
  BY <1>1, <1>2, <1>4 DEF Changes, Alters, OthersStand, NodeStands
<1>6. TwoEnds(c, p, c) /\ Enters(c)
  BY <1>1 DEF TwoEnds, Enters
<1>7. Rx(c)' = Tx(c) /\ Tx(c)' = Tx(c)
  BY <1>5, ParentSide DEF Alters
<1>8. TransactionOf(c)'
  BY <1>1, <1>3, <1>7, NextTransaction
<1>9. LeftAlone(c)'
  BY <1>1, NotLeftAlone DEF Idle
<1>. QED
  BY <1>5, <1>6, <1>8, <1>9, ChangeTogether

LEMMA Sending ==
  ASSUME Undisturbed, NEW c \in Children, Sent(c)
  PROVE  /\ serving[c] # Idle
         /\ IsDelivered(running, serving[c], Tx(c), Rx(c), Used(parent[c]), CellLeft(c))
<1>1. response[c] # NoFrame /\ response[c].delivered
  BY DEF Sent
<1>. QED
  BY <1>1, Zenon DEF Undisturbed, TransactionOf, Transaction

\* The parent adds the cell it had left, or deletes it.
LEMMA ParentAdds ==
  ASSUME Stations, Undisturbed, NEW c \in Children, parent' = parent, NEW x, ToAdd(serving[c], x, Used(parent[c])),
         Tx(c) = Rx(c) \cup {x}, schedule'[parent[c]] = With(schedule[parent[c]], "RX", c, x)
  PROVE  Alters(parent[c], "RX", c, Tx(c))
<1>. PICK p : p = parent[c]
  OBVIOUS
<1>1. p \in Nodes /\ IsList(schedule[p]) /\ Orderly(p)
  BY Family DEF Stations, Undisturbed
<1>2. x \in Timeslots /\ x \notin Used(p)
  BY DEF ToAdd
<1>3. LinkOf(p, Link(x, "RX", c))
  BY <1>2, LinkIs DEF LinkOf
<1>. QED
  BY <1>1, <1>2, <1>3, AddsLink DEF Rx

LEMMA ParentDeletes ==
  ASSUME Stations, Undisturbed, NEW c \in Children, parent' = parent, NEW x, ToDelete(serving[c], x, Rx(c)),
         NEW S, S = {x}, Tx(c) = Rx(c) \ S, schedule'[parent[c]] = Without(schedule[parent[c]], S)
  PROVE  Alters(parent[c], "RX", c, Tx(c))
<1>. PICK p : p = parent[c]
  OBVIOUS
<1>1. p \in Nodes /\ IsList(schedule[p]) /\ Orderly(p)
  BY Family DEF Stations, Undisturbed
<1>2. x \in Marks(p, "RX", c) /\ "RX" # "SHARED"
  BY DEF ToDelete, Rx
<1>3. schedule'[p] = Without(schedule[p], S)
  OBVIOUS
<1>4. Alters(p, "RX", c, Marks(p, "RX", c) \ S)
  BY <1>1, <1>2, <1>3, DropsLink, Zenon
<1>5. Tx(c) = Marks(p, "RX", c) \ S
  BY DEF Rx
<1>. QED
  BY <1>4, <1>5

LEMMA SimpleSentLinks ==
  ASSUME Stations, Undisturbed, running = "sf_simple", running' = running, NEW c \in Children,
         SimpleResponseSent(c), UNCHANGED sfpVars
  PROVE  Undisturbed'
<1>. PICK x : x = CellLeft(c)
  OBVIOUS
<1>. PICK p : p = parent[c]
  OBVIOUS
<1>. PICK S : S = {x}
  BY Zenon
<1>1. /\ Sent(c) /\ parent' = parent /\ UNCHANGED <<res_storage, pending_add, pending_delete>>
      /\ schedule' = IF serving[c] = Idle THEN schedule ELSE
           [schedule EXCEPT ![p] =
              IF serving[c].callback = "add" THEN add_response_sent_callback(c) ELSE delete_response_sent_callback(c)]
  BY DEF SimpleResponseSent, Sent, sfsVars, sfpVars
<1>2. /\ serving[c] # Idle
      /\ \/ ToAdd(serving[c], x, Used(p)) /\ Tx(c) = Rx(c) \cup S
         \/ ToDelete(serving[c], x, Rx(c)) /\ Tx(c) = Rx(c) \ S
  BY <1>1, Sending DEF IsDelivered
<1>3. c \in Nodes /\ p \in Nodes /\ DOMAIN schedule = Nodes
  BY Family DEF Stations
<1>4. /\ schedule'[p] = IF serving[c].callback = "add" THEN add_response_sent_callback(c)
                        ELSE delete_response_sent_callback(c)
      /\ \A n \in Nodes \ {p} : schedule'[n] = schedule[n]
  BY <1>1, <1>2, <1>3
<1>5. Stored(p, serving[c].len) = <<x>>
  <2>1. LeftAlone(c) /\ serving[c].callback \in {"add", "delete"}
    BY <1>2 DEF Undisturbed, ToAdd, ToDelete
  <2>2. serving[c].len = 1 /\ res_storage[p] = <<x>>
    BY <2>1 DEF LeftAlone
  <2>. PICK w : w = <<x>>
    BY Zenon
  <2>3. Stored(p, 1) = [i \in 1 .. 1 |-> w[i]]
    <3>1. \A i \in 1 .. 1 : i <= Len(w)
      OBVIOUS
    <3>2. res_storage[p] = w
      BY <2>2, Zenon
    <3>. QED
      BY <3>1, <3>2 DEF Stored
  <2>4. w = [i \in 1 .. 1 |-> w[i]]
    OBVIOUS
  <2>. QED
    BY <2>2, <2>3, <2>4, Zenon
<1>6. CASE ToAdd(serving[c], x, Used(p)) /\ Tx(c) = Rx(c) \cup S
  <2>1. schedule'[p] = With(schedule[p], "RX", c, x)
    <3>1. schedule'[p] = add_links_to_schedule(p, "RX", c, <<x>>)
      BY <1>4, <1>5, <1>6, Zenon DEF add_response_sent_callback, ToAdd
    <3>. QED
      BY <3>1, OneCell, Zenon DEF add_links_to_schedule
  <2>2. Alters(p, "RX", c, Tx(c))
    BY <1>1, <1>6, <2>1, ParentAdds
  <2>. QED
    BY <1>1, <1>4, <2>2, SentStep
<1>7. CASE ToDelete(serving[c], x, Rx(c)) /\ Tx(c) = Rx(c) \ S
  <2>1. schedule'[p] = Without(schedule[p], S)
    <3>1. serving[c].callback # "add"
      BY <1>7 DEF ToDelete
    <3>2. schedule'[p] = remove_links_to_schedule(p, <<x>>)
      BY <1>4, <1>5, <3>1, Zenon DEF delete_response_sent_callback
    <3>. QED
      BY <3>2, OneCell, Zenon DEF remove_links_to_schedule
  <2>2. Alters(p, "RX", c, Tx(c))
    BY <1>1, <1>7, <2>1, ParentDeletes
  <2>. QED
    BY <1>1, <1>4, <2>2, SentStep
<1>. QED
  BY <1>2, <1>6, <1>7

LEMMA ShellLinks ==
  ASSUME Stations, Undisturbed, running # "sf_simple", running' = running, NEW c \in Children,
         shell_subcmd(c), UNCHANGED sfsVars, ~ disturbed'
  PROVE  Undisturbed'
<1>1. CanAsk(c) /\ UNCHANGED <<parent, serving, response, res_storage, pending_add, pending_delete>>
  BY DEF shell_subcmd, sfsVars
<1>2. PICK args \in parse_args :
        \/ args.cmd \in {"ADD", "DELETE"} /\ add_delete(c, args.cmd, args.slot)
        \/ count(c) \/ list(c) \/ clear(c)
  BY DEF shell_subcmd
<1>3. c \in Nodes /\ IsList(schedule[c]) /\ Orderly(c) /\ DOMAIN schedule = Nodes
  BY Family DEF Stations, Undisturbed
<1>4. schedule' = schedule => Orderly(c)' /\ Links(c)' = Links(c)
  BY <1>1, <1>3, NodeSame
<1>5. ASSUME NEW cmd, cmd # None, NEW cells, Request(c, cmd, cells), NEW rq, rq = [cmd |-> cmd, cells |-> cells],
             ~ Overlaps(c, c), \A m \in Nodes \ {c} : schedule'[m] = schedule[m], Orderly(c)', Links(c)' = Links(c),
             IsRequest(running, rq, Tx(c), Used(c))
      PROVE  Undisturbed'
  BY <1>1, <1>5, Asks
<1>6. ASSUME NEW cmd \in {"COUNT", "LIST", "CLEAR"}, NEW cells, Request(c, cmd, cells), ~ Overlaps(c, c),
             schedule' = schedule
      PROVE  Undisturbed'
  <2>. PICK rq : rq = [cmd |-> cmd, cells |-> cells]
    BY Zenon
  <2>1. rq.cmd = cmd /\ cmd # None
    BY DEF None
  <2>2. IsRequest(running, rq, Tx(c), Used(c))
    BY <2>1, Zenon DEF IsRequest
  <2>. QED
    BY <1>4, <1>5, <1>6, <2>1, <2>2
<1>7. CASE args.cmd \in {"ADD", "DELETE"} /\ add_delete(c, args.cmd, args.slot)
  <2>. PICK s : s = args.slot
    OBVIOUS
  <2>. PICK cmd : cmd = args.cmd
    OBVIOUS
  <2>. PICK cells : cells = <<s>>
    BY Zenon
  <2>. PICK rq : rq = [cmd |-> cmd, cells |-> cells]
    BY Zenon
  <2>1. /\ Request(c, cmd, cells) /\ cmd \in {"ADD", "DELETE"} /\ rq.cmd = cmd /\ rq.cells = <<s>> /\ cmd # None
        /\ schedule' = IF cmd = "ADD" THEN [schedule EXCEPT ![c] = reserve_cell(c, s)] ELSE schedule
        /\ ~ Overlaps(c, c) /\ ~ (cmd = "ADD" /\ InUse(c, s))
    BY <1>7, Zenon DEF add_delete, None
  <2>2. s \in Nat
    <3>1. args \in [cmd : {"ADD", "DELETE"}, slot : ShellSlots]
      BY <1>2, <1>7 DEF parse_args
    <3>. QED
      BY <3>1, SchedulingAssumption DEF SchedulingAssumption
  <2>3. CASE cmd = "ADD"
    <3>1. s \notin Used(c)
      BY <1>3, <2>1, <2>3, InUseIs
    <3>2. s # 0
      <4>1. SharedLink \in Links(c)
        BY <1>3 DEF Orderly, Links, ToSet, IsList
      <4>. QED
        BY <3>1, <4>1, SharedIs DEF Used
    <3>3. IsRequest(running, rq, Tx(c), Used(c))
      <4>1. s \in Timeslots
        BY <2>2, <3>2 DEF Timeslots
      <4>. QED
        BY <2>1, <2>3, <3>1, <4>1, Zenon DEF IsRequest
    <3>4. schedule'[c] = reserve_cell(c, s) /\ \A m \in Nodes \ {c} : schedule'[m] = schedule[m]
      BY <1>3, <2>1, <2>3
    <3>5. Orderly(c)' /\ Links(c)' = Links(c)
      <4>. PICK q : q = parent[c]
        OBVIOUS
      <4>. PICK S : S = {s}
        BY Zenon
      <4>. PICK w : w = With(schedule[c], "none", q, s)
        OBVIOUS
      <4>1. schedule'[c] = Without(w, S)
        BY <3>4, Zenon DEF reserve_cell, delete_cell, add_cell
      <4>. QED
        BY <1>1, <1>3, <3>1, <3>2, <4>1, Reserved, Zenon
    <3>. QED
      BY <1>5, <2>1, <3>3, <3>4, <3>5
  <2>4. CASE cmd = "DELETE"
    <3>1. schedule' = schedule
      BY <2>1, <2>4
    <3>2. IsRequest(running, rq, Tx(c), Used(c))
      BY <2>1, <2>2, <2>4, Zenon DEF IsRequest
    <3>. QED
      BY <1>4, <1>5, <2>1, <3>1, <3>2
  <2>. QED
    BY <2>1, <2>3, <2>4
<1>8. CASE count(c) \/ list(c) \/ clear(c)
  <2>1. ~ Overlaps(c, c) /\ schedule' = schedule
    BY <1>8, Zenon DEF count, list, clear
  <2>2. \E cmd \in {"COUNT", "LIST", "CLEAR"} : \E cells : Request(c, cmd, cells)
    BY <1>8, Zenon DEF count, list, clear
  <2>. QED
    BY <1>6, <2>1, <2>2
<1>. QED
  BY <1>2, <1>7, <1>8

\* A link of the parent with its child, as a handler finds it.
LEMMA LinkWithChild ==
  ASSUME Stations, NEW c \in Children, Orderly(parent[c]), IsList(schedule[parent[c]]), NEW s, IsLinkOf(parent[c], c, s)
  PROVE  s \in Rx(c)
<1>. PICK p : p = parent[c]
  OBVIOUS
<1>1. c # 0 /\ (p \in Children => parent[p] # c)
  BY Family, SixTopAssumption DEF Stations, SixTopAssumption
<1>2. PICK l \in Links(p) : l.slot = s /\ l.peer = c
  BY DEF IsLinkOf, Links, ToSet
<1>3. LinkOf(p, l)
  BY DEF Orderly
<1>4. l.opt = "RX"
  BY <1>1, <1>2, <1>3, SharedIs DEF LinkOf
<1>. QED
  BY <1>2, <1>4 DEF Rx, Marks

LEMMA HandlerLinks ==
  ASSUME Stations, Stores, Undisturbed, running # "sf_simple", running' = running, NEW c \in Children,
         PlugtestRequestInput(c), UNCHANGED sfsVars, ~ disturbed'
  PROVE  Undisturbed'
<1>. PICK p : p = parent[c]
  OBVIOUS
<1>1. /\ UNCHANGED <<parent, asking, res_storage>>
      /\ request[c] # NoRequest /\ request' = [request EXCEPT ![c] = NoRequest] /\ ~ Overlaps(p, c)
  BY Zenon DEF PlugtestRequestInput, sfsVars
<1>2. /\ c \in Nodes /\ p \in Nodes /\ p # c /\ IsList(schedule[p]) /\ Orderly(p) /\ c # 0
      /\ DOMAIN schedule = Nodes /\ DOMAIN request = Children
  BY Family, SixTopAssumption DEF Stations, Undisturbed, SixTopAssumption
<1>3. TransactionOf(c)
  BY Zenon DEF Undisturbed
<1>4. Tx(c) = Rx(c) /\ asking[c] = request[c].cmd /\ IsRequest(running, request[c], Tx(c), Used(c))
  BY <1>1, <1>3, Zenon DEF TransactionOf, Transaction
<1>5. LeftAlone(c)'
  BY DEF LeftAlone
<1>6. ASSUME schedule' = schedule, NEW rc, rc # None, NEW cells, NEW callback, callback # "idle", NEW len,
             Respond(c, rc, cells, callback, len),
             \A m \in Nodes \ {p} : pending_add'[m] = pending_add[m] /\ pending_delete'[m] = pending_delete[m],
             \A rs1, sv1 : rs1.rc = rc /\ rs1.cells = cells /\ sv1.callback = callback =>
               IsResponse(running, asking[c], rs1, sv1, Tx(c), Rx(c), Used(c), Used(p), CellLeft(c)')
      PROVE  Undisturbed'
  <2>1. /\ Changes(c, p, c) /\ TwoEnds(c, p, c) /\ Enters(c) /\ request'[c] = NoRequest
        /\ Tx(c)' = Tx(c) /\ Rx(c)' = Rx(c) /\ Used(c)' = Used(c) /\ Used(p)' = Used(p)
    BY <1>1, <1>6, Responded, HandledStill, Zenon
  <2>2. TransactionOf(c)'
    BY <1>1, <1>6, <2>1, HandledTransaction
  <2>. QED
    BY <1>5, <2>1, <2>2, ChangeTogether
<1>7. ASSUME schedule' = schedule, NEW rc, rc # None, NEW cells, Respond(c, rc, cells, None, 0),
             \A m \in Nodes \ {p} : pending_add'[m] = pending_add[m] /\ pending_delete'[m] = pending_delete[m],
             \/ request[c].cmd \in {"ADD", "DELETE"} /\ rc # "SUCCESS"
             \/ request[c].cmd \in {"COUNT", "LIST"}
      PROVE  Undisturbed'
  <2>1. ASSUME NEW rs1, NEW sv1, rs1.rc = rc, rs1.cells = cells, sv1.callback = None
        PROVE  IsResponse(running, asking[c], rs1, sv1, Tx(c), Rx(c), Used(c), Used(p), CellLeft(c)')
    BY <1>4, <1>7, <2>1, Zenon DEF IsResponse, IsReport
  <2>2. None # "idle"
    BY DEF None
  <2>. QED
    BY <1>6, <1>7, <2>1, <2>2
<1>8. "SUCCESS" # None /\ "EOL" # None /\ "ERR_BUSY" # None /\ "ERR_BUSY" # "SUCCESS" /\ "add" # "idle" /\ "delete" # "idle"
  BY DEF None
<1>9. CASE add_req_handler(c)
  <2>. PICK s : s = request[c].cells[1]
    OBVIOUS
  <2>1. /\ request[c].cmd = "ADD" /\ schedule' = schedule
        /\ pending_add' = [pending_add EXCEPT ![p] = s] /\ pending_delete' = pending_delete
        /\ IF InUse(p, s) THEN Respond(c, "ERR_BUSY", <<>>, None, 0) ELSE Respond(c, "SUCCESS", <<s>>, "add", 1)
    BY <1>9 DEF add_req_handler
  <2>2. pending_add'[p] = s /\ \A m \in Nodes \ {p} : pending_add'[m] = pending_add[m] /\ pending_delete'[m] = pending_delete[m]
    BY <1>2, <2>1 DEF Stores
  <2>3. CASE InUse(p, s)
    BY <1>7, <1>8, <2>1, <2>2, <2>3
  <2>4. CASE ~ InUse(p, s)
    <3>1. s \in Timeslots /\ s \notin Used(c)
      <4>1. PICK t \in Timeslots : t \notin Used(c) /\ request[c].cells = <<t>>
        BY <1>4, <2>1 DEF IsRequest
      <4>. QED
        BY <4>1
    <3>2. s \notin Used(p)
      BY <1>2, <2>4, InUseIs
    <3>. PICK cells : cells = <<s>>
      BY Zenon
    <3>3. Respond(c, "SUCCESS", cells, "add", 1)
      BY <2>1, <2>4, Zenon
    <3>4. CellLeft(c)' = s
      <4>1. serving'[c] = [callback |-> "add", len |-> 1]
        BY <3>3 DEF Respond, Stations
      <4>2. serving'[c].callback = "add"
        BY <4>1
      <4>. QED
        BY <1>1, <2>2, <4>2 DEF CellLeft
    <3>5. ASSUME NEW rs1, NEW sv1, rs1.rc = "SUCCESS", rs1.cells = cells, sv1.callback = "add"
          PROVE  IsResponse(running, asking[c], rs1, sv1, Tx(c), Rx(c), Used(c), Used(p), CellLeft(c)')
      BY <1>4, <2>1, <3>1, <3>2, <3>4, <3>5, Zenon DEF IsResponse, ToAdd
    <3>. QED
      BY <1>6, <1>8, <2>1, <2>2, <3>3, <3>5
  <2>. QED
    BY <2>3, <2>4
<1>10. CASE delete_req_handler(c)
  <2>. PICK s : s = request[c].cells[1]
    OBVIOUS
  <2>1. /\ request[c].cmd = "DELETE" /\ schedule' = schedule
        /\ pending_delete' = [pending_delete EXCEPT ![p] = s] /\ pending_add' = pending_add
        /\ IF IsLinkOf(p, c, s) THEN Respond(c, "SUCCESS", <<s>>, "delete", 1) ELSE Respond(c, "ERR_BUSY", <<>>, None, 0)
    BY <1>10 DEF delete_req_handler
  <2>2. pending_delete'[p] = s /\ \A m \in Nodes \ {p} : pending_add'[m] = pending_add[m] /\ pending_delete'[m] = pending_delete[m]
    BY <1>2, <2>1 DEF Stores
  <2>3. CASE ~ IsLinkOf(p, c, s)
    BY <1>7, <1>8, <2>1, <2>2, <2>3
  <2>4. CASE IsLinkOf(p, c, s)
    <3>1. s \in Rx(c)
      BY <1>2, <2>4, LinkWithChild
    <3>. PICK cells : cells = <<s>>
      BY Zenon
    <3>2. Respond(c, "SUCCESS", cells, "delete", 1)
      BY <2>1, <2>4, Zenon
    <3>3. CellLeft(c)' = s
      <4>1. serving'[c] = [callback |-> "delete", len |-> 1]
        BY <3>2 DEF Respond, Stations
      <4>2. serving'[c].callback = "delete"
        BY <4>1
      <4>. QED
        BY <1>1, <2>2, <4>2 DEF CellLeft
    <3>4. ASSUME NEW rs1, NEW sv1, rs1.rc = "SUCCESS", rs1.cells = cells, sv1.callback = "delete"
          PROVE  IsResponse(running, asking[c], rs1, sv1, Tx(c), Rx(c), Used(c), Used(p), CellLeft(c)')
      BY <1>4, <2>1, <3>1, <3>3, <3>4, ZenonT(100) DEF IsResponse, ToDelete
    <3>. QED
      BY <1>6, <1>8, <2>1, <2>2, <3>2, <3>4
  <2>. QED
    BY <2>3, <2>4
<1>11. CASE count_req_handler(c)
  <2>1. /\ request[c].cmd = "COUNT" /\ UNCHANGED <<schedule, pending_add, pending_delete>>
        /\ Respond(c, "SUCCESS", <<Len(Cells(c))>>, None, 0)
    BY <1>11 DEF count_req_handler
  <2>. QED
    BY <1>7, <1>8, <2>1
<1>12. CASE list_req_handler(c)
  <2>1. /\ request[c].cmd = "LIST" /\ UNCHANGED <<schedule, pending_add, pending_delete>>
        /\ \E rc \in {"SUCCESS", "EOL"} : \E cells : Respond(c, rc, cells, None, 0)
    BY <1>12, Zenon DEF list_req_handler
  <2>. QED
    BY <1>7, <1>8, <2>1
<1>13. CASE clear_req_handler(c)
  <2>1. /\ request[c].cmd = "CLEAR" /\ schedule' = [schedule EXCEPT ![p] = clear_cells(p, c)]
        /\ Respond(c, "SUCCESS", <<>>, None, 0) /\ UNCHANGED <<pending_add, pending_delete>>
    BY <1>13 DEF clear_req_handler
  <2>2. schedule'[p] = clear_cells(p, c) /\ \A m \in Nodes \ {p} : schedule'[m] = schedule[m]
    BY <1>2, <2>1
  <2>3. Alters(p, "RX", c, {})
    BY <1>1, <1>2, <2>2, ClearsLinks
  <2>4. request'[c] = NoRequest /\ \A d \in Children \ {c} : request'[d] = request[d]
    BY <1>1, <1>2
  <2>. PICK none : none = <<>>
    BY Zenon
  <2>5. Respond(c, "SUCCESS", none, None, 0)
    BY <2>1, Zenon
  <2>6. OthersStand(c)
    BY <1>1, <2>4, <2>5, Responded, Zenon DEF OthersStand
  <2>7. Changes(c, p, c)
    BY <1>1, <2>1, <2>2, <2>3, <2>6 DEF Changes, Alters, NodeStands
  <2>8. TwoEnds(c, p, c) /\ Enters(c)
    BY <1>1 DEF TwoEnds, Enters
  <2>9. Rx(c)' = {} /\ Tx(c)' = Tx(c) /\ Used(c)' = Used(c)
    BY <2>3, <2>7, ParentSide DEF Alters
  <2>10. ASSUME NEW rs1, NEW sv1, rs1.rc = "SUCCESS", rs1.cells = none, sv1.callback = None
         PROVE  IsResponse(running, asking[c], rs1, sv1, Tx(c), Rx(c)', Used(c), Used(p), CellLeft(c)')
    BY <1>4, <2>1, <2>9, <2>10, Zenon DEF IsResponse, IsReport
  <2>11. None # "idle" /\ None # "add"
    BY DEF None
  <2>12. TransactionOf(c)'
    BY <1>1, <1>8, <2>4, <2>5, <2>9, <2>10, <2>11, HandledTransaction, Zenon
  <2>. QED
    BY <1>5, <2>7, <2>8, <2>12, ChangeTogether
<1>. QED
  BY <1>9, <1>10, <1>11, <1>12, <1>13 DEF PlugtestRequestInput

LEMMA PlugtestResponseLinks ==
  ASSUME Stations, Undisturbed, running # "sf_simple", running' = running, NEW c \in Children,
         PlugtestResponseInput(c), UNCHANGED sfsVars
  PROVE  Undisturbed'
<1>. PICK x : x = CellLeft(c)
  OBVIOUS
<1>. PICK q : q = parent[c]
  OBVIOUS
<1>. PICK S : S = {x}
  BY Zenon
<1>. PICK a : a = asking[c]
  OBVIOUS
<1>. PICK rs : rs = response[c]
  OBVIOUS
<1>1. /\ Takes(c) /\ parent' = parent /\ UNCHANGED <<res_storage, pending_add, pending_delete>>
      /\ schedule' = [schedule EXCEPT ![c] =
           CASE a = "ADD"    /\ rs.rc = "SUCCESS" -> add_res_handler(c, rs.cells[1])
             [] a = "DELETE" /\ rs.rc = "SUCCESS" -> delete_res_handler(c, rs.cells[1])
             [] a = "CLEAR"                       -> clear_res_handler(c)
             [] OTHER                             -> schedule[c]]
  BY DEF PlugtestResponseInput, Takes, sfsVars
<1>2. c \in Nodes /\ q \in Nodes /\ q # 0 /\ IsList(schedule[c]) /\ Orderly(c) /\ DOMAIN schedule = Nodes
  BY Family, SixTopAssumption DEF Stations, Undisturbed, SixTopAssumption
<1>3. /\ schedule'[c] = CASE a = "ADD"    /\ rs.rc = "SUCCESS" -> add_res_handler(c, rs.cells[1])
                          [] a = "DELETE" /\ rs.rc = "SUCCESS" -> delete_res_handler(c, rs.cells[1])
                          [] a = "CLEAR"                       -> clear_res_handler(c)
                          [] OTHER                             -> schedule[c]
      /\ schedule' = [schedule EXCEPT ![c] = schedule'[c]]
  BY <1>1, <1>2, Zenon
<1>4. IsResponse(running, a, rs, serving[c], Tx(c), Rx(c), Used(c), Used(q), x)
  BY <1>1, Taking
<1>5. CASE a = "ADD" /\ Tx(c) = Rx(c) /\ rs.rc = "SUCCESS" /\ rs.cells = <<x>> /\ x \notin Used(c) /\ ToAdd(serving[c], x, Used(q))
  <2>1. x \in Timeslots /\ ~ InUse(c, x)
    BY <1>2, <1>5, InUseIs DEF ToAdd
  <2>2. schedule'[c] = With(schedule[c], "TX", q, x)
    <3>1. schedule'[c] = add_res_handler(c, <<x>>[1])
      BY <1>3, <1>5, Zenon
    <3>. QED
      BY <2>1, <3>1, OneCell, Zenon DEF add_res_handler, add_cell
  <2>3. LinkOf(c, Link(x, "TX", q))
    BY <2>1, LinkIs DEF LinkOf
  <2>. PICK m : m = Rx(c) \cup {x}
    BY Zenon
  <2>4. Alters(c, "TX", parent[c], m)
    BY <1>1, <1>2, <1>5, <2>1, <2>2, <2>3, AddsLink DEF Tx
  <2>5. IsDelivered(running, serving[c], m, Rx(c), Used(parent[c]), CellLeft(c))
    BY <1>5, Zenon DEF IsDelivered
  <2>. QED
    BY <1>1, <1>3, <2>4, <2>5, TakenStep, Zenon
<1>6. CASE a = "DELETE" /\ Tx(c) = Rx(c) /\ rs.rc = "SUCCESS" /\ rs.cells = <<x>> /\ ToDelete(serving[c], x, Rx(c))
  <2>1. x \in Marks(c, "TX", q)
    BY <1>6 DEF ToDelete, Tx
  <2>2. IsLinkOf(c, q, x)
    <3>1. PICK l \in Links(c) : l.slot = x /\ l.peer = q
      BY <2>1 DEF Marks
    <3>. QED
      BY <3>1 DEF IsLinkOf, Links, ToSet
  <2>3. schedule'[c] = Without(schedule[c], S)
    <3>1. a # "ADD"
      BY <1>6
    <3>2. schedule'[c] = delete_res_handler(c, <<x>>[1])
      BY <1>3, <1>6, <3>1, Zenon
    <3>. QED
      BY <2>2, <3>2, OneCell, Zenon DEF delete_res_handler, delete_cell
  <2>. PICK m : m = Rx(c) \ S
    BY Zenon
  <2>4. Alters(c, "TX", parent[c], m)
    <3>1. "TX" # "SHARED"
      OBVIOUS
    <3>2. Alters(c, "TX", q, Marks(c, "TX", q) \ S)
      BY <1>1, <1>2, <2>1, <2>3, <3>1, DropsLink, Zenon
    <3>. QED
      BY <1>6, <3>2 DEF Tx
  <2>5. IsDelivered(running, serving[c], m, Rx(c), Used(parent[c]), CellLeft(c))
    BY <1>6 DEF IsDelivered
  <2>. QED
    BY <1>1, <1>3, <2>4, <2>5, TakenStep, Zenon
<1>7. ASSUME serving[c].callback = None, schedule'[c] = schedule[c], Tx(c) = Rx(c) PROVE Undisturbed'
  <2>1. Alters(c, "TX", parent[c], Rx(c))
    BY <1>1, <1>2, <1>7, NodeSame DEF Alters, Tx
  <2>2. IsDelivered(running, serving[c], Rx(c), Rx(c), Used(parent[c]), CellLeft(c))
    BY <1>7, Zenon DEF IsDelivered
  <2>. QED
    BY <1>1, <1>3, <2>1, <2>2, TakenStep, Zenon
<1>8. CASE serving[c].callback = None /\ a \in {"ADD", "DELETE"} /\ rs.rc # "SUCCESS" /\ Tx(c) = Rx(c)
  <2>1. a # "CLEAR"
    BY <1>8
  <2>2. schedule'[c] = schedule[c]
    BY <1>3, <1>8, <2>1, Zenon
  <2>. QED
    BY <1>7, <1>8, <2>2
<1>9. CASE serving[c].callback = None /\ a \in {"COUNT", "LIST"} /\ Tx(c) = Rx(c)
  <2>1. a # "CLEAR" /\ a # "ADD" /\ a # "DELETE"
    BY <1>9
  <2>2. schedule'[c] = schedule[c]
    BY <1>3, <2>1, Zenon
  <2>. QED
    BY <1>7, <1>9, <2>2
<1>10. CASE serving[c].callback = None /\ a = "CLEAR" /\ Rx(c) = {}
  <2>1. a # "ADD" /\ a # "DELETE"
    BY <1>10
  <2>2. schedule'[c] = clear_cells(c, q)
    BY <1>3, <1>10, <2>1, Zenon DEF clear_res_handler
  <2>3. Alters(c, "TX", parent[c], {})
    BY <1>1, <1>2, <2>2, ClearsLinks
  <2>4. Alters(c, "TX", parent[c], Rx(c))
    BY <1>10, <2>3
  <2>5. IsDelivered(running, serving[c], Rx(c), Rx(c), Used(parent[c]), CellLeft(c))
    BY <1>10, Zenon DEF IsDelivered
  <2>. QED
    BY <1>1, <1>3, <2>4, <2>5, TakenStep, Zenon
<1>. QED
  BY <1>4, <1>5, <1>6, <1>8, <1>9, <1>10, Zenon DEF IsResponse, IsReport

LEMMA PlugtestSentLinks ==
  ASSUME Stations, Undisturbed, running # "sf_simple", running' = running, NEW c \in Children,
         PlugtestResponseSent(c), UNCHANGED sfsVars
  PROVE  Undisturbed'
<1>. PICK x : x = CellLeft(c)
  OBVIOUS
<1>. PICK p : p = parent[c]
  OBVIOUS
<1>. PICK S : S = {x}
  BY Zenon
<1>1. /\ Sent(c) /\ parent' = parent /\ UNCHANGED <<res_storage, pending_add, pending_delete>>
      /\ schedule' = IF serving[c].callback \in {"idle", None} THEN schedule ELSE
           [schedule EXCEPT ![p] =
              IF serving[c].callback = "add" THEN add_res_sent_callback(c) ELSE delete_res_sent_callback(c)]
  BY DEF PlugtestResponseSent, Sent, sfsVars
<1>2. \/ ToAdd(serving[c], x, Used(p)) /\ Tx(c) = Rx(c) \cup S
      \/ ToDelete(serving[c], x, Rx(c)) /\ Tx(c) = Rx(c) \ S
      \/ serving[c].callback = None /\ Tx(c) = Rx(c)
  BY <1>1, Sending DEF IsDelivered
<1>3. c \in Nodes /\ p \in Nodes /\ DOMAIN schedule = Nodes /\ Orderly(p)
  BY Family DEF Stations, Undisturbed
<1>4. x = IF serving[c].callback = "add" THEN pending_add[p] ELSE pending_delete[p]
  BY DEF CellLeft
<1>5. CASE ToAdd(serving[c], x, Used(p)) /\ Tx(c) = Rx(c) \cup S
  <2>1. serving[c].callback = "add" /\ serving[c].callback \notin {"idle", None} /\ x = pending_add[p]
    BY <1>4, <1>5 DEF ToAdd, None
  <2>2. schedule' = [schedule EXCEPT ![p] = add_res_sent_callback(c)]
    BY <1>1, <2>1, Zenon
  <2>3. schedule'[p] = With(schedule[p], "RX", c, x) /\ \A n \in Nodes \ {p} : schedule'[n] = schedule[n]
    BY <1>3, <2>1, <2>2 DEF add_res_sent_callback, add_cell
  <2>4. Alters(p, "RX", c, Tx(c))
    BY <1>1, <1>5, <2>3, ParentAdds
  <2>. QED
    BY <1>1, <2>3, <2>4, SentStep
<1>6. CASE ToDelete(serving[c], x, Rx(c)) /\ Tx(c) = Rx(c) \ S
  <2>1. serving[c].callback # "add" /\ serving[c].callback \notin {"idle", None} /\ x = pending_delete[p]
    BY <1>4, <1>6 DEF ToDelete, None
  <2>2. schedule' = [schedule EXCEPT ![p] = delete_res_sent_callback(c)]
    BY <1>1, <2>1, Zenon
  <2>3. delete_res_sent_callback(c) = Without(schedule[p], S)
    BY <2>1, Zenon DEF delete_res_sent_callback, delete_cell
  <2>4. schedule'[p] = Without(schedule[p], S) /\ \A n \in Nodes \ {p} : schedule'[n] = schedule[n]
    BY <1>3, <2>2, <2>3
  <2>5. Alters(p, "RX", c, Tx(c))
    BY <1>1, <1>6, <2>4, ParentDeletes
  <2>. QED
    BY <1>1, <2>4, <2>5, SentStep
<1>7. CASE serving[c].callback = None /\ Tx(c) = Rx(c)
  <2>1. schedule' = schedule
    BY <1>1, <1>7
  <2>2. Alters(p, "RX", c, Tx(c))
    BY <1>1, <1>3, <1>7, <2>1, NodeSame DEF Alters, Rx
  <2>3. \A n \in Nodes \ {p} : schedule'[n] = schedule[n]
    BY <1>3, <2>1
  <2>. QED
    BY <1>1, <2>2, <2>3, SentStep
<1>. QED
  BY <1>2, <1>5, <1>6, <1>7

\* What is lost, and who gives up.
LEMMA TroubleLinks ==
  ASSUME Stations, Undisturbed, running' = running, NEW c \in Children, Trouble(c),
         UNCHANGED <<sfsVars, sfpVars>>, ~ disturbed'
  PROVE  Undisturbed'
<1>1. /\ UNCHANGED <<parent, schedule, response, res_storage, pending_add, pending_delete>>
      /\ \/ request[c] # NoRequest /\ request' = [request EXCEPT ![c] = NoRequest] /\ UNCHANGED <<asking, serving>>
         \/ /\ asking' = [asking EXCEPT ![c] = None] /\ response[c] = NoFrame /\ request[c] = NoRequest
            /\ UNCHANGED <<serving, request>>
         \/ serving' = [serving EXCEPT ![c] = Idle] /\ response[c] = NoFrame /\ UNCHANGED <<asking, request>>
  BY Zenon DEF Trouble, LoseRequest, LoseResponse, AckLost, TimeoutOf, sfsVars, sfpVars
<1>. PICK x1 : x1 = CellLeft(c)'
  OBVIOUS
<1>2. LeftAlone(c) /\ Transaction(running, asking[c], request[c], response[c], serving[c],
                                  Tx(c), Rx(c), Used(c), Used(parent[c]), CellLeft(c))
  BY Zenon DEF Undisturbed, TransactionOf
<1>3. Tx(c)' = Tx(c) /\ Rx(c)' = Rx(c) /\ Used(c)' = Used(c) /\ Used(parent[c])' = Used(parent[c])
  BY <1>1, SidesSame
<1>4. NodeStands(parent[c]) /\ \A m \in Nodes : NodeStands(m)
  BY <1>1 DEF NodeStands
<1>5. ASSUME OthersStand(c), Enters(c), TransactionOf(c)', LeftAlone(c)' PROVE Undisturbed'
  BY <1>1, <1>4, <1>5, StillTogether DEF StandsStill
<1>6. CASE request[c] # NoRequest /\ request' = [request EXCEPT ![c] = NoRequest] /\ UNCHANGED <<asking, serving>>
  <2>1. request'[c] = NoRequest /\ \A d \in Children \ {c} : request'[d] = request[d]
    BY <1>6 DEF Stations
  <2>2. OthersStand(c) /\ Enters(c)
    BY <1>1, <1>6, <2>1 DEF OthersStand, Enters
  <2>3. Transaction(running, asking[c], NoRequest, response[c], serving[c], Tx(c), Rx(c), Used(c), Used(parent[c]), x1)
    BY <1>2, <1>6, NoAnswerStep
  <2>4. TransactionOf(c)'
    BY <1>1, <1>3, <1>6, <2>1, <2>3, NextTransaction
  <2>5. LeftAlone(c)'
    BY <1>1, <1>2, <1>4, <1>6, LeftAloneStays
  <2>. QED
    BY <1>5, <2>2, <2>4, <2>5
<1>7. CASE /\ asking' = [asking EXCEPT ![c] = None] /\ response[c] = NoFrame /\ request[c] = NoRequest
           /\ UNCHANGED <<serving, request>>
  <2>1. asking'[c] = None /\ \A d \in Children \ {c} : asking'[d] = asking[d]
    BY <1>7 DEF Stations
  <2>2. OthersStand(c) /\ Enters(c)
    BY <1>1, <1>7, <2>1 DEF OthersStand, Enters
  <2>3. CellLeft(c)' = CellLeft(c) /\ LeftAlone(c)'
    BY <1>1, <1>2, <1>4, <1>7, CellStays, LeftAloneStays
  <2>4. Transaction(running, None, request[c], response[c], serving[c], Tx(c), Rx(c), Used(c), Used(parent[c]), CellLeft(c))
    BY <1>2, <1>7, GiveUpStep
  <2>5. TransactionOf(c)'
    BY <1>1, <1>3, <1>7, <2>1, <2>3, <2>4, NextTransaction
  <2>. QED
    BY <1>5, <2>2, <2>3, <2>5
<1>8. CASE serving' = [serving EXCEPT ![c] = Idle] /\ response[c] = NoFrame /\ UNCHANGED <<asking, request>>
  <2>1. serving'[c] = Idle /\ \A d \in Children \ {c} : serving'[d] = serving[d]
    BY <1>8 DEF Stations
  <2>2. OthersStand(c) /\ Enters(c)
    BY <1>1, <1>8, <2>1 DEF OthersStand, Enters
  <2>3. Transaction(running, asking[c], request[c], response[c], Idle, Tx(c), Rx(c), Used(c), Used(parent[c]), x1)
    BY <1>2, <1>8, GiveUpStep
  <2>4. TransactionOf(c)'
    BY <1>1, <1>3, <1>8, <2>1, <2>3, NextTransaction
  <2>5. LeftAlone(c)'
    BY <2>1, NotLeftAlone DEF Idle
  <2>. QED
    BY <1>5, <2>2, <2>4, <2>5
<1>. QED
  BY <1>1, <1>6, <1>7, <1>8

\* What disturbs the links stays written down, and the buffers are every node's.
LEMMA SchedulersKeep ==
  ASSUME Stores, (SfSimpleNext /\ UNCHANGED sfpVars) \/ (SfPlugtestNext /\ UNCHANGED sfsVars)
  PROVE  Stores' /\ (disturbed => disturbed')
<1>1. CASE SfSimpleNext /\ UNCHANGED sfpVars
  <2>1. PICK c \in Children : \/ Tick(c) \/ SimpleRequestInput(c) \/ SimpleResponseInput(c) \/ SimpleResponseSent(c)
                              \/ (Trouble(c) /\ UNCHANGED sfsVars)
    BY <1>1, Zenon DEF SfSimpleNext
  <2>2. disturbed => disturbed'
    BY <2>1, Zenon DEF Tick, SimpleRequestInput, SimpleResponseInput, SimpleResponseSent,
       Trouble, LoseRequest, LoseResponse, AckLost, TimeoutOf
  <2>3. res_storage' = res_storage \/ \E cells : res_storage' = [res_storage EXCEPT ![parent[c]] = cells]
    BY <2>1 DEF Tick, SimpleRequestInput, SimpleResponseInput, SimpleResponseSent, add_req_input, delete_req_input, sfsVars
  <2>. QED
    BY <1>1, <2>2, <2>3 DEF Stores, sfpVars
<1>2. CASE SfPlugtestNext /\ UNCHANGED sfsVars
  <2>1. PICK c \in Children : \/ shell_subcmd(c) \/ PlugtestRequestInput(c) \/ PlugtestResponseInput(c)
                              \/ PlugtestResponseSent(c) \/ (Trouble(c) /\ UNCHANGED sfpVars)
    BY <1>2, Zenon DEF SfPlugtestNext
  <2>2. disturbed => disturbed'
    BY <2>1, Zenon DEF shell_subcmd, add_delete, count, list, clear, PlugtestRequestInput, PlugtestResponseInput,
       PlugtestResponseSent, Trouble, LoseRequest, LoseResponse, AckLost, TimeoutOf
  <2>3. DOMAIN pending_add' = DOMAIN pending_add /\ DOMAIN pending_delete' = DOMAIN pending_delete
    BY <2>1, Zenon DEF shell_subcmd, PlugtestRequestInput, PlugtestResponseInput, PlugtestResponseSent, sfpVars,
       add_req_handler, delete_req_handler, count_req_handler, list_req_handler, clear_req_handler
  <2>. QED
    BY <1>2, <2>2, <2>3 DEF Stores, sfsVars
<1>. QED
  BY <1>1, <1>2

LEMMA LinksSteps == LinksInv /\ [Next]_vars => LinksInv'
<1> SUFFICES ASSUME LinksInv, [Next]_vars PROVE LinksInv'
  OBVIOUS
<1>1. Stations /\ Stores /\ (~ disturbed => Undisturbed) /\ running' = running
  BY SchedulersStep DEF LinksInv
<1>2. CASE running = "sf_simple" /\ SfSimpleNext /\ UNCHANGED sfpVars
  <2>1. Stations' /\ Stores' /\ (disturbed => disturbed')
    BY <1>1, <1>2, SimpleStations, SchedulersKeep
  <2>2. ASSUME ~ disturbed' PROVE Undisturbed'
    <3>1. PICK c \in Children : \/ Tick(c) \/ SimpleRequestInput(c) \/ SimpleResponseInput(c) \/ SimpleResponseSent(c)
                                \/ (Trouble(c) /\ UNCHANGED sfsVars)
      BY <1>2, Zenon DEF SfSimpleNext
    <3>. QED
      BY <1>1, <1>2, <2>1, <2>2, <3>1, TickLinks, SimpleRequestLinks, SimpleResponseLinks, SimpleSentLinks, TroubleLinks
  <2>. QED
    BY <2>1, <2>2 DEF LinksInv
<1>3. CASE running = "sf_plugtest" /\ SfPlugtestNext /\ UNCHANGED sfsVars
  <2>1. Stations' /\ Stores' /\ (disturbed => disturbed') /\ running # "sf_simple"
    BY <1>1, <1>3, PlugtestStations, SchedulersKeep
  <2>2. ASSUME ~ disturbed' PROVE Undisturbed'
    <3>1. PICK c \in Children : \/ shell_subcmd(c) \/ PlugtestRequestInput(c) \/ PlugtestResponseInput(c)
                                \/ PlugtestResponseSent(c) \/ (Trouble(c) /\ UNCHANGED sfpVars)
      BY <1>3, Zenon DEF SfPlugtestNext
    <3>. QED
      BY <1>1, <1>3, <2>1, <2>2, <3>1, ShellLinks, HandlerLinks, PlugtestResponseLinks, PlugtestSentLinks, TroubleLinks
  <2>. QED
    BY <2>1, <2>2 DEF LinksInv
<1>4. CASE UNCHANGED otherVars
  <2>1. UNCHANGED <<sixtopVars, sfsVars, sfpVars>>
    BY <1>4 DEF otherVars
  <2>2. Stations' /\ Stores' /\ disturbed' = disturbed
    BY <1>1, <2>1, StationsStay DEF Stores, sixtopVars, sfsVars, sfpVars
  <2>3. ASSUME Undisturbed PROVE Undisturbed'
    BY <1>1, <2>1, <2>3, AllStands DEF sixtopVars, sfsVars, sfpVars
  <2>. QED
    BY <1>1, <2>2, <2>3 DEF LinksInv
<1>. QED
  BY <1>1, <1>2, <1>3, <1>4, SchedulersStep

LEMMA LinksBegin == ASSUME SixTopInit, SfSimpleInit, SfPlugtestInit PROVE LinksInv
<1>1. Stations
  BY ListingBegins
<1>2. Stores
  BY DEF SfSimpleInit, SfPlugtestInit, Stores
<1>3. ASSUME NEW n \in Nodes PROVE Links(n) = {SharedLink} /\ Orderly(n)
  <2>1. schedule[n] = <<SharedLink>>
    BY <1>3 DEF SixTopInit
  <2>. PICK w : w = <<SharedLink>>
    BY Zenon
  <2>2. Len(w) >= 1 /\ w[1] = SharedLink
    OBVIOUS
  <2>3. Links(n) = {SharedLink}
    BY <2>1, OneCell, Zenon DEF Links
  <2>4. LinkOf(n, SharedLink)
    BY SharedIs, Zenon DEF LinkOf
  <2>. QED
    BY <2>1, <2>2, <2>3, <2>4 DEF Orderly
<1>4. ASSUME NEW c \in Children PROVE Exclusive(c) /\ TransactionOf(c) /\ LeftAlone(c)
  <2>1. asking[c] = None /\ request[c] = NoRequest /\ response[c] = NoFrame /\ serving[c] = Idle
    BY <1>4 DEF SixTopInit
  <2>2. c \in Nodes /\ parent[c] \in Nodes
    BY <1>1, <1>4, Family DEF Stations
  <2>3. Tx(c) = {} /\ Rx(c) = {}
    BY <1>3, <2>2, SharedIs DEF Tx, Rx, Marks
  <2>4. TransactionOf(c)
    <3>1. NoFrame = [rc |-> NoFrame.rc, cells |-> NoFrame.cells, delivered |-> NoFrame.delivered]
      BY DEF NoFrame
    <3>2. Tx(c) = Rx(c)
      BY <2>3
    <3>. QED
      BY <2>1, <3>1, <3>2, Zenon DEF TransactionOf, Transaction
  <2>5. Exclusive(c) /\ LeftAlone(c)
    BY <2>1 DEF Exclusive, LeftAlone, Idle
  <2>. QED
    BY <2>4, <2>5
<1>5. Undisturbed
  BY <1>3, <1>4 DEF Undisturbed
<1>. QED
  BY <1>1, <1>2, <1>5 DEF LinksInv

\* See LinksAgree: the child sends where its parent listens, for any tree and any order of the
\* commands, unless a response got lost, a side gave up too early, or two transactions met.
THEOREM LinksAgreeAlways == Spec => []LinksAgree
<1>1. Init => LinksInv
  BY LinksBegin DEF Init
<1>2. LinksInv => LinksAgree
  <2> SUFFICES ASSUME Stations, Undisturbed PROVE
        /\ \A c \in Children : response[c] = NoFrame =>
             ToSet(LinksWith(c, "TX", parent[c])) = ToSet(LinksWith(parent[c], "RX", c))
        /\ \A n \in Nodes : schedule[n][1] = SharedLink
    BY DEF LinksInv, LinksAgree
  <2>1. ASSUME NEW c \in Children, response[c] = NoFrame
        PROVE  ToSet(LinksWith(c, "TX", parent[c])) = ToSet(LinksWith(parent[c], "RX", c))
    <3>1. c \in Nodes /\ parent[c] \in Nodes
      BY Family DEF Stations
    <3>2. Orderly(c) /\ Orderly(parent[c]) /\ IsList(schedule[c]) /\ IsList(schedule[parent[c]])
      BY <3>1 DEF Stations, Undisturbed
    <3>3. Tx(c) = Rx(c)
      BY <2>1, Zenon DEF Undisturbed, TransactionOf, Transaction
    <3>. QED
      BY <3>2, <3>3, LinksWithIs DEF Tx, Rx
  <2>2. \A n \in Nodes : schedule[n][1] = SharedLink
    BY DEF Undisturbed, Orderly
  <2>. QED
    BY <2>1, <2>2
<1>. QED
  BY <1>1, <1>2, LinksSteps, PTL DEF Spec
===============================================================================
