------------------------------- MODULE TrickleDemo ----------------------------
(***************************************************************************)
(* examples/libs/trickle-library: every node has a token, tells it to its  *)
(* neighbours when its Trickle timer says so, and takes theirs if it is    *)
(* newer in the arithmetic of serial numbers.  The Trickle timer and the   *)
(* radio are external.  A node's token is out of the air before its next   *)
(* one: an interval has 16 ticks at least.                                 *)
(***************************************************************************)
EXTENDS Integers

CONSTANTS
  Motes,
  Hears,          \* Hears[n]: the neighbours of n
  Tokens,         \* how many there are: 256 of a uint8_t
  MaxNewTokens, MaxTokensLost

ASSUME TrickleAssumption ==
  /\ Hears \in [Motes -> SUBSET Motes]
  /\ Tokens \in Nat \ {0} /\ MaxNewTokens \in Nat /\ MaxTokensLost \in Nat
  /\ MaxNewTokens < Tokens \div 2    \* nobody falls behind by half of the tokens

VARIABLES
  token,          \* of each node
  heard,          \* c of its timer: consistent tokens in this interval
  due,            \* the time t of the interval is still to come
  on_air,         \* what it sent, and who is still to receive it
  number,         \* history: the token before it is cut to a byte
  made, dropped   \* tokens generated, and lost by the radio

trickleVars == <<token, heard, due, on_air, number, made, dropped>>

REDUNDANCY_CONST == 2

Nothing == [to |-> {}, token |-> 0, number |-> 0]

\* All agree; the first token is 0, or it is about to wrap.
TrickleInit ==
  /\ \E first \in {0, Tokens - 1} : number = [n \in Motes |-> first] /\ token = [n \in Motes |-> first]
  /\ heard = [n \in Motes |-> 0] /\ due = [n \in Motes |-> TRUE]
  /\ on_air = [n \in Motes |-> Nothing]
  /\ made = 0 /\ dropped = 0

\* An inconsistency starts the shortest interval, unless it is the shortest already.
ResetTimer(n) ==
  \/ heard' = [heard EXCEPT ![n] = 0] /\ due' = [due EXCEPT ![n] = TRUE]
  \/ UNCHANGED <<heard, due>>

trickle_tx(n) ==
  /\ due[n] /\ on_air[n].to = {}
  /\ due' = [due EXCEPT ![n] = FALSE]
  /\ on_air' = IF heard[n] >= REDUNDANCY_CONST THEN on_air
            ELSE [on_air EXCEPT ![n] = [to |-> Hears[n], token |-> token[n], number |-> number[n]]]
  /\ UNCHANGED <<token, heard, number, made, dropped>>

IntervalEnds(n) ==
  /\ ~ due[n]
  /\ due' = [due EXCEPT ![n] = TRUE] /\ heard' = [heard EXCEPT ![n] = 0]
  /\ UNCHANGED <<token, on_air, number, made, dropped>>

\* (signed char)(token - theirs) < 0
TheirsIsNewer(ours, theirs) == (ours - theirs) % Tokens >= Tokens \div 2

Takes(n, m) == token' = [token EXCEPT ![n] = m.token] /\ number' = [number EXCEPT ![n] = m.number]

OutOfTheAir(n, m) ==
  LET rest == on_air[m].to \ {n}
  IN on_air' = IF rest = {} THEN [on_air EXCEPT ![m] = Nothing] ELSE [on_air EXCEPT ![m].to = rest]

tcpip_handler(n, m) ==
  /\ n \in on_air[m].to /\ OutOfTheAir(n, m)
  /\ IF token[n] = on_air[m].token
     THEN /\ heard' = [heard EXCEPT ![n] = IF @ < REDUNDANCY_CONST THEN @ + 1 ELSE @]
          /\ UNCHANGED <<token, number, due>>
     ELSE /\ IF TheirsIsNewer(token[n], on_air[m].token) THEN Takes(n, on_air[m]) ELSE UNCHANGED <<token, number>>
          /\ ResetTimer(n)
  /\ UNCHANGED <<made, dropped>>

NewToken(n) ==
  /\ made < MaxNewTokens /\ made' = made + 1
  /\ token' = [token EXCEPT ![n] = (@ + 1) % Tokens] /\ number' = [number EXCEPT ![n] = @ + 1]
  /\ ResetTimer(n)
  /\ UNCHANGED <<on_air, dropped>>

RadioLoses(n, m) ==
  /\ n \in on_air[m].to /\ OutOfTheAir(n, m)
  /\ dropped < MaxTokensLost /\ dropped' = dropped + 1
  /\ UNCHANGED <<token, heard, due, number, made>>

\* What the timer does by itself; and a transmission that is not suppressed.
TrickleGoesOn(n) == trickle_tx(n) \/ IntervalEnds(n)
SpeaksUp(n) == heard[n] < REDUNDANCY_CONST /\ trickle_tx(n)

TrickleNext ==
  \E n \in Motes :
    \/ TrickleGoesOn(n) \/ NewToken(n)
    \/ \E m \in Motes : tcpip_handler(n, m) \/ RadioLoses(n, m)

(***************************************************************************)
(* Properties                                                              *)
(***************************************************************************)

\* No node takes back what it told, though tokens wrap and old ones are in the air.
NothingTakenBack == \A n \in Motes : on_air[n].to # {} => number[n] >= on_air[n].number

\* When no more tokens are made, all nodes come to have the newest, in spite of the
\* transmissions that are suppressed or lost.  (A node draws its time in every interval
\* anew: no other always speaks twice before it.)
AllAgree == <>[](\A n, m \in Motes : number[n] = number[m])
=============================================================================
