----------------------------- MODULE ContikiLabs ------------------------------
(***************************************************************************)
(* Two labs of Contiki-NG: the bounded queue (es1) and the count exchange  *)
(* (es3).                                                                  *)
(***************************************************************************)
EXTENDS Integers, Sequences, SequencesExt

(***************************************************************************)
(* Contiki-NG/lab/es1/es1.c: a producer and a consumer share a queue, and  *)
(* wake each other with events.  Each of them waits for its own timer too; *)
(* the event with which the other one wakes it may come first, or find the *)
(* event queue of the system full: process_post() then drops it, and       *)
(* nobody looks at its result.                                             *)
(***************************************************************************)

CONSTANTS
  QueueSize,     \* 10 in the program
  NumEvents      \* PROCESS_CONF_NUMEVENTS, the system's event queue

ASSUME QueueAssumption == QueueSize \in Nat \ {0} /\ NumEvents \in Nat \ {0}

VARIABLES
  queue,         \* the elements, each known by its place in the order of production
  added,         \* the next element's
  started,       \* the consumer has got its first event
  queue_expired,     \* of each process: its timer's event was posted
  queue_events       \* the system's event queue: for whom each of them is

queueVars == <<queue, added, started, queue_expired, queue_events>>

Elements   == 0 .. QueueSize      \* enough to tell those in the queue apart
After(e)   == (e + 1) % (QueueSize + 1)

\* External: an event for a process is queued, if there is room.
Post(queued, p) == IF Len(queued) < NumEvents THEN Append(queued, p) ELSE queued

\* Both have run up to their first wait.
QueueInit ==
  /\ queue = <<>>
  /\ added = 0
  /\ started = FALSE
  /\ queue_expired = [producer |-> FALSE, consumer |-> FALSE]
  /\ queue_events = <<>>

\* External: etimer's process tries again when it finds no room.
QueueTimerExpires(p) ==
  /\ ~ queue_expired[p] /\ (p = "consumer" => started)
  /\ Len(queue_events) < NumEvents
  /\ queue_events' = Append(queue_events, p)
  /\ queue_expired' = [queue_expired EXCEPT ![p] = TRUE]
  /\ UNCHANGED <<queue, added, started>>

HasRoom == Len(queue) < QueueSize

producer ==
  /\ queue_events # <<>> /\ Head(queue_events) = "producer"
  /\ IF queue_expired.producer /\ HasRoom
     THEN /\ queue' = Append(queue, added)
          /\ added' = After(added)
          /\ queue_expired' = [queue_expired EXCEPT !.producer = FALSE]
          /\ queue_events' = Post(Tail(queue_events), "consumer")
     ELSE queue_events' = Tail(queue_events) /\ UNCHANGED <<queue, added, queue_expired>>
  /\ UNCHANGED started

Tells(queued) == Post(queued, "producer")

\* Its first event, whichever it is, only makes it begin.
consumer ==
  /\ queue_events # <<>> /\ Head(queue_events) = "consumer"
  /\ \/ /\ ~ started /\ started' = TRUE
        /\ queue_events' = Tail(queue_events) /\ UNCHANGED <<queue, queue_expired>>
     \/ /\ started /\ queue_expired.consumer /\ queue # <<>>
        /\ queue' = Tail(queue)
        /\ queue_expired' = [queue_expired EXCEPT !.consumer = FALSE]
        /\ queue_events' = Tells(Tail(queue_events))
        /\ UNCHANGED started
     \/ /\ started /\ ~ (queue_expired.consumer /\ queue # <<>>)
        /\ queue_events' = Tail(queue_events) /\ UNCHANGED <<queue, started, queue_expired>>
  /\ UNCHANGED added

QueueNext == producer \/ consumer \/ \E p \in {"producer", "consumer"} : QueueTimerExpires(p)

(***************************************************************************)
(* Properties                                                              *)
(***************************************************************************)

\* The elements are in the order in which they were produced, none is missing between them,
\* and there are never more than fit.
OrderKept ==
  /\ Len(queue) <= QueueSize
  /\ \A i \in DOMAIN queue : After(queue[i]) = IF i = Len(queue) THEN added ELSE queue[i + 1]

\* Whoever waits is woken, although events are dropped when the event queue is full:
\* production, and so consumption, never comes to an end.
NobodyStuck == \A e \in Elements : []<>(added = e)

(***************************************************************************)
(* Contiki-NG/lab/es3: the client sends a count, the server sends it back, *)
(* and the client answers with the next one at once.  When nothing came    *)
(* for five seconds it starts again from zero.  Messages are lost, and     *)
(* overtake each other; an answer may come after the five seconds.         *)
(***************************************************************************)

CONSTANTS
  MaxCount,      \* bound on the count
  MaxTimeouts    \* how often the five seconds may pass

ASSUME ExchangeAssumption == MaxCount \in Nat /\ MaxTimeouts \in Nat

VARIABLES
  count,
  received,      \* the flag
  client_events, \* how many events are posted to the client's process
  timer_expired, \* periodic_timer is, and its event was posted
  routed,        \* external: the routing protocol knows a way to the root
  requests, responses,   \* under way, each of which may come next
  early_timeouts,\* history: the timeouts while something was under way
  timeouts

exchangeVars == <<count, received, client_events, timer_expired, routed, requests, responses, early_timeouts, timeouts>>

ExchangeInit ==
  /\ count = 0 /\ received = 0 /\ client_events = 0
  /\ timer_expired = FALSE
  /\ routed \in BOOLEAN
  /\ requests = <<>> /\ responses = <<>>
  /\ early_timeouts = 0 /\ timeouts = 0

UnderWay == Len(requests) + Len(responses)

\* udp_rx_callback() of the server.
server_udp_rx_callback ==
  \E i \in DOMAIN requests :
    /\ requests' = RemoveAt(requests, i)
    /\ responses' = Append(responses, requests[i])
    /\ UNCHANGED <<count, received, client_events, timer_expired, routed, early_timeouts, timeouts>>

\* udp_rx_callback() of the client: the count that came is printed and nothing else.
udp_rx_callback ==
  \E i \in DOMAIN responses :
    /\ responses' = RemoveAt(responses, i)
    /\ received' = 1 /\ client_events' = client_events + 1
    /\ UNCHANGED <<count, timer_expired, routed, requests, early_timeouts, timeouts>>

\* Mutant: any event will do.
AnyEvent == TRUE

\* What the process waits for.
Wakes == timer_expired \/ received = 1

NextCount == IF received = 0 THEN 0 ELSE count + 1

\* The process gets an event: what it waits for is the timer, or the flag.  The event of a
\* timer that is set again stays in the queue.
udp_client_process ==
  /\ client_events > 0 /\ client_events' = client_events - 1
  /\ \/ /\ ~ Wakes
        /\ UNCHANGED <<count, received, timer_expired, requests>>
     \/ /\ Wakes
        /\ timer_expired' = FALSE
        /\ IF routed
           THEN /\ NextCount <= MaxCount
                /\ count' = NextCount
                /\ received' = 0
                /\ requests' = Append(requests, count')
           ELSE UNCHANGED <<count, received, requests>>
  /\ UNCHANGED <<routed, responses, early_timeouts, timeouts>>

PeriodicExpires ==
  /\ ~ timer_expired /\ timeouts < MaxTimeouts
  /\ timer_expired' = TRUE
  /\ client_events' = client_events + 1
  /\ timeouts' = timeouts + 1
  /\ early_timeouts' = early_timeouts + (IF UnderWay > 0 THEN 1 ELSE 0)
  /\ UNCHANGED <<count, received, routed, requests, responses>>

LoseMessage ==
  /\ \/ \E i \in DOMAIN requests : requests' = RemoveAt(requests, i) /\ UNCHANGED responses
     \/ \E i \in DOMAIN responses : responses' = RemoveAt(responses, i) /\ UNCHANGED requests
  /\ UNCHANGED <<count, received, client_events, timer_expired, routed, early_timeouts, timeouts>>

ChangeRoute ==
  /\ routed' = ~ routed
  /\ UNCHANGED <<count, received, client_events, timer_expired, requests, responses, early_timeouts, timeouts>>

ExchangeNext ==
  server_udp_rx_callback \/ udp_rx_callback \/ udp_client_process \/ PeriodicExpires \/ LoseMessage \/ ChangeRoute

(***************************************************************************)
(* Properties                                                              *)
(***************************************************************************)

\* Every timeout that comes before the answer adds a message that goes back and forth from
\* then on; nothing else does.
OneExchangeEach == UnderWay + received <= 1 + early_timeouts

\* As long as no timeout came too early, what is under way is the client's last count,
\* also after losses and while the server cannot be reached.
InStep ==
  early_timeouts = 0 =>
    /\ \A i \in DOMAIN requests : requests[i] = count
    /\ \A i \in DOMAIN responses : responses[i] = count
===============================================================================
