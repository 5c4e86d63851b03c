-------------------------------- MODULE PubSub --------------------------------
(***************************************************************************)
(* The publish/subscribe broker of com.evaluation22.  It shares the        *)
(* subscriptions out between two workers it supervises, by the parity of   *)
(* the message's hash, and tells every publication to both: the one that   *)
(* does not know the topic throws, and is resumed.  While batching is on   *)
(* the publications are stashed.                                           *)
(***************************************************************************)
EXTENDS Actors, FiniteSets

VARIABLES
  batching,       \* the broker's behaviour is batchedOn
  batch,          \* its stash
  subscriptions,  \* of each worker: from topics to subscribers
  notified        \* history: values the subscriber printed, with the worker that sent each

pubSubVars == <<batching, batch, subscriptions, notified>>

Workers      == {"odd", "even"}
PubSubActors == Workers \cup {"broker", "subscriber", "publisher"}

ConfigMsg            == [type |-> "config"]
SubscribeMsg(t)      == [type |-> "subscribe", topic |-> t]
PublishMsg(t, v)     == [type |-> "publish", topic |-> t, value |-> v]
BatchMsg(on)         == [type |-> "batch", on |-> on]
NotifyMsg(v, worker) == [type |-> "notify", value |-> v, worker |-> worker]

Subscribes(t)  == ToTell("subscriber", SubscribeMsg(t))
Publishes(t, v) == ToTell("publisher", PublishMsg(t, v))
Batches(on)    == ToTell("broker", BatchMsg(on))

Beginning ==
  << ToTell("subscriber", ConfigMsg), ToTell("publisher", ConfigMsg), Subscribes("topic0"), Subscribes("topic1"), Pause >>

\* main's events and batch; and a batch that begins again at once, with a topic
\* that is subscribed to a second time and one that nobody subscribed to.
PubSubScripts ==
  { Beginning \o << Publishes("topic0", 1), Publishes("topic1", 2), Pause, Batches(TRUE), Pause,
                    Publishes("topic0", 3), Publishes("topic1", 4), Pause, Batches(FALSE) >>,
    Beginning \o << Batches(TRUE), Publishes("topic0", 1), Publishes("topic9", 2), Pause, Subscribes("topic0"),
                    Batches(FALSE), Batches(TRUE), Publishes("topic0", 3), Batches(FALSE) >> }

PubSubInit ==
  /\ batching = FALSE
  /\ batch = <<>>
  /\ subscriptions = [w \in Workers |-> {}]
  /\ notified = <<>>

configure(a) == Handles(a, "config") /\ TellsNobody(a) /\ UNCHANGED pubSubVars

SubscriberOnSubscribe ==
  Handles("subscriber", "subscribe") /\ Tells("subscriber", "broker", Received("subscriber")) /\ UNCHANGED pubSubVars

onNotify ==
  /\ Handles("subscriber", "notify") /\ TellsNobody("subscriber")
  /\ notified' = Append(notified, Received("subscriber"))
  /\ UNCHANGED <<batching, batch, subscriptions>>

PublisherOnPublish ==
  Handles("publisher", "publish") /\ Tells("publisher", "broker", Received("publisher")) /\ UNCHANGED pubSubVars

\* The key is the message's identity hash: of either parity.
BrokerOnSubscribe ==
  /\ Handles("broker", "subscribe")
  /\ \E w \in Workers : Tells("broker", w, Received("broker"))
  /\ UNCHANGED pubSubVars

onPublish ==
  /\ Handles("broker", "publish") /\ ~ batching
  /\ TellsAll("broker", Workers, Received("broker"))
  /\ UNCHANGED pubSubVars

onPubBatch ==
  /\ Handles("broker", "publish") /\ batching /\ TellsNobody("broker")
  /\ batch' = Append(batch, Received("broker"))
  /\ UNCHANGED <<batching, subscriptions, notified>>

\* Mutant: unstash, which puts back the first only.
TheFirstOnly == Unstashes("broker", IF batch = <<>> THEN <<>> ELSE <<Head(batch)>>)

unstashAll == Unstashes("broker", batch)

onBatching ==
  /\ Handles("broker", "batch")
  /\ batching' = Received("broker").on
  /\ IF batching' THEN TellsNobody("broker") /\ UNCHANGED batch ELSE unstashAll /\ batch' = <<>>
  /\ UNCHANGED <<subscriptions, notified>>

WorkerOnSubscribe(w) ==
  /\ Handles(w, "subscribe") /\ TellsNobody(w)
  /\ subscriptions' = [subscriptions EXCEPT ![w] = @ \cup {Received(w).topic}]
  /\ UNCHANGED <<batching, batch, notified>>

\* The exception is the broker's to deal with: it resumes the worker, whose message is gone.
WorkerOnPublish(w) ==
  /\ Handles(w, "publish")
  /\ IF Received(w).topic \in subscriptions[w]
     THEN Tells(w, "subscriber", NotifyMsg(Received(w).value, w))
     ELSE TellsNobody(w)
  /\ UNCHANGED pubSubVars

BrokerStep == BrokerOnSubscribe \/ onPublish \/ onPubBatch \/ onBatching

PubSubActorStep ==
  \/ BrokerStep
  \/ \E a \in {"subscriber", "publisher"} : configure(a)
  \/ SubscriberOnSubscribe \/ onNotify \/ PublisherOnPublish
  \/ \E w \in Workers : WorkerOnSubscribe(w) \/ WorkerOnPublish(w)

(***************************************************************************)
(* Properties                                                              *)
(***************************************************************************)

\* How often the subscriber printed a value.
Times(v) == Cardinality({i \in DOMAIN notified : notified[i].value = v})

\* A worker's notifications are in the order in which the values, 1, 2, 3 ..., were
\* published, batches that end and begin again or not, and none comes twice from it.
PublishedOrder ==
  \A i, j \in DOMAIN notified :
    i < j /\ notified[i].worker = notified[j].worker => notified[i].value < notified[j].value

\* The lines of main's script that publish an event, and how many of its lines main has told.
EventLines == {i \in DOMAIN began : began[i].to = "publisher" /\ began[i].msg.type = "publish"}
ToldLines  == Len(began) - Len(script)

\* main had turned batching on before it told line j, and has not turned it off since.
OfTheBatch(j) ==
  \E i \in 1 .. j : began[i] = Batches(TRUE) /\ \A n \in i .. ToldLines : began[n] # Batches(FALSE)

\* PubSub.java: "In this example, the last two events shall not be processed until after
\* this point": no event of a batch, whatever its topic, is printed before main turns
\* batching off, even if main does not sleep long enough.
BatchIsKept ==
  \A j \in EventLines : j <= ToldLines /\ OfTheBatch(j) => Times(began[j].msg.value) = 0

\* Every event of the script whose topic was subscribed to is printed, once at most for each
\* worker that has the subscription, although the other worker throws, and the event of a
\* topic without a subscription is not; if main's first sleep is too short they may be lost.
NotifiedOnce ==
  patient /\ AllTold /\ AtRest =>
    /\ batch = <<>>
    /\ \A j \in EventLines :
         LET topic  == began[j].msg.topic
             fewest == IF Subscribes(topic) \in ToSet(began) THEN 1 ELSE 0
         IN Times(began[j].msg.value) \in fewest .. Cardinality({w \in Workers : topic \in subscriptions[w]})
===============================================================================
