# NSDScourse: specifications, model checking and proofs

The repository collects the programs of a course on networked software and distributed
systems, and the example programs of the operating system it uses on sensors: each shows one
way in which concurrent or distributed parts interact. This directory models in TLA+ the ones
with a protocol of their own, checks the models with TLC and proves the most important
properties with TLAPS.

To check one: `tlc -config MCGuess.cfg Guess`; to check the proofs: `tlapm GuessProof.tla`.
`PROJECT.json` relates every definition to the source lines it models, every run to its
properties, and every property to a plausible bug of the code that breaks it.

1. [The system](#1-the-system)
2. [Modules](#2-modules)
3. [Runs](#3-runs)
4. [Fairness](#4-fairness)
5. [Proofs](#5-proofs)
6. [Where the code and its documentation disagree](#6-where-the-code-and-its-documentation-disagree)
7. [What is left out](#7-what-is-left-out)

## 1. The system

There is no single program: each part below runs alone. What they share is the middleware
they run on (MPI, Akka actors, Kafka, Contiki-NG), which is not in the repository and is
modelled from how the programs use it.

### MPI (`MPI/`)

Programs run as a fixed number of ranks, each executing the same `main`; they interact by
sends, receives and collective calls only. What is hard: ranks are in different iterations at
the same time, a rank's copy of a value may be older than another's, a receive may match any
message, and a call whose partner never comes blocks for ever.

| Program | State per rank | Steps | Correct when |
|---|---|---|---|
| `NSDS_MPI_lab/guess.c` | round, its copy of the leader, the winner it heard of; for the leader the gathered numbers; for rank 0 the leader board | gather, `compute_winner`, broadcast, `update_leader`, `update_leaderboard`, barrier | ranks of one round agree on the leader, the winner is the only closest number of that round, the board counts it, all ranks end |
| `NSDS_MPI_lab/linear_road.c` | iteration, cars in its segments | exit and send, move, receive or create, reduce, barrier | cars are conserved and move once per iteration, printed sums are consistent, all ranks end |
| `NSDS_MPI_tutorial/src/char_count.c`, `filter.c` | partial counts; the master's array | sends and receives with wildcards | no message is taken for another |
| the short ones of the tutorial, `monte_carlo.c` | the call a rank is at | one exchange, a ring, a player and another | they end, but for the two that are meant to hang |
| `NSDS_MPI_eval/ants_simulation_25.c` | iteration, centre | scatter, broadcast, move, reduce | all ranks use the centre of the iteration before |

### Akka (`Akka/`)

Actors with a mailbox each handle one message at a time; a supervisor decides what happens to
one whose handler throws. Messages between two actors keep their order, those of different
senders do not; behaviours are switched with `become` and messages put off with `stash`.

| Program | State | Operations | Correct when |
|---|---|---|---|
| `NSDS_akka_eval_group25` | script position of `main`; per sensor the dispatcher's reference; the dispatcher's behaviour, map and index; readings and average of each processor | `onGenerate`, `onDispatchLogicMsg`, `dispatchDataLoadBalancer`, `dispatchDataRoundRobin`, `gotData`, resume | loads balanced and sticky, round robin fair, each reading handled once, a faulty one leaves no trace |
| `com/evaluation22` (publish/subscribe) | subscriptions of two workers, batching, stash | `onSubscribe`, `onPublish`, `onBatching`, resume | subscribers are notified once by each worker and in order, not while batching |
| `com/lab2`, `com/lab4` (stash) | counter; asleep or awake | increment, decrement; sleep, wake, echo | nothing is lost or overtaken in the stash |
| `com/lab3`, `com/lab5` | contacts, client's server | put, get, ask with a timeout, resume or restart | what survives a fault is there |

### Kafka (`Kafka/`)

Processes consume records of partitioned topics as members of a group and commit offsets; some
send records on, in transactions. What is hard: processes crash and restart, a rebalance may
leave a busy process out without its knowing, an old producer may still be sending, and offsets
and effects are stored in different places.

| Program | State per process | Operations | Correct when |
|---|---|---|---|
| `AtMostOncePrinter` | batch, position | poll, `commitSync`, print | no record is printed twice, whatever crashes |
| `PopularTopicConsumer` | batch, `countMap` | poll (with automatic commits), count | no record is skipped, none counted twice by a process in every rebalance |
| `AtomicForwarder` | batch, transaction | poll, send, `sendOffsetsToTransaction`, `commitTransaction` | the output is an exactly-once, ordered copy of each partition |
| `Lab1/ES3/C2`, `Lab1/ES4/C2` | batch, transaction | the same, with the end of the transaction inside the loop | nothing is forwarded twice; nothing lost |
| `Lab1/ES1/C2`, `Lab1/ES2/C2`, `basic/BasicConsumerManual` | batch, position, the producer's buffer | poll, send or print, commits from inside `poll` or in the middle of a batch | only what a process had when it ended is lost |

### Contiki-NG (`Contiki-NG/`)

Protothreads that wait for timers, events, polls and received datagrams. What is hard: the
network loses messages and comes and goes at any moment, also while a process sleeps; events
queue up, or are dropped when the queue is full; `static` variables, buffers and rings are
shared between iterations, connections and interrupts.

| Program | State | Operations | Correct when |
|---|---|---|---|
| `NSDS-contiking-eval-23` | the client's ring of readings, `disconnected`, static sum; the server's ring | send, save, send average, sleep; `udp_rx_callback` | no reading is forgotten unless newer ones overwrite it, the average goes first; the server averages the latest |
| `lab/es1`, `lab/es3` | bounded queue; count and timer | produce and consume; request, answer, timeout | in order, nobody waits for ever; one exchange for each early timeout |
| `lab/es4`, `mqtt-client`, `mqtt-demo`, `nrf52dk`, the web demo's client | state of the connection, back-off | the state machine, the library's callback, timers, buttons | it always wakes up, gives up in time, ends up publishing |
| `6tisch/sixtop`, `6tisch/etsi-plugtest-2017`, `6tisch/6p-packet` | schedule of links; what was asked and promised | 6top requests, responses, timeouts | both ends of a link agree on its timeslots |
| `cc26xx-web-demo` | connections, lock, configuration, flash | POST handlers, pages in chunks, events between its processes | one POST at a time, pages whole, what was accepted is saved |
| `cc26xx-demo`, `very-sleepy-demo` | timers and readings; modes | sensor events, timers, button | every chain of readings goes on; the radio stays on long enough |
| `rpl-border-router`, `ip64-router` web servers | a static buffer for all connections | a page in segments | a page made alone is whole |
| `sensniff`, `slip-radio`, `jn516x/tsch` UART node | rings between interrupt and process | bytes, packets, lines | each command answered, each packet reported under its own identifier, lines in order |
| `zoul/at-test` | pins, LEDs | AT commands, a delayed reset | a pin keeps what it was set to |
| `lwm2m-ipso-objects` server | table of nodes; one target, URI and value for the user and the discovery | lines of the user, a timer, two blocking requests | the user's command goes once, to its node and as it was given |
| `jn516x/rpl` boards DR1175, DR1199 | LEDs and levels, a buffer for all answers | handlers of CoAP resources, events of the sensors | a level that is set shows; observers know the last reading |
| `cc2538-common/crypto`, `pka` | the vector, the key store, the engine | start, wait for the interrupt, check | a verdict is of its own vector, with its key |
| `libs/trickle-library` | a token | told by the Trickle timer, taken if newer | all nodes come to the newest |

The hazards of this code are listed at their lines in `PROJECT.json`, most with the properties
that would catch them going wrong. Some are only noted there, with the reason: what goes wrong
has no remedy in the code that a property could state, so that the property of the component
holds up to that point (the reused buffer and the lost frames of `sf-simple`, the spent event of
`test_sf`, the buffer that `char_count` frees).

## 2. Modules

| Module | What it models |
|---|---|
| `GuessRound` | what the guessing game promises: rounds with a fair winner and a leader board |
| `Guess`, `GuessProof` | `guess.c`: every rank's loop and the messages of the collectives; theorems, with the refinement of `GuessRound` |
| `Mpi` | external: ranks, and a library that buffers sends or does not |
| `LinearRoad`, `MpiTutorial`, `Ants` | the other MPI programs, on `Mpi` |
| `MpiProof` | theorems on these: a part for each |
| `SumTheorems` | lemmas on sums over finite sets, for the proofs |
| `Dispatcher`, `AkkaProof` | the Akka evaluation lab: `main`, sensors, dispatcher, processors; theorems on it and on the Akka labs |
| `Actors` | what the Akka labs share: a script of `main`, mailboxes |
| `PubSub`, `AkkaLabs` | the publish/subscribe broker; the stashing counter, the sleeping server and the contact lists, on `Actors` |
| `KafkaGroup` | external: a consumer group, its offsets and rebalances |
| `KafkaTxn` | external: transactions of one transactional id; extends `KafkaGroup` |
| `AtMostOnce` | `AtMostOncePrinter` on `KafkaGroup` |
| `PopularTopic` | `PopularTopicConsumer` on `KafkaGroup` |
| `PlainConsumers` | `C2` of exercises 1 and 2 and `BasicConsumerManual` on `KafkaGroup` |
| `ExactlyOnce` | what a forwarder promises |
| `AtomicForwarder`, `AtomicForwarderProof` | `AtomicForwarder` on `KafkaTxn`; theorems, with the refinement of `ExactlyOnce` |
| `PerRecordForwarder` | `C2` of exercises 3 and 4 on `KafkaTxn` |
| `KafkaLabsProof` | theorems on these three and on `AtMostOnce`: a part for each |
| `TemperatureNetwork` | the temperature client, the network and the server |
| `ContikiLabs` | the bounded queue and the count exchange of the Contiki-NG labs |
| `MqttClients` | the state machine the MQTT clients share, and the five clients made of it |
| `SixTop` | external: TSCH schedules and 6top transactions |
| `SchedulingFunctions` | the two 6TiSCH scheduling functions, on `SixTop` |
| `TestSf` | the tests of 6p-packet |
| `WebDemo` | the cc26xx web demo: its web server, and its processes; uses `MqttClients` |
| `RoutesPage` | the web servers of the border router and the IP64 router |
| `SensorDemos` | the sensor chains of the cc26xx demos; the very sleepy demo |
| `SerialPrograms` | the sniffer, the slip radio, the UART node and the AT commands |
| `CoapNodes` | the LWM2M server; the boards of the jn516x |
| `CryptoTests` | the test programs of the CC2538's cryptoprocessor and public key accelerator |
| `TrickleDemo` | the demo of the Trickle library |
| `ContikiNodesProof` | theorems on the programs of `MCContikiNodes`: a part for each |
| `ContikiAppsProof` | theorems on the programs of `MCContikiApps`: a part for each |
| `MC*` | instances for TLC |

`MCMpi`, `MCAkka`, `MCKafkaLabs`, `MCContikiApps` and `MCContikiNodes` check programs that never
run together. A variable `running` chooses one at the start, and the variables of the others
stand still (in one initial state each), so that the states of a run are the sum of those of
its programs. Their properties are conjunctions of what the programs' own modules define, and a
property of one program is often of the form `running = "..." => ...`.

**Guess.** `pc` names the places of the loop body: `select` (the number is sent to the leader
in `MPI_Gather`), `gather` (the leader waits for all numbers), `compute` (`compute_winner`, one
turn of its loop per step), `bcast`, `update`, `barrier`. A message is labelled with its round,
because MPI matches collectives in the order in which each rank calls them; a rank may be a
round ahead of another. `net` holds what was sent and not received. `picks`, `target` and
`result` are history.

**LinearRoad.** One action for each part of an iteration. `MPI_Send` may or may not wait for
its receive: `eager` is chosen at the start. `MoveLoop` is the loop in which cars leave a
segment, turn by turn: its bound shrinks with every car that moves, so of `n` cars at most half
move (`HalfMove` in `MCMpi` for up to ten cars, `HalfLeaves` in `MpiProof` for any number). Whether a car
moves is a free choice: `rand() / RAND_MAX` is an integer division, so the code nearly always
moves it, and both outcomes are possible.

**MpiTutorial, Ants.** A letter's count is the set of the partial counts that were added up, so
that one that belongs to another letter shows. The short programs are scripts of calls, each
with the rank it names. An ants' centre is known by how often each rank's ants had moved.

**Dispatcher.** Mailboxes are sequences. `main` is a script of messages and sleeps. A sleep of
a second is meant to let the system become idle; `ShortSleeps` names those that do not: after
them `main` goes on while messages are still queued. Which of several least loaded processors a
`HashMap` meets first is a free choice. An average is kept as its sum. A negative temperature
throws; the supervisor resumes the processor, whose state stays and whose message is gone.

**PubSub, AkkaLabs.** An actor's step takes the first message of its mailbox. A stash is a
sequence that `unstashAll` puts before the mailbox, and `unstash` one by one. An exception ends
the handler where it is thrown; the supervisor resumes the actor, or replaces it, with its
fields as they were at first. In `PubSub` the worker of a subscription is any, because the
parity is that of an identity hash. The thread of an `ask` waits for the answer, or for its
timeout, which may come first.

**KafkaGroup, KafkaTxn.** Records are named by partition and offset. A rebalance (`Regroup`)
makes any set of polling consumers the new generation and deals out the partitions; a consumer
that is busy is left out and finds out when it commits. `position` is unknown until the consumer
asks where to start (`FetchOffset`), which in a transactional system waits for pending offsets.
The end of a transaction, its records and offsets included, is one step of the coordinator;
`initTransactions` and the timeout abort what is ongoing and raise the epoch. The versions are
those of the repository's `pom.xml` files (kafka-clients 3.5.1).

**The Kafka programs.** `pc` (`at`, `doing`) names the call a process is about to make; a crash
is possible everywhere, and a start follows. An exception (a commit that is refused, a fenced
producer, `beginTransaction` on an open transaction) ends the process, as nothing in the code
catches it. Automatic commits happen inside `poll` only, which is where the library makes them.
The buffer of a plain producer is sent at any time, and is lost with its process. In
`PerRecordForwarder` a partition stands for its key.

**TemperatureNetwork.** A temperature is known by the round in which it was read and an average
by the set of what was added up, so that the static `sum` is a set that only grows.
`ChangeReach` may happen at any moment. Messages are lost but do not overtake each other: the
two seconds of `sleep_timer` are far longer than a datagram takes.

**MqttClients.** One operator for each case of `state_machine()`, one disjunction for each
client, since they differ in the cases they have and in what their process does with a poll or a
button. The callback runs in the library's process, between any two steps of the client's;
the timer and the poll are pending or not. `BackoffKept` is about attempts that follow each
other, `GivesUpInTime` about their number.

**SixTop, SchedulingFunctions.** A transaction has a child's side and a parent's side. A frame
is lost, delivered and acknowledged, or delivered without the sender's knowing. A node commits
its side of a change when it hears of the end. `disturbed` becomes true when something happened
that the programs do not claim to survive; of what follows then, `LinksAgree` says nothing.

**WebDemo, RoutesPage.** A connection is a block of the pool with a place in its protothread.
A page is a sequence of pieces, sent in chunks that fit the main buffer (`WebDemo`) or segment
by segment from a static buffer (`RoutesPage`), and again when uIP asks for it. A POST is a
sequence of pairs; a value is accepted or refused. The events that tell the other processes of a
new configuration are queued, and handled by each when its turn comes.

**SensorDemos, SerialPrograms, CryptoTests, TrickleDemo, CoapNodes.** An interrupt or a callback is a step
of its own, which leaves something for the process (a byte in a ring, a poll, an event) and may
come between any two steps of it. Rings have the code's indices. A token has a number that
is not cut to a byte, as history. The sniffer's host does not wait for answers before it sends
more; `RadioTells` are the parameters the driver of its radio knows. A pin of the AT commands has
what its port drives it to, and the converter's override apart, which nothing but a reset takes
back. In `CoapNodes` the process of the server has a `stage` for each place where it waits or may
be looked at; a request is one step to send it and one to end it, with an answer or without.

## 3. Runs

| Run | Instance | Shows |
|---|---|---|
| `guess` | 3 ranks, 2 rounds, numbers 1..3 | ranks one round apart use the same root (`LeaderAgreement`); the winner is decided from numbers of one round, ties in every order included (`ResultIsClosest`); rank 0's board, which it updates late, counts wins (`LeaderboardCountsWins`); the game ends (`Termination`); it implements `GuessRound` |
| `mpi` | 3 ranks, sends buffered or not; the road: 2 segments each, 7 iterations, up to one new car in each; 7 letters; 2 elements for each worker; 6 messages of ping-pong; 3 iterations of the ants | `RoadSafe`, `SumIsConsistent`: cars are conserved, move once per iteration and are summed at one moment; `ResultsExact`: wildcard receives do not mix up letters, nor the filter's arrays; `RanksInStep`: hops, turns and centres are those of the right iteration, and the two programs that are meant to hang do; `Termination`: the others end |
| `akka` | 3 sensors and the faulty one, 2 processors, one round in each phase, four of six sleeps too short; 3 threads and 4 messages for the counter; the scripts of the labs with sleeps long or short | `FairlyAssigned` (balanced, round robin fair, faulty sensor apart), `Sticky`, `AllHandledThere` when switches of behaviour race with temperatures; `ReadingsAccounted` with a throwing processor; `StashesKept`: publications in order, none of a batch printed before its end, every event of a subscribed topic printed, once by each worker that knows it; decrements and requests kept, contacts found |
| `at_most_once` | 2 processes, 2 partitions, 2 records each, 3 rebalances | `PrintedAtMostOnce`, `PrintedIsCommitted`, `CommitsAdvance` |
| `atomic_forwarder` | the same, 3 epochs, a committed offset to start from | `Contiguous`, `OffsetsMatchOutput`, `NothingMissing`; it implements `ExactlyOnce` |
| `atomic_forwarder_first` | the same, 2 rebalances, no committed offset | a violation, see section 6 |
| `kafka_labs` | 2 processes, 2 partitions, 2 records each, 3 rebalances (2 but for the popular topic), 3 epochs, a commit every 2 records | `CountsExact` (nothing skipped, nothing counted twice), `ForwardedAtMostOnce`, `OffsetsCoverOutput`, `LossesExplained` (what is lost went with a process) |
| `per_record_forwarder_loss` | the forwarder of it alone | a violation, see section 6 |
| `temperature_network_once` | ring of 3, 7 rounds | a violation, see section 6 |
| `contiki_nodes` | ring of 3, 7 rounds; 6 troubles of a connection; one lost frame of 6p-packet; 2 errors and 3 presses for the sensors; a queue of 2 with an event queue of 3; counts up to 3 and 3 timeouts; durations and intervals around their minimum; 2 motes, 8 tokens, 3 new and 2 lost; 3 nodes for a table of 2, one retry | `ReadingsKept`, `MqttSafe`, `LabsSafe`, `DevicesSafe`, `TestsInStep`; `Progress`: clients end up publishing, published readings are shown, producer and consumer do not wait for ever, tests end, motes agree |
| `contiki_apps` | trees of 3 nodes (a chain, two children), 3 timeslots, at most 2 links, one failed transaction; the timers expire 6 and 2 times; 3 commands of the shell, or 5 on one node; a main buffer of 4, 2 requests, six POST bodies, one lost connection, the MQTT client still until the first request; 3 requests for routes with one lost segment or connection; 2 commands for the sniffer; rings of 3 and 4; 3 AT commands on three pins of two ports; the tables of the crypto tests as they are | `LinksAgree`, `ListedInOrder`, `WebSafe` (one POST at a time, pages whole, what was accepted is saved), `DriversSafe` (each test's verdict, key, command, packet, line and pin is its own) |
| `web_lock` | the same | a violation, see section 6 |

Why the bounds are enough. *Guess*: three ranks give ties that are broken and ties that stay;
two rounds give a change of leader and ranks in different rounds. *MPI*: with three ranks one
both receives and sends, and the first car leaves the sixth segment in the seventh iteration,
which is also one with a sum; more cars would only add up. Seven letters leave some ranks with
one letter more than others. *Akka*: three sensors on two processors make loads differ, the
index of the round robin is odd when a phase ends, and the short sleeps are those before and
after each switch of behaviour (the fifth is long enough: the faulty sensor's message must be
handled before the switch back for `FaultyNotAssigned`; with a short fourth sleep the state
space is beyond a quick run). *Kafka*: two processes are an old and a new owner; two partitions
are dealt out together or apart; two records are a batch whose middle is observable; three
rebalances move a partition away and back; three epochs are two processes and a restart or a
timeout. *Temperature*: a ring of three in seven rounds wraps, from every slot, and leaves room
for a second outage. *Clients*: six troubles are more than the five attempts of the client that gives
up. *6top*: two children meet at the root with one response each, and in a chain a node is
child and parent; three timeslots are fewer than all ask for. With one failed transaction a list is
never continued after a lost frame in the run: that `ListedInOrder` holds then is what
`CellsAreListedInOrder` proves. *Web, serial lines*: a page is
longer than the buffer; rings are as small as they can be and still wrap with one place taken;
more packets are sent than the radio's ring has places. *Trickle*: eight tokens wrap, and three new
ones stay below half of them. *LWM2M*: one node more than the table takes. *AT*: of the pins 1, 2 and 5 one is another's mask, and 8 is no pin.

Deadlock is checked in `guess` and `mpi`, whose end is a step of its own, as is waiting in the
two tutorial programs that are meant to hang. In the other models every counter is bounded, and
processes may stay down, so that behaviours do stop.

## 4. Fairness

*Guess*: weak fairness of the steps of each rank. *The other MPI programs*: of some rank's going
on; an enabled step stays enabled and there are finitely many. MPI makes progress, no rank
crashes (MPI would abort the others), and a call that can complete does.
*Dispatcher*: weak fairness of `main` and of each actor. Akka's default dispatcher runs every
actor with a message in its mailbox.
*MQTT clients*: weak fairness of the process, the library's callback, the timer, the
acknowledgement and of finding the network, none of which the code can stop; the troubles are
bounded, so that the network is calm in the end. *Sensors*: of the driver, and of timers and
events. *Queue*: weak fairness of the event handlers and strong fairness of each timer's
expiring, which is looked at again and again between events. *6p-packet*: of the two nodes;
progress is claimed for executions without a lost frame or early timer. *Trickle*: weak fairness
of each timer and of receiving what is not lost; strong fairness of a node's speaking up, since
the moment is drawn at random in every interval and suppression for ever has probability zero.

No liveness is stated for the Kafka and temperature models, as processes may crash for good and
the network may lose everything; nor for the Akka labs, whose `main` ends the system when a key
is pressed, whatever is left in mailboxes; nor for the web servers and drivers, where the other side may go away.

## 5. Proofs

All theorems are for every value of the constants that satisfies the assumptions of the modules
(named `...Assumption`, at the constants' declarations).

**GuessProof** (any number of ranks and rounds, any range of numbers).
`TypeCorrect`: `TypeOK` is inductive together with `RoundBound` (a rank that is in the loop is in
a round of the game).
`LeadersAgree`, `ResultsAreClosest`: the two invariants need each other, and neither is
inductive. The strengthening `IndInv` follows a round through the code: a round with a result
had everybody's number (`AllContributed`), so ranks drift by one round at most (`Drift`); a rank
that is ahead has taken over the winner of the round behind it (`Ahead`), which is what makes it
agree with the ranks that have not; what the leader has gathered is the round's picks
(`Gathering`), and its scan so far has the unique minimum, a tie, or nothing (`Scanning`).
`LeaderboardCorrect`: rank 0 changes the board and its round together.
`RoundsImplemented`: rank 0's barrier step is `GuessRound!PlayRound`, every other step stutters.

**AkkaProof** (any number of sensors, processors and rounds, any sleeps too short).
`SensorsFairlyAssigned`, `SensorsStay`. `Balanced` is inductive: the least loaded processor gets
the next sensor. `TurnsTaken` says of the round robin that the processors before the index have
had one turn more than those from it on. That the faulty sensor is never assigned needs to know
where its temperatures can be (`FaultyApart`): only while `main` is between the switch to round
robin and the sleep after the faulty sensor's phase, and behind the switch in the dispatcher's
mailbox; the assumption is that this one sleep is long enough (`5 \notin ShortSleeps`), which is
what the code relies on. `ReadingsAreAccounted`: no sensor generates without the dispatcher's
reference, because whoever is told anything is told the reference first (`RefsFirst`), so that every
generation ends in a mailbox; the generations told to sensors, and the temperatures that have
arrived, are sums over all mailboxes of which a step changes one element (`Accounted`); and an
average stays between the smallest and the largest accepted temperature, of which there is one
(`TempsAssumption`).

`StashesAreKept` covers the Akka labs: any number of threads and messages for the counter,
the scripts of `main` for the others, whose mailboxes the proof takes at any length.
*Counter* (`CounterInv`): the count, less what is stashed, plus what waits in the mailbox or is in
a thread's hands, is the parity of what was submitted.
*Server* (`ServerInv`): the requests are, in the order of their numbers and none missing, printed,
in the client's mailbox as answers, put off, in the server's mailbox, in the client's, and still
to be told (`Places`); the last switch among the messages that are under way says in which mode
the server will end (`Course`).
*Contacts* (`ContactsInv`): when the client is free and knows the server, its contacts are those
of the list once the messages in the list's mailbox are applied (`Agree`); when it is not, its
request is under way, or its answer, or there will be none.
*Broker* (`PubSubInv`): cut points separate the values that the subscriber has printed, those of
each worker it will print, those the workers have still to handle, and those in the stash, in the
broker's mailbox and in the publisher's (`Flow`), which unstashing in front keeps; the
broker ends in the behaviour it began with (`EndsOff`), so that nothing is left in the stash.
An event of a subscribed topic is in the script, on its way to the broker, in its stash, or with
a worker that knows the topic (`Somewhere`, `Subscribed`): this is proved of every event of the
script (`Planned`), for both topics, and who has notified of an event knows its topic
(`NotedIsKnown`, which needs that only planned events are under way, `Origins`). What main
publishes after it turned batching on and before it turns it off (`OpenAt`) the broker will
stash if it comes to it (`Gate`: it is stashing and no end of the batch is in its mailbox, or a
beginning is there, in front of the event and of no end), and no worker has heard of it
(`Unheard`; together `Waits`). The script as it was at first is kept in a history variable,
`began`, for the properties to name the events.

**KafkaLabsProof** has a part for each of four modules (any number of processes, partitions,
records and rebalances).
*Popular topic.* `NothingIsSkipped`: what a process has polled it has counted or still has
in its batch (`PolledIsCounted`), and only polled positions are committed. It assumes
`AutoOffsetReset = "earliest"`; with `latest` the claim is false. `NothingCountedTwice`, under
either policy: members share out the partitions (`Shared`), their positions are not behind what
is committed (`NotBehind`), and a process that was in every rebalance has only records counted
that it will not get again (`InPlace`). `CountsAreExact` states both of the labs' executions.

*Plain consumers.* `LossesAreExplained`: a record that a process has polled, or that is
committed, is in the output, in somebody's hands or buffer, or was in those of a process that
ended (`PolledIsAccounted`, `CommittedIsAccounted`).

*Per-record forwarder.* `AtMostOnceForwarded`, `OutputCovered`, `TypeCorrect`. At most one
process is not fenced (`OneOwner`); its positions are not behind what is committed, its batch
ends where its position is, and the transaction has at most one record of that batch
(`OwnersInPlace`). Offsets may be ahead of the output here, which is the loss of section 6.

*At-most-once printer.* `PrinterTypeCorrect`, `AtMostOnceCorrect`, `CommitsFirst`,
`CommitsOnlyAdvance`. The invariant says of members of the current generation that their
partitions are disjoint (`PrintersExclusive`) and that their positions and unprinted batches are
ahead of the committed offsets (`MembersAhead`); of everybody that what may still be printed is
committed, in one batch only and not printed yet (`PrintsExclusive`). A process that was left out
keeps its batch but cannot commit it, and does not print what it did not commit.

**AtomicForwarderProof** (any number of processes, partitions, records, epochs).
`TypeCorrect`, `OutputContiguous`, `OffsetsAndOutputAgree`, and `ForwarderIsExactlyOnce`: if the
group has a committed offset, the forwarder implements `ExactlyOnce`. The invariant: partitions
of members are disjoint (`Exclusive`); a member's batch starts at the committed offset
(`MembersStart`) and was polled up to its position (`BatchesConsumed`); the ongoing transaction
of the only unfenced process is exactly the part of its batch that it sent, with the offsets
pending only when the batch is complete (`OwnersTransaction`); the output of a partition is
everything up to the committed offset (`OutputMatches`). A commit appends the batch to the output
and moves the committed offset to its end in one step, so the last part is kept; the refinement
also needs that nothing is polled before it is written (`WithinLog`). `NothingIsMissing`, with a
committed offset to start from: a partition nobody has polled is where the group started for
everybody, in whatever hands (`FromTheStart`).

**MpiProof** (any number of ranks, segments, cars, letters, elements, turns and iterations).
`RoadIsSafe` and `SumIsOfOneInstant` of the road; `MpiInvariant` is the conjunction of the other
programs' own invariants, from which `MpiTypesOK`, `MpiResultsExact` and `MpiRanksInStep` follow.
*Linear road* (`RoadInv`): a rank that is an iteration behind is at the barrier (`Together`);
there is a message to a rank exactly when the one before has sent once more than it has received
(`MessageCount`); who has contributed to a sum stays at the barrier until it is printed
(`Contributions`); no car is further than its iterations (`NotAhead`); with these, a step moves
cars between the sums that `CarsConserved` adds up (`SumTheorems`).
*Short programs* (`ProgInv`): the two that hang stay where they are; in the ring a rank's number
is told by its calls and every message is one more than its sender; in the ping-pong there are
five situations between two turns (`Turns`).
*Filter* (`FilterInv`): what a worker has sent and the master has not received is told by the
worker's place and by the master's tables (`WorkerAt`); the counts still to be received are those
of the workers `Waiting`, the places still free are theirs, and of each value the result has as
many as the arrays received (`Tallies`).
*Letter count* (`CharInv`): a letter that its owner has passed all have passed; between two ranks
there is one message at most, about a letter the sender has passed and the owner has not
(`OneMessage`), and there is one if the owner is behind that letter (`Sent`); so a wildcard receive can
take a count of the present letter only, and what is summed up is that of the ranks heard.
*Ants* (`AntsInv`): ranks are one iteration ahead of the root at most, and only while it has given
its centre and waits for theirs (`AntsOrder`); the centres follow (`Centers`).

**ContikiNodesProof** (any sizes, counts, intervals and numbers of nodes).
*Temperature*: `ReadingsAreKept`. The ring holds the latest temperatures of an outage that began
in some round, each at the slot its age says (`Ring`, `OutageSince`, `Age`); an overwritten
temperature was followed by as many rounds of the outage as the ring has slots (`Reached`,
`ReachedInTime`); averages are sent before the reading that ends an outage (`InTime`); the
server's ring is described by the age of its slots as well (`ServerRing`).
*MQTT*: `ClientsAreSafe`. The library's connection is as the state says (`ConnectionFits`),
attempts are those since the registration or the last stable connection (`AttemptsCounted`), a
client always has a timer, an event or a connection that will wake it, and where the timer alone
runs the machine it has one event at most (`OneTimerEvent`).
*Labs*: `LabsAreSafe`. The queue is inductive as it is; in the count exchange a timeout that is
still to be handled was early if anything is under way (`ExchangeInv`).
*Devices*: `DevicesAreSafe`. A chain of readings has its timer, its measurement or its event
(`SensorInv`). The sleepy node's radio, if on, will have been on long enough when the
present mode ends (`WillBeOn`), and it will notify in time as it is configured (`WillNotify`). The LWM2M
server's command, unless something came between, is what the shared variables hold while it is
pending, with nothing sent since; once it is sent they hold it until the answer, and nothing
after it (`ServerInv`, `CommandsKept`). The boards' two properties are inductive together. The
tokens of the Trickle demo are numbers cut to a byte, of a range shorter than half of the bytes
(`TrickleInv`), which is why newer is newer (`NewerIsNewer`).
*6p-packet*: `TestsStayInStep` (`TestSfInv`: the two nodes' cases, by who waits for whom).

**ContikiAppsProof** (any sizes of buffers and rings, any number of requests, commands and losses).
An invariant for each program, which holds from its start and which its own steps keep.
*Web demo* (`WebIsSafe`; a main buffer of three or more, `HttpdAssumption`): `HttpdInv`. A
connection is in the midst of an answer, and then what it sent, what is in the buffer and what
is still to be made are the answer's pieces in order, or it has none. `handle_output` folds
over the chunks of an answer; what the fold gives is found chunk by chunk, by induction over
their number. `AcceptedIsSaved` needs that a change of the configuration is saved at once or has
an event waiting that will save it (`SavedInv`). *Routes* (`RoutesInv`): while one connection
alone makes its page, what its client has got and what the static buffer still holds is the page
as far as the protothread has come, and `blen` says where the line that is not acknowledged
begins.
*Drivers* (`DriversAreSafe`). `CryptoInv`: an operation runs with the keys of the size that was
loaded last and with its own vector's input. `PkaInv`: what each side of the exchange holds, by
how far the test is. `SensniffInv`: what is under way on the line is a row of tagged bytes whose
tags continue the parser's state, and the tags of the commands' ends are what is owed. `SlipInv`:
a packet that is recent enough is less than a ring's length behind (`Behind`). `Uart1Inv`: the
ring's content is a queue, in the order of arrival, and between the characters of the line before
and those to come.
*Scheduling functions* (`CellsAreListedInOrder`; `SixTopAssumption`, `SchedulingAssumption`):
`ListedInv`. As long as the parent's cells stay the same, what the node was told is as much of
them as the offset says (`ToldOf`), and the answer under way is the cell at the offset of the one
request under way. What `Only` keeps of a list is found by induction over the list's length.
*Links* (`LinksAgreeAlways`; the same assumptions): `LinksInv`, which says nothing once the
links are `disturbed`. `LinksAgree` by itself is not inductive: while a response is under way the
two ends differ, and what makes them equal again is in places the frames do not show. So
`TransactionOf` says for each stage of a transaction which timeslots the child sends in and which
its parent listens to: they are equal until the response is delivered, then the child is one cell
ahead (`IsDelivered`), and that cell is the one the parent's callback will find (`CellLeft`). It
is there because a node takes part in one transaction at a time (`Exclusive`), so that no other
request overwrites the buffer or `pending_cell` (`LeftAlone`), and because a timeslot of a node is
of one link (`Orderly`), so that adding and deleting by timeslot touches no other link: a cell
that was free when it was asked for is still free when it is added (`ToAdd`). A step changes the
schedule of one node about one neighbour (`Changes`); the other transactions stand
(`ChangeOthers`).

**Induction.** A lemma may not take an operator here, but it may take a set: `NatInduct` of
`SumTheorems` says that a set with 0 and the successors of its members has all naturals (from
the library's well-foundedness of pairs), which is how sums and recursive functions are reasoned
about.

**Model-checked only.** Liveness, which with `ENABLED` is out of the prover's reach: the
`Termination` of the games and of the MPI programs, `AllHandledThere`, `Progress`, and the
fairness of `GuessRound`. Every invariant and every action property that a passing run checks is
also a theorem.

## 6. Where the code and its documentation disagree

- `atomic_forwarder_first`, `AtomicForwarder.java:57`. The comment at line 32 wants neither
  duplicates nor missing messages after a crash. No `auto.offset.reset` is set, so it is
  `latest`: until the group has committed for the first time, a process that takes over from one
  that crashed starts at the end of the partition, and what the other had polled is missing.
- `per_record_forwarder_loss`, `Lab1/ES3/C2.java:119`. The offsets of the whole batch are sent
  with its first record and committed with it; the second `send` has no transaction and throws.
  The other records of the batch are never forwarded, while the comment at line 118 claims
  end-to-end semantics. `Lab1/ES4/C2.java` has the same loop.
- `temperature_network_once`, `udp-client.c:77`. `sum` and `no` are `static` and never reset:
  from the second outage on the average contains readings of earlier ones, while the README
  speaks of what was batched while disconnected.
- `web_lock`, `httpd-simple.c:110`. The comment at line 107 says that the lock is `NULL` or points
  to the connection that has it. A connection that is closed or aborted in the middle of its POST
  is freed without `lock_release()`, and the lock goes on pointing to its block, so that no
  other connection can have a POST handled unless it is given that block.

Behaviours of the code that the models show and nothing in the repository denies, which is why no
run is about them:

- `lwm2m-ipso-objects/example-server.c`: the discovery of a node's type sets the URI that the user
  may have given to that of the light (line 336); the timer, if it has run out when a line is
  handled, takes the user's target away, so that the URI and the value go to the node at which
  `check_rpl_routes()` ends; a newly discovered node is sent what is left of the request before, at
  first a `PUT` of 1 to its light; a command for a node that has no type and no retries left stays until
  another node takes it; an address that is not valid is reported and used (`serial-protocol.c:90`).
  `check_routes()` names an undeclared `nexthop`, so that the file compiles without `UIP_MAX_ROUTES`
  only. These are the cases that `diverted` sets apart.
- `jn516x/rpl/coap-dr1175-node`: a sensor's change in the first tenth of a second reaches no
  observer, because the process waits for its timer and takes any event.
- `zoul/at-test`: `AT&READ` gives `config_gpio()` the mask of a pin, of which it makes a mask again:
  reading pin 1 makes pin 2 an input, and the pin that is read stays as it was. `PA4` is refused with
  `PA0` to `PA3`; `AT&FLOP` takes 8 and 9 for pins; a hash that fails leaves the engine on.

## 7. What is left out

Of the modelled programs: printing and logging; what a page, a topic or a payload says; float
rounding and the width of integers (the client's static `sum` would wrap after hundreds of
outages on a 16-bit board); `linear_road` with a number of ranks that does not divide 256;
actors that fail in other ways than the code provokes; brokers that lose data, and transactions
of more than one transactional id.

Modelled in part:
- `C2` of exercises 3 and 4: the loops are, what is forwarded is not. The counter of exercise 4
  is created anew with every batch.
- The web servers of the border router and the IP64 router: not the latter's wait for DHCP, nor
  the list of links of non-storing routing, which is made like that of the routes.
- The programs on a serial line: not the frames the sniffer passes on, nor the UART node's
  CoAP PUT, both of which only write to the line; nor the text of AT answers.

Not modelled, because there is nothing for a model to tell: plain actor counters; `BasicConsumer`
and the transactional producer and consumer of the Kafka tutorial (a loop that prints, and a
straight line); programs that send random records or create topics; the timers of `lab/es2`,
which only print; the Spark jobs, declarative pipelines executed by Spark; the Node-RED flows,
configuration of third-party nodes; and the rest of `Contiki-NG/examples`, demonstrations and
tests of one driver, library or CoAP resource each, whose state is that of the driver or the
library, which are not in the repository. Their number is why the definitions stand for
about three tenths of the repository's implementation lines.
