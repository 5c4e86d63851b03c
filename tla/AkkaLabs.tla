------------------------------- MODULE AkkaLabs -------------------------------
(***************************************************************************)
(* The Akka labs: the counter (lab2), the sleeping server (lab4) and the   *)
(* contact lists (lab3 and lab5).                                          *)
(***************************************************************************)
EXTENDS Integers, Sequences, FiniteSets, Actors

(***************************************************************************)
(* com.lab2: the threads of a pool tell a counter to go up and down.  A    *)
(* decrement that comes when it is zero is stashed, and an increment takes *)
(* one back out of the stash.  The names of the two messages are exchanged *)
(* in the code: DecrementMessage goes to onIncrementMessage.               *)
(***************************************************************************)

CONSTANTS numThreads, numMessages

ASSUME StashCounterAssumption == numThreads \in Nat \ {0} /\ numMessages \in Nat

VARIABLES
  submitted,   \* tasks of the pool that a thread has taken
  taken,       \* those of which the thread has not told the counter yet
  waiting,     \* the counter's mailbox
  counter,
  stashed      \* decrements in its stash

counterVars == <<submitted, taken, waiting, counter, stashed>>

Up   == "DecrementMessage"
Down == "IncrementMessage"

\* main's loop submits one of each in turn.
Task(k) == IF k % 2 = 1 THEN Up ELSE Down

CounterInit ==
  /\ submitted = 0 /\ taken = {}
  /\ waiting = <<>> /\ counter = 0 /\ stashed = 0

Take ==
  /\ submitted < 2 * numMessages /\ Cardinality(taken) < numThreads
  /\ submitted' = submitted + 1
  /\ taken' = taken \cup {submitted + 1}
  /\ UNCHANGED <<waiting, counter, stashed>>

TellCounter(k) ==
  /\ k \in taken
  /\ taken' = taken \ {k}
  /\ waiting' = Append(waiting, Task(k))
  /\ UNCHANGED <<submitted, counter, stashed>>

onDecrementMessage ==
  /\ waiting # <<>> /\ Head(waiting) = Down
  /\ waiting' = Tail(waiting)
  /\ \/ counter = 0 /\ stashed' = stashed + 1 /\ UNCHANGED counter
     \/ counter > 0 /\ counter' = counter - 1 /\ UNCHANGED stashed
  /\ UNCHANGED <<submitted, taken>>

TakesOneBack == stashed > 0

onIncrementMessage ==
  /\ waiting # <<>> /\ Head(waiting) = Up
  /\ counter' = counter + 1
  /\ \/ TakesOneBack /\ waiting' = <<Down>> \o Tail(waiting) /\ stashed' = stashed - 1
     \/ ~ TakesOneBack /\ waiting' = Tail(waiting) /\ UNCHANGED stashed
  /\ UNCHANGED <<submitted, taken>>

CounterNext ==
  \/ Take
  \/ \E k \in taken : TellCounter(k)
  \/ onDecrementMessage
  \/ onIncrementMessage

CounterSpec == CounterInit /\ [][CounterNext]_counterVars

(***************************************************************************)
(* Properties                                                              *)
(***************************************************************************)

CounterTypeOK ==
  /\ submitted \in Nat /\ taken \subseteq Nat
  /\ waiting \in Seq({Up, Down})
  /\ counter \in Nat /\ stashed \in Nat

\* A decrement stays in the stash only as long as it would have to wait anyhow: one
\* increment takes one out, which is the next message the counter handles.
StashedOnlyAtZero ==
  stashed > 0 /\ counter > 0 => counter = 1 /\ waiting # <<>> /\ Head(waiting) = Down

\* So none is forgotten: when all messages are handled the counter is where it began.
BackToZero ==
  submitted = 2 * numMessages /\ taken = {} /\ waiting = <<>> => counter = 0 /\ stashed = 0

(***************************************************************************)
(* com.lab4: a server that answers with what it is sent while it is awake, *)
(* and stashes it while it sleeps.  The client passes on what main tells   *)
(* it, and prints what comes from the server.                              *)
(***************************************************************************)

VARIABLES
  reference, \* the client has the server's
  asleep,    \* the server's behaviour
  put_off,   \* its stash
  printed    \* history: what the client printed

serverVars == <<reference, asleep, put_off, printed>>

ServerActors == {"client", "server"}

Message(n, from) == [type |-> "message", number |-> n, from |-> from]
ServerReference  == [type |-> "server"]
SleepMessage     == [type |-> "sleep"]
WakeupMessage    == [type |-> "wakeup"]

ToClient(m) == ToTell("client", m)
Sends(n)    == ToClient(Message(n, "main"))

\* main's script; and one in which the server is woken up and put to sleep twice.
ServerScripts ==
  { << ToClient(ServerReference), Sends(1), Sends(2), ToClient(SleepMessage), Pause, Sends(3), Sends(4), ToClient(WakeupMessage), Pause,
       Sends(5), Sends(6) >>,
    << ToClient(ServerReference), ToClient(WakeupMessage), ToClient(SleepMessage), Sends(1), ToClient(SleepMessage), Sends(2),
       ToClient(WakeupMessage), ToClient(WakeupMessage), Sends(3), ToClient(SleepMessage), Sends(4) >> }

ServerInit ==
  /\ reference = FALSE
  /\ asleep = FALSE
  /\ put_off = <<>>
  /\ printed = <<>>

ClientSetServer ==
  /\ Handles("client", "server") /\ TellsNobody("client")
  /\ reference' = TRUE
  /\ UNCHANGED <<asleep, put_off, printed>>

clientOnMessage ==
  /\ Handles("client", "message") /\ reference
  /\ IF Received("client").from = "server"
     THEN TellsNobody("client") /\ printed' = Append(printed, Received("client").number)
     ELSE Tells("client", "server", Received("client")) /\ UNCHANGED printed
  /\ UNCHANGED <<reference, asleep, put_off>>

clientOnSleepOrWakeup ==
  /\ Handles("client", "sleep") \/ Handles("client", "wakeup")
  /\ reference /\ Tells("client", "server", Received("client"))
  /\ UNCHANGED serverVars

\* A server that sleeps has no case for it: the message is dropped.
onSleepMessage ==
  /\ Handles("server", "sleep") /\ TellsNobody("server")
  /\ asleep' = TRUE
  /\ UNCHANGED <<reference, put_off, printed>>

InOrder == put_off

onWakeupMessage ==
  /\ Handles("server", "wakeup")
  /\ asleep' = FALSE
  /\ \/ asleep /\ Unstashes("server", InOrder) /\ put_off' = <<>>
     \/ ~ asleep /\ TellsNobody("server") /\ UNCHANGED put_off
  /\ UNCHANGED <<reference, printed>>

onMessageStatusWake ==
  /\ Handles("server", "message") /\ ~ asleep
  /\ Tells("server", "client", Message(Received("server").number, "server"))
  /\ UNCHANGED serverVars

onMessageStatusSleep ==
  /\ Handles("server", "message") /\ asleep /\ TellsNobody("server")
  /\ put_off' = Append(put_off, Received("server"))
  /\ UNCHANGED <<reference, asleep, printed>>

ServerStep == onSleepMessage \/ onWakeupMessage \/ onMessageStatusWake \/ onMessageStatusSleep

ServerActorStep == ClientSetServer \/ clientOnMessage \/ clientOnSleepOrWakeup \/ ServerStep

(***************************************************************************)
(* Properties                                                              *)
(***************************************************************************)

\* The client prints the messages 1, 2, 3 ... in the order in which main told them, over
\* any number of naps, and only what the server has put off when it fell asleep for good is
\* missing in the end.
AnsweredInOrder ==
  /\ \A i \in DOMAIN printed : printed[i] = i
  /\ AllTold /\ AtRest /\ ~ asleep => put_off = <<>> /\ Len(printed) = 6
  /\ AllTold /\ AtRest /\ asleep => Len(printed) + Len(put_off) = 4

(***************************************************************************)
(* com.lab3 and com.lab5: a client puts names and addresses into a contact *)
(* list, and asks for them; an ask that gets no answer in half a second    *)
(* throws.  What an exception does to an actor is its supervisor's matter: *)
(* in lab5 the list's resumes it; otherwise the system restarts an actor,  *)
(* whose fields begin anew.                                                *)
(***************************************************************************)

VARIABLES
  lab,        \* which of the two it is
  server,     \* the client has its reference
  contacts,   \* of the list: a set of pairs
  asked,      \* the name for which the client waits, blocked
  answer,     \* the list's, if it has come
  passed_on,  \* history: what the client has told the list to put
  prints      \* history: the answers the client printed, and those that were due

contactVars == <<lab, server, contacts, asked, answer, passed_on, prints>>

ContactActors == {"client", "contact"}

PutMessage(n, e) == [type |-> "put", name |-> n, email |-> e]
GetMessage(n)    == [type |-> "get", name |-> n]
ReferenceMessage == [type |-> "server"]
Nothing          == "nothing"

Puts(n, e) == ToTell("client", PutMessage(n, e))
Gets(n)    == ToTell("client", GetMessage(n))

\* main's of lab5, which has lab3's in it; and one that asks for a name that is not there.
ContactScripts ==
  LET Start == << ToTell("client", ReferenceMessage), Puts("sacca", "a"), Puts("spanga", "b") >> IN
  { Start \o << Gets("sacca"), Gets("spanga"), Puts("Fail", "a"), Gets("sacca"), Gets("spanga") >>,
    Start \o << Gets("spanga"), Gets("other"), Puts("sacca", "c"), Gets("sacca") >> }

ContactInit ==
  /\ lab \in {"lab3", "lab5"}
  /\ server = FALSE
  /\ contacts = {} /\ passed_on = {}
  /\ asked = Nothing /\ answer = Nothing
  /\ prints = <<>>

Put(list, m) == {c \in list : c[1] # m.name} \cup {<<m.name, m.email>>}

\* contacts.get(), and what a list that does not find the name answers.
Found(list, n) ==
  IF \E e \in {"a", "b", "c"} : <<n, e>> \in list
  THEN CHOOSE e \in {"a", "b", "c"} : <<n, e>> \in list
  ELSE "NON TROVATO"

ClientFree == asked = Nothing

setServer ==
  /\ ClientFree /\ Handles("client", "server") /\ TellsNobody("client")
  /\ server' = TRUE
  /\ UNCHANGED <<lab, contacts, asked, answer, passed_on, prints>>

\* Without the reference it throws, and the message is gone.
ClientOnPut ==
  /\ ClientFree /\ Handles("client", "put")
  /\ \/ server /\ Tells("client", "contact", Received("client")) /\ passed_on' = Put(passed_on, Received("client"))
     \/ ~ server /\ TellsNobody("client") /\ UNCHANGED passed_on
  /\ UNCHANGED <<lab, server, contacts, asked, answer, prints>>

ClientOnGet ==
  /\ ClientFree /\ Handles("client", "get")
  /\ \/ server /\ Tells("client", "contact", Received("client")) /\ asked' = Received("client").name
     \/ ~ server /\ TellsNobody("client") /\ UNCHANGED asked
  /\ answer' = Nothing
  /\ UNCHANGED <<lab, server, contacts, passed_on, prints>>

IsAnswered ==
  /\ ~ ClientFree /\ answer # Nothing
  /\ prints' = Append(prints, [answer |-> answer, due |-> Found(passed_on, asked)])
  /\ asked' = Nothing
  /\ UNCHANGED <<actorVars, lab, server, contacts, answer, passed_on>>

\* Nobody catches the exception: the client is restarted, without the reference it was
\* once told.
AskTimesOut ==
  /\ ~ ClientFree /\ answer = Nothing
  /\ asked' = Nothing /\ server' = FALSE
  /\ UNCHANGED <<actorVars, lab, contacts, answer, passed_on, prints>>

Supervised(list) == IF lab = "lab5" THEN list ELSE {}

ContactOnPut ==
  /\ Handles("contact", "put") /\ TellsNobody("contact")
  /\ contacts' = IF lab = "lab5" /\ Received("contact").name = "Fail"
                 THEN Supervised(contacts) ELSE Put(contacts, Received("contact"))
  /\ UNCHANGED <<lab, server, asked, answer, passed_on, prints>>

\* lab3's list would answer with null, which throws.  An answer that comes too late is lost.
ContactOnGet ==
  /\ Handles("contact", "get") /\ TellsNobody("contact")
  /\ LET email == Found(contacts, Received("contact").name) IN
       IF lab = "lab3" /\ email = "NON TROVATO"
       THEN contacts' = Supervised(contacts) /\ UNCHANGED answer
       ELSE answer' = (IF ClientFree THEN answer ELSE email) /\ UNCHANGED contacts
  /\ UNCHANGED <<lab, server, asked, passed_on, prints>>

ListStep == ContactOnPut \/ ContactOnGet

ContactActorStep ==
  \/ setServer \/ ClientOnPut \/ ClientOnGet \/ IsAnswered \/ AskTimesOut
  \/ ListStep

(***************************************************************************)
(* Properties                                                              *)
(***************************************************************************)

\* Whatever throws, the client prints what it had put itself before it asked, or that it
\* had put nothing; and a client that can still reach the list finds there all that it put.
ContactsFound ==
  /\ \A i \in DOMAIN prints : prints[i].answer = prints[i].due
  /\ server /\ ClientFree /\ mailbox["contact"] = <<>> =>
       \A c \in passed_on : c[1] # "Fail" => c \in contacts
===============================================================================
