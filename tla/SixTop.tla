--------------------------------- MODULE SixTop -------------------------------
(***************************************************************************)
(* What the scheduling functions of Contiki-NG/examples/6tisch stand on:   *)
(* the schedules of TSCH and the transactions of the 6top protocol, which  *)
(* are the operating system's, modelled from how the examples use them.    *)
(*                                                                         *)
(* Every node but the root asks its parent for changes.  A transaction is  *)
(* the one of a child with its parent: the child's side (asking), the      *)
(* parent's side (serving) and the two frames that may be under way.  A    *)
(* frame is lost, or delivered and acknowledged, or delivered without the  *)
(* sender getting to know it.                                              *)
(***************************************************************************)
EXTENDS Integers, Sequences, SequencesExt

CONSTANTS
  Nodes,
  Trees,      \* the parents of all the nodes but the root, in each network considered
  MaxFailures,   \* how many losses and timeouts there may be
  Slots       \* the timeslots that are not the shared one; TSCH_SCHEDULE_DEFAULT_LENGTH - 1

\* No node is its own parent, nor its parent's: the ranks of RPL grow from parent to child.
ASSUME SixTopAssumption ==
  /\ MaxFailures \in Nat /\ Slots \subseteq Nat \ {0} /\ 0 \notin Nodes
  /\ \A tree \in Trees : \A c \in DOMAIN tree :
       /\ c \in Nodes /\ tree[c] \in Nodes \ {c}
       /\ tree[c] \in DOMAIN tree => tree[tree[c]] # c

None == "none"
NoRequest == [cmd |-> None, cells |-> <<>>]
NoFrame   == [rc |-> None, cells |-> <<>>, delivered |-> FALSE]
Idle      == [callback |-> "idle", len |-> 0]

VARIABLES
  parent,
  failures,   \* how many there were
  schedule,   \* the links of each node, in the order of its list
  asking,     \* each child's transaction: its command
  serving,    \* the parent's transaction with each child: the callback and its argument's length
  request,    \* the request of each child under way
  response,   \* the response to each child under way, and whether it was delivered
  disturbed   \* history: what makes the two ends of a link differ has happened

sixtopVars == <<parent, failures, schedule, asking, serving, request, response, disturbed>>

Children == DOMAIN parent

SharedLink == [slot |-> 0, opt |-> "SHARED", peer |-> 0]

SixTopInit ==
  /\ parent \in Trees
  /\ failures = 0
  /\ schedule = [n \in Nodes |-> <<SharedLink>>]
  /\ asking   = [c \in Children |-> None]
  /\ serving  = [c \in Children |-> Idle]
  /\ request  = [c \in Children |-> NoRequest]
  /\ response = [c \in Children |-> NoFrame]
  /\ disturbed = FALSE

\* What is kept of a list, in its order.
Only(list, kept) ==
  LET only[i \in 0 .. Len(list)] ==
        IF i = 0 THEN <<>>
        ELSE IF list[i] \in kept THEN Append(only[i - 1], list[i]) ELSE only[i - 1]
  IN only[Len(list)]

\* tsch_schedule_get_link_by_timeslot, _remove_link_by_timeslot and _add_link, which
\* replaces the link of the timeslot if there is one.
InUse(n, s)           == \E i \in DOMAIN schedule[n] : schedule[n][i].slot = s
Without(links, cells) == Only(links, {l \in ToSet(links) : l.slot \notin cells})
With(links, opt, peer, s) == Append(Without(links, {s}), [slot |-> s, opt |-> opt, peer |-> peer])

\* The links with a peer, and their timeslots, in the order of the list.
LinksOf(links, opt, peer) == Only(links, {l \in ToSet(links) : l.opt = opt /\ l.peer = peer})
LinksWith(n, opt, peer) ==
  LET links == LinksOf(schedule[n], opt, peer)
  IN [i \in 1 .. Len(links) |-> links[i].slot]

\* The transactions n has a part in, other than c's.
Overlaps(n, c) == \E d \in Children \ {c} :
  (parent[d] = n /\ serving[d] # Idle) \/ (d = n /\ asking[d] # None)

\* sixp_output of a request.
Request(c, cmd, cells) ==
  /\ asking' = [asking EXCEPT ![c] = cmd]
  /\ request' = [request EXCEPT ![c] = [cmd |-> cmd, cells |-> cells]]

\* A child starts a transaction when the one before is over on both sides.
CanAsk(c) == asking[c] = None /\ serving[c] = Idle /\ response[c] = NoFrame

\* sixp_output of a response, with a callback for when it was sent.
Respond(c, rc, cells, callback, len) ==
  /\ serving' = [serving EXCEPT ![c] = [callback |-> callback, len |-> len]]
  /\ response' = [response EXCEPT ![c] = [rc |-> rc, cells |-> cells, delivered |-> FALSE]]

\* The request was received and the scheduling function does not answer.
NoResponse(c) ==
  /\ serving' = [serving EXCEPT ![c] = [callback |-> None, len |-> 0]]
  /\ UNCHANGED response

LoseRequest(c) ==
  /\ request[c] # NoRequest
  /\ request' = [request EXCEPT ![c] = NoRequest]
  /\ UNCHANGED <<parent, schedule, asking, serving, response, disturbed>>

\* A response that is not delivered, or nobody waits for.
LoseResponse(c) ==
  /\ response[c] # NoFrame /\ ~ response[c].delivered
  /\ response' = [response EXCEPT ![c] = NoFrame]
  /\ disturbed' = TRUE
  /\ UNCHANGED <<parent, schedule, asking, serving, request>>

\* The child's part of a transaction that gets its response.
Takes(c) ==
  /\ asking[c] # None
  /\ response[c] # NoFrame /\ ~ response[c].delivered
  /\ response' = [response EXCEPT ![c].delivered = TRUE]
  /\ asking' = [asking EXCEPT ![c] = None]
  /\ UNCHANGED <<parent, serving, request, failures>>

\* The parent learns that its response was delivered; if the transaction is still there its
\* callback is called.
Sent(c) ==
  /\ response[c] # NoFrame /\ response[c].delivered
  /\ response' = [response EXCEPT ![c] = NoFrame]
  /\ serving' = [serving EXCEPT ![c] = Idle]
  /\ UNCHANGED <<parent, asking, request, failures>>

\* The acknowledgement is lost: the callback is called with a failure, and returns.
AckLost(c) ==
  /\ response[c] # NoFrame /\ response[c].delivered
  /\ response' = [response EXCEPT ![c] = NoFrame]
  /\ disturbed' = TRUE
  /\ UNCHANGED <<parent, schedule, asking, serving, request>>

\* A transaction times out on one side.  It does no harm when no response is under way.
TimeoutOf(c) ==
  /\ \/ /\ asking[c] # None
        /\ asking' = [asking EXCEPT ![c] = None] /\ UNCHANGED serving
        /\ disturbed' = (disturbed \/ response[c] # NoFrame \/ request[c] # NoRequest)
     \/ /\ serving[c] # Idle
        /\ serving' = [serving EXCEPT ![c] = Idle] /\ UNCHANGED asking
        /\ disturbed' = (disturbed \/ response[c] # NoFrame)
  /\ UNCHANGED <<parent, schedule, request, response>>

Trouble(c) ==
  /\ LoseRequest(c) \/ LoseResponse(c) \/ AckLost(c) \/ TimeoutOf(c)
  /\ failures < MaxFailures /\ failures' = failures + 1
=============================================================================
