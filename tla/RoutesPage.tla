------------------------------ MODULE RoutesPage ------------------------------
(***************************************************************************)
(* The web servers of the border router (rpl-border-router/webserver) and  *)
(* of the IP64 router (zoul/orion/ip64-router): one page, the neighbors    *)
(* and the routes, written segment by segment into one static buffer by    *)
(* the output threads of all connections, which also share the static      *)
(* pointers nbr and r (here: route).  "Multiple connections can result in  *)
(* interleaved tcp segments since a single static buffer is used for all   *)
(* segments."  uIP, its protosockets and the neighbor and route tables are *)
(* external; the tables do not change.                                     *)
(***************************************************************************)
EXTENDS Integers, Sequences

CONSTANTS
  RouteRequests,   \* bound: connections in all
  RouteTroubles    \* bound: lost segments and connections

ASSUME RoutesAssumption == RouteRequests \in Nat /\ RouteTroubles \in Nat

Neighbors == <<"n1", "n2">>
Routes == <<"r1">>

\* A connection of the pool, and the pool's size.
Pool == 1 .. 2
NoPointer == 0

VARIABLES
  router,         \* "border" or "ip64"
  http,           \* the pool of connections
  buf,            \* what the static buffer holds
  blen,           \* where ADD goes on in it
  nbr, route,     \* the static pointers, as places in the lists
  asked,          \* connections so far
  segments_lost,  \* segments and connections that were lost
  cut_off,        \* history: a page was cut off, and nothing has emptied the buffer since
  mixed           \* history: connections whose page was not made alone

routesVars == <<router, http, buf, blen, nbr, route, asked, segments_lost, cut_off, mixed>>

\* at is the segment that waits for its acknowledgement, sendlen its length, wire what was
\* sent of it last, got what the client has (which is not kept of mixed pages).
Free == [phase |-> "free", at |-> "none", sendlen |-> 0, wire |-> <<>>, got |-> <<>>]

RoutesInit ==
  /\ router \in {"border", "ip64"}
  /\ http = [s \in Pool |-> Free]
  /\ buf = <<>> /\ blen = 0 /\ nbr = NoPointer /\ route = NoPointer
  /\ asked = 0 /\ segments_lost = 0 /\ cut_off = FALSE /\ mixed = {}

(***************************************************************************)
(* generate_routes: what it does from one SEND_STRING to the next          *)
(***************************************************************************)

First(list) == IF list = <<>> THEN NoPointer ELSE 1
After(list, k) == IF k = NoPointer \/ k = Len(list) THEN NoPointer ELSE k + 1

\* ADD: the text is written at blen; what was behind it stays there.
Added(memory, length, pieces) ==
  SubSeq(memory, 1, length) \o pieces \o SubSeq(memory, length + Len(pieces) + 1, Len(memory))

\* blen when the acknowledgement of segment "at" has come.  TOP and BOTTOM are not in the
\* buffer; the IP64 router empties it after TOP as well, and not at the end.
Emptied(at) ==
  CASE at \in {"headers", "bottom"} -> blen
    [] at = "top"    -> IF router = "ip64" THEN 0 ELSE blen
    [] at = "footer" -> IF router = "ip64" THEN blen ELSE 0
    [] OTHER         -> 0

\* The segment is sent, from the buffer or, for "top" and "bottom", from a constant.
Transmits(c, at, memory, length) ==
  [c EXCEPT !.at = at, !.sendlen = length, !.wire = SubSeq(memory, 1, length)]

SendConstant(s, c, at) ==
  /\ http' = [http EXCEPT ![s] = Transmits(c, at, <<at>>, 1)]
  /\ buf' = buf /\ blen' = Emptied(c.at)

SendBuffer(s, c, at, pieces) ==
  LET memory == Added(buf, Emptied(c.at), pieces)
      length == Emptied(c.at) + Len(pieces)
  IN /\ buf' = memory /\ blen' = length
     /\ http' = [http EXCEPT ![s] = Transmits(c, at, memory, length)]

\* The border router: a segment for each line.  A pointer is set or moved on when the
\* segment before is acknowledged.
BorderGoesOn(s, c) ==
  LET n == IF c.at = "neighbors header" THEN First(Neighbors) ELSE After(Neighbors, nbr)
      t == IF c.at = "routes header" THEN First(Routes) ELSE After(Routes, route)
  IN \/ c.at = "headers" /\ SendConstant(s, c, "top") /\ UNCHANGED <<nbr, route>>
     \/ c.at = "top" /\ SendBuffer(s, c, "neighbors header", <<"Neighbors">>) /\ UNCHANGED <<nbr, route>>
     \/ /\ c.at \in {"neighbors header", "a neighbor"} /\ nbr' = n /\ route' = route
        /\ IF n # NoPointer THEN SendBuffer(s, c, "a neighbor", <<Neighbors[n]>>)
           ELSE SendBuffer(s, c, "neighbors footer", <<"/">>)
     \/ c.at = "neighbors footer" /\ SendBuffer(s, c, "routes header", <<"Routes">>) /\ UNCHANGED <<nbr, route>>
     \/ /\ c.at \in {"routes header", "a route"} /\ route' = t /\ nbr' = nbr
        /\ IF t # NoPointer THEN SendBuffer(s, c, "a route", <<Routes[t]>>)
           ELSE SendBuffer(s, c, "footer", <<"/">>)
     \/ c.at = "footer" /\ SendConstant(s, c, "bottom") /\ UNCHANGED <<nbr, route>>

\* Pieces of the page in the IP64 router's buffer from which on a line fills it.
IsFull == 2

\* The IP64 router: neighbors are added until the buffer is full; `from` is the next one.
Ip64Neighbors(s, c, before, from) ==
  LET space == IsFull - Emptied(c.at) - Len(before)
      left  == IF from = NoPointer THEN <<>> ELSE SubSeq(Neighbors, from, Len(Neighbors))
      fit   == IF space > 1 THEN space ELSE 1
      lines == SubSeq(left, 1, IF fit < Len(left) THEN fit ELSE Len(left))
      full  == left # <<>> /\ Emptied(c.at) + Len(before) + Len(lines) >= IsFull
  IN IF full
     THEN /\ SendBuffer(s, c, "a neighbor", before \o lines)
          /\ nbr' = from + Len(lines) - 1
     ELSE /\ SendBuffer(s, c, "routes header", before \o left \o <<"/", "Routes">>)
          /\ nbr' = NoPointer

Ip64GoesOn(s, c) ==
  LET t == IF c.at = "routes header" THEN First(Routes) ELSE After(Routes, route)
  IN \/ c.at = "headers" /\ SendConstant(s, c, "top") /\ UNCHANGED <<nbr, route>>
     \/ c.at = "top" /\ Ip64Neighbors(s, c, <<"Neighbors">>, First(Neighbors)) /\ route' = route
     \/ c.at = "a neighbor" /\ Ip64Neighbors(s, c, <<>>, After(Neighbors, nbr)) /\ route' = route
     \/ /\ c.at \in {"routes header", "a route"} /\ route' = t /\ nbr' = nbr
        /\ IF t # NoPointer THEN SendBuffer(s, c, "a route", <<Routes[t]>>)
           ELSE SendBuffer(s, c, "footer", <<"/">>)
     \/ c.at = "footer" /\ SendConstant(s, c, "bottom") /\ UNCHANGED <<nbr, route>>

(***************************************************************************)
(* httpd_appcall                                                           *)
(***************************************************************************)

\* The pool's first free block; without one the connection is aborted.
RoutesConnected ==
  /\ asked < RouteRequests /\ asked' = asked + 1
  /\ \E s \in Pool :
       /\ http[s].phase = "free" /\ \A t \in 1 .. s - 1 : http[t].phase # "free"
       /\ http' = [http EXCEPT ![s] = [Free EXCEPT !.phase = "reading"]]
       /\ mixed' = mixed \ {s}
  /\ UNCHANGED <<router, buf, blen, nbr, route, segments_lost, cut_off>>

Making == {s \in Pool : http[s].phase = "output"}

\* A GET of any path gets the page; what is not understood is closed.
RequestRead(s) ==
  /\ http[s].phase = "reading"
  /\ \/ /\ http' = [http EXCEPT ![s] = [Transmits(@, "headers", <<>>, 0) EXCEPT !.phase = "output"]]
        /\ mixed' = IF Making # {} THEN mixed \cup Making \cup {s}
                    ELSE IF cut_off /\ router = "border" THEN mixed \cup {s} ELSE mixed
     \/ /\ http' = [http EXCEPT ![s] = Free]
        /\ UNCHANGED mixed
  /\ UNCHANGED <<router, buf, blen, nbr, route, asked, segments_lost, cut_off>>

\* The segment is acknowledged: the thread goes on to the next SEND_STRING.
Acked(s) ==
  /\ http[s].phase = "output" /\ http[s].at # "bottom"
  /\ LET c == [http[s] EXCEPT !.got = IF s \in mixed THEN <<>> ELSE @ \o http[s].wire] IN
       IF router = "border" THEN BorderGoesOn(s, c) ELSE Ip64GoesOn(s, c)
  /\ cut_off' = (cut_off /\ blen' # 0 /\ Emptied(http[s].at) # 0)
  /\ UNCHANGED <<router, asked, segments_lost, mixed>>

\* PSOCK_CLOSE.
PageSent(s) ==
  /\ http[s].phase = "output" /\ http[s].at = "bottom"
  /\ LET got == IF s \in mixed THEN <<>> ELSE http[s].got \o http[s].wire IN
       http' = [http EXCEPT ![s] = [http[s] EXCEPT !.phase = "closing", !.got = got]]
  /\ UNCHANGED <<router, buf, blen, nbr, route, asked, segments_lost, cut_off, mixed>>

\* The protosocket sends the segment again: as many bytes of what the buffer holds now.
Retransmitted(s) ==
  /\ http[s].phase = "output" /\ http[s].at \notin {"headers", "top", "bottom"}
  /\ segments_lost < RouteTroubles /\ segments_lost' = segments_lost + 1
  /\ http' = [http EXCEPT ![s].wire = SubSeq(buf, 1, http[s].sendlen)]
  /\ UNCHANGED <<router, buf, blen, nbr, route, asked, cut_off, mixed>>

RoutesClosed(s) ==
  /\ http[s].phase = "closing"
  /\ http' = [http EXCEPT ![s] = Free]
  /\ UNCHANGED <<router, buf, blen, nbr, route, asked, segments_lost, cut_off, mixed>>

\* Closed by the client, aborted, or ten seconds without an answer.
RoutesLost(s) ==
  /\ http[s].phase \in {"reading", "output"}
  /\ segments_lost < RouteTroubles /\ segments_lost' = segments_lost + 1
  /\ cut_off' = (cut_off \/ http[s].phase = "output")
  /\ http' = [http EXCEPT ![s] = Free]
  /\ UNCHANGED <<router, buf, blen, nbr, route, asked, mixed>>

RoutesNext ==
  \/ RoutesConnected
  \/ \E s \in Pool :
       RequestRead(s) \/ Acked(s) \/ PageSent(s) \/ Retransmitted(s) \/ RoutesClosed(s) \/ RoutesLost(s)

(***************************************************************************)
(* Properties                                                              *)
(***************************************************************************)

WholePage ==
  <<"top", "Neighbors">> \o Neighbors \o <<"/", "Routes">> \o Routes \o <<"/", "bottom">>

\* A page that is made alone -- and, at the border router, not after one that was cut off,
\* whose last line is still in the buffer -- reaches its client whole, each neighbor and
\* each route once and in order, whatever was sent again.
RoutesWhole ==
  \A s \in Pool : s \notin mixed =>
    /\ \E n \in 0 .. Len(WholePage) : http[s].got = SubSeq(WholePage, 1, n)
    /\ http[s].phase = "closing" => http[s].got = WholePage
===============================================================================
