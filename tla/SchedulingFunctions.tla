------------------------- MODULE SchedulingFunctions --------------------------
(***************************************************************************)
(* The two 6TiSCH scheduling functions, on the 6top protocol of SixTop.    *)
(***************************************************************************)
EXTENDS SixTop

(***************************************************************************)
(* Contiki-NG/examples/6tisch/sixtop: a node asks its time source twice    *)
(* for a link and once to delete one.  The parent changes its schedule     *)
(* when it knows that its response has arrived, from the buffer that       *)
(* holds its last response to anyone.                                      *)
(***************************************************************************)

CONSTANTS
  MaxLinks,    \* SF_SIMPLE_MAX_LINKS
  MaxTicks     \* how often the timer of each child expires

VARIABLES
  added_num_of_links,
  res_storage    \* each node's, from its start; what is not written is 0

sfsVars == <<added_num_of_links, res_storage>>

SfSimpleInit ==
  /\ added_num_of_links = [c \in Children |-> 0]
  /\ res_storage = [n \in Nodes |-> <<>>]

\* The first len cells of the buffer as it is now.
Stored(n, len) == [i \in 1 .. len |-> IF i <= Len(res_storage[n]) THEN res_storage[n][i] ELSE 0]

\* Only the first cell.
add_links_to_schedule(n, opt, peer, cells) ==
  IF cells = <<>> THEN schedule[n] ELSE With(schedule[n], opt, peer, cells[1])

remove_links_to_schedule(n, cells) == Without(schedule[n], ToSet(cells))

\* sf_simple_add_links(peer, 1): as many candidates as fit, free here and different.  The
\* search may give up.
sf_simple_add_links(c) ==
  \/ \E cells \in [1 .. MaxLinks -> Slots] :
       /\ IsInjective(cells)
       /\ \A i \in DOMAIN cells : ~ InUse(c, cells[i])
       /\ Request(c, "ADD", cells)
  \/ UNCHANGED <<asking, request>>

\* The first of the links to send to the peer, if there is one.
sf_simple_remove_links(c) ==
  LET tx == LinksWith(c, "TX", parent[c]) IN
  IF tx = <<>> THEN UNCHANGED <<asking, request>>
  ELSE Request(c, "DELETE", <<CHOOSE s \in ToSet(tx) : \A t \in ToSet(tx) : s <= t>>)

\* A turn of the node's loop.
Tick(c) ==
  /\ CanAsk(c) /\ added_num_of_links[c] < MaxTicks[c]
  /\ added_num_of_links' = [added_num_of_links EXCEPT ![c] = @ + 1]
  /\ CASE added_num_of_links[c] \in {1, 3} -> sf_simple_add_links(c)
       [] added_num_of_links[c] = 5        -> sf_simple_remove_links(c)
       [] OTHER                            -> UNCHANGED <<asking, request>>
  /\ disturbed' = (disturbed \/ (asking'[c] # None /\ Overlaps(c, c)))
  /\ UNCHANGED <<parent, schedule, failures, serving, response, res_storage>>

\* The cells of the list that are free, as many as were asked for (one).
Feasible(n, cells) == Only(cells, {s \in ToSet(cells) : ~ InUse(n, s)})
FirstFeasible(n, cells) == SubSeq(Feasible(n, cells), 1, IF Feasible(n, cells) = <<>> THEN 0 ELSE 1)

\* Without a free cell there is no response.
add_req_input(c) ==
  LET free == FirstFeasible(parent[c], request[c].cells) IN
  /\ request[c].cmd = "ADD"
  /\ res_storage' = [res_storage EXCEPT ![parent[c]] = free]
  /\ IF free # <<>> THEN Respond(c, "SUCCESS", free, "add", Len(free)) ELSE NoResponse(c)

\* The response names the cell if anything uses it here.
delete_req_input(c) ==
  LET used == Only(request[c].cells, {s \in ToSet(request[c].cells) : InUse(parent[c], s)}) IN
  /\ request[c].cmd = "DELETE"
  /\ res_storage' = [res_storage EXCEPT ![parent[c]] = used]
  /\ Respond(c, "SUCCESS", used, "delete", Len(used))

\* input() of a request.
SimpleRequestInput(c) ==
  /\ request[c] # NoRequest
  /\ add_req_input(c) \/ delete_req_input(c)
  /\ request' = [request EXCEPT ![c] = NoRequest]
  /\ disturbed' = (disturbed \/ Overlaps(parent[c], c))
  /\ UNCHANGED <<parent, failures, schedule, asking, added_num_of_links>>

\* input() of a response.
SimpleResponseInput(c) ==
  /\ Takes(c)
  /\ schedule' = [schedule EXCEPT ![c] =
       IF asking[c] = "ADD" THEN add_links_to_schedule(c, "TX", parent[c], response[c].cells)
       ELSE remove_links_to_schedule(c, response[c].cells)]
  /\ UNCHANGED <<disturbed, sfsVars>>

add_response_sent_callback(c) ==
  add_links_to_schedule(parent[c], "RX", c, Stored(parent[c], serving[c].len))
delete_response_sent_callback(c) ==
  remove_links_to_schedule(parent[c], Stored(parent[c], serving[c].len))

\* The response was sent: the parent's schedule follows.
SimpleResponseSent(c) ==
  /\ Sent(c)
  /\ schedule' = IF serving[c] = Idle THEN schedule ELSE
       [schedule EXCEPT ![parent[c]] =
          IF serving[c].callback = "add" THEN add_response_sent_callback(c)
          ELSE delete_response_sent_callback(c)]
  /\ UNCHANGED <<disturbed, sfsVars>>

SfSimpleNext ==
  \E c \in Children :
    \/ Tick(c) \/ SimpleRequestInput(c) \/ SimpleResponseInput(c) \/ SimpleResponseSent(c)
    \/ Trouble(c) /\ UNCHANGED sfsVars

(***************************************************************************)
(* Contiki-NG/examples/6tisch/etsi-plugtest-2017: the scheduling function  *)
(* driven by the commands of a shell: add, delete, count, list and clear.  *)
(*                                                                         *)
(* A LIST request asks for one cell, the one at cell_list_offset; the      *)
(* answer says whether it is the last.                                     *)
(***************************************************************************)

CONSTANTS
  ShellSlots,    \* the timeslots that commands name
  MaxCommands    \* how many commands are given on each node

ASSUME SchedulingAssumption == MaxLinks \in Nat /\ ShellSlots \subseteq Nat

Garbage == -1   \* a cell that was not set

VARIABLES
  commands,
  pending_add,       \* the static pending_cell of each request handler, on each node
  pending_delete,
  cell_list_offset,
  listed,            \* history: the cells each node was told since it asked with offset 0
  moved              \* history: the parent's cells for the node changed since it was asked

sfpVars == <<commands, pending_add, pending_delete, cell_list_offset, listed, moved>>

SfPlugtestInit ==
  /\ commands = [c \in Children |-> 0]
  /\ pending_add = [n \in Nodes |-> 0]
  /\ pending_delete = [n \in Nodes |-> 0]
  /\ cell_list_offset = [c \in Children |-> 0]
  /\ listed = [c \in Children |-> <<>>]
  /\ moved = [c \in Children |-> FALSE]

\* What a parent tells about its cells with c.
Cells(c) == LinksWith(parent[c], "RX", c)

\* A change of the parents' schedules, for the history.
Moves(sched) == moved' = [c \in Children |->
  moved[c] \/ (LinksOf(sched[parent[c]], "RX", c) # LinksOf(schedule[parent[c]], "RX", c))]

clear_cells(n, peer) == Only(schedule[n], {l \in ToSet(schedule[n]) : l.peer # peer})

add_cell(links, opt, peer, s) == With(links, opt, peer, s)
delete_cell(links, s) == Without(links, {s})

\* The cell is added and at once deleted, and with it what used the timeslot.
reserve_cell(c, s) == delete_cell(add_cell(schedule[c], "none", parent[c], s), s)

\* The shell's add and delete.  Only an add reserves.
add_delete(c, cmd, s) ==
  /\ Request(c, cmd, <<s>>)
  /\ schedule' = IF cmd = "ADD" THEN [schedule EXCEPT ![c] = reserve_cell(c, s)] ELSE schedule
  /\ disturbed' = (disturbed \/ Overlaps(c, c) \/ (cmd = "ADD" /\ InUse(c, s)))
  /\ Moves(schedule')
  /\ UNCHANGED <<cell_list_offset, listed>>

count(c) ==
  /\ Request(c, "COUNT", <<>>)
  /\ disturbed' = (disturbed \/ Overlaps(c, c))
  /\ UNCHANGED <<schedule, cell_list_offset, listed, moved>>

\* send_list_req: the offset goes in the request.
list(c) ==
  /\ Request(c, "LIST", <<cell_list_offset[c]>>)
  /\ disturbed' = (disturbed \/ Overlaps(c, c))
  /\ UNCHANGED <<schedule, cell_list_offset, listed, moved>>

clear(c) ==
  /\ Request(c, "CLEAR", <<>>)
  /\ cell_list_offset' = [cell_list_offset EXCEPT ![c] = 0]
  /\ listed' = [listed EXCEPT ![c] = <<>>]
  /\ moved' = [moved EXCEPT ![c] = FALSE]
  /\ disturbed' = (disturbed \/ Overlaps(c, c))
  /\ UNCHANGED schedule

\* Add and delete take a cell; the peer is the time source.
parse_args == [cmd : {"ADD", "DELETE"}, slot : ShellSlots] \cup [cmd : {"COUNT", "LIST", "CLEAR"}]

\* A command is given when the transaction before is over.
shell_subcmd(c) ==
  /\ CanAsk(c) /\ commands[c] < MaxCommands[c]
  /\ commands' = [commands EXCEPT ![c] = @ + 1]
  /\ \E args \in parse_args :
       \/ args.cmd \in {"ADD", "DELETE"} /\ add_delete(c, args.cmd, args.slot)
       \/ args.cmd = "COUNT" /\ count(c)
       \/ args.cmd = "LIST" /\ list(c)
       \/ args.cmd = "CLEAR" /\ clear(c)
  /\ UNCHANGED <<parent, serving, response, failures, pending_add, pending_delete>>

\* Mutant: the owner of the link is not looked at.
OwnerIgnored(n, c, s) == InUse(n, s)

IsLinkOf(n, c, s) == \E i \in DOMAIN schedule[n] : schedule[n][i].slot = s /\ schedule[n][i].peer = c

add_req_handler(c) ==
  LET p == parent[c]  s == request[c].cells[1] IN
  /\ request[c].cmd = "ADD"
  /\ pending_add' = [pending_add EXCEPT ![p] = s]
  /\ IF InUse(p, s) THEN Respond(c, "ERR_BUSY", <<>>, None, 0) ELSE Respond(c, "SUCCESS", <<s>>, "add", 1)
  /\ UNCHANGED <<schedule, pending_delete, moved, listed>>

delete_req_handler(c) ==
  LET p == parent[c]  s == request[c].cells[1] IN
  /\ request[c].cmd = "DELETE"
  /\ pending_delete' = [pending_delete EXCEPT ![p] = s]
  /\ IF IsLinkOf(p, c, s) THEN Respond(c, "SUCCESS", <<s>>, "delete", 1) ELSE Respond(c, "ERR_BUSY", <<>>, None, 0)
  /\ UNCHANGED <<schedule, pending_add, moved, listed>>

\* The number of cells is shown by the one who asked.
count_req_handler(c) ==
  /\ request[c].cmd = "COUNT"
  /\ Respond(c, "SUCCESS", <<Len(Cells(c))>>, None, 0)
  /\ UNCHANGED <<schedule, pending_add, pending_delete, moved, listed>>

\* Mutant: the end of the list is one too far.
EndsAfter(offset, n) == offset = n

EndsAt(offset, n) == offset + 1 = n

\* The cell at the offset; past the end it is not set.
list_req_handler(c) ==
  LET cells == Cells(c)  offset == request[c].cells[1] IN
  /\ request[c].cmd = "LIST"
  /\ IF cells = <<>> THEN Respond(c, "EOL", <<>>, None, 0)
     ELSE Respond(c, IF EndsAt(offset, Len(cells)) THEN "EOL" ELSE "SUCCESS",
                  <<IF offset < Len(cells) THEN cells[offset + 1] ELSE Garbage>>, None, 0)
  /\ IF offset = 0
     THEN moved' = [moved EXCEPT ![c] = FALSE] /\ listed' = [listed EXCEPT ![c] = <<>>]
     ELSE UNCHANGED <<moved, listed>>
  /\ UNCHANGED <<schedule, pending_add, pending_delete>>

\* The cells go before the response does.
clear_req_handler(c) ==
  /\ request[c].cmd = "CLEAR"
  /\ schedule' = [schedule EXCEPT ![parent[c]] = clear_cells(parent[c], c)]
  /\ Moves(schedule')
  /\ Respond(c, "SUCCESS", <<>>, None, 0)
  /\ UNCHANGED <<pending_add, pending_delete, listed>>

\* input() of a request.
PlugtestRequestInput(c) ==
  /\ request[c] # NoRequest
  /\ add_req_handler(c) \/ delete_req_handler(c) \/ count_req_handler(c) \/ list_req_handler(c) \/ clear_req_handler(c)
  /\ request' = [request EXCEPT ![c] = NoRequest]
  /\ disturbed' = (disturbed \/ Overlaps(parent[c], c))
  /\ UNCHANGED <<parent, asking, commands, cell_list_offset, failures>>

\* The response handlers.
add_res_handler(c, s) == IF InUse(c, s) THEN schedule[c] ELSE add_cell(schedule[c], "TX", parent[c], s)
delete_res_handler(c, s) == IF IsLinkOf(c, parent[c], s) THEN delete_cell(schedule[c], s) ELSE schedule[c]
clear_res_handler(c) == clear_cells(c, parent[c])

list_res_handler(c, rc, n) == IF rc = "SUCCESS" THEN cell_list_offset[c] + n ELSE 0

\* input() of a response: an error is only logged.
PlugtestResponseInput(c) ==
  LET cmd == asking[c]  rc == response[c].rc  cells == response[c].cells IN
  /\ Takes(c)
  /\ schedule' = [schedule EXCEPT ![c] =
       CASE cmd = "ADD"    /\ rc = "SUCCESS" -> add_res_handler(c, cells[1])
         [] cmd = "DELETE" /\ rc = "SUCCESS" -> delete_res_handler(c, cells[1])
         [] cmd = "CLEAR"                    -> clear_res_handler(c)
         [] OTHER                            -> @]
  /\ cell_list_offset' = IF cmd = "LIST"
       THEN [cell_list_offset EXCEPT ![c] = list_res_handler(c, rc, Len(cells))] ELSE cell_list_offset
  /\ listed' = IF cmd = "LIST" THEN [listed EXCEPT ![c] = @ \o cells] ELSE listed
  /\ Moves(schedule')
  /\ UNCHANGED <<disturbed, commands, pending_add, pending_delete>>

\* The callbacks of the responses take the cell from where the handler left it.
add_res_sent_callback(c) == add_cell(schedule[parent[c]], "RX", c, pending_add[parent[c]])
delete_res_sent_callback(c) == delete_cell(schedule[parent[c]], pending_delete[parent[c]])

PlugtestResponseSent(c) ==
  /\ Sent(c)
  /\ schedule' = IF serving[c].callback \in {"idle", None} THEN schedule ELSE
       [schedule EXCEPT ![parent[c]] =
          IF serving[c].callback = "add" THEN add_res_sent_callback(c) ELSE delete_res_sent_callback(c)]
  /\ Moves(schedule')
  /\ UNCHANGED <<disturbed, commands, pending_add, pending_delete, cell_list_offset, listed>>

SfPlugtestNext ==
  \E c \in Children :
    \/ shell_subcmd(c) \/ PlugtestRequestInput(c) \/ PlugtestResponseInput(c) \/ PlugtestResponseSent(c)
    \/ Trouble(c) /\ UNCHANGED sfpVars
===============================================================================
