--------------------------------- MODULE TestSf -------------------------------
(***************************************************************************)
(* Contiki-NG/examples/6tisch/6p-packet: two nodes go through a list of    *)
(* 6top transactions.  Each has its own index into the list: the initiator *)
(* goes on when it has the response (and waits for a second), the          *)
(* responder when it has sent its part.  Nothing tells one where the other *)
(* is, and nothing is done about a timeout.                                *)
(***************************************************************************)
EXTENDS Integers, Sequences

CONSTANT Losses   \* how many frames may be lost

\* The transactions: what is asked for, in how many messages, and the answer.
test_add_2_step      == [cmd |-> "ADD",      steps |-> 2, rc |-> "SUCCESS"]
test_add_3_step      == [cmd |-> "ADD",      steps |-> 3, rc |-> "SUCCESS"]
test_delete_2_step   == [cmd |-> "DELETE",   steps |-> 2, rc |-> "SUCCESS"]
test_delete_3_step   == [cmd |-> "DELETE",   steps |-> 3, rc |-> "SUCCESS"]
test_relocate_2_step == [cmd |-> "RELOCATE", steps |-> 2, rc |-> "SUCCESS"]
test_count_2_step    == [cmd |-> "COUNT",    steps |-> 2, rc |-> "SUCCESS"]
test_list_2_step     == [cmd |-> "LIST",     steps |-> 2, rc |-> "SUCCESS"]
test_list_2_step_eol == [cmd |-> "LIST",     steps |-> 2, rc |-> "EOL"]
test_signal_2_step   == [cmd |-> "SIGNAL",   steps |-> 2, rc |-> "SUCCESS"]
test_clear_2_step(rc) == [cmd |-> "CLEAR",   steps |-> 2, rc |-> rc]

ClearCodes == << "SUCCESS", "EOL", "ERR", "RESET", "ERR_VERSION", "ERR_SFID", "ERR_SEQNUM",
                 "ERR_CELLLIST", "ERR_BUSY", "ERR_LOCKED" >>

test_case ==
  << test_add_2_step, test_add_3_step, test_delete_2_step, test_delete_3_step, test_relocate_2_step,
     test_count_2_step, test_list_2_step, test_list_2_step_eol, test_signal_2_step >>
  \o [i \in DOMAIN ClearCodes |-> test_clear_2_step(ClearCodes[i])]

VARIABLES
  test_index,     \* of the initiator and of the responder, from 1
  at,             \* where the initiator's process is
  trans_done,     \* the event test_sf_trans_done is in the queue
  et,             \* its etimer: "running"; "posted" with its event in the queue; "expired"
  trans,          \* the transaction at the initiator: "none", "open" or "confirming"
  served,         \* the transaction at the responder, and whether its response was sent
  frame,          \* the message under way
  lost,           \* how many frames were lost
  slow            \* history: the timer came before trans_done, or the next test before the end
                  \* of a transaction

testVars == <<test_index, at, trans_done, et, trans, served, frame, lost, slow>>

NoFrameYet == [type |-> "none", case |-> 0]

TestSfInit ==
  /\ test_index = [initiator |-> 1, responder |-> 1]
  /\ at = "test" /\ trans_done = FALSE /\ et = "running"
  /\ trans = "none" /\ served = FALSE /\ frame = NoFrameYet
  /\ lost = 0 /\ slow = FALSE

More(who) == test_index[who] <= Len(test_case)
Case(who) == test_case[test_index[who]]

\* The loop runs the test, which sends its request if there is no transaction with the peer.
RunTest ==
  /\ at = "test" /\ More("initiator")
  /\ IF trans # "none" THEN slow' = TRUE /\ UNCHANGED <<trans, frame>>
     ELSE /\ trans' = "open" /\ frame' = [type |-> "request", case |-> test_index.initiator]
          /\ UNCHANGED slow
  /\ at' = "wait_done"
  /\ UNCHANGED <<test_index, trans_done, et, served, lost>>

\* Mutant: the responder waits for a confirmation in any case.
AlwaysAtConfirmation(steps) == "confirmation"

\* The message with which the responder's part of a test is over.
ResponderDoneAt(steps) == IF steps = 2 THEN "request" ELSE "confirmation"

ResponderMoves(type) ==
  test_index' = IF ResponderDoneAt(Case("responder").steps) = type
                THEN [test_index EXCEPT !.responder = @ + 1] ELSE test_index

\* input() at the responder, by its own index: it answers a request and takes a confirmation.
\* The confirmation it takes is acknowledged, and the initiator's transaction over.
ResponderInput ==
  /\ frame.type \in {"request", "confirmation"}
  /\ \/ /\ More("responder") /\ frame.type = "request"
        /\ served' = TRUE /\ frame' = [type |-> "response", case |-> frame.case]
        /\ ResponderMoves("request") /\ UNCHANGED trans
     \/ /\ More("responder") /\ frame.type = "confirmation"
        /\ served' = FALSE /\ frame' = NoFrameYet
        /\ ResponderMoves("confirmation") /\ trans' = "none"
     \/ /\ ~ More("responder")
        /\ frame' = NoFrameYet /\ UNCHANGED <<served, test_index, trans>>
  /\ UNCHANGED <<at, trans_done, et, lost, slow>>

\* input() at the initiator: the response of its transaction, which is over with it, or
\* when the confirmation is acknowledged.  The event is posted in both cases.
InitiatorInput ==
  /\ frame.type = "response"
  /\ IF trans = "open"
     THEN /\ trans_done' = TRUE
          /\ IF Case("initiator").steps = 3
             THEN trans' = "confirming" /\ frame' = [type |-> "confirmation", case |-> frame.case]
             ELSE trans' = "none" /\ frame' = NoFrameYet
     ELSE frame' = NoFrameYet /\ UNCHANGED <<trans_done, trans>>
  /\ UNCHANGED <<test_index, at, et, served, lost, slow>>

\* A frame is lost, or comes after the timeout of a transaction, about which nothing is done.
LoseFrame ==
  /\ frame # NoFrameYet /\ lost < Losses
  /\ lost' = lost + 1 /\ frame' = NoFrameYet /\ trans' = "none" /\ served' = FALSE
  /\ UNCHANGED <<test_index, at, trans_done, et, slow>>

TestTimerExpires ==
  /\ et = "running" /\ at \in {"wait_done", "wait_timer"}
  /\ et' = "posted"
  /\ UNCHANGED <<test_index, at, trans_done, trans, served, frame, lost, slow>>

\* The process gets the timer's event.  Where it waits for the other one, it is over.
TestTimerEvent ==
  /\ et = "posted"
  /\ IF at = "wait_timer"
     THEN /\ et' = "running" /\ at' = "test"
          /\ test_index' = [test_index EXCEPT !.initiator = @ + 1]
          /\ UNCHANGED slow
     ELSE et' = "expired" /\ slow' = TRUE /\ UNCHANGED <<at, test_index>>
  /\ UNCHANGED <<trans_done, trans, served, frame, lost>>

\* trans_done ends the first wait; the second one yields first, and looks at the timer when
\* there is another event.
DoneEvent ==
  /\ trans_done
  /\ trans_done' = FALSE
  /\ at' = IF at = "wait_done" THEN "wait_timer" ELSE at
  /\ UNCHANGED <<test_index, et, trans, served, frame, lost, slow>>

TestEnds == at = "test" /\ ~ More("initiator")

TestSfNext ==
  RunTest \/ ResponderInput \/ InitiatorInput \/ LoseFrame \/ TestTimerExpires \/ TestTimerEvent \/ DoneEvent

(***************************************************************************)
(* Properties                                                              *)
(***************************************************************************)

\* The two indices are kept apart, and a message does not say which test it is of: unless a
\* frame was lost the responder answers a request as the test of the one who asks wants it,
\* also when the confirmation of the test before is still under way.
TestsInStep ==
  lost = 0 /\ frame.type = "request" => test_index.responder = test_index.initiator
=============================================================================
