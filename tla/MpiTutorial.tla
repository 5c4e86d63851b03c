----------------------------- MODULE MpiTutorial ------------------------------
(***************************************************************************)
(* The programs of MPI/NSDS_MPI_tutorial: the letter count, the filter,    *)
(* and the short ones.                                                     *)
(***************************************************************************)
EXTENDS Mpi, SequencesExt, FiniteSetsExt

(***************************************************************************)
(* MPI/NSDS_MPI_tutorial/src/char_count.c: every rank counts the letters   *)
(* of its own file, then the ranks go through the alphabet.  The owner of  *)
(* a letter receives a partial count from every other rank, from anyone    *)
(* and with any tag; the others send theirs with MPI_Isend and go on.      *)
(*                                                                         *)
(* A count is the set of the partial counts it adds up, each named by the  *)
(* rank whose file it is of and by its letter.                             *)
(***************************************************************************)

CONSTANT NumLetters   \* num_letters

ASSUME LettersAssumption == NumLetters \in Nat \ {0}

Letters == 0 .. NumLetters - 1

\* What is read from memory that was freed.
Freed == <<-1, -1>>

VARIABLES
  letter,       \* i, the letter each rank is at; NumLetters after the loop
  partials,     \* p, the messages each rank has received for its present letter
  local_count,
  isends        \* the letters of the messages under way, from each rank to each rank

charVars == <<letter, partials, local_count, isends>>

CharInit ==
  /\ letter = [r \in Procs |-> 0]
  /\ partials = [r \in Procs |-> 0]
  /\ local_count = [r \in Procs |-> [l \in Letters |-> {<<r, l>>}]]
  /\ isends = NoMessages

\* Mutant: the alphabet in blocks.
BlockOwner(l) == l \div ((NumLetters + NumProcs - 1) \div NumProcs)

LetterOwner(l) == l % NumProcs

AtOwnLetter(r) == letter[r] < NumLetters /\ LetterOwner(letter[r]) = r

\* What the message from s about letter l holds when it is taken.  A library that does not
\* buffer reads the memory of s, which s frees after the loop without an MPI_Wait.
Taken(s, l) == IF ~ eager /\ letter[s] = NumLetters THEN {Freed} ELSE local_count[s][l]

Expected == NumProcs - 1

ReceivePartial(r, s) ==
  /\ AtOwnLetter(r) /\ partials[r] < Expected
  /\ isends[s][r] # <<>>
  /\ local_count' = [local_count EXCEPT ![r][letter[r]] = @ \cup Taken(s, Head(isends[s][r]))]
  /\ isends' = [isends EXCEPT ![s][r] = Tail(@)]
  /\ partials' = [partials EXCEPT ![r] = @ + 1]
  /\ UNCHANGED letter

\* The receive loop is over.
LetterSummed(r) ==
  /\ AtOwnLetter(r) /\ partials[r] = Expected
  /\ letter' = [letter EXCEPT ![r] = @ + 1]
  /\ partials' = [partials EXCEPT ![r] = 0]
  /\ UNCHANGED <<local_count, isends>>

SendPartial(r) ==
  /\ letter[r] < NumLetters /\ LetterOwner(letter[r]) # r
  /\ isends' = [isends EXCEPT ![r][LetterOwner(letter[r])] = Append(@, letter[r])]
  /\ letter' = [letter EXCEPT ![r] = @ + 1]
  /\ UNCHANGED <<partials, local_count>>

CharStep(r) == (\E s \in Procs : ReceivePartial(r, s)) \/ LetterSummed(r) \/ SendPartial(r)

CharDone == \A r \in Procs : letter[r] = NumLetters

CharNext == \E r \in Procs : CharStep(r)

(***************************************************************************)
(* Properties                                                              *)
(***************************************************************************)

CharTypeOK ==
  /\ letter \in [Procs -> 0 .. NumLetters]
  /\ partials \in [Procs -> 0 .. Expected]
  /\ \A r \in Procs, l \in Letters :
       local_count[r][l] \subseteq (Procs \X Letters) \cup {Freed}
  /\ \A s, r \in Procs : \A i \in DOMAIN isends[s][r] : isends[s][r][i] \in Letters

\* The receive takes a message of any rank with any tag, and nothing in it says which
\* letter it is about to the code that adds it up: all the same no letter gets the count
\* of another one.  (A rank passes a letter of its own between two letters of the same
\* owner, and for that it needs a message which that owner sends after the first of them.)
LettersNotMixed ==
  \A l \in Letters : \A t \in local_count[LetterOwner(l)][l] : t # Freed => t[2] = l

\* Every rank frees its counts while messages with them may be under way.  Only the counts
\* of the last letters, one fewer than there are ranks, can be read after that; the total
\* of any other letter is that of all the files when its owner leaves it.
EarlyLettersExact ==
  \A l \in Letters :
    letter[LetterOwner(l)] > l /\ (eager \/ l <= NumLetters - NumProcs) =>
      local_count[LetterOwner(l)][l] = Procs \X {l}

(***************************************************************************)
(* MPI/NSDS_MPI_tutorial/src/filter.c: the workers send to the master how  *)
(* many multiples of a number they have, and then the multiples.  The      *)
(* master adds the counts up to allocate its buffer, and fills it with     *)
(* whatever it probes.  A message is a sequence of integers.               *)
(***************************************************************************)

CONSTANTS
  NumElements,   \* num_elements_per_proc
  ElementValues, \* the values of the elements, those below max_val
  FilterBy       \* num_to_filter_by

ASSUME FilterAssumption ==
  NumElements \in Nat \ {0} /\ ElementValues \subseteq Nat /\ FilterBy \in Nat \ {0}

Workers == Procs \ {0}
Nobody  == -1

VARIABLES
  stage,       \* where each rank is
  local_array,
  toMaster,    \* the messages under way from each rank to the master
  proc,        \* the rank whose count the master waits for
  num_receive,
  out_size,
  status,      \* the source of the message probed last; Nobody when it is received
  result

filterVars == <<stage, local_array, toMaster, proc, num_receive, out_size, status, result>>

FilterInit ==
  /\ stage = [r \in Procs |-> IF r = 0 THEN "bcast" ELSE "create"]
  /\ local_array = [r \in Workers |-> <<>>]
  /\ toMaster = [r \in Workers |-> <<>>]
  /\ proc = 1 /\ num_receive = 0 /\ out_size = 0 /\ status = Nobody /\ result = <<>>

IsMultiple(v) == v % FilterBy = 0

get_num_multiples(in) == Cardinality({i \in DOMAIN in : IsMultiple(in[i])})

\* The loop over the array: what it has found after i turns.
get_multiples(in) ==
  LET Found[i \in 0 .. Len(in)] ==
        IF i = 0 THEN <<>> ELSE IF IsMultiple(in[i]) THEN Append(Found[i - 1], in[i]) ELSE Found[i - 1]
  IN Found[Len(in)]

CreateArray(r) ==
  /\ stage[r] = "create"
  /\ \E arr \in [1 .. NumElements -> ElementValues] : local_array' = [local_array EXCEPT ![r] = arr]
  /\ stage' = [stage EXCEPT ![r] = "bcast"]
  /\ UNCHANGED <<toMaster, proc, num_receive, out_size, status, result>>

\* MPI_Bcast: nobody leaves before the root enters.
LeaveBcast(r) ==
  /\ stage[r] = "bcast"
  /\ r # 0 => stage[0] # "bcast"
  /\ stage' = [stage EXCEPT ![r] = IF r = 0 THEN "counts" ELSE "send_count"]
  /\ UNCHANGED <<local_array, toMaster, proc, num_receive, out_size, status, result>>

AfterCount(r) == IF get_num_multiples(local_array[r]) > 0 THEN "send_array" ELSE "barrier"

\* MPI_Send of the count, and of the array.
FilterPost(r) ==
  /\ \/ /\ stage[r] = "send_count"
        /\ toMaster' = [toMaster EXCEPT ![r] = Append(@, <<get_num_multiples(local_array[r])>>)]
        /\ stage' = [stage EXCEPT ![r] = IF eager THEN AfterCount(r) ELSE "count_posted"]
     \/ /\ stage[r] = "send_array"
        /\ toMaster' = [toMaster EXCEPT ![r] = Append(@, get_multiples(local_array[r]))]
        /\ stage' = [stage EXCEPT ![r] = IF eager THEN "barrier" ELSE "array_posted"]
  /\ UNCHANGED <<local_array, proc, num_receive, out_size, status, result>>

FilterSendReturns(r) ==
  /\ stage[r] \in {"count_posted", "array_posted"} /\ toMaster[r] = <<>>
  /\ stage' = [stage EXCEPT ![r] = IF @ = "count_posted" THEN AfterCount(r) ELSE "barrier"]
  /\ UNCHANGED <<local_array, toMaster, proc, num_receive, out_size, status, result>>

\* The messages to come, after a count of n.
MessagesToCome(n) == IF n > 0 THEN num_receive + 1 ELSE num_receive

\* After the last count: without results there is no buffer, and nothing to receive.
ReceiveCount ==
  /\ stage[0] = "counts" /\ toMaster[proc] # <<>>
  /\ LET n == Head(Head(toMaster[proc])) IN
       /\ out_size' = out_size + n
       /\ num_receive' = MessagesToCome(n)
  /\ toMaster' = [toMaster EXCEPT ![proc] = Tail(@)]
  /\ proc' = proc + 1
  /\ stage' = [stage EXCEPT ![0] =
       IF proc + 1 < NumProcs THEN "counts" ELSE IF num_receive' > 0 THEN "results" ELSE "barrier"]
  /\ UNCHANGED <<local_array, status, result>>

\* MPI_Probe(MPI_ANY_SOURCE): there may be several.
FilterProbe ==
  /\ stage[0] = "results" /\ status = Nobody
  /\ \E r \in Workers : toMaster[r] # <<>> /\ status' = r
  /\ UNCHANGED <<stage, local_array, toMaster, proc, num_receive, out_size, result>>

\* MPI_Get_count and MPI_Recv of the message that was probed.
ReceiveResults ==
  /\ stage[0] = "results" /\ status # Nobody
  /\ result' = result \o Head(toMaster[status])
  /\ toMaster' = [toMaster EXCEPT ![status] = Tail(@)]
  /\ num_receive' = num_receive - 1
  /\ status' = Nobody
  /\ stage' = [stage EXCEPT ![0] = IF num_receive = 1 THEN "barrier" ELSE "results"]
  /\ UNCHANGED <<local_array, proc, out_size>>

LeaveFilter(r) ==
  /\ stage[r] = "barrier"
  /\ \A q \in Procs : stage[q] \in {"barrier", "done"}
  /\ stage' = [stage EXCEPT ![r] = "done"]
  /\ UNCHANGED <<local_array, toMaster, proc, num_receive, out_size, status, result>>

FilterStep(r) == LeaveBcast(r) \/ LeaveFilter(r)
FilterWorker(r) == CreateArray(r) \/ FilterPost(r) \/ FilterSendReturns(r)
FilterMaster == ReceiveCount \/ FilterProbe \/ ReceiveResults

FilterDone == \A r \in Procs : stage[r] = "done"

FilterNext == (\E r \in Procs : FilterStep(r)) \/ (\E r \in Workers : FilterWorker(r)) \/ FilterMaster

(***************************************************************************)
(* Properties                                                              *)
(***************************************************************************)

FilterTypeOK ==
  /\ stage \in [Procs -> {"create", "bcast", "send_count", "count_posted", "send_array",
                          "array_posted", "counts", "results", "barrier", "done"}]
  /\ \A r \in Workers : local_array[r] = <<>> \/ local_array[r] \in [1 .. NumElements -> ElementValues]
  /\ proc \in 1 .. NumProcs /\ num_receive \in 0 .. NumProcs - 1
  /\ out_size \in Nat /\ status \in Workers \cup {Nobody}

Occurrences(s, v) == Cardinality({i \in DOMAIN s : s[i] = v})

\* The counts and the arrays come through receives that match any message of a rank, in
\* whatever order the ranks get there: the array is never written past the size the counts
\* announced, and what the master has at the end is every multiple in any of the arrays,
\* as many times as it is there, and nothing else.
FilterResult ==
  /\ Len(result) <= out_size \/ stage[0] = "counts"
  /\ stage[0] \in {"barrier", "done"} =>
       /\ Len(result) = out_size
       /\ \A v \in ElementValues :
            Occurrences(result, v) =
              IF IsMultiple(v) THEN SumFunctionOnSet([r \in Workers |-> Occurrences(local_array[r], v)], Workers)
              ELSE 0

(***************************************************************************)
(* The short programs of MPI/NSDS_MPI_tutorial/src and the Monte Carlo     *)
(* program of the lab, as the MPI calls that each of their ranks makes in  *)
(* order.  A call is its name and the rank it names.                       *)
(***************************************************************************)

CONSTANT TotMsgs   \* tot_msgs of ping_pong.c

ASSUME TotMsgsAssumption == TotMsgs \in Nat

VARIABLES
  program,
  call,      \* how many calls of its program each rank has made
  number,    \* num_msgs, num_hops or the message of each rank
  posted,    \* the ranks inside a call that has sent its message
  channel    \* the numbers under way from each rank to each rank

progVars == <<program, call, number, posted, channel>>

Anyone == -1

\* The programs for two processes, where the other rank is 1 - my_rank.
Pairs == {"deadlock", "deadlock_avoid_isend", "deadlock_avoid_sendrecv", "ping_pong", "probe"}
Programs == Pairs \cup {"recv", "ring", "hello_world", "average", "monte_carlo"}

\* The two that are meant to hang.
Hanging == {"deadlock", "recv"}

World == IF program \in Pairs THEN {0, 1} ELSE Procs
Other(r) == 1 - r

ProgInit ==
  /\ program \in Programs
  /\ call = [r \in Procs |-> 0]
  /\ number = [r \in Procs |-> 0]
  /\ posted = {}
  /\ channel = NoMessages

deadlock(r) == << <<"ssend", Other(r)>>, <<"recv", Other(r)>> >>

deadlock_avoid_isend(r) == << <<"isend", Other(r)>>, <<"recv", Other(r)>>, <<"wait", Other(r)>> >>

\* MPI_Sendrecv sends and receives at once.
deadlock_avoid_sendrecv(r) ==
  << <<"isend", Other(r)>>, <<"recv", Anyone>>, <<"wait", Other(r)>>, <<"barrier", Anyone>> >>

\* The while loop goes by num_msgs, which the receive sets: one turn of it.
ping_pong(r) ==
  IF number[r] >= TotMsgs THEN <<>>
  ELSE IF number[r] % 2 = r THEN << <<"send", Other(r)>> >>
       ELSE << <<"recv", Other(r)>> >>

probe(r) == IF r = 0 THEN << <<"send", Other(r)>> >> ELSE << <<"probe", Anyone>>, <<"recv", 0>> >>

recv(r) == IF r > 0 THEN << <<"recv", 0>> >> ELSE <<>>

\* The loop over the hops: a rank takes part in two of them.
ring(r) ==
  LET Hop(i) == IF r = i THEN << <<"send", (i + 1) % NumProcs>> >>
                ELSE IF r = (i + 1) % NumProcs THEN << <<"recv", i>> >> ELSE <<>>
      Hops[i \in 0 .. NumProcs] == IF i = 0 THEN <<>> ELSE Hops[i - 1] \o Hop(i - 1)
  IN Hops[NumProcs]

hello_world(r) == <<>>
average(r)     == << <<"scatter", 0>>, <<"gather", 0>>, <<"barrier", Anyone>> >>
monte_carlo(r) == << <<"reduce", 0>> >>

Calls(r) ==
  CASE program = "deadlock"                -> deadlock(r)
    [] program = "deadlock_avoid_isend"    -> deadlock_avoid_isend(r)
    [] program = "deadlock_avoid_sendrecv" -> deadlock_avoid_sendrecv(r)
    [] program = "ping_pong"               -> ping_pong(r)
    [] program = "probe"                   -> probe(r)
    [] program = "recv"                    -> recv(r)
    [] program = "ring"                    -> ring(r)
    [] program = "hello_world"             -> hello_world(r)
    [] program = "average"                 -> average(r)
    [] program = "monte_carlo"             -> monte_carlo(r)

\* The loop of ping_pong.c has no end in number of calls.
Next1(r) == IF program = "ping_pong" THEN 1 ELSE call[r] + 1

Ended(r) == Next1(r) > Len(Calls(r))
Doing(r, names) == ~ Ended(r) /\ Calls(r)[Next1(r)][1] \in names
Peer(r) == Calls(r)[Next1(r)][2]
Return(r) == call' = [call EXCEPT ![r] = IF program = "ping_pong" THEN @ ELSE @ + 1]

\* num_msgs++ and num_hops++ come before the send.
Counted(r) == IF program \in {"ping_pong", "ring"} THEN number[r] + 1 ELSE number[r]

\* The turn of ping_pong.c that is under way is known by whom posted: its number is counted.
SendOrPost(r) ==
  /\ Doing(r, {"ssend", "send", "isend"}) /\ r \notin posted
  /\ channel' = [channel EXCEPT ![r][Peer(r)] = Append(@, Counted(r))]
  /\ \/ /\ Doing(r, {"isend"}) \/ (eager /\ Doing(r, {"send"}))
        /\ number' = [number EXCEPT ![r] = Counted(r)]
        /\ Return(r) /\ UNCHANGED posted
     \/ /\ Doing(r, {"ssend"}) \/ (~ eager /\ Doing(r, {"send"}))
        /\ posted' = posted \cup {r} /\ UNCHANGED <<call, number>>
  /\ UNCHANGED program

\* A synchronous send ends when its message is received.
PostedReturns(r) ==
  /\ r \in posted /\ channel[r][Peer(r)] = <<>>
  /\ posted' = posted \ {r}
  /\ number' = [number EXCEPT ![r] = Counted(r)]
  /\ Return(r)
  /\ UNCHANGED <<program, channel>>

\* MPI_Wait: a request that was buffered is complete.
WaitReturns(r) ==
  /\ Doing(r, {"wait"})
  /\ eager \/ channel[r][Peer(r)] = <<>>
  /\ Return(r)
  /\ UNCHANGED <<program, number, posted, channel>>

ReceiveNumber(r, s) ==
  /\ Doing(r, {"recv"}) /\ Peer(r) \in {s, Anyone}
  /\ channel[s][r] # <<>>
  /\ number' = [number EXCEPT ![r] = Head(channel[s][r])]
  /\ channel' = [channel EXCEPT ![s][r] = Tail(@)]
  /\ Return(r)
  /\ UNCHANGED <<program, posted>>

ProbeReturns(r) ==
  /\ Doing(r, {"probe"})
  /\ \E s \in World : channel[s][r] # <<>>
  /\ Return(r)
  /\ UNCHANGED <<program, number, posted, channel>>

\* A rank leaves a call that all make: with what the root gives, with what the root gets from
\* all, or with all.  (call counts the same for all of them in the programs that use one.)
Collective(r) ==
  /\ \/ Doing(r, {"scatter"}) /\ (r = 0 \/ call[0] > call[r])
     \/ Doing(r, {"gather", "reduce"}) /\ (r # 0 \/ \A q \in Procs \ {0} : call[q] > call[r])
     \/ Doing(r, {"barrier"}) /\ \A q \in World : call[q] >= call[r]
  /\ Return(r)
  /\ UNCHANGED <<program, number, posted, channel>>

ProgStep(r) ==
  \/ SendOrPost(r) \/ PostedReturns(r) \/ WaitReturns(r)
  \/ (\E s \in World : ReceiveNumber(r, s)) \/ ProbeReturns(r) \/ Collective(r)

ProgDone == \A r \in World : Ended(r)

ProgNext == \E r \in World : ProgStep(r)

(***************************************************************************)
(* Properties                                                              *)
(***************************************************************************)

ProgTypeOK ==
  /\ program \in Programs
  /\ call \in [Procs -> 0 .. NumProcs + 3]
  /\ number \in [Procs -> Nat]
  /\ posted \subseteq Procs

\* ring.c prints the hops the message made; when rank 0 is done it has made one per rank.
RingHops == program = "ring" /\ Ended(0) => number[0] = NumProcs

\* ping_pong.c: the ranks' counters are never more than one apart, so the two never both
\* send or both wait, and no message waits behind another.
PingPongInStep ==
  program = "ping_pong" =>
    /\ number[0] - number[1] \in {-1, 0, 1}
    /\ Len(channel[0][1]) + Len(channel[1][0]) <= 1

\* "What goes wrong?" (deadlock.c) and "an integer that never arrives" (recv.c): whatever
\* the library buffers, neither rank of the first gets past its send and no rank but 0
\* ends the second.  The program that waits must not be saved by an eager library.
HangAsDocumented ==
  /\ program = "deadlock" => \A r \in World : call[r] = 0
  /\ program = "recv" => \A r \in World \ {0} : ~ Ended(r)
===============================================================================
