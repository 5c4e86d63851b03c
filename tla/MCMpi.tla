--------------------------------- MODULE MCMpi --------------------------------
(***************************************************************************)
(* The MPI programs other than the guessing game.  An execution is one of  *)
(* one of them: `running` says which, and the rest stand still.            *)
(***************************************************************************)
EXTENDS LinearRoad, MpiTutorial, Ants

VARIABLE running

vars == <<eager, running, roadVars, charVars, filterVars, progVars, antVars>>

\* What the loop of linear_road.c computes: of n cars, any number up to half of them, rounded up.
ASSUME HalfMove == \A n \in 0 .. 10 : Leaving(n) = 0 .. (n + 1) \div 2

Init ==
  /\ eager \in BOOLEAN
  /\ running \in {"linear_road", "char_count", "filter", "ants", "programs"}
  /\ RoadInit /\ CharInit /\ FilterInit /\ AntsInit /\ ProgInit
  /\ running = "programs" \/ program = "hello_world"

AllDone ==
  CASE running = "linear_road" -> RoadDone
    [] running = "char_count"  -> CharDone
    [] running = "filter"      -> FilterDone
    [] running = "ants"        -> AntsDone
    [] running = "programs"    -> ProgDone

Road     == running = "linear_road" /\ RoadNext   /\ UNCHANGED <<eager, running, charVars, filterVars, progVars, antVars>>
Chars    == running = "char_count"  /\ CharNext   /\ UNCHANGED <<eager, running, roadVars, filterVars, progVars, antVars>>
Filters  == running = "filter"      /\ FilterNext /\ UNCHANGED <<eager, running, roadVars, charVars, progVars, antVars>>
AntsRun  == running = "ants"        /\ AntsNext   /\ UNCHANGED <<eager, running, roadVars, charVars, filterVars, progVars>>
Scripts  == running = "programs"    /\ ProgNext   /\ UNCHANGED <<eager, running, roadVars, charVars, filterVars, antVars>>

\* All the ranks are done, or the program is one that is meant to hang.
Over == AllDone \/ (running = "programs" /\ program \in Hanging)

Next == Road \/ Chars \/ Filters \/ AntsRun \/ Scripts \/ (Over /\ UNCHANGED vars)

\* Every step is one of a rank, and a rank that can go on does so: MPI makes progress and
\* no rank crashes.  In each of these programs a step that is enabled stays so until it is
\* taken, and there are finitely many: it is enough that some rank goes on.
Fairness == WF_vars(Road) /\ WF_vars(Chars) /\ WF_vars(Filters) /\ WF_vars(AntsRun) /\ WF_vars(Scripts)

Spec == Init /\ [][Next]_vars /\ Fairness

TypeOK ==
  /\ eager \in BOOLEAN
  /\ RoadTypeOK /\ CharTypeOK /\ FilterTypeOK /\ ProgTypeOK /\ AntsTypeOK

\* See LinearRoad: no car is lost or doubled, and none moves two segments in an iteration.
RoadSafe == CarsConserved /\ OneSegmentPerIteration

\* See MpiTutorial: no letter gets another one's count, all but the last letters get
\* the counts of all the files, and the master has the workers' multiples and nothing else.
ResultsExact == LettersNotMixed /\ EarlyLettersExact /\ FilterResult

\* See MpiTutorial and Ants: the ring and the two players keep count, the programs that are
\* meant to hang do, and the ants move towards where all of them were.
RanksInStep == RingHops /\ PingPongInStep /\ HangAsDocumented /\ MovesTowardsCenter

\* Whether the library buffers a send or not, every program that is not meant to hang
\* ends: no rank waits for ever for a neighbour, for a message that was taken by another
\* receive, or in a collective call.
Termination == program \notin Hanging => <>AllDone
=============================================================================
