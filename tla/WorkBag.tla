------------------------------ MODULE WorkBag ------------------------------
(***************************************************************************)
(* What a sweep expects of runWithConcurrency: a bag of recovery runs, each*)
(* of which is started once, and none of which is lost or held up because  *)
(* another failed.  Only a restart of the backend forgets a list.          *)
(***************************************************************************)
EXTENDS Naturals

VARIABLES
    waiting,      \* places of the work list that nobody has started
    working,      \* places being worked on
    restarts      \* how often the backend has restarted

bagVars == <<waiting, working, restarts>>

Init == waiting = {} /\ working = {} /\ restarts = 0

\* A sweep hands its list over.
Open == /\ waiting = {} /\ working = {}
        /\ waiting' \subseteq Nat
        /\ UNCHANGED <<working, restarts>>

Start(i) == /\ i \in waiting
            /\ waiting' = waiting \ {i}
            /\ working' = working \cup {i}
            /\ UNCHANGED restarts

\* The run of a place succeeded, or threw.
Finish(i) == /\ i \in working
             /\ working' = working \ {i}
             /\ UNCHANGED <<waiting, restarts>>

\* A restart forgets what was waiting and what was being worked on.
Restart == /\ restarts' = restarts + 1
           /\ waiting' = {} /\ working' = {}

Next == \/ Open \/ Restart
        \/ \E i \in waiting : Start(i)
        \/ \E i \in working : Finish(i)

Spec == Init /\ [][Next]_bagVars
=============================================================================
