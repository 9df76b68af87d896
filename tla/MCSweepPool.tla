---------------------------- MODULE MCSweepPool ----------------------------
(***************************************************************************)
(* Two calls of runWithConcurrency with the code's limit of three loops.   *)
(***************************************************************************)
EXTENDS SweepPool

CONSTANTS
    p1, p2,
    MaxItems,      \* bound: length of a list
    MaxRestarts    \* bound: restarts of the backend

\* What the items are is nothing to the pool.
List(n) == [i \in 1 .. n |-> i]

BoundedNext ==
    \/ pools[p1].era < MaxRestarts /\ Restart
    \/ \E p \in Pools :
         \/ \E n \in 1 .. MaxItems : OpenPool(p, List(n))
         \/ \E k \in Workers : TakeItem(p, k) \/ ItemDone(p, k)

BoundedSpec == PoolInit /\ [][BoundedNext]_pools

Bag1 == INSTANCE WorkBag WITH waiting <- Waiting(p1), working <- Working(p1),
                              restarts <- pools[p1].era
Bag2 == INSTANCE WorkBag WITH waiting <- Waiting(p2), working <- Working(p2),
                              restarts <- pools[p2].era

\* PoolsAreBags for the two calls: each of them runs each item of its list once,
\* and loses none but to a restart.
PoolIsBag == Bag1!Spec /\ Bag2!Spec
=============================================================================
