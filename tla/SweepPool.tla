----------------------------- MODULE SweepPool -----------------------------
(***************************************************************************)
(* runWithConcurrency (recovery-auto/concurrency.util.ts): the case ids a  *)
(* sweep collected are worked off by a few drain() loops that share one    *)
(* cursor.  A pool is one call of it that has not returned.                *)
(***************************************************************************)
EXTENDS Naturals, Sequences, FiniteSets

CONSTANTS
    Pools,     \* slots for calls of runWithConcurrency
    Workers    \* the drain() loops of one call, limit of them

ASSUME WorkersAssumption == IsFiniteSet(Workers) /\ Workers # {}

VARIABLE pools

\* at[k] is the place of the list loop k awaits, 0 while it awaits none; era is
\* history: the restarts so far.
Pool == [items : Seq(Nat), cursor : Nat, at : [Workers -> Nat], era : Nat]

UnusedPool(era) == [items |-> <<>>, cursor |-> 0, at |-> [k \in Workers |-> 0],
                    era |-> era]

PoolTypeOK == pools \in [Pools -> Pool]
PoolInit   == pools = [p \in Pools |-> UnusedPool(0)]

Unused(p) == pools[p] = UnusedPool(pools[p].era)

OpenPool(p, list) ==
    /\ Unused(p)
    /\ pools' = [pools EXCEPT ![p].items = list]

\* Reading the item and moving the cursor is one synchronous piece of code.
TakeItem(p, k) ==
    /\ pools[p].at[k] = 0
    /\ pools[p].cursor < Len(pools[p].items)
    /\ LET next == pools[p].cursor + 1 IN
         pools' = [pools EXCEPT ![p] =
                     [pools[p] EXCEPT !.cursor = next,
                                      !.at = [pools[p].at EXCEPT ![k] = next]]]

\* The awaited run resolved, or threw and was swallowed; with the last one the
\* call returns.
LastLoop(p, k) ==
    /\ pools[p].cursor = Len(pools[p].items)
    /\ \A l \in Workers \ {k} : pools[p].at[l] = 0

\* Mutant: nobody catches what a run throws, and the first throw ends the call.
ThrowEndsCall(p, k) ==
    /\ pools[p].at[k] # 0
    /\ pools' = [pools EXCEPT ![p] = UnusedPool(pools[p].era)]

ItemDone(p, k) ==
    /\ pools[p].at[k] # 0
    /\ pools' = [pools EXCEPT ![p] =
                   IF LastLoop(p, k) THEN UnusedPool(pools[p].era)
                   ELSE [pools[p] EXCEPT !.at = [pools[p].at EXCEPT ![k] = 0]]]

\* A restart of the backend: nobody remembers the list.
Restart == pools' = [p \in Pools |-> UnusedPool(pools[p].era + 1)]

\* The item loop k works on.
Held(p, k) == pools[p].items[pools[p].at[k]]

PoolStep(p) ==
    \/ \E list \in Seq(Nat) : OpenPool(p, list)
    \/ \E k \in Workers : TakeItem(p, k) \/ ItemDone(p, k)

PoolNext == Restart \/ \E p \in Pools : PoolStep(p)

PoolSpec == PoolInit /\ [][PoolNext]_pools
-----------------------------------------------------------------------------
Places(p)  == 1 .. Len(pools[p].items)
Working(p) == {pools[p].at[k] : k \in Workers} \ {0}
Waiting(p) == {i \in Places(p) : i > pools[p].cursor}

Bag(p) == INSTANCE WorkBag WITH waiting <- Waiting(p), working <- Working(p),
                                restarts <- pools[p].era

\* Every call of runWithConcurrency is a bag of work: each case id of a sweep's list
\* gets exactly one run, however the loops interleave and whichever runs fail, and
\* nothing but a restart takes an item that was not run off the list.
PoolsAreBags == \A p \in Pools : Bag(p)!Spec
=============================================================================
