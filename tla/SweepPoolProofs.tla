-------------------------- MODULE SweepPoolProofs --------------------------
(***************************************************************************)
(* Every call of runWithConcurrency is a bag of work, for any number of    *)
(* calls, any limit and any lists.                                         *)
(***************************************************************************)
EXTENDS SweepPool, TLAPS

\* No two loops hold one place, and only places the cursor has passed are held.
LoopsApart ==
    \A p \in Pools :
        /\ pools[p].cursor <= Len(pools[p].items)
        /\ \A k \in Workers : pools[p].at[k] <= pools[p].cursor
        /\ \A k, l \in Workers :
              pools[p].at[k] = pools[p].at[l] /\ pools[p].at[k] # 0 => k = l

PoolInv == PoolTypeOK /\ LoopsApart

\* Initially nothing is held.
LEMMA PoolInitInv == PoolInit => PoolInv
  BY DEF PoolInit, UnusedPool, PoolInv, PoolTypeOK, Pool, LoopsApart

\* Opening a pool touches an unused one: its cursor and its loops are at 0.
LEMMA OpenKeeps ==
  ASSUME PoolInv, NEW p \in Pools, NEW list \in Seq(Nat), OpenPool(p, list)
  PROVE  PoolInv'
<1>1. pools[p] \in Pool /\ pools' \in [Pools -> Pool]
  BY DEF PoolInv, PoolTypeOK, OpenPool, Pool
<1>2. LoopsApart'
  <2> SUFFICES ASSUME NEW q \in Pools
               PROVE  /\ pools'[q].cursor <= Len(pools'[q].items)
                      /\ \A k \in Workers : pools'[q].at[k] <= pools'[q].cursor
                      /\ \A k, l \in Workers :
                           pools'[q].at[k] = pools'[q].at[l] /\ pools'[q].at[k] # 0 => k = l
    BY DEF LoopsApart
  <2>1. CASE q # p
    BY <2>1 DEF OpenPool, PoolInv, PoolTypeOK, LoopsApart
  <2>2. CASE q = p
    <3>1. /\ pools'[p].cursor = 0
          /\ \A k \in Workers : pools'[p].at[k] = 0
      BY DEF OpenPool, Unused, UnusedPool, PoolInv, PoolTypeOK
    <3>2. Len(pools'[p].items) \in Nat
      BY <1>1 DEF Pool
    <3> QED BY <2>2, <3>1, <3>2
  <2> QED BY <2>1, <2>2
<1> QED BY <1>1, <1>2 DEF PoolInv, PoolTypeOK

\* A loop takes the place after the cursor, which no loop holds.
LEMMA TakeKeeps ==
  ASSUME PoolInv, NEW p \in Pools, NEW k \in Workers, TakeItem(p, k)
  PROVE  PoolInv'
<1> DEFINE next == pools[p].cursor + 1
           after == [pools[p] EXCEPT !.cursor = next, !.at = [pools[p].at EXCEPT ![k] = next]]
<1>0. pools[p] \in Pool /\ pools' = [pools EXCEPT ![p] = after] /\ pools \in [Pools -> Pool]
  BY DEF PoolInv, PoolTypeOK, TakeItem
<1>2a. after \in Pool
  <2>1. pools[p].at \in [Workers -> Nat] /\ next \in Nat
    BY <1>0 DEF Pool
  <2>2. [pools[p].at EXCEPT ![k] = next] \in [Workers -> Nat]
    BY <2>1
  <2> QED BY <1>0, <2>1, <2>2 DEF Pool
<1>1. pools[p] \in Pool /\ pools' \in [Pools -> Pool]
  <2> HIDE DEF after
  <2> QED BY <1>0, <1>2a
<1>2. LoopsApart'
  <2> SUFFICES ASSUME NEW q \in Pools
               PROVE  /\ pools'[q].cursor <= Len(pools'[q].items)
                      /\ \A j \in Workers : pools'[q].at[j] <= pools'[q].cursor
                      /\ \A j, l \in Workers :
                           pools'[q].at[j] = pools'[q].at[l] /\ pools'[q].at[j] # 0 => j = l
    BY DEF LoopsApart
  <2>1. CASE q # p
    BY <2>1 DEF TakeItem, PoolInv, PoolTypeOK, LoopsApart
  <2>2. CASE q = p
    <3>1. /\ pools'[p].items = pools[p].items
          /\ pools'[p].cursor = pools[p].cursor + 1
          /\ pools'[p].at = [pools[p].at EXCEPT ![k] = pools[p].cursor + 1]
      BY <1>1 DEF TakeItem, PoolInv, PoolTypeOK, Pool
    <3>2. /\ \A j \in Workers : pools[p].at[j] \in Nat /\ pools[p].at[j] <= pools[p].cursor
          /\ pools[p].cursor \in Nat /\ Len(pools[p].items) \in Nat
          /\ pools[p].at \in [Workers -> Nat]
      BY <1>1 DEF PoolInv, LoopsApart, Pool
    <3>3. \A j, l \in Workers :
             pools[p].at[j] = pools[p].at[l] /\ pools[p].at[j] # 0 => j = l
      BY DEF PoolInv, LoopsApart
    <3>4. pools[p].cursor < Len(pools[p].items)
      BY DEF TakeItem
    <3> QED BY <2>2, <3>1, <3>2, <3>3, <3>4
  <2> QED BY <2>1, <2>2
<1> QED BY <1>1, <1>2 DEF PoolInv, PoolTypeOK

\* A loop that is done holds nothing, and a call that returns leaves nothing behind.
LEMMA DoneKeeps ==
  ASSUME PoolInv, NEW p \in Pools, NEW k \in Workers, ItemDone(p, k)
  PROVE  PoolInv'
<1>1. CASE LastLoop(p, k)
  <2>0. pools[p].era \in Nat
    BY DEF PoolInv, PoolTypeOK, Pool
  <2>1. /\ pools' = [pools EXCEPT ![p] = UnusedPool(pools[p].era)]
        /\ UnusedPool(pools[p].era) \in Pool
    BY <1>1, <2>0 DEF ItemDone, UnusedPool, Pool
  <2>2. pools' \in [Pools -> Pool]
    BY <2>1 DEF PoolInv, PoolTypeOK
  <2>3. /\ pools'[p].cursor = 0 /\ pools'[p].items = <<>>
        /\ \A l \in Workers : pools'[p].at[l] = 0
        /\ \A q \in Pools : q # p => pools'[q] = pools[q]
    BY <2>1 DEF UnusedPool, PoolInv, PoolTypeOK
  <2>4. LoopsApart'
    BY <2>3 DEF PoolInv, LoopsApart
  <2> QED BY <2>2, <2>4 DEF PoolInv, PoolTypeOK
<1>2. CASE ~LastLoop(p, k)
  <2>1. pools[p] \in Pool /\ pools' \in [Pools -> Pool]
    BY <1>2 DEF PoolInv, PoolTypeOK, ItemDone, Pool
  <2>2. LoopsApart'
    BY <1>2, <2>1 DEF PoolInv, PoolTypeOK, LoopsApart, ItemDone, Pool
  <2> QED BY <2>1, <2>2 DEF PoolInv, PoolTypeOK
<1> QED BY <1>1, <1>2

\* After a restart every pool is unused.
LEMMA RestartKeeps ==
  ASSUME PoolInv, Restart
  PROVE  PoolInv'
<1>1. \A p \in Pools : UnusedPool(pools[p].era + 1) \in Pool
  BY DEF UnusedPool, Pool, PoolInv, PoolTypeOK
<1>2. pools' \in [Pools -> Pool]
  BY <1>1 DEF Restart
<1>3. \A p \in Pools : /\ pools'[p].cursor = 0 /\ pools'[p].items = <<>>
                       /\ \A k \in Workers : pools'[p].at[k] = 0
  BY DEF Restart, UnusedPool
<1>4. LoopsApart'
  BY <1>3 DEF LoopsApart
<1> QED BY <1>2, <1>4 DEF PoolInv, PoolTypeOK

\* The invariant is kept by every step.
LEMMA PoolNextInv == PoolInv /\ [PoolNext]_pools => PoolInv'
<1> SUFFICES ASSUME PoolInv, [PoolNext]_pools PROVE PoolInv'
  OBVIOUS
<1>1. CASE PoolNext
  BY <1>1, OpenKeeps, TakeKeeps, DoneKeeps, RestartKeeps DEF PoolNext, PoolStep
<1>2. CASE UNCHANGED pools
  BY <1>2 DEF PoolInv, PoolTypeOK, LoopsApart
<1> QED BY <1>1, <1>2
-----------------------------------------------------------------------------
(***************************************************************************)
(* The refinement, one pool at a time.                                     *)
(***************************************************************************)
\* Opening a pool hands its places over.
LEMMA OpenRefines ==
  ASSUME PoolInv, NEW p \in Pools, NEW list \in Seq(Nat), OpenPool(p, list)
  PROVE  Bag(p)!Open
<1>1. /\ pools[p].items = <<>> /\ pools[p].cursor = 0
      /\ \A k \in Workers : pools[p].at[k] = 0
  BY DEF OpenPool, Unused, UnusedPool
<1>2. /\ pools'[p].cursor = 0 /\ pools'[p].at = pools[p].at
      /\ pools'[p].items = list /\ pools'[p].era = pools[p].era
  BY <1>1 DEF OpenPool, PoolInv, PoolTypeOK, Pool
<1>3. Working(p) = {} /\ Working(p)' = {}
  BY <1>1, <1>2 DEF Working
<1>4. Places(p) = {}
  BY <1>1 DEF Places
<1>5. Places(p)' \subseteq Nat \ {0}
  <2>1. Len(list) \in Nat
    OBVIOUS
  <2> QED BY <1>2, <2>1 DEF Places
<1> QED BY <1>2, <1>3, <1>4, <1>5 DEF Bag!Open, Waiting

\* Taking an item starts the place after the cursor.
LEMMA TakeRefines ==
  ASSUME PoolInv, NEW p \in Pools, NEW k \in Workers, TakeItem(p, k)
  PROVE  \E i \in {j \in Places(p) : j > pools[p].cursor} : Bag(p)!Start(i)
<1>1. pools[p] \in Pool /\ pools[p].cursor \in Nat /\ Len(pools[p].items) \in Nat
  BY DEF PoolInv, PoolTypeOK, Pool
<1>0. PICK i \in Nat : i = pools[p].cursor + 1
  BY <1>1
<1>2. /\ pools'[p].items = pools[p].items
      /\ pools'[p].cursor = i
      /\ pools'[p].at = [pools[p].at EXCEPT ![k] = i]
      /\ pools[p].at[k] = 0 /\ i <= Len(pools[p].items)
      /\ pools'[p].era = pools[p].era
  BY <1>0, <1>1 DEF TakeItem, PoolInv, PoolTypeOK, Pool
<1>3. /\ pools[p].at \in [Workers -> Nat]
      /\ \A l \in Workers : pools[p].at[l] <= pools[p].cursor
      /\ \A l, m \in Workers :
            pools[p].at[l] = pools[p].at[m] /\ pools[p].at[l] # 0 => l = m
  BY <1>1 DEF PoolInv, LoopsApart, Pool
<1>4. Working(p)' = Working(p) \cup {i}
  BY <1>0, <1>1, <1>2, <1>3 DEF Working
<1>6. Places(p)' = Places(p) /\ i \in Places(p) /\ Places(p) \subseteq Nat
  BY <1>0, <1>1, <1>2 DEF Places
<1>7. {j \in Places(p)' : j > pools'[p].cursor} = {j \in Places(p) : j > pools[p].cursor} \ {i}
  BY <1>0, <1>1, <1>2, <1>6
<1>8. i > pools[p].cursor
  BY <1>0, <1>1
<1>9. i \in {j \in Places(p) : j > pools[p].cursor}
  BY <1>6, <1>8
<1>10. Bag(p)!Start(i)
  BY <1>2, <1>4, <1>7, <1>9 DEF Bag!Start, Waiting
<1> QED BY <1>9, <1>10

\* A run that ends, well or not, takes its place out of the bag; when it is the
\* last one the call returns, and the bag is empty.
LEMMA DoneRefines ==
  ASSUME PoolInv, NEW p \in Pools, NEW k \in Workers, ItemDone(p, k)
  PROVE  \E i \in Working(p) : Bag(p)!Finish(i)
<1>1. pools[p] \in Pool
  BY DEF PoolInv, PoolTypeOK
<1>0. PICK i \in Nat : i = pools[p].at[k]
  BY <1>1 DEF Pool
<1>2. i # 0
  BY <1>0 DEF ItemDone
<1>3. /\ pools[p].at \in [Workers -> Nat] /\ pools[p].cursor \in Nat
      /\ \A l, m \in Workers :
            pools[p].at[l] = pools[p].at[m] /\ pools[p].at[l] # 0 => l = m
      /\ Len(pools[p].items) \in Nat
  BY <1>1 DEF PoolInv, LoopsApart, Pool
<1>4. i \in Working(p)
  BY <1>0, <1>2 DEF Working
<1>5. CASE LastLoop(p, k)
  <2>1. /\ pools'[p].items = <<>> /\ pools'[p].cursor = 0
        /\ \A l \in Workers : pools'[p].at[l] = 0
        /\ pools'[p].era = pools[p].era
    BY <1>5 DEF ItemDone, UnusedPool, PoolInv, PoolTypeOK
  <2>2. Working(p)' = {} /\ Places(p)' = {}
    BY <2>1 DEF Working, Places
  <2>3. Working(p) = {i}
    BY <1>0, <1>2, <1>5 DEF Working, LastLoop
  <2>4. {j \in Places(p) : j > pools[p].cursor} = {}
    BY <1>3, <1>5 DEF Places, LastLoop
  <2>5. Bag(p)!Finish(i)
    BY <1>4, <2>1, <2>2, <2>3, <2>4 DEF Bag!Finish, Waiting
  <2> QED BY <1>4, <2>5
<1>6. CASE ~LastLoop(p, k)
  <2>1. /\ pools'[p].items = pools[p].items
        /\ pools'[p].cursor = pools[p].cursor
        /\ pools'[p].at = [pools[p].at EXCEPT ![k] = 0]
    BY <1>1, <1>6 DEF ItemDone, PoolInv, PoolTypeOK, Pool
  <2>6. pools'[p].era = pools[p].era
    BY <1>1, <1>6 DEF ItemDone, PoolInv, PoolTypeOK, Pool
  <2>2. Working(p)' = Working(p) \ {i}
    BY <1>0, <1>2, <1>3, <2>1 DEF Working
  <2>3. Places(p)' = Places(p)
    BY <2>1 DEF Places
  <2>4. {j \in Places(p)' : j > pools'[p].cursor} = {j \in Places(p) : j > pools[p].cursor}
    BY <2>1, <2>3
  <2>5. Bag(p)!Finish(i)
    BY <1>4, <2>2, <2>4, <2>6 DEF Bag!Finish, Waiting
  <2> QED BY <1>4, <2>5
<1> QED BY <1>5, <1>6

\* A step on another pool leaves this one's bag alone.
LEMMA OtherPoolStutters ==
  ASSUME PoolInv, NEW p \in Pools, NEW q \in Pools, p # q, PoolStep(q)
  PROVE  UNCHANGED Bag(p)!bagVars
<1>1. pools'[p] = pools[p]
  BY DEF PoolStep, OpenPool, TakeItem, ItemDone, PoolInv, PoolTypeOK
<1> QED BY <1>1 DEF Bag!bagVars, Waiting, Places, Working

\* Every step of the pools is a step of the bag of each of them.
LEMMA PoolStepRefines ==
  ASSUME PoolInv, [PoolNext]_pools, NEW p \in Pools
  PROVE  [Bag(p)!Next]_(Bag(p)!bagVars)
<1>1. CASE UNCHANGED pools
  BY <1>1 DEF Bag!bagVars, Waiting, Places, Working
<1>2. ASSUME Restart PROVE Bag(p)!Next
  <2>1. /\ pools'[p].items = <<>> /\ \A k \in Workers : pools'[p].at[k] = 0
        /\ pools'[p].era = pools[p].era + 1
    BY <1>2 DEF Restart, UnusedPool
  <2>2. Working(p)' = {} /\ Places(p)' = {}
    BY <2>1 DEF Working, Places
  <2> QED BY <2>1, <2>2 DEF Bag!Next, Bag!Restart, Waiting
<1>3. ASSUME NEW q \in Pools, PoolStep(q)
      PROVE  [Bag(p)!Next]_(Bag(p)!bagVars)
  <2>2. CASE p # q
    BY <1>3, <2>2, OtherPoolStutters
  <2>3. ASSUME p = q, NEW list \in Seq(Nat), OpenPool(q, list)
        PROVE  Bag(p)!Next
    BY <2>3, OpenRefines DEF Bag!Next
  <2>4. ASSUME p = q, NEW k \in Workers, TakeItem(q, k)
        PROVE  Bag(p)!Next
    <3>1. PICK i \in {j \in Places(p) : j > pools[p].cursor} : Bag(p)!Start(i)
      BY <2>4, TakeRefines
    <3> QED BY <3>1 DEF Bag!Next, Waiting
  <2>5. ASSUME p = q, NEW k \in Workers, ItemDone(q, k)
        PROVE  Bag(p)!Next
    <3>1. PICK i \in Working(p) : Bag(p)!Finish(i)
      BY <2>5, DoneRefines
    <3> QED BY <3>1 DEF Bag!Next, Waiting
  <2> QED BY <1>3, <2>2, <2>3, <2>4, <2>5 DEF PoolStep
<1> QED BY <1>1, <1>2, <1>3 DEF PoolNext

\* An unused pool is an empty bag.
LEMMA PoolInitRefines ==
  ASSUME PoolInit, NEW p \in Pools
  PROVE  Bag(p)!Init
<1>1. /\ pools[p].items = <<>> /\ \A k \in Workers : pools[p].at[k] = 0
      /\ pools[p].era = 0
  BY DEF PoolInit, UnusedPool
<1>2. Places(p) = {} /\ Working(p) = {}
  BY <1>1 DEF Places, Working
<1> QED BY <1>1, <1>2 DEF Bag!Init, Waiting

\* One call of runWithConcurrency implements its bag.
LEMMA PoolIsBag ==
  ASSUME NEW p \in Pools
  PROVE  PoolSpec => Bag(p)!Spec
<1>1. PoolInit => Bag(p)!Init
  BY PoolInitRefines
<1>2. PoolInv /\ [PoolNext]_pools => [Bag(p)!Next]_(Bag(p)!bagVars)
  BY PoolStepRefines
<1> QED BY <1>1, <1>2, PoolInitInv, PoolNextInv, PTL DEF PoolSpec, Bag!Spec

\* runWithConcurrency runs every item of its list once, at most limit at a time,
\* and loses none but to a restart, for any number of calls, any lists and any limit.
THEOREM PoolsImplementBags == PoolSpec => PoolsAreBags
  BY PoolIsBag DEF PoolsAreBags
=============================================================================
