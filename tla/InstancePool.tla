---------------------------- MODULE InstancePool -----------------------------
(***************************************************************************)
(* How a call gets an instance of the core and gives it back: go/core.go's *)
(* primary behind a TryLock, the sync.Pool beside it, the one-off instance *)
(* for a long text, and what a panic inside the core leaves behind.        *)
(*                                                                         *)
(* Goroutines interleave between any two steps on shared state: the        *)
(* sync.Once that creates the primary, the primary's lock, the pool and    *)
(* the garbage collector that empties it.  What a call does with its       *)
(* instance is the step from "inside" to "release" here; DoorCalls refines *)
(* it.                                                                     *)
(***************************************************************************)
EXTENDS ScratchLayout, FiniteSets

CONSTANTS
    Goroutine,
    Instance,          \* names of instances; a name is free again once collected
    NoInstance,        \* what a variable holds when it holds no instance
    Totals,            \* the bytes calls ask scratch for, text and what follows it
    MaxTraps,          \* bound: how many calls may panic inside the core
    MaxMissed          \* bound: how many cached instances pool.Get may overlook

ASSUME PoolAssumption ==
    /\ NoInstance \notin Instance
    /\ Totals \subseteq Nat
    /\ MaxTraps \in Nat /\ MaxMissed \in Nat

VARIABLES
    once,              \* primaryOnce: "idle", "running", or "done"
    thePrimary,        \* thePrimary, NoInstance before it is created
    locked,            \* the instances whose mu is locked
    pool,              \* what sync.Pool holds and the next GC makes victims
    victim,            \* what sync.Pool holds and the next GC drops
    pages,             \* in.pages; 0 for a name no instance has
    pc,                \* where each goroutine is in its call
    in,                \* the instance its call holds
    how,               \* the call's lease
    total,             \* the bytes its call asked for
    trapped            \* the instances a panic abandoned (history)

poolVars == <<once, thePrimary, locked, pool, victim, pages, pc, in, how, total, trapped>>

Leases == {"none", "leasePrimary", "leasePooled", "leaseOneOff"}

Labels == {"idle", "acquire", "create", "created", "tryLock", "get", "oneOff",
           "inside", "release"}

PoolInit ==
    /\ once = "idle"
    /\ thePrimary = NoInstance
    /\ locked = {}
    /\ pool = {}
    /\ victim = {}
    /\ pages = [i \in Instance |-> 0]
    /\ pc = [g \in Goroutine |-> "idle"]
    /\ in = [g \in Goroutine |-> NoInstance]
    /\ how = [g \in Goroutine |-> "none"]
    /\ total = [g \in Goroutine |-> 0]
    /\ trapped = {}

Pooled == pool \cup victim

(* The names no instance has: newInstance may take any of them.  A name    *)
(* whose instance panicked is never taken again, so that the history can   *)
(* tell whether that instance serves another call.                         *)
Fresh == { i \in Instance : pages[i] = 0 /\ i \notin trapped }

Goto(g, label) == pc' = [pc EXCEPT ![g] = label]

Holds(g, i, lease) ==
    /\ in' = [in EXCEPT ![g] = i]
    /\ how' = [how EXCEPT ![g] = lease]
    /\ Goto(g, "inside")

(* The call's own variables go with it.                                    *)
LetGo(g) ==
    /\ in' = [in EXCEPT ![g] = NoInstance]
    /\ how' = [how EXCEPT ![g] = "none"]
    /\ total' = [total EXCEPT ![g] = 0]
    /\ Goto(g, "idle")

-----------------------------------------------------------------------------
(* acquireScratch on n bytes: the size decides before anything is taken.   *)
(* There is no step for Decision(n) = "panic": a total past MaxText, or    *)
(* one the host cannot address, panics while the goroutine holds nothing.  *)
AcquireScratch(g, n) ==
    /\ pc[g] = "idle"
    /\ \/ Decision(n) = "base"   /\ Goto(g, "acquire")
       \/ Decision(n) = "oneOff" /\ Goto(g, "oneOff")
    /\ total' = [total EXCEPT ![g] = n]
    /\ UNCHANGED <<once, thePrimary, locked, pool, victim, pages, in, how, trapped>>

(* Mutant: no Once, so two first calls both create a primary.              *)
OnceBeginUnguarded(g) ==
    /\ pc[g] = "acquire" /\ once # "done"
    /\ once' = "running"
    /\ Goto(g, "create")
    /\ UNCHANGED <<thePrimary, locked, pool, victim, pages, in, how, total, trapped>>

(* primary(): primaryOnce.Do runs its function in one goroutine and keeps  *)
(* the others waiting until it has returned.                               *)
OnceBegin(g) ==
    /\ pc[g] = "acquire" /\ once = "idle"
    /\ once' = "running"
    /\ Goto(g, "create")
    /\ UNCHANGED <<thePrimary, locked, pool, victim, pages, in, how, total, trapped>>

CreatePrimary(g) ==
    /\ pc[g] = "create"
    /\ \E i \in Fresh : /\ thePrimary' = i
                        /\ pages' = [pages EXCEPT ![i] = BasePages]
    /\ Goto(g, "created")
    /\ UNCHANGED <<once, locked, pool, victim, in, how, total, trapped>>

OnceEnd(g) ==
    /\ pc[g] = "created"
    /\ once' = "done"
    /\ Goto(g, "tryLock")
    /\ UNCHANGED <<thePrimary, locked, pool, victim, pages, in, how, total, trapped>>

OnceDone(g) ==
    /\ pc[g] = "acquire" /\ once = "done"
    /\ Goto(g, "tryLock")
    /\ UNCHANGED <<once, thePrimary, locked, pool, victim, pages, in, how, total, trapped>>

(* Mutant: a Lock that waits.                                              *)
TryLockWaits(g) == pc[g] = "tryLock" /\ thePrimary \in locked /\ UNCHANGED poolVars

(* acquire: p.mu.TryLock() never waits; a goroutine that finds the primary *)
(* taken goes to the pool.                                                 *)
TryLock(g) ==
    /\ pc[g] = "tryLock" /\ thePrimary \notin locked
    /\ locked' = locked \cup {thePrimary}
    /\ Holds(g, thePrimary, "leasePrimary")
    /\ UNCHANGED <<once, thePrimary, pool, victim, pages, total, trapped>>

TryLockFails(g) ==
    /\ pc[g] = "tryLock" /\ thePrimary \in locked
    /\ Goto(g, "get")
    /\ UNCHANGED <<once, thePrimary, locked, pool, victim, pages, in, how, total, trapped>>

(* Mutant: an instance handed out and kept in the victim cache.            *)
PoolGetKeeps(g) ==
    /\ pc[g] = "get"
    /\ \E i \in Pooled : /\ pool' = pool \ {i}
                         /\ Holds(g, i, "leasePooled")
    /\ UNCHANGED <<once, thePrimary, locked, victim, pages, total, trapped>>

(* pool.Get: any instance the pool or its victim cache holds, or a new one *)
(* from New, which sync.Pool may call although another P's cache holds one *)
(* (MaxMissed bounds how many it overlooks).                               *)
PoolGet(g) ==
    /\ pc[g] = "get"
    /\ \E i \in Pooled : /\ pool' = pool \ {i}
                         /\ victim' = victim \ {i}
                         /\ Holds(g, i, "leasePooled")
    /\ UNCHANGED <<once, thePrimary, locked, pages, total, trapped>>

PoolNew(g) ==
    /\ pc[g] = "get" /\ Cardinality(Pooled) <= MaxMissed
    /\ \E i \in Fresh : /\ pages' = [pages EXCEPT ![i] = BasePages]
                        /\ Holds(g, i, "leasePooled")
    /\ UNCHANGED <<once, thePrimary, locked, pool, victim, total, trapped>>

(* A text too long for the base scratch: an instance of its own.           *)
NewOneOff(g) ==
    /\ pc[g] = "oneOff"
    /\ \E i \in Fresh : /\ pages' = [pages EXCEPT ![i] = ScratchPages(total[g])]
                        /\ Holds(g, i, "leaseOneOff")
    /\ UNCHANGED <<once, thePrimary, locked, pool, victim, total, trapped>>

(* The call's work on its instance, the core's export included, returns.   *)
Return(g) ==
    /\ pc[g] = "inside"
    /\ Goto(g, "release")
    /\ UNCHANGED <<once, thePrimary, locked, pool, victim, pages, in, how, total, trapped>>

(* Mutants of release: every instance but the primary put in the pool; the *)
(* pool's never put back; the primary's lock kept.                         *)
ReleasePoolsAll(g) ==
    /\ pc[g] = "release"
    /\ \/ /\ how[g] = "leasePrimary"
          /\ locked' = locked \ {in[g]}
          /\ UNCHANGED pool
       \/ /\ how[g] # "leasePrimary"
          /\ pool' = pool \cup {in[g]}
          /\ UNCHANGED locked
    /\ LetGo(g)
    /\ UNCHANGED <<once, thePrimary, pages, victim, trapped>>

ReleaseForgetsPut(g) ==
    /\ pc[g] = "release"
    /\ locked' = IF how[g] = "leasePrimary" THEN locked \ {in[g]} ELSE locked
    /\ pages' = IF how[g] = "leaseOneOff" THEN [pages EXCEPT ![in[g]] = 0] ELSE pages
    /\ LetGo(g)
    /\ UNCHANGED <<once, thePrimary, pool, victim, trapped>>

ReleaseKeepsLock(g) ==
    /\ pc[g] = "release"
    /\ pool' = IF how[g] = "leasePooled" THEN pool \cup {in[g]} ELSE pool
    /\ pages' = IF how[g] = "leaseOneOff" THEN [pages EXCEPT ![in[g]] = 0] ELSE pages
    /\ LetGo(g)
    /\ UNCHANGED <<once, thePrimary, locked, victim, trapped>>

(* release: by the lease.  A one-off instance is dropped to the collector. *)
Release(g) ==
    /\ pc[g] = "release"
    /\ \/ /\ how[g] = "leasePrimary"
          /\ locked' = locked \ {in[g]}
          /\ UNCHANGED <<pool, pages>>
       \/ /\ how[g] = "leasePooled"
          /\ pool' = pool \cup {in[g]}
          /\ UNCHANGED <<locked, pages>>
       \/ /\ how[g] = "leaseOneOff"
          /\ pages' = [pages EXCEPT ![in[g]] = 0]
          /\ UNCHANGED <<locked, pool>>
    /\ LetGo(g)
    /\ UNCHANGED <<once, thePrimary, victim, trapped>>

(* A panic inside the core: release is not deferred, so nothing is given   *)
(* back.  The primary stays locked; the caller may recover and call again. *)
(* MaxTraps bounds how often.                                              *)
Trap(g) ==
    /\ pc[g] = "inside" /\ Cardinality(trapped) < MaxTraps
    /\ trapped' = trapped \cup {in[g]}
    /\ LetGo(g)
    /\ UNCHANGED <<once, thePrimary, locked, pool, victim, pages>>

(* A garbage collection stops the world and shifts sync.Pool's two         *)
(* generations; nothing else reaches the dropped instances.                *)
GC ==
    /\ pool \cup victim # {}
    /\ pages' = [i \in Instance |-> IF i \in victim THEN 0 ELSE pages[i]]
    /\ victim' = pool
    /\ pool' = {}
    /\ UNCHANGED <<once, thePrimary, locked, pc, in, how, total, trapped>>

-----------------------------------------------------------------------------
(* The steps of acquire, between the size's decision and the instance.     *)
Acquiring(g) ==
    \/ OnceBegin(g) \/ CreatePrimary(g) \/ OnceEnd(g) \/ OnceDone(g)
    \/ TryLock(g) \/ TryLockFails(g)
    \/ PoolGet(g) \/ PoolNew(g) \/ NewOneOff(g)

PoolNext ==
    \/ \E g \in Goroutine :
          \/ \E n \in Totals : AcquireScratch(g, n)
          \/ Acquiring(g)
          \/ Return(g)
          \/ Release(g)
          \/ Trap(g)
    \/ GC

PoolSpec == PoolInit /\ [][PoolNext]_poolVars

-----------------------------------------------------------------------------
(* Every variable has its type: a leased instance is an instance, and a    *)
(* lock, a page count and a lease are of the kinds core.go declares.       *)
PoolTypeOK ==
    /\ once \in {"idle", "running", "done"}
    /\ thePrimary \in Instance \cup {NoInstance}
    /\ locked \subseteq Instance
    /\ pool \subseteq Instance
    /\ victim \subseteq Instance
    /\ pages \in [Instance -> Nat]
    /\ pc \in [Goroutine -> Labels]
    /\ in \in [Goroutine -> Instance \cup {NoInstance}]
    /\ how \in [Goroutine -> Leases]
    /\ total \in [Goroutine -> Nat]
    /\ trapped \subseteq Instance

Holding(g) == pc[g] \in {"inside", "release"}

(* No two calls are ever inside one instance, whatever the interleaving of *)
(* first use, TryLock, Get, Put and the collector (go/core.go, acquire and *)
(* release).                                                               *)
ExclusiveUse ==
    \A g, h \in Goroutine : Holding(g) /\ Holding(h) /\ in[g] = in[h] => g = h

(* What the pool offers is free and whole: base-sized, held by no call,    *)
(* not the primary and never left behind by a panic.                       *)
PoolIsClean ==
    /\ pool \cap victim = {}
    /\ \A i \in Pooled :
          /\ pages[i] = BasePages
          /\ i # thePrimary
          /\ i \notin trapped
          /\ \A g \in Goroutine : Holding(g) => in[g] # i

(* The primary's lock always has somebody to answer for it: the one call   *)
(* that runs on the primary, or a panic that abandoned it.  No other       *)
(* instance's lock is ever taken.                                          *)
LockIsAccountedFor ==
    \A i \in Instance :
        i \in locked <=>
            /\ i = thePrimary
            /\ \/ i \in trapped
               \/ \E g \in Goroutine : /\ Holding(g) /\ in[g] = i
                                       /\ how[g] = "leasePrimary"

(* An instance a panic abandoned (its guest stack pointer is wherever the  *)
(* trap left it) never serves another call: nobody holds it, and the pool  *)
(* does not offer it.                                                      *)
AbandonedForGood ==
    /\ \A g \in Goroutine : Holding(g) => in[g] \notin trapped
    /\ trapped \cap Pooled = {}

(* A call's instance holds what the call asked for, however the instance   *)
(* came to it.                                                             *)
ScratchHoldsCall ==
    \A g \in Goroutine :
        Holding(g) => total[g] + TextOffset <= pages[in[g]] * PageSize

(* Long texts leave no pages behind: an instance bigger than the base      *)
(* exists only while the one call it was made for runs (or panicked).      *)
OneOffsAreDropped ==
    \A i \in Instance :
        pages[i] > BasePages =>
            \/ i \in trapped
            \/ \E g \in Goroutine : /\ Holding(g) /\ in[g] = i
                                    /\ how[g] = "leaseOneOff"

(* The primary is created once and no collection takes it: after first     *)
(* use thePrimary names the same, living, base-sized instance for ever.    *)
PrimaryIsForEver ==
    [][thePrimary # NoInstance =>
          thePrimary' = thePrimary /\ pages'[thePrimary] = BasePages]_poolVars

(* A goroutine that is not inside a door costs no instance: instances that *)
(* are neither the primary nor abandoned are in the pool or in a call.     *)
NothingLeaks ==
    \A i \in Instance :
        pages[i] > 0 =>
            \/ i = thePrimary \/ i \in trapped \/ i \in Pooled
            \/ \E g \in Goroutine : Holding(g) /\ in[g] = i
=============================================================================
