--------------------------- MODULE WorkQueueProofs ---------------------------
(***************************************************************************)
(* Proofs about the work queue, for every set of rows and workers, every   *)
(* lease, bound and fault budget.                                          *)
(***************************************************************************)
EXTENDS WorkQueue, FiniteSetTheorems, TLAPS

(***************************************************************************)
(* Type correctness.  TypeOK is inductive by itself.                       *)
(***************************************************************************)

\* The part of the assumption that arithmetic needs.
LEMMA Bounds ==
    /\ Lease \in Nat
    /\ DeferDelay \in Nat
    /\ MaxAttempts \in Nat \ {0}
    /\ MaxFaults \in Nat
BY QueueAssumption

\* The rank a transaction gives to the rows it inserts is a natural number.
LEMMA RankIsNat == Cardinality(Rows) \in Nat
<1>1. IsFiniteSet(Rows)
  BY QueueAssumption, FS_Subset, Rows \subseteq Item DEF Rows
<1> QED
  BY <1>1, FS_CardinalityType

\* enqueueTx keeps the two columns it writes well typed.
LEMMA EnqueueTypes ==
    ASSUME TypeOK, NEW S, NEW st \in [Item -> Status]
    PROVE  /\ EnqueuedStatus(S, st) \in [Item -> Status]
           /\ EnqueuedCreated(S) \in [Item -> Nat]
<1>1. EnqueuedStatus(S, st) \in [Item -> Status]
  BY DEF EnqueuedStatus, Status
<1>2. EnqueuedCreated(S) \in [Item -> Nat]
  BY RankIsNat DEF EnqueuedCreated, TypeOK
<1> QED
  BY <1>1, <1>2

\* An update with a value of the range keeps a function's type, at any point.
LEMMA UpdateType ==
    ASSUME NEW S, NEW T, NEW f \in [S -> T], NEW x, NEW v \in T
    PROVE  [f EXCEPT ![x] = v] \in [S -> T]
OBVIOUS

\* Releasing a lease and forgetting an item keep the columns they write well typed.
LEMMA ReleaseTypes ==
    ASSUME TypeOK, NEW i, ReleaseLease(i)
    PROVE  /\ owner' \in [Item -> Worker \cup {None}]
           /\ leaseLeft' \in [Item -> -1 .. Lease]
<1>1. -1 \in -1 .. Lease
  BY Bounds
<1> QED
  BY <1>1, UpdateType DEF TypeOK, ReleaseLease

LEMMA ForgetTypes ==
    ASSUME TypeOK, NEW w \in Worker, Forget(w)
    PROVE  /\ held' \in [Worker -> Item \cup {None}]
           /\ fence' \in [Worker -> Nat]
           /\ phase' \in [Worker -> Phase]
BY DEF TypeOK, Forget, Phase

LEMMA InitTypeOK == Init => TypeOK
BY Bounds DEF Init, TypeOK, Status, Settled, Phase

LEMMA NextTypeOK == TypeOK /\ [Next]_vars => TypeOK'
<1> SUFFICES ASSUME TypeOK, [Next]_vars PROVE TypeOK'
  OBVIOUS
<1>1. CASE WatchRead
  BY <1>1 DEF TypeOK, WatchRead, rowVars, workerVars
<1>2. CASE WatchEnqueue
  BY <1>2, EnqueueTypes DEF TypeOK, WatchEnqueue, workerVars
<1>3. ASSUME NEW w \in Worker, Claim(w) PROVE TypeOK'
  <2> PICK i \in Claimable(w) :
        /\ status' = [status EXCEPT ![i] = "leased"]
        /\ attempts' = [attempts EXCEPT ![i] = @ + 1]
        /\ owner' = [owner EXCEPT ![i] = w]
        /\ leaseLeft' = [leaseLeft EXCEPT ![i] = Lease]
        /\ held' = [held EXCEPT ![w] = i]
        /\ fence' = [fence EXCEPT ![w] = attempts[i]]
        /\ phase' = [phase EXCEPT ![w] = "claimed"]
    BY <1>3 DEF Claim
  <2>1. i \in Item
    BY DEF Claimable
  <2>2. UNCHANGED <<waitLeft, created, runs, seen, faults>>
    BY <1>3 DEF Claim
  <2>3. status' \in [Item -> Status] /\ attempts' \in [Item -> Nat]
    BY <2>1 DEF TypeOK, Status
  <2>4. owner' \in [Item -> Worker \cup {None}] /\ leaseLeft' \in [Item -> -1 .. Lease]
    BY <2>1, Bounds DEF TypeOK
  <2>5. /\ held' \in [Worker -> Item \cup {None}]
        /\ fence' \in [Worker -> Nat]
        /\ phase' \in [Worker -> Phase]
    BY <2>1 DEF TypeOK, Phase
  <2> QED
    BY <2>2, <2>3, <2>4, <2>5 DEF TypeOK
<1>4. ASSUME NEW w \in Worker, RunCommand(w) PROVE TypeOK'
  <2>1. runs' \in [Item -> Nat]
    <3>1. runs' = [j \in Item |-> IF j = held[w] THEN runs[j] + 1 ELSE runs[j]]
      BY <1>4 DEF TypeOK, RunCommand
    <3> QED
      BY <3>1 DEF TypeOK
  <2>2. phase' \in [Worker -> Phase]
    BY <1>4 DEF TypeOK, RunCommand, Phase
  <2>3. UNCHANGED <<rowVars, held, fence, seen, faults>>
    BY <1>4 DEF RunCommand
  <2> QED
    BY <2>1, <2>2, <2>3 DEF TypeOK, rowVars
<1>5. ASSUME NEW w \in Worker, Succeed(w) PROVE TypeOK'
  <2>1. [status EXCEPT ![held[w]] = "succeeded"] \in [Item -> Status]
    BY DEF TypeOK, Status, Settled
  <2>2. status' \in [Item -> Status] /\ created' \in [Item -> Nat]
    <3>1. PICK next \in Follow[held[w]] :
            /\ status' = EnqueuedStatus(next, [status EXCEPT ![held[w]] = "succeeded"])
            /\ created' = EnqueuedCreated(next)
      BY <1>5 DEF Succeed
    <3> QED
      BY <3>1, <2>1, EnqueueTypes
  <2>3. ReleaseLease(held[w]) /\ Forget(w) /\ UNCHANGED <<attempts, waitLeft, runs, seen, faults>>
    BY <1>5 DEF Succeed
  <2> QED
    BY <2>2, <2>3, ReleaseTypes, ForgetTypes DEF TypeOK
<1>6. ASSUME NEW w \in Worker, Fail(w) PROVE TypeOK'
  <2>1. status' \in [Item -> Status]
    BY <1>6 DEF TypeOK, Fail, Status, Settled
  <2>2. /\ ReleaseLease(held[w]) /\ Forget(w)
        /\ UNCHANGED <<attempts, waitLeft, created, runs, seen, faults>>
    BY <1>6 DEF Fail
  <2> QED
    BY <2>1, <2>2, ReleaseTypes, ForgetTypes DEF TypeOK
<1>7. ASSUME NEW w \in Worker, Defer(w) PROVE TypeOK'
  <2>1. status' \in [Item -> Status]
    BY <1>7 DEF TypeOK, Defer, Status
  <2>2. waitLeft' \in [Item -> 0 .. DeferDelay] /\ faults' \in 0 .. MaxFaults
    <3>1. DeferDelay \in 0 .. DeferDelay /\ waitLeft' = [waitLeft EXCEPT ![held[w]] = DeferDelay]
      BY <1>7, Bounds DEF Defer
    <3>2. waitLeft' \in [Item -> 0 .. DeferDelay]
      BY <3>1, UpdateType DEF TypeOK
    <3>3. faults' \in 0 .. MaxFaults
      BY <1>7, Bounds DEF TypeOK, Defer
    <3> QED
      BY <3>2, <3>3
  <2>3. /\ ReleaseLease(held[w]) /\ Forget(w)
        /\ UNCHANGED <<attempts, created, runs, seen>>
    BY <1>7 DEF Defer
  <2> QED
    BY <2>1, <2>2, <2>3, ReleaseTypes, ForgetTypes DEF TypeOK
<1>8. ASSUME NEW w \in Worker, Crash(w) PROVE TypeOK'
  <2>1. faults' \in 0 .. MaxFaults
    BY <1>8, Bounds DEF TypeOK, Crash
  <2>2. Forget(w) /\ UNCHANGED <<rowVars, runs, seen>>
    BY <1>8 DEF Crash
  <2> QED
    BY <2>1, <2>2, ForgetTypes DEF TypeOK, rowVars
<1>11. ASSUME NEW w \in Worker, Hang(w) PROVE TypeOK'
  <2>1. faults' \in 0 .. MaxFaults /\ phase' \in [Worker -> Phase]
    BY <1>11, Bounds DEF TypeOK, Hang, Phase
  <2>2. UNCHANGED <<rowVars, runs, held, fence, seen>>
    BY <1>11 DEF Hang
  <2> QED
    BY <2>1, <2>2 DEF TypeOK, rowVars
<1>9. CASE Tick
  <2>1. leaseLeft' \in [Item -> -1 .. Lease] /\ waitLeft' \in [Item -> 0 .. DeferDelay]
    BY <1>9, Bounds DEF TypeOK, Tick
  <2>2. faults' \in 0 .. MaxFaults
    BY <1>9, Bounds DEF TypeOK, Tick
  <2>3. UNCHANGED <<status, attempts, owner, created, runs, workerVars, seen>>
    BY <1>9 DEF Tick
  <2> QED
    BY <2>1, <2>2, <2>3 DEF TypeOK, workerVars
<1>10. CASE UNCHANGED vars
  BY <1>10 DEF TypeOK, vars, rowVars, workerVars
<1> QED
  BY <1>1, <1>2, <1>3, <1>4, <1>5, <1>6, <1>7, <1>8, <1>9, <1>10, <1>11 DEF Next

\* Every variable keeps its type, whatever the daemons, the faults and the clock do.
THEOREM TypeCorrect == Spec => []TypeOK
BY InitTypeOK, NextTypeOK, PTL DEF Spec

(***************************************************************************)
(* The inductive invariant.  One lemma per part of it, so that each names  *)
(* the parts it leans on: the fences need only each other, the properties  *)
(* of settled rows need the fences.                                        *)
(***************************************************************************)

\* What a step does to the columns of a settled row, stated once.
LEMMA HeldRow ==
    ASSUME TypeOK, Holding, NEW w \in Worker, phase[w] # "idle"
    PROVE  held[w] \in Item /\ held[w] # None
BY DEF TypeOK, Holding

LEMMA ClaimedRow ==
    ASSUME TypeOK, NEW w \in Worker, Claim(w)
    PROVE  \E i \in Item :
        /\ status[i] \in {"queued", "leased"}
        /\ status' = [status EXCEPT ![i] = "leased"]
        /\ attempts' = [attempts EXCEPT ![i] = @ + 1]
        /\ owner' = [owner EXCEPT ![i] = w]
        /\ leaseLeft' = [leaseLeft EXCEPT ![i] = Lease]
        /\ held' = [held EXCEPT ![w] = i]
        /\ fence' = [fence EXCEPT ![w] = attempts[i]]
        /\ phase' = [phase EXCEPT ![w] = "claimed"]
        /\ UNCHANGED <<waitLeft, created, runs, seen, faults>>
BY DEF Claim, Claimable

\* The steps fall into five kinds as far as the workers' notes are concerned.
LEMMA WorkerSteps ==
    ASSUME [Next]_vars
    PROVE  \/ UNCHANGED <<held, fence, phase, runs, attempts>>
           \/ \E w \in Worker : Claim(w)
           \/ \E w \in Worker : RunCommand(w)
           \/ \E w \in Worker : phase[w] # "idle" /\ Forget(w) /\ UNCHANGED <<attempts, runs>>
           \/ \E w \in Worker : Hang(w)
<1>1. CASE WatchRead \/ WatchEnqueue \/ Tick \/ UNCHANGED vars
  BY <1>1 DEF WatchRead, WatchEnqueue, Tick, vars, rowVars, workerVars
<1>2. ASSUME NEW w \in Worker, Succeed(w) \/ Fail(w) \/ Defer(w) \/ Crash(w)
      PROVE  phase[w] # "idle" /\ Forget(w) /\ UNCHANGED <<attempts, runs>>
  BY <1>2 DEF Succeed, Fail, Defer, Crash, rowVars
<1> QED
  BY <1>1, <1>2 DEF Next

\* The notes of the workers: Holding, FenceBehind, FencesDistinct, EffectBehind.
Notes == Holding /\ FenceBehind /\ FencesDistinct /\ EffectBehind

LEMMA InitNotes == Init => Notes
BY DEF Init, Notes, Holding, FenceBehind, FencesDistinct, EffectBehind

LEMMA NextNotes == TypeOK /\ Notes /\ [Next]_vars => Notes'
<1> SUFFICES ASSUME TypeOK, Notes, [Next]_vars PROVE Notes'
  OBVIOUS
<1> USE DEF Notes, Holding, FenceBehind, FencesDistinct, EffectBehind
<1>1. CASE UNCHANGED <<held, fence, phase, runs, attempts>>
  BY <1>1
<1>2. ASSUME NEW w \in Worker, Claim(w) PROVE Notes'
  <2>1. PICK i \in Item :
        /\ attempts' = [attempts EXCEPT ![i] = @ + 1]
        /\ held' = [held EXCEPT ![w] = i]
        /\ fence' = [fence EXCEPT ![w] = attempts[i]]
        /\ phase' = [phase EXCEPT ![w] = "claimed"]
        /\ UNCHANGED runs
    BY <1>2, ClaimedRow
  <2>2. i # None
    BY QueueAssumption
  <2>3. Holding' /\ EffectBehind'
    BY <2>1, <2>2 DEF TypeOK, Phase
  <2>4. FenceBehind'
    BY <2>1, <2>2 DEF TypeOK
  <2>5. FencesDistinct'
    BY <2>1, <2>2 DEF TypeOK
  <2> QED
    BY <2>3, <2>4, <2>5
<1>3. ASSUME NEW w \in Worker, RunCommand(w) PROVE Notes'
  <2>1. /\ phase[w] = "claimed"
        /\ phase' = [phase EXCEPT ![w] = "ran"]
        /\ UNCHANGED <<held, fence, attempts>>
    BY <1>3 DEF RunCommand, rowVars
  <2>2. held[w] \in Item
    BY <2>1, HeldRow
  <2>3. \A i \in Item : runs'[i] = IF i = held[w] THEN runs[i] + 1 ELSE runs[i]
    BY <1>3 DEF RunCommand, TypeOK
  <2>4. Holding' /\ FenceBehind' /\ FencesDistinct'
    BY <2>1 DEF TypeOK
  <2>5. ASSUME NEW v \in Worker, phase'[v] = "ran" PROVE runs'[held'[v]] >= 1
    <3>1. held[v] \in Item
      BY <2>1, <2>5, HeldRow DEF TypeOK
    <3>2. runs[held[v]] \in Nat /\ runs[held[w]] \in Nat
      BY <2>2, <3>1 DEF TypeOK
    <3>3. v # w => runs[held[v]] >= 1
      BY <2>1, <2>5 DEF TypeOK
    <3> QED
      BY <2>1, <2>2, <2>3, <3>1, <3>2, <3>3
  <2> QED
    BY <2>4, <2>5
<1>4. ASSUME NEW w \in Worker, phase[w] # "idle", Forget(w), UNCHANGED <<attempts, runs>>
      PROVE  Notes'
  BY <1>4 DEF TypeOK, Forget, Phase
<1>5. ASSUME NEW w \in Worker, Hang(w) PROVE Notes'
  BY <1>5 DEF TypeOK, Hang, rowVars, Phase
<1> QED
  BY <1>1, <1>2, <1>3, <1>4, <1>5, WorkerSteps

\* What one step can do to the status of one row, and who does it.
Kept(i) == status'[i] = status[i]
Requeued(i) == status'[i] = "queued" /\ status[i] \notin Terminal
Taken(i) == status[i] \in {"queued", "leased"} /\ status'[i] = "leased"
SucceededBy(i, w) == phase[w] = "ran" /\ held[w] = i /\ status'[i] = "succeeded" /\ Succeed(w)
FailedBy(i, w) ==
    /\ phase[w] # "idle" /\ held[w] = i /\ Fail(w)
    /\ status'[i] = IF fence[w] + 1 >= MaxAttempts THEN "dead" ELSE "failed"
DeferredBy(i, w) == phase[w] # "idle" /\ held[w] = i /\ status'[i] = "queued" /\ Defer(w)

LEMMA StatusSteps ==
    ASSUME TypeOK, Holding, [Next]_vars, NEW i \in Item
    PROVE  \/ Kept(i) \/ Requeued(i) \/ Taken(i)
           \/ \E w \in Worker : SucceededBy(i, w) \/ FailedBy(i, w) \/ DeferredBy(i, w)
<1> USE DEF Kept, Requeued, Taken, SucceededBy, FailedBy, DeferredBy
<1>1. CASE WatchRead \/ Tick \/ UNCHANGED vars \/ \E w \in Worker : RunCommand(w) \/ Crash(w) \/ Hang(w)
  BY <1>1 DEF WatchRead, Tick, RunCommand, Crash, Hang, vars, rowVars
<1>2. CASE WatchEnqueue
  BY <1>2 DEF WatchEnqueue, EnqueuedStatus
<1>3. ASSUME NEW w \in Worker, Claim(w) PROVE Kept(i) \/ Taken(i)
  BY <1>3, ClaimedRow DEF TypeOK
<1>4. ASSUME NEW w \in Worker, Succeed(w)
      PROVE  Kept(i) \/ Requeued(i) \/ SucceededBy(i, w)
  <2>1. PICK next \in Follow[held[w]] :
          status' = EnqueuedStatus(next, [status EXCEPT ![held[w]] = "succeeded"])
    BY <1>4 DEF Succeed
  <2>2. phase[w] = "ran" /\ held[w] \in Item
    BY <1>4, HeldRow DEF Succeed
  <2>3. CASE i = held[w]
    BY <1>4, <2>1, <2>2, <2>3 DEF EnqueuedStatus, Terminal, TypeOK
  <2>4. CASE i # held[w]
    BY <2>1, <2>4 DEF EnqueuedStatus, TypeOK
  <2> QED
    BY <2>3, <2>4
<1>5. ASSUME NEW w \in Worker, Fail(w) PROVE Kept(i) \/ FailedBy(i, w)
  BY <1>5 DEF Fail, TypeOK
<1>6. ASSUME NEW w \in Worker, Defer(w) PROVE Kept(i) \/ DeferredBy(i, w)
  BY <1>6 DEF Defer, TypeOK
<1> QED
  BY <1>1, <1>2, <1>3, <1>4, <1>5, <1>6 DEF Next

\* The counters of a row never fall.
LEMMA CountersGrow ==
    ASSUME TypeOK, Holding, [Next]_vars, NEW i \in Item
    PROVE  attempts'[i] >= attempts[i] /\ runs'[i] >= runs[i]
<1>1. CASE UNCHANGED <<held, fence, phase, runs, attempts>>
  BY <1>1 DEF TypeOK
<1>2. ASSUME NEW w \in Worker, Claim(w) PROVE attempts'[i] >= attempts[i] /\ runs'[i] >= runs[i]
  BY <1>2, ClaimedRow DEF TypeOK
<1>3. ASSUME NEW w \in Worker, RunCommand(w)
      PROVE  attempts'[i] >= attempts[i] /\ runs'[i] >= runs[i]
  BY <1>3 DEF RunCommand, rowVars, TypeOK
<1>4. CASE UNCHANGED <<attempts, runs>>
  BY <1>4 DEF TypeOK
<1> QED
  BY <1>1, <1>2, <1>3, <1>4, WorkerSteps DEF Hang, rowVars

LEMMA NextDeadIsEarned ==
    TypeOK /\ Notes /\ DeadIsEarned /\ [Next]_vars => DeadIsEarned'
<1> SUFFICES ASSUME TypeOK, Notes, DeadIsEarned, [Next]_vars,
                    NEW i \in Item, status'[i] = "dead"
             PROVE  attempts'[i] >= MaxAttempts
  BY DEF DeadIsEarned
<1>1. attempts'[i] >= attempts[i] /\ attempts[i] \in Nat /\ attempts'[i] \in Nat
  BY CountersGrow, NextTypeOK DEF Notes, TypeOK
<1>2. CASE Kept(i)
  BY <1>1, <1>2, Bounds DEF Kept, DeadIsEarned
<1>3. ASSUME NEW w \in Worker, FailedBy(i, w) PROVE attempts'[i] >= MaxAttempts
  <2>1. fence[w] < attempts[i] /\ fence[w] \in Nat
    BY <1>3, QueueAssumption DEF FailedBy, Notes, FenceBehind, TypeOK
  <2>2. fence[w] + 1 >= MaxAttempts
    BY <1>3 DEF FailedBy
  <2> QED
    BY <1>1, <2>1, <2>2, Bounds
<1> QED
  BY <1>2, <1>3, StatusSteps DEF Notes, Requeued, Taken, SucceededBy, DeferredBy

LEMMA NextAtLeastOnce ==
    TypeOK /\ Notes /\ AtLeastOnce /\ [Next]_vars => AtLeastOnce'
<1> SUFFICES ASSUME TypeOK, Notes, AtLeastOnce, [Next]_vars,
                    NEW i \in Item, status'[i] = "succeeded"
             PROVE  runs'[i] >= 1
  BY DEF AtLeastOnce
<1>1. runs'[i] >= runs[i] /\ runs[i] \in Nat /\ runs'[i] \in Nat
  BY CountersGrow, NextTypeOK DEF Notes, TypeOK
<1>2. CASE Kept(i)
  BY <1>1, <1>2 DEF Kept, AtLeastOnce
<1>3. ASSUME NEW w \in Worker, SucceededBy(i, w) PROVE runs'[i] >= 1
  BY <1>1, <1>3 DEF SucceededBy, Notes, EffectBehind
<1> QED
  BY <1>2, <1>3, StatusSteps DEF Notes, Requeued, Taken, FailedBy, DeferredBy

\* A lease appears with a claim and otherwise only runs down or is cleared.
LEMMA LeaseSteps ==
    ASSUME TypeOK, Holding, [Next]_vars, NEW i \in Item
    PROVE  \/ owner'[i] = owner[i] /\ (leaseLeft[i] = -1 => leaseLeft'[i] = -1)
           \/ owner'[i] = None /\ leaseLeft'[i] = -1
           \/ status'[i] = "leased"
<1>1. CASE UNCHANGED <<owner, leaseLeft>>
  BY <1>1
<1>2. CASE \/ WatchRead \/ WatchEnqueue \/ UNCHANGED vars
           \/ \E w \in Worker : RunCommand(w) \/ Crash(w) \/ Hang(w)
  BY <1>1, <1>2 DEF WatchRead, WatchEnqueue, RunCommand, Crash, Hang, vars, rowVars
<1>3. CASE Tick
  BY <1>3 DEF Tick, TypeOK
<1>4. ASSUME NEW w \in Worker, Claim(w)
      PROVE  \/ owner'[i] = owner[i] /\ leaseLeft'[i] = leaseLeft[i]
             \/ status'[i] = "leased"
  BY <1>4, ClaimedRow DEF TypeOK
<1>5. ASSUME NEW w \in Worker, ReleaseLease(held[w])
      PROVE  \/ owner'[i] = owner[i] /\ leaseLeft'[i] = leaseLeft[i]
             \/ owner'[i] = None /\ leaseLeft'[i] = -1
  BY <1>5 DEF ReleaseLease, TypeOK
<1>6. ASSUME NEW w \in Worker, Succeed(w) \/ Fail(w) \/ Defer(w)
      PROVE  ReleaseLease(held[w])
  BY <1>6 DEF Succeed, Fail, Defer
<1> QED
  BY <1>2, <1>3, <1>4, <1>5, <1>6 DEF Next

\* The row a worker settles is released in the same step.
LEMMA SettledIsReleased ==
    ASSUME TypeOK, NEW w \in Worker, NEW i \in Item,
           SucceededBy(i, w) \/ FailedBy(i, w) \/ DeferredBy(i, w)
    PROVE  owner'[i] = None /\ leaseLeft'[i] = -1
BY DEF SucceededBy, FailedBy, DeferredBy, Succeed, Fail, Defer, ReleaseLease, TypeOK

LEMMA NextSettledHoldsNoLease ==
    TypeOK /\ Notes /\ SettledHoldsNoLease /\ [Next]_vars => SettledHoldsNoLease'
<1> SUFFICES ASSUME TypeOK, Notes, SettledHoldsNoLease, [Next]_vars,
                    NEW i \in Item, status'[i] \in Settled \cup {"absent"}
             PROVE  owner'[i] = None /\ leaseLeft'[i] = -1
  BY DEF SettledHoldsNoLease
<1>1. CASE Kept(i)
  BY <1>1, LeaseSteps DEF Kept, Notes, SettledHoldsNoLease, Settled
<1>2. ASSUME NEW w \in Worker, SucceededBy(i, w) \/ FailedBy(i, w)
      PROVE  owner'[i] = None /\ leaseLeft'[i] = -1
  BY <1>2, SettledIsReleased
<1> QED
  BY <1>1, <1>2, StatusSteps DEF Notes, Requeued, Taken, DeferredBy, Settled

\* Rows are never deleted.
LEMMA RowsStay ==
    ASSUME TypeOK, Holding, [Next]_vars
    PROVE  Rows \subseteq Rows'
BY StatusSteps DEF Rows, Kept, Requeued, Taken, SucceededBy, FailedBy, DeferredBy

LEMMA NextChainUnbroken ==
    TypeOK /\ Notes /\ ChainUnbroken /\ [Next]_vars => ChainUnbroken'
<1> SUFFICES ASSUME TypeOK, Notes, ChainUnbroken, [Next]_vars,
                    NEW i \in Item, status'[i] = "succeeded"
             PROVE  \E next \in Follow[i] : next \subseteq Rows'
  BY DEF ChainUnbroken
<1>1. CASE Kept(i)
  BY <1>1, RowsStay DEF Kept, ChainUnbroken, Notes
<1>2. ASSUME NEW w \in Worker, SucceededBy(i, w)
      PROVE  \E next \in Follow[i] : next \subseteq Rows'
  <2>1. PICK next \in Follow[i] :
          status' = EnqueuedStatus(next, [status EXCEPT ![i] = "succeeded"])
    BY <1>2 DEF SucceededBy, Succeed
  <2>2. next \subseteq Item
    BY QueueAssumption
  <2>3. \A j \in next : status'[j] # "absent"
    BY <2>1, <2>2 DEF EnqueuedStatus, Terminal
  <2> QED
    BY <2>2, <2>3 DEF Rows
<1> QED
  BY <1>1, <1>2, StatusSteps DEF Notes, Requeued, Taken, FailedBy, DeferredBy

LEMMA NextSettledOnce ==
    TypeOK /\ Notes /\ SettledOnce /\ [Next]_vars => SettledOnce'
<1> SUFFICES ASSUME TypeOK, Notes, SettledOnce, [Next]_vars, NEW i \in Item,
                    status'[i] \in Settled, attempts'[i] = 1, NEW v \in Worker, held'[v] = i
             PROVE  FALSE
  BY DEF SettledOnce
<1> USE DEF Notes
<1>1. TypeOK' /\ Notes'
  BY NextTypeOK, NextNotes
<1>2. i # None
  BY QueueAssumption
<1>3. fence'[v] = 0
  BY <1>1, <1>2 DEF FenceBehind, TypeOK
<1>4. CASE Kept(i)
  <2>1. CASE UNCHANGED <<held, attempts>>
    BY <1>4, <2>1 DEF SettledOnce, Kept
  <2>2. ASSUME NEW w \in Worker, Claim(w) PROVE FALSE
    <3>1. PICK j \in Item :
            /\ status[j] \in {"queued", "leased"}
            /\ status' = [status EXCEPT ![j] = "leased"]
            /\ attempts' = [attempts EXCEPT ![j] = @ + 1]
            /\ held' = [held EXCEPT ![w] = j]
      BY <2>2, ClaimedRow
    <3>2. i # j
      BY <3>1 DEF Settled, TypeOK
    <3> QED
      BY <1>4, <3>1, <3>2 DEF SettledOnce, Kept, TypeOK
  <2>3. ASSUME NEW w \in Worker, Forget(w), UNCHANGED attempts PROVE FALSE
    BY <1>2, <1>4, <2>3 DEF SettledOnce, Kept, Forget, TypeOK
  <2>4. ASSUME NEW w \in Worker, RunCommand(w) \/ Hang(w) PROVE UNCHANGED <<held, attempts>>
    BY <2>4 DEF RunCommand, Hang, rowVars
  <2> QED
    BY <2>1, <2>2, <2>3, <2>4, WorkerSteps
<1>5. ASSUME NEW w \in Worker, SucceededBy(i, w) \/ FailedBy(i, w) PROVE FALSE
  <2>1. /\ held[w] = i
        /\ held' = [held EXCEPT ![w] = None]
        /\ fence' = [fence EXCEPT ![w] = 0]
        /\ UNCHANGED attempts
    BY <1>5 DEF SucceededBy, FailedBy, Succeed, Fail, Forget
  <2>2. v # w /\ held[v] = i /\ fence[v] = fence'[v]
    BY <1>2, <2>1 DEF TypeOK
  <2>3. fence[w] = 0
    BY <1>2, <2>1 DEF FenceBehind, TypeOK
  <2> QED
    BY <1>2, <1>3, <2>1, <2>2, <2>3 DEF FencesDistinct
<1> QED
  BY <1>4, <1>5, StatusSteps DEF Requeued, Taken, DeferredBy, Settled

LEMMA NextHeldExists ==
    TypeOK /\ Notes /\ HeldExists /\ [Next]_vars => HeldExists'
<1> SUFFICES ASSUME TypeOK, Notes, HeldExists, [Next]_vars,
                    NEW w \in Worker, held'[w] # None
             PROVE  held'[w] \in Rows'
  BY DEF HeldExists
<1>1. CASE held'[w] = held[w]
  BY <1>1, RowsStay DEF HeldExists, Notes
<1>2. ASSUME NEW v \in Worker, Claim(v) PROVE held'[w] = held[w] \/ held'[w] \in Rows'
  BY <1>2, ClaimedRow DEF TypeOK, Rows
<1>3. ASSUME NEW v \in Worker, Forget(v) PROVE held'[w] = held[w]
  BY <1>3 DEF Forget, TypeOK
<1>4. ASSUME NEW v \in Worker, RunCommand(v) \/ Hang(v) PROVE held'[w] = held[w]
  BY <1>4 DEF RunCommand, Hang
<1> QED
  BY <1>1, <1>2, <1>3, <1>4, WorkerSteps

LEMMA NextCauseRan ==
    TypeOK /\ Notes /\ HeldExists /\ CauseRan /\ [Next]_vars => CauseRan'
<1> SUFFICES ASSUME TypeOK, Notes, HeldExists, CauseRan, [Next]_vars, NEW i \in Item,
                    status'[i] # "absent", i \notin Source
             PROVE  \E p \in Item : runs'[p] >= 1 /\ \E next \in Follow[p] : i \in next
  BY DEF CauseRan, Rows
<1>1. ASSUME NEW p \in Item, runs[p] >= 1 PROVE runs'[p] >= 1
  BY <1>1, CountersGrow, NextTypeOK DEF Notes, TypeOK
<1>2. CASE status[i] # "absent"
  BY <1>1, <1>2 DEF CauseRan, Rows
<1>3. CASE status[i] = "absent"
  <2>1. ASSUME NEW w \in Worker, held[w] = i PROVE FALSE
    BY <1>3, <2>1, QueueAssumption DEF HeldExists, Rows
  <2>2. Requeued(i)
    BY <1>3, <2>1, StatusSteps DEF Notes, Kept, Taken, SucceededBy, FailedBy, DeferredBy
  <2>3. ASSUME NEW w \in Worker, Succeed(w)
        PROVE  \E p \in Item : runs'[p] >= 1 /\ \E next \in Follow[p] : i \in next
    <3>1. held[w] \in Item /\ runs[held[w]] >= 1
      BY <2>3, HeldRow DEF Succeed, Notes, EffectBehind
    <3>2. PICK next \in Follow[held[w]] :
            status' = EnqueuedStatus(next, [status EXCEPT ![held[w]] = "succeeded"])
      BY <2>3 DEF Succeed
    <3>3. i \in next
      BY <1>3, <2>1, <3>2 DEF EnqueuedStatus, TypeOK
    <3> QED
      BY <1>1, <3>1, <3>2, <3>3
  <2>4. CASE WatchEnqueue
    BY <1>3, <2>4 DEF WatchEnqueue, EnqueuedStatus, TypeOK
  <2>5. ASSUME NEW w \in Worker, Claim(w) PROVE FALSE
    BY <1>3, <2>5, ClaimedRow DEF TypeOK
  <2>6. ASSUME NEW w \in Worker, Fail(w) \/ Defer(w) PROVE FALSE
    BY <1>3, <2>1, <2>6 DEF Fail, Defer, TypeOK
  <2>7. ASSUME UNCHANGED status PROVE FALSE
    BY <1>3, <2>7
  <2> QED
    BY <2>3, <2>4, <2>5, <2>6, <2>7
       DEF Next, WatchRead, RunCommand, Crash, Hang, Tick, vars, rowVars
<1> QED
  BY <1>2, <1>3

(***************************************************************************)
(* Claims against effects.  The claims whose command is still to commit    *)
(* are counted, so this is the one part that needs cardinalities.          *)
(***************************************************************************)

LEMMA PendingFinite ==
    ASSUME NEW i PROVE IsFiniteSet(Pending(i)) /\ Cardinality(Pending(i)) \in Nat
<1>1. Pending(i) \in SUBSET Worker
  BY DEF Pending
<1> QED
  BY <1>1, QueueAssumption, FS_Subset, FS_CardinalityType

LEMMA InitClaimsCoverRuns == Init => ClaimsCoverRuns
<1> SUFFICES ASSUME Init, NEW i \in Item PROVE runs[i] + Cardinality(Pending(i)) <= attempts[i]
  BY DEF ClaimsCoverRuns
<1>1. Pending(i) = {}
  BY DEF Init, Pending
<1> QED
  BY <1>1, FS_EmptySet DEF Init

LEMMA NextClaimsCoverRuns ==
    TypeOK /\ Notes /\ ClaimsCoverRuns /\ [Next]_vars => ClaimsCoverRuns'
<1> SUFFICES ASSUME TypeOK, Notes, ClaimsCoverRuns, [Next]_vars, NEW i \in Item
             PROVE  (runs[i] + Cardinality(Pending(i)) <= attempts[i])'
  BY DEF ClaimsCoverRuns
<1> DEFINE P == Pending(i)
           Q == Pending(i)'
<1>1. /\ runs[i] + Cardinality(P) <= attempts[i]
      /\ runs[i] \in Nat /\ attempts[i] \in Nat
      /\ IsFiniteSet(P) /\ Cardinality(P) \in Nat
  BY PendingFinite DEF ClaimsCoverRuns, TypeOK
<1>2. CASE UNCHANGED <<held, fence, phase, runs, attempts>>
  BY <1>1, <1>2 DEF Pending
<1>3. ASSUME NEW w \in Worker, Claim(w)
      PROVE  runs'[i] + Cardinality(Q) <= attempts'[i]
  <2>1. PICK j \in Item :
          /\ attempts' = [attempts EXCEPT ![j] = @ + 1]
          /\ held' = [held EXCEPT ![w] = j]
          /\ phase' = [phase EXCEPT ![w] = "claimed"]
          /\ UNCHANGED runs
    BY <1>3, ClaimedRow
  <2>2. w \notin P
    BY <1>3 DEF Claim, Pending
  <2>3. CASE i = j
    <3>1. Q = P \cup {w}
      BY <2>1, <2>3 DEF Pending, TypeOK
    <3>2. Cardinality(Q) = Cardinality(P) + 1
      BY <1>1, <2>2, <3>1, FS_AddElement
    <3> QED
      BY <1>1, <2>1, <2>3, <3>2 DEF TypeOK
  <2>4. CASE i # j
    <3>1. Q = P
      BY <2>1, <2>2, <2>4 DEF Pending, TypeOK
    <3> QED
      BY <1>1, <2>1, <2>4, <3>1 DEF TypeOK
  <2> QED
    BY <2>3, <2>4
<1>4. ASSUME NEW w \in Worker, RunCommand(w)
      PROVE  runs'[i] + Cardinality(Q) <= attempts'[i]
  <2>1. /\ phase[w] = "claimed"
        /\ phase' = [phase EXCEPT ![w] = "ran"]
        /\ UNCHANGED <<held, attempts>>
    BY <1>4 DEF RunCommand, rowVars
  <2>2. runs'[i] = IF i = held[w] THEN runs[i] + 1 ELSE runs[i]
    BY <1>4 DEF RunCommand, TypeOK
  <2>3. Q = P \ {w}
    BY <2>1 DEF Pending, TypeOK
  <2>4. w \in P <=> held[w] = i
    BY <2>1 DEF Pending
  <2>5. Cardinality(Q) = IF w \in P THEN Cardinality(P) - 1 ELSE Cardinality(P)
    BY <1>1, <2>3, FS_RemoveElement
  <2> QED
    BY <1>1, <2>1, <2>2, <2>4, <2>5
<1>5. ASSUME NEW w \in Worker, Forget(w) \/ Hang(w), UNCHANGED <<attempts, runs>>
      PROVE  runs'[i] + Cardinality(Q) <= attempts'[i]
  <2>1. Q \subseteq P
    BY <1>5, QueueAssumption DEF Pending, Forget, Hang, TypeOK
  <2>2. Cardinality(Q) <= Cardinality(P) /\ Cardinality(Q) \in Nat
    BY <1>1, <2>1, FS_Subset, FS_CardinalityType
  <2> QED
    BY <1>1, <1>5, <2>2
<1>6. ASSUME NEW w \in Worker, Hang(w) PROVE UNCHANGED <<attempts, runs>>
  BY <1>6 DEF Hang, rowVars
<1> QED
  BY <1>2, <1>3, <1>4, <1>5, <1>6, WorkerSteps

(***************************************************************************)
(* Effects against claims.  A claim of a row with one cause is paid by the *)
(* success that enqueued the row, or by the fault that made it claimable   *)
(* again; the row may be open for one claim that is paid already.          *)
(***************************************************************************)

Due(i) == IF Open(i) THEN 1 ELSE 0
Dues(i, p) == attempts[i] + Due(i) + Cardinality(Returning(p))

LEMMA ReturningFinite ==
    ASSUME NEW i PROVE IsFiniteSet(Returning(i)) /\ Cardinality(Returning(i)) \in Nat
<1>1. Returning(i) \in SUBSET Worker
  BY DEF Returning
<1> QED
  BY <1>1, QueueAssumption, FS_Subset, FS_CardinalityType

LEMMA InitEffectsPayClaims == Init => EffectsPayClaims
<1> SUFFICES ASSUME Init, NEW i \in Item, NEW p \in Item
             PROVE  Dues(i, p) <= runs[p] + faults
  BY DEF EffectsPayClaims, Dues, Due
<1>1. Returning(p) = {}
  BY DEF Init, Returning
<1>2. ~ Open(i)
  BY DEF Init, Open
<1> QED
  BY <1>1, <1>2, FS_EmptySet DEF Init, Dues, Due

\* The workers that may settle a row as succeeded, after a step of one worker.
LEMMA ReturningShrinks ==
    ASSUME TypeOK, Notes, NEW p \in Item, NEW w \in Worker, Forget(w) \/ Hang(w)
    PROVE  /\ Cardinality(Returning(p)') <= Cardinality(Returning(p))
           /\ Cardinality(Returning(p)') \in Nat
           /\ phase[w] = "ran" /\ held[w] = p =>
                Cardinality(Returning(p)') + 1 = Cardinality(Returning(p))
<1>1. IsFiniteSet(Returning(p)) /\ Cardinality(Returning(p)) \in Nat
  BY ReturningFinite
<1>2. Returning(p)' = Returning(p) \ {w}
  BY QueueAssumption DEF Returning, Forget, Hang, TypeOK
<1>3. w \in Returning(p) <=> phase[w] = "ran" /\ held[w] = p
  BY DEF Returning
<1>4. Cardinality(Returning(p)') =
        IF w \in Returning(p) THEN Cardinality(Returning(p)) - 1 ELSE Cardinality(Returning(p))
  BY <1>1, <1>2, FS_RemoveElement
<1>5. Cardinality(Returning(p)') \in Nat
  BY <1>1, <1>2, FS_RemoveElement, FS_Subset, FS_CardinalityType
<1> QED
  BY <1>1, <1>3, <1>4, <1>5

\* A row that opens was not worked on in its lease, or was just enqueued: the
\* step that opens it is a fault or a success of a row it follows.
LEMMA OpenSteps ==
    ASSUME TypeOK, Notes, [Next]_vars, NEW i \in Item \ Source, ~Open(i), Open(i)'
    PROVE  \/ faults' = faults + 1
           \/ \E w \in Worker : Succeed(w) /\ held[w] \in Causes(i)
<1> USE DEF Notes
<1>1. CASE WatchRead \/ UNCHANGED vars
  BY <1>1 DEF WatchRead, vars, rowVars, workerVars, Open, Busy
<1>2. CASE WatchEnqueue
  <2>1. i \notin seen
    BY DEF TypeOK
  <2>2. status'[i] = status[i] /\ UNCHANGED <<owner, leaseLeft, held, phase>>
    BY <1>2, <2>1 DEF WatchEnqueue, EnqueuedStatus, workerVars
  <2> QED
    BY <2>2 DEF Open, Busy
<1>3. ASSUME NEW w \in Worker, Claim(w) PROVE FALSE
  <2>1. PICK j \in Item :
        /\ status' = [status EXCEPT ![j] = "leased"]
        /\ owner' = [owner EXCEPT ![j] = w]
        /\ leaseLeft' = [leaseLeft EXCEPT ![j] = Lease]
        /\ held' = [held EXCEPT ![w] = j]
        /\ phase' = [phase EXCEPT ![w] = "claimed"]
    BY <1>3, ClaimedRow
  <2>2. phase[w] = "idle" /\ held[w] = None /\ i # None
    BY <1>3, QueueAssumption DEF Claim, Holding
  <2>3. CASE i = j
    <3>1. Busy(i)'
      BY <2>1, <2>3, Bounds DEF Busy, TypeOK
    <3> QED
      BY <2>1, <2>3, <3>1 DEF Open, TypeOK
  <2>4. CASE i # j
    <3>1. status'[i] = status[i] /\ owner'[i] = owner[i] /\ leaseLeft'[i] = leaseLeft[i]
      BY <2>1, <2>4 DEF TypeOK
    <3>2. Busy(i) => Busy(i)'
      BY <2>1, <2>2, <2>4, <3>1 DEF Busy, TypeOK
    <3> QED
      BY <3>1, <3>2 DEF Open
  <2> QED
    BY <2>3, <2>4
<1>4. ASSUME NEW w \in Worker, RunCommand(w) PROVE FALSE
  <2>1. Busy(i) => Busy(i)'
    BY <1>4 DEF RunCommand, rowVars, Busy, TypeOK
  <2> QED
    BY <1>4, <2>1 DEF RunCommand, rowVars, Open
<1>5. ASSUME NEW w \in Worker, Succeed(w) PROVE held[w] \in Causes(i)
  <2>1. PICK next \in Follow[held[w]] :
          status' = EnqueuedStatus(next, [status EXCEPT ![held[w]] = "succeeded"])
    BY <1>5 DEF Succeed
  <2>2. phase[w] = "ran" /\ held[w] \in Item
    BY <1>5, HeldRow DEF Succeed
  <2>3. CASE i \in next
    BY <2>2, <2>3 DEF Causes
  <2>4. CASE i \notin next /\ i = held[w]
    BY <2>1, <2>4 DEF EnqueuedStatus, Open, TypeOK
  <2>5. CASE i \notin next /\ i # held[w]
    <3>1. status'[i] = status[i]
      BY <2>1, <2>5 DEF EnqueuedStatus, TypeOK
    <3>2. owner'[i] = owner[i] /\ leaseLeft'[i] = leaseLeft[i]
      BY <1>5, <2>5 DEF Succeed, ReleaseLease, TypeOK
    <3>3. Busy(i) => Busy(i)'
      BY <1>5, <2>5, <3>2 DEF Succeed, Forget, Busy, TypeOK
    <3> QED
      BY <3>1, <3>3 DEF Open
  <2> QED
    BY <2>3, <2>4, <2>5
<1>6. ASSUME NEW w \in Worker, Fail(w) PROVE FALSE
  <2>1. CASE i = held[w]
    BY <1>6, <2>1 DEF Fail, Open, TypeOK
  <2>2. CASE i # held[w]
    <3>1. status'[i] = status[i] /\ owner'[i] = owner[i] /\ leaseLeft'[i] = leaseLeft[i]
      BY <1>6, <2>2 DEF Fail, ReleaseLease, TypeOK
    <3>2. Busy(i) => Busy(i)'
      BY <1>6, <2>2, <3>1 DEF Fail, Forget, Busy, TypeOK
    <3> QED
      BY <3>1, <3>2 DEF Open
  <2> QED
    BY <2>1, <2>2
<1>7. ASSUME NEW w \in Worker, Defer(w) \/ Crash(w) \/ Hang(w) PROVE faults' = faults + 1
  BY <1>7 DEF Defer, Crash, Hang
<1>8. CASE Tick
  <2>1. Overrun => faults' = faults + 1
    BY <1>8 DEF Tick
  <2>2. ASSUME ~ Overrun, Busy(i) PROVE Busy(i)'
    <3>1. PICK w \in Worker :
            held[w] = i /\ owner[i] = w /\ phase[w] \in {"claimed", "ran"} /\ leaseLeft[i] >= 0
      BY <2>2 DEF Busy
    <3>2. leaseLeft[i] # 0
      BY <2>2, <3>1 DEF Overrun
    <3>3. leaseLeft'[i] >= 0
      BY <1>8, <3>1, <3>2, Bounds DEF Tick, TypeOK
    <3> QED
      BY <1>8, <3>1, <3>3 DEF Tick, workerVars, Busy
  <2> QED
    BY <1>8, <2>1, <2>2 DEF Tick, Open
<1> QED
  BY <1>1, <1>2, <1>3, <1>4, <1>5, <1>6, <1>7, <1>8 DEF Next

\* The faults only grow.
LEMMA FaultsGrow ==
    ASSUME TypeOK, [Next]_vars
    PROVE  faults' >= faults /\ faults \in Nat /\ faults' \in Nat
<1>1. faults \in Nat
  BY Bounds DEF TypeOK
<1>2. CASE WatchRead \/ WatchEnqueue \/ UNCHANGED vars
  BY <1>1, <1>2 DEF WatchRead, WatchEnqueue, vars
<1>4. ASSUME NEW w \in Worker, Claim(w) \/ RunCommand(w) \/ Succeed(w) \/ Fail(w)
      PROVE  faults' = faults
  BY <1>4 DEF Claim, RunCommand, Succeed, Fail
<1>3. CASE Tick \/ \E w \in Worker : Defer(w) \/ Crash(w) \/ Hang(w)
  <2>1. faults' = faults \/ faults' = faults + 1
    BY <1>3 DEF Defer, Crash, Hang, Tick
  <2> QED
    BY <1>1, <2>1
<1> QED
  BY <1>1, <1>2, <1>3, <1>4 DEF Next

LEMMA NextEffectsPayClaims ==
    TypeOK /\ Notes /\ EffectsPayClaims /\ [Next]_vars => EffectsPayClaims'
<1> SUFFICES ASSUME TypeOK, Notes, EffectsPayClaims, [Next]_vars,
                    NEW i \in Item \ Source, NEW p \in Item, Causes(i) = {p}
             PROVE  Dues(i, p)' <= runs'[p] + faults'
  BY DEF EffectsPayClaims, Dues, Due, Causes
<1> DEFINE R == Cardinality(Returning(p))
<1>1. /\ attempts[i] + Due(i) + R <= runs[p] + faults
      /\ attempts[i] \in Nat /\ Due(i) \in 0 .. 1 /\ R \in Nat /\ runs[p] \in Nat
  BY ReturningFinite DEF EffectsPayClaims, TypeOK, Due
<1>2. faults' >= faults /\ faults \in Nat /\ faults' \in Nat
  BY FaultsGrow
<1>3. Due(i)' \in 0 .. 1 /\ R' \in Nat
  <2>1. Returning(p)' \subseteq Worker
    BY DEF Returning
  <2>2. R' \in Nat
    BY <2>1, QueueAssumption, FS_Subset, FS_CardinalityType
  <2> QED
    BY <2>2 DEF Due
<1>4. (Due(i)' <= Due(i)) \/ faults' = faults + 1
        \/ \E w \in Worker : Succeed(w) /\ held[w] = p
  BY OpenSteps DEF Due
<1>5. CASE UNCHANGED <<held, fence, phase, runs, attempts>>
  <2>1. R' = R
    BY <1>5 DEF Returning
  <2>2. ~ \E w \in Worker : Succeed(w)
    BY <1>5 DEF Succeed, Forget, TypeOK
  <2> QED
    BY <1>1, <1>2, <1>3, <1>4, <1>5, <2>1, <2>2 DEF Dues
<1>6. ASSUME NEW w \in Worker, Claim(w) PROVE Dues(i, p)' <= runs'[p] + faults'
  <2>1. PICK j \in Claimable(w) :
        /\ status' = [status EXCEPT ![j] = "leased"]
        /\ attempts' = [attempts EXCEPT ![j] = @ + 1]
        /\ owner' = [owner EXCEPT ![j] = w]
        /\ leaseLeft' = [leaseLeft EXCEPT ![j] = Lease]
        /\ held' = [held EXCEPT ![w] = j]
        /\ phase' = [phase EXCEPT ![w] = "claimed"]
    BY <1>6 DEF Claim
  <2>2. phase[w] = "idle" /\ UNCHANGED <<runs, faults>> /\ j \in Item
    BY <1>6 DEF Claim, Claimable
  <2>3. R' = R
    BY <2>1, <2>2 DEF Returning, TypeOK
  <2>4. ASSUME NEW v \in Worker, Succeed(v) PROVE FALSE
    <3>1. phase[v] = "ran" /\ phase' = [phase EXCEPT ![v] = "idle"]
      BY <2>4 DEF Succeed, Forget
    <3> QED
      BY <2>1, <2>2, <3>1 DEF TypeOK
  <2>5. CASE i = j
    <3>1. Open(i)
      BY <2>1, <2>5 DEF Claimable, Open, Busy, TypeOK
    <3>2. ~ Open(i)'
      BY <2>1, <2>2, <2>5, Bounds DEF Open, Busy, TypeOK
    <3>3. attempts'[i] = attempts[i] + 1
      BY <2>1, <2>2, <2>5 DEF TypeOK
    <3> QED
      BY <1>1, <2>2, <2>3, <3>1, <3>2, <3>3, <1>2 DEF Dues, Due
  <2>6. CASE i # j
    <3>1. attempts'[i] = attempts[i]
      BY <2>1, <2>6 DEF TypeOK
    <3> QED
      BY <1>1, <1>2, <1>3, <1>4, <2>2, <2>3, <2>4, <3>1 DEF Dues
  <2> QED
    BY <2>5, <2>6
<1>7. ASSUME NEW w \in Worker, RunCommand(w) PROVE Dues(i, p)' <= runs'[p] + faults'
  <2>1. /\ phase[w] = "claimed"
        /\ phase' = [phase EXCEPT ![w] = "ran"]
        /\ UNCHANGED <<held, attempts, status, owner, leaseLeft, faults>>
    BY <1>7 DEF RunCommand, rowVars
  <2>2. runs'[p] = IF p = held[w] THEN runs[p] + 1 ELSE runs[p]
    BY <1>7 DEF RunCommand, TypeOK
  <2>3. Due(i)' <= Due(i)
    <3>1. Busy(i) => Busy(i)'
      BY <2>1 DEF Busy, TypeOK
    <3> QED
      BY <2>1, <3>1 DEF Due, Open
  <2>4. CASE held[w] = p
    <3>1. Returning(p)' = Returning(p) \cup {w} /\ w \notin Returning(p)
      BY <2>1, <2>4 DEF Returning, TypeOK
    <3>2. R' = R + 1
      BY <3>1, ReturningFinite, FS_AddElement
    <3> QED
      BY <1>1, <1>2, <1>3, <2>1, <2>2, <2>3, <2>4, <3>2 DEF Dues
  <2>5. CASE held[w] # p
    <3>1. Returning(p)' = Returning(p)
      BY <2>1, <2>5 DEF Returning, TypeOK
    <3> QED
      BY <1>1, <1>2, <1>3, <2>1, <2>2, <2>3, <2>5, <3>1 DEF Dues
  <2> QED
    BY <2>4, <2>5
<1>8. ASSUME NEW w \in Worker, phase[w] # "idle", Forget(w) \/ Hang(w), UNCHANGED <<attempts, runs>>
      PROVE  Dues(i, p)' <= runs'[p] + faults'
  <2>1. R' <= R /\ (phase[w] = "ran" /\ held[w] = p => R' + 1 = R)
    BY <1>8, ReturningShrinks
  <2>2. ASSUME NEW v \in Worker, Succeed(v) PROVE v = w
    BY <1>8, <2>2 DEF Succeed, Forget, Hang, TypeOK, Phase
  <2>3. (Due(i)' <= Due(i)) \/ faults' = faults + 1 \/ R' + 1 = R
    BY <1>4, <2>1, <2>2 DEF Succeed
  <2> QED
    BY <1>1, <1>2, <1>3, <1>8, <2>1, <2>3 DEF Dues
<1>9. ASSUME NEW w \in Worker, Hang(w) PROVE phase[w] # "idle" /\ UNCHANGED <<attempts, runs>>
  BY <1>9 DEF Hang, rowVars
<1> QED
  BY <1>5, <1>6, <1>7, <1>8, <1>9, WorkerSteps

(***************************************************************************)
(* The theorems.                                                           *)
(***************************************************************************)

LEMMA InitIInv == Init => IInv
<1> SUFFICES ASSUME Init PROVE IInv
  OBVIOUS
<1>1. TypeOK /\ Notes /\ ClaimsCoverRuns
  BY InitTypeOK, InitNotes, InitClaimsCoverRuns
<1>2. SettledHoldsNoLease /\ DeadIsEarned /\ AtLeastOnce /\ ChainUnbroken /\ CauseRan
      /\ SettledOnce /\ HeldExists
  BY DEF Init, SettledHoldsNoLease, DeadIsEarned, AtLeastOnce, ChainUnbroken, CauseRan,
         SettledOnce, HeldExists, Rows, Settled
<1> QED
  BY <1>1, <1>2, InitEffectsPayClaims DEF IInv, Notes

LEMMA NextIInv == IInv /\ [Next]_vars => IInv'
BY NextTypeOK, NextNotes, NextHeldExists, NextSettledHoldsNoLease, NextDeadIsEarned,
   NextAtLeastOnce, NextClaimsCoverRuns, NextChainUnbroken, NextCauseRan, NextSettledOnce,
   NextEffectsPayClaims
   DEF IInv, Notes

\* The inductive invariant holds of the queue.
THEOREM QueueInvariant == Spec => []IInv
BY InitIInv, NextIInv, PTL DEF Spec

\* No settled row keeps a lease.
THEOREM SettledHoldsNoLeaseHolds == Spec => []SettledHoldsNoLease
<1>1. IInv => SettledHoldsNoLease
  BY DEF IInv
<1> QED
  BY <1>1, QueueInvariant, PTL

\* A row is killed only after --max-attempts claims, by whichever worker.
THEOREM DeadIsEarnedHolds == Spec => []DeadIsEarned
<1>1. IInv => DeadIsEarned
  BY DEF IInv
<1> QED
  BY <1>1, QueueInvariant, PTL

\* The effect of a succeeded row took place.
THEOREM AtLeastOnceHolds == Spec => []AtLeastOnce
<1>1. IInv => AtLeastOnce
  BY DEF IInv
<1> QED
  BY <1>1, QueueInvariant, PTL

\* A row's command takes effect at most once per claim.
THEOREM RunsAreCountedHolds == Spec => []RunsAreCounted
<1>1. ASSUME IInv, NEW i \in Item PROVE runs[i] <= attempts[i]
  <2>1. /\ runs[i] + Cardinality(Pending(i)) <= attempts[i]
        /\ runs[i] \in Nat /\ attempts[i] \in Nat /\ Cardinality(Pending(i)) \in Nat
    BY <1>1, PendingFinite DEF IInv, ClaimsCoverRuns, TypeOK
  <2> QED
    BY <2>1
<1>2. IInv => RunsAreCounted
  BY <1>1 DEF RunsAreCounted
<1> QED
  BY <1>2, QueueInvariant, PTL

\* No succeeded row is without its successors.
THEOREM ChainUnbrokenHolds == Spec => []ChainUnbroken
<1>1. IInv => ChainUnbroken
  BY DEF IInv
<1> QED
  BY <1>1, QueueInvariant, PTL

\* No stage is enqueued before a stage it follows took effect.
THEOREM CauseRanHolds == Spec => []CauseRan
<1>1. IInv => CauseRan
  BY DEF IInv
<1> QED
  BY <1>1, QueueInvariant, PTL

\* A row claimed once is settled once.
THEOREM SettledOnceHolds == Spec => []SettledOnce
<1>1. IInv => SettledOnce
  BY DEF IInv
<1> QED
  BY <1>1, QueueInvariant, PTL

\* A row with one cause is claimed at most once per effect of the cause, and once
\* more per fault, whatever re-enqueues, stale settlements and retries do.
THEOREM RepeatsArePaidHolds == Spec => []RepeatsArePaid
<1>1. ASSUME IInv, NEW i \in Item \ Source, NEW p \in Item, Causes(i) = {p}
      PROVE  attempts[i] <= runs[p] + faults
  <2>1. Dues(i, p) <= runs[p] + faults
    BY <1>1 DEF IInv, EffectsPayClaims, Dues, Due
  <2>2. attempts[i] <= Dues(i, p) /\ attempts[i] \in Nat /\ Dues(i, p) \in Nat
    BY ReturningFinite, <1>1 DEF IInv, TypeOK, Dues, Due
  <2>3. runs[p] \in Nat /\ faults \in Nat
    BY <1>1, Bounds DEF IInv, TypeOK
  <2> QED
    BY <2>1, <2>2, <2>3
<1>2. IInv => RepeatsArePaid
  BY <1>1 DEF RepeatsArePaid
<1> QED
  BY <1>2, QueueInvariant, PTL
=============================================================================
