------------------------------ MODULE WorkQueue ------------------------------
(***************************************************************************)
(* The durable work queue of the sec daemons (daemon.go): the table        *)
(* work_items, the daemon processes that lease rows of it, and the         *)
(* commands they run between the claim and the settlement of a row.        *)
(*                                                                         *)
(* One variable per column of work_items.  The two timestamps a guard      *)
(* compares with the clock are kept relative to now: leaseLeft[i] is       *)
(* lease_until - now, and -1 once it is in the past or NULL (the claim     *)
(* query treats both alike); waitLeft[i] is available_at - now, and 0 once *)
(* it is reached.  Only Tick lets time pass.  created[i] is the rank of    *)
(* created_at.  priority is left out: every caller of enqueueTx passes 0   *)
(* or the priority of the row it settles.                                  *)
(*                                                                         *)
(* Each transaction of daemon.go is one action: the pool has a single      *)
(* connection, and of two SQLite transactions that both read and then      *)
(* write, one is refused with SQLITE_BUSY.  A refused settlement leaves    *)
(* the row as it was and the daemon forgets the item: that is Crash.       *)
(***************************************************************************)
EXTENDS Integers, FiniteSets

CONSTANTS
    Item,        \* the rows work_items can hold, one per (work_type, subject_id)
    WorkType,    \* the work types
    TypeOf,      \* [Item -> WorkType]
    Worker,      \* daemon processes that claim work
    RoleOf,      \* [Worker -> WorkType]: the type a worker's role claims
    Source,      \* the rows watchd enqueues: one pull_accession per new filing
    Follow,      \* [Item -> SUBSET SUBSET Item]: what settling a row may enqueue
    Fresh,       \* rows whose subject is minted by the command (a new run_id)
    Guarded,     \* the work types whose daemon defers on trading_mode
    Lease,       \* --lease, in ticks
    DeferDelay,  \* the five minutes of deferWork, in ticks
    MaxAttempts, \* --max-attempts
    MaxFaults,   \* bound: crashes, hangs, leases overrun and deferrals together
    MaxClaims,   \* bound: claims of one row
    None         \* NULL

ASSUME QueueAssumption ==
    /\ IsFiniteSet(Item) /\ IsFiniteSet(Worker)
    /\ TypeOf \in [Item -> WorkType]
    /\ RoleOf \in [Worker -> WorkType]
    /\ Source \subseteq Item
    /\ Follow \in [Item -> SUBSET SUBSET Item]
    /\ \A i \in Item : \A next \in Follow[i] : i \notin next
    /\ Fresh \subseteq Item
    /\ Guarded \subseteq WorkType
    /\ Lease \in Nat
    /\ DeferDelay \in Nat
    /\ MaxAttempts \in Nat \ {0}
    /\ MaxFaults \in Nat
    /\ MaxClaims \in Nat
    /\ None \notin Item
    /\ None \notin Worker

VARIABLES
    status,     \* work_items.status, "absent" before the row is inserted
    attempts,   \* work_items.attempts
    owner,      \* work_items.lease_owner
    leaseLeft,  \* work_items.lease_until relative to now
    waitLeft,   \* work_items.available_at relative to now
    created,    \* rank of work_items.created_at
    runs,       \* how often the command of the item committed its effect
    held,       \* the workItem a worker carries from claim to settlement
    fence,      \* workItem.attempts: the count the claim read, before its + 1
    phase,      \* where the worker stands in its role's handler
    seen,       \* the accessions watchd read and has not enqueued yet
    faults      \* crashes, hangs, overruns and deferrals so far

rowVars == <<status, attempts, owner, leaseLeft, waitLeft, created>>
workerVars == <<held, fence, phase>>
vars == <<rowVars, runs, workerVars, seen, faults>>

Settled == {"succeeded", "failed", "dead"}
Terminal == {"succeeded", "dead"}
Status == {"absent", "queued", "leased"} \cup Settled
Phase == {"idle", "claimed", "ran", "hung"}

TypeOK ==
    /\ status \in [Item -> Status]
    /\ attempts \in [Item -> Nat]
    /\ owner \in [Item -> Worker \cup {None}]
    /\ leaseLeft \in [Item -> -1 .. Lease]
    /\ waitLeft \in [Item -> 0 .. DeferDelay]
    /\ created \in [Item -> Nat]
    /\ runs \in [Item -> Nat]
    /\ held \in [Worker -> Item \cup {None}]
    /\ fence \in [Worker -> Nat]
    /\ phase \in [Worker -> Phase]
    /\ seen \subseteq Source
    /\ faults \in 0 .. MaxFaults

Init ==
    /\ status = [i \in Item |-> "absent"]
    /\ attempts = [i \in Item |-> 0]
    /\ owner = [i \in Item |-> None]
    /\ leaseLeft = [i \in Item |-> -1]
    /\ waitLeft = [i \in Item |-> 0]
    /\ created = [i \in Item |-> 0]
    /\ runs = [i \in Item |-> 0]
    /\ held = [w \in Worker |-> None]
    /\ fence = [w \in Worker |-> 0]
    /\ phase = [w \in Worker |-> "idle"]
    /\ seen = {}
    /\ faults = 0

-----------------------------------------------------------------------------
(* The statements the transactions are built from. *)

Rows == {i \in Item : status[i] # "absent"}

\* enqueueTx: a new row is queued; a row that exists goes back to queued
\* unless it is succeeded or dead.  Everything else of an existing row stays,
\* the lease of a leased one included.
EnqueuedStatus(S, st) ==
    [i \in Item |-> IF i \in S /\ st[i] \notin Terminal THEN "queued" ELSE st[i]]

\* The created_at of the rows a transaction inserts is one later rank.
EnqueuedCreated(S) ==
    [i \in Item |-> IF i \in S /\ status[i] = "absent" THEN Cardinality(Rows) ELSE created[i]]

\* Mutants: a failed row is retried, as docs/DAEMONS.md draws it; an expired
\* lease is never taken over.
ClaimableFailedToo(w) ==
    {i \in Item :
        /\ TypeOf[i] = RoleOf[w]
        /\ waitLeft[i] = 0
        /\ \/ status[i] \in {"queued", "failed"}
           \/ status[i] = "leased" /\ leaseLeft[i] < 0}
ClaimableQueuedOnly(w) ==
    {i \in Item : TypeOf[i] = RoleOf[w] /\ waitLeft[i] = 0 /\ status[i] = "queued"}

\* The WHERE clause of claim.
Claimable(w) ==
    {i \in Item :
        /\ TypeOf[i] = RoleOf[w]
        /\ waitLeft[i] = 0
        /\ \/ status[i] = "queued"
           \/ status[i] = "leased" /\ leaseLeft[i] < 0}

\* lease_owner=NULL, lease_until=NULL
ReleaseLease(i) ==
    /\ owner' = [owner EXCEPT ![i] = None]
    /\ leaseLeft' = [leaseLeft EXCEPT ![i] = -1]

\* The handler returns: the workItem is a local variable of it.
Forget(w) ==
    /\ held' = [held EXCEPT ![w] = None]
    /\ fence' = [fence EXCEPT ![w] = 0]
    /\ phase' = [phase EXCEPT ![w] = "idle"]

-----------------------------------------------------------------------------
(* watchd *)

\* enqueuePullAccessions reads the filings without a raw package ...
WatchRead ==
    /\ seen = {}
    /\ seen' \in SUBSET {i \in Source : runs[i] = 0}
    /\ UNCHANGED <<rowVars, runs, workerVars, faults>>

\* ... and enqueues them in a later transaction.
WatchEnqueue ==
    /\ seen # {}
    /\ status' = EnqueuedStatus(seen, status)
    /\ created' = EnqueuedCreated(seen)
    /\ seen' = {}
    /\ UNCHANGED <<attempts, owner, leaseLeft, waitLeft, runs, workerVars, faults>>

-----------------------------------------------------------------------------
(* pulld, xbrld, pland, gated, staged, submitd *)

\* claim: the oldest claimable row is leased to w.
Claim(w) ==
    /\ phase[w] = "idle"
    /\ \E i \in Claimable(w) :
        /\ attempts[i] < MaxClaims
        /\ \A j \in Claimable(w) : created[i] <= created[j]
        /\ status' = [status EXCEPT ![i] = "leased"]
        /\ attempts' = [attempts EXCEPT ![i] = @ + 1]
        /\ owner' = [owner EXCEPT ![i] = w]
        /\ leaseLeft' = [leaseLeft EXCEPT ![i] = Lease]
        /\ held' = [held EXCEPT ![w] = i]
        /\ fence' = [fence EXCEPT ![w] = attempts[i]]
        /\ phase' = [phase EXCEPT ![w] = "claimed"]
    /\ UNCHANGED <<waitLeft, created, runs, seen, faults>>

\* runSec: the sec command commits its own transaction.
RunCommand(w) ==
    /\ phase[w] = "claimed"
    /\ runs' = [runs EXCEPT ![held[w]] = @ + 1]
    /\ phase' = [phase EXCEPT ![w] = "ran"]
    /\ UNCHANGED <<rowVars, held, fence, seen, faults>>

\* Mutants: the successors are left to a later transaction; the row is settled
\* before its command ran.
SucceedWithoutNext(w) ==
    /\ phase[w] = "ran"
    /\ status' = [status EXCEPT ![held[w]] = "succeeded"]
    /\ ReleaseLease(held[w])
    /\ Forget(w)
    /\ UNCHANGED <<attempts, waitLeft, created, runs, seen, faults>>
SucceedBeforeRun(w) ==
    /\ phase[w] \in {"claimed", "ran"}
    /\ \E next \in Follow[held[w]] :
        /\ \A i \in next \cap Fresh : status[i] = "absent"
        /\ status' = EnqueuedStatus(next, [status EXCEPT ![held[w]] = "succeeded"])
        /\ created' = EnqueuedCreated(next)
    /\ ReleaseLease(held[w])
    /\ Forget(w)
    /\ UNCHANGED <<attempts, waitLeft, runs, seen, faults>>

\* succeed: the row is settled and its successors are enqueued in one
\* transaction.  A minted subject is new.
Succeed(w) ==
    /\ phase[w] = "ran"
    /\ \E next \in Follow[held[w]] :
        /\ \A i \in next \cap Fresh : status[i] = "absent"
        /\ status' = EnqueuedStatus(next, [status EXCEPT ![held[w]] = "succeeded"])
        /\ created' = EnqueuedCreated(next)
    /\ ReleaseLease(held[w])
    /\ Forget(w)
    /\ UNCHANGED <<attempts, waitLeft, runs, seen, faults>>

\* Mutant: the claim's own attempt is counted twice.
FailCountingTwice(w) ==
    /\ phase[w] # "idle"
    /\ status' = [status EXCEPT ![held[w]] =
                    IF fence[w] + 2 >= MaxAttempts THEN "dead" ELSE "failed"]
    /\ ReleaseLease(held[w])
    /\ Forget(w)
    /\ UNCHANGED <<attempts, waitLeft, created, runs, seen, faults>>

\* fail: the command was refused, or it exited with an error after its effect
\* was committed (it was killed, the second of two model commands failed, its
\* output names no run).  A signal to the daemon ends a command that hangs, and
\* the row is failed then too.
Fail(w) ==
    /\ phase[w] # "idle"
    /\ status' = [status EXCEPT ![held[w]] =
                    IF fence[w] + 1 >= MaxAttempts THEN "dead" ELSE "failed"]
    /\ ReleaseLease(held[w])
    /\ Forget(w)
    /\ UNCHANGED <<attempts, waitLeft, created, runs, seen, faults>>

\* Mutant: the row is left blocked, the state docs/DAEMONS.md gives to work the
\* mode forbids and the table does not have.
DeferBlocked(w) ==
    /\ phase[w] = "claimed"
    /\ RoleOf[w] \in Guarded
    /\ faults < MaxFaults
    /\ status' = [status EXCEPT ![held[w]] = "blocked"]
    /\ waitLeft' = [waitLeft EXCEPT ![held[w]] = DeferDelay]
    /\ ReleaseLease(held[w])
    /\ Forget(w)
    /\ faults' = faults + 1
    /\ UNCHANGED <<attempts, created, runs, seen>>

\* deferWork: trading_mode does not permit the role now.
Defer(w) ==
    /\ phase[w] = "claimed"
    /\ RoleOf[w] \in Guarded
    /\ faults < MaxFaults
    /\ status' = [status EXCEPT ![held[w]] = "queued"]
    /\ waitLeft' = [waitLeft EXCEPT ![held[w]] = DeferDelay]
    /\ ReleaseLease(held[w])
    /\ Forget(w)
    /\ faults' = faults + 1
    /\ UNCHANGED <<attempts, created, runs, seen>>

-----------------------------------------------------------------------------
(* The environment *)

\* The daemon dies, or its settlement transaction is refused; in both cases the
\* row keeps its lease and the process (restarted) goes on with its loop.
Crash(w) ==
    /\ phase[w] # "idle"
    /\ faults < MaxFaults
    /\ Forget(w)
    /\ faults' = faults + 1
    /\ UNCHANGED <<rowVars, runs, seen>>

\* The command never returns: http_get sets no timeout, and the context runSec
\* gives the command ends with a signal to the daemon only.
Hang(w) ==
    /\ phase[w] \in {"claimed", "ran"}
    /\ faults < MaxFaults
    /\ phase' = [phase EXCEPT ![w] = "hung"]
    /\ faults' = faults + 1
    /\ UNCHANGED <<rowVars, runs, held, fence, seen>>

\* Some worker is still busy with a row whose lease the next tick ends.
Overrun == \E w \in Worker :
    phase[w] \in {"claimed", "ran"} /\ owner[held[w]] = w /\ leaseLeft[held[w]] = 0

Tick ==
    /\ Overrun => faults < MaxFaults
    /\ leaseLeft' = [i \in Item |-> IF leaseLeft[i] < 0 THEN -1 ELSE leaseLeft[i] - 1]
    /\ waitLeft' = [i \in Item |-> IF waitLeft[i] = 0 THEN 0 ELSE waitLeft[i] - 1]
    /\ faults' = IF Overrun THEN faults + 1 ELSE faults
    /\ UNCHANGED <<status, attempts, owner, created, runs, workerVars, seen>>

Next ==
    \/ WatchRead
    \/ WatchEnqueue
    \/ \E w \in Worker :
        \/ Claim(w) \/ RunCommand(w) \/ Succeed(w) \/ Fail(w)
        \/ Defer(w) \/ Crash(w) \/ Hang(w)
    \/ Tick

Spec == Init /\ [][Next]_vars

\* Every daemon that waits polls (the loop of daemonMain), a command goes on
\* unless it hangs, what has returned is settled, and time passes.  Nothing ends
\* a command that hangs, and nothing is assumed of watchd or of the faults.
Fairness ==
    /\ WF_vars(Tick)
    /\ \A w \in Worker :
        /\ WF_vars(Claim(w))
        /\ WF_vars(phase[w] = "claimed" /\ (RunCommand(w) \/ Fail(w) \/ Defer(w) \/ Hang(w)))
        /\ WF_vars(phase[w] = "ran" /\ (Succeed(w) \/ Fail(w) \/ Hang(w)))

FairSpec == Spec /\ Fairness

-----------------------------------------------------------------------------
(* Safety *)

\* A row nobody may work on holds no lease: every settlement clears lease_owner
\* and lease_until, and an enqueue revives no settled lease (docs/DAEMONS.md:
\* "no dead work item that still holds a lease").
SettledHoldsNoLease ==
    \A i \in Item : status[i] \in Settled \cup {"absent"} =>
        owner[i] = None /\ leaseLeft[i] = -1

\* A row is dead only after --max-attempts claims, although the worker that
\* kills it compares the count it read before its own claim and the row may
\* have been claimed again since.
DeadIsEarned ==
    \A i \in Item : status[i] = "dead" => attempts[i] >= MaxAttempts

\* At least once: a succeeded row's command committed its effect, whatever
\* crashed, stalled or was settled by another worker in between.
AtLeastOnce ==
    \A i \in Item : status[i] = "succeeded" => runs[i] >= 1

\* Every effect is accounted for: a command commits no more often than its row
\* was claimed, so attempts bounds the duplicates an at-least-once queue makes.
RunsAreCounted ==
    \A i \in Item : runs[i] <= attempts[i]

\* A succeeded row has left all the successors of one of its outcomes behind:
\* no crash separates the settlement from the enqueueing of the next stage.
ChainUnbroken ==
    \A i \in Item : status[i] = "succeeded" =>
        \E next \in Follow[i] : next \subseteq Rows

\* No stage runs ahead of its evidence: a row that watchd did not enqueue
\* exists only after the command of a row it follows took effect.
CauseRan ==
    \A i \in Rows \ Source :
        \E p \in Item : runs[p] >= 1 /\ \E next \in Follow[p] : i \in next

\* A row that was claimed once is settled once: while no second claim was
\* granted, no worker is left that could settle it again.
SettledOnce ==
    \A i \in Item : status[i] \in Settled /\ attempts[i] = 1 =>
        \A w \in Worker : held[w] # i

\* The rows whose success may enqueue i.
Causes(i) == {p \in Item : \E next \in Follow[p] : i \in next}

\* Repetitions are paid for: a row with one cause is claimed at most once for
\* each time the command of its cause took effect and once for each crash, hang,
\* overrun or deferral.  Neither a re-enqueue that makes a leased row claimable
\* within its lease (enqueueTx) nor a stale settlement multiplies claims further
\* down the chain, and a failure is never retried by itself.
RepeatsArePaid ==
    \A i \in Item \ Source, p \in Item :
        Causes(i) = {p} => attempts[i] <= runs[p] + faults

(* The inductive invariant of the proofs *)

\* A worker carries an item exactly while it is not idle.
Holding == \A w \in Worker : phase[w] = "idle" <=> held[w] = None

\* Rows are never deleted under a worker.
HeldExists == \A w \in Worker : held[w] # None => held[w] \in Rows

\* The count a worker read is behind the row's: its own claim came after it.
FenceBehind == \A w \in Worker : held[w] # None => fence[w] < attempts[held[w]]

\* Two workers with the same row read different counts: the count would do as
\* a fencing token, though no settlement compares it.
FencesDistinct ==
    \A v, w \in Worker :
        v # w /\ held[v] # None /\ held[v] = held[w] => fence[v] # fence[w]

\* A worker past its command has an effect to show.
EffectBehind == \A w \in Worker : phase[w] = "ran" => runs[held[w]] >= 1

\* Claims of a row whose command is still to commit.
Pending(i) == {w \in Worker : held[w] = i /\ phase[w] = "claimed"}

\* Every claim is good for one effect: those that took place and those still to
\* come do not outnumber the claims.
ClaimsCoverRuns ==
    \A i \in Item : runs[i] + Cardinality(Pending(i)) <= attempts[i]

\* Somebody works on the row within the lease of its own claim.
Busy(i) == \E w \in Worker :
    held[w] = i /\ owner[i] = w /\ phase[w] \in {"claimed", "ran"} /\ leaseLeft[i] >= 0

\* The row is claimable, or will be without another fault or settlement.
Open(i) == status[i] = "queued" \/ (status[i] = "leased" /\ ~Busy(i))

\* Workers that may still settle the row as succeeded.
Returning(i) == {w \in Worker : held[w] = i /\ phase[w] = "ran"}

\* An effect of the cause pays for one claim: the effects a success is still to
\* come of, and the claim an open row waits for, are counted with the claims.
EffectsPayClaims ==
    \A i \in Item \ Source, p \in Item :
        Causes(i) = {p} =>
            attempts[i] + (IF Open(i) THEN 1 ELSE 0) + Cardinality(Returning(p))
                <= runs[p] + faults

\* The properties above and what makes them inductive: when a worker settles a
\* row, who else may still hold it, and with which count.
IInv ==
    /\ TypeOK
    /\ Holding
    /\ HeldExists
    /\ FenceBehind
    /\ FencesDistinct
    /\ EffectBehind
    /\ SettledHoldsNoLease
    /\ DeadIsEarned
    /\ AtLeastOnce
    /\ ClaimsCoverRuns
    /\ ChainUnbroken
    /\ CauseRan
    /\ SettledOnce
    /\ EffectsPayClaims

(* Liveness *)

\* The rows some running daemon's role claims.
Served == {i \in Item : \E w \in Worker : RoleOf[w] = TypeOf[i]}

\* Every daemon that claims rows of the type waits for a command that hangs.
Stalled(i) == \A w \in Worker : RoleOf[w] = TypeOf[i] => phase[w] = "hung"

\* Every row that waits or is leased is eventually settled, the rows of crashed
\* and hung workers included (docs/DAEMONS.md: "another daemon can retry it after
\* the lease expires"), unless every daemon of its type hangs for good: one that
\* does not is enough.
WorkSettles ==
    \A i \in Served :
        \/ <>[]Stalled(i)
        \/ (status[i] \in {"queued", "leased"} ~> status[i] \in Settled)

(* What the documents say and the code does not do *)

\* docs/DAEMONS.md: "another daemon can retry it after the lease expires", so
\* not before: while a worker holds a row within its own lease, the row does not
\* become another's.
LeaseExclusive ==
    [][\A w \in Worker, i \in Item :
        held[w] = i /\ owner[i] = w /\ leaseLeft[i] >= 0 => owner'[i] \in {w, None}]_vars
=============================================================================
