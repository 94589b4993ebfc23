------------------------------ MODULE Notifier ------------------------------
(***************************************************************************)
(* notifyd (daemon.go): a tail of the append-only events table.  A cycle   *)
(* reads the cursor, reads at most WorkLimit events behind it, and sends   *)
(* them one by one, storing the cursor after each.  The cursor is          *)
(* overwritten with whatever the process last sent.                        *)
(*                                                                         *)
(* events is the highest id of the table: SQLite admits one writer at a    *)
(* time, so ids become visible in order.                                   *)
(***************************************************************************)
EXTENDS Integers

CONSTANTS
    Proc,        \* notifyd processes
    WorkLimit,   \* --work-limit
    MaxEvents    \* bound: events of the ledger

ASSUME NotifierAssumption == WorkLimit \in Nat \ {0} /\ MaxEvents \in Nat

VARIABLES
    events,      \* max(events.id)
    cursor,      \* daemon_cursors.cursor_value of notifyd
    sent,        \* ids whose notification was sent at least once
    pc,          \* where each process stands in its cycle
    at,          \* the cursor it read, then the id it handles
    upto         \* the last id of the batch it read

vars == <<events, cursor, sent, pc, at, upto>>

TypeOK ==
    /\ events \in 0 .. MaxEvents
    /\ cursor \in 0 .. events
    /\ sent \subseteq 1 .. events
    /\ pc \in [Proc -> {"idle", "read", "send", "store"}]
    /\ at \in [Proc -> 0 .. events]
    /\ upto \in [Proc -> 0 .. events]

Init ==
    /\ events = 0 /\ cursor = 0 /\ sent = {}
    /\ pc = [p \in Proc |-> "idle"]
    /\ at = [p \in Proc |-> 0]
    /\ upto = [p \in Proc |-> 0]

\* A command or another daemon appends an event.
Append ==
    /\ events < MaxEvents
    /\ events' = events + 1
    /\ UNCHANGED <<cursor, sent, pc, at, upto>>

\* cursorInt64
ReadCursor(p) ==
    /\ pc[p] = "idle"
    /\ at' = [at EXCEPT ![p] = cursor]
    /\ pc' = [pc EXCEPT ![p] = "read"]
    /\ UNCHANGED <<events, cursor, sent, upto>>

\* SELECT ... WHERE id > cursor ORDER BY id LIMIT; no row ends the cycle.
ReadEvents(p) ==
    /\ pc[p] = "read"
    /\ IF at[p] < events
       THEN /\ at' = [at EXCEPT ![p] = @ + 1]
            /\ upto' = [upto EXCEPT ![p] =
                    IF at[p] + WorkLimit <= events THEN at[p] + WorkLimit ELSE events]
            /\ pc' = [pc EXCEPT ![p] = "send"]
       ELSE /\ pc' = [pc EXCEPT ![p] = "idle"]
            /\ UNCHANGED <<at, upto>>
    /\ UNCHANGED <<events, cursor, sent>>

\* Mutant: a failed notification is passed over.
NotifySkipFailed(p) ==
    /\ pc[p] = "send"
    /\ sent' \in {sent, sent \cup {at[p]}}
    /\ pc' = [pc EXCEPT ![p] = "store"]
    /\ UNCHANGED <<events, cursor, at, upto>>

\* sec ping, or the log without a topic.
Notify(p) ==
    /\ pc[p] = "send"
    /\ sent' = sent \cup {at[p]}
    /\ pc' = [pc EXCEPT ![p] = "store"]
    /\ UNCHANGED <<events, cursor, at, upto>>

\* A notification that fails ends the cycle, after an event of its own; that
\* daemonEvent cannot append it is only logged.
NotifyFail(p) ==
    /\ pc[p] = "send"
    /\ events' \in {events, events + 1} /\ events' <= MaxEvents
    /\ pc' = [pc EXCEPT ![p] = "idle"]
    /\ UNCHANGED <<cursor, sent, at, upto>>

\* Mutant: the cursor of the whole batch is stored after its first notification.
StoreWholeBatch(p) ==
    /\ pc[p] = "store"
    /\ cursor' = upto[p]
    /\ pc' = [pc EXCEPT ![p] = "idle"]
    /\ UNCHANGED <<events, sent, at, upto>>

\* setCursor, and on to the next event of the batch.
StoreCursor(p) ==
    /\ pc[p] = "store"
    /\ cursor' = at[p]
    /\ IF at[p] < upto[p]
       THEN at' = [at EXCEPT ![p] = @ + 1] /\ pc' = [pc EXCEPT ![p] = "send"]
       ELSE pc' = [pc EXCEPT ![p] = "idle"] /\ UNCHANGED at
    /\ UNCHANGED <<events, sent, upto>>

\* The process dies, or a statement of it fails.
Crash(p) ==
    /\ pc[p] # "idle"
    /\ pc' = [pc EXCEPT ![p] = "idle"]
    /\ UNCHANGED <<events, cursor, sent, at, upto>>

Next ==
    \/ Append
    \/ \E p \in Proc :
        \/ ReadCursor(p) \/ ReadEvents(p) \/ Notify(p) \/ NotifyFail(p)
        \/ StoreCursor(p) \/ Crash(p)

Spec == Init /\ [][Next]_vars

\* Every process polls, and neither its crashes nor the failures of the channel
\* go on for ever without a cycle getting through.
Fairness ==
    \A p \in Proc :
        /\ WF_vars(ReadCursor(p))
        /\ SF_vars(ReadEvents(p))
        /\ SF_vars(Notify(p))
        /\ SF_vars(StoreCursor(p))

FairSpec == Spec /\ Fairness
-----------------------------------------------------------------------------
\* No event is skipped and the first notifications go out in the order of the
\* ledger: what was sent is a prefix of it.  Two notifyd may overwrite the
\* cursor with an older value, which repeats events and loses none.
SentInOrder == \A e \in sent : 1 .. e \subseteq sent

\* The stored cursor never passes an event that was not sent, whatever dies
\* between a notification and the cursor.
CursorBehindSent == 1 .. cursor \subseteq sent

\* Every event is notified in the end, those a failing notifyd appended itself
\* included.
EveryEventSent == \A e \in 1 .. MaxEvents : events >= e ~> e \in sent

(* The inductive invariant of the proofs *)

\* Before the event a process handles, everything was sent.
ProcessBehindSent == \A p \in Proc :
    /\ pc[p] = "read" => 1 .. at[p] \subseteq sent
    /\ pc[p] = "send" => at[p] >= 1 /\ 1 .. at[p] - 1 \subseteq sent
    /\ pc[p] = "store" => at[p] >= 1 /\ 1 .. at[p] \subseteq sent
    /\ pc[p] \in {"send", "store"} => at[p] <= upto[p]

IInv == TypeOK /\ SentInOrder /\ CursorBehindSent /\ ProcessBehindSent
=============================================================================
