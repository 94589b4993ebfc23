--------------------------- MODULE NotifierProofs ---------------------------
(***************************************************************************)
(* For any number of notifyd, any work limit and any ledger: no event is   *)
(* skipped and the cursor never passes one that was not sent.              *)
(***************************************************************************)
EXTENDS Notifier, TLAPS

LEMMA Initially == Init => IInv
  BY NotifierAssumption DEF Init, IInv, TypeOK, SentInOrder, CursorBehindSent, ProcessBehindSent

\* The ledger only grows: Append and a failed notification.
LEMMA GrowStep ==
    ASSUME IInv, Append \/ \E p \in Proc : NotifyFail(p)
    PROVE  IInv'
  <1> USE NotifierAssumption DEF IInv
  <1>1. /\ events' \in {events, events + 1} /\ events' <= MaxEvents
        /\ UNCHANGED <<cursor, sent, at, upto>>
        /\ pc' = pc \/ \E p \in Proc : pc' = [pc EXCEPT ![p] = "idle"]
    BY DEF Append, NotifyFail, TypeOK
  <1>2. TypeOK'
    BY <1>1 DEF TypeOK
  <1>3. SentInOrder' /\ CursorBehindSent'
    BY <1>1 DEF SentInOrder, CursorBehindSent
  <1>4. ProcessBehindSent'
    <2> SUFFICES ASSUME NEW q \in Proc
                 PROVE  pc'[q] \in {pc[q], "idle"}
      BY <1>1 DEF ProcessBehindSent
    <2> QED BY <1>1 DEF TypeOK
  <1> QED BY <1>2, <1>3, <1>4

\* The steps of a cycle.
LEMMA CycleStep ==
    ASSUME IInv, NEW p \in Proc,
           ReadCursor(p) \/ ReadEvents(p) \/ Notify(p) \/ StoreCursor(p) \/ Crash(p)
    PROVE  IInv'
  <1> USE NotifierAssumption DEF IInv
  <1>1. CASE ReadCursor(p)
    BY <1>1 DEF ReadCursor, TypeOK, SentInOrder, CursorBehindSent, ProcessBehindSent
  <1>2. CASE ReadEvents(p)
    <2>1. TypeOK'
      BY <1>2 DEF ReadEvents, TypeOK
    <2>2. SentInOrder' /\ CursorBehindSent'
      BY <1>2 DEF ReadEvents, SentInOrder, CursorBehindSent
    <2>3. ProcessBehindSent'
      BY <1>2 DEF ReadEvents, TypeOK, ProcessBehindSent
    <2> QED BY <2>1, <2>2, <2>3
  <1>3. CASE Notify(p)
    <2>1. sent' = sent \cup {at[p]} /\ 1 .. at[p] - 1 \subseteq sent /\ at[p] >= 1
      BY <1>3 DEF Notify, ProcessBehindSent
    <2>t. at[p] \in 1 .. events
      BY <2>1 DEF TypeOK
    <2>2. TypeOK'
      BY <1>3, <2>1, <2>t DEF Notify, TypeOK
    <2>3. 1 .. at[p] \subseteq sent'
      BY <2>1 DEF TypeOK
    <2>4. SentInOrder'
      BY <2>1, <2>3 DEF SentInOrder
    <2>5. CursorBehindSent'
      BY <1>3, <2>1 DEF Notify, CursorBehindSent
    <2>6. ProcessBehindSent'
      BY <1>3, <2>1, <2>3 DEF Notify, TypeOK, ProcessBehindSent
    <2> QED BY <2>2, <2>4, <2>5, <2>6
  <1>4. CASE StoreCursor(p)
    <2>1. 1 .. at[p] \subseteq sent /\ at[p] >= 1 /\ at[p] <= upto[p]
      BY <1>4 DEF StoreCursor, ProcessBehindSent
    <2>2. TypeOK'
      BY <1>4, <2>1 DEF StoreCursor, TypeOK
    <2>3. SentInOrder' /\ CursorBehindSent'
      BY <1>4, <2>1 DEF StoreCursor, SentInOrder, CursorBehindSent
    <2>4. ProcessBehindSent'
      BY <1>4, <2>1 DEF StoreCursor, TypeOK, ProcessBehindSent
    <2> QED BY <2>2, <2>3, <2>4
  <1>5. CASE Crash(p)
    BY <1>5 DEF Crash, TypeOK, SentInOrder, CursorBehindSent, ProcessBehindSent
  <1> QED BY <1>1, <1>2, <1>3, <1>4, <1>5

LEMMA Inductive == IInv /\ [Next]_vars => IInv'
  <1>1. IInv /\ UNCHANGED vars => IInv'
    BY DEF vars, IInv, TypeOK, SentInOrder, CursorBehindSent, ProcessBehindSent
  <1> QED BY <1>1, GrowStep, CycleStep DEF Next

\* What was sent is a prefix of the ledger in every reachable state.
THEOREM SentInOrderHolds == Spec => []SentInOrder
  <1>1. IInv => SentInOrder
    BY DEF IInv
  <1> QED BY <1>1, Initially, Inductive, PTL DEF Spec

\* Two processes that overwrite each other's cursor lose no event.
THEOREM CursorBehindSentHolds == Spec => []CursorBehindSent
  <1>1. IInv => CursorBehindSent
    BY DEF IInv
  <1> QED BY <1>1, Initially, Inductive, PTL DEF Spec
=============================================================================
