------------------------- MODULE OrderPipelineProofs -------------------------
(***************************************************************************)
(* Proofs about the authority chain: the invariant of its tables and of    *)
(* what the commands carry between their read and their write, and that    *)
(* one process per command implements the atomic ledger.                   *)
(***************************************************************************)
EXTENDS OrderPipeline, FiniteSetTheorems, TLAPS

\* Exit resets what the process read and nothing of the others.
LEMMA ExitLocal ==
    ASSUME TypeOK, NEW p \in Proc, Exit(p)
    PROVE  /\ pc' \in [Proc -> {"idle", "checked", "fresh", "read", "judged"}]
           /\ rows' \in [Proc -> SUBSET (Intent \cup Decision \cup StagedOrder)]
           /\ verdict' \in [Proc -> SUBSET Intent]
           /\ modeRead' \in [Proc -> Mode]
           /\ pc'[p] = "idle" /\ rows'[p] = {} /\ verdict'[p] = {}
           /\ \A q \in Proc \ {p} : /\ pc'[q] = pc[q]
                                    /\ rows'[q] = rows[q]
                                    /\ verdict'[q] = verdict[q]
                                    /\ modeRead'[q] = modeRead[q]
  BY PipelineAssumption DEF Exit, Goto, TypeOK

\* A process that ends leaves every reader's invariant as it was.
LEMMA ExitReads ==
    ASSUME IInv, NEW p \in Proc, Exit(p), UNCHANGED tables
    PROVE  GateReads' /\ StageReads' /\ SendReads'
  <1>0. /\ pc'[p] = "idle" /\ rows'[p] = {} /\ verdict'[p] = {}
        /\ \A q \in Proc \ {p} : /\ pc'[q] = pc[q]
                                 /\ rows'[q] = rows[q]
                                 /\ verdict'[q] = verdict[q]
                                 /\ modeRead'[q] = modeRead[q]
    BY ExitLocal DEF IInv
  <1>e. Cardinality({}) = 0 /\ 0 <= Limit
    BY FS_EmptySet, PipelineAssumption
  <1> USE DEF IInv, tables
  <1>1. GateReads'
    BY <1>0 DEF GateReads
  <1>2. StageReads'
    <2> SUFFICES ASSUME NEW q \in Proc, Kind[q] = "stage"
                 PROVE  /\ rows'[q] \subseteq {d \in decisions : d.approved}
                        /\ Cardinality(rows'[q]) <= Limit
                        /\ OneEach => \A d \in rows'[q], s \in staged : s.decision # d
      BY DEF StageReads
    <2>1. CASE q = p
      BY <2>1, <1>0, <1>e
    <2>2. CASE q # p
      BY <2>2, <1>0 DEF StageReads
    <2> QED BY <2>1, <2>2
  <1>3. SendReads'
    <2> SUFFICES ASSUME NEW q \in Proc, Kind[q] = "send"
                 PROVE  /\ rows'[q] \subseteq staged
                        /\ Cardinality(rows'[q]) <= Limit
                        /\ pc'[q] # "idle" => modeRead'[q] \in SubmitModes
                        /\ OneEach => \A s \in rows'[q], e \in sent : e.order # s
      BY DEF SendReads
    <2>1. CASE q = p
      BY <2>1, <1>0, <1>e
    <2>2. CASE q # p
      BY <2>2, <1>0 DEF SendReads
    <2> QED BY <2>1, <2>2
  <1> QED BY <1>1, <1>2, <1>3

\* The initial tables are empty and nobody has read anything.
LEMMA Initially == Init => IInv
  <1> SUFFICES ASSUME Init PROVE IInv
    OBVIOUS
  <1> USE PipelineAssumption DEF Init
  <1>1. TypeOK
    BY DEF TypeOK
  <1>2. Lineage /\ OnceEach /\ GateReads
    BY DEF Lineage, OnceEach, GateReads
  <1>3. StageReads /\ SendReads
    BY FS_EmptySet DEF StageReads, SendReads
  <1> QED BY <1>1, <1>2, <1>3 DEF IInv

\* recon, mode, plan and time touch no table a command has read, except that
\* plan adds intents.
LEMMA ControlStep ==
    ASSUME IInv, Recon \/ SetMode \/ Tick \/ \E r \in Run : Plan(r)
    PROVE  IInv'
  <1> USE DEF IInv, tables, control, local
  <1>1. CASE Recon \/ SetMode \/ Tick
    <2>1. TypeOK'
      BY <1>1, PipelineAssumption DEF TypeOK, Recon, SetMode, Tick
    <2>2. UNCHANGED <<tables, local>>
      BY <1>1 DEF Recon, SetMode, Tick
    <2>3. Lineage' /\ OnceEach' /\ GateReads' /\ StageReads' /\ SendReads'
      BY <2>2 DEF Lineage, OnceEach, GateReads, StageReads, SendReads
    <2> QED BY <2>1, <2>3
  <1>2. CASE \E r \in Run : Plan(r)
    <2>1. UNCHANGED <<decisions, staged, sent, tx, control, local>> /\ planned \subseteq planned'
      BY <1>2 DEF Plan
    <2>2. TypeOK'
      BY <1>2, <2>1 DEF TypeOK, Plan
    <2>3. Lineage' /\ OnceEach' /\ GateReads' /\ StageReads' /\ SendReads'
      BY <2>1 DEF Lineage, OnceEach, GateReads, StageReads, SendReads
    <2> QED BY <2>2, <2>3
  <1> QED BY <1>1, <1>2

\* The kernel decides on the batch it was given and on nothing else.
LEMMA ApprovedOfBatch ==
    ASSUME NEW batch, NEW securities, NEW limits
    PROVE  Approved(batch, securities, limits) \subseteq DOMAIN batch
  BY DEF Approved

\* A killed process leaves nothing behind.
LEMMA CrashStep ==
    ASSUME IInv, NEW p \in Proc, Crash(p)
    PROVE  IInv'
  <1>1. Exit(p) /\ UNCHANGED <<tables, control>>
    BY DEF Crash
  <1>2. UNCHANGED tables
    BY <1>1
  <1>3. GateReads' /\ StageReads' /\ SendReads'
    BY <1>1, <1>2, ExitReads
  <1>4. TypeOK'
    BY <1>1, ExitLocal DEF IInv, TypeOK, tables, control
  <1>5. Lineage' /\ OnceEach'
    BY <1>2 DEF IInv, Lineage, OnceEach, tables
  <1> QED BY <1>3, <1>4, <1>5 DEF IInv

\* The reads of gate: the anti-join, then the kernel's verdict on what was read.
LEMMA GateReadStep ==
    ASSUME IInv, NEW p \in Proc, GateLoad(p) \/ GateJudge(p)
    PROVE  IInv'
  <1> USE DEF IInv, tables, control
  <1>1. CASE GateLoad(p)
    <2>1. PICK R \in Selections : rows' = [rows EXCEPT ![p] = Pending(R)]
      BY <1>1 DEF GateLoad
    <2>2. /\ pc' = [pc EXCEPT ![p] = "read"] /\ Kind[p] = "gate"
          /\ UNCHANGED <<tables, control, verdict, modeRead>>
      BY <1>1 DEF GateLoad, Goto
    <2>3. Pending(R) \subseteq planned /\ \A i \in Pending(R), d \in decisions : d.intent # i
      BY DEF Pending
    <2>4. TypeOK'
      BY <2>1, <2>2, <2>3 DEF TypeOK
    <2>5. GateReads'
      <3> SUFFICES ASSUME NEW q \in Proc, Kind[q] = "gate"
                   PROVE  /\ rows'[q] \subseteq planned
                          /\ verdict'[q] \subseteq rows'[q]
                          /\ pc'[q] # "judged" => verdict'[q] = {}
                          /\ OneEach => \A i \in rows'[q], d \in decisions : d.intent # i
        BY <2>2 DEF GateReads
      <3>1. CASE q = p
        BY <3>1, <1>1, <2>1, <2>2, <2>3 DEF TypeOK, GateReads, GateLoad
      <3>2. CASE q # p
        BY <3>2, <2>1, <2>2 DEF TypeOK, GateReads
      <3> QED BY <3>1, <3>2
    <2>6. StageReads' /\ SendReads' /\ Lineage' /\ OnceEach'
      BY <2>1, <2>2 DEF TypeOK, StageReads, SendReads, Lineage, OnceEach
    <2> QED BY <2>4, <2>5, <2>6
  <1>2. CASE GateJudge(p)
    <2> DEFINE batch == [i \in rows[p] |-> Order[i]]
    <2>1. CASE ~Accepted(batch)
      <3>1. Exit(p) /\ UNCHANGED <<tables, control>>
        BY <1>2, <2>1 DEF GateJudge
      <3>2. GateReads' /\ StageReads' /\ SendReads'
        BY <3>1, ExitReads
      <3>3. TypeOK' /\ Lineage' /\ OnceEach'
        BY <3>1, ExitLocal DEF TypeOK, Lineage, OnceEach
      <3> QED BY <3>2, <3>3
    <2>2. CASE Accepted(batch)
      <3> DEFINE A == Approved(batch, Securities, LimitsNow)
      <3>1. /\ verdict' = [verdict EXCEPT ![p] = A]
            /\ pc' = [pc EXCEPT ![p] = "judged"] /\ Kind[p] = "gate"
            /\ UNCHANGED <<tables, control, rows, modeRead>>
        BY <1>2, <2>2 DEF GateJudge, Goto
      <3>2. A \subseteq rows[p]
        BY ApprovedOfBatch
      <3> HIDE DEF A
      <3>3. rows[p] \subseteq planned
        BY <3>1 DEF GateReads
      <3>4. TypeOK'
        BY <3>1, <3>2, <3>3 DEF TypeOK
      <3>5. GateReads' /\ StageReads' /\ SendReads' /\ Lineage' /\ OnceEach'
        BY <3>1, <3>2 DEF TypeOK, GateReads, StageReads, SendReads, Lineage, OnceEach
      <3> QED BY <3>4, <3>5
    <2> QED BY <2>1, <2>2
  <1> QED BY <1>1, <1>2

\* gate writes: with one gate, nobody has decided its intents in between.
LEMMA GateWriteStep ==
    ASSUME IInv, NEW p \in Proc, GateCommit(p)
    PROVE  IInv'
  <1> DEFINE Row(i) == [tx |-> tx, intent |-> i, approved |-> i \in verdict[p]]
  <1> DEFINE new == {Row(i) : i \in rows[p]}
  <1>1. /\ decisions' = decisions \cup new
        /\ tx' \in {tx, tx + 1}
        /\ Exit(p)
        /\ UNCHANGED <<planned, staged, sent, control>>
        /\ Kind[p] = "gate"
    BY DEF GateCommit, Minted
  <1>2. rows[p] \subseteq planned /\ rows[p] \subseteq Intent
    BY DEF IInv, GateReads, TypeOK, GateCommit
  <1>3. new \subseteq Decision
    <2> SUFFICES ASSUME NEW i \in rows[p] PROVE Row(i) \in Decision
      OBVIOUS
    <2>1. (i \in verdict[p]) \in BOOLEAN
      OBVIOUS
    <2>2. i \in Intent /\ tx \in Nat
      BY <1>2 DEF IInv, TypeOK
    <2> QED BY <2>1, <2>2, Zenon DEF Decision
  <1>4. \A d \in new : d.intent \in rows[p] /\ d = Row(d.intent)
    OBVIOUS
  <1> HIDE DEF new
  <1>5. TypeOK'
    BY <1>1, <1>3, ExitLocal DEF IInv, TypeOK, control
  <1>6. Lineage'
    BY <1>1, <1>2, <1>4 DEF IInv, Lineage
  <1>7. OnceEach'
    <2> SUFFICES ASSUME OneEach, NEW d \in decisions', NEW e \in decisions',
                        d.intent = e.intent
                 PROVE  d = e
      BY <1>1 DEF IInv, OnceEach
    <2>1. \A i \in rows[p], a \in decisions : a.intent # i
      BY <1>1 DEF IInv, GateReads
    <2> QED BY <1>1, <1>4, <2>1 DEF IInv, OnceEach
  <1>8. \A q \in Proc \ {p} : rows'[q] = rows[q] /\ verdict'[q] = verdict[q]
                              /\ pc'[q] = pc[q] /\ modeRead'[q] = modeRead[q]
    BY <1>1, ExitLocal DEF IInv
  <1>9. rows'[p] = {} /\ verdict'[p] = {}
    BY <1>1, ExitLocal DEF IInv
  <1>10. GateReads'
    <2> SUFFICES ASSUME NEW q \in Proc, Kind[q] = "gate"
                 PROVE  /\ rows'[q] \subseteq planned
                        /\ verdict'[q] \subseteq rows'[q]
                        /\ pc'[q] # "judged" => verdict'[q] = {}
                        /\ OneEach => \A i \in rows'[q], d \in decisions' : d.intent # i
      BY <1>1 DEF GateReads
    <2>1. CASE q = p
      BY <2>1, <1>9
    <2>2. CASE q # p
      <3>1. ~OneEach
        BY <1>1, <2>2 DEF OneEach
      <3> QED BY <2>2, <3>1, <1>8 DEF IInv, GateReads
    <2> QED BY <2>1, <2>2
  <1>11. StageReads' /\ SendReads'
    <2>1. \A q \in Proc : Kind[q] # "gate" => q # p
      BY <1>1
    <2> QED BY <2>1, <1>1, <1>8 DEF IInv, StageReads, SendReads
  <1> QED BY <1>5, <1>6, <1>7, <1>10, <1>11 DEF IInv

\* What LIMIT lets through.
LEMMA OldestBounded ==
    ASSUME NEW S, NEW T \in Oldest(S)
    PROVE  T \subseteq S /\ Cardinality(T) <= Limit
  BY DEF Oldest

\* The check and the read of stage.
LEMMA StageReadStep ==
    ASSUME IInv, NEW p \in Proc, StageCheck(p) \/ StageRead(p)
    PROVE  IInv'
  <1> USE DEF IInv, tables, control
  <1>1. CASE StageCheck(p)
    <2>1. /\ pc' = [pc EXCEPT ![p] = "checked"] /\ Kind[p] = "stage"
          /\ UNCHANGED <<tables, control, rows, verdict, modeRead>>
      BY <1>1 DEF StageCheck, Goto
    <2>2. TypeOK'
      BY <2>1 DEF TypeOK
    <2>3. GateReads' /\ StageReads' /\ SendReads' /\ Lineage' /\ OnceEach'
      BY <2>1 DEF TypeOK, GateReads, StageReads, SendReads, Lineage, OnceEach
    <2> QED BY <2>2, <2>3
  <1>2. CASE StageRead(p)
    <2>r. PICK R \in Selections :
            \E T \in Oldest(Stageable(R)) : rows' = [rows EXCEPT ![p] = T]
      BY <1>2 DEF StageRead
    <2>1. PICK T \in Oldest(Stageable(R)) : rows' = [rows EXCEPT ![p] = T]
      BY <2>r
    <2>2. /\ pc' = [pc EXCEPT ![p] = "read"] /\ Kind[p] = "stage"
          /\ UNCHANGED <<tables, control, verdict, modeRead>>
      BY <1>2 DEF StageRead, Goto
    <2>3. /\ T \subseteq {d \in decisions : d.approved} /\ Cardinality(T) <= Limit
          /\ \A d \in T, s \in staged : s.decision # d
      BY OldestBounded DEF Stageable
    <2>4. TypeOK'
      BY <2>1, <2>2, <2>3 DEF TypeOK
    <2>5. StageReads'
      <3> SUFFICES ASSUME NEW q \in Proc, Kind[q] = "stage"
                   PROVE  /\ rows'[q] \subseteq {d \in decisions : d.approved}
                          /\ Cardinality(rows'[q]) <= Limit
                          /\ OneEach => \A d \in rows'[q], s \in staged : s.decision # d
        BY <2>2 DEF StageReads
      <3>1. CASE q = p
        BY <3>1, <2>1, <2>3 DEF TypeOK
      <3>2. CASE q # p
        BY <3>2, <2>1 DEF TypeOK, StageReads
      <3> QED BY <3>1, <3>2
    <2>6. GateReads' /\ SendReads' /\ Lineage' /\ OnceEach'
      BY <2>1, <2>2 DEF TypeOK, GateReads, SendReads, Lineage, OnceEach
    <2> QED BY <2>4, <2>5, <2>6
  <1> QED BY <1>1, <1>2

\* stage writes: with one stager, none of its decisions was staged in between.
LEMMA StageWriteStep ==
    ASSUME IInv, NEW p \in Proc, StageCommit(p)
    PROVE  IInv'
  <1> DEFINE new == {[tx |-> tx, decision |-> d] : d \in rows[p]}
  <1>1. /\ staged' = staged \cup new
        /\ tx' \in {tx, tx + 1}
        /\ Exit(p)
        /\ UNCHANGED <<planned, decisions, sent, control>>
        /\ Kind[p] = "stage"
    BY DEF StageCommit, Minted
  <1>2. rows[p] \subseteq {d \in decisions : d.approved} /\ rows[p] \subseteq Decision
    BY <1>1 DEF IInv, StageReads, TypeOK
  <1>3. new \subseteq StagedOrder
    BY <1>2 DEF IInv, TypeOK, StagedOrder
  <1>4. \A s \in new : s.decision \in rows[p] /\ s = [tx |-> tx, decision |-> s.decision]
    OBVIOUS
  <1> HIDE DEF new
  <1>5. TypeOK'
    BY <1>1, <1>3, ExitLocal DEF IInv, TypeOK, control
  <1>6. Lineage'
    BY <1>1, <1>2, <1>4 DEF IInv, Lineage
  <1>7. OnceEach'
    <2> SUFFICES ASSUME OneEach, NEW s \in staged', NEW t \in staged',
                        s.decision = t.decision
                 PROVE  s = t
      BY <1>1 DEF IInv, OnceEach
    <2>1. \A d \in rows[p], a \in staged : a.decision # d
      BY <1>1 DEF IInv, StageReads
    <2> QED BY <1>1, <1>4, <2>1 DEF IInv, OnceEach
  <1>8. \A q \in Proc \ {p} : rows'[q] = rows[q] /\ verdict'[q] = verdict[q]
                              /\ pc'[q] = pc[q] /\ modeRead'[q] = modeRead[q]
    BY <1>1, ExitLocal DEF IInv
  <1>9. rows'[p] = {} /\ Cardinality({}) <= Limit
    BY <1>1, ExitLocal, FS_EmptySet, PipelineAssumption DEF IInv
  <1>10. StageReads'
    <2> SUFFICES ASSUME NEW q \in Proc, Kind[q] = "stage"
                 PROVE  /\ rows'[q] \subseteq {d \in decisions : d.approved}
                        /\ Cardinality(rows'[q]) <= Limit
                        /\ OneEach => \A d \in rows'[q], s \in staged' : s.decision # d
      BY <1>1 DEF StageReads
    <2>1. CASE q = p
      BY <2>1, <1>9
    <2>2. CASE q # p
      <3>1. ~OneEach
        BY <1>1, <2>2 DEF OneEach
      <3> QED BY <2>2, <3>1, <1>8 DEF IInv, StageReads
    <2> QED BY <2>1, <2>2
  <1>11. GateReads' /\ SendReads'
    <2>1. \A q \in Proc : Kind[q] # "stage" => q # p
      BY <1>1
    <2> QED BY <2>1, <1>1, <1>8 DEF IInv, GateReads, SendReads
  <1> QED BY <1>5, <1>6, <1>7, <1>10, <1>11 DEF IInv

\* The two checks and the read of send.
LEMMA SendReadStep ==
    ASSUME IInv, NEW p \in Proc, SendCheckMode(p) \/ SendCheckFresh(p) \/ SendRead(p)
    PROVE  IInv'
  <1> USE DEF IInv, tables, control
  <1>1. CASE SendCheckMode(p)
    <2>1. /\ pc' = [pc EXCEPT ![p] = "checked"] /\ Kind[p] = "send"
          /\ modeRead' = [modeRead EXCEPT ![p] = mode] /\ mode \in SubmitModes
          /\ UNCHANGED <<tables, control, rows, verdict>>
      BY <1>1 DEF SendCheckMode, Goto
    <2>2. TypeOK'
      BY <2>1 DEF TypeOK
    <2>3. GateReads' /\ StageReads' /\ SendReads' /\ Lineage' /\ OnceEach'
      BY <2>1 DEF TypeOK, GateReads, StageReads, SendReads, Lineage, OnceEach
    <2> QED BY <2>2, <2>3
  <1>2. CASE SendCheckFresh(p)
    <2>1. CASE ~Fresh
      <3>1. Exit(p) /\ UNCHANGED <<tables, control>>
        BY <1>2, <2>1 DEF SendCheckFresh
      <3>2. GateReads' /\ StageReads' /\ SendReads'
        BY <3>1, ExitReads
      <3>3. TypeOK' /\ Lineage' /\ OnceEach'
        BY <3>1, ExitLocal DEF TypeOK, Lineage, OnceEach
      <3> QED BY <3>2, <3>3
    <2>2. CASE Fresh
      <3>1. /\ pc' = [pc EXCEPT ![p] = "fresh"] /\ Kind[p] = "send" /\ pc[p] = "checked"
            /\ UNCHANGED <<tables, control, rows, verdict, modeRead>>
        BY <1>2, <2>2 DEF SendCheckFresh, Goto
      <3>2. TypeOK'
        BY <3>1 DEF TypeOK
      <3>3. GateReads' /\ StageReads' /\ SendReads' /\ Lineage' /\ OnceEach'
        BY <3>1 DEF TypeOK, GateReads, StageReads, SendReads, Lineage, OnceEach
      <3> QED BY <3>2, <3>3
    <2> QED BY <2>1, <2>2
  <1>3. CASE SendRead(p)
    <2>1. PICK T \in Oldest(Sendable) : rows' = [rows EXCEPT ![p] = T]
      BY <1>3 DEF SendRead
    <2>2. /\ pc' = [pc EXCEPT ![p] = "read"] /\ Kind[p] = "send" /\ pc[p] = "fresh"
          /\ UNCHANGED <<tables, control, verdict, modeRead>>
      BY <1>3 DEF SendRead, Goto
    <2>3. /\ T \subseteq staged /\ Cardinality(T) <= Limit
          /\ \A s \in T, e \in sent : e.order # s
      BY OldestBounded DEF Sendable
    <2>4. TypeOK'
      BY <2>1, <2>2, <2>3 DEF TypeOK
    <2>5. SendReads'
      <3> SUFFICES ASSUME NEW q \in Proc, Kind[q] = "send"
                   PROVE  /\ rows'[q] \subseteq staged
                          /\ Cardinality(rows'[q]) <= Limit
                          /\ pc'[q] # "idle" => modeRead[q] \in SubmitModes
                          /\ OneEach => \A s \in rows'[q], e \in sent : e.order # s
        BY <2>2 DEF SendReads
      <3>1. CASE q = p
        BY <3>1, <2>1, <2>2, <2>3 DEF TypeOK, SendReads
      <3>2. CASE q # p
        BY <3>2, <2>1, <2>2 DEF TypeOK, SendReads
      <3> QED BY <3>1, <3>2
    <2>6. GateReads' /\ StageReads' /\ Lineage' /\ OnceEach'
      BY <2>1, <2>2 DEF TypeOK, GateReads, StageReads, Lineage, OnceEach
    <2> QED BY <2>4, <2>5, <2>6
  <1> QED BY <1>1, <1>2, <1>3

\* send writes: with one sender, none of its orders was submitted in between.
LEMMA SendWriteStep ==
    ASSUME IInv, NEW p \in Proc, SendCommit(p)
    PROVE  IInv'
  <1> DEFINE new == {[tx |-> tx, order |-> s, mode |-> modeRead[p]] : s \in rows[p]}
  <1>1. /\ sent' = sent \cup new
        /\ tx' \in {tx, tx + 1}
        /\ Exit(p)
        /\ UNCHANGED <<planned, decisions, staged, control>>
        /\ Kind[p] = "send"
    BY DEF SendCommit, Minted
  <1>2. rows[p] \subseteq staged /\ rows[p] \subseteq StagedOrder
    BY <1>1 DEF IInv, SendReads, TypeOK
  <1>3. new \subseteq BrokerEvent
    BY <1>2 DEF IInv, TypeOK, BrokerEvent
  <1>4. \A e \in new : /\ e.order \in rows[p]
                       /\ e = [tx |-> tx, order |-> e.order, mode |-> modeRead[p]]
    OBVIOUS
  <1> HIDE DEF new
  <1>5. TypeOK'
    BY <1>1, <1>3, ExitLocal DEF IInv, TypeOK, control
  <1>6. Lineage'
    BY <1>1, <1>2, <1>4 DEF IInv, Lineage
  <1>7. OnceEach'
    <2> SUFFICES ASSUME OneEach, NEW e \in sent', NEW f \in sent', e.order = f.order
                 PROVE  e = f
      BY <1>1 DEF IInv, OnceEach
    <2>1. \A s \in rows[p], a \in sent : a.order # s
      BY <1>1 DEF IInv, SendReads
    <2> QED BY <1>1, <1>4, <2>1 DEF IInv, OnceEach
  <1>8. \A q \in Proc \ {p} : rows'[q] = rows[q] /\ verdict'[q] = verdict[q]
                              /\ pc'[q] = pc[q] /\ modeRead'[q] = modeRead[q]
    BY <1>1, ExitLocal DEF IInv
  <1>9. rows'[p] = {} /\ pc'[p] = "idle" /\ Cardinality({}) <= Limit
    BY <1>1, ExitLocal, FS_EmptySet, PipelineAssumption DEF IInv
  <1>10. SendReads'
    <2> SUFFICES ASSUME NEW q \in Proc, Kind[q] = "send"
                 PROVE  /\ rows'[q] \subseteq staged
                        /\ Cardinality(rows'[q]) <= Limit
                        /\ pc'[q] # "idle" => modeRead'[q] \in SubmitModes
                        /\ OneEach => \A s \in rows'[q], e \in sent' : e.order # s
      BY <1>1 DEF SendReads
    <2>1. CASE q = p
      BY <2>1, <1>9
    <2>2. CASE q # p
      <3>1. ~OneEach
        BY <1>1, <2>2 DEF OneEach
      <3> QED BY <2>2, <3>1, <1>8 DEF IInv, SendReads
    <2> QED BY <2>1, <2>2
  <1>11. GateReads' /\ StageReads'
    <2>1. \A q \in Proc : Kind[q] # "send" => q # p
      BY <1>1
    <2> QED BY <2>1, <1>1, <1>8 DEF IInv, GateReads, StageReads
  <1> QED BY <1>5, <1>6, <1>7, <1>10, <1>11 DEF IInv

\* Every step keeps the invariant.
LEMMA Inductive == IInv /\ [Next]_vars => IInv'
  <1> SUFFICES ASSUME IInv, [Next]_vars PROVE IInv'
    OBVIOUS
  <1>1. CASE Recon \/ SetMode \/ Tick \/ \E r \in Run : Plan(r)
    BY <1>1, ControlStep
  <1>2. ASSUME NEW p \in Proc, GateLoad(p) \/ GateJudge(p)
        PROVE  IInv'
    BY <1>2, GateReadStep
  <1>3. ASSUME NEW p \in Proc, GateCommit(p)
        PROVE  IInv'
    BY <1>3, GateWriteStep
  <1>4. ASSUME NEW p \in Proc, StageCheck(p) \/ StageRead(p)
        PROVE  IInv'
    BY <1>4, StageReadStep
  <1>5. ASSUME NEW p \in Proc, StageCommit(p)
        PROVE  IInv'
    BY <1>5, StageWriteStep
  <1>6. ASSUME NEW p \in Proc, SendCheckMode(p) \/ SendCheckFresh(p) \/ SendRead(p)
        PROVE  IInv'
    BY <1>6, SendReadStep
  <1>7. ASSUME NEW p \in Proc, SendCommit(p)
        PROVE  IInv'
    BY <1>7, SendWriteStep
  <1>8. ASSUME NEW p \in Proc, Crash(p)
        PROVE  IInv'
    BY <1>8, CrashStep
  <1>9. CASE UNCHANGED vars
    BY <1>9 DEF vars, tables, control, local, IInv, TypeOK, Lineage, GateReads,
                StageReads, SendReads, OnceEach
  <1> QED BY <1>1, <1>2, <1>3, <1>4, <1>5, <1>6, <1>7, <1>8, <1>9 DEF Next

\* The tables and what every command carries between its read and its write are
\* in order in every reachable state, for any number of processes and rows.
THEOREM PipelineInvariant == Spec => []IInv
  BY Initially, Inductive, PTL DEF Spec

\* Every table and everything a process carries keeps its shape; the ages stop at
\* MaxAge + 1, the columns refer to rows that exist in their tables' types.
THEOREM TypeCorrect == Spec => []TypeOK
  <1>1. IInv => TypeOK
    BY DEF IInv
  <1> QED BY <1>1, PipelineInvariant, PTL

\* Every staged order has an approved decision and every broker event a staged
\* order, however many processes run each command.
THEOREM LineageHolds == Spec => []Lineage
  <1>1. IInv => Lineage
    BY DEF IInv
  <1> QED BY <1>1, PipelineInvariant, PTL

\* One process per command submits one order per intent, over any number of
\* crashes and calls.
THEOREM OneOrderPerIntentHolds == Spec => []OneOrderPerIntent
  <1>1. IInv => OneOrderPerIntent
    <2> SUFFICES ASSUME IInv, OneEach, NEW e \in sent, NEW f \in sent, SameIntent(e, f)
                 PROVE  e = f
      BY DEF OneOrderPerIntent
    <2>1. /\ e.order \in staged /\ f.order \in staged
          /\ e.order.decision \in decisions /\ f.order.decision \in decisions
      BY DEF IInv, Lineage
    <2>2. e.order.decision = f.order.decision
      BY <2>1 DEF IInv, OnceEach, SameIntent
    <2>3. e.order = f.order
      BY <2>1, <2>2 DEF IInv, OnceEach
    <2> QED BY <2>3 DEF IInv, OnceEach
  <1> QED BY <1>1, PipelineInvariant, PTL

\* One process per command never submits an order gate has rejected.
THEOREM RejectedNeverSentHolds == Spec => []RejectedNeverSent
  <1>1. IInv => RejectedNeverSent
    <2> SUFFICES ASSUME IInv, OneEach, NEW e \in sent, NEW d \in decisions,
                        d.intent = e.order.decision.intent
                 PROVE  d.approved
      BY DEF RejectedNeverSent
    <2>1. e.order \in staged /\ e.order.decision \in decisions /\ e.order.decision.approved
      BY DEF IInv, Lineage
    <2>2. d = e.order.decision
      BY <2>1 DEF IInv, OnceEach
    <2> QED BY <2>1, <2>2
  <1> QED BY <1>1, PipelineInvariant, PTL

(***************************************************************************)
(* The order of sending.  A staged row is later than every row staged      *)
(* before, so what a sender read stays the oldest of what is unsent.       *)
(***************************************************************************)

LEMMA InitInTurn == Init => InTurn
  BY DEF Init, InTurn, StagedBefore, ReadsOldest, SentInTurn

\* A command that writes neither staged nor sent, and whose reader reads nothing
\* for send, leaves the order as it was.
LEMMA QuietInTurn ==
    ASSUME InTurn, UNCHANGED <<staged, sent>>, StagedBefore',
           \A p \in Proc : Kind[p] = "send" => rows'[p] \in {rows[p], {}}
    PROVE  InTurn'
  BY DEF InTurn, ReadsOldest, SentInTurn

LEMMA NextInTurn == IInv /\ InTurn /\ [Next]_vars => InTurn'
  <1> SUFFICES ASSUME IInv, InTurn, [Next]_vars PROVE InTurn'
    OBVIOUS
  <1>t. tx \in Nat /\ (\A s \in staged : s.tx \in Nat /\ s.tx < tx)
    BY DEF IInv, TypeOK, StagedOrder, InTurn, StagedBefore
  <1>1. CASE Recon \/ SetMode \/ Tick \/ (\E r \in Run : Plan(r)) \/ UNCHANGED vars
    <2>1. UNCHANGED <<staged, sent, tx, rows>>
      BY <1>1 DEF Recon, SetMode, Tick, Plan, vars, tables, local
    <2> QED BY <2>1, QuietInTurn DEF InTurn, StagedBefore
  <1>2. ASSUME NEW p \in Proc,
               \/ GateLoad(p) \/ GateJudge(p) \/ StageCheck(p) \/ StageRead(p)
               \/ SendCheckMode(p) \/ SendCheckFresh(p) \/ Crash(p)
        PROVE  InTurn'
    <2>1. UNCHANGED <<staged, sent, tx>>
      BY <1>2 DEF GateLoad, GateJudge, StageCheck, StageRead, SendCheckMode, SendCheckFresh,
                  Crash, tables
    <2>2. ASSUME NEW q \in Proc, Kind[q] = "send" PROVE rows'[q] \in {rows[q], {}}
      <3>1. CASE GateLoad(p) \/ StageRead(p)
        BY <3>1, <2>2 DEF GateLoad, StageRead, IInv, TypeOK
      <3>2. CASE GateJudge(p) \/ StageCheck(p) \/ SendCheckMode(p) \/ SendCheckFresh(p) \/ Crash(p)
        BY <3>2 DEF GateJudge, StageCheck, SendCheckMode, SendCheckFresh, Crash, Exit, IInv, TypeOK
      <3> QED BY <1>2, <2>2, <3>1, <3>2 DEF SendCheckMode
    <2> QED BY <2>1, <2>2, QuietInTurn DEF InTurn, StagedBefore
  <1>3. ASSUME NEW p \in Proc, GateCommit(p)
        PROVE  InTurn'
    <2>1. tx' \in {tx, tx + 1} /\ UNCHANGED <<staged, sent>> /\ Exit(p)
      BY <1>3 DEF GateCommit, Minted
    <2>2. StagedBefore'
      BY <1>t, <2>1 DEF StagedBefore
    <2>3. \A q \in Proc : rows'[q] \in {rows[q], {}}
      BY <2>1 DEF Exit, IInv, TypeOK
    <2> QED BY <2>1, <2>2, <2>3, QuietInTurn
  <1>4. ASSUME NEW p \in Proc, StageCommit(p)
        PROVE  InTurn'
    <2> DEFINE new == {[tx |-> tx, decision |-> d] : d \in rows[p]}
    <2>1. /\ staged' = staged \cup new
          /\ tx' = IF rows[p] = {} THEN tx ELSE tx + 1
          /\ sent' = sent
          /\ Kind[p] = "stage"
          /\ Exit(p)
      BY <1>4 DEF StageCommit, Minted
    <2>2. (\A s \in new : s.tx = tx) /\ (new # {} => tx' = tx + 1) /\ tx' \in {tx, tx + 1}
      BY <2>1
    <2> HIDE DEF new
    <2>3. StagedBefore'
      BY <1>t, <2>1, <2>2 DEF StagedBefore
    <2>4. \A q \in Proc : Kind[q] = "send" => rows'[q] = rows[q] /\ rows[q] \subseteq staged
      BY <2>1, ExitLocal DEF IInv, SendReads
    <2>5. ReadsOldest'
      <3> SUFFICES ASSUME NEW q \in Proc, Kind[q] = "send", NEW t \in rows[q],
                          NEW s \in staged' \ rows[q], \A f \in sent : f.order # s
                   PROVE  t.tx <= s.tx
        BY <2>1, <2>4 DEF ReadsOldest
      <3>1. t \in staged
        BY <2>4
      <3>2. CASE s \in staged
        BY <3>2 DEF InTurn, ReadsOldest
      <3>3. CASE s \in new
        BY <1>t, <2>2, <3>1, <3>3
      <3> QED BY <2>1, <3>2, <3>3
    <2>6. SentInTurn'
      <3> SUFFICES ASSUME NEW e \in sent, NEW s \in staged', \A f \in sent : f.order # s
                   PROVE  e.order.tx <= s.tx
        BY <2>1 DEF SentInTurn
      <3>1. e.order \in staged
        BY DEF IInv, Lineage
      <3>2. CASE s \in staged
        BY <3>2 DEF InTurn, SentInTurn
      <3>3. CASE s \in new
        BY <1>t, <2>2, <3>1, <3>3
      <3> QED BY <2>1, <3>2, <3>3
    <2> QED BY <2>3, <2>5, <2>6 DEF InTurn
  <1>5. ASSUME NEW p \in Proc, SendRead(p)
        PROVE  InTurn'
    <2>1. PICK T \in Oldest(Sendable) : rows' = [rows EXCEPT ![p] = T]
      BY <1>5 DEF SendRead
    <2>2. UNCHANGED <<staged, sent, tx>>
      BY <1>5 DEF SendRead, tables
    <2>3. \A t \in T, s \in staged \ T : (\A f \in sent : f.order # s) => t.tx <= s.tx
      BY DEF Oldest, Sendable
    <2>4. ReadsOldest'
      BY <2>1, <2>2, <2>3 DEF ReadsOldest, InTurn, IInv, TypeOK
    <2> QED BY <2>2, <2>4 DEF InTurn, StagedBefore, SentInTurn
  <1>6. ASSUME NEW p \in Proc, SendCommit(p)
        PROVE  InTurn'
    <2> DEFINE new == {[tx |-> tx, order |-> s, mode |-> modeRead[p]] : s \in rows[p]}
    <2>1. /\ sent' = sent \cup new
          /\ tx' \in {tx, tx + 1}
          /\ staged' = staged
          /\ Kind[p] = "send"
          /\ Exit(p)
      BY <1>6 DEF SendCommit, Minted
    <2>2. /\ \A e \in new : e.order \in rows[p]
          /\ \A t \in rows[p] : \E e \in new : e.order = t
      <3>1. \A e \in new : e.order \in rows[p]
        OBVIOUS
      <3>2. ASSUME NEW t \in rows[p] PROVE \E e \in new : e.order = t
        <4>1. [tx |-> tx, order |-> t, mode |-> modeRead[p]] \in new
          OBVIOUS
        <4> HIDE DEF new
        <4> QED BY <4>1
      <3> QED BY <3>1, <3>2
    <2> HIDE DEF new
    <2>3. StagedBefore'
      BY <1>t, <2>1 DEF StagedBefore
    <2>4. \A q \in Proc : rows'[q] \in {rows[q], {}}
      BY <2>1 DEF Exit, IInv, TypeOK
    <2>5. ReadsOldest'
      <3> SUFFICES ASSUME NEW q \in Proc, Kind[q] = "send", NEW t \in rows'[q],
                          NEW s \in staged \ rows'[q], \A f \in sent' : f.order # s
                   PROVE  t.tx <= s.tx
        BY <2>1 DEF ReadsOldest
      <3>1. rows'[q] = rows[q]
        BY <2>4
      <3> QED BY <2>1, <3>1 DEF InTurn, ReadsOldest
    <2>6. SentInTurn'
      <3> SUFFICES ASSUME NEW e \in sent', NEW s \in staged, \A f \in sent' : f.order # s
                   PROVE  e.order.tx <= s.tx
        BY <2>1 DEF SentInTurn
      <3>1. CASE e \in sent
        BY <2>1, <3>1 DEF InTurn, SentInTurn
      <3>2. CASE e \in new
        <4>1. s \notin rows[p]
          BY <2>1, <2>2
        <4> QED BY <2>1, <2>2, <3>2, <4>1 DEF InTurn, ReadsOldest
      <3> QED BY <2>1, <3>1, <3>2
    <2> QED BY <2>3, <2>5, <2>6 DEF InTurn
  <1> QED BY <1>1, <1>2, <1>3, <1>4, <1>5, <1>6 DEF Next

\* One process per command sends its orders in the order they were staged, over
\* any number of crashes, calls and limits.
THEOREM SentOldestFirstHolds == Spec => []SentOldestFirst
  <1>1. InTurn => SentOldestFirst
    BY DEF InTurn, SentInTurn, SentOldestFirst
  <1>2. IInv /\ [Next]_vars /\ InTurn => InTurn'
    BY NextInTurn
  <1> QED BY <1>1, <1>2, InitInTurn, PipelineInvariant, PTL DEF Spec

\* The instance's Cardinality is the one of this module.
LEMMA LedgerCardinality == \A S : Ledger!Cardinality(S) = Cardinality(S)
  BY DEF Cardinality, Ledger!Cardinality

\* The commands' steps, seen on the tables, are the ledger's.
LEMMA StepMapsToLedger ==
    ASSUME OneEach, IInv, [Next]_vars
    PROVE  [Ledger!Next]_(Ledger!vars)
  <1> USE DEF tables, control, local, Ledger!vars
  <1>1. CASE \E r \in Run : Plan(r)
    BY <1>1 DEF Plan, Ledger!Next, Ledger!Propose
  <1>2. ASSUME NEW p \in Proc, GateCommit(p)
        PROVE  Ledger!Decide
    <2>1. rows[p] \in SUBSET planned /\ verdict[p] \in SUBSET rows[p] /\ tx \in 0 .. MaxTx
      BY <1>2, PipelineAssumption DEF IInv, TypeOK, GateReads, GateCommit
    <2>2. \A i \in rows[p], d \in decisions : d.intent # i
      BY <1>2 DEF IInv, GateReads, GateCommit
    <2>3. decisions' = decisions \cup
            {[tx |-> tx, intent |-> i, approved |-> i \in verdict[p]] : i \in rows[p]}
          /\ UNCHANGED <<planned, staged, sent>>
      BY <1>2 DEF GateCommit
    <2> QED BY <2>1, <2>2, <2>3, Zenon DEF Ledger!Decide
  <1>3. ASSUME NEW p \in Proc, StageCommit(p)
        PROVE  Ledger!Stage
    <2>1. /\ rows[p] \in SUBSET {d \in decisions : d.approved} /\ Cardinality(rows[p]) <= Limit
          /\ tx \in 0 .. MaxTx
      BY <1>3, PipelineAssumption DEF IInv, TypeOK, StageReads, StageCommit
    <2>2. \A d \in rows[p], s \in staged : s.decision # d
      BY <1>3 DEF IInv, StageReads, StageCommit
    <2>3. staged' = staged \cup {[tx |-> tx, decision |-> d] : d \in rows[p]}
          /\ UNCHANGED <<planned, decisions, sent>>
      BY <1>3 DEF StageCommit
    <2> QED BY <2>1, <2>2, <2>3, LedgerCardinality, Zenon DEF Ledger!Stage
  <1>4. ASSUME NEW p \in Proc, SendCommit(p)
        PROVE  Ledger!Submit
    <2>1. /\ rows[p] \in SUBSET staged /\ Cardinality(rows[p]) <= Limit
          /\ tx \in 0 .. MaxTx /\ modeRead[p] \in SubmitModes
      BY <1>4, PipelineAssumption DEF IInv, TypeOK, SendReads, SendCommit
    <2>2. \A s \in rows[p], e \in sent : e.order # s
      BY <1>4 DEF IInv, SendReads, SendCommit
    <2>3. sent' = sent \cup {[tx |-> tx, order |-> s, mode |-> modeRead[p]] : s \in rows[p]}
          /\ UNCHANGED <<planned, decisions, staged>>
      BY <1>4 DEF SendCommit
    <2> QED BY <2>1, <2>2, <2>3, LedgerCardinality, Zenon DEF Ledger!Submit
  <1>5. CASE Recon \/ SetMode \/ Tick \/ UNCHANGED vars
    BY <1>5 DEF Recon, SetMode, Tick, vars
  <1>6. ASSUME NEW p \in Proc,
               \/ GateLoad(p) \/ GateJudge(p) \/ StageCheck(p) \/ StageRead(p)
               \/ SendCheckMode(p) \/ SendCheckFresh(p) \/ SendRead(p) \/ Crash(p)
        PROVE  UNCHANGED <<planned, decisions, staged, sent>>
    BY <1>6 DEF GateLoad, GateJudge, StageCheck, StageRead, SendCheckMode,
                SendCheckFresh, SendRead, Crash
  <1> QED BY <1>1, <1>2, <1>3, <1>4, <1>5, <1>6 DEF Next, Ledger!Next

\* With one process per command the separate reads and writes are not visible in
\* the tables: the chain implements the ledger whose steps are atomic.
THEOREM LedgerImplemented ==
    ASSUME OneEach
    PROVE  Spec => ImplementsLedger
  <1>1. Init => Ledger!Init
    BY DEF Init, Ledger!Init
  <1>2. IInv /\ [Next]_vars => [Ledger!Next]_(Ledger!vars)
    BY StepMapsToLedger
  <1> QED BY <1>1, <1>2, PipelineInvariant, PTL DEF Spec, ImplementsLedger, Ledger!Spec
=============================================================================
