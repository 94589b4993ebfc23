-------------------------- MODULE FeatureStoreProofs --------------------------
(***************************************************************************)
(* For all filings, documents and times: a feature row holds nothing that  *)
(* was filed after its as-of time, and finds a comparable year if one was  *)
(* known.                                                                  *)
(***************************************************************************)
EXTENDS FeatureStore, FiniteSetTheorems, TLAPS

\* A fact comes from a context of its document.
FactsFiled ==
  \A x \in facts :
    /\ x.doc.filing \in Filings /\ x.doc.content \in Contents \union {Truncated}
    /\ x.item.context \in DOMAIN Document[x.doc.content].contexts

\* The figures of a statement were filed by the time it carries.
StatementsFiled ==
  \A k \in DOMAIN statements :
    k.end \in Int /\ k.available_at \in Int /\ FiledBy(k, k.available_at, Observations)

KnownBy(k, as_of) == k \in DOMAIN statements /\ k.available_at <= as_of

\* Feature rows, and the one under way, name statements that carry their time.
RowsKnown ==
  /\ \A s \in DOMAIN snapshots :
       /\ s.as_of \in AsOf /\ KnownBy(s.latest, s.as_of)
       /\ s.previous # None => KnownBy(s.previous, s.as_of)
  /\ job # None => job.as_of \in AsOf /\ KnownBy(job.latest, job.as_of)

IInv == FactsFiled /\ StatementsFiled /\ RowsKnown

\* What could be the revenue of a statement.
RevenueFacts == {o \in Observations : o.metric = "revenue" /\ Annual(o)}

\* Nothing is there before its day, and a statement has the revenue of its year.
Timely ==
  /\ TypeOK
  /\ \A s \in DOMAIN snapshots : snapshots[s] \in Times
  /\ \A o \in Observations : o.available_at <= now
  /\ \A k \in DOMAIN statements :
       /\ k.available_at <= now
       /\ \E o \in RevenueFacts : o.period.end = k.end /\ o.available_at <= k.available_at

\* A statement reaches as far as o does, and was available as soon.
Covered(o) ==
  \E k \in DOMAIN statements : k.available_at <= o.available_at /\ k.end >= o.period.end

\* The last year that R reports by then.
LastYear(R, end, then) ==
  /\ \E o \in R : o.period.end = end /\ o.available_at <= then
  /\ \A o \in R : o.available_at <= then => o.period.end <= end

\* Only the filings of today may still wait for their statement, and what is asked of
\* the past finds the last year of that time.
Current ==
  /\ \A f \in Filings : ~Parsed(f) => now <= Accepted[f]
  /\ \A o \in RevenueFacts : Covered(o) \/ (fresh = FALSE /\ o.available_at = now)
  /\ job # None /\ job.as_of < now => LastYear(RevenueFacts, job.latest.end, job.as_of)
  /\ \A s \in DOMAIN snapshots :
       snapshots[s] > s.as_of => LastYear(RevenueFacts, s.latest.end, s.as_of)

\* Later answers about the past rest on later statements.
Onward ==
  \A s \in DOMAIN snapshots : snapshots[s] > s.as_of =>
    /\ job # None /\ job.as_of = s.as_of /\ snapshots[s] < now =>
         s.latest.available_at <= job.latest.available_at
    /\ \A u \in DOMAIN snapshots : u.as_of = s.as_of /\ snapshots[s] < snapshots[u] =>
         s.latest.available_at <= u.latest.available_at

InStep == Current /\ Onward
PromptInv == Timely /\ (prompt => InStep)

\* Naming the fiscal year of a period leaves its end.
LEMMA RelabelKeepsEnd ==
    ASSUME NEW c, NEW focus
    PROVE  Relabel(Period(c), focus).end = c.end
  BY DEF Relabel, Period

\* What is observed has a time, an end and a value.
LEMMA ObservedDates ==
    ASSUME FactsFiled, NEW o \in Observations
    PROVE  o.available_at \in Int /\ o.period.end \in Int /\ o.value # None
  <1>1. PICK x \in facts : o = Observation(x) /\ Selectable(x)
    BY DEF Observations
  <1> DEFINE content == x.doc.content
             id == x.item.context
             c == Document[content].contexts[id]
  <1>2. /\ x.doc.filing \in Filings /\ content \in Contents \union {Truncated}
        /\ id \in DOMAIN Document[content].contexts
    BY DEF FactsFiled
  <1>3. c.end \in Int /\ Accepted[x.doc.filing] \in Int
    BY <1>2, FactStoreAssumption
  <1>4. ContextsOf[content][id].period = Relabel(Period(c), Document[content].focus)
    BY <1>2 DEF ContextsOf
  <1>5. ContextsOf[content][id].period.end \in Int
    BY <1>3, <1>4, RelabelKeepsEnd
  <1> QED BY <1>1, <1>3, <1>5 DEF Observation, Selectable

\* Facts, and with them the observations, are only added.
LEMMA FactsGrow ==
    ASSUME NEW f \in Filings, Parse(f)
    PROVE  facts \subseteq facts' /\ Observations \subseteq Observations'
  <1>1. facts \subseteq facts'
    BY DEF Parse, StoreParse
  <1> QED BY <1>1 DEF Observations, Observation, Selectable

\* What a parse adds is of its filing and of a context of its document.
LEMMA NewFacts ==
    ASSUME NEW f \in Filings, Parse(f), NEW x \in facts', x \notin facts
    PROVE  /\ x.doc.filing = f /\ x.doc.content = Primary[f]
           /\ x.item.context \in DOMAIN Document[x.doc.content].contexts
  <1> DEFINE file == [name |-> "primary", content |-> Primary[f]]
  <1>1. x \in FactsOfFiles(f, {"primary"}, <<file>>)
    BY DEF Parse, StoreParse
  <1>2. PICK i \in Instances({"primary"}, <<file>>) :
          x \in {[doc |-> DocOf(f, <<file>>[i]), item |-> y] : y \in ItemsOf(<<file>>[i].content)}
    BY <1>1 DEF FactsOfFiles
  <1>3. i = 1 /\ <<file>>[i] = file
    BY DEF Instances
  <1>4. x.doc = DocOf(f, file) /\ x.item \in ItemsOf(Primary[f])
    BY <1>2, <1>3
  <1> QED BY <1>4 DEF DocOf, ItemsOf

\* A parse adds facts of contexts of the document it reads.
LEMMA FactsFiledStays ==
    ASSUME FactsFiled, NEW f \in Filings, Parse(f)
    PROVE  FactsFiled'
  <1>1. Primary[f] \in Contents
    BY FeatureStoreAssumption
  <1> QED BY <1>1, NewFacts DEF FactsFiled

\* The metrics of a statement that are there; its revenue always is.
Present(chosen, m) == m = "revenue" \/ chosen[m] # None

\* max_available_at is the greatest of the dates it is given, and one of them.
LEMMA MaxIsGreatest ==
    ASSUME NEW chosen,
           \A m \in Metrics : Present(chosen, m) => chosen[m].available_at \in Int
    PROVE  /\ MaxAvailable(chosen) \in Int
           /\ \A m \in Metrics : Present(chosen, m) => chosen[m].available_at <= MaxAvailable(chosen)
           /\ \E m \in Metrics : Present(chosen, m) /\ MaxAvailable(chosen) = chosen[m].available_at
  <1> USE DEF Present
  <1> DEFINE S == {chosen[m].available_at : m \in {x \in Metrics : x = "revenue" \/ chosen[x] # None}}
  <1>1. S \subseteq Int
    OBVIOUS
  <1>2. \E t \in S : \A u \in S : u <= t
    <2> DEFINE r == chosen["revenue"].available_at
               n == IF chosen["net_income"] # None THEN chosen["net_income"].available_at ELSE r
               c == IF chosen["cash"] # None THEN chosen["cash"].available_at ELSE r
    <2>1. r \in S /\ n \in S /\ c \in S
      BY DEF Metrics
    <2>2. \A u \in S : u = r \/ u = n \/ u = c
      BY DEF Metrics
    <2> HIDE DEF S, r, n, c
    <2>3. r \in Int /\ n \in Int /\ c \in Int
      BY <1>1, <2>1
    <2>4. \E t \in {r, n, c} : r <= t /\ n <= t /\ c <= t
      BY <2>3
    <2> QED BY <2>1, <2>2, <2>4
  <1>3. MaxAvailable(chosen) \in S /\ \A u \in S : u <= MaxAvailable(chosen)
    BY <1>2 DEF MaxAvailable
  <1> QED BY <1>1, <1>3

\* What the builder makes of the observations: a statement with a revenue, filed by
\* the time it gets, which is the time of one of them.
LEMMA BuiltIsFiled ==
    ASSUME FactsFiled, NEW a \in Anchors(Observations), NEW k \in Built(Observations, a)
    PROVE  /\ k.end = a /\ k.end \in Int /\ k.available_at \in Int
           /\ FiledBy(k, k.available_at, Observations) /\ k.values["revenue"] # None
           /\ \E o \in RevenueFacts : o.period.end = a /\ o.available_at <= k.available_at
           /\ \E o \in Observations : o.available_at = k.available_at
  <1> DEFINE obs == Observations
  <1>1. PICK r \in Flows(obs, "revenue", a), n \in OrNone(Flows(obs, "net_income", a)),
             c \in OrNone(Points(obs, "cash", a)) :
          k = [end |-> a, available_at |-> MaxAvailable([revenue |-> r, net_income |-> n, cash |-> c]),
               values |-> [m \in Metrics |->
                 IF m = "revenue" THEN [revenue |-> r, net_income |-> n, cash |-> c][m].value
                 ELSE Value([revenue |-> r, net_income |-> n, cash |-> c][m])]]
    BY DEF Built
  <1> DEFINE chosen == [revenue |-> r, net_income |-> n, cash |-> c]
  <1>2. /\ r \in obs /\ r.metric = "revenue" /\ r.period.end = a /\ Annual(r)
        /\ n # None => n \in obs /\ n.metric = "net_income" /\ n.period.end <= a
        /\ c # None => c \in obs /\ c.metric = "cash" /\ c.period.end <= a
    BY <1>1 DEF Flows, Points, OrNone, Usable
  <1>3. a \in Int
    BY <1>2, ObservedDates
  <1>4. ASSUME NEW m \in Metrics, Present(chosen, m)
        PROVE  chosen[m] \in obs /\ chosen[m].metric = m /\ chosen[m].period.end <= a
    <2>1. m = "revenue" \/ m = "net_income" \/ m = "cash"
      BY DEF Metrics
    <2> QED BY <1>2, <1>3, <1>4, <2>1 DEF Present
  <1>5. k.end = a /\ k.available_at = MaxAvailable(chosen)
    BY <1>1
  <1>6. \A m \in Metrics : k.values[m] = IF m = "revenue" THEN chosen[m].value ELSE Value(chosen[m])
    BY <1>1
  <1>7. r = chosen["revenue"] /\ "revenue" \in Metrics
    BY DEF Metrics
  <1> HIDE DEF chosen, obs
  <1>8. \A m \in Metrics : Present(chosen, m) => chosen[m].available_at \in Int /\ chosen[m].value # None
    BY <1>4, ObservedDates DEF obs
  <1>9. /\ MaxAvailable(chosen) \in Int
        /\ \A m \in Metrics : Present(chosen, m) => chosen[m].available_at <= MaxAvailable(chosen)
        /\ \E m \in Metrics : Present(chosen, m) /\ MaxAvailable(chosen) = chosen[m].available_at
    BY <1>8, MaxIsGreatest
  <1>10. ASSUME NEW m \in Metrics, k.values[m] # None
         PROVE  \E o \in obs : /\ o.metric = m /\ o.value = k.values[m]
                               /\ o.period.end <= k.end /\ o.available_at <= k.available_at
    <2>1. Present(chosen, m) /\ k.values[m] = chosen[m].value
      BY <1>6, <1>10 DEF Value, Present
    <2>2. chosen[m] \in obs /\ chosen[m].metric = m /\ chosen[m].period.end <= k.end
      BY <1>4, <1>5, <2>1
    <2>3. chosen[m].available_at <= k.available_at
      BY <1>5, <1>9, <2>1
    <2> QED BY <2>1, <2>2, <2>3
  <1>11. FiledBy(k, k.available_at, obs)
    BY <1>10 DEF FiledBy
  <1>12. Present(chosen, "revenue")
    BY DEF Present
  <1>13. k.values["revenue"] # None
    BY <1>6, <1>7, <1>8, <1>12
  <1>14. r \in RevenueFacts /\ r.period.end = a /\ r.available_at <= k.available_at
    BY <1>2, <1>5, <1>7, <1>9, <1>12 DEF RevenueFacts, obs
  <1>15. \E o \in obs : o.available_at = k.available_at
    BY <1>4, <1>5, <1>9
  <1> QED BY <1>3, <1>5, <1>9, <1>11, <1>13, <1>14, <1>15 DEF obs

\* What was filed by then still was when more is.
LEMMA FiledStays ==
    ASSUME NEW k, NEW then, NEW S, NEW T, S \subseteq T, FiledBy(k, then, S)
    PROVE  FiledBy(k, then, T)
  BY DEF FiledBy

\* A statement is built of observations that have its time or an earlier one.
LEMMA ValueKeeps ==
    ASSUME IInv, RunValue
    PROVE  IInv'
  <1>1. UNCHANGED <<facts, documents, contexts, job, snapshots>>
    BY DEF RunValue, tables
  <1>2. FactsFiled' /\ Observations' = Observations
    BY <1>1 DEF IInv, FactsFiled, Observations, Observation, Selectable
  <1>3. PICK S \in SUBSET UNION {Built(Observations, a) : a \in Anchors(Observations)} :
          statements' = WithStatements(S)
    <2> DEFINE built == [a \in Anchors(Observations) |-> Built(Observations, a)]
    <2>1. PICK S \in SUBSET UNION {built[a] : a \in DOMAIN built} : statements' = WithStatements(S)
      BY DEF RunValue
    <2>2. UNION {built[a] : a \in DOMAIN built} = UNION {Built(Observations, a) : a \in Anchors(Observations)}
      OBVIOUS
    <2> QED BY <2>1, <2>2
  <1>4. DOMAIN statements' = DOMAIN statements \union S
    BY <1>3 DEF WithStatements
  <1>5. StatementsFiled'
    <2> SUFFICES ASSUME NEW k \in DOMAIN statements'
                 PROVE  /\ k.end \in Int /\ k.available_at \in Int
                        /\ FiledBy(k, k.available_at, Observations')
      BY DEF StatementsFiled
    <2>1. CASE k \in DOMAIN statements
      BY <1>2, <2>1 DEF IInv, StatementsFiled
    <2>2. CASE k \in S
      <3>1. PICK a \in Anchors(Observations) : k \in Built(Observations, a)
        BY <1>3, <2>2
      <3> QED BY <1>2, <3>1, BuiltIsFiled DEF IInv
    <2> QED BY <1>4, <2>1, <2>2
  <1>6. RowsKnown'
    BY <1>1, <1>4 DEF IInv, RowsKnown, KnownBy
  <1> QED BY <1>2, <1>5, <1>6 DEF IInv

\* The two queries of load_latest_feature_sources answer with known statements.
LEMMA KnownAreKnown ==
    ASSUME NEW t
    PROVE  /\ \A k \in Latest(t) : KnownBy(k, t)
           /\ \A end : \A k \in Previous(t, end) : KnownBy(k, t) /\ k.end < end
  BY DEF Latest, Previous, Earlier, First, Known, KnownBy

\* A feature row is made of what the queries answered.
LEMMA FeaturesKeep ==
    ASSUME IInv, FeatStore \/ \E t \in AsOf : FeatRead(t)
    PROVE  IInv'
  <1>1. UNCHANGED <<facts, statements>>
    BY DEF FeatStore, FeatRead, tables
  <1>2. FactsFiled' /\ StatementsFiled'
    BY <1>1 DEF IInv, FactsFiled, StatementsFiled, Observations, Observation, Selectable
  <1>3. CASE FeatStore
    <2>1. PICK p \in OrNone(Previous(job.as_of, job.latest.end)) :
            snapshots' = [k \in DOMAIN snapshots \union
                            {[as_of |-> job.as_of, latest |-> job.latest, previous |-> p]} |->
                            IF k \in DOMAIN snapshots THEN snapshots[k] ELSE now]
      BY <1>3 DEF FeatStore
    <2> DEFINE id == [as_of |-> job.as_of, latest |-> job.latest, previous |-> p]
    <2>2. DOMAIN snapshots' = DOMAIN snapshots \union {id}
      BY <2>1
    <2>3. id.previous # None => KnownBy(id.previous, id.as_of)
      BY <2>1, KnownAreKnown DEF OrNone
    <2>4. id.as_of \in AsOf /\ KnownBy(id.latest, id.as_of)
      BY <1>3 DEF IInv, RowsKnown, FeatStore
    <2> HIDE DEF id
    <2>5. \A s \in DOMAIN snapshots' :
            /\ s.as_of \in AsOf /\ KnownBy(s.latest, s.as_of)
            /\ s.previous # None => KnownBy(s.previous, s.as_of)
      BY <2>2, <2>3, <2>4 DEF IInv, RowsKnown
    <2> QED BY <1>1, <1>2, <1>3, <2>5 DEF IInv, RowsKnown, KnownBy, FeatStore
  <1>4. ASSUME NEW t \in AsOf, FeatRead(t)
        PROVE  IInv'
    <2>1. PICK k \in Latest(t) : job' = [as_of |-> t, latest |-> k]
      BY <1>4 DEF FeatRead
    <2>2. job'.as_of \in AsOf /\ KnownBy(job'.latest, job'.as_of)
      BY <2>1, KnownAreKnown
    <2> QED BY <1>1, <1>2, <1>4, <2>2 DEF IInv, RowsKnown, KnownBy, FeatRead
  <1> QED BY <1>3, <1>4

\* The invariant is inductive.
LEMMA StepKeeps == IInv /\ [Next]_vars => IInv'
  <1> SUFFICES ASSUME IInv, [Next]_vars PROVE IInv'
    OBVIOUS
  <1>1. CASE RunValue
    BY <1>1, ValueKeeps
  <1>2. CASE FeatStore \/ \E t \in AsOf : FeatRead(t)
    BY <1>2, FeaturesKeep
  <1>3. CASE \E f \in Filings : Parse(f)
    <2>1. PICK f \in Filings : Parse(f)
      BY <1>3
    <2>2. UNCHANGED <<statements, job, snapshots>>
      BY <2>1 DEF Parse
    <2>3. FactsFiled'
      BY <2>1, FactsFiledStays DEF IInv
    <2>4. StatementsFiled'
      BY <2>1, <2>2, FactsGrow, FiledStays DEF IInv, StatementsFiled
    <2> QED BY <2>2, <2>3, <2>4 DEF IInv, RowsKnown, KnownBy
  <1>4. CASE Tick \/ UNCHANGED vars
    <2>1. UNCHANGED <<facts, statements, job, snapshots>>
      BY <1>4 DEF Tick, vars, tables
    <2> QED BY <2>1 DEF IInv, FactsFiled, StatementsFiled, RowsKnown, KnownBy,
                        Observations, Observation, Selectable
  <1> QED BY <1>1, <1>2, <1>3, <1>4 DEF Next

\* Nothing is stored at first.
LEMMA Initially == Init => IInv
  BY DEF Init, TablesInit, IInv, FactsFiled, StatementsFiled, RowsKnown

\* The invariant holds throughout.
LEMMA Invariant == Spec => []IInv
  BY Initially, StepKeeps, PTL DEF Spec

-----------------------------------------------------------------------------
(* Filings valued as they come *)

\* Observations change only with the facts.
LEMMA FactsSame ==
    ASSUME UNCHANGED facts
    PROVE  Observations' = Observations /\ RevenueFacts' = RevenueFacts
  BY DEF Observations, Observation, Selectable, RevenueFacts, Annual

\* What a parse adds to the observations has the time of its filing.
LEMMA NewObservations ==
    ASSUME NEW f \in Filings, Parse(f)
    PROVE  /\ RevenueFacts \subseteq RevenueFacts'
           /\ \A o \in Observations' \ Observations : o.available_at = Accepted[f]
           /\ \A o \in RevenueFacts' \ RevenueFacts : o \in Observations' \ Observations
  <1>1. Observations \subseteq Observations'
    BY FactsGrow
  <1>2. ASSUME NEW o \in Observations', o \notin Observations
        PROVE  o.available_at = Accepted[f]
    <2>1. PICK x \in facts' : o = Observation(x) /\ Selectable(x)
      BY DEF Observations, Observation, Selectable
    <2>2. x \notin facts
      BY <1>2, <2>1 DEF Observations
    <2> QED BY <2>1, <2>2, NewFacts DEF Observation
  <1> QED BY <1>1, <1>2 DEF RevenueFacts, Annual

\* A later fact does not change what the last year was.
LEMMA LastYearStays ==
    ASSUME NEW R, NEW T, R \subseteq T, NEW end, NEW then,
           \A o \in T \ R : ~(o.available_at <= then), LastYear(R, end, then)
    PROVE  LastYear(T, end, then)
  BY DEF LastYear

\* At first no filing is late.
LEMMA PromptInitially == Init => PromptInv
  <1> SUFFICES ASSUME Init PROVE PromptInv
    OBVIOUS
  <1>1. Observations = {} /\ RevenueFacts = {}
    BY DEF Init, TablesInit, Observations, RevenueFacts
  <1>2. \A f \in Filings : Accepted[f] \in Times /\ now <= Accepted[f]
    BY FeatureStoreAssumption DEF Init
  <1>3. TypeOK
    BY FeatureStoreAssumption DEF Init, TypeOK
  <1>4. Timely /\ InStep
    BY <1>1, <1>2, <1>3 DEF Init, Timely, InStep, Current, Onward
  <1> QED BY <1>4 DEF PromptInv

\* The dates that the comparisons of the invariant are between.
LEMMA Dates ==
    ASSUME IInv, Timely
    PROVE  /\ now \in Int /\ \A f \in Filings : Accepted[f] \in Int
           /\ \A o \in Observations : o.available_at \in Int /\ o.period.end \in Int
           /\ RevenueFacts \subseteq Observations
           /\ \A k \in DOMAIN statements : k.available_at \in Int /\ k.end \in Int
           /\ \A s \in DOMAIN snapshots : /\ snapshots[s] \in Int /\ snapshots[s] <= now
                                          /\ s.as_of \in Int /\ KnownBy(s.latest, s.as_of)
           /\ job # None => job.as_of \in Int /\ KnownBy(job.latest, job.as_of)
  <1>1. now \in Int /\ \A f \in Filings : Accepted[f] \in Int
    BY FeatureStoreAssumption DEF Timely, TypeOK
  <1>2. \A s \in DOMAIN snapshots : /\ snapshots[s] \in Int /\ snapshots[s] <= now
                                    /\ s.as_of \in Int /\ KnownBy(s.latest, s.as_of)
    BY FeatureStoreAssumption DEF Timely, TypeOK, IInv, RowsKnown
  <1>3. job # None => job.as_of \in Int /\ KnownBy(job.latest, job.as_of)
    BY FeatureStoreAssumption DEF IInv, RowsKnown
  <1>4. \A o \in Observations : o.available_at \in Int /\ o.period.end \in Int
    BY ObservedDates DEF IInv
  <1> QED BY <1>1, <1>2, <1>3, <1>4 DEF IInv, StatementsFiled, RevenueFacts

\* When a day passes nothing stored is later than the new one.
LEMMA TickTimely ==
    ASSUME IInv, Timely, Tick
    PROVE  Timely'
  <1>1. PICK t \in Times : t > now /\ now' = t
    BY DEF Tick
  <1>2. UNCHANGED <<facts, prompt, statements, runs, fresh, snapshots>>
    BY DEF Tick, tables
  <1>3. Observations' = Observations /\ RevenueFacts' = RevenueFacts
    BY <1>2, FactsSame
  <1>4. t \in Int
    BY FeatureStoreAssumption
  <1>5. \A o \in Observations : o.available_at <= now'
    BY <1>1, <1>4, Dates DEF Timely
  <1>6. \A k \in DOMAIN statements : k.available_at <= now'
    BY <1>1, <1>4, Dates DEF Timely
  <1>7. \A s \in DOMAIN snapshots : snapshots[s] <= now'
    BY <1>1, <1>4, Dates
  <1>8. TypeOK'
    BY <1>1, <1>2, <1>7 DEF Timely, TypeOK
  <1> QED BY <1>2, <1>3, <1>5, <1>6, <1>8 DEF Timely

\* A day ends only when its filings are parsed and valued and no feature is under way.
LEMMA TickInStep ==
    ASSUME IInv, Timely, InStep, NEW t \in Times, t > now, now' = t, fresh # FALSE, job = None,
           \A f \in Filings : Accepted[f] < t => Parsed(f),
           UNCHANGED <<facts, documents, statements, fresh, job, snapshots>>
    PROVE  InStep'
  <1>1. Observations' = Observations /\ RevenueFacts' = RevenueFacts
    BY FactsSame
  <1>2. t \in Int
    BY FeatureStoreAssumption
  <1>3. \A f \in Filings : ~Parsed(f)' => now' <= Accepted[f]
    BY <1>2, Dates DEF Parsed
  <1>4. \A o \in RevenueFacts' : Covered(o)'
    BY <1>1 DEF InStep, Current, Covered
  <1> QED BY <1>1, <1>3, <1>4 DEF InStep, Current, Onward

\* A parse brings facts of today at the latest.
LEMMA ParseTimely ==
    ASSUME IInv, Timely, NEW f \in Filings, Parse(f)
    PROVE  Timely'
  <1>1. UNCHANGED <<now, prompt, statements, runs, snapshots>> /\ fresh' = FALSE /\ Accepted[f] <= now
    BY DEF Parse
  <1>2. TypeOK'
    BY <1>1 DEF Timely, TypeOK
  <1>3. \A o \in Observations' : o.available_at <= now'
    BY <1>1, NewObservations DEF Timely
  <1> QED BY <1>1, <1>2, <1>3, NewObservations DEF Timely

\* A filing is parsed on the day it is accepted, so what it adds is of today.
LEMMA ParseInStep ==
    ASSUME IInv, Timely, InStep, NEW f \in Filings, Parse(f)
    PROVE  InStep'
  <1>1. UNCHANGED <<now, statements, job, snapshots>> /\ fresh' = FALSE /\ Accepted[f] <= now /\ ~Parsed(f)
    BY DEF Parse
  <1>2. \A g \in Filings : Parsed(g) => Parsed(g)'
    <2>1. documents \subseteq documents'
      BY DEF Parse, StoreParse, DocumentsWith
    <2> QED BY <2>1 DEF Parsed
  <1>3. Accepted[f] = now
    BY <1>1, Dates DEF InStep, Current
  <1>4. /\ RevenueFacts \subseteq RevenueFacts'
        /\ \A o \in RevenueFacts' \ RevenueFacts : o.available_at = now
    BY <1>3, NewObservations
  <1>5. \A o \in RevenueFacts' : Covered(o)' \/ (fresh' = FALSE /\ o.available_at = now')
    BY <1>1, <1>4 DEF InStep, Current, Covered
  <1>6. ASSUME NEW end, NEW then \in Int, then < now, LastYear(RevenueFacts, end, then)
        PROVE  LastYear(RevenueFacts', end, then)
    <2>1. \A o \in RevenueFacts' \ RevenueFacts : ~(o.available_at <= then)
      BY <1>4, <1>6, Dates
    <2> QED BY <1>4, <1>6, <2>1, LastYearStays
  <1>7. job # None /\ job.as_of < now => LastYear(RevenueFacts', job.latest.end, job.as_of)
    BY <1>6, Dates DEF InStep, Current
  <1>8. \A s \in DOMAIN snapshots :
          snapshots[s] > s.as_of => LastYear(RevenueFacts', s.latest.end, s.as_of)
    <2> SUFFICES ASSUME NEW s \in DOMAIN snapshots, snapshots[s] > s.as_of
                 PROVE  LastYear(RevenueFacts', s.latest.end, s.as_of)
      OBVIOUS
    <2>1. s.as_of \in Int /\ s.as_of < now
      BY Dates
    <2> QED BY <1>6, <2>1 DEF InStep, Current
  <1>9. Current'
    BY <1>1, <1>2, <1>5, <1>7, <1>8 DEF InStep, Current
  <1> QED BY <1>1, <1>9 DEF InStep, Onward

\* A run adds statements built of the observations, one at least for each year.
LEMMA ValueAdds ==
    ASSUME RunValue
    PROVE  \E S : /\ statements' = WithStatements(S)
                  /\ \A k \in S : \E a \in Anchors(Observations) : k \in Built(Observations, a)
                  /\ \A a \in Anchors(Observations) : \E k \in S : k \in Built(Observations, a)
  <1> DEFINE built == [a \in Anchors(Observations) |-> Built(Observations, a)]
  <1>1. PICK S \in SUBSET UNION {built[a] : a \in DOMAIN built} :
          /\ \A a \in DOMAIN built : Cardinality(S \intersect built[a]) = 1
          /\ statements' = WithStatements(S)
    BY DEF RunValue
  <1>2. ASSUME NEW a \in Anchors(Observations)
        PROVE  \E k \in S : k \in Built(Observations, a)
    <2>1. Cardinality(S \intersect built[a]) = 1
      BY <1>1
    <2>2. S \intersect built[a] # {}
      BY <2>1, FS_EmptySet
    <2> QED BY <2>2
  <1> QED BY <1>1, <1>2

\* A statement is made of what is there, its revenue included.
LEMMA ValueTimely ==
    ASSUME IInv, Timely, RunValue
    PROVE  Timely'
  <1>1. UNCHANGED <<facts, now, prompt, snapshots>> /\ runs' = runs + 1 /\ runs < MaxRuns[prompt] /\ fresh' = TRUE
    BY DEF RunValue, tables
  <1>2. Observations' = Observations /\ RevenueFacts' = RevenueFacts
    BY <1>1, FactsSame
  <1>3. PICK S : /\ statements' = WithStatements(S)
                 /\ \A k \in S : \E a \in Anchors(Observations) : k \in Built(Observations, a)
    BY ValueAdds
  <1>4. ASSUME NEW k \in S
        PROVE  /\ k.values["revenue"] # None /\ k.available_at <= now
               /\ \E o \in RevenueFacts : o.period.end = k.end /\ o.available_at <= k.available_at
    <2>1. PICK a \in Anchors(Observations) : k \in Built(Observations, a)
      BY <1>3
    <2>2. /\ k.end = a /\ k.values["revenue"] # None
          /\ \E o \in RevenueFacts : o.period.end = a /\ o.available_at <= k.available_at
          /\ \E o \in Observations : o.available_at = k.available_at
      BY <2>1, BuiltIsFiled DEF IInv
    <2> QED BY <2>2 DEF Timely
  <1>5. runs \in Nat /\ MaxRuns[prompt] \in Nat /\ runs' \in 0..MaxRuns[prompt]
    BY <1>1, FeatureStoreAssumption DEF Timely, TypeOK
  <1>6. ASSUME NEW k \in DOMAIN statements'
        PROVE  k.values["revenue"] # None /\ statements'[k] \in 1..runs'
    <2>1. CASE k \in DOMAIN statements
      <3>1. statements'[k] = statements[k]
        BY <1>3, <2>1 DEF WithStatements
      <3>2. k.values["revenue"] # None /\ statements[k] \in 1..runs
        BY <2>1 DEF Timely, TypeOK
      <3> QED BY <1>1, <1>5, <3>1, <3>2
    <2>2. CASE k \notin DOMAIN statements
      <3>1. k \in S /\ statements'[k] = runs + 1
        BY <1>3, <2>2 DEF WithStatements
      <3> QED BY <1>1, <1>4, <1>5, <3>1
    <2> QED BY <2>1, <2>2
  <1>7. \A s \in DOMAIN snapshots : s.latest \in DOMAIN statements'
    BY <1>3 DEF Timely, TypeOK, WithStatements
  <1>8. TypeOK'
    BY <1>1, <1>5, <1>6, <1>7 DEF Timely, TypeOK
  <1>9. DOMAIN statements' = DOMAIN statements \union S
    BY <1>3 DEF WithStatements
  <1> QED BY <1>1, <1>2, <1>4, <1>8, <1>9 DEF Timely

\* After a run every revenue fact is covered: the new ones are not too old.
LEMMA ValueInStep ==
    ASSUME IInv, Timely, InStep, RunValue
    PROVE  InStep'
  <1>1. UNCHANGED <<facts, documents, now, job, snapshots>>
    BY DEF RunValue, tables
  <1>2. Observations' = Observations /\ RevenueFacts' = RevenueFacts
    BY <1>1, FactsSame
  <1>3. PICK S : /\ statements' = WithStatements(S)
                 /\ \A a \in Anchors(Observations) : \E k \in S : k \in Built(Observations, a)
    BY ValueAdds
  <1>4. DOMAIN statements' = DOMAIN statements \union S
    BY <1>3 DEF WithStatements
  <1>5. ASSUME NEW o \in RevenueFacts
        PROVE  Covered(o)'
    <2>1. CASE Covered(o)
      BY <1>4, <2>1 DEF Covered
    <2>2. CASE o.available_at = now
      <3> DEFINE a == o.period.end
      <3>1. now \in Int /\ a \in Int /\ o \in Observations /\ MaxAge \in Nat
        BY Dates, FeatureStoreAssumption
      <3>2. Usable(o, "revenue", a) /\ Annual(o)
        BY <2>2, <3>1 DEF Usable, RevenueFacts
      <3>3. a \in Anchors(Observations)
        BY <3>1, <3>2 DEF Anchors
      <3>4. PICK k \in S : k \in Built(Observations, a)
        BY <1>3, <3>3
      <3>5. k.end = a /\ \E x \in Observations : x.available_at = k.available_at
        BY <3>3, <3>4, BuiltIsFiled DEF IInv
      <3>6. k.available_at <= o.available_at /\ k.end >= o.period.end
        BY <2>2, <3>1, <3>5 DEF Timely
      <3> QED BY <1>4, <3>4, <3>6 DEF Covered
    <2> QED BY <2>1, <2>2 DEF InStep, Current
  <1>6. \A f \in Filings : Parsed(f)' <=> Parsed(f)
    BY <1>1 DEF Parsed
  <1>7. Current'
    BY <1>1, <1>2, <1>5, <1>6 DEF InStep, Current
  <1> QED BY <1>1, <1>7 DEF InStep, Onward

\* The query's order: the latest end first, and of these the latest available.
LEMMA LatestIsFirst ==
    ASSUME NEW t, NEW k \in Latest(t), NEW q \in Known(t), k.end \in Int, q.end \in Int,
           k.available_at \in Int, q.available_at \in Int
    PROVE  /\ q.end <= k.end
           /\ q.end = k.end => q.available_at <= k.available_at
  <1> DEFINE Rank(x) == <<-x.end, -x.available_at, -statements[x]>>
  <1>1. ~Before(Rank(q), Rank(k))
    BY DEF Latest, First
  <1>2. /\ Rank(q)[1] = -q.end /\ Rank(k)[1] = -k.end
        /\ Rank(q)[2] = -q.available_at /\ Rank(k)[2] = -k.available_at
        /\ 1 \in DOMAIN Rank(q) /\ 2 \in DOMAIN Rank(q)
    OBVIOUS
  <1> HIDE DEF Rank
  <1>3. ~(-q.end < -k.end)
    BY <1>1, <1>2 DEF Before
  <1>4. ~(Rank(q)[1] = Rank(k)[1] /\ Rank(q)[2] < Rank(k)[2])
    <2> SUFFICES ASSUME Rank(q)[1] = Rank(k)[1], Rank(q)[2] < Rank(k)[2] PROVE FALSE
      OBVIOUS
    <2>1. \A j \in 1..(2 - 1) : j = 1
      OBVIOUS
    <2> QED BY <1>1, <1>2, <2>1 DEF Before
  <1> QED BY <1>2, <1>3, <1>4

\* The row under way is of the last year of its as-of time.
LEMMA ReadInStep ==
    ASSUME IInv, Timely, InStep, NEW t \in AsOf, FeatRead(t)
    PROVE  InStep'
  <1>1. UNCHANGED <<facts, documents, now, statements, fresh, snapshots>>
    BY DEF FeatRead, tables
  <1>2. Observations' = Observations /\ RevenueFacts' = RevenueFacts
    BY <1>1, FactsSame
  <1>3. PICK k \in Latest(t) : job' = [as_of |-> t, latest |-> k]
    BY DEF FeatRead
  <1>4. k \in Known(t) /\ k.end \in Int /\ k.available_at \in Int /\ t \in Int /\ k.available_at <= t
    BY KnownAreKnown, Dates, FeatureStoreAssumption DEF KnownBy, Known
  <1>5. \A q \in Known(t) : q.end \in Int /\ q.available_at \in Int
    BY Dates DEF Known
  <1>6. \A q \in Known(t) : q.end <= k.end /\ (q.end = k.end => q.available_at <= k.available_at)
    BY <1>4, <1>5, LatestIsFirst
  <1>7. ASSUME t < now
        PROVE  LastYear(RevenueFacts, k.end, t)
    <2>1. \E o \in RevenueFacts : o.period.end = k.end /\ o.available_at <= t
      <3>1. PICK o \in RevenueFacts : o.period.end = k.end /\ o.available_at <= k.available_at
        BY <1>4 DEF Timely, Known
      <3> QED BY <1>4, <3>1, Dates
    <2>2. ASSUME NEW o \in RevenueFacts, o.available_at <= t
          PROVE  o.period.end <= k.end
      <3>1. o.available_at \in Int /\ o.period.end \in Int /\ now \in Int
        BY Dates
      <3>2. Covered(o)
        BY <1>4, <1>7, <2>2, <3>1 DEF InStep, Current
      <3>3. PICK q \in DOMAIN statements : q.available_at <= o.available_at /\ q.end >= o.period.end
        BY <3>2 DEF Covered
      <3>4. q.available_at \in Int /\ q.end \in Int
        BY Dates
      <3>5. q \in Known(t)
        BY <1>4, <2>2, <3>1, <3>3, <3>4 DEF Known
      <3> QED BY <1>4, <1>6, <3>1, <3>3, <3>4, <3>5
    <2> QED BY <2>1, <2>2 DEF LastYear
  <1>8. Current'
    <2>1. \A f \in Filings : Parsed(f)' <=> Parsed(f)
      BY <1>1 DEF Parsed
    <2>2. \A o \in RevenueFacts : Covered(o)' <=> Covered(o)
      BY <1>1 DEF Covered
    <2>3. job'.as_of < now' => LastYear(RevenueFacts, job'.latest.end, job'.as_of)
      BY <1>1, <1>3, <1>7
    <2> QED BY <1>1, <1>2, <2>1, <2>2, <2>3 DEF InStep, Current
  <1>9. ASSUME NEW s \in DOMAIN snapshots, snapshots[s] > s.as_of, s.as_of = t, snapshots[s] < now
        PROVE  s.latest.available_at <= k.available_at
    <2>1. t < now
      BY <1>9, <1>4, Dates
    <2>2. LastYear(RevenueFacts, s.latest.end, t)
      BY <1>9 DEF InStep, Current
    <2>3. s.latest \in Known(t)
      BY <1>9, Dates DEF KnownBy, Known
    <2>4. PICK o \in RevenueFacts : o.period.end = k.end /\ o.available_at <= t
      BY <1>7, <2>1 DEF LastYear
    <2>5. k.end <= s.latest.end
      BY <2>2, <2>4 DEF LastYear
    <2>6. s.latest.end <= k.end /\ s.latest.end \in Int
      BY <1>5, <1>6, <2>3
    <2>7. s.latest.end = k.end
      BY <1>4, <2>5, <2>6
    <2> QED BY <1>6, <2>3, <2>7
  <1>10. Onward'
    BY <1>1, <1>3, <1>9 DEF InStep, Onward
  <1> QED BY <1>8, <1>10 DEF InStep

\* A feature row is stored at a time there is.
LEMMA StoreTimely ==
    ASSUME IInv, Timely, FeatStore
    PROVE  Timely'
  <1>1. UNCHANGED <<facts, now, prompt, statements, runs, fresh>> /\ job # None
    BY DEF FeatStore, tables
  <1>2. Observations' = Observations /\ RevenueFacts' = RevenueFacts
    BY <1>1, FactsSame
  <1>3. PICK p : snapshots' = [k \in DOMAIN snapshots \union
                            {[as_of |-> job.as_of, latest |-> job.latest, previous |-> p]} |->
                            IF k \in DOMAIN snapshots THEN snapshots[k] ELSE now]
    BY DEF FeatStore
  <1>4. job.latest \in DOMAIN statements
    BY <1>1, Dates DEF KnownBy
  <1>5. now \in Times /\ now \in Int
    BY Dates DEF Timely, TypeOK
  <1>6. \A s \in DOMAIN snapshots' : s \in DOMAIN snapshots \/ s.latest = job.latest
    BY <1>3
  <1>7. \A s \in DOMAIN snapshots' :
          snapshots'[s] = IF s \in DOMAIN snapshots THEN snapshots[s] ELSE now
    BY <1>3
  <1>8. \A s \in DOMAIN snapshots' :
          s.latest \in DOMAIN statements /\ snapshots'[s] <= now /\ snapshots'[s] \in Times
    BY <1>4, <1>5, <1>6, <1>7 DEF Timely, TypeOK
  <1>9. TypeOK'
    BY <1>1, <1>8 DEF Timely, TypeOK
  <1> QED BY <1>1, <1>2, <1>8, <1>9 DEF Timely

\* The row that is stored is the one that was asked for, now.
LEMMA StoreInStep ==
    ASSUME IInv, Timely, InStep, FeatStore
    PROVE  InStep'
  <1>1. UNCHANGED <<facts, documents, now, statements, fresh>> /\ job # None /\ job' = None
    BY DEF FeatStore, tables
  <1>2. Observations' = Observations /\ RevenueFacts' = RevenueFacts
    BY <1>1, FactsSame
  <1>3. PICK p : snapshots' = [k \in DOMAIN snapshots \union
                            {[as_of |-> job.as_of, latest |-> job.latest, previous |-> p]} |->
                            IF k \in DOMAIN snapshots THEN snapshots[k] ELSE now]
    BY DEF FeatStore
  <1>4. \A s \in DOMAIN snapshots' :
          \/ s \in DOMAIN snapshots /\ snapshots'[s] = snapshots[s]
          \/ s.as_of = job.as_of /\ s.latest = job.latest /\ snapshots'[s] = now
    BY <1>3
  <1>5. \A f \in Filings : Parsed(f)' <=> Parsed(f)
    BY <1>1 DEF Parsed
  <1>6. \A o \in RevenueFacts : Covered(o)' <=> Covered(o)
    BY <1>1 DEF Covered
  <1>7. \A s \in DOMAIN snapshots' :
          snapshots'[s] > s.as_of => LastYear(RevenueFacts, s.latest.end, s.as_of)
    <2> SUFFICES ASSUME NEW s \in DOMAIN snapshots', snapshots'[s] > s.as_of
                 PROVE  LastYear(RevenueFacts, s.latest.end, s.as_of)
      OBVIOUS
    <2>1. CASE s \in DOMAIN snapshots /\ snapshots'[s] = snapshots[s]
      BY <2>1 DEF InStep, Current
    <2>2. CASE s.as_of = job.as_of /\ s.latest = job.latest /\ snapshots'[s] = now
      <3>1. job.as_of < now
        BY <1>1, <2>2, Dates
      <3> QED BY <1>1, <2>2, <3>1 DEF InStep, Current
    <2> QED BY <1>4, <2>1, <2>2
  <1>8. Current'
    BY <1>1, <1>2, <1>5, <1>6, <1>7 DEF InStep, Current
  <1>9. ASSUME NEW s \in DOMAIN snapshots', NEW u \in DOMAIN snapshots', snapshots'[s] > s.as_of,
               u.as_of = s.as_of, snapshots'[s] < snapshots'[u]
        PROVE  s.latest.available_at <= u.latest.available_at
    <2>1. snapshots'[u] \in Int /\ snapshots'[u] <= now /\ now \in Int
      BY <1>4, Dates
    <2>2. s \in DOMAIN snapshots /\ snapshots'[s] = snapshots[s]
      BY <1>4, <1>9, <2>1
    <2>3. CASE u \in DOMAIN snapshots /\ snapshots'[u] = snapshots[u]
      BY <1>9, <2>2, <2>3 DEF InStep, Onward
    <2>4. CASE u.as_of = job.as_of /\ u.latest = job.latest /\ snapshots'[u] = now
      BY <1>1, <1>9, <2>2, <2>4 DEF InStep, Onward
    <2> QED BY <1>4, <2>3, <2>4
  <1>10. Onward'
    BY <1>1, <1>9 DEF Onward
  <1> QED BY <1>8, <1>10 DEF InStep

\* The invariant of prompt runs is inductive.
LEMMA PromptStepKeeps == IInv /\ PromptInv /\ [Next]_vars => PromptInv'
  <1> SUFFICES ASSUME IInv, PromptInv, [Next]_vars PROVE PromptInv'
    OBVIOUS
  <1>0. Timely
    BY DEF PromptInv
  <1>1. prompt' => prompt
    <2>1. prompt' = prompt
      BY DEF Next, Tick, RunValue, FeatStore, Parse, FeatRead, vars
    <2> QED BY <2>1, Zenon
  <1>2. prompt' => InStep
    BY <1>1, Zenon DEF PromptInv
  <1>3. CASE Tick
    <2>1. Timely'
      BY <1>0, <1>3, TickTimely
    <2>2. ASSUME prompt PROVE InStep'
      <3>1. PICK t \in Times :
              /\ t > now /\ now' = t
              /\ prompt => /\ fresh /\ job = None
                           /\ \A f \in Filings : Accepted[f] < t => Parsed(f)
                           /\ \A u \in Times : u > now => t <= u
        BY <1>3, Zenon DEF Tick
      <3>2. fresh /\ job = None /\ \A f \in Filings : Accepted[f] < t => Parsed(f)
        BY <2>2, <3>1, Zenon
      <3>3. fresh # FALSE
        BY <3>2, Zenon
      <3>4. UNCHANGED <<facts, documents, statements, fresh, job, snapshots>>
        BY <1>3 DEF Tick, tables
      <3>5. InStep
        BY <2>2, Zenon DEF PromptInv
      <3>6. t > now /\ now' = t /\ job = None /\ \A f \in Filings : Accepted[f] < t => Parsed(f)
        BY <3>1, <3>2, Zenon
      <3> QED BY <1>0, <3>3, <3>4, <3>5, <3>6, TickInStep
    <2> QED BY <1>1, <2>1, <2>2, Zenon DEF PromptInv
  <1>4. CASE \E f \in Filings : Parse(f)
    <2>1. Timely' /\ (InStep => InStep')
      BY <1>0, <1>4, ParseTimely, ParseInStep
    <2> QED BY <1>2, <2>1, Zenon DEF PromptInv
  <1>5. CASE RunValue
    <2>1. Timely' /\ (InStep => InStep')
      BY <1>0, <1>5, ValueTimely, ValueInStep
    <2> QED BY <1>2, <2>1, Zenon DEF PromptInv
  <1>6. CASE \E t \in AsOf : FeatRead(t)
    <2>1. UNCHANGED <<facts, now, prompt, statements, runs, fresh, snapshots>>
      BY <1>6 DEF FeatRead, tables
    <2>2. Timely'
      BY <1>0, <2>1, FactsSame DEF Timely, TypeOK
    <2>3. InStep => InStep'
      BY <1>0, <1>6, ReadInStep
    <2> QED BY <1>2, <2>2, <2>3, Zenon DEF PromptInv
  <1>7. CASE FeatStore
    <2>1. Timely' /\ (InStep => InStep')
      BY <1>0, <1>7, StoreTimely, StoreInStep
    <2> QED BY <1>2, <2>1, Zenon DEF PromptInv
  <1>8. CASE UNCHANGED vars
    <2>1. UNCHANGED <<facts, documents, now, prompt, statements, runs, fresh, job, snapshots>>
      BY <1>8 DEF vars, tables
    <2>2. Timely'
      BY <1>0, <2>1, FactsSame DEF Timely, TypeOK
    <2>3. InStep => InStep'
      BY <2>1, FactsSame DEF InStep, Current, Onward, Parsed, Covered
    <2> QED BY <1>2, <2>2, <2>3, Zenon DEF PromptInv
  <1> QED BY <1>3, <1>4, <1>5, <1>6, <1>7, <1>8 DEF Next

\* Both invariants hold throughout.
LEMMA PromptInvariant == Spec => [](IInv /\ PromptInv)
  <1>1. Init => IInv /\ PromptInv
    BY Initially, PromptInitially
  <1>2. IInv /\ PromptInv /\ [Next]_vars => (IInv /\ PromptInv)'
    BY StepKeeps, PromptStepKeeps
  <1> QED BY <1>1, <1>2, PTL DEF Spec

\* For any filings, times and documents: a statement has a revenue, a run that wrote
\* it, and a feature row names statements that are there.
THEOREM TypeCorrect == Spec => []TypeOK
  <1>1. PromptInv => TypeOK
    BY DEF PromptInv, Timely
  <1> QED BY <1>1, PromptInvariant, PTL

\* For any filings and documents, if each filing is parsed and valued on the day of its
\* acceptance then, once the day is over, no year it reports is missing: a restatement
\* does not hide the statement of the year it restates.
THEOREM KnownIfPromptHolds == Spec => []KnownIfPrompt
  <1>1. ASSUME IInv, Timely, InStep PROVE NothingHidden
    <2> SUFFICES ASSUME NEW o \in Observations, o.metric = "revenue", Annual(o),
                        NEW t \in Times, o.available_at <= t, t < now
                 PROVE  \E k \in Known(t) : k.end >= o.period.end
      BY DEF NothingHidden
    <2>1. o \in RevenueFacts /\ t \in Int /\ now \in Int /\ o.available_at \in Int
      BY Dates, <1>1, FeatureStoreAssumption DEF RevenueFacts
    <2>2. Covered(o)
      BY <1>1, <2>1 DEF InStep, Current
    <2>3. PICK k \in DOMAIN statements : k.available_at <= o.available_at /\ k.end >= o.period.end
      BY <2>2 DEF Covered
    <2>4. k.available_at \in Int
      BY <1>1, Dates
    <2> QED BY <2>1, <2>3, <2>4 DEF Known
  <1>2. IInv /\ PromptInv => KnownIfPrompt
    BY <1>1, Zenon DEF PromptInv, KnownIfPrompt
  <1> QED BY <1>2, PromptInvariant, PTL

\* For any filings and documents, if each filing is parsed and valued on the day of its
\* acceptance, a feature asked for a time of the past reports the same year whenever it
\* is asked, and a later answer rests on a statement at least as late.
THEOREM SameAnswerHolds == Spec => []SameAnswer
  <1> DEFINE Agree == \A s, u \in DOMAIN snapshots :
               s.as_of = u.as_of /\ snapshots[s] > s.as_of /\ snapshots[u] > s.as_of =>
                 /\ s.latest.end = u.latest.end
                 /\ snapshots[s] < snapshots[u] => s.latest.available_at <= u.latest.available_at
  <1>1. ASSUME IInv, Timely, InStep PROVE Agree
    <2> SUFFICES ASSUME NEW s \in DOMAIN snapshots, NEW u \in DOMAIN snapshots, s.as_of = u.as_of,
                        snapshots[s] > s.as_of, snapshots[u] > s.as_of
                 PROVE  /\ s.latest.end = u.latest.end
                        /\ snapshots[s] < snapshots[u] => s.latest.available_at <= u.latest.available_at
      OBVIOUS
    <2>1. LastYear(RevenueFacts, s.latest.end, s.as_of) /\ LastYear(RevenueFacts, u.latest.end, s.as_of)
      BY <1>1 DEF InStep, Current
    <2>2. s.latest.end \in Int /\ u.latest.end \in Int
      BY <1>1, Dates DEF KnownBy
    <2>3. s.latest.end <= u.latest.end /\ u.latest.end <= s.latest.end
      BY <2>1 DEF LastYear
    <2> QED BY <1>1, <2>2, <2>3 DEF InStep, Onward
  <1>2. SameAnswer <=> (prompt => Agree)
    BY Zenon DEF SameAnswer
  <1> HIDE DEF Agree
  <1>3. IInv /\ PromptInv => SameAnswer
    BY <1>1, <1>2, Zenon DEF PromptInv
  <1> QED BY <1>3, PromptInvariant, PTL

\* For any filings and documents, in any order of parsing, valuing and asking,
\* a feature row holds what was filed by its as-of time, and nothing else.
THEOREM PointInTimeHolds == Spec => []PointInTime
  <1>1. IInv => PointInTime
    <2> SUFFICES ASSUME IInv, NEW s \in DOMAIN snapshots, NEW k \in {s.latest, s.previous} \ {None}
                 PROVE  FiledBy(k, s.as_of, Observations)
      BY DEF PointInTime
    <2>1. KnownBy(k, s.as_of) /\ s.as_of \in Int
      BY FeatureStoreAssumption DEF IInv, RowsKnown
    <2>2. /\ k.available_at \in Int /\ k.available_at <= s.as_of
          /\ FiledBy(k, k.available_at, Observations)
      BY <2>1 DEF IInv, StatementsFiled, KnownBy
    <2>3. \A o \in Observations : o.available_at \in Int
      BY ObservedDates DEF IInv
    <2> QED BY <2>1, <2>2, <2>3 DEF FiledBy
  <1> QED BY <1>1, Invariant, PTL

\* For any statements, the previous row is a year apart if any known one is.
THEOREM ComparableIfAnyHolds == Spec => []ComparableIfAny
  <1>1. IInv => ComparableIfAny
    <2> SUFFICES ASSUME IInv, NEW t \in AsOf, NEW k \in Latest(t), NEW q \in Known(t), IsComparable(k, q),
                        NEW p \in Previous(t, k.end)
                 PROVE  IsComparable(k, p)
      BY DEF ComparableIfAny
    <2>1. p \in DOMAIN statements /\ p.end < k.end /\ k \in DOMAIN statements
      BY KnownAreKnown DEF KnownBy
    <2>2. k.end \in Int /\ q.end \in Int /\ p.end \in Int
      BY <2>1 DEF IInv, StatementsFiled, Known
    <2>3. q \in Earlier(t, k.end) /\ Off(q, k.end) <= 75
      BY <2>2, FeatureStoreAssumption DEF IsComparable, Earlier, Off, Dist
    <2> DEFINE Rank(x) == <<IF Off(x, k.end) <= 75 THEN 0 ELSE 1, Off(x, k.end),
                            -x.end, -x.available_at, -statements[x]>>
    <2>4. p \in Earlier(t, k.end) /\ ~Before(Rank(q), Rank(p))
      BY <2>3 DEF Previous, First
    <2>5. Off(p, k.end) <= 75
      <3> SUFFICES ASSUME ~(Off(p, k.end) <= 75) PROVE FALSE
        OBVIOUS
      <3>1. Rank(q)[1] = 0 /\ Rank(p)[1] = 1 /\ 1 \in DOMAIN Rank(q)
        BY <2>3
      <3> HIDE DEF Rank
      <3>2. Before(Rank(q), Rank(p))
        BY <3>1 DEF Before
      <3> QED BY <2>4, <3>2
    <2> QED BY <2>1, <2>2, <2>5, FeatureStoreAssumption DEF IsComparable, Off, Dist
  <1> QED BY <1>1, Invariant, PTL
=============================================================================
