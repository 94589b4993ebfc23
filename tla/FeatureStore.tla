----------------------------- MODULE FeatureStore -----------------------------
(***************************************************************************)
(* From the facts of an issuer to its feature rows: parse_xbrl_package     *)
(* stores the facts of filings in whatever order they come, op_value has   *)
(* the C++ builder make annual statements of all of them, and op_feat      *)
(* picks, for a time in the past, the statement that was known then and    *)
(* the one a year before it.                                               *)
(*                                                                         *)
(* The filings of the model are annual reports, so the builder's sums of   *)
(* quarters and its year-to-date bridge have nothing to add up.  A metric  *)
(* a statement lacks is None here and 0.0, with a flag, in the code.       *)
(***************************************************************************)
EXTENDS FactStore

CONSTANTS
  Primary,   \* the primary document of each filing
  Times,     \* the days on which something happens, each acceptance among them
  AsOf,      \* the as-of times op_feat is asked for
  MaxAge,    \* max_fact_age_s, in days
  Prompt,    \* whether filings are parsed and valued on the day of acceptance
  MaxRuns,   \* bound: runs of op_value, where Prompt is chosen and where not
  MaxFeats   \* bound: feature snapshots

ASSUME FeatureStoreAssumption ==
  /\ Times \subseteq Int /\ AsOf \subseteq Int /\ MaxAge \in Nat /\ Prompt \subseteq BOOLEAN
  /\ MaxRuns \in [BOOLEAN -> Nat]
  /\ YearDays = 365 /\ Primary \in [Filings -> Contents] /\ Accepted \in [Filings -> Times]

VARIABLES
  now,         \* the day
  prompt,      \* the value of Prompt in this behaviour
  statements,  \* statement_snapshots: [end, available_at, values] to inserted_at
  runs,        \* runs of op_value so far, which order inserted_at
  fresh,       \* whether op_value has run since the last parse
  job,         \* op_feat between its two reads: [as_of, latest], or None
  snapshots    \* feature_snapshots: [as_of, latest, previous] to created_at

vars == <<tables, now, prompt, statements, runs, fresh, job, snapshots>>

Init ==
  /\ TablesInit /\ now \in {t \in Times : \A u \in Times : t <= u} /\ prompt \in Prompt
  /\ statements = [k \in {} |-> 0] /\ runs = 0 /\ fresh = TRUE
  /\ job = None /\ snapshots = [k \in {} |-> 0]

Parsed(f) == \E d \in documents : d.filing = f

Tick ==
  /\ \E t \in Times :
       /\ t > now /\ now' = t
       /\ prompt => /\ fresh /\ job = None
                    /\ \A f \in Filings : Accepted[f] < t => Parsed(f)
                    /\ \A u \in Times : u > now => t <= u
  /\ UNCHANGED <<tables, prompt, statements, runs, fresh, job, snapshots>>

\* Pull and parse of a filing the SEC has accepted; an old one may come late.
Parse(f) ==
  /\ Accepted[f] <= now /\ ~Parsed(f)
  /\ StoreParse(f, {"primary"}, <<[name |-> "primary", content |-> Primary[f]]>>)
  /\ fresh' = FALSE
  /\ UNCHANGED <<now, prompt, statements, runs, job, snapshots>>

-----------------------------------------------------------------------------
(* fa_build_statement_snapshots_v1 *)

Metrics == {"revenue", "net_income", "cash"}

\* basic_fact_usable
Usable(o, metric, anchor) ==
  o.metric = metric /\ o.period.end <= anchor /\ now - o.available_at <= MaxAge

\* annual_flow_fact_usable
Annual(o) ==
  o.period.semantics = "fiscal_year" /\ o.period.end - o.period.start + 1 \in 330..380

\* choose_exact_annual_flow.  Of facts available at once the first row of load_facts
\* wins, whose ORDER BY leaves their order open.
Flows(observed, metric, anchor) ==
  LET S == {o \in observed : Usable(o, metric, anchor) /\ Annual(o) /\ o.period.end = anchor}
  IN  {o \in S : \A x \in S : x.available_at <= o.available_at}

\* latest_point
Points(observed, metric, anchor) ==
  LET S == {o \in observed : Usable(o, metric, anchor) /\ o.period.semantics = "instant"}
  IN  {o \in S : \A x \in S : \/ x.period.end < o.period.end
                              \/ x.period.end = o.period.end /\ x.available_at <= o.available_at}

OrNone(S) == IF S = {} THEN {None} ELSE S
Value(o) == IF o = None THEN None ELSE o.value

\* Mutant: the statement is available when its revenue is.
RevenueAvailable(chosen) == chosen["revenue"].available_at

\* max_available_at
MaxAvailable(chosen) ==
  LET S == {chosen[m].available_at : m \in {x \in Metrics : x = "revenue" \/ chosen[x] # None}}
  IN  CHOOSE t \in S : \A u \in S : u <= t

\* build_statement_for_anchor, for each way the ties may fall.
Built(observed, anchor) ==
  {[end |-> anchor, available_at |-> MaxAvailable(chosen),
    values |-> [m \in Metrics |-> IF m = "revenue" THEN chosen[m].value ELSE Value(chosen[m])]] :
     chosen \in {[revenue |-> r, net_income |-> n, cash |-> c] :
                   r \in Flows(observed, "revenue", anchor),
                   n \in OrNone(Flows(observed, "net_income", anchor)),
                   c \in OrNone(Points(observed, "cash", anchor))}}

\* The ends of usable annual revenue facts; the code keeps the newest twelve.
Anchors(observed) ==
  {o.period.end : o \in {x \in observed : Usable(x, "revenue", x.period.end) /\ Annual(x)}}

-----------------------------------------------------------------------------
(* op_value *)

\* Mutant: INSERT OR REPLACE by end.
WithLatest(S) ==
  [k \in {x \in DOMAIN statements : \A y \in S : y.end # x.end} \union S |->
     IF k \in DOMAIN statements THEN statements[k] ELSE runs + 1]

\* INSERT OR IGNORE under the hash of everything in the row.
WithStatements(S) ==
  [k \in DOMAIN statements \union S |-> IF k \in DOMAIN statements THEN statements[k] ELSE runs + 1]

RunValue ==
  /\ runs < MaxRuns[prompt] /\ runs' = runs + 1
  /\ LET observed == Observations
         built == [a \in Anchors(observed) |-> Built(observed, a)]
     IN  \E S \in SUBSET UNION {built[a] : a \in DOMAIN built} :
           /\ \A a \in DOMAIN built : Cardinality(S \intersect built[a]) = 1
           /\ statements' = WithStatements(S)
  /\ fresh' = TRUE
  /\ UNCHANGED <<tables, now, prompt, job, snapshots>>

-----------------------------------------------------------------------------
(* op_feat *)

\* Lexicographic order of ranks of the same length.
Before(r, s) == \E i \in DOMAIN r : r[i] < s[i] /\ \A j \in 1..(i - 1) : r[j] = s[j]
First(rank) == {k \in DOMAIN rank : \A x \in DOMAIN rank : ~Before(rank[x], rank[k])}

\* Mutant: whatever is in the table is known.
KnownAtAnyTime(as_of) == DOMAIN statements

Known(as_of) == {k \in DOMAIN statements : k.available_at <= as_of}

\* load_latest_feature_sources
Latest(as_of) ==
  First([k \in Known(as_of) |-> <<-k.end, -k.available_at, -statements[k]>>])

Earlier(as_of, end) == {k \in Known(as_of) : k.end < end}
Off(k, end) == Dist(end - k.end, YearDays)

\* Mutant: the newest of the earlier statements.
PreviousByEnd(as_of, end) ==
  First([k \in Earlier(as_of, end) |-> <<-k.end, -k.available_at, -statements[k]>>])

\* load_previous_feature_source
Previous(as_of, end) ==
  First([k \in Earlier(as_of, end) |->
           <<IF Off(k, end) <= 75 THEN 0 ELSE 1, Off(k, end),
             -k.end, -k.available_at, -statements[k]>>])

\* build_feature_row: whether growth is computed, or FEATURE_NON_COMPARABLE_PREVIOUS set.
IsComparable(latest, previous) == latest.end - previous.end \in 290..440

FeatRead(as_of) ==
  /\ job = None /\ Cardinality(DOMAIN snapshots) < MaxFeats
  /\ \E k \in Latest(as_of) : job' = [as_of |-> as_of, latest |-> k]
  /\ UNCHANGED <<tables, now, prompt, statements, runs, fresh, snapshots>>

\* The second read, in no transaction with the first, and the INSERT OR IGNORE.
FeatStore ==
  /\ job # None /\ job' = None
  /\ \E p \in OrNone(Previous(job.as_of, job.latest.end)) :
       LET id == [as_of |-> job.as_of, latest |-> job.latest, previous |-> p]
       IN  snapshots' = [k \in DOMAIN snapshots \union {id} |->
                           IF k \in DOMAIN snapshots THEN snapshots[k] ELSE now]
  /\ UNCHANGED <<tables, now, prompt, statements, runs, fresh>>

Next ==
  \/ Tick \/ RunValue \/ FeatStore
  \/ \E f \in Filings : Parse(f)
  \/ \E t \in AsOf : FeatRead(t)

Spec == Init /\ [][Next]_vars

-----------------------------------------------------------------------------
TypeOK ==
  /\ now \in Times /\ prompt \in Prompt /\ runs \in 0..MaxRuns[prompt] /\ fresh \in BOOLEAN
  /\ \A k \in DOMAIN statements : k.values["revenue"] # None /\ statements[k] \in 1..runs
  /\ \A s \in DOMAIN snapshots : s.latest \in DOMAIN statements /\ snapshots[s] <= now

\* Every figure of k was in a filing accepted by then.
FiledBy(k, then, observed) ==
  \A m \in Metrics : k.values[m] # None =>
    \E o \in observed :
      o.metric = m /\ o.value = k.values[m] /\ o.period.end <= k.end /\ o.available_at <= then

\* A feature row for a past time holds no figure that was filed after it, whatever
\* was parsed and valued since, and although a statement mixes filings.
PointInTime ==
  LET observed == Observations
  IN  \A s \in DOMAIN snapshots : \A k \in {s.latest, s.previous} \ {None} :
        FiledBy(k, s.as_of, observed)

\* A row is flagged as without a comparable year only if none was known: the order
\* of the query and the test of build_feature_row agree on what a year apart is.
ComparableIfAny ==
  \A t \in AsOf : \A k \in Latest(t) :
    (\E q \in Known(t) : IsComparable(k, q)) => \A p \in Previous(t, k.end) : IsComparable(k, p)

\* What the facts parsed so far say was filed by then is in some statement.
NothingHidden ==
  \A o \in {x \in Observations : x.metric = "revenue" /\ Annual(x)} :
    \A t \in Times : o.available_at <= t /\ t < now =>
      \E k \in Known(t) : k.end >= o.period.end

\* With filings valued as they come no restatement hides the year it restates.
KnownIfPrompt == prompt => NothingHidden

\* With filings valued as they come a past time has one answer: the year a row
\* reports does not depend on the day it is asked.  Its filings may, as facts that
\* grow too old give way to others, but a later answer rests on no earlier ones.
SameAnswer ==
  prompt =>
    \A s, u \in DOMAIN snapshots :
      s.as_of = u.as_of /\ snapshots[s] > s.as_of /\ snapshots[u] > s.as_of =>
        /\ s.latest.end = u.latest.end
        /\ snapshots[s] < snapshots[u] => s.latest.available_at <= u.latest.available_at
=============================================================================
