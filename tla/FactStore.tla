------------------------------ MODULE FactStore ------------------------------
(***************************************************************************)
(* What parse_xbrl_package (filings/src/lib.rs) makes of the files of one  *)
(* filing, and the tables it writes them to: source_documents,             *)
(* xbrl_contexts, xbrl_facts and canonical_observations.                   *)
(*                                                                         *)
(* A row's key is a hash of its identity, so a row is its identity here.   *)
(* Dates are days; a year has YearDays of them and no leap day.  The text  *)
(* of a file is what the XML parser finds in it: Document.                 *)
(***************************************************************************)
EXTENDS Integers, Sequences, FiniteSets

CONSTANTS
  Filings,    \* accession numbers of one issuer
  Contents,   \* the bytes a file can hold
  Truncated,  \* the bytes of a file whose write was cut short
  Document,   \* what the XML parser finds in each content
  Accepted,   \* filings.accepted_at, which is not before filing_date
  YearDays,   \* length of a year
  None        \* an Option without a value

ASSUME FactStoreAssumption ==
  /\ Accepted \in [Filings -> Int] /\ YearDays \in Nat \ {0}
  /\ \A content \in Contents \union {Truncated} : \A id \in DOMAIN Document[content].contexts :
       LET c == Document[content].contexts[id] IN c.start \in Int /\ c.end \in Int

VARIABLES
  documents,  \* source_documents: [filing, name, content]
  contexts,   \* xbrl_contexts: <<filing, raw context id>> to its row
  facts       \* xbrl_facts: [doc, item]

tables == <<documents, contexts, facts>>

\* What f holds, and what g holds of the rest.
Over(f, g) == [k \in DOMAIN f \union DOMAIN g |-> IF k \in DOMAIN f THEN f[k] ELSE g[k]]

\* A table with one more entry, or another value for it.
With(table, k, v) == Over([x \in {k} |-> v], table)

Dist(a, b) == IF a < b THEN b - a ELSE a - b
Year(day) == day \div YearDays
QuarterOf(day) == ((day % YearDays) * 4) \div YearDays + 1

-----------------------------------------------------------------------------
(* Periods and their fiscal labels *)

IsQuarter(days) == days \in 70..110
IsYtd(days, ordinal) == ordinal > 1 /\ days \in (ordinal * 70)..(ordinal * 110)

\* parse_period: the label a context gets from its own dates.
Period(c) ==
  LET days == c.end - c.start + 1
      sem  == IF c.kind = "instant" THEN "instant"
              ELSE IF days >= 330 THEN "fiscal_year"
              ELSE IF IsQuarter(days) THEN "fiscal_quarter" ELSE "irregular"
  IN  [start |-> c.start, end |-> c.end, semantics |-> sem, year |-> Year(c.end),
       quarter |-> IF sem = "fiscal_quarter" THEN QuarterOf(c.end) ELSE 0]

\* comparable_fiscal_year: the end, moved into the year of the document's end,
\* is within ten days of it.
Comparable(end, focus) ==
  LET delta == Year(focus.end) - Year(end)
  IN  delta \in 0..10 /\ Dist(end + delta * YearDays, focus.end) <= 10

\* apply_filing_fiscal_metadata for one context; focus is None unless the
\* document names fiscal year, quarter and period end.
Relabel(p, focus) ==
  IF focus = None \/ ~Comparable(p.end, focus) THEN p
  ELSE LET days    == p.end - p.start + 1
           year    == focus.year - (Year(focus.end) - Year(p.end))
           dated   == [p EXCEPT !.year = year]
       IN  IF p.semantics = "instant" THEN dated
           ELSE IF IsYtd(days, focus.quarter)
             THEN [dated EXCEPT !.semantics = "fiscal_ytd", !.quarter = focus.quarter]
           ELSE IF IsQuarter(days)
             THEN [dated EXCEPT !.semantics = "fiscal_quarter", !.quarter = focus.quarter]
           ELSE dated

\* parse_contexts: the contexts of a document, with their labels.
ContextsOf ==
  [content \in Contents \union {Truncated} |->
     LET doc == Document[content]
     IN  [id \in DOMAIN doc.contexts |->
            [period |-> Relabel(Period(doc.contexts[id]), doc.focus),
             total  |-> doc.contexts[id].total]]]

-----------------------------------------------------------------------------
(* Facts and canonical observations *)

Concept(m, b, u) == [metric |-> m, basis |-> b, unit |-> u]

\* concept_candidate: concepts that share a metric and differ in basis, concepts
\* that share both, and one whose unit is per share stand for its thirty entries.
Candidates ==
  [RevenueFromContractWithCustomerExcludingAssessedTax |-> Concept("revenue", 101, "USD"),
   Revenues |-> Concept("revenue", 104, "USD"),
   NetIncomeLoss |-> Concept("net_income", 201, "USD"),
   ProfitLoss |-> Concept("net_income", 201, "USD"),
   EarningsPerShareDiluted |-> Concept("eps_diluted", 301, "USD/shares"),
   CashAndCashEquivalentsAtCarryingValue |-> Concept("cash", 701, "USD")]

\* parse_inline_facts, parse_classic_facts: an element whose context is missing
\* from the same document is passed over.
ItemsOf(content) ==
  LET doc == Document[content] IN {x \in doc.items : x.context \in DOMAIN doc.contexts}

\* insert_canonical_observation: what a fact must be to be selected.
Selectable(fact) ==
  LET x == fact.item
  IN  /\ x.value # None
      /\ ContextsOf[fact.doc.content][x.context].total
      /\ x.concept \in DOMAIN Candidates
      /\ LET u == Candidates[x.concept].unit
         IN  u = x.unit \/ (u = "USD/shares" /\ x.unit = "USD")

\* Its row; a function of the fact, as the identity of the fact holds the bytes.
Observation(fact) ==
  LET c == Candidates[fact.item.concept]
  IN  [fact |-> fact, metric |-> c.metric, basis |-> c.basis, value |-> fact.item.value,
       period |-> ContextsOf[fact.doc.content][fact.item.context].period,
       available_at |-> Accepted[fact.doc.filing]]

\* canonical_observations: inserted with their facts and never changed.
Observations == {Observation(x) : x \in {y \in facts : Selectable(y)}}

-----------------------------------------------------------------------------
(* The files of a package *)

\* The names in a package: the primary document, the instance the SEC extracts
\* from it (..._htm.xml), a schema, another HTML document.
Names == {"primary", "extracted", "schema", "exhibit"}

\* is_package_artifact_name, for a filing whose primary document is known.
Artifact(name) == name # "exhibit"

\* Mutant: the primary document is an instance beside the one extracted from it.
KindOfName(name, index) ==
  CASE name = "primary" -> "inline_xbrl"
    [] name = "schema"  -> "xbrl_schema"
    [] OTHER            -> "xbrl_instance"

\* package_file_kind
Kind(name, index) ==
  CASE name = "primary" -> IF "extracted" \in index THEN "primary_document" ELSE "inline_xbrl"
    [] name = "schema"  -> "xbrl_schema"
    [] OTHER            -> "xbrl_instance"

\* The files whose contents become rows: instances that parse as XML.
Instances(index, files) ==
  {i \in DOMAIN files : /\ Kind(files[i].name, index) \in {"inline_xbrl", "xbrl_instance"}
                        /\ Document[files[i].content].xml}

-----------------------------------------------------------------------------
(* The transaction of parse_xbrl_package *)

DocOf(f, file) == [filing |-> f, name |-> file.name, content |-> file.content]

\* INSERT OR IGNORE into source_documents, whose sha256 is UNIQUE.
DocumentsWith(f, files) ==
  documents \union
    {DocOf(f, files[i]) : i \in {k \in DOMAIN files :
       /\ \A d \in documents : d.content # files[k].content
       /\ \A j \in DOMAIN files : j < k => files[j].content # files[k].content}}

\* Mutant: a raw context id is unique among all filings.
ContextsOfNewIds(f, index, files) ==
  LET inst  == Instances(index, files)
      taken == {k[2] : k \in DOMAIN contexts}
      ids   == UNION {DOMAIN Document[files[i].content].contexts : i \in inst} \ taken
      first(id) == CHOOSE i \in inst : id \in DOMAIN Document[files[i].content].contexts
  IN  Over(contexts, [k \in {f} \X ids |-> ContextsOf[files[first(k[2])].content][k[2]]])

\* insert_context: a raw context id that the filing has already is ignored.
ContextsWith(f, index, files) ==
  LET inst  == Instances(index, files)
      ids   == UNION {DOMAIN Document[files[i].content].contexts : i \in inst}
      first(id) == CHOOSE i \in inst :
                     /\ id \in DOMAIN Document[files[i].content].contexts
                     /\ \A j \in inst : id \in DOMAIN Document[files[j].content].contexts => i <= j
  IN  Over(contexts, [k \in {f} \X ids |-> ContextsOf[files[first(k[2])].content][k[2]]])

\* insert_raw_fact
FactsOfFiles(f, index, files) ==
  UNION {{[doc |-> DocOf(f, files[i]), item |-> x] : x \in ItemsOf(files[i].content)} :
           i \in Instances(index, files)}

\* The foreign keys, which OR IGNORE does not silence: a context needs its period,
\* and reporting_periods refuses one without dates; a fact needs its document.
KeysHold(f, index, files) ==
  /\ \A i \in Instances(index, files) :
       \A id \in DOMAIN Document[files[i].content].contexts :
         Document[files[i].content].contexts[id].kind # "undated"
  /\ \A x \in FactsOfFiles(f, index, files) : x.doc \in DocumentsWith(f, files)

StoreParse(f, index, files) ==
  /\ KeysHold(f, index, files)
  /\ documents' = DocumentsWith(f, files)
  /\ contexts' = ContextsWith(f, index, files)
  /\ facts' = facts \union FactsOfFiles(f, index, files)

TablesInit == documents = {} /\ contexts = <<>> /\ facts = {}

=============================================================================
