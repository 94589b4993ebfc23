------------------------------ MODULE Ingestion ------------------------------
(***************************************************************************)
(* How filings get from the SEC to the fact tables: cmd_watch lists them,  *)
(* cmd_pull downloads their packages to the raw store, parse_xbrl_package  *)
(* parses what lies there.  cmd_ingest_universe runs the three for one     *)
(* issuer, group by group; pulld and xbrld run the last two besides it, as *)
(* their work items are delivered, and delivered again.                    *)
(*                                                                         *)
(* The raw store is a directory: a file is truncated, then written, and no *)
(* transaction covers it.  A pull's transaction spans its downloads and    *)
(* holds the write lock from its first UPDATE on.                          *)
(***************************************************************************)
EXTENDS FactStore

CONSTANTS
  Feed,             \* the filings as the SEC publishes them, the oldest first
  Seen,             \* how many of them it may list at first
  Form, Date,       \* filings.form and filings.filing_date of each
  Packages,         \* versions of a package: file name to content, index included
  Groups,           \* filing_ingest_groups: [form, limit], with disjoint forms
  ContinueOnError,  \* --continue-on-error
  MaxDeliveries,    \* bound: items of pulld, and of xbrld
  MaxFaults,        \* bound: errors and kills that no state explains
  MaxBatches        \* bound: runs of cmd_ingest_universe

\* The files of a package, and what they hold: an index the names of the others.
FileNames == {"index"} \union Names
Bytes == Contents \union Seq(Names)

IsPackage(table) ==
  /\ table = [n \in DOMAIN table |-> table[n]] /\ DOMAIN table \subseteq FileNames
  /\ \A n \in DOMAIN table : IF n = "index" THEN table[n] \in Seq(Names) ELSE table[n] \in Contents

ASSUME IngestionAssumption ==
  /\ IsFiniteSet(Filings) /\ Feed \in Seq(Filings) /\ Len(Feed) = Cardinality(Filings)
  /\ Seen \subseteq 0..Len(Feed) /\ Date \in [Filings -> Int]
  /\ \A f \in Filings : /\ DOMAIN Packages[f] = 1..Len(Packages[f]) /\ Len(Packages[f]) \in Nat \ {0}
                         /\ \A v \in DOMAIN Packages[f] : IsPackage(Packages[f][v])
  /\ DOMAIN Groups = 1..Len(Groups) /\ Len(Groups) \in Nat \ {0}
  /\ \A g \in DOMAIN Groups : Groups[g].limit \in Nat \ {0}
  /\ \A g, h \in DOMAIN Groups : Groups[g].form = Groups[h].form => g = h
  /\ MaxDeliveries \in Nat /\ MaxFaults \in Nat

\* An Option without a value is no content and no table of contents.
ASSUME NoneIsNoValue ==
  None \notin Bytes /\ \A some \in SUBSET FileNames : None \notin [some -> Bytes]

VARIABLES
  published,  \* how much of Feed the SEC lists
  served,     \* the version of each package the SEC serves
  rows,       \* filings: accession to what raw_sha256 hashes, or None
  disk,       \* the raw store: filing to its files, name to content
  pull,       \* cmd_pull of each process, or NoPull
  parse,      \* parse_xbrl_package of each process, or None
  batch,      \* cmd_ingest_universe: [stage, group, list, errors]
  parsed,     \* filings with an xbrl_package_parsed event
  shown,      \* history: what each group's watch saw in this batch
  last,       \* history: the last pull of each filing: [by, state, alone, first]
  deliveries, faults, batches

external == <<published, served>>
history == <<shown, last>>
bounds == <<deliveries, faults, batches>>
vars == <<external, rows, disk, pull, parse, batch, parsed, history, bounds, tables>>

Pullers == {"batch", "pulld"}
Parsers == {"batch", "xbrld"}

\* A pull of selected rows: nothing is read of them again.
PullOf(todo) == [todo |-> todo, names |-> <<"index">>, got |-> None,
                 hashed |-> <<>>, updates |-> <<>>]

\* No pull under way.
NoPull == [PullOf(<<>>) EXCEPT !.names = <<>>]

Init ==
  /\ published \in Seen /\ served = [f \in Filings |-> 1]
  /\ rows = <<>> /\ disk = [f \in Filings |-> <<>>]
  /\ pull = [p \in Pullers |-> NoPull] /\ parse = [q \in Parsers |-> None]
  /\ batch = [stage |-> "idle", group |-> 1, list |-> <<>>, errors |-> FALSE]
  /\ parsed = {} /\ shown = [g \in DOMAIN Groups |-> {}]
  /\ last = [f \in Filings |-> [by |-> None, state |-> "none", alone |-> TRUE, first |-> TRUE]]
  /\ deliveries = [d \in {"pulld", "xbrld"} |-> 0] /\ faults = 0 /\ batches = 0 /\ TablesInit

\* The outside: a filing appears; a package is served with more files or others.
Publish ==
  /\ published < Len(Feed) /\ published' = published + 1
  /\ UNCHANGED <<served, rows, disk, pull, parse, batch, parsed, history, bounds, tables>>

Republish(f) ==
  /\ served[f] < Len(Packages[f]) /\ served' = [served EXCEPT ![f] = @ + 1]
  /\ UNCHANGED <<published, rows, disk, pull, parse, batch, parsed, history, bounds, tables>>

-----------------------------------------------------------------------------
(* Queries *)

\* ORDER BY ... DESC LIMIT n: every answer the ties allow.
Top(S, n, Newer(_, _)) ==
  LET k == IF n < Cardinality(S) THEN n ELSE Cardinality(S)
  IN  {s \in [1..k -> S] : \A i \in 1..k :
         /\ \A j \in 1..(i - 1) : s[j] # s[i]
         /\ \A f \in S \ {s[j] : j \in 1..(i - 1)} : ~Newer(f, s[i])}

ByDate(f, h) == Date[f] > Date[h]
ByDateAndTime(f, h) == ByDate(f, h) \/ (Date[f] = Date[h] /\ Accepted[f] > Accepted[h])

OfForm(g) == {f \in DOMAIN rows : Form[f] = Groups[g].form}

\* The rows a pull without an accession selects.  Its second condition, a primary
\* document without its raw_primary_uri, never holds of a row with raw_index_uri.
ToPull(g) == Top({f \in OfForm(g) : rows[f] = None}, Groups[g].limit, ByDate)

\* Mutant: rows that are not fetched too.
ToParseAny(g) == Top(OfForm(g), Groups[g].limit, ByDateAndTime)

\* fetched_filing_metadata_list
ToParse(g) == Top({f \in OfForm(g) : rows[f] # None}, Groups[g].limit, ByDateAndTime)

\* The newest filings of a form that the SEC lists.
Listed(g) ==
  LET n    == Groups[g].limit
      of   == {i \in 1..published : Form[Feed[i]] = Groups[g].form}
  IN  {Feed[i] : i \in {k \in of : Cardinality({j \in of : j > k}) < n}}

\* The process whose open transaction has written.
Locks(p) == pull[p].updates # <<>>
Unlocked == \A p \in Pullers : ~Locks(p)

-----------------------------------------------------------------------------
(* cmd_watch *)

WithRows(S) == [f \in DOMAIN rows \union S |-> IF f \in DOMAIN rows THEN rows[f] ELSE None]

\* INSERT OR IGNORE, one transaction.
WatchGroup ==
  /\ batch.stage = "watch" /\ Unlocked
  /\ rows' = WithRows(Listed(batch.group))
  /\ shown' = [shown EXCEPT ![batch.group] = Listed(batch.group)]
  /\ batch' = [batch EXCEPT !.stage = "pull"]
  /\ UNCHANGED <<external, disk, pull, parse, parsed, last, bounds, tables>>

\* watchd; its limit is larger than a group's.
Watchd ==
  /\ Unlocked
  /\ rows' = WithRows({Feed[i] : i \in 1..published})
  /\ UNCHANGED <<external, disk, pull, parse, batch, parsed, history, bounds, tables>>

-----------------------------------------------------------------------------
(* cmd_pull *)

\* is_package_artifact_name over the items of the index, a BTreeSet.
ArtifactNames(index) ==
  LET Kept(n) == IF Artifact(n) /\ \E i \in DOMAIN index : index[i] = n THEN <<n>> ELSE <<>>
  IN  Kept("primary") \o Kept("schema") \o Kept("extracted")

PullGroup ==
  /\ batch.stage = "pull" /\ pull["batch"] = NoPull
  /\ \E s \in ToPull(batch.group) : pull' = [pull EXCEPT !["batch"] = PullOf(s)]
  /\ UNCHANGED <<external, rows, disk, parse, batch, parsed, history, bounds, tables>>

Deliver(d) ==
  deliveries[d] < MaxDeliveries /\ deliveries' = [deliveries EXCEPT ![d] = @ + 1]

\* pulld has an item for a row that was not fetched when watchd looked; the item
\* is delivered again when its lease expires.
Pulld(f) ==
  /\ f \in DOMAIN rows /\ pull["pulld"] = NoPull
  /\ Deliver("pulld")
  /\ pull' = [pull EXCEPT !["pulld"] = PullOf(<<f>>)]
  /\ UNCHANGED <<external, rows, disk, parse, batch, parsed, history, faults, batches, tables>>

Fetching(p) == pull[p].todo # <<>> /\ pull[p].names # <<>>

\* Whether another process is between its first file of f and its UPDATE.
Busy(f, p) == \E o \in Pullers \ {p} :
  /\ pull[o].todo # <<>> /\ Head(pull[o].todo) = f
  /\ pull[o].names # <<"index">> \/ pull[o].got # None

\* sec_get of the next file, and the truncation of it that fs::write starts with.
Get(p) ==
  /\ Fetching(p) /\ pull[p].got = None
  /\ LET f == Head(pull[p].todo)
         n == Head(pull[p].names)
         package == Packages[f][served[f]]
     IN  /\ n \in DOMAIN package
         /\ pull' = [pull EXCEPT ![p].got = package[n]]
         /\ disk' = [disk EXCEPT ![f] = With(@, n, Truncated)]
         /\ last' = IF n = "index"
                      THEN [last EXCEPT ![f] = [by |-> p, state |-> "running",
                              alone |-> ~Busy(f, p), first |-> @.state = "none"]]
                      ELSE last
  /\ UNCHANGED <<external, rows, parse, batch, parsed, shown, bounds, tables>>

\* Mutant: the hash is of the file, before it is written.
WriteHashingFile(p) ==
  /\ Fetching(p) /\ pull[p].got # None
  /\ LET f == Head(pull[p].todo)
         n == Head(pull[p].names)
         c == pull[p].got
     IN  /\ disk' = [disk EXCEPT ![f] = With(@, n, c)]
         /\ pull' = [pull EXCEPT ![p].got = None, ![p].hashed = With(@, n, disk[f][n]),
                       ![p].names = IF n = "index" THEN ArtifactNames(c) ELSE Tail(@)]
  /\ UNCHANGED <<external, rows, parse, batch, parsed, history, bounds, tables>>

\* The rest of fs::write; the index names the files that follow.
Write(p) ==
  /\ Fetching(p) /\ pull[p].got # None
  /\ LET f == Head(pull[p].todo)
         n == Head(pull[p].names)
         c == pull[p].got
     IN  /\ disk' = [disk EXCEPT ![f] = With(@, n, c)]
         /\ pull' = [pull EXCEPT ![p].got = None, ![p].hashed = With(@, n, c),
                       ![p].names = IF n = "index" THEN ArtifactNames(c) ELSE Tail(@)]
  /\ UNCHANGED <<external, rows, parse, batch, parsed, history, bounds, tables>>

\* The UPDATE of the row, seen by others at the commit.
Update(p) ==
  /\ pull[p].todo # <<>> /\ pull[p].names = <<>>
  /\ \A o \in Pullers \ {p} : ~Locks(o)
  /\ LET j == pull[p]
     IN  pull' = [pull EXCEPT ![p] =
           [PullOf(Tail(j.todo)) EXCEPT !.updates = With(j.updates, Head(j.todo), j.hashed)]]
  /\ UNCHANGED <<external, rows, disk, parse, batch, parsed, history, bounds, tables>>

Ended(p, how) ==
  [f \in Filings |-> IF last[f].by = p /\ last[f].state = "running"
                       THEN [last[f] EXCEPT !.state = how] ELSE last[f]]

Commit(p) ==
  /\ pull[p] # NoPull /\ pull[p].todo = <<>>
  /\ rows' = Over(pull[p].updates, rows)
  /\ last' = Ended(p, "committed")
  /\ pull' = [pull EXCEPT ![p] = NoPull]
  /\ batch' = IF p = "batch" THEN [batch EXCEPT !.stage = "list"] ELSE batch
  /\ UNCHANGED <<external, disk, parse, parsed, shown, bounds, tables>>

\* Mutant: the error is gone past without a record.
SkipSilently(to) == IF ContinueOnError THEN to ELSE [batch EXCEPT !.stage = "failed"]

\* What an error of one of its steps makes of a batch: recorded and gone past, or
\* returned.
Skip(to) == IF ContinueOnError THEN [to EXCEPT !.errors = TRUE] ELSE [batch EXCEPT !.stage = "failed"]

\* The step fails, or the batch is killed in it.
Broken(to) == {Skip(to), [batch EXCEPT !.stage = "failed"]}

\* A watch or a pull that fails ends the groups of the issuer.
WatchFails ==
  /\ batch.stage = "watch" /\ faults < MaxFaults /\ faults' = faults + 1
  /\ batch' \in Broken([batch EXCEPT !.stage = "done"])
  /\ UNCHANGED <<external, rows, disk, pull, parse, parsed, history, deliveries, batches, tables>>

\* A failed request, a busy database or a kill: the rows roll back, the files stay.
PullFails(p) ==
  /\ pull[p] # NoPull /\ faults < MaxFaults /\ faults' = faults + 1
  /\ pull' = [pull EXCEPT ![p] = NoPull]
  /\ last' = Ended(p, "aborted")
  /\ batch' \in IF p = "batch" THEN Broken([batch EXCEPT !.stage = "done"]) ELSE {batch}
  /\ UNCHANGED <<external, rows, disk, parse, parsed, shown, deliveries, batches, tables>>

-----------------------------------------------------------------------------
(* parse_xbrl_package *)

ParseOf(f) == [filing |-> f, index |-> None, files |-> <<>>]

\* xbrld has an item once a pull of the filing has committed.
Xbrld(f) ==
  /\ f \in DOMAIN rows /\ rows[f] # None /\ parse["xbrld"] = None
  /\ Deliver("xbrld")
  /\ parse' = [parse EXCEPT !["xbrld"] = ParseOf(f)]
  /\ UNCHANGED <<external, rows, disk, pull, batch, parsed, history, faults, batches, tables>>

\* load_package_files, file after file in the order of the index.
Unread(q) ==
  {k \in DOMAIN parse[q].index : Artifact(parse[q].index[k])} \ DOMAIN parse[q].files
NextItem(q) == CHOOSE k \in Unread(q) : \A j \in Unread(q) : k <= j
NextFile(q) == IF parse[q].index = None THEN "index" ELSE parse[q].index[NextItem(q)]
AllRead(q) == parse[q].index # None /\ Unread(q) = {}

Readable(q) ==
  LET f == parse[q].filing
  IN  NextFile(q) \in DOMAIN disk[f] /\ (parse[q].index = None => disk[f]["index"] # Truncated)

Read(q) ==
  /\ parse[q] # None /\ ~AllRead(q) /\ Readable(q)
  /\ LET n == NextFile(q)
         c == disk[parse[q].filing][n]
     IN  parse' = IF parse[q].index = None THEN [parse EXCEPT ![q].index = c]
                  ELSE [parse EXCEPT ![q].files = With(@, NextItem(q), [name |-> n, content |-> c])]
  /\ UNCHANGED <<external, rows, disk, pull, batch, parsed, history, bounds, tables>>

IndexSet(q) == {parse[q].index[i] : i \in DOMAIN parse[q].index}

Store(q) ==
  /\ parse[q] # None /\ AllRead(q) /\ Unlocked
  /\ StoreParse(parse[q].filing, IndexSet(q), parse[q].files)
  /\ parsed' = parsed \union {parse[q].filing}
  /\ parse' = [parse EXCEPT ![q] = None]
  /\ batch' = IF q = "batch" THEN [batch EXCEPT !.list = Tail(@)] ELSE batch
  /\ UNCHANGED <<external, rows, disk, pull, history, bounds>>

\* The index does not parse, a file is missing or the keys do not hold.
MustFail(q) ==
  IF AllRead(q) THEN ~KeysHold(parse[q].filing, IndexSet(q), parse[q].files) ELSE ~Readable(q)

\* An error of the state, or a busy database or a kill.
ParseFails(q) ==
  /\ parse[q] # None
  /\ LET next == [batch EXCEPT !.list = Tail(@)] IN
     \/ /\ MustFail(q) /\ UNCHANGED faults
        /\ batch' = IF q = "batch" THEN Skip(next) ELSE batch
     \/ /\ ~MustFail(q) /\ faults < MaxFaults /\ faults' = faults + 1
        /\ batch' \in IF q = "batch" THEN Broken(next) ELSE {batch}
  /\ parse' = [parse EXCEPT ![q] = None]
  /\ UNCHANGED <<external, rows, disk, pull, parsed, history, deliveries, batches, tables>>

-----------------------------------------------------------------------------
(* cmd_ingest_universe *)

StartBatch ==
  /\ batch.stage \in {"idle", "done", "failed"} /\ batches < MaxBatches
  /\ batches' = batches + 1
  /\ batch' = [stage |-> "watch", group |-> 1, list |-> <<>>, errors |-> FALSE]
  /\ shown' = [g \in DOMAIN Groups |-> {}]
  /\ UNCHANGED <<external, rows, disk, pull, parse, parsed, last, deliveries, faults, tables>>

\* parse_fetched_filings_for_group; no other group lists the same filing.
ListGroup ==
  /\ batch.stage = "list"
  /\ \E s \in ToParse(batch.group) : batch' = [batch EXCEPT !.stage = "parse", !.list = s]
  /\ UNCHANGED <<external, rows, disk, pull, parse, parsed, history, bounds, tables>>

ParseListed ==
  /\ batch.stage = "parse" /\ batch.list # <<>> /\ parse["batch"] = None
  /\ parse' = [parse EXCEPT !["batch"] = ParseOf(Head(batch.list))]
  /\ UNCHANGED <<external, rows, disk, pull, batch, parsed, history, bounds, tables>>

NextGroup ==
  /\ batch.stage = "parse" /\ batch.list = <<>>
  /\ batch' = IF batch.group < Len(Groups)
                THEN [batch EXCEPT !.stage = "watch", !.group = @ + 1]
                ELSE [batch EXCEPT !.stage = "done"]
  /\ UNCHANGED <<external, rows, disk, pull, parse, parsed, history, bounds, tables>>

Next ==
  \/ Publish \/ \E f \in Filings : Republish(f) \/ Pulld(f) \/ Xbrld(f)
  \/ Watchd \/ StartBatch \/ WatchGroup \/ WatchFails \/ PullGroup \/ ListGroup \/ ParseListed \/ NextGroup
  \/ \E p \in Pullers : Get(p) \/ Write(p) \/ Update(p) \/ Commit(p) \/ PullFails(p)
  \/ \E q \in Parsers : Read(q) \/ Store(q) \/ ParseFails(q)

Spec == Init /\ [][Next]_vars

-----------------------------------------------------------------------------
TypeOK ==
  /\ DOMAIN rows \subseteq Filings
  /\ batch.stage \in {"idle", "watch", "pull", "list", "parse", "done", "failed"}
  /\ parsed \subseteq DOMAIN rows
  /\ \A x \in facts : x.doc \in documents /\ <<x.doc.filing, x.item.context>> \in DOMAIN contexts

\* A batch that reports no error has covered what it was shown: each filing its
\* watches listed is parsed, unless as many as the limit, filed no earlier, are.
\* Pull and parse select for themselves, after other processes added rows.
BatchCoversFeed ==
  batch.stage = "done" /\ ~batch.errors =>
    \A g \in DOMAIN Groups : \A f \in shown[g] \ parsed :
      Cardinality({h \in parsed : Form[h] = Form[f] /\ Date[h] >= Date[f]}) >= Groups[g].limit

\* The raw store holds what raw_sha256 was computed from, after retries and
\* pulls that were killed too: whenever the pull that came last committed and did
\* not overlap another pull of the filing.
FetchedIsOnDisk ==
  \A f \in DOMAIN rows :
    last[f].state = "committed" /\ last[f].alone =>
      /\ rows[f] # None
      /\ \A n \in DOMAIN rows[f] : n \in DOMAIN disk[f] /\ disk[f][n] = rows[f][n]

\* The facts of the package that a row's hash is of.
FactsOfPackage(f, table) ==
  LET index == table["index"]
      files == [k \in {x \in DOMAIN index : Artifact(index[x])} |->
                  [name |-> index[k], content |-> table[index[k]]]]
  IN  FactsOfFiles(f, {index[k] : k \in DOMAIN index}, files)

\* A filing that was pulled once and parsed has every fact of its instances: no
\* parse takes the package before it is whole.
ParsedIsComplete ==
  \A f \in parsed : last[f].first /\ rows[f] # None => FactsOfPackage(f, rows[f]) \subseteq facts

\* No figure of a filing that was pulled once is counted from two of its files,
\* whichever of its versions was served and however often it was parsed.
NoDoubleCount ==
  \A x, y \in facts :
    (/\ x.doc.filing = y.doc.filing /\ last[x.doc.filing].first
     /\ x.item.concept = y.item.concept /\ x.item.context = y.item.context) => x.doc = y.doc
=============================================================================
