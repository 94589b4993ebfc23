---------------------------- MODULE IngestionProofs ----------------------------
(***************************************************************************)
(* For any filings, packages, groups and limits: the raw store holds what  *)
(* raw_sha256 is of, a parse takes whole packages and counts no figure     *)
(* twice, and a batch that reports no error has covered what it was shown. *)
(***************************************************************************)
EXTENDS Ingestion, FiniteSetTheorems, WellFoundedInduction, TLAPS

\* Functions from some of D into V.
Partial(D, V) == UNION {[S -> V] : S \in SUBSET D}

\* The files a pull has written, and the record of a pull.
Tables == Partial(FileNames, Bytes)
Pulls == [todo : Seq(Filings), names : Seq(FileNames), got : Bytes \union {None},
          hashed : Tables, updates : Partial(Filings, Tables)]

LastPulls == [by : Pullers \union {None}, state : {"none", "running", "committed", "aborted"},
              alone : BOOLEAN, first : BOOLEAN]

Stages == {"idle", "watch", "pull", "list", "parse", "done", "failed"}
Batches == [stage : Stages, group : DOMAIN Groups, list : Seq(Filings), errors : BOOLEAN]

\* What each variable holds.
Typed ==
  /\ published \in 0..Len(Feed)
  /\ DOMAIN served = Filings /\ \A f \in Filings : served[f] \in DOMAIN Packages[f]
  /\ DOMAIN rows \subseteq Filings /\ \A f \in DOMAIN rows : rows[f] \in Tables \union {None}
  /\ DOMAIN disk = Filings
  /\ pull \in [Pullers -> Pulls]
  /\ DOMAIN parse = Parsers
  /\ batch \in Batches
  /\ last \in [Filings -> LastPulls]
  /\ DOMAIN shown = DOMAIN Groups

\* A whole package: an index of names, and every file that is an artifact of it.
Whole(table) ==
  /\ "index" \in DOMAIN table /\ table["index"] \in Seq(Names)
  /\ \A k \in DOMAIN table["index"] :
       Artifact(table["index"][k]) => table["index"][k] \in DOMAIN table

\* What is hashed and the names still to fetch are nothing yet, or the whole package.
Packs(names, hashed) ==
  \/ names = <<"index">> /\ DOMAIN hashed = {}
  \/ /\ names \in Seq(Names) /\ \A i, j \in DOMAIN names : names[i] = names[j] => i = j
     /\ \A i \in DOMAIN names : names[i] \notin DOMAIN hashed
     /\ "index" \in DOMAIN hashed /\ hashed["index"] \in Seq(Names)
     /\ \A k \in DOMAIN hashed["index"] : Artifact(hashed["index"][k]) =>
          \/ hashed["index"][k] \in DOMAIN hashed
          \/ \E i \in DOMAIN names : names[i] = hashed["index"][k]

\* Whole packages are hashed, and nothing else gets into a row.
Packaged ==
  /\ \A p \in Pullers :
       /\ pull[p].todo # <<>> => Packs(pull[p].names, pull[p].hashed)
       /\ pull[p].got # None /\ pull[p].names = <<"index">> => pull[p].got \in Seq(Names)
       /\ \A f \in DOMAIN pull[p].updates : Whole(pull[p].updates[f])
  /\ \A f \in DOMAIN rows : rows[f] # None => Whole(rows[f])

Alone(f) == last[f].alone = TRUE
Once(f) == last[f].first = TRUE

\* A pull between its first file of f and its UPDATE, or with the lock after it.
Mid(p, f) ==
  /\ pull[p].todo # <<>> /\ Head(pull[p].todo) = f
  /\ pull[p].names # <<"index">> \/ pull[p].got # None
Updated(p, f) == f \in DOMAIN pull[p].updates
RunningBy(p, f) == last[f].by = p /\ last[f].state = "running"

Agrees(table, f) == \A n \in DOMAIN table : n \in DOMAIN disk[f] /\ disk[f][n] = table[n]

OneWriter == \A p, o \in Pullers : Locks(p) /\ Locks(o) => p = o

\* A pull that overlaps no other finds on disk what it wrote.
Intact(f) ==
  /\ \A p \in Pullers : RunningBy(p, f) => Mid(p, f) \/ Updated(p, f)
  /\ Alone(f) =>
       /\ \A p \in Pullers : Mid(p, f) => RunningBy(p, f) /\ Agrees(pull[p].hashed, f)
       /\ \A p \in Pullers :
            Updated(p, f) /\ RunningBy(p, f) /\ ~Mid(p, f) => Agrees(pull[p].updates[f], f)
       /\ last[f].state = "committed" =>
            /\ f \in DOMAIN rows /\ rows[f] # None /\ Agrees(rows[f], f)
            /\ \A p \in Pullers : ~Updated(p, f)

Undisturbed == \A f \in Filings : Intact(f)

\* The first pull of a filing is alone, and its row is set by no other.
Firsts(f) ==
  /\ last[f].state = "none" => Once(f)
  /\ Once(f) =>
       /\ Alone(f)
       /\ \A p \in Pullers : Mid(p, f) \/ Updated(p, f) => RunningBy(p, f)
       /\ f \in DOMAIN rows /\ rows[f] # None => last[f].state = "committed"

FirstPull == \A f \in Filings : Firsts(f)

Fetched == {f \in DOMAIN rows : rows[f] # None}

\* The items of an index that a parse reads, and what a row says they hold.
Items(index) == {k \in DOMAIN index : Artifact(index[k])}
FilesOf(table) ==
  [k \in Items(table["index"]) |->
     [name |-> table["index"][k], content |-> table[table["index"][k]]]]

\* A parse is of a fetched filing; after one pull it reads what was hashed.
SoundParse(r) ==
  /\ r = [filing |-> r.filing, index |-> r.index, files |-> r.files]
  /\ r.filing \in Fetched
  /\ r.index = None => r.files = <<>>
  /\ Once(r.filing) /\ r.index # None =>
       LET table == rows[r.filing]
       IN  /\ r.index = table["index"]
           /\ r.files = [k \in DOMAIN r.files |-> FilesOf(table)[k]]
           /\ DOMAIN r.files \subseteq Items(table["index"])

\* The rows of a fact are there; after one pull it is of what was hashed.
SoundFact(x) ==
  /\ x.doc \in documents /\ <<x.doc.filing, x.item.context>> \in DOMAIN contexts
  /\ x.doc.filing \in Fetched
  /\ Once(x.doc.filing) => x \in FactsOfPackage(x.doc.filing, rows[x.doc.filing])

ParsesFetched ==
  /\ \A q \in Parsers : parse[q] # None => SoundParse(parse[q])
  /\ parsed \subseteq Fetched
  /\ \A f \in parsed : Once(f) => FactsOfPackage(f, rows[f]) \subseteq facts
  /\ \A x \in facts : SoundFact(x)

Elements(s) == {s[i] : i \in DOMAIN s}

\* Where the batch is.
Staged ==
  /\ pull["batch"] # NoPull => batch.stage = "pull"
  /\ parse["batch"] # None =>
       batch.stage = "parse" /\ batch.list # <<>> /\ parse["batch"].filing = Head(batch.list)
  /\ Elements(batch.list) \subseteq Fetched
  /\ \A g \in DOMAIN Groups :
       /\ shown[g] \subseteq DOMAIN rows /\ \A f \in shown[g] : Form[f] = Groups[g].form
       /\ batch.stage \in {"watch", "pull", "list", "parse"} /\ g > batch.group => shown[g] = {}
       /\ batch.stage = "watch" /\ g = batch.group => shown[g] = {}

\* f is in S, or as many of its form as the limit are, filed no earlier.
Covers(S, f, n) ==
  f \in S \/ Cardinality({h \in S : Form[h] = Form[f] /\ Date[h] >= Date[f]}) >= n

\* The filings that have come as far as the batch is with group g.
Through(g) ==
  CASE batch.stage = "done" \/ g < batch.group -> parsed
    [] batch.stage = "parse" /\ g = batch.group -> parsed \union Elements(batch.list)
    [] batch.stage = "list" /\ g = batch.group -> Fetched
    [] batch.stage = "pull" /\ g = batch.group /\ pull["batch"] # NoPull ->
         Fetched \union Elements(pull["batch"].todo) \union DOMAIN pull["batch"].updates
    [] OTHER -> Filings

BatchCovers ==
  batch.stage \notin {"idle", "failed"} /\ batch.errors = FALSE =>
    \A g \in DOMAIN Groups : \A f \in shown[g] : Covers(Through(g), f, Groups[g].limit)

-----------------------------------------------------------------------------
(* Tables and names *)
\* A table with one more row, or with none, is a table.
LEMMA WithIsPartial ==
    ASSUME NEW D, NEW V, NEW table \in Partial(D, V), NEW k \in D, NEW v \in V
    PROVE  With(table, k, v) \in Partial(D, V)
  <1>1. PICK S \in SUBSET D : table \in [S -> V]
    BY DEF Partial
  <1>2. With(table, k, v) \in [S \union {k} -> V]
    BY <1>1 DEF With, Over
  <1> QED BY <1>2 DEF Partial

\* The empty table is one over any domain.
LEMMA EmptyIsPartial ==
    ASSUME NEW D, NEW V
    PROVE  <<>> \in Partial(D, V)
  <1>1. <<>> \in [{} -> V]
    OBVIOUS
  <1> QED BY <1>1 DEF Partial

\* What a partial function is.
LEMMA PartialIs ==
    ASSUME NEW D, NEW V, NEW table \in Partial(D, V)
    PROVE  DOMAIN table \subseteq D /\ \A k \in DOMAIN table : table[k] \in V
  BY DEF Partial

\* A table of hashed files is not the NULL of raw_sha256.
LEMMA TableIsThere ==
    ASSUME NEW table \in Tables
    PROVE  table # None
  <1>1. PICK S \in SUBSET FileNames : table \in [S -> Bytes]
    BY DEF Tables, Partial
  <1> QED BY <1>1, NoneIsNoValue

\* A sequence without repetitions, of the elements of S.
Enumerates(s, S) ==
  /\ s \in Seq(S) /\ \A i, j \in DOMAIN s : s[i] = s[j] => i = j
  /\ \A n \in S : \E i \in DOMAIN s : s[i] = n

\* Two lists of disjoint sets, one after the other, list their union.
LEMMA ConcatEnumerates ==
    ASSUME NEW S, NEW T, S \intersect T = {}, NEW s, NEW t, Enumerates(s, S), Enumerates(t, T)
    PROVE  Enumerates(s \o t, S \union T)
  <1> DEFINE m == Len(s)
             n == Len(t)
             u == s \o t
  <1>1. s \in Seq(S \union T) /\ t \in Seq(S \union T) /\ m \in Nat /\ n \in Nat
    BY DEF Enumerates
  <1>2. /\ u \in Seq(S \union T) /\ DOMAIN u = 1..(m + n)
        /\ \A i \in 1..m : u[i] = s[i]
        /\ \A i \in (m + 1)..(m + n) : u[i] = t[i - m]
    BY <1>1
  <1>3. DOMAIN s = 1..m /\ DOMAIN t = 1..n
    BY DEF Enumerates
  <1>4. /\ \A i \in 1..m : s[i] \in S
        /\ \A i \in 1..n : t[i] \in T
    BY DEF Enumerates
  <1> HIDE DEF u, m, n
  <1>5. ASSUME NEW i \in DOMAIN u, NEW j \in DOMAIN u, u[i] = u[j]
        PROVE  i = j
    <2>1. CASE i <= m /\ j <= m
      <3>1. i \in 1..m /\ j \in 1..m
        BY <1>1, <1>2, <2>1
      <3> QED BY <1>2, <1>3, <1>5, <3>1 DEF Enumerates
    <2>2. CASE i > m /\ j > m
      <3>1. /\ i \in (m + 1)..(m + n) /\ j \in (m + 1)..(m + n)
            /\ i - m \in 1..n /\ j - m \in 1..n
        BY <1>1, <1>2, <2>2
      <3>2. i - m = j - m
        BY <1>2, <1>3, <1>5, <3>1 DEF Enumerates
      <3> QED BY <1>1, <3>1, <3>2
    <2>3. CASE i <= m /\ j > m
      <3>1. i \in 1..m /\ j \in (m + 1)..(m + n) /\ j - m \in 1..n
        BY <1>1, <1>2, <2>3
      <3> QED BY <1>2, <1>4, <1>5, <3>1
    <2>4. CASE i > m /\ j <= m
      <3>1. j \in 1..m /\ i \in (m + 1)..(m + n) /\ i - m \in 1..n
        BY <1>1, <1>2, <2>4
      <3> QED BY <1>2, <1>4, <1>5, <3>1
    <2> QED BY <1>1, <1>2, <2>1, <2>2, <2>3, <2>4
  <1>6. ASSUME NEW x \in S \union T
        PROVE  \E i \in DOMAIN u : u[i] = x
    <2>1. CASE x \in S
      <3>1. PICK i \in 1..m : s[i] = x
        BY <1>3, <2>1 DEF Enumerates
      <3> QED BY <1>1, <1>2, <3>1
    <2>2. CASE x \in T
      <3>1. PICK i \in 1..n : t[i] = x
        BY <1>3, <2>2 DEF Enumerates
      <3>2. m + i \in (m + 1)..(m + n) /\ (m + i) - m = i
        BY <1>1, <3>1
      <3>3. m + i \in DOMAIN u /\ u[m + i] = t[i]
        BY <1>1, <1>2, <3>2
      <3> QED BY <3>1, <3>3
    <2> QED BY <2>1, <2>2
  <1> QED BY <1>2, <1>5, <1>6 DEF Enumerates, u

\* package_artifact_names: each name of the index once, and never the index itself.
LEMMA ArtifactNamesAre ==
    ASSUME NEW index \in Seq(Names)
    PROVE  /\ ArtifactNames(index) \in Seq(Names) /\ ArtifactNames(index) # <<"index">>
           /\ \A i, j \in DOMAIN ArtifactNames(index) :
                ArtifactNames(index)[i] = ArtifactNames(index)[j] => i = j
           /\ \A k \in DOMAIN index : Artifact(index[k]) =>
                \E i \in DOMAIN ArtifactNames(index) : ArtifactNames(index)[i] = index[k]
  <1> DEFINE Has(n) == Artifact(n) /\ \E i \in DOMAIN index : index[i] = n
             one(n) == IF Has(n) THEN <<n>> ELSE <<>>
             set(n) == IF Has(n) THEN {n} ELSE {}
             S == (set("primary") \union set("schema")) \union set("extracted")
             names == (one("primary") \o one("schema")) \o one("extracted")
  <1>1. ArtifactNames(index) = names
    BY DEF ArtifactNames
  <1>2. \A k \in DOMAIN index : index[k] \in Names /\ (Artifact(index[k]) => Has(index[k]))
    OBVIOUS
  <1>3. \A n \in Names : Has(n) => n \in S
    BY DEF Names, Artifact
  <1> HIDE DEF Has
  <1>4. \A n : Enumerates(one(n), set(n))
    <2>1. ASSUME NEW n PROVE Enumerates(<<n>>, {n}) /\ Enumerates(<<>>, {})
      <3>1. <<n>> \in Seq({n}) /\ DOMAIN <<n>> = {1} /\ <<n>>[1] = n
        OBVIOUS
      <3>2. <<>> \in Seq({}) /\ DOMAIN <<>> = {}
        OBVIOUS
      <3> QED BY <3>1, <3>2 DEF Enumerates
    <2> QED BY <2>1
  <1>5. /\ set("primary") \intersect set("schema") = {}
        /\ (set("primary") \union set("schema")) \intersect set("extracted") = {}
        /\ S \subseteq Names /\ "index" \notin S
    BY DEF Names
  <1> HIDE DEF set, one
  <1>6. Enumerates(names, S)
    <2>1. Enumerates(one("primary") \o one("schema"), set("primary") \union set("schema"))
      BY <1>4, <1>5, ConcatEnumerates
    <2> QED BY <1>4, <1>5, <2>1, ConcatEnumerates
  <1> HIDE DEF names, S
  <1>7. names \in Seq(S) /\ Seq(S) \subseteq Seq(Names) /\ names # <<"index">>
    <2>1. <<"index">> \notin Seq(S)
      BY <1>5
    <2> QED BY <1>5, <1>6, <2>1 DEF Enumerates
  <1>8. \A k \in DOMAIN index : Artifact(index[k]) => \E i \in DOMAIN names : names[i] = index[k]
    BY <1>2, <1>3, <1>6 DEF Enumerates
  <1> QED BY <1>1, <1>6, <1>7, <1>8 DEF Enumerates


-----------------------------------------------------------------------------
(* What the steps of a pull do *)

\* A pull's record, and those of the others, after a step of p.
Becomes(p, todo, names, got, hashed, updates) ==
  pull' = [pull EXCEPT ![p] = [todo |-> todo, names |-> names, got |-> got,
                               hashed |-> hashed, updates |-> updates]]

\* What the other fields and the other pulls are after a step of a pull.
LEMMA BecomesIs ==
    ASSUME Typed, NEW p \in Pullers
    PROVE  \A todo, names, got, hashed, updates :
             Becomes(p, todo, names, got, hashed, updates) =>
               /\ pull'[p].todo = todo /\ pull'[p].names = names /\ pull'[p].got = got
               /\ pull'[p].hashed = hashed /\ pull'[p].updates = updates
               /\ \A o \in Pullers : o # p => pull'[o] = pull[o]
  BY DEF Becomes, Typed

\* What EDGAR serves: bytes, and of the index a list of names.
LEMMA ServedIs ==
    ASSUME Typed, NEW f \in Filings, NEW n \in DOMAIN Packages[f][served[f]]
    PROVE  /\ n \in FileNames /\ Packages[f][served[f]][n] \in Bytes
           /\ n = "index" => Packages[f][served[f]][n] \in Seq(Names)
  BY IngestionAssumption DEF Typed, IsPackage, Bytes

\* The names after the file n, which holds c.
Following(names, n, c) == IF n = "index" THEN ArtifactNames(c) ELSE Tail(names)

\* The fields of a pull, and what is next in its lists.
LEMMA PullIs ==
    ASSUME Typed, NEW p \in Pullers
    PROVE  /\ pull[p] \in Pulls /\ pull[p].todo \in Seq(Filings) /\ pull[p].names \in Seq(FileNames)
           /\ pull[p].got \in Bytes \union {None} /\ pull[p].hashed \in Tables
           /\ pull[p].updates \in Partial(Filings, Tables)
           /\ pull[p] = [todo |-> pull[p].todo, names |-> pull[p].names, got |-> pull[p].got,
                         hashed |-> pull[p].hashed, updates |-> pull[p].updates]
           /\ pull[p].todo # <<>> => Head(pull[p].todo) \in Filings /\ Tail(pull[p].todo) \in Seq(Filings)
           /\ pull[p].names # <<>> =>
                Head(pull[p].names) \in FileNames /\ Tail(pull[p].names) \in Seq(FileNames)
  <1>1. pull[p] \in Pulls
    BY DEF Typed
  <1> QED BY <1>1 DEF Pulls

\* EXCEPT on the record of a pull.
LEMMA RecordUpdates ==
    ASSUME NEW t, NEW n, NEW g, NEW h, NEW u, NEW v
    PROVE  /\ [[todo |-> t, names |-> n, got |-> g, hashed |-> h, updates |-> u] EXCEPT !.got = v] =
                [todo |-> t, names |-> n, got |-> v, hashed |-> h, updates |-> u]
           /\ [[todo |-> t, names |-> n, got |-> g, hashed |-> h, updates |-> u] EXCEPT !.names = v] =
                [todo |-> t, names |-> v, got |-> g, hashed |-> h, updates |-> u]
           /\ [[todo |-> t, names |-> n, got |-> g, hashed |-> h, updates |-> u] EXCEPT !.hashed = v] =
                [todo |-> t, names |-> n, got |-> g, hashed |-> v, updates |-> u]
           /\ [[todo |-> t, names |-> n, got |-> g, hashed |-> h, updates |-> u] EXCEPT !.updates = v] =
                [todo |-> t, names |-> n, got |-> g, hashed |-> h, updates |-> v]
  OBVIOUS

\* Get, spelled out: a GET truncates the file and touches one record.
LEMMA GetDoes ==
    ASSUME Typed, NEW p \in Pullers, Get(p), NEW f, NEW n,
           f = Head(pull[p].todo), n = Head(pull[p].names)
    PROVE  /\ pull[p].todo # <<>> /\ pull[p].names # <<>> /\ pull[p].got = None
           /\ f \in Filings /\ n \in FileNames
           /\ \E c \in Bytes : /\ n = "index" => c \in Seq(Names)
                               /\ Becomes(p, pull[p].todo, pull[p].names, c, pull[p].hashed, pull[p].updates)
           /\ disk' = [disk EXCEPT ![f] = With(disk[f], n, Truncated)]
           /\ n # "index" => last' = last
           /\ n = "index" => last' = [last EXCEPT ![f] =
                [by |-> p, state |-> "running", alone |-> ~Busy(f, p), first |-> last[f].state = "none"]]
           /\ UNCHANGED <<external, rows, parse, batch, parsed, shown, bounds, tables>>
  <1>1. pull[p].todo # <<>> /\ pull[p].names # <<>> /\ pull[p].got = None
    BY DEF Get, Fetching
  <1>2. f \in Filings /\ n \in FileNames
    BY <1>1, PullIs
  <1> DEFINE c == Packages[f][served[f]][n]
  <1>3. n \in DOMAIN Packages[f][served[f]] /\ pull' = [pull EXCEPT ![p].got = c]
    BY DEF Get
  <1>4. c \in Bytes /\ (n = "index" => c \in Seq(Names))
    BY <1>2, <1>3, ServedIs
  <1>5. Becomes(p, pull[p].todo, pull[p].names, c, pull[p].hashed, pull[p].updates)
    <2>1. [pull[p] EXCEPT !.got = c] =
            [todo |-> pull[p].todo, names |-> pull[p].names, got |-> c,
             hashed |-> pull[p].hashed, updates |-> pull[p].updates]
      <3>1. pull[p] = [todo |-> pull[p].todo, names |-> pull[p].names, got |-> pull[p].got,
                       hashed |-> pull[p].hashed, updates |-> pull[p].updates]
        BY <1>1, PullIs
      <3> DEFINE r == pull[p]
      <3>2. r = [todo |-> r.todo, names |-> r.names, got |-> r.got,
                 hashed |-> r.hashed, updates |-> r.updates]
        BY <3>1
      <3> HIDE DEF c, r
      <3>3. [r EXCEPT !.got = c] =
              [todo |-> r.todo, names |-> r.names, got |-> c,
               hashed |-> r.hashed, updates |-> r.updates]
        BY <3>2
      <3> QED BY <3>3 DEF r
    <2> HIDE DEF c
    <2>2. pull' = [pull EXCEPT ![p] = [pull[p] EXCEPT !.got = c]]
      BY <1>3
    <2> QED BY <2>1, <2>2 DEF Becomes
  <1>6. disk' = [disk EXCEPT ![f] = With(disk[f], n, Truncated)]
    BY DEF Get
  <1>7. /\ n # "index" => last' = last
        /\ n = "index" => last' = [last EXCEPT ![f] =
             [by |-> p, state |-> "running", alone |-> ~Busy(f, p), first |-> last[f].state = "none"]]
    BY DEF Get
  <1>8. UNCHANGED <<external, rows, parse, batch, parsed, shown, bounds, tables>>
    BY DEF Get
  <1> QED BY <1>1, <1>2, <1>4, <1>5, <1>6, <1>7, <1>8

\* Write, spelled out: the file gets the bytes that were hashed.
LEMMA WriteDoes ==
    ASSUME Typed, NEW p \in Pullers, Write(p), NEW f, NEW n, NEW c,
           f = Head(pull[p].todo), n = Head(pull[p].names), c = pull[p].got
    PROVE  /\ pull[p].todo # <<>> /\ pull[p].names # <<>> /\ c # None
           /\ f \in Filings /\ n \in FileNames /\ c \in Bytes
           /\ Becomes(p, pull[p].todo, Following(pull[p].names, n, c), None,
                      With(pull[p].hashed, n, c), pull[p].updates)
           /\ disk' = [disk EXCEPT ![f] = With(disk[f], n, c)]
           /\ UNCHANGED <<external, rows, parse, batch, parsed, history, bounds, tables>>
  <1>1. pull[p].todo # <<>> /\ pull[p].names # <<>> /\ c # None
    BY DEF Write, Fetching
  <1>2. f \in Filings /\ n \in FileNames /\ c \in Bytes
    BY <1>1, PullIs
  <1> DEFINE following == Following(pull[p].names, n, c)
             hashed == With(pull[p].hashed, n, c)
  <1>3. pull' = [pull EXCEPT ![p] = [[[pull[p] EXCEPT !.got = None] EXCEPT !.hashed = hashed]
                                       EXCEPT !.names = following]]
    <2>1. pull' = [pull EXCEPT ![p].got = None, ![p].hashed = hashed, ![p].names = following]
      BY DEF Write, Following
    <2> HIDE DEF following, hashed
    <2>2. p \in DOMAIN pull
      BY DEF Typed
    <2> QED BY <1>1, <2>1, <2>2, PullIs
  <1>4. Becomes(p, pull[p].todo, following, None, hashed, pull[p].updates)
    <2> HIDE DEF following, hashed
    <2>1. [[[pull[p] EXCEPT !.got = None] EXCEPT !.hashed = hashed] EXCEPT !.names = following] =
            [todo |-> pull[p].todo, names |-> following, got |-> None,
             hashed |-> hashed, updates |-> pull[p].updates]
      <3> DEFINE r == pull[p]
                 r1 == [todo |-> r.todo, names |-> r.names, got |-> None,
                        hashed |-> r.hashed, updates |-> r.updates]
                 r2 == [todo |-> r.todo, names |-> r.names, got |-> None,
                        hashed |-> hashed, updates |-> r.updates]
                 r3 == [todo |-> r.todo, names |-> following, got |-> None,
                        hashed |-> hashed, updates |-> r.updates]
      <3>0. r = [todo |-> r.todo, names |-> r.names, got |-> r.got,
                 hashed |-> r.hashed, updates |-> r.updates]
        BY <1>1, PullIs
      <3>1. [r EXCEPT !.got = None] = r1
        <4> HIDE DEF r
        <4> QED BY <3>0
      <3>2. [r1 EXCEPT !.hashed = hashed] = r2
        BY RecordUpdates
      <3>3. [r2 EXCEPT !.names = following] = r3
        BY RecordUpdates
      <3> QED BY <3>1, <3>2, <3>3, Zenon
    <2> QED BY <1>3, <2>1 DEF Becomes
  <1>5. disk' = [disk EXCEPT ![f] = With(disk[f], n, c)]
    BY DEF Write
  <1>6. UNCHANGED <<external, rows, parse, batch, parsed, history, bounds, tables>>
    BY DEF Write
  <1> QED BY <1>1, <1>2, <1>4, <1>5, <1>6

\* The record after the UPDATE of a filing.
LEMMA NextPull ==
    ASSUME NEW t, NEW u
    PROVE  [PullOf(t) EXCEPT !.updates = u] =
             [todo |-> t, names |-> <<"index">>, got |-> None, hashed |-> <<>>, updates |-> u]
  BY DEF PullOf

\* The record of a process that pulls nothing.
LEMMA NoPullIs ==
    /\ NoPull = [todo |-> <<>>, names |-> <<>>, got |-> None, hashed |-> <<>>, updates |-> <<>>]
    /\ NoPull \in Pulls /\ DOMAIN NoPull.updates = {}
  <1>1. NoPull = [todo |-> <<>>, names |-> <<>>, got |-> None, hashed |-> <<>>, updates |-> <<>>]
    BY DEF NoPull, PullOf
  <1> QED BY <1>1, EmptyIsPartial DEF Pulls, Tables

\* Update, spelled out: the row of the filing in the open transaction.
LEMMA UpdateDoes ==
    ASSUME Typed, NEW p \in Pullers, Update(p), NEW f, f = Head(pull[p].todo)
    PROVE  /\ pull[p].todo # <<>> /\ pull[p].names = <<>>
           /\ f \in Filings /\ Tail(pull[p].todo) \in Seq(Filings)
           /\ \A o \in Pullers : o # p => ~Locks(o)
           /\ Becomes(p, Tail(pull[p].todo), <<"index">>, None, <<>>,
                      With(pull[p].updates, f, pull[p].hashed))
           /\ UNCHANGED <<external, rows, disk, parse, batch, parsed, history, bounds, tables>>
  <1>1. pull[p].todo # <<>> /\ pull[p].names = <<>>
    BY DEF Update
  <1>2. Becomes(p, Tail(pull[p].todo), <<"index">>, None, <<>>, With(pull[p].updates, f, pull[p].hashed))
    <2> DEFINE updates == With(pull[p].updates, f, pull[p].hashed)
    <2>1. pull' = [pull EXCEPT ![p] = [PullOf(Tail(pull[p].todo)) EXCEPT !.updates = updates]]
      BY DEF Update
    <2>2. [PullOf(Tail(pull[p].todo)) EXCEPT !.updates = updates] =
            [todo |-> Tail(pull[p].todo), names |-> <<"index">>, got |-> None,
             hashed |-> <<>>, updates |-> updates]
      BY NextPull
    <2> HIDE DEF updates
    <2> QED BY <2>1, <2>2 DEF Becomes, updates
  <1> QED BY <1>1, <1>2, PullIs DEF Update

\* What the end of a pull does to the record of each filing.
LEMMA EndedIs ==
    ASSUME Typed, NEW p \in Pullers, NEW how
    PROVE  \A f \in Filings :
             /\ Ended(p, how)[f] = [by |-> last[f].by, alone |-> last[f].alone, first |-> last[f].first,
                  state |-> IF RunningBy(p, f) THEN how ELSE last[f].state]
  <1>1. \A f \in Filings : /\ last[f] \in LastPulls
                           /\ Ended(p, how)[f] = IF RunningBy(p, f) THEN [last[f] EXCEPT !.state = how] ELSE last[f]
    BY DEF Typed, Ended, RunningBy
  <1> QED BY <1>1 DEF LastPulls


-----------------------------------------------------------------------------
(* Selections *)

\* s is n of S, or all, each once, in an order that puts later dates first.
Newest(s, S, n) ==
  LET k == IF n < Cardinality(S) THEN n ELSE Cardinality(S)
  IN  /\ s \in [1..k -> S]
      /\ \A i \in 1..k :
           /\ \A j \in 1..(i - 1) : s[j] # s[i]
           /\ \A h \in S \ {s[j] : j \in 1..(i - 1)} : Date[h] <= Date[s[i]]

\* The query of cmd_pull: the newest of the form that were not fetched.
LEMMA ToPullIs ==
    ASSUME Typed, NEW g \in DOMAIN Groups, NEW s \in ToPull(g)
    PROVE  Newest(s, {f \in OfForm(g) : rows[f] = None}, Groups[g].limit)
  <1> DEFINE S == {f \in OfForm(g) : rows[f] = None}
             n == Groups[g].limit
             k == IF n < Cardinality(S) THEN n ELSE Cardinality(S)
  <1>1. /\ s \in [1..k -> S]
        /\ \A i \in 1..k :
             /\ \A j \in 1..(i - 1) : s[j] # s[i]
             /\ \A h \in S \ {s[j] : j \in 1..(i - 1)} : ~(Date[h] > Date[s[i]])
    BY DEF ToPull, Top, ByDate
  <1>2. \A h \in S : Date[h] \in Int
    BY IngestionAssumption DEF OfForm, Typed
  <1> HIDE DEF S, n, k
  <1>3. \A i \in 1..k : \A h \in S : ~(Date[h] > Date[s[i]]) => Date[h] <= Date[s[i]]
    BY <1>1, <1>2
  <1> QED BY <1>1, <1>3 DEF Newest, S, n, k

\* fetched_filing_metadata_list: the newest of the form that were fetched.
LEMMA ToParseIs ==
    ASSUME Typed, NEW g \in DOMAIN Groups, NEW s \in ToParse(g)
    PROVE  Newest(s, {f \in OfForm(g) : rows[f] # None}, Groups[g].limit)
  <1> DEFINE S == {f \in OfForm(g) : rows[f] # None}
             n == Groups[g].limit
             k == IF n < Cardinality(S) THEN n ELSE Cardinality(S)
  <1>1. /\ s \in [1..k -> S]
        /\ \A i \in 1..k :
             /\ \A j \in 1..(i - 1) : s[j] # s[i]
             /\ \A h \in S \ {s[j] : j \in 1..(i - 1)} : ~(Date[h] > Date[s[i]])
    BY DEF ToParse, Top, ByDateAndTime, ByDate
  <1>2. \A h \in S : Date[h] \in Int
    BY IngestionAssumption DEF OfForm, Typed
  <1> HIDE DEF S, n, k
  <1>3. \A i \in 1..k : \A h \in S : ~(Date[h] > Date[s[i]]) => Date[h] <= Date[s[i]]
    BY <1>1, <1>2
  <1> QED BY <1>1, <1>3 DEF Newest, S, n, k

\* A selection is a list of filings of the set.
LEMMA NewestIsSeq ==
    ASSUME NEW S \in SUBSET Filings, NEW n \in Nat, NEW s, Newest(s, S, n)
    PROVE  s \in Seq(Filings) /\ Elements(s) \subseteq S
  <1>1. IsFiniteSet(S) /\ Cardinality(S) \in Nat
    BY IngestionAssumption, FS_Subset, FS_CardinalityType
  <1>2. PICK k \in Nat : s \in [1..k -> S]
    BY <1>1 DEF Newest
  <1>3. s \in Seq(S)
    BY <1>2
  <1> QED BY <1>2, <1>3 DEF Elements

-----------------------------------------------------------------------------
(* What each variable holds *)

\* A pull whose fields are typed is typed.
LEMMA BecomesTyped ==
    ASSUME Typed, NEW p \in Pullers, NEW todo \in Seq(Filings), NEW names \in Seq(FileNames),
           NEW got \in Bytes \union {None}, NEW hashed \in Tables, NEW updates \in Partial(Filings, Tables),
           Becomes(p, todo, names, got, hashed, updates)
    PROVE  pull' \in [Pullers -> Pulls]
  <1>1. [todo |-> todo, names |-> names, got |-> got, hashed |-> hashed, updates |-> updates] \in Pulls
    BY DEF Pulls
  <1> HIDE DEF Pulls
  <1> QED BY <1>1 DEF Becomes, Typed

\* A pull that starts is typed.
LEMMA StartsTyped ==
    ASSUME Typed, NEW p \in Pullers, NEW s \in Seq(Filings), pull' = [pull EXCEPT ![p] = PullOf(s)]
    PROVE  pull' \in [Pullers -> Pulls]
  <1>1. PullOf(s) \in Pulls
    BY EmptyIsPartial DEF PullOf, Pulls, Tables, FileNames
  <1> HIDE DEF Pulls
  <1> QED BY <1>1 DEF Typed

\* The names after a file are names.
LEMMA FollowingTyped ==
    ASSUME Typed, Packaged, NEW p \in Pullers, Write(p)
    PROVE  LET n == Head(pull[p].names)
           IN  Following(pull[p].names, n, pull[p].got) \in Seq(FileNames)
  <1> DEFINE n == Head(pull[p].names)
             c == pull[p].got
  <1>1. pull[p].todo # <<>> /\ pull[p].names # <<>> /\ c # None
    BY WriteDoes
  <1>2. CASE n = "index"
    <2>1. pull[p].names = <<"index">>
      <3>1. pull[p].names \in Seq(Names) => n \in Names
        BY <1>1
      <3>2. "index" \notin Names
        BY DEF Names
      <3> QED BY <1>1, <1>2, <3>1, <3>2 DEF Packaged, Packs
    <2>2. c \in Seq(Names)
      BY <1>1, <2>1 DEF Packaged
    <2>3. ArtifactNames(c) \in Seq(Names)
      BY <2>2, ArtifactNamesAre
    <2>4. Seq(Names) \subseteq Seq(FileNames)
      BY DEF FileNames
    <2> QED BY <1>2, <2>3, <2>4 DEF Following
  <1>3. CASE n # "index"
    BY <1>1, <1>3, PullIs DEF Following
  <1> QED BY <1>2, <1>3

\* The steps of a pull keep it typed.
LEMMA PullTyped ==
    ASSUME Typed, Packaged, NEW p \in Pullers, Get(p) \/ Write(p) \/ Update(p)
    PROVE  pull' \in [Pullers -> Pulls]
  <1> DEFINE f == Head(pull[p].todo)
             n == Head(pull[p].names)
             c == pull[p].got
  <1>1. CASE Get(p)
    <2>1. PICK b \in Bytes : Becomes(p, pull[p].todo, pull[p].names, b, pull[p].hashed, pull[p].updates)
      BY <1>1, GetDoes
    <2> QED BY <2>1, PullIs, BecomesTyped
  <1>2. CASE Write(p)
    <2> DEFINE following == Following(pull[p].names, n, c)
    <2>1. /\ n \in FileNames /\ c \in Bytes
          /\ Becomes(p, pull[p].todo, following, None, With(pull[p].hashed, n, c), pull[p].updates)
      BY <1>2, WriteDoes
    <2>2. following \in Seq(FileNames)
      BY <1>2, FollowingTyped
    <2>3. With(pull[p].hashed, n, c) \in Tables
      BY <2>1, PullIs, WithIsPartial DEF Tables
    <2> HIDE DEF following, n, c
    <2> QED BY <2>1, <2>2, <2>3, PullIs, BecomesTyped
  <1>3. CASE Update(p)
    <2>1. /\ f \in Filings /\ Tail(pull[p].todo) \in Seq(Filings)
          /\ Becomes(p, Tail(pull[p].todo), <<"index">>, None, <<>>, With(pull[p].updates, f, pull[p].hashed))
      BY <1>3, UpdateDoes
    <2>2. With(pull[p].updates, f, pull[p].hashed) \in Partial(Filings, Tables)
      BY <2>1, PullIs, WithIsPartial
    <2>3. <<>> \in Tables /\ <<"index">> \in Seq(FileNames)
      BY EmptyIsPartial DEF Tables, FileNames
    <2> QED BY <2>1, <2>2, <2>3, BecomesTyped
  <1> QED BY <1>1, <1>2, <1>3

\* The first file of a filing is recorded in its type.
LEMMA LastTyped ==
    ASSUME Typed, NEW p \in Pullers, Get(p)
    PROVE  last' \in [Filings -> LastPulls]
  <1> DEFINE f == Head(pull[p].todo)
             n == Head(pull[p].names)
             r == [by |-> p, state |-> "running", alone |-> ~Busy(f, p), first |-> last[f].state = "none"]
  <1>1. CASE n # "index"
    BY <1>1, GetDoes DEF Typed
  <1>2. CASE n = "index"
    <2>1. last' = [last EXCEPT ![f] = r]
      BY <1>2, GetDoes
    <2>2. r \in LastPulls
      BY DEF LastPulls
    <2> HIDE DEF r, f
    <2> QED BY <2>1, <2>2 DEF Typed
  <1> QED BY <1>1, <1>2

\* So is the end of a pull.
LEMMA EndedTyped ==
    ASSUME Typed, NEW p \in Pullers, NEW how \in {"committed", "aborted"}
    PROVE  Ended(p, how) \in [Filings -> LastPulls]
  <1>1. \A f \in Filings : last[f] \in LastPulls
    BY DEF Typed
  <1>2. \A f \in Filings : Ended(p, how)[f] \in LastPulls
    <2> SUFFICES ASSUME NEW f \in Filings PROVE Ended(p, how)[f] \in LastPulls
      OBVIOUS
    <2>1. Ended(p, how)[f] = [by |-> last[f].by, alone |-> last[f].alone, first |-> last[f].first,
                  state |-> IF RunningBy(p, f) THEN how ELSE last[f].state]
      BY EndedIs
    <2> QED BY <1>1, <2>1 DEF LastPulls
  <1>3. Ended(p, how) = [f \in Filings |-> Ended(p, how)[f]]
    BY DEF Ended
  <1> QED BY <1>2, <1>3


\* EXCEPT on the record of the batch.
LEMMA BatchIs ==
    ASSUME NEW b \in Batches, NEW stage \in Stages, NEW list \in Seq(Filings), NEW errors \in BOOLEAN
    PROVE  /\ [b EXCEPT !.stage = stage] \in Batches
           /\ [b EXCEPT !.list = list] \in Batches
           /\ [b EXCEPT !.errors = errors] \in Batches
           /\ [b EXCEPT !.stage = stage, !.list = list] \in Batches
           /\ b.list # <<>> => [b EXCEPT !.list = Tail(@)] \in Batches
  <1>1. b.list # <<>> => Tail(b.list) \in Seq(Filings)
    BY DEF Batches
  <1> DEFINE t == Tail(b.list)
  <1>2. b.list # <<>> => [b EXCEPT !.list = t] \in Batches
    <2> HIDE DEF t
    <2> QED BY <1>1 DEF Batches, t
  <1> QED BY <1>2 DEF Batches

\* A failed step leaves the batch typed.
LEMMA BrokenTyped ==
    ASSUME Typed, NEW to \in Batches
    PROVE  Skip(to) \in Batches /\ Broken(to) \subseteq Batches
  <1>1. [to EXCEPT !.errors = TRUE] \in Batches
    BY DEF Batches
  <1>2. [batch EXCEPT !.stage = "failed"] \in Batches
    BY DEF Batches, Stages, Typed
  <1> QED BY <1>1, <1>2 DEF Skip, Broken

\* The watch lists published filings of the form of the group.
LEMMA ListedIs ==
    ASSUME Typed, NEW g \in DOMAIN Groups
    PROVE  /\ Listed(g) \subseteq Filings /\ \A f \in Listed(g) : Form[f] = Groups[g].form
           /\ {Feed[i] : i \in 1..published} \subseteq Filings
  <1>1. \A i \in 1..published : Feed[i] \in Filings
    BY IngestionAssumption DEF Typed
  <1> QED BY <1>1 DEF Listed

\* INSERT OR IGNORE: new rows are not fetched, old rows stay.
LEMMA WithRowsIs ==
    ASSUME Typed, NEW S \in SUBSET Filings, rows' = WithRows(S)
    PROVE  /\ DOMAIN rows' = DOMAIN rows \union S /\ DOMAIN rows' \subseteq Filings
           /\ \A f \in DOMAIN rows' : rows'[f] \in Tables \union {None}
           /\ \A f \in DOMAIN rows : rows'[f] = rows[f]
           /\ \A f \in DOMAIN rows' : f \notin DOMAIN rows => rows'[f] = None
           /\ Fetched' = Fetched
  <1>1. /\ DOMAIN rows' = DOMAIN rows \union S
        /\ \A f \in DOMAIN rows : rows'[f] = rows[f]
        /\ \A f \in DOMAIN rows' : f \notin DOMAIN rows => rows'[f] = None
    BY DEF WithRows
  <1> QED BY <1>1 DEF Typed, Fetched

\* The commit of a pull sets the rows it updated, and no other.
LEMMA CommitIs ==
    ASSUME Typed, NEW p \in Pullers, Commit(p)
    PROVE  /\ DOMAIN rows' = DOMAIN rows \union DOMAIN pull[p].updates /\ DOMAIN rows' \subseteq Filings
           /\ \A f \in DOMAIN rows' : rows'[f] \in Tables \union {None}
           /\ \A f \in DOMAIN pull[p].updates : rows'[f] = pull[p].updates[f] /\ rows'[f] # None
           /\ \A f \in DOMAIN rows : f \notin DOMAIN pull[p].updates => rows'[f] = rows[f]
           /\ Fetched' = Fetched \union DOMAIN pull[p].updates
  <1>1. rows' = Over(pull[p].updates, rows)
    BY DEF Commit
  <1>2. pull[p].updates \in Partial(Filings, Tables)
    BY <1>1, PullIs
  <1>3. /\ DOMAIN pull[p].updates \subseteq Filings
        /\ \A f \in DOMAIN pull[p].updates : pull[p].updates[f] \in Tables /\ pull[p].updates[f] # None
    BY <1>2, PartialIs, TableIsThere
  <1>4. /\ DOMAIN rows' = DOMAIN rows \union DOMAIN pull[p].updates
        /\ \A f \in DOMAIN pull[p].updates : rows'[f] = pull[p].updates[f]
        /\ \A f \in DOMAIN rows : f \notin DOMAIN pull[p].updates => rows'[f] = rows[f]
    BY <1>1 DEF Over
  <1>5. DOMAIN rows' \subseteq Filings /\ \A f \in DOMAIN rows' : rows'[f] \in Tables \union {None}
    BY <1>3, <1>4 DEF Typed
  <1> HIDE DEF Tables
  <1> QED BY <1>3, <1>4, <1>5 DEF Fetched

\* Initially every variable has its type.
LEMMA TypedInitially == Init => Typed
  <1> SUFFICES ASSUME Init PROVE Typed
    OBVIOUS
  <1>1. batch \in Batches
    BY IngestionAssumption DEF Init, Batches, Stages
  <1>2. last \in [Filings -> LastPulls]
    BY DEF Init, LastPulls
  <1>3. published \in 0..Len(Feed) /\ DOMAIN served = Filings /\ \A f \in Filings : served[f] \in DOMAIN Packages[f]
    BY IngestionAssumption DEF Init
  <1>4. pull \in [Pullers -> Pulls]
    BY NoPullIs DEF Init
  <1>5. DOMAIN rows = {} /\ DOMAIN disk = Filings /\ DOMAIN parse = Parsers /\ DOMAIN shown = DOMAIN Groups
    BY DEF Init
  <1> HIDE DEF Init
  <1> QED BY <1>1, <1>2, <1>3, <1>4, <1>5 DEF Typed

\* Every step keeps the types.
LEMMA TypedKeeps ==
    ASSUME Typed, Packaged, Staged, [Next]_vars
    PROVE  Typed'
  <1> USE DEF external, history, bounds, tables
  <1>1. CASE Publish
    BY <1>1, IngestionAssumption DEF Publish, Typed
  <1>2. CASE \E f \in Filings : Republish(f)
    <2>1. PICK f \in Filings : Republish(f)
      BY <1>2
    <2>2. served[f] \in 1..Len(Packages[f]) /\ served[f] + 1 \in DOMAIN Packages[f]
      BY <2>1, IngestionAssumption DEF Republish, Typed
    <2>3. served' = [served EXCEPT ![f] = served[f] + 1]
      BY <2>1 DEF Republish
    <2>4. DOMAIN served' = Filings /\ \A h \in Filings : served'[h] \in DOMAIN Packages[h]
      BY <2>2, <2>3 DEF Typed
    <2> QED BY <2>1, <2>4 DEF Republish, Typed
  <1>3. CASE \E f \in Filings : Pulld(f)
    <2>1. PICK f \in Filings : Pulld(f)
      BY <1>3
    <2>2. pull' \in [Pullers -> Pulls]
      <3>1. <<f>> \in Seq(Filings) /\ "pulld" \in Pullers
        BY DEF Pullers
      <3> QED BY <2>1, <3>1, StartsTyped DEF Pulld
    <2> QED BY <2>1, <2>2 DEF Pulld, Typed
  <1>4. CASE \E f \in Filings : Xbrld(f)
    BY <1>4 DEF Xbrld, Typed
  <1>5. CASE Watchd
    <2>1. rows' = WithRows({Feed[i] : i \in 1..published})
      BY <1>5 DEF Watchd
    <2>2. {Feed[i] : i \in 1..published} \in SUBSET Filings
      <3>1. 1 \in DOMAIN Groups
        BY IngestionAssumption
      <3> QED BY <3>1, ListedIs
    <2>3. DOMAIN rows' \subseteq Filings /\ \A f \in DOMAIN rows' : rows'[f] \in Tables \union {None}
      BY <2>1, <2>2, WithRowsIs
    <2> QED BY <1>5, <2>3 DEF Watchd, Typed
  <1>6. CASE StartBatch
    <2>1. batch' \in Batches
      BY <1>6, IngestionAssumption DEF StartBatch, Batches, Stages
    <2> QED BY <1>6, <2>1 DEF StartBatch, Typed
  <1>7. CASE WatchGroup
    <2>1. batch.group \in DOMAIN Groups /\ rows' = WithRows(Listed(batch.group))
      BY <1>7 DEF WatchGroup, Typed, Batches
    <2>2. DOMAIN rows' \subseteq Filings /\ \A f \in DOMAIN rows' : rows'[f] \in Tables \union {None}
      BY <2>1, WithRowsIs, ListedIs
    <2>3. batch' \in Batches
      BY <1>7 DEF WatchGroup, Typed, Batches, Stages
    <2>4. DOMAIN shown' = DOMAIN Groups
      BY <1>7 DEF WatchGroup, Typed
    <2> QED BY <1>7, <2>2, <2>3, <2>4 DEF WatchGroup, Typed
  <1>8. CASE WatchFails
    <2>1. [batch EXCEPT !.stage = "done"] \in Batches
      BY DEF Typed, Batches, Stages
    <2>2. batch' \in Batches
      BY <1>8, <2>1, BrokenTyped DEF WatchFails
    <2> QED BY <1>8, <2>2 DEF WatchFails, Typed
  <1>9. CASE PullGroup
    <2>1. PICK s \in ToPull(batch.group) : pull' = [pull EXCEPT !["batch"] = PullOf(s)]
      BY <1>9 DEF PullGroup
    <2>2. batch.group \in DOMAIN Groups
      BY DEF Typed, Batches
    <2>3. s \in Seq(Filings)
      <3> DEFINE S == {f \in OfForm(batch.group) : rows[f] = None}
      <3>1. Newest(s, S, Groups[batch.group].limit)
        BY <2>1, <2>2, ToPullIs
      <3>2. S \in SUBSET Filings /\ Groups[batch.group].limit \in Nat
        BY <2>2, IngestionAssumption DEF OfForm, Typed
      <3> QED BY <3>1, <3>2, NewestIsSeq
    <2>4. pull' \in [Pullers -> Pulls]
      BY <2>1, <2>3, StartsTyped DEF Pullers
    <2> QED BY <1>9, <2>4 DEF PullGroup, Typed
  <1>10. CASE ListGroup
    <2>1. PICK s \in ToParse(batch.group) : batch' = [batch EXCEPT !.stage = "parse", !.list = s]
      BY <1>10 DEF ListGroup
    <2>2. batch.group \in DOMAIN Groups
      BY DEF Typed, Batches
    <2>3. s \in Seq(Filings)
      <3> DEFINE S == {f \in OfForm(batch.group) : rows[f] # None}
      <3>1. Newest(s, S, Groups[batch.group].limit)
        BY <2>1, <2>2, ToParseIs
      <3>2. S \in SUBSET Filings /\ Groups[batch.group].limit \in Nat
        BY <2>2, IngestionAssumption DEF OfForm, Typed
      <3> QED BY <3>1, <3>2, NewestIsSeq
    <2>4. batch' \in Batches
      BY <2>1, <2>3 DEF Typed, Batches, Stages
    <2> QED BY <1>10, <2>4 DEF ListGroup, Typed
  <1>11. CASE ParseListed
    BY <1>11 DEF ParseListed, Typed
  <1>12. CASE NextGroup
    <2>1. batch.group \in 1..Len(Groups) /\ Len(Groups) \in Nat /\ DOMAIN Groups = 1..Len(Groups)
      BY IngestionAssumption DEF Typed, Batches
    <2>2. batch' \in Batches
      <3>1. CASE batch.group < Len(Groups)
        <4>1. batch' = [batch EXCEPT !.stage = "watch", !.group = batch.group + 1]
          BY <1>12, <3>1 DEF NextGroup
        <4>2. batch.group + 1 \in DOMAIN Groups
          BY <2>1, <3>1
        <4> QED BY <4>1, <4>2 DEF Typed, Batches, Stages
      <3>2. CASE ~(batch.group < Len(Groups))
        BY <1>12, <3>2 DEF NextGroup, Typed, Batches, Stages
      <3> QED BY <3>1, <3>2
    <2> QED BY <1>12, <2>2 DEF NextGroup, Typed
  <1>13. CASE \E p \in Pullers : Get(p)
    <2>1. PICK p \in Pullers : Get(p)
      BY <1>13
    <2>2. pull' \in [Pullers -> Pulls] /\ last' \in [Filings -> LastPulls]
      BY <2>1, PullTyped, LastTyped
    <2>3. DOMAIN disk' = Filings /\ UNCHANGED <<published, served, rows, parse, batch, shown>>
      BY <2>1, GetDoes DEF Typed
    <2> QED BY <2>2, <2>3 DEF Typed
  <1>14. CASE \E p \in Pullers : Write(p)
    <2>1. PICK p \in Pullers : Write(p)
      BY <1>14
    <2>2. pull' \in [Pullers -> Pulls]
      BY <2>1, PullTyped
    <2>3. DOMAIN disk' = Filings /\ UNCHANGED <<published, served, rows, parse, batch, shown, last>>
      BY <2>1, WriteDoes DEF Typed
    <2> QED BY <2>2, <2>3 DEF Typed
  <1>15. CASE \E p \in Pullers : Update(p)
    <2>1. PICK p \in Pullers : Update(p)
      BY <1>15
    <2>2. pull' \in [Pullers -> Pulls]
      BY <2>1, PullTyped
    <2>3. UNCHANGED <<published, served, rows, disk, parse, batch, shown, last>>
      BY <2>1, UpdateDoes
    <2> QED BY <2>2, <2>3 DEF Typed
  <1>16. CASE \E p \in Pullers : Commit(p)
    <2>1. PICK p \in Pullers : Commit(p)
      BY <1>16
    <2>2. DOMAIN rows' \subseteq Filings /\ \A f \in DOMAIN rows' : rows'[f] \in Tables \union {None}
      BY <2>1, CommitIs
    <2>3. last' \in [Filings -> LastPulls]
      BY <2>1, EndedTyped DEF Commit
    <2>4. batch' \in Batches
      BY <2>1 DEF Commit, Typed, Batches, Stages
    <2>5. pull' \in [Pullers -> Pulls]
      <3> HIDE DEF Pulls
      <3> QED BY <2>1, NoPullIs DEF Commit, Typed
    <2> QED BY <2>1, <2>2, <2>3, <2>4, <2>5 DEF Commit, Typed
  <1>17. CASE \E p \in Pullers : PullFails(p)
    <2>1. PICK p \in Pullers : PullFails(p)
      BY <1>17
    <2>2. last' \in [Filings -> LastPulls]
      BY <2>1, EndedTyped DEF PullFails
    <2>3. [batch EXCEPT !.stage = "done"] \in Batches /\ batch \in Batches
      BY DEF Typed, Batches, Stages
    <2>4. batch' \in Batches
      BY <2>1, <2>3, BrokenTyped DEF PullFails
    <2>5. pull' \in [Pullers -> Pulls]
      BY <2>1, NoPullIs DEF PullFails, Typed
    <2> QED BY <2>1, <2>2, <2>4, <2>5 DEF PullFails, Typed
  <1>18. CASE \E q \in Parsers : Read(q)
    BY <1>18 DEF Read, Typed
  <1>19. CASE \E q \in Parsers : Store(q) \/ ParseFails(q)
    <2>1. PICK q \in Parsers : Store(q) \/ ParseFails(q)
      BY <1>19
    <2>2. batch \in Batches /\ (q = "batch" => [batch EXCEPT !.list = Tail(@)] \in Batches)
      <3>1. q = "batch" => batch.list # <<>>
        BY <2>1 DEF Store, ParseFails, Staged
      <3>2. batch \in Batches /\ "idle" \in Stages /\ <<>> \in Seq(Filings)
        BY DEF Typed, Stages
      <3> QED BY <3>1, <3>2, BatchIs
    <2>3. batch' \in Batches
      BY <2>1, <2>2, BrokenTyped DEF Store, ParseFails
    <2>4. DOMAIN parse' = Parsers
      BY <2>1 DEF Store, ParseFails, Typed
    <2>5. UNCHANGED <<published, served, rows, disk, pull, shown, last>>
      BY <2>1 DEF Store, ParseFails
    <2> QED BY <2>3, <2>4, <2>5 DEF Typed
  <1>20. CASE UNCHANGED vars
    BY <1>20 DEF vars, Typed
  <1> QED BY <1>1, <1>2, <1>3, <1>4, <1>5, <1>6, <1>7, <1>8, <1>9, <1>10, <1>11, <1>12, <1>13,
             <1>14, <1>15, <1>16, <1>17, <1>18, <1>19, <1>20 DEF Next


-----------------------------------------------------------------------------
(* Packages are whole *)

\* Head and Tail by position.
LEMMA HeadTail ==
    ASSUME NEW S, NEW s \in Seq(S), s # <<>>
    PROVE  /\ Len(s) \in Nat \ {0} /\ DOMAIN s = 1..Len(s) /\ Head(s) = s[1] /\ Tail(s) \in Seq(S)
           /\ DOMAIN Tail(s) = 1..(Len(s) - 1)
           /\ \A i \in DOMAIN Tail(s) : i + 1 \in DOMAIN s /\ Tail(s)[i] = s[i + 1]
           /\ \A i \in DOMAIN s : i # 1 => i - 1 \in DOMAIN Tail(s) /\ Tail(s)[i - 1] = s[i]
  OBVIOUS

\* When no name is left, the package is whole.
LEMMA PackedIsWhole ==
    ASSUME NEW hashed, Packs(<<>>, hashed)
    PROVE  Whole(hashed)
  BY DEF Packs, Whole

\* Each file brings the package nearer to whole: the index brings every name.
LEMMA PacksFollowing ==
    ASSUME NEW names \in Seq(FileNames), NEW hashed, Packs(names, hashed), names # <<>>,
           NEW n, n = Head(names), NEW c, names = <<"index">> => c \in Seq(Names)
    PROVE  Packs(Following(names, n, c), With(hashed, n, c))
  <1> DEFINE more == With(hashed, n, c)
  <1>1. /\ DOMAIN more = DOMAIN hashed \union {n} /\ more[n] = c
        /\ \A x \in DOMAIN hashed : x # n => more[x] = hashed[x]
    BY DEF With, Over
  <1> HIDE DEF more
  <1>2. CASE names = <<"index">> /\ DOMAIN hashed = {}
    <2>1. n = "index" /\ c \in Seq(Names)
      BY <1>2
    <2>2. Following(names, n, c) = ArtifactNames(c)
      BY <2>1 DEF Following
    <2>3. \A i \in DOMAIN ArtifactNames(c) : ArtifactNames(c)[i] # "index"
      <3>1. ArtifactNames(c) \in Seq(Names)
        BY <2>1, ArtifactNamesAre
      <3> QED BY <3>1 DEF Names
    <2> QED BY <1>1, <1>2, <2>1, <2>2, <2>3, ArtifactNamesAre DEF Packs, more
  <1>3. CASE ~(names = <<"index">> /\ DOMAIN hashed = {})
    <2>1. /\ names \in Seq(Names) /\ \A i, j \in DOMAIN names : names[i] = names[j] => i = j
          /\ \A i \in DOMAIN names : names[i] \notin DOMAIN hashed
          /\ "index" \in DOMAIN hashed /\ hashed["index"] \in Seq(Names)
          /\ \A k \in DOMAIN hashed["index"] : Artifact(hashed["index"][k]) =>
               \/ hashed["index"][k] \in DOMAIN hashed
               \/ \E i \in DOMAIN names : names[i] = hashed["index"][k]
      BY <1>3 DEF Packs
    <2> DEFINE t == Tail(names)
    <2>2. /\ n = names[1] /\ t \in Seq(Names) /\ 1 \in DOMAIN names
          /\ \A i \in DOMAIN t : i \in Int /\ i + 1 \in DOMAIN names /\ i + 1 # 1 /\ t[i] = names[i + 1]
          /\ \A i \in DOMAIN names : i # 1 => i - 1 \in DOMAIN t /\ t[i - 1] = names[i]
      BY <2>1, HeadTail
    <2>3. n \in Names /\ n # "index" /\ n \notin DOMAIN hashed
      BY <2>1, <2>2 DEF Names
    <2>4. Following(names, n, c) = t
      BY <2>3 DEF Following
    <2> HIDE DEF t
    <2>5. \A i, j \in DOMAIN t : t[i] = t[j] => i = j
      <3> SUFFICES ASSUME NEW i \in DOMAIN t, NEW j \in DOMAIN t, t[i] = t[j] PROVE i = j
        OBVIOUS
      <3>1. i + 1 = j + 1 /\ i \in Int /\ j \in Int
        BY <2>1, <2>2
      <3> QED BY <3>1
    <2>6. \A i \in DOMAIN t : t[i] \notin DOMAIN more
      BY <1>1, <2>1, <2>2
    <2>7. "index" \in DOMAIN more /\ more["index"] = hashed["index"]
      BY <1>1, <2>1, <2>3
    <2>8. ASSUME NEW k \in DOMAIN more["index"], Artifact(more["index"][k])
          PROVE  \/ more["index"][k] \in DOMAIN more
                 \/ \E i \in DOMAIN t : t[i] = more["index"][k]
      <3> DEFINE x == hashed["index"][k]
      <3>1. x \in DOMAIN hashed \/ \E i \in DOMAIN names : names[i] = x
        BY <2>1, <2>7, <2>8
      <3>2. ASSUME NEW i \in DOMAIN names, names[i] = x
            PROVE  x = n \/ \E j \in DOMAIN t : t[j] = x
        <4>1. CASE i = 1
          BY <2>2, <3>2, <4>1
        <4>2. CASE i # 1
          <5>1. i - 1 \in DOMAIN t /\ t[i - 1] = x
            BY <2>2, <3>2, <4>2
          <5> QED BY <5>1
        <4> QED BY <4>1, <4>2
      <3> HIDE DEF x
      <3>3. x \in DOMAIN more \/ \E i \in DOMAIN t : t[i] = x
        BY <1>1, <3>1, <3>2
      <3> QED BY <2>7, <3>3 DEF x
    <2> QED BY <2>1, <2>2, <2>4, <2>5, <2>6, <2>7, <2>8 DEF Packs, more
  <1> QED BY <1>2, <1>3

\* A step that leaves pulls and rows alone leaves them whole.
LEMMA PackagedFrame ==
    ASSUME Packaged, UNCHANGED <<pull, rows>>
    PROVE  Packaged'
  BY DEF Packaged, Packs, Whole

\* A pull that starts has hashed nothing.
LEMMA StartsPackaged ==
    ASSUME Typed, Packaged, NEW p \in Pullers, NEW s, pull' = [pull EXCEPT ![p] = PullOf(s)], rows' = rows
    PROVE  Packaged'
  <1>1. /\ pull'[p].names = <<"index">> /\ DOMAIN pull'[p].hashed = {} /\ pull'[p].got = None
        /\ DOMAIN pull'[p].updates = {} /\ \A o \in Pullers : o # p => pull'[o] = pull[o]
    BY DEF Typed, PullOf
  <1>2. Packs(pull'[p].names, pull'[p].hashed)
    BY <1>1 DEF Packs
  <1>3. \A f \in DOMAIN rows : rows[f] # None => Whole(rows[f])
    BY DEF Packaged
  <1>4. ASSUME NEW o \in Pullers
        PROVE  /\ pull'[o].todo # <<>> => Packs(pull'[o].names, pull'[o].hashed)
               /\ pull'[o].got # None /\ pull'[o].names = <<"index">> => pull'[o].got \in Seq(Names)
               /\ \A f \in DOMAIN pull'[o].updates : Whole(pull'[o].updates[f])
    <2>1. CASE o = p
      BY <1>1, <1>2, <2>1
    <2>2. CASE o # p
      BY <1>1, <1>4, <2>2 DEF Packaged
    <2> QED BY <2>1, <2>2
  <1> QED BY <1>3, <1>4 DEF Packaged, Whole

\* A step of p that leaves it packaged keeps what is packaged.
LEMMA BecomesPackaged ==
    ASSUME Typed, Packaged, NEW p \in Pullers, NEW todo, NEW names, NEW got, NEW hashed, NEW updates,
           Becomes(p, todo, names, got, hashed, updates), rows' = rows,
           Packs(names, hashed), got # None /\ names = <<"index">> => got \in Seq(Names),
           \A f \in DOMAIN updates : Whole(updates[f])
    PROVE  Packaged'
  <1>1. /\ pull'[p].names = names /\ pull'[p].got = got /\ pull'[p].hashed = hashed
        /\ pull'[p].updates = updates /\ \A o \in Pullers : o # p => pull'[o] = pull[o]
    BY BecomesIs
  <1>2. \A f \in DOMAIN rows : rows[f] # None => Whole(rows[f])
    BY DEF Packaged
  <1>3. ASSUME NEW o \in Pullers
        PROVE  /\ pull'[o].todo # <<>> => Packs(pull'[o].names, pull'[o].hashed)
               /\ pull'[o].got # None /\ pull'[o].names = <<"index">> => pull'[o].got \in Seq(Names)
               /\ \A f \in DOMAIN pull'[o].updates : Whole(pull'[o].updates[f])
    <2>1. CASE o = p
      BY <1>1, <2>1
    <2>2. CASE o # p
      BY <1>1, <1>3, <2>2 DEF Packaged
    <2> QED BY <2>1, <2>2
  <1> QED BY <1>2, <1>3 DEF Packaged, Whole

\* Every step keeps what is hashed packaged.
LEMMA PackagedKeeps ==
    ASSUME Typed, Packaged, [Next]_vars
    PROVE  Packaged'
  <1>1. CASE \E p \in Pullers : Get(p)
    <2>1. PICK p \in Pullers : Get(p)
      BY <1>1
    <2> DEFINE f == Head(pull[p].todo)
               n == Head(pull[p].names)
    <2>2. PICK c \in Bytes : /\ n = "index" => c \in Seq(Names)
                             /\ Becomes(p, pull[p].todo, pull[p].names, c, pull[p].hashed, pull[p].updates)
      BY <2>1, GetDoes
    <2>3. pull[p].todo # <<>> /\ rows' = rows
      BY <2>1, GetDoes
    <2>4. pull[p].names = <<"index">> => n = "index"
      OBVIOUS
    <2> QED BY <2>2, <2>3, <2>4, BecomesPackaged DEF Packaged
  <1>2. CASE \E p \in Pullers : Write(p)
    <2>1. PICK p \in Pullers : Write(p)
      BY <1>2
    <2> DEFINE names == pull[p].names
               n == Head(names)
               c == pull[p].got
    <2>2. /\ pull[p].todo # <<>> /\ names # <<>> /\ c # None /\ rows' = rows
          /\ Becomes(p, pull[p].todo, Following(names, n, c), None, With(pull[p].hashed, n, c), pull[p].updates)
      BY <2>1, WriteDoes
    <2>3. Packs(Following(names, n, c), With(pull[p].hashed, n, c))
      <3>1. names \in Seq(FileNames)
        BY <2>2, PullIs
      <3>2. Packs(names, pull[p].hashed) /\ (names = <<"index">> => c \in Seq(Names))
        BY <2>2 DEF Packaged
      <3> HIDE DEF names, c
      <3> QED BY <2>2, <3>1, <3>2, PacksFollowing
    <2>4. \A f \in DOMAIN pull[p].updates : Whole(pull[p].updates[f])
      BY <2>2 DEF Packaged
    <2> HIDE DEF names, c, n
    <2> QED BY <2>2, <2>3, <2>4, BecomesPackaged
  <1>3. CASE \E p \in Pullers : Update(p)
    <2>1. PICK p \in Pullers : Update(p)
      BY <1>3
    <2> DEFINE f == Head(pull[p].todo)
               updates == With(pull[p].updates, f, pull[p].hashed)
    <2>2. /\ pull[p].todo # <<>> /\ pull[p].names = <<>> /\ rows' = rows
          /\ Becomes(p, Tail(pull[p].todo), <<"index">>, None, <<>>, updates)
      BY <2>1, UpdateDoes
    <2>3. Whole(pull[p].hashed)
      BY <2>2, PackedIsWhole DEF Packaged
    <2>4. \A h \in DOMAIN updates : Whole(updates[h])
      <3>1. /\ DOMAIN updates = DOMAIN pull[p].updates \union {f} /\ updates[f] = pull[p].hashed
            /\ \A h \in DOMAIN pull[p].updates : h # f => updates[h] = pull[p].updates[h]
        BY DEF With, Over
      <3> HIDE DEF updates
      <3> QED BY <2>2, <2>3, <3>1 DEF Packaged
    <2>5. Packs(<<"index">>, <<>>)
      BY DEF Packs
    <2> HIDE DEF updates
    <2> QED BY <2>2, <2>4, <2>5, BecomesPackaged
  <1>4. CASE \E p \in Pullers : Commit(p)
    <2>1. PICK p \in Pullers : Commit(p)
      BY <1>4
    <2>2. pull' = [pull EXCEPT ![p] = NoPull]
      BY <2>1 DEF Commit
    <2>3. \A f \in DOMAIN rows' : rows'[f] # None => Whole(rows'[f])
      BY <2>1, <2>2, CommitIs DEF Packaged
    <2>4. \A o \in Pullers : pull'[o] = NoPull \/ pull'[o] = pull[o]
      BY <2>2 DEF Typed
    <2> QED BY <2>3, <2>4, NoPullIs DEF Packaged, Whole
  <1>5. CASE \E p \in Pullers : PullFails(p)
    <2>1. PICK p \in Pullers : PullFails(p)
      BY <1>5
    <2>2. pull' = [pull EXCEPT ![p] = NoPull] /\ rows' = rows
      BY <2>1 DEF PullFails
    <2>3. \A o \in Pullers : pull'[o] = NoPull \/ pull'[o] = pull[o]
      BY <2>2 DEF Typed
    <2> QED BY <2>2, <2>3, NoPullIs DEF Packaged, Whole
  <1>6. CASE WatchGroup \/ Watchd
    <2>1. PICK S \in SUBSET Filings : rows' = WithRows(S)
      <3>1. CASE WatchGroup
        <4>1. batch.group \in DOMAIN Groups
          BY DEF Typed, Batches
        <4> QED BY <3>1, <4>1, ListedIs DEF WatchGroup
      <3>2. CASE Watchd
        <4>1. 1 \in DOMAIN Groups
          BY IngestionAssumption
        <4> QED BY <3>2, <4>1, ListedIs DEF Watchd
      <3> QED BY <1>6, <3>1, <3>2
    <2>2. pull' = pull
      BY <1>6 DEF WatchGroup, Watchd
    <2>3. \A f \in DOMAIN rows' : rows'[f] # None => Whole(rows'[f])
      BY <2>1, WithRowsIs DEF Packaged
    <2> QED BY <2>2, <2>3 DEF Packaged, Whole
  <1>7. CASE PullGroup \/ \E f \in Filings : Pulld(f)
    <2>1. rows' = rows /\ \E p \in Pullers : \E s : pull' = [pull EXCEPT ![p] = PullOf(s)]
      BY <1>7 DEF PullGroup, Pulld, Pullers
    <2> QED BY <2>1, StartsPackaged
  <1>8. CASE \/ Publish \/ (\E f \in Filings : Republish(f) \/ Xbrld(f))
             \/ StartBatch \/ WatchFails \/ ListGroup \/ ParseListed \/ NextGroup
             \/ (\E q \in Parsers : Read(q) \/ Store(q) \/ ParseFails(q)) \/ UNCHANGED vars
    <2>1. UNCHANGED <<pull, rows>>
      BY <1>8 DEF Publish, Republish, Xbrld, StartBatch, WatchFails, ListGroup, ParseListed, NextGroup,
                  Read, Store, ParseFails, vars
    <2> QED BY <2>1, PackagedFrame
  <1> QED BY <1>1, <1>2, <1>3, <1>4, <1>5, <1>6, <1>7, <1>8 DEF Next


-----------------------------------------------------------------------------
(* Pulls that overlap no other *)

\* What says nothing of filing h leaves it as it was.
LEMMA Unmoved ==
    ASSUME NEW h \in Filings, Intact(h), Firsts(h), last'[h] = last[h], disk'[h] = disk[h],
           h \in DOMAIN rows => h \in DOMAIN rows' /\ rows'[h] = rows[h],
           h \in DOMAIN rows' /\ rows'[h] # None => h \in DOMAIN rows,
           \A o \in Pullers :
             /\ Mid(o, h)' <=> Mid(o, h)
             /\ Updated(o, h)' <=> Updated(o, h)
             /\ Mid(o, h) => pull'[o].hashed = pull[o].hashed
             /\ Updated(o, h) => pull'[o].updates[h] = pull[o].updates[h]
    PROVE  Intact(h)' /\ Firsts(h)'
  <1>1. Intact(h)'
    BY DEF Intact, Agrees, RunningBy, Alone
  <1>2. Firsts(h)'
    BY DEF Firsts, RunningBy, Alone, Once
  <1> QED BY <1>1, <1>2

\* One pull at most is alone with a filing.
LEMMA OnlyOne ==
    ASSUME NEW h \in Filings, NEW p \in Pullers, NEW o \in Pullers, RunningBy(p, h), RunningBy(o, h)
    PROVE  p = o
  BY DEF RunningBy

\* The index is first in the names, or not in them.
LEMMA IndexFirst ==
    ASSUME Typed, Packaged, NEW p \in Pullers, pull[p].todo # <<>>, pull[p].names # <<>>
    PROVE  /\ Head(pull[p].names) = "index" => pull[p].names = <<"index">> /\ DOMAIN pull[p].hashed = {}
           /\ Head(pull[p].names) # "index" =>
                /\ pull[p].names # <<"index">> /\ Tail(pull[p].names) # <<"index">>
                /\ Head(pull[p].names) \notin DOMAIN pull[p].hashed
  <1> DEFINE names == pull[p].names
             hashed == pull[p].hashed
  <1>1. Packs(names, hashed)
    BY DEF Packaged
  <1>2. CASE names = <<"index">> /\ DOMAIN hashed = {}
    BY <1>2
  <1>3. CASE names \in Seq(Names) /\ \A i \in DOMAIN names : names[i] \notin DOMAIN hashed
    <2>1. Head(names) = names[1] /\ 1 \in DOMAIN names /\ Head(names) \in Names /\ Tail(names) \in Seq(Names)
      BY <1>3, HeadTail
    <2>2. "index" \notin Names /\ <<"index">> \notin Seq(Names)
      <3>1. "index" \notin Names
        BY DEF Names
      <3>2. <<"index">>[1] = "index" /\ 1 \in DOMAIN <<"index">>
        OBVIOUS
      <3>3. ASSUME <<"index">> \in Seq(Names) PROVE FALSE
        BY <3>1, <3>2, <3>3
      <3> QED BY <3>1, <3>3
    <2> QED BY <1>3, <2>1, <2>2
  <1> QED BY <1>1, <1>2, <1>3 DEF Packs

\* A step of p among the files of f disturbs no other filing.
LEMMA OthersUnmoved ==
    ASSUME Typed, Undisturbed, FirstPull, NEW p \in Pullers, NEW f, f = Head(pull[p].todo),
           NEW h \in Filings, h # f,
           pull'[p].todo = pull[p].todo, pull'[p].updates = pull[p].updates,
           \A o \in Pullers : o # p => pull'[o] = pull[o],
           last'[h] = last[h], disk'[h] = disk[h], rows' = rows
    PROVE  Intact(h)' /\ Firsts(h)'
  <1>1. \A o \in Pullers : /\ Mid(o, h)' <=> Mid(o, h)
                           /\ Updated(o, h)' <=> Updated(o, h)
                           /\ Mid(o, h) => pull'[o].hashed = pull[o].hashed
                           /\ Updated(o, h) => pull'[o].updates[h] = pull[o].updates[h]
    <2> SUFFICES ASSUME NEW o \in Pullers
                 PROVE  /\ Mid(o, h)' <=> Mid(o, h)
                        /\ Updated(o, h)' <=> Updated(o, h)
                        /\ Mid(o, h) => pull'[o].hashed = pull[o].hashed
                        /\ Updated(o, h) => pull'[o].updates[h] = pull[o].updates[h]
      OBVIOUS
    <2>1. CASE o = p
      BY <2>1 DEF Mid, Updated
    <2>2. CASE o # p
      BY <2>2 DEF Mid, Updated
    <2> QED BY <2>1, <2>2
  <1> QED BY <1>1, Unmoved DEF Undisturbed, FirstPull

\* A pull among the files of f writes what it hashed, and disturbs only itself.
LEMMA KeepsWriting ==
    ASSUME NEW f \in Filings, Intact(f), Firsts(f), NEW p \in Pullers, Mid(p, f), Mid(p, f)',
           last'[f] = last[f], rows' = rows, pull'[p].updates = pull[p].updates,
           \A o \in Pullers : o # p => pull'[o] = pull[o],
           Agrees(pull[p].hashed, f) => Agrees(pull[p].hashed, f)'
    PROVE  Intact(f)' /\ Firsts(f)'
  <1>1. \A o \in Pullers : (Mid(o, f)' <=> Mid(o, f)) /\ (Updated(o, f)' <=> Updated(o, f))
    BY DEF Mid, Updated
  <1>2. /\ Alone(f)' <=> Alone(f)
        /\ \A o \in Pullers : RunningBy(o, f)' <=> RunningBy(o, f)
    BY DEF Alone, RunningBy
  <1>3. \A o \in Pullers : RunningBy(o, f)' => Mid(o, f)' \/ Updated(o, f)'
    BY <1>1, <1>2 DEF Intact
  <1>4. ASSUME Alone(f)'
        PROVE  /\ RunningBy(p, f) /\ Agrees(pull[p].hashed, f)
               /\ \A o \in Pullers : RunningBy(o, f) => o = p
               /\ \A o \in Pullers : Mid(o, f)' => o = p
    <2>1. /\ \A o \in Pullers : Mid(o, f) => RunningBy(o, f)
          /\ RunningBy(p, f) /\ Agrees(pull[p].hashed, f)
      BY <1>2, <1>4 DEF Intact
    <2> QED BY <1>1, <2>1 DEF RunningBy
  <1>5. ASSUME Alone(f)'
        PROVE  /\ \A o \in Pullers : Mid(o, f)' => RunningBy(o, f)' /\ Agrees(pull[o].hashed, f)'
               /\ \A o \in Pullers : ~(Updated(o, f)' /\ RunningBy(o, f)' /\ ~Mid(o, f)')
               /\ last'[f].state # "committed"
    BY <1>2, <1>4, <1>5 DEF RunningBy
  <1>6. Intact(f)'
    BY <1>3, <1>5 DEF Intact
  <1>7. Firsts(f)'
    BY <1>1, <1>2 DEF Firsts, Once
  <1> QED BY <1>6, <1>7

\* Truncating a file makes who else pulls the filing no longer alone.
LEMMA GetKeeps ==
    ASSUME Typed, Packaged, Undisturbed, FirstPull, NEW p \in Pullers, Get(p), NEW h \in Filings
    PROVE  Intact(h)' /\ Firsts(h)'
  <1>0. PICK f \in Filings : f = Head(pull[p].todo)
    BY GetDoes
  <1> DEFINE n == Head(pull[p].names)
  <1>1. /\ pull[p].todo # <<>> /\ pull[p].names # <<>> /\ pull[p].got = None /\ f \in Filings
        /\ disk' = [disk EXCEPT ![f] = With(disk[f], n, Truncated)]
        /\ n # "index" => last' = last
        /\ n = "index" => last' = [last EXCEPT ![f] =
             [by |-> p, state |-> "running", alone |-> ~Busy(f, p), first |-> last[f].state = "none"]]
        /\ rows' = rows
    BY <1>0, GetDoes
  <1>2. PICK c \in Bytes : Becomes(p, pull[p].todo, pull[p].names, c, pull[p].hashed, pull[p].updates)
    BY GetDoes
  <1>3. /\ pull'[p].todo = pull[p].todo /\ pull'[p].names = pull[p].names /\ pull'[p].got = c
        /\ pull'[p].hashed = pull[p].hashed /\ pull'[p].updates = pull[p].updates
        /\ \A o \in Pullers : o # p => pull'[o] = pull[o]
    BY <1>2, BecomesIs
  <1>4. c # None
    BY NoneIsNoValue
  <1>5. Mid(p, f)'
    BY <1>0, <1>1, <1>3, <1>4 DEF Mid
  <1>6. CASE h # f
    <2>1. last'[h] = last[h] /\ disk'[h] = disk[h]
      BY <1>1, <1>6 DEF Typed
    <2> QED BY <1>0, <1>1, <1>3, <1>6, <2>1, OthersUnmoved
  <1>7. CASE h = f /\ n # "index"
    <2>1. Mid(p, f)
      BY <1>0, <1>1, <1>7, IndexFirst DEF Mid
    <2>2. Agrees(pull[p].hashed, f) => Agrees(pull[p].hashed, f)'
      <3>1. n \notin DOMAIN pull[p].hashed
        BY <1>1, <1>7, IndexFirst
      <3>2. /\ disk'[f] = With(disk[f], n, Truncated) /\ DOMAIN disk'[f] = DOMAIN disk[f] \union {n}
            /\ \A x \in DOMAIN disk[f] : x # n => disk'[f][x] = disk[f][x]
        BY <1>1 DEF Typed, With, Over
      <3> QED BY <1>3, <3>1, <3>2 DEF Agrees
    <2>3. last'[f] = last[f]
      BY <1>1, <1>7
    <2> QED BY <1>1, <1>3, <1>5, <1>7, <2>1, <2>2, <2>3, KeepsWriting DEF Undisturbed, FirstPull
  <1>8. CASE h = f /\ n = "index"
    <2>1. /\ last'[f].by = p /\ last'[f].state = "running" /\ (last'[f].alone = TRUE <=> ~Busy(f, p))
          /\ last'[f].first = TRUE <=> last[f].state = "none"
      <3> DEFINE r == [by |-> p, state |-> "running", alone |-> ~Busy(f, p), first |-> last[f].state = "none"]
      <3>1. last'[f] = r
        BY <1>1, <1>8 DEF Typed
      <3>2. r.by = p /\ r.state = "running" /\ r.alone = ~Busy(f, p) /\ r.first = (last[f].state = "none")
        OBVIOUS
      <3> QED BY <3>1, <3>2
    <2>2. \A o \in Pullers : RunningBy(o, f)' <=> o = p
      BY <2>1 DEF RunningBy
    <2>3. \A o \in Pullers : o # p => (Mid(o, f)' <=> Mid(o, f)) /\ (Updated(o, f)' <=> Updated(o, f))
      BY <1>3 DEF Mid, Updated
    <2>4. Alone(f)' => \A o \in Pullers : Mid(o, f)' => o = p
      BY <2>1, <2>3 DEF Alone, Busy, Mid
    <2>5. Agrees(pull[p].hashed, f)'
      BY <1>1, <1>3, <1>8, IndexFirst DEF Agrees
    <2>6. Intact(f)'
      <3>1. \A o \in Pullers : RunningBy(o, f)' => Mid(o, f)' \/ Updated(o, f)'
        BY <1>5, <2>2
      <3>2. ASSUME Alone(f)'
            PROVE  /\ \A o \in Pullers : Mid(o, f)' => RunningBy(o, f)' /\ Agrees(pull[o].hashed, f)'
                   /\ \A o \in Pullers : ~(Updated(o, f)' /\ RunningBy(o, f)' /\ ~Mid(o, f)')
                   /\ last'[f].state # "committed"
        BY <1>5, <2>1, <2>2, <2>4, <2>5, <3>2
      <3> QED BY <3>1, <3>2 DEF Intact
    <2>7. ASSUME Once(f)'
          PROVE  /\ Alone(f)' /\ \A o \in Pullers : Mid(o, f)' \/ Updated(o, f)' => RunningBy(o, f)'
                 /\ ~(f \in DOMAIN rows' /\ rows'[f] # None)
      <3>1. last[f].state = "none" /\ Firsts(f)
        BY <1>1, <2>1, <2>7 DEF Once, FirstPull
      <3>2. /\ \A o \in Pullers : ~Mid(o, f) /\ ~Updated(o, f)
            /\ ~(f \in DOMAIN rows /\ rows[f] # None)
        BY <3>1 DEF Firsts, RunningBy
      <3>3. Alone(f)'
        BY <2>1, <3>2 DEF Alone, Busy, Mid
      <3> QED BY <1>1, <2>2, <2>3, <3>2, <3>3
    <2>8. Firsts(f)'
      BY <2>1, <2>7 DEF Firsts
    <2> QED BY <1>8, <2>6, <2>8
  <1> QED BY <1>6, <1>7, <1>8

\* Writing a file hashes what is on disk.
LEMMA WriteKeeps ==
    ASSUME Typed, Packaged, Undisturbed, FirstPull, NEW p \in Pullers, Write(p), NEW h \in Filings
    PROVE  Intact(h)' /\ Firsts(h)'
  <1>0. PICK f \in Filings : f = Head(pull[p].todo)
    BY WriteDoes
  <1> DEFINE n == Head(pull[p].names)
             c == pull[p].got
  <1>1. /\ pull[p].todo # <<>> /\ pull[p].names # <<>> /\ c # None /\ f \in Filings
        /\ Becomes(p, pull[p].todo, Following(pull[p].names, n, c), None,
                   With(pull[p].hashed, n, c), pull[p].updates)
        /\ disk' = [disk EXCEPT ![f] = With(disk[f], n, c)]
        /\ rows' = rows /\ last' = last
    BY <1>0, WriteDoes DEF history
  <1>2. /\ pull'[p].todo = pull[p].todo /\ pull'[p].names = Following(pull[p].names, n, c)
        /\ pull'[p].hashed = With(pull[p].hashed, n, c) /\ pull'[p].updates = pull[p].updates
        /\ \A o \in Pullers : o # p => pull'[o] = pull[o]
    BY <1>1, BecomesIs
  <1>3. CASE h # f
    <2>1. last'[h] = last[h] /\ disk'[h] = disk[h]
      BY <1>1, <1>3 DEF Typed
    <2> QED BY <1>0, <1>1, <1>2, <1>3, <2>1, OthersUnmoved
  <1>4. CASE h = f
    <2>1. Mid(p, f)
      BY <1>0, <1>1 DEF Mid
    <2>2. Mid(p, f)'
      <3>1. Following(pull[p].names, n, c) # <<"index">>
        <4>1. CASE n = "index"
          <5>1. c \in Seq(Names)
            BY <1>1, <4>1, IndexFirst DEF Packaged
          <5> HIDE DEF c
          <5> QED BY <4>1, <5>1, ArtifactNamesAre DEF Following
        <4>2. CASE n # "index"
          BY <1>1, <4>2, IndexFirst DEF Following
        <4> QED BY <4>1, <4>2
      <3> QED BY <1>0, <1>1, <1>2, <3>1 DEF Mid
    <2>3. Agrees(pull[p].hashed, f) => Agrees(pull[p].hashed, f)'
      <3> DEFINE more == With(pull[p].hashed, n, c)
      <3>1. /\ disk'[f] = With(disk[f], n, c) /\ DOMAIN disk'[f] = DOMAIN disk[f] \union {n}
            /\ disk'[f][n] = c
            /\ \A x \in DOMAIN disk[f] : x # n => disk'[f][x] = disk[f][x]
        BY <1>1 DEF Typed, With, Over
      <3>2. /\ DOMAIN more = DOMAIN pull[p].hashed \union {n} /\ more[n] = c
            /\ \A x \in DOMAIN pull[p].hashed : x # n => more[x] = pull[p].hashed[x]
        BY DEF With, Over
      <3>3. pull'[p].hashed = more
        BY <1>2
      <3> HIDE DEF more, c, n
      <3> QED BY <3>1, <3>2, <3>3 DEF Agrees
    <2>4. last'[f] = last[f]
      BY <1>1
    <2> QED BY <1>1, <1>2, <1>4, <2>1, <2>2, <2>3, <2>4, KeepsWriting DEF Undisturbed, FirstPull
  <1> QED BY <1>3, <1>4

\* The UPDATE moves what is hashed to the transaction.
LEMMA UpdateKeeps ==
    ASSUME Typed, Packaged, Undisturbed, FirstPull, NEW p \in Pullers, Update(p), NEW h \in Filings
    PROVE  Intact(h)' /\ Firsts(h)'
  <1>0. PICK f \in Filings : f = Head(pull[p].todo)
    BY UpdateDoes
  <1> DEFINE updates == With(pull[p].updates, f, pull[p].hashed)
  <1>1. /\ pull[p].todo # <<>> /\ pull[p].names = <<>> /\ f \in Filings
        /\ Becomes(p, Tail(pull[p].todo), <<"index">>, None, <<>>, updates)
        /\ rows' = rows /\ last' = last /\ disk' = disk
    BY <1>0, UpdateDoes DEF history
  <1>2. /\ pull'[p].names = <<"index">> /\ pull'[p].got = None /\ pull'[p].updates = updates
        /\ \A o \in Pullers : o # p => pull'[o] = pull[o]
    BY <1>1, BecomesIs
  <1>3. /\ DOMAIN updates = DOMAIN pull[p].updates \union {f} /\ updates[f] = pull[p].hashed
        /\ \A x \in DOMAIN pull[p].updates : x # f => updates[x] = pull[p].updates[x]
    BY DEF With, Over
  <1>4. Mid(p, f) /\ \A x : Mid(p, x) => x = f
    BY <1>0, <1>1 DEF Mid
  <1>5. \A x : ~Mid(p, x)'
    BY <1>2 DEF Mid
  <1> HIDE DEF updates
  <1>6. CASE h # f
    <2>1. \A o \in Pullers : /\ Mid(o, h)' <=> Mid(o, h)
                             /\ Updated(o, h)' <=> Updated(o, h)
                             /\ Mid(o, h) => pull'[o].hashed = pull[o].hashed
                             /\ Updated(o, h) => pull'[o].updates[h] = pull[o].updates[h]
      <3> SUFFICES ASSUME NEW o \in Pullers
                   PROVE  /\ Mid(o, h)' <=> Mid(o, h)
                          /\ Updated(o, h)' <=> Updated(o, h)
                          /\ Mid(o, h) => pull'[o].hashed = pull[o].hashed
                          /\ Updated(o, h) => pull'[o].updates[h] = pull[o].updates[h]
        OBVIOUS
      <3>1. CASE o = p
        <4>1. ~Mid(p, h) /\ ~Mid(p, h)'
          BY <1>4, <1>5, <1>6
        <4>2. Updated(p, h)' <=> Updated(p, h)
          BY <1>2, <1>3, <1>6 DEF Updated
        <4>3. Updated(p, h) => pull'[p].updates[h] = pull[p].updates[h]
          BY <1>2, <1>3, <1>6 DEF Updated
        <4> QED BY <3>1, <4>1, <4>2, <4>3
      <3>2. CASE o # p
        BY <1>2, <3>2 DEF Mid, Updated
      <3> QED BY <3>1, <3>2
    <2> QED BY <1>1, <2>1, Unmoved DEF Undisturbed, FirstPull
  <1>7. CASE h = f
    <2>1. /\ \A o \in Pullers : o # p => (Mid(o, f)' <=> Mid(o, f)) /\ (Updated(o, f)' <=> Updated(o, f))
          /\ Updated(p, f)'
      BY <1>2, <1>3 DEF Mid, Updated
    <2>2. /\ (Alone(f)' <=> Alone(f)) /\ (Once(f)' <=> Once(f))
          /\ \A o \in Pullers : RunningBy(o, f)' <=> RunningBy(o, f)
      BY <1>1 DEF Alone, Once, RunningBy
    <2>3. Intact(f) /\ Firsts(f)
      BY <1>1 DEF Undisturbed, FirstPull
    <2>4. \A o \in Pullers : RunningBy(o, f)' => Mid(o, f)' \/ Updated(o, f)'
      BY <2>1, <2>2, <2>3 DEF Intact
    <2>5. ASSUME Alone(f)'
          PROVE  /\ RunningBy(p, f) /\ Agrees(pull[p].hashed, f)
                 /\ \A o \in Pullers : Mid(o, f) => o = p
      <3>1. \A o \in Pullers : Mid(o, f) => RunningBy(o, f) /\ Agrees(pull[o].hashed, f)
        BY <2>2, <2>3, <2>5 DEF Intact
      <3> QED BY <1>4, <3>1, OnlyOne DEF RunningBy
    <2>6. ASSUME Alone(f)'
          PROVE  /\ \A o \in Pullers : ~Mid(o, f)'
                 /\ \A o \in Pullers : RunningBy(o, f)' => Agrees(pull[o].updates[f], f)'
                 /\ last'[f].state # "committed"
      <3>1. \A o \in Pullers : ~Mid(o, f)'
        BY <1>5, <2>1, <2>5, <2>6
      <3>2. \A o \in Pullers : RunningBy(o, f)' => o = p
        BY <2>2, <2>5, <2>6 DEF RunningBy
      <3>3. Agrees(pull[p].updates[f], f)'
        BY <1>1, <1>2, <1>3, <2>5, <2>6 DEF Agrees
      <3>4. last'[f].state # "committed"
        BY <1>1, <2>5, <2>6 DEF RunningBy
      <3> QED BY <3>1, <3>2, <3>3, <3>4
    <2>7. Intact(f)'
      BY <2>4, <2>6 DEF Intact
    <2>8. Firsts(f)'
      <3>1. Once(f) => \A o \in Pullers : Mid(o, f)' \/ Updated(o, f)' => RunningBy(o, f)'
        BY <1>4, <1>5, <2>1, <2>2, <2>3 DEF Firsts
      <3> QED BY <1>1, <2>2, <2>3, <3>1 DEF Firsts
    <2> QED BY <1>7, <2>7, <2>8
  <1> QED BY <1>6, <1>7

\* A pull that ended is among no files and holds no lock.
LEMMA EndsPull ==
    ASSUME Typed, NEW p \in Pullers, pull' = [pull EXCEPT ![p] = NoPull]
    PROVE  /\ \A x : ~Mid(p, x)' /\ ~Updated(p, x)'
           /\ \A o \in Pullers : o # p =>
                pull'[o] = pull[o] /\ \A x : (Mid(o, x)' <=> Mid(o, x)) /\ (Updated(o, x)' <=> Updated(o, x))
  <1>1. pull'[p] = NoPull /\ \A o \in Pullers : o # p => pull'[o] = pull[o]
    BY DEF Typed
  <1>2. \A x : ~Mid(p, x)' /\ ~Updated(p, x)'
    BY <1>1, NoPullIs DEF Mid, Updated
  <1>3. \A o \in Pullers : o # p => \A x : (Mid(o, x)' <=> Mid(o, x)) /\ (Updated(o, x)' <=> Updated(o, x))
    BY <1>1 DEF Mid, Updated
  <1> QED BY <1>1, <1>2, <1>3

\* The pull of p ends; the row of h is what the pull made it, or what it was.
LEMMA EndKeeps ==
    ASSUME Typed, Undisturbed, FirstPull, NEW p \in Pullers, pull' = [pull EXCEPT ![p] = NoPull],
           NEW how \in {"committed", "aborted"}, last' = Ended(p, how), disk' = disk, NEW h \in Filings,
           how = "committed" => \A x : ~Mid(p, x),
           how = "committed" /\ Updated(p, h) =>
             /\ h \in DOMAIN rows' /\ rows'[h] = pull[p].updates[h] /\ rows'[h] # None
             /\ \A o \in Pullers : o # p => ~Updated(o, h),
           ~(how = "committed" /\ Updated(p, h)) =>
             /\ h \in DOMAIN rows' <=> h \in DOMAIN rows
             /\ h \in DOMAIN rows => rows'[h] = rows[h]
    PROVE  Intact(h)' /\ Firsts(h)'
  <1>1. /\ \A x : ~Mid(p, x)' /\ ~Updated(p, x)'
        /\ \A o \in Pullers : o # p =>
             pull'[o] = pull[o] /\ \A x : (Mid(o, x)' <=> Mid(o, x)) /\ (Updated(o, x)' <=> Updated(o, x))
    BY EndsPull
  <1>2. /\ last'[h].by = last[h].by /\ last'[h].alone = last[h].alone /\ last'[h].first = last[h].first
        /\ last'[h].state = IF RunningBy(p, h) THEN how ELSE last[h].state
    <2> DEFINE state == IF RunningBy(p, h) THEN how ELSE last[h].state
    <2>1. last'[h] = [by |-> last[h].by, alone |-> last[h].alone, first |-> last[h].first, state |-> state]
      BY EndedIs
    <2> HIDE DEF state
    <2>2. /\ last'[h].by = last[h].by /\ last'[h].alone = last[h].alone /\ last'[h].first = last[h].first
          /\ last'[h].state = state
      BY <2>1
    <2> QED BY <2>2 DEF state
  <1>3. /\ Alone(h)' <=> Alone(h)
        /\ Once(h)' <=> Once(h)
        /\ \A o \in Pullers : RunningBy(o, h)' <=> RunningBy(o, h) /\ o # p
    BY <1>2 DEF Alone, Once, RunningBy
  <1>4. Intact(h) /\ Firsts(h)
    BY DEF Undisturbed, FirstPull
  <1>5. \A o \in Pullers : RunningBy(o, h)' => Mid(o, h)' \/ Updated(o, h)'
    BY <1>1, <1>3, <1>4 DEF Intact
  <1>6. ASSUME Alone(h)'
        PROVE  /\ \A o \in Pullers : Mid(o, h)' => RunningBy(o, h)' /\ Agrees(pull[o].hashed, h)'
               /\ \A o \in Pullers :
                    Updated(o, h)' /\ RunningBy(o, h)' /\ ~Mid(o, h)' => Agrees(pull[o].updates[h], h)'
    <2>1. /\ \A o \in Pullers : Mid(o, h) => RunningBy(o, h) /\ Agrees(pull[o].hashed, h)
          /\ \A o \in Pullers :
               Updated(o, h) /\ RunningBy(o, h) /\ ~Mid(o, h) => Agrees(pull[o].updates[h], h)
      BY <1>3, <1>4, <1>6 DEF Intact
    <2> QED BY <1>1, <1>3, <2>1 DEF Agrees
  <1>7. ASSUME Alone(h)', last'[h].state = "committed"
        PROVE  /\ h \in DOMAIN rows' /\ rows'[h] # None /\ Agrees(rows[h], h)'
               /\ \A o \in Pullers : ~Updated(o, h)'
    <2>1. CASE RunningBy(p, h)
      <3>1. how = "committed"
        BY <1>2, <1>7, <2>1
      <3>2. Updated(p, h) /\ ~Mid(p, h)
        BY <1>4, <2>1, <3>1 DEF Intact
      <3>3. Agrees(pull[p].updates[h], h)
        BY <1>3, <1>4, <1>7, <2>1, <3>2 DEF Intact
      <3> QED BY <1>1, <3>1, <3>2, <3>3 DEF Agrees
    <2>2. CASE ~RunningBy(p, h)
      <3>1. /\ h \in DOMAIN rows /\ rows[h] # None /\ Agrees(rows[h], h)
            /\ \A o \in Pullers : ~Updated(o, h)
        BY <1>2, <1>3, <1>4, <1>7, <2>2 DEF Intact
      <3>2. h \in DOMAIN rows' /\ rows'[h] = rows[h]
        BY <3>1
      <3> QED BY <1>1, <3>1, <3>2 DEF Agrees
    <2> QED BY <2>1, <2>2
  <1>8. Intact(h)'
    BY <1>5, <1>6, <1>7 DEF Intact
  <1>9. last'[h].state = "none" => Once(h)'
    BY <1>2, <1>3, <1>4 DEF Firsts
  <1>10. ASSUME Once(h)'
         PROVE  /\ Alone(h)'
                /\ \A o \in Pullers : Mid(o, h)' \/ Updated(o, h)' => RunningBy(o, h)'
                /\ h \in DOMAIN rows' /\ rows'[h] # None => last'[h].state = "committed"
    <2>1. /\ Alone(h)
          /\ \A o \in Pullers : Mid(o, h) \/ Updated(o, h) => RunningBy(o, h)
          /\ h \in DOMAIN rows /\ rows[h] # None => last[h].state = "committed"
      BY <1>3, <1>4, <1>10 DEF Firsts
    <2>2. \A o \in Pullers : Mid(o, h)' \/ Updated(o, h)' => RunningBy(o, h)'
      BY <1>1, <1>3, <2>1
    <2>3. CASE how = "committed" /\ Updated(p, h)
      BY <1>2, <1>3, <2>1, <2>2, <2>3
    <2>4. CASE ~(how = "committed" /\ Updated(p, h))
      <3>1. h \in DOMAIN rows' /\ rows'[h] # None => last[h].state = "committed"
        BY <2>1, <2>4
      <3>2. last[h].state = "committed" => last'[h].state = "committed"
        BY <1>2 DEF RunningBy
      <3> QED BY <1>3, <2>1, <2>2, <3>1, <3>2
    <2> QED BY <2>3, <2>4
  <1>11. Firsts(h)'
    BY <1>9, <1>10 DEF Firsts
  <1> QED BY <1>8, <1>11

\* The commit of a pull that was alone sets the row to what is on disk.
LEMMA CommitKeeps ==
    ASSUME Typed, OneWriter, Undisturbed, FirstPull, NEW p \in Pullers, Commit(p), NEW h \in Filings
    PROVE  Intact(h)' /\ Firsts(h)'
  <1>1. /\ pull' = [pull EXCEPT ![p] = NoPull] /\ last' = Ended(p, "committed") /\ disk' = disk
        /\ pull[p].todo = <<>>
    BY DEF Commit
  <1>2. \A x : ~Mid(p, x)
    BY <1>1 DEF Mid
  <1>3. ASSUME Updated(p, h)
        PROVE  /\ h \in DOMAIN rows' /\ rows'[h] = pull[p].updates[h] /\ rows'[h] # None
               /\ \A o \in Pullers : o # p => ~Updated(o, h)
    <2>1. h \in DOMAIN rows' /\ rows'[h] = pull[p].updates[h] /\ rows'[h] # None
      BY <1>3, CommitIs DEF Updated
    <2>2. \A o \in Pullers : Updated(o, h) => Locks(o)
      BY DEF Updated, Locks
    <2> QED BY <1>3, <2>1, <2>2 DEF OneWriter
  <1>4. ~Updated(p, h) => /\ h \in DOMAIN rows' <=> h \in DOMAIN rows
                          /\ h \in DOMAIN rows => rows'[h] = rows[h]
    BY CommitIs DEF Updated
  <1> QED BY <1>1, <1>2, <1>3, <1>4, EndKeeps

\* A pull that fails, or crashes, rolls its rows back.
LEMMA PullFailsKeeps ==
    ASSUME Typed, Undisturbed, FirstPull, NEW p \in Pullers, PullFails(p), NEW h \in Filings
    PROVE  Intact(h)' /\ Firsts(h)'
  <1>1. /\ pull' = [pull EXCEPT ![p] = NoPull] /\ last' = Ended(p, "aborted") /\ disk' = disk /\ rows' = rows
    BY DEF PullFails
  <1> QED BY <1>1, EndKeeps

\* A pull that starts, and rows that are listed.
LEMMA StartKeeps ==
    ASSUME Typed, Undisturbed, FirstPull, NEW p \in Pullers, NEW s, pull[p] = NoPull,
           pull' = [pull EXCEPT ![p] = PullOf(s)], UNCHANGED <<last, disk, rows>>, NEW h \in Filings
    PROVE  Intact(h)' /\ Firsts(h)'
  <1>1. /\ pull'[p].names = <<"index">> /\ pull'[p].got = None /\ DOMAIN pull'[p].updates = {}
        /\ \A o \in Pullers : o # p => pull'[o] = pull[o]
    BY DEF Typed, PullOf
  <1>2. ~Mid(p, h) /\ ~Updated(p, h) /\ ~Mid(p, h)' /\ ~Updated(p, h)'
    BY <1>1, NoPullIs DEF Mid, Updated
  <1>3. \A o \in Pullers : o # p => (Mid(o, h)' <=> Mid(o, h)) /\ (Updated(o, h)' <=> Updated(o, h))
    BY <1>1 DEF Mid, Updated
  <1> QED BY <1>1, <1>2, <1>3, Unmoved DEF Undisturbed, FirstPull

\* Listing a filing disturbs no pull of it.
LEMMA RowsKeep ==
    ASSUME Typed, Undisturbed, FirstPull, NEW S \in SUBSET Filings, rows' = WithRows(S),
           UNCHANGED <<pull, last, disk>>, NEW h \in Filings
    PROVE  Intact(h)' /\ Firsts(h)'
  <1>1. /\ h \in DOMAIN rows => h \in DOMAIN rows' /\ rows'[h] = rows[h]
        /\ h \in DOMAIN rows' /\ rows'[h] # None => h \in DOMAIN rows
    BY WithRowsIs
  <1>2. \A o \in Pullers : (Mid(o, h)' <=> Mid(o, h)) /\ (Updated(o, h)' <=> Updated(o, h))
    BY DEF Mid, Updated
  <1> QED BY <1>1, <1>2, Unmoved DEF Undisturbed, FirstPull

\* What the steps do to the rows and the pulls.
LEMMA RowsListed ==
    ASSUME Typed, WatchGroup \/ Watchd
    PROVE  \E S \in SUBSET Filings : rows' = WithRows(S)
  <1>1. CASE WatchGroup
    <2>1. batch.group \in DOMAIN Groups
      BY DEF Typed, Batches
    <2> QED BY <1>1, <2>1, ListedIs DEF WatchGroup
  <1>2. CASE Watchd
    <2>1. 1 \in DOMAIN Groups
      BY IngestionAssumption
    <2> QED BY <1>2, <2>1, ListedIs DEF Watchd
  <1> QED BY <1>1, <1>2

\* What a step that starts a pull does to pulls and rows.
LEMMA PullStarts ==
    ASSUME PullGroup \/ \E f \in Filings : Pulld(f)
    PROVE  /\ \E p \in Pullers : \E s : pull[p] = NoPull /\ pull' = [pull EXCEPT ![p] = PullOf(s)]
           /\ UNCHANGED <<rows, disk, last>>
  BY DEF PullGroup, Pulld, Pullers, history

\* The steps that touch no pull, row or file.
LEMMA ElseUnmoved ==
    ASSUME \/ Publish \/ (\E f \in Filings : Republish(f) \/ Xbrld(f))
           \/ StartBatch \/ WatchFails \/ ListGroup \/ ParseListed \/ NextGroup
           \/ (\E q \in Parsers : Read(q) \/ Store(q) \/ ParseFails(q)) \/ UNCHANGED vars
    PROVE  UNCHANGED <<pull, rows, disk, last>>
  BY DEF Publish, Republish, Xbrld, StartBatch, WatchFails, ListGroup, ParseListed, NextGroup,
         Read, Store, ParseFails, vars, history

\* Every step keeps the filings undisturbed.
LEMMA UndisturbedKeeps ==
    ASSUME Typed, Packaged, OneWriter, Undisturbed, FirstPull, [Next]_vars
    PROVE  Undisturbed' /\ FirstPull'
  <1> SUFFICES ASSUME NEW h \in Filings PROVE Intact(h)' /\ Firsts(h)'
    BY DEF Undisturbed, FirstPull
  <1>1. CASE \E p \in Pullers : Get(p) \/ Write(p) \/ Update(p) \/ Commit(p) \/ PullFails(p)
    BY <1>1, GetKeeps, WriteKeeps, UpdateKeeps, CommitKeeps, PullFailsKeeps
  <1>2. CASE PullGroup \/ \E f \in Filings : Pulld(f)
    BY <1>2, PullStarts, StartKeeps
  <1>3. CASE WatchGroup \/ Watchd
    <2>1. PICK S \in SUBSET Filings : rows' = WithRows(S)
      BY <1>3, RowsListed
    <2>2. UNCHANGED <<pull, last, disk>>
      BY <1>3 DEF WatchGroup, Watchd, history
    <2> QED BY <2>1, <2>2, RowsKeep
  <1>4. CASE \/ Publish \/ (\E f \in Filings : Republish(f) \/ Xbrld(f))
             \/ StartBatch \/ WatchFails \/ ListGroup \/ ParseListed \/ NextGroup
             \/ (\E q \in Parsers : Read(q) \/ Store(q) \/ ParseFails(q)) \/ UNCHANGED vars
    <2>1. UNCHANGED <<pull, rows, disk, last>>
      BY <1>4, ElseUnmoved
    <2>2. \A o \in Pullers : (Mid(o, h)' <=> Mid(o, h)) /\ (Updated(o, h)' <=> Updated(o, h))
      BY <2>1 DEF Mid, Updated
    <2> QED BY <2>1, <2>2, Unmoved DEF Undisturbed, FirstPull
  <1> QED BY <1>1, <1>2, <1>3, <1>4 DEF Next

\* One transaction has updates at a time: Update waits for the writer's lock.
LEMMA OneWriterKeeps ==
    ASSUME Typed, OneWriter, [Next]_vars
    PROVE  OneWriter'
  <1>1. CASE \E p \in Pullers : Get(p) \/ Write(p)
    <2>1. PICK p \in Pullers : Get(p) \/ Write(p)
      BY <1>1
    <2>2. pull'[p].updates = pull[p].updates /\ \A o \in Pullers : o # p => pull'[o] = pull[o]
      <3>1. CASE Get(p)
        <4>1. PICK c \in Bytes : Becomes(p, pull[p].todo, pull[p].names, c, pull[p].hashed, pull[p].updates)
          BY <3>1, GetDoes
        <4> QED BY <4>1, BecomesIs
      <3>2. CASE Write(p)
        BY <3>2, WriteDoes, BecomesIs
      <3> QED BY <2>1, <3>1, <3>2
    <2> QED BY <2>2 DEF OneWriter, Locks
  <1>2. CASE \E p \in Pullers : Update(p)
    <2>1. PICK p \in Pullers : Update(p)
      BY <1>2
    <2>2. \A o \in Pullers : o # p => ~Locks(o) /\ pull'[o] = pull[o]
      BY <2>1, UpdateDoes, BecomesIs
    <2> QED BY <2>2 DEF OneWriter, Locks
  <1>3. CASE \/ \E p \in Pullers : Commit(p) \/ PullFails(p)
             \/ PullGroup
             \/ \E f \in Filings : Pulld(f)
    <2>1. \E p \in Pullers : pull'[p].updates = <<>> /\ \A o \in Pullers : o # p => pull'[o] = pull[o]
      <3>1. CASE \E p \in Pullers : Commit(p) \/ PullFails(p)
        BY <3>1, NoPullIs DEF Commit, PullFails, Typed
      <3>2. CASE PullGroup \/ \E f \in Filings : Pulld(f)
        BY <3>2, PullStarts DEF PullOf, Typed
      <3> QED BY <1>3, <3>1, <3>2
    <2> QED BY <2>1 DEF OneWriter, Locks
  <1>4. CASE WatchGroup \/ Watchd
    BY <1>4 DEF WatchGroup, Watchd, OneWriter, Locks
  <1>5. CASE \/ Publish \/ (\E f \in Filings : Republish(f) \/ Xbrld(f))
             \/ StartBatch \/ WatchFails \/ ListGroup \/ ParseListed \/ NextGroup
             \/ (\E q \in Parsers : Read(q) \/ Store(q) \/ ParseFails(q)) \/ UNCHANGED vars
    BY <1>5, ElseUnmoved DEF OneWriter, Locks
  <1> QED BY <1>1, <1>2, <1>3, <1>4, <1>5 DEF Next

\* Initially nothing is pulled.
LEMMA PullsInitially == Init => Packaged /\ OneWriter /\ Undisturbed /\ FirstPull
  <1> SUFFICES ASSUME Init PROVE Packaged /\ OneWriter /\ Undisturbed /\ FirstPull
    OBVIOUS
  <1>1. /\ \A p \in Pullers : pull[p] = NoPull
        /\ DOMAIN rows = {}
        /\ \A f \in Filings : last[f].state = "none" /\ last[f].alone = TRUE /\ last[f].first = TRUE
    BY DEF Init
  <1>2. Packaged
    BY <1>1, NoPullIs DEF Packaged
  <1>3. OneWriter
    BY <1>1, NoPullIs DEF OneWriter, Locks
  <1>4. \A p \in Pullers, f \in Filings : ~Mid(p, f) /\ ~Updated(p, f) /\ ~RunningBy(p, f)
    BY <1>1, NoPullIs DEF Mid, Updated, RunningBy
  <1>5. Undisturbed
    BY <1>1, <1>4 DEF Undisturbed, Intact
  <1>6. FirstPull
    BY <1>1, <1>4 DEF FirstPull, Firsts, Once, Alone
  <1> QED BY <1>2, <1>3, <1>5, <1>6

-----------------------------------------------------------------------------
(* Parses take what was fetched *)

\* A filing that was pulled once was not pulled more before.
LEMMA OnceBefore ==
    ASSUME Typed, FirstPull, [Next]_vars, NEW f \in Filings, Once(f)'
    PROVE  Once(f)
  <1>1. CASE \E p \in Pullers : Get(p)
    <2>1. PICK p \in Pullers : Get(p)
      BY <1>1
    <2>2. PICK h \in Filings : h = Head(pull[p].todo)
      BY <2>1, GetDoes
    <2>3. CASE last' = last
      BY <2>3 DEF Once
    <2>4. CASE last' = [last EXCEPT ![h] =
                 [by |-> p, state |-> "running", alone |-> ~Busy(h, p), first |-> last[h].state = "none"]]
      <3>1. CASE f = h
        <4> DEFINE r == [by |-> p, state |-> "running", alone |-> ~Busy(h, p), first |-> last[h].state = "none"]
        <4>1. last'[f] = r
          BY <2>4, <3>1 DEF Typed
        <4>2. r.first = (last[h].state = "none")
          OBVIOUS
        <4>3. last[f].state = "none"
          BY <3>1, <4>1, <4>2 DEF Once
        <4> QED BY <4>3 DEF FirstPull, Firsts
      <3>2. CASE f # h
        <4>1. last'[f] = last[f]
          BY <2>4, <3>2 DEF Typed
        <4> QED BY <4>1 DEF Once
      <3> QED BY <3>1, <3>2
    <2> QED BY <2>1, <2>2, <2>3, <2>4, GetDoes
  <1>2. CASE \E p \in Pullers : Commit(p) \/ PullFails(p)
    <2>1. PICK p \in Pullers, how \in {"committed", "aborted"} : last' = Ended(p, how)
      BY <1>2 DEF Commit, PullFails
    <2>2. last'[f].first = last[f].first
      <3> DEFINE state == IF RunningBy(p, f) THEN how ELSE last[f].state
      <3>1. last'[f] = [by |-> last[f].by, alone |-> last[f].alone, first |-> last[f].first, state |-> state]
        BY <2>1, EndedIs
      <3> HIDE DEF state
      <3> QED BY <3>1
    <2> QED BY <2>2 DEF Once
  <1>3. CASE last' = last
    BY <1>3 DEF Once
  <1>4. CASE \E p \in Pullers : Write(p) \/ Update(p)
    BY <1>3, <1>4 DEF Write, Update, history
  <1>5. CASE WatchGroup \/ Watchd \/ PullGroup \/ \E f_1 \in Filings : Pulld(f_1)
    BY <1>3, <1>5 DEF WatchGroup, Watchd, PullGroup, Pulld, history
  <1>6. CASE \/ Publish \/ (\E f_1 \in Filings : Republish(f_1) \/ Xbrld(f_1))
             \/ StartBatch \/ WatchFails \/ ListGroup \/ ParseListed \/ NextGroup
             \/ (\E q \in Parsers : Read(q) \/ Store(q) \/ ParseFails(q)) \/ UNCHANGED vars
    BY <1>3, <1>6, ElseUnmoved
  <1> QED BY <1>1, <1>2, <1>4, <1>5, <1>6 DEF Next

\* A row that was set stays set, and after one pull what it was set to.
LEMMA FetchedKeeps ==
    ASSUME Typed, FirstPull, [Next]_vars, NEW f \in Fetched
    PROVE  f \in Fetched' /\ (Once(f) => rows'[f] = rows[f])
  <1>1. f \in DOMAIN rows /\ rows[f] # None /\ f \in Filings
    BY DEF Fetched, Typed
  <1>2. CASE rows' = rows
    BY <1>1, <1>2 DEF Fetched
  <1>3. CASE \E p \in Pullers : Commit(p)
    <2>1. PICK p \in Pullers : Commit(p)
      BY <1>3
    <2>2. f \in Fetched'
      BY <2>1, CommitIs
    <2>3. Once(f) => f \notin DOMAIN pull[p].updates
      <3>1. Once(f) => last[f].state = "committed" /\ (Updated(p, f) => RunningBy(p, f))
        BY <1>1 DEF FirstPull, Firsts
      <3> QED BY <3>1 DEF Updated, RunningBy
    <2> QED BY <1>1, <2>1, <2>2, <2>3, CommitIs
  <1>4. CASE WatchGroup \/ Watchd
    <2>1. PICK S \in SUBSET Filings : rows' = WithRows(S)
      BY <1>4, RowsListed
    <2> QED BY <1>1, <2>1, WithRowsIs
  <1>5. CASE \E p \in Pullers : Get(p) \/ Write(p) \/ Update(p) \/ PullFails(p)
    BY <1>2, <1>5 DEF Get, Write, Update, PullFails
  <1>6. CASE PullGroup \/ \E f_1 \in Filings : Pulld(f_1)
    BY <1>2, <1>6, PullStarts
  <1>7. CASE \/ Publish \/ (\E f_1 \in Filings : Republish(f_1) \/ Xbrld(f_1))
             \/ StartBatch \/ WatchFails \/ ListGroup \/ ParseListed \/ NextGroup
             \/ (\E q \in Parsers : Read(q) \/ Store(q) \/ ParseFails(q)) \/ UNCHANGED vars
    BY <1>2, <1>7, ElseUnmoved
  <1> QED BY <1>3, <1>4, <1>5, <1>6, <1>7 DEF Next

\* After one pull the raw store holds what the row was hashed from.
LEMMA OnceOnDisk ==
    ASSUME Typed, Packaged, Undisturbed, FirstPull, NEW f \in Fetched, Once(f)
    PROVE  Whole(rows[f]) /\ Agrees(rows[f], f)
  <1>1. f \in DOMAIN rows /\ rows[f] # None /\ f \in Filings
    BY DEF Fetched, Typed
  <1>2. Alone(f) /\ last[f].state = "committed"
    BY <1>1 DEF FirstPull, Firsts
  <1> QED BY <1>1, <1>2 DEF Packaged, Undisturbed, Intact

\* A parse that takes no step stays sound.
LEMMA ParseStays ==
    ASSUME Typed, FirstPull, [Next]_vars, NEW q \in Parsers, SoundParse(parse[q]), parse'[q] = parse[q]
    PROVE  SoundParse(parse[q])'
  <1>1. PICK f : f = parse[q].filing
    OBVIOUS
  <1>2. f \in Fetched' /\ (Once(f) => rows'[f] = rows[f])
    BY <1>1, FetchedKeeps DEF SoundParse
  <1>3. Once(f)' => Once(f)
    <2>1. f \in Filings
      BY <1>1 DEF SoundParse, Fetched, Typed
    <2> QED BY <2>1, OnceBefore
  <1>4. parse'[q].filing = f
    BY <1>1
  <1>5. Once(f)' => Once(f) /\ rows'[f] = rows[f]
    BY <1>2, <1>3
  <1> QED BY <1>1, <1>2, <1>4, <1>5 DEF SoundParse, Once

\* A step that adds no facts keeps what is parsed.
LEMMA TablesStay ==
    ASSUME Typed, FirstPull, ParsesFetched, [Next]_vars, UNCHANGED <<parsed, tables>>
    PROVE  /\ (parsed \subseteq Fetched)'
           /\ (\A f \in parsed : Once(f) => FactsOfPackage(f, rows[f]) \subseteq facts)'
           /\ (\A x \in facts : SoundFact(x))'
  <1>1. \A f \in Fetched : f \in Fetched' /\ (Once(f)' => Once(f) /\ rows'[f] = rows[f])
    <2> SUFFICES ASSUME NEW f \in Fetched
                 PROVE  f \in Fetched' /\ (Once(f)' => Once(f) /\ rows'[f] = rows[f])
      OBVIOUS
    <2>1. f \in Filings
      BY DEF Fetched, Typed
    <2> QED BY <2>1, FetchedKeeps, OnceBefore
  <1>2. parsed' \subseteq Fetched'
    BY <1>1 DEF ParsesFetched
  <1>3. \A f \in parsed' : Once(f)' => FactsOfPackage(f, rows'[f]) \subseteq facts'
    BY <1>1 DEF ParsesFetched, tables
  <1>4. \A x \in facts' : SoundFact(x)'
    <2> SUFFICES ASSUME NEW x \in facts PROVE SoundFact(x)'
      BY DEF tables
    <2>1. SoundFact(x)
      BY DEF ParsesFetched
    <2> QED BY <1>1, <2>1 DEF SoundFact, tables
  <1> QED BY <1>2, <1>3, <1>4

\* The next item that is read: the first of the index that is not.
LEMMA NextItemIs ==
    ASSUME NEW q, parse[q].index \in Seq(Names), ~(Unread(q) = {})
    PROVE  NextItem(q) \in Unread(q)
  <1>1. Unread(q) \subseteq Nat
    BY DEF Unread
  <1> DEFINE R == {ss \in Nat \X Nat : ss[1] < ss[2]}
  <1>2. IsWellFoundedOn(R, Nat)
    BY NatLessThanWellFounded, Zenon DEF OpToRel
  <1>3. PICK k \in Unread(q) : \A j \in Unread(q) : <<j, k>> \notin R
    <2> HIDE DEF R
    <2> QED BY <1>1, <1>2, WFMin
  <1>4. \A j \in Unread(q) : k <= j
    <2> SUFFICES ASSUME NEW j \in Unread(q), ~(k <= j) PROVE FALSE
      OBVIOUS
    <2>1. j \in Nat /\ k \in Nat
      BY <1>1
    <2>2. j < k
      BY <2>1
    <2> DEFINE pair == <<j, k>>
    <2>3. pair \in Nat \X Nat /\ pair[1] = j /\ pair[2] = k
      BY <2>1
    <2>4. pair \notin R
      BY <1>3
    <2> HIDE DEF pair
    <2>5. pair \in R
      BY <2>2, <2>3
    <2> QED BY <2>4, <2>5
  <1> QED BY <1>4 DEF NextItem

\* EXCEPT on the record of a parse.
LEMMA ParseUpdates ==
    ASSUME NEW f, NEW i, NEW s, NEW v
    PROVE  /\ [[filing |-> f, index |-> i, files |-> s] EXCEPT !.index = v] =
                [filing |-> f, index |-> v, files |-> s]
           /\ [[filing |-> f, index |-> i, files |-> s] EXCEPT !.files = v] =
                [filing |-> f, index |-> i, files |-> v]
  OBVIOUS

\* A file that is read after one pull is what its row was hashed from.
LEMMA ReadKeeps ==
    ASSUME Typed, Packaged, Undisturbed, FirstPull, ParsesFetched, NEW q \in Parsers, Read(q)
    PROVE  SoundParse(parse[q])'
  <1> DEFINE r == parse[q]
             c == disk[r.filing][NextFile(q)]
             k == NextItem(q)
             file == [name |-> NextFile(q), content |-> c]
  <1>1. /\ r # None /\ ~AllRead(q)
        /\ NextFile(q) \in DOMAIN disk[r.filing]
        /\ parse' = IF r.index = None THEN [parse EXCEPT ![q].index = c]
                    ELSE [parse EXCEPT ![q].files = With(r.files, k, file)]
        /\ UNCHANGED <<rows, last>>
    BY DEF Read, Readable, history
  <1>2. SoundParse(r)
    BY <1>1 DEF ParsesFetched
  <1>3. r = [filing |-> r.filing, index |-> r.index, files |-> r.files] /\ r.filing \in Fetched
    BY <1>2 DEF SoundParse
  <1>4. Fetched' = Fetched
    BY <1>1 DEF Fetched
  <1>5. CASE r.index = None
    <2>1. parse'[q] = [filing |-> r.filing, index |-> c, files |-> r.files]
      <3>1. parse'[q] = [r EXCEPT !.index = c]
        <4> HIDE DEF c
        <4> QED BY <1>1, <1>5 DEF Typed
      <3> HIDE DEF c, r
      <3> QED BY <1>3, <3>1, ParseUpdates
    <2>2. r.files = <<>>
      BY <1>2, <1>5 DEF SoundParse
    <2>3. Once(r.filing) => c = rows[r.filing]["index"]
      <3>1. NextFile(q) = "index"
        BY <1>5 DEF NextFile
      <3>2. Once(r.filing) => Whole(rows[r.filing]) /\ Agrees(rows[r.filing], r.filing)
        BY <1>3, OnceOnDisk
      <3> QED BY <3>1, <3>2 DEF Whole, Agrees
    <2>4. PICK f, i, s : f = r.filing /\ i = c /\ s = parse'[q]
      OBVIOUS
    <2>5. s = [filing |-> f, index |-> i, files |-> <<>>] /\ f \in Fetched'
          /\ (Once(f)' => i = rows'[f]["index"])
      BY <1>1, <1>3, <1>4, <2>1, <2>2, <2>3, <2>4 DEF Once
    <2>6. s.filing = f /\ s.index = i /\ s.files = <<>>
      BY <2>5
    <2>7. s.files = [x \in DOMAIN s.files |-> FilesOf(rows'[f])[x]]
      BY <2>6
    <2> QED BY <2>4, <2>5, <2>6, <2>7 DEF SoundParse
  <1>6. CASE r.index # None
    <2> DEFINE files == With(r.files, k, file)
    <2>1. parse'[q] = [filing |-> r.filing, index |-> r.index, files |-> files]
      <3>1. parse'[q] = [r EXCEPT !.files = files]
        <4> HIDE DEF files
        <4> QED BY <1>1, <1>6 DEF Typed, files
      <3> HIDE DEF files, r
      <3> QED BY <1>3, <3>1, ParseUpdates
    <2>2. ASSUME Once(r.filing)
          PROVE  /\ r.index = rows[r.filing]["index"]
                 /\ files = [x \in DOMAIN files |-> FilesOf(rows[r.filing])[x]]
                 /\ DOMAIN files \subseteq Items(rows[r.filing]["index"])
      <3> DEFINE table == rows[r.filing]
      <3>1. Whole(table) /\ Agrees(table, r.filing)
        BY <1>3, <2>2, OnceOnDisk
      <3>2. /\ r.index = table["index"]
            /\ r.files = [x \in DOMAIN r.files |-> FilesOf(table)[x]]
            /\ DOMAIN r.files \subseteq Items(table["index"])
        BY <1>2, <1>6, <2>2 DEF SoundParse
      <3>3. k \in Unread(q)
        BY <1>1, <1>6, <3>1, <3>2, NextItemIs DEF AllRead, Whole
      <3>4. k \in Items(table["index"]) /\ NextFile(q) = table["index"][k]
        BY <1>6, <3>2, <3>3 DEF Unread, Items, NextFile
      <3>5. table["index"][k] \in DOMAIN table
        BY <3>1, <3>4 DEF Whole, Items
      <3>6. c = table[table["index"][k]]
        BY <3>1, <3>4, <3>5 DEF Agrees
      <3>7. file = FilesOf(table)[k]
        BY <3>4, <3>6 DEF FilesOf
      <3>8. /\ files = [x \in DOMAIN r.files \union {k} |-> IF x = k THEN file ELSE r.files[x]]
            /\ DOMAIN files = DOMAIN r.files \union {k}
        <4> HIDE DEF file, k, r
        <4> QED BY DEF With, Over
      <3>9. \A x \in DOMAIN r.files : r.files[x] = FilesOf(table)[x]
        BY <3>2
      <3> HIDE DEF files, file, k, r, c, table
      <3>10. files = [x \in DOMAIN files |-> FilesOf(table)[x]]
        BY <3>7, <3>8, <3>9
      <3> QED BY <3>2, <3>4, <3>8, <3>10 DEF table
    <2>3. PICK f, i, t, s : f = r.filing /\ i = r.index /\ t = files /\ s = parse'[q]
      OBVIOUS
    <2>4. /\ s = [filing |-> f, index |-> i, files |-> t] /\ f \in Fetched' /\ i # None
          /\ Once(f)' => /\ i = rows'[f]["index"]
                         /\ t = [x \in DOMAIN t |-> FilesOf(rows'[f])[x]]
                         /\ DOMAIN t \subseteq Items(rows'[f]["index"])
      <3> HIDE DEF files, r
      <3> QED BY <1>1, <1>3, <1>4, <1>6, <2>1, <2>2, <2>3 DEF Once
    <2>5. s.filing = f /\ s.index = i /\ s.files = t
      BY <2>4
    <2> QED BY <2>3, <2>4, <2>5 DEF SoundParse
  <1> QED BY <1>5, <1>6

\* What a parse stores is of the files it read.
LEMMA StoreAdds ==
    ASSUME NEW f, NEW index, NEW files, StoreParse(f, index, files)
    PROVE  /\ facts' = facts \union FactsOfFiles(f, index, files)
           /\ documents \subseteq documents' /\ DOMAIN contexts \subseteq DOMAIN contexts'
           /\ \A x \in FactsOfFiles(f, index, files) :
                /\ x.doc.filing = f /\ x.doc \in documents'
                /\ <<f, x.item.context>> \in DOMAIN contexts'
  <1>1. /\ facts' = facts \union FactsOfFiles(f, index, files)
        /\ documents' = DocumentsWith(f, files) /\ contexts' = ContextsWith(f, index, files)
        /\ KeysHold(f, index, files)
    BY DEF StoreParse
  <1>2. documents \subseteq documents'
    BY <1>1 DEF DocumentsWith
  <1> DEFINE inst == Instances(index, files)
             ids == UNION {DOMAIN Document[files[i].content].contexts : i \in inst}
  <1>3. DOMAIN contexts' = DOMAIN contexts \union ({f} \X ids)
    BY <1>1 DEF ContextsWith, Over
  <1>4. ASSUME NEW x \in FactsOfFiles(f, index, files)
        PROVE  /\ x.doc.filing = f /\ x.doc \in documents'
               /\ <<f, x.item.context>> \in DOMAIN contexts'
    <2>1. PICK i \in inst : \E y \in ItemsOf(files[i].content) : x = [doc |-> DocOf(f, files[i]), item |-> y]
      BY DEF FactsOfFiles
    <2>2. x.doc = DocOf(f, files[i]) /\ x.item \in ItemsOf(files[i].content)
      BY <2>1
    <2>3. x.item.context \in ids
      BY <2>2 DEF ItemsOf
    <2>4. x.doc \in documents'
      BY <1>1 DEF KeysHold
    <2> HIDE DEF ids
    <2> QED BY <1>3, <2>2, <2>3, <2>4 DEF DocOf
  <1> QED BY <1>1, <1>2, <1>3, <1>4

\* A parse that stores its facts stores those of the whole package.
LEMMA StoreKeeps ==
    ASSUME Typed, FirstPull, ParsesFetched, NEW q \in Parsers, Store(q)
    PROVE  /\ (parsed \subseteq Fetched)'
           /\ (\A f \in parsed : Once(f) => FactsOfPackage(f, rows[f]) \subseteq facts)'
           /\ (\A x \in facts : SoundFact(x))'
  <1>1. PICK f, index, files : f = parse[q].filing /\ index = IndexSet(q) /\ files = parse[q].files
    OBVIOUS
  <1>2. /\ parse[q] # None /\ AllRead(q) /\ StoreParse(f, index, files)
        /\ parsed' = parsed \union {f} /\ UNCHANGED <<rows, last>>
    BY <1>1 DEF Store, history
  <1>3. SoundParse(parse[q]) /\ f \in Fetched
    BY <1>1, <1>2 DEF ParsesFetched, SoundParse
  <1>4. Fetched' = Fetched /\ \A h : Once(h)' <=> Once(h)
    BY <1>2 DEF Fetched, Once
  <1>5. Once(f) => FactsOfFiles(f, index, files) = FactsOfPackage(f, rows[f])
    <2> SUFFICES ASSUME Once(f) PROVE FactsOfFiles(f, index, files) = FactsOfPackage(f, rows[f])
      OBVIOUS
    <2> DEFINE table == rows[f]
    <2>1. /\ parse[q].index = table["index"]
          /\ files = [k \in DOMAIN files |-> FilesOf(table)[k]]
          /\ DOMAIN files \subseteq Items(table["index"])
      BY <1>1, <1>2, <1>3 DEF SoundParse, AllRead
    <2>2. DOMAIN files = Items(table["index"])
      BY <1>1, <1>2, <2>1 DEF AllRead, Unread, Items
    <2>3. files = FilesOf(table)
      BY <2>1, <2>2 DEF FilesOf
    <2>4. index = {table["index"][i] : i \in DOMAIN table["index"]}
      BY <1>1, <2>1 DEF IndexSet
    <2> QED BY <2>3, <2>4 DEF FactsOfPackage, FilesOf, Items
  <1>6. parsed' \subseteq Fetched'
    BY <1>2, <1>3, <1>4 DEF ParsesFetched
  <1>7. \A h \in parsed' : Once(h)' => FactsOfPackage(h, rows'[h]) \subseteq facts'
    BY <1>2, <1>4, <1>5, StoreAdds DEF ParsesFetched
  <1>8. \A x \in facts' : SoundFact(x)'
    <2> SUFFICES ASSUME NEW x \in facts' PROVE SoundFact(x)'
      OBVIOUS
    <2>1. CASE x \in facts
      <3>1. SoundFact(x)
        BY <2>1 DEF ParsesFetched
      <3> QED BY <1>2, <1>4, <3>1, StoreAdds DEF SoundFact
    <2>2. CASE x \in FactsOfFiles(f, index, files)
      <3>1. x.doc.filing = f /\ x.doc \in documents' /\ <<f, x.item.context>> \in DOMAIN contexts'
        BY <1>2, <2>2, StoreAdds
      <3>2. f \in Fetched' /\ rows'[f] = rows[f] /\ (Once(f)' => x \in FactsOfPackage(f, rows[f]))
        BY <1>2, <1>3, <1>4, <1>5, <2>2
      <3> QED BY <3>1, <3>2 DEF SoundFact, Once
    <2> QED BY <1>2, <2>1, <2>2, StoreAdds
  <1> QED BY <1>6, <1>7, <1>8

\* A parse that starts on a fetched filing is sound.
LEMMA StartsSound ==
    ASSUME NEW f \in Fetched', NEW q, parse'[q] = ParseOf(f)
    PROVE  SoundParse(parse[q])'
  <1>1. /\ parse'[q].filing = f /\ parse'[q].index = None /\ parse'[q].files = <<>>
        /\ parse'[q] = [filing |-> f, index |-> None, files |-> <<>>]
    BY DEF ParseOf
  <1> QED BY <1>1 DEF SoundParse

\* Every step keeps what is parsed sound.
LEMMA ParsesFetchedKeeps ==
    ASSUME Typed, Packaged, Undisturbed, FirstPull, ParsesFetched, Staged, [Next]_vars
    PROVE  ParsesFetched'
  <1>1. /\ (parsed \subseteq Fetched)'
        /\ (\A f \in parsed : Once(f) => FactsOfPackage(f, rows[f]) \subseteq facts)'
        /\ (\A x \in facts : SoundFact(x))'
    <2>1. CASE \E q \in Parsers : Store(q)
      BY <2>1, StoreKeeps
    <2>2. CASE UNCHANGED <<parsed, tables>>
      BY <2>2, TablesStay
    <2> QED BY <2>1, <2>2 DEF Next, vars, Publish, Republish, Pulld, Xbrld, Watchd, StartBatch, WatchGroup,
             WatchFails, PullGroup, ListGroup, ParseListed, NextGroup, Get, Write, Update, Commit,
             PullFails, Read, ParseFails
  <1>2. ASSUME NEW q \in Parsers, parse'[q] # None
        PROVE  SoundParse(parse[q])'
    <2>1. CASE parse'[q] = parse[q]
      BY <1>2, <2>1, ParseStays DEF ParsesFetched
    <2>2. CASE parse'[q] # parse[q] /\ Read(q)
      BY <2>2, ReadKeeps
    <2>3. CASE \E f \in Filings : Xbrld(f) /\ q = "xbrld"
      <3>1. PICK f \in Filings : Xbrld(f) /\ q = "xbrld"
        BY <2>3
      <3>2. f \in Fetched' /\ parse'[q] = ParseOf(f)
        BY <3>1 DEF Xbrld, Fetched, Typed
      <3> QED BY <3>2, StartsSound
    <2>4. CASE ParseListed /\ q = "batch"
      <3>1. Head(batch.list) \in Fetched
        <4>1. batch.list \in Seq(Filings) /\ batch.list # <<>>
          BY <2>4 DEF ParseListed, Typed, Batches
        <4>2. Head(batch.list) \in Elements(batch.list)
          BY <4>1, HeadTail DEF Elements
        <4> QED BY <4>2 DEF Staged
      <3>2. PICK f \in Fetched : f = Head(batch.list)
        BY <3>1
      <3>3. f \in Fetched' /\ parse'[q] = ParseOf(f)
        BY <2>4, <3>2 DEF ParseListed, Fetched, Typed
      <3> QED BY <3>3, StartsSound
    <2>5. \/ parse' = parse
          \/ \E p \in Parsers : parse' = [parse EXCEPT ![p] = None]
          \/ \E p \in Parsers : Read(p)
          \/ \E f \in Filings : Xbrld(f)
          \/ ParseListed
      BY DEF Next, vars, Publish, Republish, Pulld, Watchd, StartBatch, WatchGroup,
             WatchFails, PullGroup, ListGroup, NextGroup, Get, Write, Update, Commit,
             PullFails, Store, ParseFails
    <2>6. \A p \in Parsers : Read(p) /\ p # q => parse'[q] = parse[q]
      BY DEF Read, Typed
    <2>7. ParseListed /\ q # "batch" => parse'[q] = parse[q]
      BY DEF ParseListed, Typed
    <2>8. \A f \in Filings : Xbrld(f) /\ q # "xbrld" => parse'[q] = parse[q]
      BY DEF Xbrld, Typed
    <2>9. \A p \in Parsers : parse' = [parse EXCEPT ![p] = None] => parse'[q] = parse[q]
      BY <1>2 DEF Typed
    <2> QED BY <2>1, <2>2, <2>3, <2>4, <2>5, <2>6, <2>7, <2>8, <2>9
  <1> QED BY <1>1, <1>2 DEF ParsesFetched

-----------------------------------------------------------------------------
(* The newest of a form cover it *)

\* A larger set covers what a smaller one does.
LEMMA CoversMore ==
    ASSUME NEW T \in SUBSET Filings, NEW S \in SUBSET T, NEW f, NEW n \in Nat, Covers(S, f, n)
    PROVE  Covers(T, f, n)
  <1> DEFINE Of(U) == {h \in U : Form[h] = Form[f] /\ Date[h] >= Date[f]}
  <1>1. IsFiniteSet(Of(T))
    BY IngestionAssumption, FS_Subset
  <1>2. Of(S) \subseteq Of(T)
    OBVIOUS
  <1>3. Cardinality(Of(S)) <= Cardinality(Of(T)) /\ Cardinality(Of(S)) \in Nat /\ Cardinality(Of(T)) \in Nat
    <2> HIDE DEF Of
    <2> QED BY <1>1, <1>2, FS_Subset, FS_CardinalityType
  <1>4. f \in S \/ Cardinality(Of(S)) >= n
    BY DEF Covers
  <1>5. f \in T \/ Cardinality(Of(T)) >= n
    <2> HIDE DEF Of
    <2> QED BY <1>3, <1>4
  <1> QED BY <1>5 DEF Covers

\* A prefix of a list has no more elements than positions.
LEMMA FewInPrefix ==
    ASSUME NEW k \in Nat, NEW s, NEW i \in 1..k
    PROVE  /\ IsFiniteSet({s[j] : j \in 1..(i - 1)}) /\ Cardinality({s[j] : j \in 1..(i - 1)}) < i
           /\ Cardinality({s[j] : j \in 1..(i - 1)}) \in Nat
  <1> DEFINE m == i - 1
             S == {s[j] : j \in 1..m}
             to == [j \in 1..m |-> s[j]]
  <1>1. m \in Nat /\ m < i
    OBVIOUS
  <1> HIDE DEF m
  <1>2. to \in Surjection(1..m, S)
    BY DEF Surjection
  <1>3. ExistsSurjection(1..m, S)
    BY <1>2 DEF ExistsSurjection
  <1> HIDE DEF S, to
  <1>4. Cardinality(S) <= m /\ IsFiniteSet(S)
    BY <1>1, <1>3, FS_SurjCardinalityBound, FS_NatSurjection
  <1>5. Cardinality(S) \in Nat
    BY <1>4, FS_CardinalityType
  <1>6. Cardinality(S) < i
    BY <1>1, <1>4, <1>5
  <1> QED BY <1>4, <1>5, <1>6 DEF S, m

\* Selecting the newest of a set keeps what the set covered.
LEMMA NewestCovers ==
    ASSUME NEW S \in SUBSET Filings, NEW n \in Nat, NEW s, Newest(s, S, n), NEW f \in Filings,
           \A h \in S : Form[h] = Form[f], Covers(S, f, n)
    PROVE  Covers(Elements(s), f, n)
  <1> DEFINE k == IF n < Cardinality(S) THEN n ELSE Cardinality(S)
             E == Elements(s)
             Late(T) == {h \in T : Date[h] >= Date[f]}
  <1>1. IsFiniteSet(S) /\ Cardinality(S) \in Nat /\ k \in Nat /\ \A h \in Filings : Date[h] \in Int
    BY IngestionAssumption, FS_Subset, FS_CardinalityType
  <1>2. /\ s \in [1..k -> S]
        /\ \A i \in 1..k : /\ \A j \in 1..(i - 1) : s[j] # s[i]
                           /\ \A h \in S \ {s[j] : j \in 1..(i - 1)} : Date[h] <= Date[s[i]]
    BY DEF Newest
  <1> HIDE DEF k
  <1>3. E \subseteq S /\ IsFiniteSet(E) /\ Cardinality(E) = k
    <2>1. E \subseteq S /\ \A x \in E : \E i \in 1..k : s[i] = x
      BY <1>2 DEF Elements
    <2>2. \A i, j \in 1..k : s[i] = s[j] => i = j
      <3> SUFFICES ASSUME NEW i \in 1..k, NEW j \in 1..k, s[i] = s[j], i < j PROVE FALSE
        BY <1>1
      <3>1. i \in 1..(j - 1)
        BY <1>1
      <3> QED BY <1>2, <3>1
    <2>3. s \in [1..k -> E]
      BY <1>2 DEF Elements
    <2>4. s \in Bijection(1..k, E)
      <3> HIDE DEF E
      <3> QED BY <2>1, <2>2, <2>3 DEF Bijection, Injection, Surjection, IsInjective
    <2>5. ExistsBijection(1..k, E)
      BY <2>4 DEF ExistsBijection
    <2> HIDE DEF E
    <2> QED BY <1>1, <2>1, <2>5, FS_CountingElements, FS_Subset
  <1>4. CASE k = Cardinality(S)
    <2>1. E = S
      <3> HIDE DEF E
      <3> QED BY <1>1, <1>3, <1>4, FS_Subset
    <2> QED BY <2>1
  <1>5. CASE k = n
    <2>1. ASSUME f \notin E
          PROVE  \A h \in E : Date[h] >= Date[f]
      <3> SUFFICES ASSUME NEW i \in 1..k, Date[s[i]] < Date[f] PROVE FALSE
        <4>1. \A i \in 1..k : s[i] \in Filings
          BY <1>2
        <4> QED BY <1>1, <1>2, <4>1 DEF Elements
      <3> DEFINE before == {s[j] : j \in 1..(i - 1)}
      <3>1. s[i] \in Filings
        BY <1>2
      <3>2. before \subseteq E
        BY <1>1, <1>2 DEF Elements
      <3>3. \A h \in S \ before : Date[h] <= Date[s[i]]
        BY <1>2
      <3>4. \A h \in S \ before : ~(Date[h] >= Date[f])
        <4> HIDE DEF before
        <4> QED BY <1>1, <3>1, <3>3
      <3>5. CASE f \in S
        <4>1. Date[f] >= Date[f]
          BY <1>1
        <4> HIDE DEF before, E
        <4> QED BY <2>1, <3>2, <3>4, <3>5, <4>1
      <3>6. CASE f \notin S
        <4>1. Cardinality(Late(S)) >= n
          <5>1. {h \in S : Form[h] = Form[f] /\ Date[h] >= Date[f]} = Late(S)
            OBVIOUS
          <5> QED BY <3>6, <5>1 DEF Covers
        <4>2. Late(S) \subseteq before
          BY <3>4
        <4>3. IsFiniteSet(before) /\ Cardinality(before) < i /\ Cardinality(before) \in Nat
          BY <1>1, FewInPrefix
        <4> HIDE DEF before, Late
        <4>4. Cardinality(Late(S)) <= Cardinality(before) /\ Cardinality(Late(S)) \in Nat
          BY <4>2, <4>3, FS_Subset, FS_CardinalityType
        <4> QED BY <1>1, <1>5, <4>1, <4>3, <4>4
      <3> QED BY <3>5, <3>6
    <2>2. CASE f \in E
      BY <2>2 DEF Covers
    <2>3. CASE f \notin E
      <3>1. {h \in E : Form[h] = Form[f] /\ Date[h] >= Date[f]} = E
        <4> HIDE DEF E
        <4> QED BY <1>3, <2>1, <2>3
      <3>2. Cardinality(E) >= n
        <4> HIDE DEF E
        <4> QED BY <1>1, <1>3, <1>5
      <3> QED BY <3>1, <3>2 DEF Covers
    <2> QED BY <2>2, <2>3
  <1> QED BY <1>1, <1>4, <1>5 DEF k

-----------------------------------------------------------------------------
(* Where the batch is *)

\* The elements of a list, its head and its tail.
LEMMA ElementsOf ==
    ASSUME NEW S, NEW s \in Seq(S)
    PROVE  /\ Elements(s) \subseteq S
           /\ s = <<>> => Elements(s) = {}
           /\ s # <<>> => Elements(s) = {Head(s)} \union Elements(Tail(s))
  <1>1. Elements(s) \subseteq S
    BY DEF Elements
  <1>2. s = <<>> => Elements(s) = {}
    BY DEF Elements
  <1>3. ASSUME s # <<>>
        PROVE  Elements(s) = {Head(s)} \union Elements(Tail(s))
    <2> DEFINE t == Tail(s)
    <2>1. /\ 1 \in DOMAIN s /\ Head(s) = s[1]
          /\ \A i \in DOMAIN t : i + 1 \in DOMAIN s /\ t[i] = s[i + 1]
          /\ \A i \in DOMAIN s : i # 1 => i - 1 \in DOMAIN t /\ t[i - 1] = s[i]
      BY <1>3, HeadTail
    <2> HIDE DEF t
    <2>2. \A i \in DOMAIN s : s[i] = Head(s) \/ \E j \in DOMAIN t : t[j] = s[i]
      BY <2>1
    <2>3. \A i \in DOMAIN t : \E j \in DOMAIN s : s[j] = t[i]
      BY <2>1
    <2>4. \E j \in DOMAIN s : s[j] = Head(s)
      BY <2>1
    <2> QED BY <2>2, <2>3, <2>4 DEF Elements, t
  <1> QED BY <1>1, <1>2, <1>3

\* The fields of the batch.
LEMMA BatchOf ==
    ASSUME Typed
    PROVE  /\ batch.stage \in Stages /\ batch.group \in DOMAIN Groups /\ batch.list \in Seq(Filings)
           /\ batch.errors \in BOOLEAN
           /\ DOMAIN Groups \subseteq Nat
           /\ \A g \in DOMAIN Groups : Groups[g].limit \in Nat
           /\ batch = [stage |-> batch.stage, group |-> batch.group, list |-> batch.list,
                       errors |-> batch.errors]
  BY IngestionAssumption DEF Typed, Batches

\* A step that fails leaves a record of it.
LEMMA BrokenIs ==
    ASSUME Typed, NEW to \in Batches, NEW b \in Broken(to) \union {Skip(to)}
    PROVE  \/ b.stage = "failed" /\ b.list = batch.list /\ b.group = batch.group
           \/ b.errors = TRUE /\ b.stage = to.stage /\ b.list = to.list /\ b.group = to.group
  BY DEF Broken, Skip, Typed, Batches

\* A batch that fails at its last step.
LEMMA DoneIs ==
    ASSUME Typed, NEW b \in Broken([batch EXCEPT !.stage = "done"])
    PROVE  /\ b.list = batch.list /\ b.group = batch.group
           /\ b.stage = "failed" \/ (b.stage = "done" /\ b.errors = TRUE)
  <1> DEFINE to == [batch EXCEPT !.stage = "done"]
  <1>1. to \in Batches /\ to.stage = "done" /\ to.list = batch.list /\ to.group = batch.group
    BY DEF Typed, Batches, Stages
  <1> HIDE DEF to
  <1>2. b \in Broken(to)
    BY DEF to
  <1> QED BY <1>1, <1>2, BrokenIs

Ahead(b, g) ==
  /\ b.stage \in {"watch", "pull", "list", "parse"} /\ g > b.group => shown[g] = {}
  /\ b.stage = "watch" /\ g = b.group => shown[g] = {}

\* A step that leaves the batch where it is.
LEMMA StagedFrame ==
    ASSUME Staged, UNCHANGED <<batch, shown>>, DOMAIN rows \subseteq DOMAIN rows', Fetched \subseteq Fetched',
           pull'["batch"] # NoPull => pull["batch"] # NoPull \/ batch.stage = "pull",
           parse'["batch"] # None => parse["batch"] # None /\ parse'["batch"].filing = parse["batch"].filing
    PROVE  Staged'
  BY DEF Staged, Elements

\* A step that takes it on.
LEMMA StagedNext ==
    ASSUME Staged, shown' = shown, DOMAIN rows \subseteq DOMAIN rows',
           pull'["batch"] = NoPull, parse'["batch"] = None, Elements(batch'.list) \subseteq Fetched',
           \A g \in DOMAIN Groups : Ahead(batch', g)
    PROVE  Staged'
  <1>1. \A g \in DOMAIN Groups :
          /\ shown'[g] \subseteq DOMAIN rows' /\ \A f \in shown'[g] : Form[f] = Groups[g].form
          /\ batch'.stage \in {"watch", "pull", "list", "parse"} /\ g > batch'.group => shown'[g] = {}
          /\ batch'.stage = "watch" /\ g = batch'.group => shown'[g] = {}
    BY DEF Staged, Ahead
  <1> QED BY <1>1 DEF Staged, Elements

\* No step deletes a row or unsets raw_sha256.
LEMMA RowsGrow ==
    ASSUME Typed, FirstPull, [Next]_vars
    PROVE  DOMAIN rows \subseteq DOMAIN rows' /\ Fetched \subseteq Fetched'
  <1>1. Fetched \subseteq Fetched'
    BY FetchedKeeps
  <1>2. DOMAIN rows \subseteq DOMAIN rows'
    <2>1. CASE \E p \in Pullers : Commit(p)
      BY <2>1, CommitIs
    <2>2. CASE WatchGroup \/ Watchd
      BY <2>2, RowsListed, WithRowsIs
    <2>3. CASE rows' = rows
      BY <2>3
    <2> QED BY <2>1, <2>2, <2>3 DEF Next, vars, Publish, Republish, Pulld, Xbrld, StartBatch,
             WatchFails, PullGroup, ListGroup, ParseListed, NextGroup, Get, Write, Update,
             PullFails, Read, Store, ParseFails
  <1> QED BY <1>1, <1>2

\* Every step keeps the batch where its stage says.
LEMMA StagedKeeps ==
    ASSUME Typed, Packaged, FirstPull, ParsesFetched, Staged, [Next]_vars
    PROVE  Staged'
  <1>1. DOMAIN rows \subseteq DOMAIN rows' /\ Fetched \subseteq Fetched'
    BY RowsGrow
  <1>2. /\ pull["batch"] # NoPull => batch.stage = "pull"
        /\ parse["batch"] # None =>
             batch.stage = "parse" /\ batch.list # <<>> /\ parse["batch"].filing = Head(batch.list)
        /\ Elements(batch.list) \subseteq Fetched
        /\ \A g \in DOMAIN Groups : Ahead(batch, g)
    BY DEF Staged, Ahead
  <1>3. /\ batch.stage \in Stages /\ batch.group \in DOMAIN Groups /\ batch.list \in Seq(Filings)
        /\ DOMAIN Groups \subseteq Nat
    BY BatchOf
  <1>4. "batch" \in Pullers /\ "batch" \in Parsers /\ pull["batch"] \in Pulls
    BY DEF Pullers, Parsers, Typed
  <1>5. Elements(batch.list) \subseteq Fetched'
    BY <1>1, <1>2
  <1>6. \A b : b.group = batch.group /\ b.stage \in {"pull", "list", "parse", "done", "failed"}
                 /\ batch.stage \in {"watch", "pull", "list", "parse"} => \A g \in DOMAIN Groups : Ahead(b, g)
    BY <1>2 DEF Ahead
  <1>7. CASE Publish \/ \E f \in Filings : Republish(f) \/ Pulld(f) \/ Xbrld(f)
    <2>1. UNCHANGED <<batch, shown>> /\ pull'["batch"] = pull["batch"] /\ parse'["batch"] = parse["batch"]
      BY <1>7, <1>4 DEF Publish, Republish, Pulld, Xbrld, history, Typed
    <2> QED BY <1>1, <2>1, StagedFrame
  <1>8. CASE Watchd \/ UNCHANGED vars
    BY <1>1, <1>8, StagedFrame DEF Watchd, history, vars
  <1>9. CASE StartBatch
    <2>1. /\ pull'["batch"] = NoPull /\ parse'["batch"] = None /\ batch'.list = <<>>
          /\ DOMAIN shown' = DOMAIN Groups /\ \A g \in DOMAIN Groups : shown'[g] = {}
      BY <1>2, <1>9 DEF StartBatch
    <2>2. Elements(batch'.list) = {}
      BY <2>1 DEF Elements
    <2> QED BY <2>1, <2>2 DEF Staged, Elements
  <1>10. CASE WatchGroup
    <2>1. /\ batch.stage = "watch" /\ batch' = [batch EXCEPT !.stage = "pull"]
          /\ shown' = [shown EXCEPT ![batch.group] = Listed(batch.group)]
          /\ rows' = WithRows(Listed(batch.group)) /\ UNCHANGED <<pull, parse>>
      BY <1>10 DEF WatchGroup
    <2>2. batch'.stage = "pull" /\ batch'.list = batch.list /\ batch'.group = batch.group
      BY <2>1 DEF Typed, Batches
    <2>3. pull["batch"] = NoPull /\ parse["batch"] = None
      BY <1>2, <2>1
    <2>4. Listed(batch.group) \subseteq DOMAIN rows' /\ \A f \in Listed(batch.group) : Form[f] = Groups[batch.group].form
      <3>1. Listed(batch.group) \in SUBSET Filings
        BY <1>3, ListedIs
      <3>2. DOMAIN rows' = DOMAIN rows \union Listed(batch.group)
        BY <2>1, <3>1, WithRowsIs
      <3> QED BY <1>3, <3>2, ListedIs
    <2>5. \A g \in DOMAIN Groups :
            /\ shown'[g] \subseteq DOMAIN rows' /\ \A f \in shown'[g] : Form[f] = Groups[g].form
            /\ g > batch.group => shown'[g] = {}
      <3> SUFFICES ASSUME NEW g \in DOMAIN Groups
                   PROVE  /\ shown'[g] \subseteq DOMAIN rows' /\ \A f \in shown'[g] : Form[f] = Groups[g].form
                          /\ g > batch.group => shown'[g] = {}
        OBVIOUS
      <3>1. CASE g = batch.group
        <4>1. shown'[g] = Listed(batch.group)
          BY <2>1, <3>1 DEF Typed
        <4> QED BY <1>3, <2>4, <3>1, <4>1
      <3>2. CASE g # batch.group
        <4>1. shown'[g] = shown[g]
          BY <2>1, <3>2 DEF Typed
        <4> QED BY <1>1, <2>1, <4>1 DEF Staged
      <3> QED BY <3>1, <3>2
    <2> QED BY <1>5, <2>1, <2>2, <2>3, <2>5 DEF Staged, Elements
  <1>11. CASE WatchFails
    <2>1. /\ batch.stage = "watch" /\ batch' \in Broken([batch EXCEPT !.stage = "done"])
          /\ UNCHANGED <<pull, parse, shown>>
      BY <1>11 DEF WatchFails, history
    <2>3. batch'.stage \in {"done", "failed"} /\ batch'.list = batch.list /\ batch'.group = batch.group
      BY <2>1, DoneIs
    <2> QED BY <1>1, <1>2, <1>5, <1>6, <2>1, <2>3, StagedNext
  <1>12. CASE PullGroup
    BY <1>1, <1>12, StagedFrame DEF PullGroup, history
  <1>13. CASE ListGroup
    <2>1. PICK s \in ToParse(batch.group) :
            batch.stage = "list" /\ batch' = [batch EXCEPT !.stage = "parse", !.list = s]
            /\ UNCHANGED <<pull, parse, shown>>
      BY <1>13 DEF ListGroup, history
    <2>2. batch'.stage = "parse" /\ batch'.list = s /\ batch'.group = batch.group
      BY <2>1 DEF Typed, Batches
    <2>3. Elements(s) \subseteq Fetched
      <3> DEFINE S == {f \in OfForm(batch.group) : rows[f] # None}
      <3>1. Newest(s, S, Groups[batch.group].limit)
        BY <1>3, <2>1, ToParseIs
      <3>2. S \in SUBSET Filings /\ Groups[batch.group].limit \in Nat /\ S \subseteq Fetched
        BY BatchOf DEF OfForm, Typed, Fetched
      <3> QED BY <3>1, <3>2, NewestIsSeq
    <2> QED BY <1>1, <1>2, <1>6, <2>1, <2>2, <2>3, StagedNext
  <1>14. CASE ParseListed
    <2>1. /\ batch.stage = "parse" /\ batch.list # <<>> /\ UNCHANGED <<pull, batch, shown>>
          /\ parse'["batch"] = ParseOf(Head(batch.list))
      BY <1>4, <1>14 DEF ParseListed, history, Typed
    <2>2. parse'["batch"].filing = Head(batch.list)
      BY <2>1 DEF ParseOf
    <2> QED BY <1>1, <2>1, <2>2 DEF Staged, Elements
  <1>15. CASE NextGroup
    <2>1. /\ batch.stage = "parse" /\ batch.list = <<>> /\ UNCHANGED <<pull, parse, shown>>
          /\ batch' = IF batch.group < Len(Groups)
                        THEN [batch EXCEPT !.stage = "watch", !.group = batch.group + 1]
                        ELSE [batch EXCEPT !.stage = "done"]
      BY <1>15 DEF NextGroup, history
    <2>2. CASE batch.group < Len(Groups)
      <3>1. batch'.stage = "watch" /\ batch'.list = batch.list /\ batch'.group = batch.group + 1
        BY <2>1, <2>2 DEF Typed, Batches
      <3>2. \A g \in DOMAIN Groups : Ahead(batch', g)
        BY <1>2, <1>3, <2>1, <3>1 DEF Ahead
      <3> QED BY <1>1, <1>2, <1>5, <2>1, <3>1, <3>2, StagedNext
    <2>3. CASE ~(batch.group < Len(Groups))
      <3>1. batch'.stage = "done" /\ batch'.list = batch.list /\ batch'.group = batch.group
        BY <2>1, <2>3 DEF Typed, Batches
      <3> QED BY <1>1, <1>2, <1>5, <1>6, <2>1, <3>1, StagedNext
    <2> QED BY <2>2, <2>3
  <1>16. CASE \E p \in Pullers : Get(p) \/ Write(p) \/ Update(p)
    <2>1. PICK p \in Pullers : Get(p) \/ Write(p) \/ Update(p)
      BY <1>16
    <2>2. UNCHANGED <<batch, shown, parse>> /\ pull[p] # NoPull
      <3>1. pull[p].todo # <<>>
        BY <2>1 DEF Get, Write, Update, Fetching
      <3>2. pull[p] # NoPull
        BY <3>1, NoPullIs
      <3> QED BY <2>1, <3>2 DEF Get, Write, Update, history
    <2>3. pull'["batch"] # NoPull => pull["batch"] # NoPull
      <3>1. p # "batch" => pull'["batch"] = pull["batch"]
        BY <1>4, <2>1 DEF Get, Write, Update, Typed
      <3> QED BY <2>2, <3>1
    <2> QED BY <1>1, <2>2, <2>3, StagedFrame
  <1>17. CASE \E p \in Pullers : Commit(p) \/ PullFails(p)
    <2>1. PICK p \in Pullers : Commit(p) \/ PullFails(p)
      BY <1>17
    <2>2. pull[p] # NoPull /\ pull' = [pull EXCEPT ![p] = NoPull] /\ UNCHANGED <<parse, shown>>
      BY <2>1 DEF Commit, PullFails
    <2>3. CASE p # "batch"
      <3>1. batch' = batch /\ pull'["batch"] = pull["batch"]
        BY <1>4, <2>1, <2>2, <2>3 DEF Commit, PullFails, Typed
      <3> QED BY <1>1, <2>2, <3>1, StagedFrame
    <2>4. CASE p = "batch"
      <3>1. pull'["batch"] = NoPull /\ batch.stage = "pull" /\ parse'["batch"] = None
        BY <1>2, <1>4, <2>2, <2>4 DEF Typed
      <3>2. batch'.stage \in {"list", "done", "failed"} /\ batch'.list = batch.list /\ batch'.group = batch.group
        <4>1. CASE Commit(p)
          <5>1. batch' = [batch EXCEPT !.stage = "list"]
            BY <2>4, <4>1 DEF Commit
          <5> QED BY <5>1 DEF Typed, Batches
        <4>2. CASE PullFails(p)
          <5>1. batch' \in Broken([batch EXCEPT !.stage = "done"])
            BY <2>4, <4>2 DEF PullFails
          <5> QED BY <5>1, DoneIs
        <4> QED BY <2>1, <4>1, <4>2
      <3> QED BY <1>1, <1>5, <1>6, <2>2, <3>1, <3>2, StagedNext
    <2> QED BY <2>3, <2>4
  <1>18. CASE \E q \in Parsers : Read(q)
    <2>1. PICK q \in Parsers : Read(q)
      BY <1>18
    <2>2. UNCHANGED <<batch, shown, pull>>
      BY <2>1 DEF Read, history
    <2>3. parse'["batch"] # None => parse["batch"] # None /\ parse'["batch"].filing = parse["batch"].filing
      <3>1. CASE q # "batch"
        BY <1>4, <2>1, <3>1 DEF Read, Typed
      <3>2. CASE q = "batch"
        <4>1. parse["batch"] # None /\ SoundParse(parse["batch"])
          BY <1>4, <2>1, <3>2 DEF Read, ParsesFetched
        <4>2. \E v : \/ parse'["batch"] = [parse["batch"] EXCEPT !.index = v]
                     \/ parse'["batch"] = [parse["batch"] EXCEPT !.files = v]
          BY <1>4, <2>1, <3>2 DEF Read, Typed
        <4>3. parse["batch"] = [filing |-> parse["batch"].filing, index |-> parse["batch"].index,
                                files |-> parse["batch"].files]
          BY <4>1 DEF SoundParse
        <4> QED BY <4>1, <4>2, <4>3
      <3> QED BY <3>1, <3>2
    <2> QED BY <1>1, <2>2, <2>3, StagedFrame
  <1>19. CASE \E q \in Parsers : Store(q) \/ ParseFails(q)
    <2>1. PICK q \in Parsers : Store(q) \/ ParseFails(q)
      BY <1>19
    <2>2. parse[q] # None /\ parse' = [parse EXCEPT ![q] = None] /\ UNCHANGED <<pull, shown>>
      BY <2>1 DEF Store, ParseFails, history
    <2>3. CASE q # "batch"
      <3>1. batch' = batch /\ parse'["batch"] = parse["batch"]
        BY <1>4, <2>1, <2>2, <2>3 DEF Store, ParseFails, Typed
      <3> QED BY <1>1, <2>2, <3>1, StagedFrame
    <2>4. CASE q = "batch"
      <3>1. parse'["batch"] = None /\ batch.stage = "parse" /\ batch.list # <<>> /\ pull'["batch"] = NoPull
        BY <1>2, <1>4, <2>2, <2>4 DEF Typed
      <3> DEFINE next == [batch EXCEPT !.list = Tail(batch.list)]
      <3>2. next \in Batches /\ next.stage = batch.stage /\ next.list = Tail(batch.list) /\ next.group = batch.group
        <4>1. batch \in Batches /\ "parse" \in Stages /\ <<>> \in Seq(Filings)
          BY DEF Typed, Stages
        <4>2. next \in Batches
          BY <3>1, <4>1, BatchIs
        <4>3. next.stage = batch.stage /\ next.list = Tail(batch.list) /\ next.group = batch.group
          BY <4>1 DEF Batches
        <4> QED BY <4>2, <4>3
      <3>3. batch' \in {next} \union Broken(next) \union {Skip(next)}
        BY <2>1, <2>4 DEF Store, ParseFails
      <3>4. /\ batch'.stage \in {"parse", "failed"} /\ batch'.list \in {batch.list, Tail(batch.list)}
            /\ batch'.group = batch.group
        <4> HIDE DEF next
        <4> QED BY <3>1, <3>2, <3>3, BrokenIs
      <3>5. Elements(batch'.list) \subseteq Fetched'
        <4>1. Elements(Tail(batch.list)) \subseteq Elements(batch.list)
          BY <1>3, <3>1, ElementsOf
        <4> QED BY <1>5, <3>4, <4>1
      <3> QED BY <1>1, <1>6, <2>2, <3>1, <3>4, <3>5, StagedNext
    <2> QED BY <2>3, <2>4
  <1> QED BY <1>7, <1>8, <1>9, <1>10, <1>11, <1>12, <1>13, <1>14, <1>15, <1>16, <1>17, <1>18, <1>19 DEF Next

\* What is through is a set of filings.
LEMMA ThroughTyped ==
    ASSUME Typed', ParsesFetched', NEW g
    PROVE  Through(g)' \subseteq Filings
  <1>1. Fetched' \subseteq Filings /\ parsed' \subseteq Filings
    BY DEF Typed, Fetched, ParsesFetched
  <1>2. Elements(batch'.list) \subseteq Filings
    <2>1. batch'.list \in Seq(Filings)
      BY DEF Typed, Batches
    <2> QED BY <2>1, ElementsOf
  <1>3. Elements(pull'["batch"].todo) \subseteq Filings /\ DOMAIN pull'["batch"].updates \subseteq Filings
    <2>1. pull'["batch"] \in Pulls
      BY DEF Typed, Pullers
    <2>2. pull'["batch"].todo \in Seq(Filings) /\ pull'["batch"].updates \in Partial(Filings, Tables)
      BY <2>1 DEF Pulls
    <2> QED BY <2>2, ElementsOf, PartialIs
  <1> QED BY <1>1, <1>2, <1>3 DEF Through, Elements

\* What a batch has covered stays covered as more comes through.
LEMMA MoreThrough ==
    ASSUME Typed', ParsesFetched', NEW g \in DOMAIN Groups, NEW f,
           Covers(Through(g), f, Groups[g].limit), Through(g) \subseteq Through(g)'
    PROVE  Covers(Through(g), f, Groups[g].limit)'
  <1>1. Through(g)' \subseteq Filings
    BY ThroughTyped
  <1>2. PICK S, T : S = Through(g) /\ T = Through(g)'
    OBVIOUS
  <1>3. Groups[g].limit \in Nat
    BY IngestionAssumption
  <1>4. Covers(T, f, Groups[g].limit)
    BY <1>1, <1>2, <1>3, CoversMore
  <1> QED BY <1>2, <1>4 DEF Covers

\* The batch's pull selects from the listed rows that are not fetched.
LEMMA PullGroupCovers ==
    ASSUME Typed, Typed', ParsesFetched', Staged, PullGroup, NEW f \in shown[batch.group]
    PROVE  Covers(Through(batch.group), f, Groups[batch.group].limit)'
  <1>1. PICK g : g = batch.group
    OBVIOUS
  <1>2. g \in DOMAIN Groups /\ Groups[g].limit \in Nat
    BY <1>1, BatchOf
  <1>3. PICK s \in ToPull(g) : pull' = [pull EXCEPT !["batch"] = PullOf(s)]
    BY <1>1 DEF PullGroup
  <1>4. batch' = batch /\ batch.stage = "pull" /\ UNCHANGED <<rows, parsed>>
    BY DEF PullGroup
  <1>5. f \in DOMAIN rows /\ Form[f] = Groups[g].form /\ f \in Filings
    BY <1>1, <1>2 DEF Staged, Typed
  <1> DEFINE S == {h \in OfForm(g) : rows[h] = None}
  <1>6. S \in SUBSET Filings /\ \A h \in S : Form[h] = Form[f]
    BY <1>5 DEF OfForm, Typed
  <1>7. Newest(s, S, Groups[g].limit)
    BY <1>2, <1>3, ToPullIs
  <1>8. Elements(s) \union Fetched \subseteq Through(g)'
    <2>1. pull'["batch"].todo = s
      BY <1>3 DEF Typed, Pullers, PullOf
    <2>2. Fetched' = Fetched
      BY <1>4 DEF Fetched
    <2>3. Elements(s) \subseteq Filings /\ Fetched \subseteq Filings
      BY <1>2, <1>6, <1>7, NewestIsSeq DEF Fetched, Typed
    <2>4. batch'.group = g /\ batch'.stage = "pull" /\ g \in Int /\ ~(g < g)
      BY <1>1, <1>2, <1>4, IngestionAssumption
    <2> QED BY <2>1, <2>2, <2>3, <2>4 DEF Through, Elements
  <1>9. Through(g)' \subseteq Filings
    BY ThroughTyped
  <1>10. PICK T : T = Through(g)'
    OBVIOUS
  <1>11. Covers(T, f, Groups[g].limit)
    <2>1. CASE rows[f] # None
      <3>1. f \in T
        BY <1>5, <1>8, <1>10, <2>1 DEF Fetched
      <3> QED BY <3>1 DEF Covers
    <2>2. CASE rows[f] = None
      <3>1. f \in S
        BY <1>5, <2>2 DEF OfForm
      <3>2. Covers(S, f, Groups[g].limit)
        BY <3>1 DEF Covers
      <3> HIDE DEF S
      <3>3. Covers(Elements(s), f, Groups[g].limit)
        BY <1>2, <1>5, <1>6, <1>7, <3>2, NewestCovers
      <3> QED BY <1>2, <1>8, <1>9, <1>10, <3>3, CoversMore
    <2> QED BY <2>1, <2>2
  <1>12. batch'.group = batch.group
    BY <1>4
  <1> QED BY <1>1, <1>10, <1>11, <1>12 DEF Covers

\* Its parses are selected from the rows that are fetched.
LEMMA ListGroupCovers ==
    ASSUME Typed, Typed', ParsesFetched', Staged, ListGroup, NEW f \in shown[batch.group],
           Covers(Fetched, f, Groups[batch.group].limit)
    PROVE  Covers(Through(batch.group), f, Groups[batch.group].limit)'
  <1>1. PICK g : g = batch.group
    OBVIOUS
  <1>2. g \in DOMAIN Groups /\ Groups[g].limit \in Nat
    BY <1>1, BatchOf
  <1>3. PICK s \in ToParse(g) : batch' = [batch EXCEPT !.stage = "parse", !.list = s]
    BY <1>1 DEF ListGroup
  <1>4. batch'.stage = "parse" /\ batch'.list = s /\ batch'.group = g
    BY <1>1, <1>3 DEF Typed, Batches
  <1>5. f \in DOMAIN rows /\ Form[f] = Groups[g].form /\ f \in Filings
    BY <1>1, <1>2 DEF Staged, Typed
  <1> DEFINE S == {h \in OfForm(g) : rows[h] # None}
  <1>6. S \in SUBSET Filings /\ \A h \in S : Form[h] = Form[f]
    BY <1>5 DEF OfForm, Typed
  <1>7. Newest(s, S, Groups[g].limit)
    BY <1>2, <1>3, ToParseIs
  <1>8. Covers(S, f, Groups[g].limit)
    <2>1. \A h \in Fetched : Form[h] = Form[f] => h \in S
      BY <1>5 DEF Fetched, OfForm
    <2>2. S \subseteq Fetched
      BY DEF Fetched, OfForm
    <2>3. {h \in S : Form[h] = Form[f] /\ Date[h] >= Date[f]} =
            {h \in Fetched : Form[h] = Form[f] /\ Date[h] >= Date[f]}
      <3> HIDE DEF S
      <3> QED BY <2>1, <2>2
    <2>4. f \in Fetched => f \in S
      <3> HIDE DEF S
      <3> QED BY <2>1
    <2> HIDE DEF S
    <2> QED BY <1>1, <2>3, <2>4 DEF Covers
  <1>9. Covers(Elements(s), f, Groups[g].limit)
    <2> HIDE DEF S
    <2> QED BY <1>2, <1>5, <1>6, <1>7, <1>8, NewestCovers
  <1>10. Elements(s) \subseteq Through(g)'
    <2>1. g \in Int /\ ~(g < g)
      BY <1>2, IngestionAssumption
    <2> QED BY <1>4, <2>1 DEF Through, Elements
  <1>11. Through(g)' \subseteq Filings
    BY ThroughTyped
  <1>12. PICK T : T = Through(g)'
    OBVIOUS
  <1>13. Covers(T, f, Groups[g].limit)
    BY <1>2, <1>9, <1>10, <1>11, <1>12, CoversMore
  <1> QED BY <1>1, <1>4, <1>12, <1>13 DEF Covers

\* A step of another process, or of a pull or parse of the batch.
LEMMA SameBatch ==
    ASSUME Typed, Typed', ParsesFetched', BatchCovers, UNCHANGED <<batch, shown>>,
           parsed \subseteq parsed', Fetched \subseteq Fetched',
           pull["batch"] = NoPull => pull'["batch"] = NoPull \/ batch.stage # "pull",
           pull["batch"] # NoPull /\ batch.stage = "pull" =>
             /\ pull'["batch"] # NoPull
             /\ Elements(pull["batch"].todo) \union DOMAIN pull["batch"].updates \subseteq
                  Elements(pull'["batch"].todo) \union DOMAIN pull'["batch"].updates
    PROVE  BatchCovers'
  <1> SUFFICES ASSUME batch.stage \notin {"idle", "failed"}, batch.errors = FALSE,
                      NEW g \in DOMAIN Groups, NEW f \in shown[g]
               PROVE  Covers(Through(g), f, Groups[g].limit)'
    BY DEF BatchCovers
  <1>1. Covers(Through(g), f, Groups[g].limit)
    BY DEF BatchCovers
  <1>2. Elements(batch.list) = Elements(batch'.list)
    BY DEF Elements
  <1>3. Through(g) \subseteq Through(g)'
    <2> DEFINE old == Elements(pull["batch"].todo) \union DOMAIN pull["batch"].updates
               new == Elements(pull'["batch"].todo) \union DOMAIN pull'["batch"].updates
    <2>1. CASE batch.stage = "done" \/ g < batch.group
      BY <2>1 DEF Through
    <2>2. CASE ~(g < batch.group) /\ g = batch.group /\ batch.stage = "pull" /\ pull["batch"] # NoPull
      <3>1. Through(g) = Fetched \union old
        BY <2>2 DEF Through
      <3>2. Through(g)' = Fetched' \union new
        BY <2>2 DEF Through, Elements
      <3> HIDE DEF old, new
      <3>3. old \subseteq new
        BY <2>2 DEF old, new
      <3> QED BY <3>1, <3>2, <3>3
    <2>3. CASE /\ ~(batch.stage = "done" \/ g < batch.group)
               /\ ~(g = batch.group /\ batch.stage = "pull" /\ pull["batch"] # NoPull)
      BY <1>2, <2>3 DEF Through, Elements
    <2>4. g = batch.group => ~(g < batch.group)
      BY IngestionAssumption
    <2> QED BY <2>1, <2>2, <2>3, <2>4
  <1> QED BY <1>1, <1>3, MoreThrough

\* A step of the batch's pull keeps the filings it is to fetch, or has.
LEMMA PullsOn ==
    ASSUME Typed, NEW p \in Pullers, Get(p) \/ Write(p) \/ Update(p)
    PROVE  /\ pull'[p] # NoPull
           /\ Elements(pull[p].todo) \union DOMAIN pull[p].updates \subseteq
                Elements(pull'[p].todo) \union DOMAIN pull'[p].updates
  <1>1. CASE Get(p) \/ Write(p)
    <2>1. pull'[p].todo = pull[p].todo /\ pull'[p].updates = pull[p].updates /\ pull[p].todo # <<>>
      <3>1. CASE Get(p)
        <4>1. PICK c \in Bytes : Becomes(p, pull[p].todo, pull[p].names, c, pull[p].hashed, pull[p].updates)
          BY <3>1, GetDoes
        <4> QED BY <3>1, <4>1, BecomesIs, GetDoes
      <3>2. CASE Write(p)
        BY <3>2, WriteDoes, BecomesIs
      <3> QED BY <1>1, <3>1, <3>2
    <2> QED BY <2>1, NoPullIs
  <1>2. CASE Update(p)
    <2> DEFINE todo == pull[p].todo
    <2>1. /\ todo # <<>> /\ pull'[p].todo = Tail(todo) /\ pull'[p].names = <<"index">>
          /\ pull'[p].updates = With(pull[p].updates, Head(todo), pull[p].hashed)
      BY <1>2, UpdateDoes, BecomesIs
    <2>2. pull'[p] # NoPull
      <3>1. NoPull.names = <<>> /\ <<"index">> # <<>>
        BY NoPullIs
      <3> QED BY <2>1, <3>1
    <2>3. DOMAIN pull'[p].updates = DOMAIN pull[p].updates \union {Head(todo)}
      BY <2>1 DEF With, Over
    <2>4. todo \in Seq(Filings)
      BY PullIs
    <2> HIDE DEF todo
    <2>5. Elements(todo) = {Head(todo)} \union Elements(Tail(todo))
      BY <2>1, <2>4, ElementsOf
    <2>6. Elements(todo) \union DOMAIN pull[p].updates \subseteq
            Elements(pull'[p].todo) \union DOMAIN pull'[p].updates
      BY <2>1, <2>3, <2>5
    <2> QED BY <2>2, <2>6 DEF todo
  <1> QED BY <1>1, <1>2

\* Every step of the batch passes on what it was shown, or records an error.
LEMMA BatchCoversKeeps ==
    ASSUME Typed, FirstPull, ParsesFetched, Staged, Typed', ParsesFetched', BatchCovers, [Next]_vars
    PROVE  BatchCovers'
  <1>1. DOMAIN rows \subseteq DOMAIN rows' /\ Fetched \subseteq Fetched'
    BY RowsGrow
  <1>2. "batch" \in Pullers /\ "batch" \in Parsers
    BY DEF Pullers, Parsers
  <1>3. /\ pull["batch"] # NoPull => batch.stage = "pull"
        /\ parse["batch"] # None =>
             batch.stage = "parse" /\ batch.list # <<>> /\ parse["batch"].filing = Head(batch.list)
        /\ \A g \in DOMAIN Groups :
             /\ shown[g] \subseteq DOMAIN rows
             /\ batch.stage \in {"watch", "pull", "list", "parse"} /\ g > batch.group => shown[g] = {}
    BY DEF Staged
  <1>4. /\ batch.stage \in Stages /\ batch.group \in DOMAIN Groups /\ batch.list \in Seq(Filings)
        /\ DOMAIN Groups \subseteq Nat /\ \A g \in DOMAIN Groups : Groups[g].limit \in Nat
    BY BatchOf
  <1>5. CASE batch' = batch /\ ~PullGroup
    <2>1. shown' = shown /\ parsed \subseteq parsed'
      <3>1. ~StartBatch
        <4>1. StartBatch => batch'.stage = "watch" /\ batch.stage # "watch"
          BY DEF StartBatch
        <4> QED BY <1>5, <4>1
      <3>2. ~WatchGroup
        <4>1. WatchGroup => batch'.stage = "pull" /\ batch.stage = "watch"
          BY DEF WatchGroup, Typed, Batches
        <4> QED BY <1>5, <4>1
      <3> QED BY <1>5, <3>1, <3>2 DEF Next, vars, history, Publish, Republish, Pulld, Xbrld, Watchd,
                  WatchFails, ListGroup, ParseListed, NextGroup, Get, Write, Update, Commit,
                  PullFails, Read, Store, ParseFails
    <2>2. /\ pull["batch"] = NoPull => pull'["batch"] = NoPull \/ batch.stage # "pull"
          /\ pull["batch"] # NoPull /\ batch.stage = "pull" =>
               /\ pull'["batch"] # NoPull
               /\ Elements(pull["batch"].todo) \union DOMAIN pull["batch"].updates \subseteq
                    Elements(pull'["batch"].todo) \union DOMAIN pull'["batch"].updates
      <3>1. CASE pull'["batch"] = pull["batch"]
        BY <3>1 DEF Elements
      <3>2. CASE \E p \in Pullers : Get(p) \/ Write(p) \/ Update(p)
        <4>1. PICK p \in Pullers : Get(p) \/ Write(p) \/ Update(p)
          BY <3>2
        <4>2. CASE p = "batch"
          <5>1. pull["batch"].todo # <<>>
            BY <4>1, <4>2 DEF Get, Write, Update, Fetching
          <5>2. pull["batch"] # NoPull
            BY <5>1, NoPullIs
          <5> QED BY <4>1, <4>2, <5>2, PullsOn
        <4>3. CASE p # "batch"
          <5>1. pull'["batch"] = pull["batch"]
            BY <1>2, <4>1, <4>3 DEF Get, Write, Update, Typed
          <5> QED BY <3>1, <5>1
        <4> QED BY <4>2, <4>3
      <3>3. CASE \E p \in Pullers : Commit(p) \/ PullFails(p)
        <4>1. PICK p \in Pullers : Commit(p) \/ PullFails(p)
          BY <3>3
        <4>2. p # "batch"
          <5> SUFFICES ASSUME p = "batch" PROVE FALSE
            OBVIOUS
          <5>1. batch.stage = "pull"
            BY <1>3, <4>1 DEF Commit, PullFails
          <5>2. CASE Commit(p)
            <6>1. batch'.stage = "list"
              BY <5>2 DEF Commit, Typed, Batches
            <6> QED BY <1>5, <5>1, <6>1
          <5>3. CASE PullFails(p)
            <6>1. batch' \in Broken([batch EXCEPT !.stage = "done"])
              BY <5>3 DEF PullFails
            <6> QED BY <1>5, <5>1, <6>1, DoneIs
          <5> QED BY <4>1, <5>2, <5>3
        <4>3. pull'["batch"] = pull["batch"]
          BY <1>2, <4>1, <4>2 DEF Commit, PullFails, Typed
        <4> QED BY <3>1, <4>3
      <3>4. CASE \E f \in Filings : Pulld(f)
        <4>1. pull'["batch"] = pull["batch"]
          BY <1>2, <3>4 DEF Pulld, Typed
        <4> QED BY <3>1, <4>1
      <3>5. \/ pull' = pull \/ \E p \in Pullers : Get(p) \/ Write(p) \/ Update(p) \/ Commit(p) \/ PullFails(p)
            \/ \E f \in Filings : Pulld(f)
        BY <1>5 DEF Next, vars, Publish, Republish, Xbrld, Watchd, StartBatch, WatchGroup,
                    WatchFails, ListGroup, ParseListed, NextGroup, Read, Store, ParseFails
      <3> QED BY <3>1, <3>2, <3>3, <3>4, <3>5
    <2> QED BY <1>1, <1>5, <2>1, <2>2, SameBatch
  <1>6. CASE \E q \in Parsers : ParseFails(q) /\ batch' # batch
    <2>1. PICK q \in Parsers : ParseFails(q) /\ batch' # batch
      BY <1>6
    <2> DEFINE next == [batch EXCEPT !.list = Tail(batch.list)]
    <2>2. batch' \in Broken(next) \union {Skip(next)} /\ q = "batch"
      BY <2>1 DEF ParseFails
    <2>3. next \in Batches
      <3>1. batch.list # <<>>
        BY <1>2, <1>3, <2>1, <2>2 DEF ParseFails
      <3>2. batch \in Batches /\ "idle" \in Stages /\ <<>> \in Seq(Filings)
        BY DEF Typed, Stages
      <3> QED BY <3>1, <3>2, BatchIs
    <2> HIDE DEF next
    <2>4. batch'.stage = "failed" \/ batch'.errors = TRUE
      BY <2>2, <2>3, BrokenIs
    <2> QED BY <2>4 DEF BatchCovers
  <1>7. CASE WatchFails \/ \E p \in Pullers : PullFails(p) /\ batch' # batch
    <2>1. batch' \in Broken([batch EXCEPT !.stage = "done"])
      BY <1>7 DEF WatchFails, PullFails
    <2>2. batch'.stage = "failed" \/ batch'.errors = TRUE
      BY <2>1, DoneIs
    <2> QED BY <2>2 DEF BatchCovers
  <1>8. CASE PullGroup \/ ListGroup \/ NextGroup \/ WatchGroup \/ StartBatch
             \/ (\E p \in Pullers : Commit(p) /\ batch' # batch)
             \/ (\E q \in Parsers : Store(q) /\ batch' # batch)
    <2> SUFFICES ASSUME batch'.stage \notin {"idle", "failed"}, batch'.errors = FALSE,
                        NEW g \in DOMAIN Groups, NEW f \in shown'[g]
                 PROVE  Covers(Through(g), f, Groups[g].limit)'
      BY DEF BatchCovers
    <2>1. CASE StartBatch
      BY <2>1 DEF StartBatch
    <2>2. g \in Nat /\ batch.group \in Nat
      BY <1>4
    <2>3. CASE WatchGroup
      <3>1. /\ batch.stage = "watch" /\ batch'.stage = "pull" /\ batch'.group = batch.group
            /\ batch'.errors = batch.errors
            /\ shown' = [shown EXCEPT ![batch.group] = Listed(batch.group)] /\ UNCHANGED <<pull, parsed>>
        BY <2>3 DEF WatchGroup, Typed, Batches
      <3>2. CASE g = batch.group
        <4>1. f \in Filings
          <5>1. shown'[g] = Listed(batch.group)
            BY <3>1, <3>2 DEF Typed
          <5> QED BY <1>4, <5>1, ListedIs
        <4>2. pull'["batch"] = NoPull
          BY <1>3, <3>1
        <4>3. Through(g)' = Filings
          BY <2>2, <3>1, <3>2, <4>2 DEF Through
        <4> QED BY <4>1, <4>3 DEF Covers
      <3>3. CASE g # batch.group
        <4>1. shown'[g] = shown[g]
          BY <3>1, <3>3 DEF Typed
        <4>2. g < batch.group
          BY <1>3, <2>2, <3>1, <3>3, <4>1
        <4>3. Covers(Through(g), f, Groups[g].limit)
          BY <3>1, <4>1 DEF BatchCovers
        <4>4. Through(g) \subseteq Through(g)'
          BY <3>1, <4>2 DEF Through
        <4> QED BY <4>3, <4>4, MoreThrough
      <3> QED BY <3>2, <3>3
    <2>4. ASSUME batch.stage \in {"pull", "list", "parse"}, batch'.group = batch.group \/ NextGroup,
                 shown' = shown, parsed \subseteq parsed', batch'.errors = batch.errors, g # batch.group
          PROVE  Covers(Through(g), f, Groups[g].limit)'
      <3>1. g < batch.group
        BY <1>3, <2>2, <2>4
      <3>2. Covers(Through(g), f, Groups[g].limit)
        BY <2>4 DEF BatchCovers
      <3>3. batch'.stage = "done" \/ g < batch'.group
        <4>1. CASE batch'.group = batch.group
          BY <3>1, <4>1
        <4>2. CASE NextGroup
          <5>1. batch'.stage = "done" \/ batch'.group = batch.group + 1
            BY <4>2 DEF NextGroup, Typed, Batches
          <5> QED BY <2>2, <3>1, <5>1
        <4> QED BY <2>4, <4>1, <4>2
      <3>4. batch'.group \in Nat
        BY IngestionAssumption DEF Typed, Batches
      <3>5. Through(g) = parsed /\ Through(g)' = parsed'
        BY <2>2, <3>1, <3>3, <3>4 DEF Through
      <3> QED BY <2>4, <3>2, <3>5, MoreThrough
    <2>5. CASE PullGroup
      <3>1. batch.stage = "pull" /\ batch' = batch /\ shown' = shown /\ parsed' = parsed
        BY <2>5 DEF PullGroup, history
      <3>2. CASE g = batch.group
        BY <2>5, <3>1, <3>2, PullGroupCovers
      <3> QED BY <2>4, <3>1, <3>2
    <2>6. CASE ListGroup
      <3>1. /\ batch.stage = "list" /\ batch'.group = batch.group /\ batch'.errors = batch.errors
            /\ shown' = shown /\ parsed' = parsed
        BY <2>6 DEF ListGroup, history, Typed, Batches
      <3>2. CASE g = batch.group
        <4>1. Covers(Through(g), f, Groups[g].limit)
          BY <3>1 DEF BatchCovers
        <4>2. Through(g) = Fetched
          BY <2>2, <3>1, <3>2 DEF Through
        <4> QED BY <2>6, <3>1, <3>2, <4>1, <4>2, ListGroupCovers
      <3> QED BY <2>4, <3>1, <3>2
    <2>7. CASE NextGroup
      <3>1. /\ batch.stage = "parse" /\ batch.list = <<>> /\ batch'.errors = batch.errors
            /\ shown' = shown /\ parsed' = parsed
            /\ batch'.stage = "done" \/ (batch'.stage = "watch" /\ batch'.group = batch.group + 1)
        BY <2>7 DEF NextGroup, history, Typed, Batches
      <3>2. CASE g = batch.group
        <4>1. Covers(Through(g), f, Groups[g].limit)
          BY <3>1 DEF BatchCovers
        <4>2. Through(g) = parsed
          <5>1. Elements(batch.list) = {}
            BY <3>1 DEF Elements
          <5> QED BY <2>2, <3>1, <3>2, <5>1 DEF Through
        <4>3. Through(g)' = parsed'
          BY <2>2, <3>1, <3>2 DEF Through
        <4> QED BY <3>1, <4>1, <4>2, <4>3, MoreThrough
      <3> QED BY <2>4, <2>7, <3>1, <3>2
    <2>8. CASE \E p \in Pullers : Commit(p) /\ batch' # batch
      <3>1. Commit("batch")
        BY <2>8 DEF Commit
      <3>2. /\ pull["batch"] # NoPull /\ pull["batch"].todo = <<>> /\ batch' = [batch EXCEPT !.stage = "list"]
            /\ shown' = shown /\ parsed' = parsed
        BY <3>1 DEF Commit
      <3>3. /\ batch.stage = "pull" /\ batch'.stage = "list" /\ batch'.group = batch.group
            /\ batch'.errors = batch.errors
        BY <1>3, <3>2 DEF Typed, Batches
      <3>4. CASE g = batch.group
        <4>1. Covers(Through(g), f, Groups[g].limit)
          BY <3>2, <3>3 DEF BatchCovers
        <4>2. Through(g) = Fetched \union DOMAIN pull["batch"].updates
          <5>1. Elements(pull["batch"].todo) = {}
            BY <3>2 DEF Elements
          <5> QED BY <2>2, <3>2, <3>3, <3>4, <5>1 DEF Through
        <4>3. Through(g)' = Fetched'
          BY <2>2, <3>3, <3>4 DEF Through
        <4>4. Fetched' = Fetched \union DOMAIN pull["batch"].updates
          BY <1>2, <3>1, CommitIs
        <4> QED BY <4>1, <4>2, <4>3, <4>4, MoreThrough
      <3> QED BY <2>4, <3>2, <3>3, <3>4
    <2>9. CASE \E q \in Parsers : Store(q) /\ batch' # batch
      <3>1. Store("batch")
        BY <2>9 DEF Store
      <3>2. /\ parse["batch"] # None /\ batch' = [batch EXCEPT !.list = Tail(batch.list)]
            /\ parsed' = parsed \union {parse["batch"].filing} /\ shown' = shown
        BY <3>1 DEF Store, history
      <3>3. /\ batch.stage = "parse" /\ batch.list # <<>> /\ parse["batch"].filing = Head(batch.list)
        BY <1>3, <3>2
      <3>4. /\ batch'.stage = "parse" /\ batch'.group = batch.group /\ batch'.list = Tail(batch.list)
            /\ batch'.errors = batch.errors
        BY <3>2, <3>3 DEF Typed, Batches
      <3>5. CASE g = batch.group
        <4>1. Covers(Through(g), f, Groups[g].limit)
          BY <3>2, <3>3, <3>4 DEF BatchCovers
        <4>2. Through(g) = parsed \union Elements(batch.list)
          BY <2>2, <3>3, <3>5 DEF Through
        <4>3. Through(g)' = parsed' \union Elements(Tail(batch.list))
          BY <2>2, <3>4, <3>5 DEF Through, Elements
        <4>4. Elements(batch.list) = {Head(batch.list)} \union Elements(Tail(batch.list))
          BY <1>4, <3>3, ElementsOf
        <4> QED BY <3>2, <3>3, <4>1, <4>2, <4>3, <4>4, MoreThrough
      <3> QED BY <2>4, <3>2, <3>3, <3>4, <3>5
    <2> QED BY <1>8, <2>1, <2>3, <2>5, <2>6, <2>7, <2>8, <2>9
  <1>9. \/ batch' = batch
        \/ StartBatch \/ WatchGroup \/ WatchFails \/ ListGroup \/ NextGroup
        \/ \E p \in Pullers : Commit(p) \/ PullFails(p)
        \/ \E q \in Parsers : Store(q) \/ ParseFails(q)
    BY DEF Next, vars, Publish, Republish, Pulld, Xbrld, Watchd, PullGroup, ParseListed, Get, Write,
           Update, Read
  <1> QED BY <1>5, <1>6, <1>7, <1>8, <1>9

-----------------------------------------------------------------------------
(* The results *)

IInv == Typed /\ Packaged /\ OneWriter /\ Undisturbed /\ FirstPull /\ ParsesFetched /\ Staged /\ BatchCovers

\* The inductive invariant holds initially,
LEMMA IInvInitially == Init => IInv
  <1> SUFFICES ASSUME Init PROVE IInv
    OBVIOUS
  <1>1. /\ pull["batch"] = NoPull /\ \A q \in Parsers : parse[q] = None
        /\ batch.stage = "idle" /\ batch.list = <<>>
        /\ parsed = {} /\ facts = {} /\ \A g \in DOMAIN Groups : shown[g] = {}
    BY DEF Init, TablesInit, Pullers
  <1>2. ParsesFetched
    BY <1>1 DEF ParsesFetched
  <1>3. Staged
    BY <1>1 DEF Staged, Elements, Parsers
  <1>4. BatchCovers
    BY <1>1 DEF BatchCovers
  <1> QED BY <1>2, <1>3, <1>4, TypedInitially, PullsInitially DEF IInv

\* every step keeps it,
LEMMA IInvKeeps == IInv /\ [Next]_vars => IInv'
  <1> SUFFICES ASSUME IInv, [Next]_vars PROVE IInv'
    OBVIOUS
  <1>1. Typed /\ Packaged /\ OneWriter /\ Undisturbed /\ FirstPull /\ ParsesFetched /\ Staged /\ BatchCovers
    BY DEF IInv
  <1>2. Typed'
    BY <1>1, TypedKeeps
  <1>3. Packaged'
    BY <1>1, PackagedKeeps
  <1>4. OneWriter'
    BY <1>1, OneWriterKeeps
  <1>5. Undisturbed' /\ FirstPull'
    BY <1>1, UndisturbedKeeps
  <1>6. ParsesFetched'
    BY <1>1, ParsesFetchedKeeps
  <1>7. Staged'
    BY <1>1, StagedKeeps
  <1>8. BatchCovers'
    BY <1>1, <1>2, <1>6, BatchCoversKeeps
  <1> QED BY <1>2, <1>3, <1>4, <1>5, <1>6, <1>7, <1>8 DEF IInv

\* and so it holds always.
LEMMA Invariant == Spec => []IInv
  BY IInvInitially, IInvKeeps, PTL DEF Spec

\* Rows, contexts and documents are of filings; a fact's rows are there.
THEOREM TypeCorrect == Spec => []TypeOK
  <1>1. IInv => TypeOK
    <2> SUFFICES ASSUME IInv PROVE TypeOK
      OBVIOUS
    <2>1. DOMAIN rows \subseteq Filings /\ batch.stage \in Stages
      BY DEF IInv, Typed, Batches
    <2>2. parsed \subseteq DOMAIN rows
      BY DEF IInv, ParsesFetched, Fetched
    <2>3. \A x \in facts : x.doc \in documents /\ <<x.doc.filing, x.item.context>> \in DOMAIN contexts
      BY DEF IInv, ParsesFetched, SoundFact
    <2> QED BY <2>1, <2>2, <2>3 DEF TypeOK, Stages
  <1> QED BY <1>1, Invariant, PTL

\* After any crash or retry the raw store holds what raw_sha256 was computed from,
\* unless two pulls of the filing overlapped (fs::write and the UPDATE in cmd_pull).
THEOREM FetchedIsOnDiskHolds == Spec => []FetchedIsOnDisk
  <1>1. IInv => FetchedIsOnDisk
    <2> SUFFICES ASSUME IInv, NEW f \in DOMAIN rows, last[f].state = "committed", last[f].alone
                 PROVE  /\ rows[f] # None
                        /\ \A n \in DOMAIN rows[f] : n \in DOMAIN disk[f] /\ disk[f][n] = rows[f][n]
      BY DEF FetchedIsOnDisk
    <2>1. f \in Filings
      BY DEF IInv, Typed
    <2>2. last[f].alone = TRUE
      <3>1. last[f].alone \in BOOLEAN
        BY <2>1 DEF IInv, Typed, LastPulls
      <3> QED BY <3>1
    <2>3. Intact(f) /\ Alone(f)
      BY <2>1, <2>2 DEF IInv, Undisturbed, Alone
    <2> QED BY <2>3 DEF Intact, Agrees
  <1> QED BY <1>1, Invariant, PTL

\* A filing that was pulled once and parsed has every fact of its package: no
\* parse takes the package before it is whole (the item of xbrld after the commit).
THEOREM ParsedIsCompleteHolds == Spec => []ParsedIsComplete
  <1>1. IInv => ParsedIsComplete
    <2> SUFFICES ASSUME IInv, NEW f \in parsed, last[f].first, rows[f] # None
                 PROVE  FactsOfPackage(f, rows[f]) \subseteq facts
      BY DEF ParsedIsComplete
    <2>1. f \in Filings
      BY DEF IInv, ParsesFetched, Fetched, Typed
    <2>2. last[f].first = TRUE
      <3>1. last[f].first \in BOOLEAN
        BY <2>1 DEF IInv, Typed, LastPulls
      <3> QED BY <3>1
    <2> QED BY <2>2 DEF IInv, ParsesFetched, Once
  <1> QED BY <1>1, Invariant, PTL

\* The instances of a package are one document, whatever the index repeats.
LEMMA OneInstance ==
    ASSUME NEW f, NEW table, Whole(table),
           NEW x \in FactsOfPackage(f, table), NEW y \in FactsOfPackage(f, table)
    PROVE  x.doc = y.doc
  <1> DEFINE index == table["index"]
             names == {index[k] : k \in DOMAIN index}
             files == FilesOf(table)
             instance == IF "extracted" \in names THEN "extracted" ELSE "primary"
  <1>1. FactsOfPackage(f, table) = FactsOfFiles(f, names, files)
    BY DEF FactsOfPackage, FilesOf, Items
  <1>2. ASSUME NEW z \in FactsOfFiles(f, names, files)
        PROVE  z.doc = [filing |-> f, name |-> instance, content |-> table[instance]]
    <2>1. PICK i \in Instances(names, files) :
            \E item \in ItemsOf(files[i].content) : z = [doc |-> DocOf(f, files[i]), item |-> item]
      BY DEF FactsOfFiles
    <2>2. z.doc = DocOf(f, files[i])
      BY <2>1
    <2>3. /\ i \in DOMAIN index /\ Artifact(index[i]) /\ index[i] \in names
          /\ files[i] = [name |-> index[i], content |-> table[index[i]]]
          /\ Kind(index[i], names) \in {"inline_xbrl", "xbrl_instance"}
      BY DEF Instances, FilesOf, Items
    <2>4. index[i] \in Names
      BY <2>3 DEF Whole
    <2>5. index[i] = instance
      BY <2>3, <2>4 DEF Names, Artifact, Kind
    <2> QED BY <2>2, <2>3, <2>5 DEF DocOf
  <1>3. x.doc = [filing |-> f, name |-> instance, content |-> table[instance]]
    <2>1. x \in FactsOfFiles(f, names, files)
      BY <1>1
    <2> HIDE DEF names, files, instance
    <2> QED BY <2>1, <1>2
  <1>4. y.doc = [filing |-> f, name |-> instance, content |-> table[instance]]
    <2>1. y \in FactsOfFiles(f, names, files)
      BY <1>1
    <2> HIDE DEF names, files, instance
    <2> QED BY <2>1, <1>2
  <1> QED BY <1>3, <1>4

\* No figure of a filing that was pulled once is counted from two of its files,
\* however often it is parsed (package_file_kind).
THEOREM NoDoubleCountHolds == Spec => []NoDoubleCount
  <1>1. IInv => NoDoubleCount
    <2> SUFFICES ASSUME IInv, NEW x \in facts, NEW y \in facts,
                        x.doc.filing = y.doc.filing, last[x.doc.filing].first
                 PROVE  x.doc = y.doc
      BY DEF NoDoubleCount
    <2>1. PICK f : f = x.doc.filing
      OBVIOUS
    <2>2. f \in Fetched /\ f \in Filings /\ SoundFact(x) /\ SoundFact(y)
      BY <2>1 DEF IInv, ParsesFetched, SoundFact, Fetched, Typed
    <2>3. Once(f)
      <3>1. last[f].first \in BOOLEAN
        BY <2>2 DEF IInv, Typed, LastPulls
      <3> QED BY <2>1, <3>1 DEF Once
    <2>4. Whole(rows[f])
      BY <2>2 DEF IInv, Packaged, Fetched
    <2> QED BY <2>1, <2>2, <2>3, <2>4, OneInstance DEF SoundFact
  <1> QED BY <1>1, Invariant, PTL

\* A batch that reports no error has covered what its watches listed, whatever the
\* daemons did between its watch, its pull and its parses (cmd_ingest_universe).
THEOREM BatchCoversFeedHolds == Spec => []BatchCoversFeed
  <1>1. IInv => BatchCoversFeed
    <2> SUFFICES ASSUME IInv, batch.stage = "done", ~batch.errors,
                        NEW g \in DOMAIN Groups, NEW f \in shown[g] \ parsed
                 PROVE  Cardinality({h \in parsed : Form[h] = Form[f] /\ Date[h] >= Date[f]}) >= Groups[g].limit
      BY DEF BatchCoversFeed
    <2>1. batch.errors = FALSE
      <3>1. batch.errors \in BOOLEAN
        BY DEF IInv, Typed, Batches
      <3> QED BY <3>1
    <2>2. Covers(Through(g), f, Groups[g].limit)
      BY <2>1 DEF IInv, BatchCovers
    <2>3. Through(g) = parsed
      BY DEF Through
    <2> QED BY <2>2, <2>3 DEF Covers
  <1> QED BY <1>1, Invariant, PTL
===============================================================================
