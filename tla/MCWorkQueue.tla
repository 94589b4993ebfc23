----------------------------- MODULE MCWorkQueue -----------------------------
(* A small queue for TLC: one filing, its pull, parse and model rows, and the  *)
(* risk rows of the runs the model command mints.                             *)
EXTENDS WorkQueue, TLC

CONSTANTS p1, x1, m1, r1, r2,   \* rows
          a, b, c, d                        \* daemons

Types == {"pull_accession", "parse_accession", "run_model", "risk_check"}

\* One filing through to the model, two pulld that race watchd's re-enqueueing and
\* a pland that may defer; every model run mints a risk row of its own.
ChainRows == {p1, x1, m1, r1, r2}
ChainTypeOf == (p1 :> "pull_accession") @@ (x1 :> "parse_accession") @@ (m1 :> "run_model")
            @@ [r \in {r1, r2} |-> "risk_check"]
ChainWorkers == {a, b, c, d}
ChainRoles == (a :> "pull_accession") @@ (b :> "pull_accession")
           @@ (c :> "parse_accession") @@ (d :> "run_model")
ChainFresh == {r1, r2}
ChainFollow == (p1 :> {{x1}}) @@ (x1 :> {{m1}}) @@ (m1 :> {{r} : r \in ChainFresh})
            @@ [r \in ChainFresh |-> {{}}]
ChainSource == {p1}
ChainGuarded == {"run_model", "risk_check"}
=============================================================================
