------------------------------ MODULE FlowGraph ------------------------------
(***************************************************************************)
(* topological_order (framework/graph.rs): Kahn's algorithm over the nodes *)
(* and edges of a workflow.  Its order is the order of execution, and its  *)
(* failure is the only test for cycles.                                    *)
(*                                                                         *)
(* The queue and the order of the code are one sequence here: found is     *)
(* the order followed by the queue, and done the length of the order.      *)
(***************************************************************************)
EXTENDS Integers, FiniteSets, Sequences

CONSTANTS
    Node,        \* distinct node ids, numbered as the BTreeMap sorts them
    MaxEdges,    \* bound: declared inputs of a workflow
    MaxNodes     \* bound: nodes a workflow declares, repeated ids included

ASSUME FlowGraphAssumption ==
    Node \subseteq Nat /\ IsFiniteSet(Node) /\ MaxEdges \in Nat /\ MaxNodes \in Nat

VARIABLES
    edges,       \* the edges by their place in the list, each <<from, to>>
    declared,    \* nodes.len()
    indegree,    \* indegree of each node id
    found,       \* the order, then the queue
    done,        \* how much of found was popped
    todo,        \* edges to the children of the popped node still to visit
    verdict      \* "none", then "ordered" or "cyclic"

vars == <<edges, declared, indegree, found, done, todo, verdict>>

From(e) == edges[e][1]
To(e) == edges[e][2]

\* Mutant: an input naming the same node under two roles is counted once.
InDegreeOfSources(n) == Cardinality({From(e) : e \in {f \in DOMAIN edges : To(f) = n}})

\* Two inputs from one node are two edges.
InDegree(n) == Cardinality({e \in DOMAIN edges : To(e) = n})

\* The nodes of indegree 0 in the order of the map.
Sources ==
    LET Zero == {n \in Node : indegree[n] = 0}
    IN  {s \in [1 .. Cardinality(Zero) -> Zero] :
            /\ \A i, j \in DOMAIN s : i < j => s[i] < s[j]
            /\ \A n \in Zero : \E i \in DOMAIN s : s[i] = n}

\* A repeated node id is counted by nodes.len() and has one entry in the map.
Init ==
    /\ \E k \in 0 .. MaxEdges : edges \in [1 .. k -> Node \X Node]
    /\ declared \in Cardinality(Node) .. MaxNodes
    /\ indegree = [n \in Node |-> InDegree(n)]
    /\ found \in Sources
    /\ done = 0 /\ todo = {} /\ verdict = "none"

Pop ==
    /\ todo = {} /\ done < Len(found)
    /\ done' = done + 1
    /\ todo' = {e \in DOMAIN edges : From(e) = found[done + 1]}
    /\ UNCHANGED <<edges, declared, indegree, found, verdict>>

\* One child of the popped node, in the order of the edge list; a child whose
\* degree is 0 after saturating_sub is queued.
Relax(e) ==
    /\ e \in todo /\ \A f \in todo : e <= f
    /\ todo' = todo \ {e}
    /\ indegree' = [indegree EXCEPT ![To(e)] = IF @ = 0 THEN 0 ELSE @ - 1]
    /\ found' = IF indegree'[To(e)] = 0 THEN Append(found, To(e)) ELSE found
    /\ UNCHANGED <<edges, declared, done, verdict>>

\* Mutant: the order is compared with the distinct ids.
ReturnCountingIds ==
    /\ todo = {} /\ done = Len(found) /\ verdict = "none"
    /\ verdict' = IF done # Cardinality(Node) THEN "cyclic" ELSE "ordered"
    /\ UNCHANGED <<edges, declared, indegree, found, done, todo>>

Return ==
    /\ todo = {} /\ done = Len(found) /\ verdict = "none"
    /\ verdict' = IF done # declared THEN "cyclic" ELSE "ordered"
    /\ UNCHANGED <<edges, declared, indegree, found, done, todo>>

Next == Pop \/ (\E e \in todo : Relax(e)) \/ Return

Spec == Init /\ [][Next]_vars
-----------------------------------------------------------------------------
\* Every member of S has an input from a member of S: a set like this holds a
\* cycle, and every cycle is one.
Circular(S) == \A n \in S : \E e \in DOMAIN edges : To(e) = n /\ From(e) \in S

Acyclic == \A S \in SUBSET Node : S # {} => ~Circular(S)

\* At every moment of the run, with several edges between two nodes and self
\* loops too, a node comes after each of its inputs: the executor never meets
\* a node whose input has not run.
OrderRespectsEdges ==
    \A e \in DOMAIN edges, j \in 1 .. Len(found) :
        found[j] = To(e) => \E i \in 1 .. j - 1 : found[i] = From(e)

\* An accepted order lists every declared node exactly once: none is run twice
\* and none is left out.
OrderIsComplete ==
    verdict = "ordered" =>
        /\ \A n \in Node : \E i \in 1 .. done : found[i] = n
        /\ \A i, j \in 1 .. done : found[i] = found[j] => i = j

\* The comparison of the two lengths decides acyclicity exactly, for workflows
\* whose ids are distinct; one that repeats an id is refused as cyclic.
VerdictIsExact ==
    verdict # "none" =>
        (verdict = "ordered" <=> Acyclic /\ declared = Cardinality(Node))

(* The inductive invariant of the proofs *)

TypeOK ==
    /\ \E k \in 0 .. MaxEdges : edges \in [1 .. k -> Node \X Node]
    /\ declared \in Cardinality(Node) .. MaxNodes
    /\ indegree \in [Node -> Nat]
    /\ found \in Seq(Node)
    /\ done \in 0 .. Len(found)
    /\ todo \subseteq DOMAIN edges
    /\ verdict \in {"none", "ordered", "cyclic"}

\* An edge counts until it was visited from its popped source.
Visited == {e \in DOMAIN edges : e \notin todo /\ \E i \in 1 .. done : found[i] = From(e)}
Open(n) == {e \in DOMAIN edges : To(e) = n /\ e \notin Visited}
IndegreeCountsOpen == \A n \in Node : indegree[n] = Cardinality(Open(n))

\* The edges still to visit leave the node popped last.
TodoOfPopped == todo # {} => done >= 1 /\ \A e \in todo : From(e) = found[done]

\* A node is found once, and exactly when its indegree is 0.
FoundOnce == \A i, j \in 1 .. Len(found) : found[i] = found[j] => i = j
FoundIfZero == \A n \in Node : indegree[n] = 0 <=> \E i \in 1 .. Len(found) : found[i] = n

\* No member of a circular set is ever found: the first one would need a
\* source in the set found before it.
CircularNeverFound ==
    \A S \in SUBSET Node : Circular(S) => \A i \in 1 .. Len(found) : found[i] \notin S

VerdictOfLengths ==
    verdict # "none" =>
        /\ todo = {} /\ done = Len(found)
        /\ verdict = "ordered" <=> done = declared

IInv ==
    /\ TypeOK /\ IndegreeCountsOpen /\ TodoOfPopped /\ FoundOnce /\ FoundIfZero
    /\ OrderRespectsEdges /\ CircularNeverFound /\ VerdictOfLengths
=============================================================================
