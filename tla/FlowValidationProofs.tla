------------------------ MODULE FlowValidationProofs ------------------------
(***************************************************************************)
(* For every finite set of nodes and every list of edges, self loops and   *)
(* repeated edges included: the order of FlowGraph respects the edges, and *)
(* the comparison of lengths decides acyclicity.  For every set of parsed  *)
(* workflows: validation runs that ordering, and what it accepts satisfies *)
(* the four properties of FlowValidation.  The last two follow from facts  *)
(* about the registry, which are lemmas here.                              *)
(***************************************************************************)
EXTENDS FlowValidation, FiniteSetTheorems, TLAPS

-----------------------------------------------------------------------------
(* The order of a graph *)

\* There are finitely many edges.
LEMMA EdgesFinite ==
    ASSUME TypeOK, NEW S \in SUBSET DOMAIN edges
    PROVE  IsFiniteSet(S) /\ Cardinality(S) \in Nat
  <1>1. PICK k \in 0 .. MaxEdges : edges \in [1 .. k -> Node \X Node]
    BY DEF TypeOK
  <1>2. IsFiniteSet(1 .. k) /\ DOMAIN edges = 1 .. k
    BY <1>1, FlowGraphAssumption, FS_Interval
  <1>3. IsFiniteSet(S)
    BY <1>2, FS_Subset
  <1> QED BY <1>3, FS_CardinalityType

\* An edge joins two nodes.
LEMMA EdgeEnds ==
    ASSUME TypeOK, NEW e \in DOMAIN edges
    PROVE  From(e) \in Node /\ To(e) \in Node
  BY DEF TypeOK, From, To

LEMMA Initially == Init => IInv
  <1> SUFFICES ASSUME Init PROVE IInv
    OBVIOUS
  <1> USE FlowGraphAssumption
  <1> DEFINE Zero == {n \in Node : indegree[n] = 0}
  <1>1. PICK k \in 0 .. MaxEdges : edges \in [1 .. k -> Node \X Node]
    BY DEF Init
  <1>2. ASSUME NEW S \in SUBSET DOMAIN edges
        PROVE  IsFiniteSet(S) /\ Cardinality(S) \in Nat
    <2>1. IsFiniteSet(1 .. k) /\ DOMAIN edges = 1 .. k
      BY <1>1, FS_Interval
    <2>2. IsFiniteSet(S)
      BY <2>1, FS_Subset
    <2> QED BY <2>2, FS_CardinalityType
  <1>3. \A n \in Node : indegree[n] = InDegree(n) /\ InDegree(n) \in Nat
    BY <1>2 DEF Init, InDegree
  <1>4. indegree \in [Node -> Nat]
    BY <1>3 DEF Init
  <1>5. Cardinality(Zero) \in Nat /\ Cardinality(Node) \in Nat
    <2>1. IsFiniteSet(Zero)
      BY FS_Subset
    <2> QED BY <2>1, FS_CardinalityType
  <1>6. /\ found \in [1 .. Cardinality(Zero) -> Zero]
        /\ \A i, j \in DOMAIN found : i < j => found[i] < found[j]
        /\ \A n \in Zero : \E i \in DOMAIN found : found[i] = n
    BY DEF Init, Sources
  <1>7. found \in Seq(Node) /\ Len(found) = Cardinality(Zero)
    BY <1>5, <1>6
  <1>8. TypeOK
    <2>1. \E m \in 0 .. MaxEdges : edges \in [1 .. m -> Node \X Node]
      BY <1>1
    <2>2. done \in 0 .. Len(found)
      BY <1>5, <1>7 DEF Init
    <2> QED BY <2>1, <2>2, <1>4, <1>7 DEF Init, TypeOK
  <1>9. \A n \in Node : Open(n) = {e \in DOMAIN edges : To(e) = n}
    BY DEF Init, Open, Visited
  <1>10. IndegreeCountsOpen
    BY <1>3, <1>9 DEF IndegreeCountsOpen, InDegree
  <1>11. FoundIfZero
    BY <1>5, <1>6, <1>7 DEF FoundIfZero
  <1>12. FoundOnce
    <2> SUFFICES ASSUME NEW i \in 1 .. Len(found), NEW j \in 1 .. Len(found), i < j
                 PROVE  found[i] # found[j]
      BY <1>5, <1>7 DEF FoundOnce
    <2>1. found[i] < found[j] /\ found[i] \in Nat /\ found[j] \in Nat
      BY <1>5, <1>6, <1>7
    <2> QED BY <2>1
  <1>13. ASSUME NEW e \in DOMAIN edges, NEW j \in 1 .. Len(found)
         PROVE  found[j] # To(e)
    <2> SUFFICES ASSUME found[j] = To(e) PROVE FALSE
      OBVIOUS
    <2>1. To(e) \in Node /\ indegree[To(e)] = 0
      BY <1>6, <1>7
    <2>2. Cardinality({f \in DOMAIN edges : To(f) = To(e)}) = 0
      BY <2>1, <1>3 DEF InDegree
    <2>3. {f \in DOMAIN edges : To(f) = To(e)} = {}
      BY <2>2, <1>2, FS_EmptySet
    <2> QED BY <2>3
  <1>14. OrderRespectsEdges
    BY <1>13 DEF OrderRespectsEdges
  <1>15. CircularNeverFound
    BY <1>13 DEF CircularNeverFound, Circular
  <1> QED
    BY <1>8, <1>10, <1>11, <1>12, <1>14, <1>15
    DEF IInv, Init, TodoOfPopped, VerdictOfLengths

\* The node popped had no edge left to it.
LEMMA PopStep ==
    ASSUME IInv, Pop
    PROVE  IInv'
  <1> USE DEF IInv
  <1>1. /\ todo = {} /\ done < Len(found) /\ done' = done + 1
        /\ todo' = {e \in DOMAIN edges : From(e) = found[done + 1]}
        /\ UNCHANGED <<edges, declared, indegree, found, verdict>>
    BY DEF Pop
  <1>2. done \in Nat /\ Len(found) \in Nat /\ done + 1 \in 1 .. Len(found)
    BY <1>1 DEF TypeOK
  <1>3. TypeOK'
    <2>1. done' \in 0 .. Len(found)
      BY <1>1, <1>2
    <2>2. todo' \subseteq DOMAIN edges
      BY <1>1
    <2> QED BY <1>1, <2>1, <2>2 DEF TypeOK
  <1>4. Visited' = Visited
    <2>1. \A e \in DOMAIN edges : From(e)' = From(e)
      BY <1>1 DEF From
    <2>2. \A i \in 1 .. done : found[i] # found[done + 1]
      BY <1>2 DEF FoundOnce
    <2>3. \A i \in 1 .. done' : i = done + 1 \/ i \in 1 .. done
      BY <1>1, <1>2
    <2>4. \A i \in 1 .. done : i \in 1 .. done'
      BY <1>1, <1>2
    <2> QED BY <1>1, <2>1, <2>2, <2>3, <2>4 DEF Visited
  <1>5. IndegreeCountsOpen'
    BY <1>1, <1>4 DEF IndegreeCountsOpen, Open, To
  <1>6. TodoOfPopped'
    BY <1>1, <1>2 DEF TodoOfPopped, From
  <1>7. FoundOnce' /\ FoundIfZero' /\ OrderRespectsEdges' /\ CircularNeverFound'
    <2>1. UNCHANGED <<edges, indegree, found>>
      BY <1>1
    <2>2. FoundOnce' /\ FoundIfZero'
      BY <2>1 DEF FoundOnce, FoundIfZero
    <2>3. OrderRespectsEdges' /\ CircularNeverFound'
      BY <2>1 DEF OrderRespectsEdges, CircularNeverFound, Circular, From, To
    <2> QED BY <2>2, <2>3
  <1>8. VerdictOfLengths'
    BY <1>1, <1>2 DEF VerdictOfLengths
  <1> QED BY <1>3, <1>5, <1>6, <1>7, <1>8

\* The order is returned or the cycle reported.
LEMMA ReturnStep ==
    ASSUME IInv, Return
    PROVE  IInv'
  <1> USE DEF IInv
  <1>1. /\ todo = {} /\ done = Len(found)
        /\ verdict' \in {"ordered", "cyclic"} /\ (verdict' = "ordered" <=> done = declared)
        /\ UNCHANGED <<edges, declared, indegree, found, done, todo>>
    BY DEF Return
  <1>2. TypeOK'
    BY <1>1 DEF TypeOK
  <1>3. IndegreeCountsOpen' /\ TodoOfPopped'
    BY <1>1 DEF IndegreeCountsOpen, TodoOfPopped, Open, Visited, From, To
  <1>4. FoundOnce' /\ FoundIfZero' /\ OrderRespectsEdges' /\ CircularNeverFound'
    BY <1>1 DEF FoundOnce, FoundIfZero, OrderRespectsEdges, CircularNeverFound, Circular, From, To
  <1>5. VerdictOfLengths'
    BY <1>1 DEF VerdictOfLengths
  <1> QED BY <1>2, <1>3, <1>4, <1>5

\* An edge is counted off once.
LEMMA RelaxStep ==
    ASSUME IInv, NEW e \in todo, Relax(e)
    PROVE  IInv'
  <1> USE DEF IInv
  <1> DEFINE n == To(e)
  <1>1. /\ todo' = todo \ {e}
        /\ indegree' = [indegree EXCEPT ![n] = IF @ = 0 THEN 0 ELSE @ - 1]
        /\ found' = IF indegree'[n] = 0 THEN Append(found, n) ELSE found
        /\ UNCHANGED <<edges, declared, done, verdict>>
    BY DEF Relax
  <1>2. e \in DOMAIN edges /\ n \in Node /\ From(e) \in Node
    BY EdgeEnds DEF TypeOK
  <1>3. /\ done \in 1 .. Len(found) /\ found[done] = From(e)
        /\ Len(found) \in Nat /\ verdict = "none"
    BY SMTT(20) DEF TodoOfPopped, TypeOK, VerdictOfLengths
  <1>4. /\ e \in Open(n)
        /\ \A m \in Node : m # n => e \notin Open(m)
    BY <1>2 DEF Open, Visited
  <1>5. indegree[n] \in Nat /\ indegree[n] # 0
    <2>1. IsFiniteSet(Open(n)) /\ indegree[n] = Cardinality(Open(n))
      BY <1>2, EdgesFinite DEF Open, IndegreeCountsOpen
    <2>2. indegree[n] # 0
      BY <2>1, <1>4, FS_EmptySet
    <2> QED BY <2>2, <1>2 DEF TypeOK
  <1>6. /\ indegree'[n] = indegree[n] - 1
        /\ \A m \in Node : m # n => indegree'[m] = indegree[m]
        /\ indegree' \in [Node -> Nat]
    BY <1>1, <1>2, <1>5, SMTT(20) DEF TypeOK
  <1>7. \A i \in 1 .. Len(found) : found[i] # n
    BY <1>2, <1>5 DEF FoundIfZero
  <1>8. /\ found' \in Seq(Node)
        /\ \A i \in 1 .. Len(found) : found'[i] = found[i]
        /\ Len(found') \in Nat
        /\ indegree'[n] = 0 => Len(found') = Len(found) + 1 /\ found'[Len(found) + 1] = n
        /\ indegree'[n] # 0 => Len(found') = Len(found) /\ found' = found
    BY <1>1, <1>2, SMTT(20) DEF TypeOK
  <1>9. TypeOK'
    <2>1. done' \in 0 .. Len(found') /\ todo' \subseteq DOMAIN edges
      BY <1>1, <1>3, <1>8, SMTT(20) DEF TypeOK
    <2> QED BY <1>1, <1>6, <1>8, <2>1 DEF TypeOK
  <1>10. Visited' = Visited \cup {e}
    <2>1. \A f \in DOMAIN edges : From(f)' = From(f)
      BY <1>1 DEF From
    <2>2. \A i \in 1 .. done : found'[i] = found[i]
      BY <1>3, <1>8
    <2>3. done \in 1 .. done
      BY <1>3
    <2> QED BY <1>1, <1>2, <1>3, <2>1, <2>2, <2>3 DEF Visited
  <1>11. \A m \in Node : Open(m)' = Open(m) \ {e}
    BY <1>1, <1>10 DEF Open, To
  <1>12. IndegreeCountsOpen'
    <2> SUFFICES ASSUME NEW m \in Node
                 PROVE  indegree'[m] = Cardinality(Open(m) \ {e})
      BY <1>11 DEF IndegreeCountsOpen
    <2>1. IsFiniteSet(Open(m)) /\ indegree[m] = Cardinality(Open(m))
      BY EdgesFinite DEF Open, IndegreeCountsOpen
    <2>2. CASE m = n
      BY <2>1, <2>2, <1>4, <1>6, FS_RemoveElement
    <2>3. CASE m # n
      <3>1. Open(m) \ {e} = Open(m)
        BY <2>3, <1>4
      <3> QED BY <3>1, <2>1, <2>3, <1>6
    <2> QED BY <2>2, <2>3
  <1>13. TodoOfPopped'
    BY <1>1, <1>3, <1>8 DEF TodoOfPopped, From
  <1>14. FoundOnce'
    BY <1>7, <1>8 DEF FoundOnce
  <1>15. FoundIfZero'
    <2> SUFFICES ASSUME NEW m \in Node
                 PROVE  indegree'[m] = 0 <=> \E i \in 1 .. Len(found') : found'[i] = m
      BY DEF FoundIfZero
    <2>1. CASE m = n
      BY <2>1, <1>7, <1>8
    <2>2. CASE m # n
      <3>1. indegree'[m] = 0 <=> \E i \in 1 .. Len(found) : found[i] = m
        BY <2>2, <1>6 DEF FoundIfZero
      <3> QED BY <3>1, <2>2, <1>8
    <2> QED BY <2>1, <2>2
  \* When n is queued, every edge into it was visited.
  <1>16. ASSUME indegree'[n] = 0, NEW f \in DOMAIN edges, To(f) = n
         PROVE  \E i \in 1 .. done : found[i] = From(f)
    <2>1. IsFiniteSet(Open(n) \ {e}) /\ Cardinality(Open(n) \ {e}) = 0
      BY <1>2, <1>11, <1>12, <1>16, EdgesFinite DEF Open, IndegreeCountsOpen
    <2>2. Open(n) \ {e} = {}
      BY <2>1, FS_EmptySet
    <2>3. f = e \/ f \in Visited
      BY <2>2, <1>16 DEF Open
    <2> QED BY <2>3, <1>3 DEF Visited
  <1>17. OrderRespectsEdges'
    <2> SUFFICES ASSUME NEW f \in DOMAIN edges, NEW j \in 1 .. Len(found'), found'[j] = To(f)
                 PROVE  \E i \in 1 .. j - 1 : found'[i] = From(f)
      BY <1>1 DEF OrderRespectsEdges, From, To
    <2>1. CASE j \in 1 .. Len(found)
      <3>1. PICK i \in 1 .. j - 1 : found[i] = From(f)
        BY <2>1, <1>8 DEF OrderRespectsEdges
      <3> QED BY <3>1, <2>1, <1>8
    <2>2. CASE j \notin 1 .. Len(found)
      <3>1. indegree'[n] = 0 /\ j = Len(found) + 1 /\ To(f) = n
        BY <2>2, <1>3, <1>8
      <3>2. PICK i \in 1 .. done : found[i] = From(f)
        BY <3>1, <1>16
      <3> QED BY <3>1, <3>2, <1>3, <1>8
    <2> QED BY <2>1, <2>2
  <1>18. CircularNeverFound'
    <2> SUFFICES ASSUME NEW S \in SUBSET Node, Circular(S),
                        NEW j \in 1 .. Len(found'), found'[j] \in S
                 PROVE  FALSE
      BY <1>1, SMTT(20) DEF CircularNeverFound, Circular, From, To
    <2>1. \A i \in 1 .. Len(found) : found[i] \notin S
      BY DEF CircularNeverFound
    <2>2. indegree'[n] = 0 /\ n \in S
      BY <2>1, <1>3, <1>8
    <2>3. PICK f \in DOMAIN edges : To(f) = n /\ From(f) \in S
      BY <2>2 DEF Circular
    <2> QED BY <2>1, <2>2, <2>3, <1>3, <1>16
  <1>19. VerdictOfLengths'
    BY <1>1, <1>3 DEF VerdictOfLengths
  <1> QED BY <1>9, <1>12, <1>13, <1>14, <1>15, <1>17, <1>18, <1>19

\* The inductive invariant of topological_order holds at every step of the run,
\* for every workflow (framework/graph.rs).
THEOREM OrderInvariant == Spec => []IInv
  <1>1. IInv /\ [Next]_vars => IInv'
    <2> SUFFICES ASSUME IInv, [Next]_vars PROVE IInv'
      OBVIOUS
    <2>1. CASE UNCHANGED vars
      <3>1. UNCHANGED <<edges, declared, indegree, found, done, todo, verdict>>
        BY <2>1 DEF vars
      <3>2. TypeOK' /\ IndegreeCountsOpen' /\ TodoOfPopped'
        BY <3>1 DEF IInv, TypeOK, IndegreeCountsOpen, Open, Visited, TodoOfPopped, From, To
      <3>3. FoundOnce' /\ FoundIfZero' /\ VerdictOfLengths'
        BY <3>1 DEF IInv, FoundOnce, FoundIfZero, VerdictOfLengths
      <3>4. OrderRespectsEdges' /\ CircularNeverFound'
        BY <3>1, SMTT(20) DEF IInv, OrderRespectsEdges, CircularNeverFound, Circular, From, To
      <3> QED BY <3>2, <3>3, <3>4 DEF IInv
    <2>2. CASE Pop
      BY <2>2, PopStep
    <2>3. CASE \E e \in todo : Relax(e)
      <3>1. PICK e \in todo : Relax(e)
        BY <2>3
      <3> QED BY <3>1, RelaxStep
    <2>4. CASE Return
      BY <2>4, ReturnStep
    <2> QED BY <2>1, <2>2, <2>3, <2>4 DEF Next
  <1> QED BY <1>1, Initially, PTL DEF Spec

\* A node comes after each of its inputs in every order that topological_order
\* builds, complete or not.
THEOREM OrderRespectsEdgesHolds == Spec => []OrderRespectsEdges
  BY OrderInvariant, PTL DEF IInv

\* An order of as many entries as there are declared nodes holds each id.
LEMMA FullOrder ==
    ASSUME IInv, Len(found) >= Cardinality(Node)
    PROVE  /\ Len(found) = Cardinality(Node)
           /\ \A n \in Node : \E i \in 1 .. Len(found) : found[i] = n
  <1> USE FlowGraphAssumption DEF IInv
  <1>1. Len(found) \in Nat /\ found \in [1 .. Len(found) -> Node]
    BY DEF TypeOK
  <1>2. found \in Injection(1 .. Len(found), Node)
    BY <1>1 DEF FoundOnce, Injection, IsInjective
  <1>3. /\ IsFiniteSet(1 .. Len(found)) /\ Cardinality(1 .. Len(found)) = Len(found)
        /\ Cardinality(Node) \in Nat
    <2>1. 1 \in Int /\ Len(found) \in Int
      BY <1>1
    <2>2. /\ IsFiniteSet(1 .. Len(found))
          /\ Cardinality(1 .. Len(found)) = IF 1 > Len(found) THEN 0 ELSE Len(found) - 1 + 1
      BY <2>1, FS_Interval
    <2> QED BY <1>1, <2>2, FS_CardinalityType
  <1>4. Len(found) <= Cardinality(Node)
    BY <1>2, <1>3, FS_Injection
  <1>5. found \in Surjection(1 .. Len(found), Node)
    BY <1>2, <1>3, <1>4, FS_Injection
  <1> QED BY <1>3, <1>4, <1>5 DEF Surjection

\* An accepted workflow's order holds every node id exactly once.
THEOREM OrderIsCompleteHolds == Spec => []OrderIsComplete
  <1>1. ASSUME IInv, verdict = "ordered"
        PROVE  OrderIsComplete
    <2>1. done = Len(found) /\ done = declared /\ declared >= Cardinality(Node)
      BY <1>1, FlowGraphAssumption, FS_CardinalityType DEF IInv, VerdictOfLengths, TypeOK
    <2> QED BY <2>1, <1>1, FullOrder DEF IInv, OrderIsComplete, FoundOnce
  <1>2. IInv => OrderIsComplete
    BY <1>1 DEF OrderIsComplete
  <1> QED BY <1>2, OrderInvariant, PTL

\* The refusal of topological_order means what its message says for workflows
\* of distinct ids: the graph contains a cycle; and no cyclic graph is accepted.
THEOREM VerdictIsExactHolds == Spec => []VerdictIsExact
  <1>1. ASSUME IInv, verdict # "none"
        PROVE  verdict = "ordered" <=> Acyclic /\ declared = Cardinality(Node)
    <2> USE <1>1 DEF IInv
    <2>1. /\ done = Len(found) /\ todo = {} /\ (verdict = "ordered" <=> done = declared)
          /\ declared \in Nat /\ declared >= Cardinality(Node)
          /\ Cardinality(Node) \in Nat /\ Len(found) \in Nat
      BY FlowGraphAssumption, FS_CardinalityType DEF VerdictOfLengths, TypeOK
    <2>2. ASSUME verdict = "ordered"
          PROVE  Acyclic /\ declared = Cardinality(Node)
      <3>1. declared = Cardinality(Node) /\ \A n \in Node : \E i \in 1 .. Len(found) : found[i] = n
        BY <2>1, <2>2, FullOrder
      <3>2. ASSUME NEW S \in SUBSET Node, S # {}, Circular(S)
            PROVE  FALSE
        <4>1. PICK n \in S : TRUE
          BY <3>2
        <4> QED BY <4>1, <3>1, <3>2 DEF CircularNeverFound
      <3> QED BY <3>1, <3>2 DEF Acyclic
    <2>3. ASSUME verdict # "ordered", declared = Cardinality(Node)
          PROVE  ~Acyclic
      <3> DEFINE S == {n \in Node : \A i \in 1 .. Len(found) : found[i] # n}
      <3>1. S # {}
        <4> SUFFICES ASSUME \A n \in Node : \E i \in 1 .. Len(found) : found[i] = n
                     PROVE  FALSE
          OBVIOUS
        <4>1. found \in [1 .. Len(found) -> Node]
          BY DEF TypeOK
        <4>2. found \in Surjection(1 .. Len(found), Node)
          BY <4>1 DEF Surjection
        <4>3. IsFiniteSet(1 .. Len(found)) /\ Cardinality(1 .. Len(found)) = Len(found)
          <5>1. 1 \in Int /\ Len(found) \in Int
            BY <2>1
          <5>2. /\ IsFiniteSet(1 .. Len(found))
                /\ Cardinality(1 .. Len(found)) = IF 1 > Len(found) THEN 0 ELSE Len(found) - 1 + 1
            BY <5>1, FS_Interval
          <5> QED BY <2>1, <5>2
        <4>4. Cardinality(Node) <= Len(found)
          BY <4>2, <4>3, FS_Surjection
        <4> QED BY <4>4, <2>1, <2>3, FullOrder
      <3>2. Circular(S)
        <4> SUFFICES ASSUME NEW n \in S
                     PROVE  \E e \in DOMAIN edges : To(e) = n /\ From(e) \in S
          BY DEF Circular
        <4>1. indegree[n] # 0 /\ indegree[n] = Cardinality(Open(n))
          BY DEF FoundIfZero, IndegreeCountsOpen
        <4>2. Open(n) # {}
          BY <4>1, FS_EmptySet
        <4>3. PICK e \in DOMAIN edges : To(e) = n /\ e \notin Visited
          BY <4>2 DEF Open
        <4>4. \A i \in 1 .. Len(found) : found[i] # From(e)
          BY <4>3, <2>1 DEF Visited
        <4>5. From(e) \in Node
          BY EdgeEnds
        <4> QED BY <4>3, <4>4, <4>5
      <3> QED BY <3>1, <3>2 DEF Acyclic
    <2> QED BY <2>2, <2>3
  <1>2. IInv => VerdictIsExact
    BY <1>1 DEF VerdictIsExact
  <1> QED BY <1>2, OrderInvariant, PTL

-----------------------------------------------------------------------------
(* Places of a file in their order *)

\* The numbering of a set of places stays in it.
LEMMA NthExists ==
    ASSUME NEW S, IsFiniteSet(S), S \subseteq Nat \X Nat, NEW k \in 1 .. Cardinality(S)
    PROVE  Nth(S, k) \in S
  <1> DEFINE B(p) == {q \in S : Precedes(q, p)}
             R == [p \in S |-> Cardinality(B(p)) + 1]
             N == Cardinality(S)
  <1>1. N \in Nat
    BY FS_CardinalityType
  <1>2. ASSUME NEW p \in S
        PROVE  /\ IsFiniteSet(B(p)) /\ Cardinality(B(p)) \in Nat
               /\ Cardinality(B(p)) <= N - 1
    <2>1. IsFiniteSet(B(p)) /\ Cardinality(B(p)) \in Nat
      BY FS_Subset, FS_CardinalityType
    <2>2. B(p) \subseteq S \ {p}
      BY DEF Precedes
    <2>3. IsFiniteSet(S \ {p}) /\ Cardinality(S \ {p}) = N - 1
      BY FS_RemoveElement
    <2> HIDE DEF B, N
    <2>4. Cardinality(B(p)) <= Cardinality(S \ {p})
      BY <2>2, <2>3, FS_Subset
    <2> QED BY <2>1, <2>3, <2>4
  <1>3. R \in [S -> 1 .. N]
    <2> HIDE DEF B, N
    <2> QED BY <1>1, <1>2
  <1>4. ASSUME NEW p \in S, NEW q \in S, Precedes(p, q)
        PROVE  R[p] # R[q]
    <2>1. B(p) \cup {p} \subseteq B(q) /\ p \notin B(p)
      BY <1>4 DEF Precedes
    <2> HIDE DEF B
    <2>2. Cardinality(B(p) \cup {p}) = Cardinality(B(p)) + 1
      BY <1>2, <2>1, FS_AddElement
    <2>3. Cardinality(B(p) \cup {p}) <= Cardinality(B(q))
      BY <1>2, <2>1, FS_Subset
    <2> QED BY <1>2, <2>2, <2>3
  <1>5. \A p, q \in S : p # q => Precedes(p, q) \/ Precedes(q, p)
    BY DEF Precedes
  <1>6. R \in Injection(S, 1 .. N)
    <2> HIDE DEF R
    <2> QED BY <1>3, <1>4, <1>5 DEF Injection, IsInjective
  <1>7. IsFiniteSet(1 .. N) /\ Cardinality(1 .. N) = N
    BY <1>1, FS_Interval
  <1>8. R \in Surjection(S, 1 .. N)
    <2> HIDE DEF R
    <2> QED BY <1>6, <1>7, FS_Injection
  <1>9. PICK p \in S : R[p] = k
    <2> HIDE DEF R
    <2> QED BY <1>8 DEF Surjection
  <1>10. Cardinality(B(p)) = k - 1
    <2> HIDE DEF B
    <2> QED BY <1>1, <1>2, <1>9
  <1> QED BY <1>10 DEF Nth

\* The numbering reaches every place.
LEMMA NthReaches ==
    ASSUME NEW S, IsFiniteSet(S), S \subseteq Nat \X Nat, NEW p \in S
    PROVE  \E k \in 1 .. Cardinality(S) : Nth(S, k) = p
  <1> DEFINE B(q) == {r \in S : Precedes(r, q)}
             N == Cardinality(S)
             k == Cardinality(B(p)) + 1
  <1>1. ASSUME NEW q \in S
        PROVE  IsFiniteSet(B(q)) /\ Cardinality(B(q)) \in Nat
    BY FS_Subset, FS_CardinalityType
  <1>2. N \in Nat /\ IsFiniteSet(S \ {p}) /\ Cardinality(S \ {p}) = N - 1
    BY FS_CardinalityType, FS_RemoveElement
  <1>3. B(p) \subseteq S \ {p}
    BY DEF Precedes
  <1>4. Cardinality(B(p)) <= N - 1
    <2> HIDE DEF B, N
    <2> QED BY <1>2, <1>3, FS_Subset
  <1>5. k \in 1 .. N
    <2> HIDE DEF B, N
    <2> QED BY <1>1, <1>2, <1>4
  <1>6. Nth(S, k) \in S
    <2> HIDE DEF k
    <2> QED BY <1>5, NthExists
  <1>7. PICK q \in S : q = Nth(S, k) /\ Cardinality(B(q)) = k - 1
    <2>1. Cardinality(B(p)) = k - 1
      <3> HIDE DEF B
      <3> QED BY <1>1
    <2> QED BY <2>1 DEF Nth
  <1>8. ASSUME NEW r \in S, NEW s \in S, Precedes(r, s)
        PROVE  Cardinality(B(r)) # Cardinality(B(s))
    <2>1. B(r) \cup {r} \subseteq B(s) /\ r \notin B(r)
      BY <1>8 DEF Precedes
    <2> HIDE DEF B
    <2>2. Cardinality(B(r) \cup {r}) = Cardinality(B(r)) + 1
      BY <1>1, <2>1, FS_AddElement
    <2>3. Cardinality(B(r) \cup {r}) <= Cardinality(B(s))
      BY <1>1, <2>1, FS_Subset
    <2> QED BY <1>1, <2>2, <2>3
  <1>9. Cardinality(B(q)) = Cardinality(B(p))
    <2> HIDE DEF B
    <2> QED BY <1>1, <1>7
  <1>10. p # q => Precedes(p, q) \/ Precedes(q, p)
    BY DEF Precedes
  <1>11. p = q
    <2> HIDE DEF B
    <2> QED BY <1>8, <1>9, <1>10
  <1> QED BY <1>5, <1>7, <1>11

(* The edges of a parsed workflow *)

\* Places are positions of inputs and outputs of the nodes.
LEMMA PlacesOfFlow ==
    ASSUME flow \in Workflows
    PROVE  /\ InputPlaces(flow) \subseteq Nat \X Nat
           /\ OutputPlaces(flow) \subseteq Nat \X Nat
           /\ \A p \in InputPlaces(flow) :
                /\ p[1] \in DOMAIN flow.nodes /\ p[2] \in DOMAIN flow.nodes[p[1]].inputs
                /\ flow.nodes[p[1]].id \in Node
           /\ \A p \in OutputPlaces(flow) :
                /\ p[1] \in DOMAIN flow.nodes /\ p[2] \in DOMAIN flow.nodes[p[1]].outputs
                /\ flow.nodes[p[1]].id \in Node
  <1>1. flow.nodes \in Seq(NodeSpec)
    BY FlowValidationAssumption
  <1>2. \A i \in DOMAIN flow.nodes : i \in Nat /\ flow.nodes[i] \in NodeSpec
    BY <1>1
  <1>3. \A i \in DOMAIN flow.nodes :
            /\ flow.nodes[i].id \in Node
            /\ flow.nodes[i].inputs \in Seq([from : Nat, role : STRING])
            /\ flow.nodes[i].outputs \in Seq([role : STRING, type : STRING])
    BY <1>2 DEF NodeSpec
  <1>4. \A i \in DOMAIN flow.nodes :
            DOMAIN flow.nodes[i].inputs \subseteq Nat /\ DOMAIN flow.nodes[i].outputs \subseteq Nat
    BY <1>3
  <1> QED BY <1>2, <1>3, <1>4 DEF InputPlaces, OutputPlaces

\* There are finitely many wired inputs, at most MaxEdges.
LEMMA WiredFinite ==
    ASSUME flow \in Workflows
    PROVE  /\ Wired \subseteq Nat \X Nat /\ IsFiniteSet(Wired)
           /\ Cardinality(Wired) \in Nat /\ Cardinality(Wired) <= MaxEdges
  <1>1. IsFiniteSet(InputPlaces(flow)) /\ Cardinality(InputPlaces(flow)) <= MaxEdges
    BY FlowValidationAssumption
  <1>2. Wired \subseteq InputPlaces(flow)
    BY DEF Wired
  <1>3. /\ IsFiniteSet(Wired) /\ Cardinality(Wired) <= Cardinality(InputPlaces(flow))
        /\ Cardinality(Wired) \in Nat /\ Cardinality(InputPlaces(flow)) \in Nat
    BY <1>1, <1>2, FS_Subset, FS_CardinalityType
  <1> QED BY <1>1, <1>2, <1>3, PlacesOfFlow, FlowGraphAssumption

\* The edge of a wired input joins two nodes.
LEMMA EdgeOfWired ==
    ASSUME flow \in Workflows, NEW p \in Wired
    PROVE  EdgeOf(p) \in Node \X Node
  <1>1. PICK d \in Declarations(flow.nodes[p[1]].inputs[p[2]]) : TRUE
    BY DEF Wired
  <1>2. flow.nodes[d[1]].id = flow.nodes[p[1]].inputs[p[2]].from /\ d \in OutputPlaces(flow)
    BY <1>1 DEF Declarations
  <1>3. p \in InputPlaces(flow)
    BY DEF Wired
  <1> QED BY <1>2, <1>3, PlacesOfFlow DEF EdgeOf

\* The edge list is that of the wired inputs.
LEMMA EdgesAreWired ==
    ASSUME flow \in Workflows, edges = EdgeList(Wired)
    PROVE  /\ edges \in [1 .. Cardinality(Wired) -> Node \X Node]
           /\ \A e \in DOMAIN edges : \E p \in Wired : edges[e] = EdgeOf(p)
           /\ \A p \in Wired : \E e \in DOMAIN edges : edges[e] = EdgeOf(p)
  <1>1. \A k \in 1 .. Cardinality(Wired) : Nth(Wired, k) \in Wired
    BY WiredFinite, NthExists
  <1>2. \A p \in Wired : \E k \in 1 .. Cardinality(Wired) : Nth(Wired, k) = p
    BY WiredFinite, NthReaches
  <1>3. /\ DOMAIN edges = 1 .. Cardinality(Wired)
        /\ edges = [k \in 1 .. Cardinality(Wired) |-> EdgeOf(Nth(Wired, k))]
    BY DEF EdgeList
  <1>4. \A k \in 1 .. Cardinality(Wired) : edges[k] = EdgeOf(Nth(Wired, k))
    BY <1>3
  <1>5. \A k \in 1 .. Cardinality(Wired) : EdgeOf(Nth(Wired, k)) \in Node \X Node
    BY <1>1, EdgeOfWired
  <1>6. edges \in [1 .. Cardinality(Wired) -> Node \X Node]
    BY <1>3, <1>5
  <1> QED BY <1>1, <1>2, <1>3, <1>4, <1>6

\* Validation starts the sort as the sort starts.
LEMMA InitIsInit == ValidateInit => Init
  <1> SUFFICES ASSUME ValidateInit PROVE Init
    OBVIOUS
  <1>1. flow \in Workflows /\ edges = EdgeList(Wired)
    BY DEF ValidateInit
  <1>2. Cardinality(Wired) \in 0 .. MaxEdges
    BY <1>1, WiredFinite, FlowGraphAssumption
  <1>3. \E k \in 0 .. MaxEdges : edges \in [1 .. k -> Node \X Node]
    BY <1>1, <1>2, EdgesAreWired
  <1>4. /\ flow.nodes \in Seq(NodeSpec) /\ Len(flow.nodes) <= MaxNodes
        /\ Node = {flow.nodes[i].id : i \in DOMAIN flow.nodes}
    BY <1>1, FlowValidationAssumption
  <1> DEFINE Ids == [i \in 1 .. Len(flow.nodes) |-> flow.nodes[i].id]
  <1>5. Len(flow.nodes) \in Nat /\ DOMAIN flow.nodes = 1 .. Len(flow.nodes)
    BY <1>4
  <1>6. Ids \in Surjection(1 .. Len(flow.nodes), Node)
    BY <1>4, <1>5 DEF Surjection
  <1>7. ExistsSurjection(1 .. Len(flow.nodes), Node)
    <2> HIDE DEF Ids
    <2> QED BY <1>6 DEF ExistsSurjection
  <1>8. Cardinality(Node) <= Len(flow.nodes)
    BY <1>5, <1>7, FS_SurjCardinalityBound
  <1>9. declared \in Cardinality(Node) .. MaxNodes
    <2>1. Cardinality(Node) \in Nat
      BY FlowGraphAssumption, FS_CardinalityType
    <2> QED BY <2>1, <1>4, <1>5, <1>8, FlowGraphAssumption DEF ValidateInit
  <1> QED BY <1>3, <1>9 DEF ValidateInit, Init

\* Every behaviour of validate_workflow runs the ordering of FlowGraph, so its
\* theorems hold of validation.
THEOREM ValidationOrders == ValidateSpec => Spec
  <1>1. ValidateInit => Init
    BY InitIsInit
  <1>2. [Validate]_validationVars => [Next]_vars
    BY DEF Validate, TopologicalOrder, Report, validationVars
  <1> QED BY <1>1, <1>2, PTL DEF ValidateSpec, Spec

(* What a report says *)

\* The edges stay those of the file, and a report stays true.
ReportTrue ==
    /\ flow \in Workflows /\ edges = EdgeList(Wired) /\ declared = Len(flow.nodes)
    /\ Accepted => Valid

\* The report stays true.
LEMMA ReportStays == ValidateSpec => []ReportTrue
  <1>1. ValidateInit => ReportTrue
    BY DEF ValidateInit, ReportTrue, Accepted
  <1>2. ReportTrue /\ [Validate]_validationVars => ReportTrue'
    <2> SUFFICES ASSUME ReportTrue, [Validate]_validationVars PROVE ReportTrue'
      OBVIOUS
    <2>1. UNCHANGED <<flow, edges, declared>>
      BY DEF Validate, TopologicalOrder, Report, validationVars, vars, Next, Pop, Relax, Return
    <2>2. UNCHANGED Wired
      BY <2>1 DEF Wired, Declarations
    <2>3. edges' = EdgeList(Wired)'
      BY <2>1, <2>2 DEF ReportTrue, EdgeList, Nth, EdgeOf
    <2>4. verdict = "ordered" => verdict' = "ordered"
      BY DEF Validate, TopologicalOrder, Report, validationVars, vars, Next, Pop, Relax, Return
    <2>5. UNCHANGED <<LayersKnown, NamesDistinct, InputsKnown, NodesValid>>
      <3>1. UNCHANGED <<LayersKnown, NamesDistinct>>
        BY <2>1 DEF LayersKnown, NamesDistinct, Nodes
      <3>2. UNCHANGED InputsKnown
        BY <2>1 DEF InputsKnown, Nodes, Declarations
      <3>3. UNCHANGED NodesValid
        BY <2>1 DEF NodesValid, Nodes, Contract, AuthorityLineage, AlgorithmMode, Classes,
                    HasInputType, Resolved, Declarations
      <3> QED BY <3>1, <3>2, <3>3
    <2>6. Valid => Valid'
      BY <2>1, <2>4, <2>5 DEF Valid
    <2>7. CASE Report
      BY <2>1, <2>3, <2>6, <2>7 DEF Report, ReportTrue, Accepted
    <2>8. CASE UNCHANGED report
      BY <2>1, <2>3, <2>6, <2>8 DEF ReportTrue, Accepted
    <2> QED BY <2>7, <2>8 DEF Validate, TopologicalOrder, validationVars
  <1> QED BY <1>1, <1>2, PTL DEF ValidateSpec

\* The producer of an input comes before its node.
LEMMA InputsOrdered ==
    ASSUME IInv, ReportTrue, NEW n \in Nodes, NEW in \in InputsOf(n), NEW d \in Declarations(in),
           NEW j \in 1 .. Len(found), found[j] = n.id
    PROVE  \E i \in 1 .. j - 1 : found[i] = in.from
  <1>1. PICK a \in DOMAIN flow.nodes : n = flow.nodes[a]
    BY DEF Nodes
  <1>2. PICK b \in DOMAIN n.inputs : in = n.inputs[b]
    BY DEF InputsOf
  <1> DEFINE p == <<a, b>>
  <1>3. p \in InputPlaces(flow)
    BY <1>1, <1>2 DEF InputPlaces
  <1>4. p \in Wired
    BY <1>1, <1>2, <1>3 DEF Wired
  <1>5. EdgeOf(p) = <<in.from, n.id>>
    BY <1>1, <1>2 DEF EdgeOf
  <1>6. PICK e \in DOMAIN edges : edges[e] = <<in.from, n.id>>
    BY <1>4, <1>5, EdgesAreWired DEF ReportTrue
  <1> QED BY <1>6 DEF IInv, OrderRespectsEdges, From, To

\* A declaration is an output of a node.
LEMMA DeclaredByNode ==
    ASSUME flow \in Workflows, NEW in, NEW d \in Declarations(in)
    PROVE  /\ flow.nodes[d[1]] \in Nodes /\ flow.nodes[d[1]].id = in.from
           /\ d[2] \in DOMAIN flow.nodes[d[1]].outputs
           /\ flow.nodes[d[1]].outputs[d[2]].role = in.role
           /\ flow.nodes[d[1]].outputs[d[2]].type \in TypesOf(flow.nodes[d[1]])
  <1>1. d \in OutputPlaces(flow)
    BY DEF Declarations
  <1> QED BY <1>1, PlacesOfFlow DEF Declarations, Nodes, TypesOf

\* In a flow of distinct names an id names one node.
LEMMA IdsDistinct ==
    ASSUME NamesDistinct, NEW m \in Nodes, NEW n \in Nodes, m.id = n.id
    PROVE  m = n
  <1>1. PICK i \in DOMAIN flow.nodes, j \in DOMAIN flow.nodes : m = flow.nodes[i] /\ n = flow.nodes[j]
    BY DEF Nodes
  <1>2. i = j
    BY <1>1 DEF NamesDistinct, Distinct
  <1> QED BY <1>1, <1>2

\* The order of an accepted workflow is complete.
LEMMA AcceptedOrder ==
    ASSUME IInv, ReportTrue, Accepted
    PROVE  /\ Valid /\ Len(found) = Len(flow.nodes)
           /\ \A n \in Node : \E j \in 1 .. Len(found) : found[j] = n
           /\ \A n \in Nodes : n.id \in Node
  <1>1. Valid /\ verdict = "ordered"
    BY DEF ReportTrue, Valid
  <1>2. done = Len(found) /\ done = declared /\ declared = Len(flow.nodes)
    BY <1>1 DEF IInv, VerdictOfLengths, ReportTrue
  <1>3. declared >= Cardinality(Node)
    BY FlowGraphAssumption, FS_CardinalityType DEF IInv, TypeOK
  <1>4. \A n \in Node : \E j \in 1 .. Len(found) : found[j] = n
    BY <1>2, <1>3, FullOrder
  <1>5. \A n \in Nodes : n.id \in Node
    BY FlowValidationAssumption DEF Nodes, ReportTrue
  <1> QED BY <1>1, <1>2, <1>4, <1>5

\* The executor finds each input of each node of an accepted workflow made by
\* one earlier node under one role, whatever the workflow.
THEOREM ExecutorCanRunHolds == ValidateSpec => []ExecutorCanRun
  <1>1. ASSUME IInv, ReportTrue PROVE ExecutorCanRun
    <2> SUFFICES ASSUME Accepted, NEW n \in Nodes
                 PROVE  \E j \in 1 .. Len(found) :
                          /\ found[j] = n.id
                          /\ \A in \in InputsOf(n) : \E i \in 1 .. j - 1 : \E m \in Nodes :
                               /\ found[i] = in.from /\ m.id = in.from
                               /\ Cardinality({k \in DOMAIN m.outputs : m.outputs[k].role = in.role}) = 1
      BY <1>1, AcceptedOrder DEF ExecutorCanRun
    <2>1. PICK j \in 1 .. Len(found) : found[j] = n.id
      BY <1>1, AcceptedOrder
    <2>2. ASSUME NEW in \in InputsOf(n)
          PROVE  \E i \in 1 .. j - 1 : \E m \in Nodes :
                   /\ found[i] = in.from /\ m.id = in.from
                   /\ Cardinality({k \in DOMAIN m.outputs : m.outputs[k].role = in.role}) = 1
      <3>1. PICK d \in Declarations(in) : TRUE
        BY <1>1, AcceptedOrder DEF Valid, InputsKnown
      <3>2. PICK i \in 1 .. j - 1 : found[i] = in.from
        BY <1>1, <2>1, <3>1, InputsOrdered
      <3> DEFINE m == flow.nodes[d[1]]
      <3>3. /\ m \in Nodes /\ m.id = in.from
            /\ d[2] \in DOMAIN m.outputs /\ m.outputs[d[2]].role = in.role
        BY <1>1, <3>1, DeclaredByNode DEF ReportTrue
      <3>4. Distinct([k \in DOMAIN m.outputs |-> m.outputs[k].role])
        BY <1>1, <3>3, AcceptedOrder DEF Valid, NamesDistinct
      <3>5. {k \in DOMAIN m.outputs : m.outputs[k].role = in.role} = {d[2]}
        BY <3>3, <3>4 DEF Distinct
      <3>6. Cardinality({d[2]}) = 1
        BY FS_Singleton
      <3> QED BY <3>2, <3>3, <3>5, <3>6
    <2> QED BY <2>1, <2>2
  <1> QED BY <1>1, ReportStays, ValidationOrders, OrderInvariant, PTL

\* A type a node takes is made by a node before it.
LEMMA MadeByInput ==
    ASSUME IInv, ReportTrue, NEW n \in Nodes, NEW type, HasInputType(n, type),
           NEW j \in 1 .. Len(found), found[j] = n.id
    PROVE  \E i \in 1 .. j - 1 : \E m \in Nodes : m.id = found[i] /\ type \in TypesOf(m)
  <1>1. PICK in \in InputsOf(n) : type \in Resolved(in)
    BY DEF HasInputType
  <1>2. PICK d \in Declarations(in) : type = flow.nodes[d[1]].outputs[d[2]].type
    BY <1>1 DEF Resolved
  <1>3. PICK i \in 1 .. j - 1 : found[i] = in.from
    BY <1>1, <1>2, InputsOrdered
  <1>4. /\ flow.nodes[d[1]] \in Nodes /\ flow.nodes[d[1]].id = in.from
        /\ type \in TypesOf(flow.nodes[d[1]])
    BY <1>2, DeclaredByNode DEF ReportTrue
  <1> QED BY <1>3, <1>4

\* Whatever the workflow, broker events are declared behind a whole chain only.
THEOREM AuthorityChainHolds == ValidateSpec => []AuthorityChain
  <1>1. ASSUME IInv, ReportTrue PROVE AuthorityChain
    <2> SUFFICES ASSUME Accepted, NEW j \in 1 .. Len(found), NEW n \in Nodes,
                        n.id = found[j], "broker_event_set" \in TypesOf(n)
                 PROVE  /\ MadeBefore("reconciliation_snapshot", j)
                        /\ \E i \in 1 .. j - 1 : \E m \in Nodes :
                             /\ m.id = found[i] /\ "staged_order_set" \in TypesOf(m)
                             /\ MadeBefore("risk_decision_set", i)
      BY DEF AuthorityChain
    <2>1. \A m \in Nodes : AuthorityLineage(m)
      BY <1>1, AcceptedOrder DEF Valid, NodesValid
    <2>2. MadeBefore("reconciliation_snapshot", j)
      <3>1. HasInputType(n, "reconciliation_snapshot")
        BY <2>1 DEF AuthorityLineage
      <3> QED BY <1>1, <3>1, MadeByInput DEF MadeBefore
    <2>3. PICK i \in 1 .. j - 1 : \E m \in Nodes : m.id = found[i] /\ "staged_order_set" \in TypesOf(m)
      <3>1. HasInputType(n, "staged_order_set")
        BY <2>1 DEF AuthorityLineage
      <3> QED BY <1>1, <3>1, MadeByInput
    <2>4. PICK m \in Nodes : m.id = found[i] /\ "staged_order_set" \in TypesOf(m)
      BY <2>3
    <2>5. i \in 1 .. Len(found)
      BY <1>1, <2>3 DEF IInv, TypeOK
    <2>6. MadeBefore("risk_decision_set", i)
      <3>1. HasInputType(m, "risk_decision_set")
        BY <2>1, <2>4 DEF AuthorityLineage
      <3> QED BY <1>1, <2>4, <2>5, <3>1, MadeByInput DEF MadeBefore
    <2> QED BY <2>2, <2>3, <2>4, <2>6
  <1> QED BY <1>1, ReportStays, ValidationOrders, OrderInvariant, PTL

(* The registry *)

Named == {"cmd.recon", "cmd.plan", "cmd.value", "cmd.gate", "cmd.stage", "cmd.send.mock", "fixture.set_mode"}

\* Class A algorithms take what class A algorithms alone put out, and the
\* types of staging and sending belong to one algorithm each.
LEMMA RegistryFacts ==
    ASSUME NEW a \in Registry
    PROVE  /\ a.hazard_class = "A" <=> a.algorithm_id \in Named
           /\ a.hazard_class = "A" => a.inputs \subseteq
                {"reconciliation_snapshot", "order_intent_set", "risk_decision_set", "staged_order_set"}
           /\ a.outputs \cap {"reconciliation_snapshot", "order_intent_set", "risk_decision_set",
                              "staged_order_set"} # {} => a.hazard_class = "A"
           /\ "staged_order_set" \in a.outputs => a.algorithm_id = "cmd.stage"
           /\ "broker_event_set" \in a.outputs => a.algorithm_id = "cmd.send.mock"
           /\ a.algorithm_id = "cmd.send.mock" =>
                a.purity = "external_write" /\ "broker.adapter" \in a.resources
  BY DEF Registry, Algorithm, Named

\* Whatever the workflow, class A stands on class A alone.
THEOREM ClassAFromClassAHolds == ValidateSpec => []ClassAFromClassA
  <1>1. ASSUME IInv, ReportTrue PROVE ClassAFromClassA
    <2> SUFFICES ASSUME Accepted, NEW e \in DOMAIN edges, NEW m \in Nodes, NEW n \in Nodes,
                        m.id = From(e), n.id = To(e), "A" \in ClassOf(n)
                 PROVE  ClassOf(m) = {"A"}
      BY DEF ClassAFromClassA
    <2>1. Valid /\ NamesDistinct
      BY <1>1, AcceptedOrder DEF Valid
    <2>2. PICK p \in Wired : edges[e] = EdgeOf(p)
      BY <1>1, EdgesAreWired DEF ReportTrue
    <2>3. p \in InputPlaces(flow) /\ flow.nodes[p[1]] \in Nodes
          /\ p[2] \in DOMAIN flow.nodes[p[1]].inputs
      BY <1>1, <2>2, PlacesOfFlow DEF Wired, Nodes, ReportTrue
    <2> DEFINE in == flow.nodes[p[1]].inputs[p[2]]
    <2>4. flow.nodes[p[1]] = n /\ in.from = m.id
      <3>1. flow.nodes[p[1]].id = n.id /\ in.from = m.id
        BY <2>2 DEF EdgeOf, From, To
      <3> QED BY <2>1, <2>3, <3>1, IdsDistinct
    <2>5. in \in InputsOf(n)
      BY <2>3, <2>4 DEF InputsOf
    <2>6. PICK d \in Declarations(in) : TRUE
      BY <2>2 DEF Wired
    <2> DEFINE t == flow.nodes[d[1]].outputs[d[2]].type
    <2>7. /\ flow.nodes[d[1]] = m /\ t \in TypesOf(m)
          /\ d[2] \in DOMAIN m.outputs /\ m.outputs[d[2]].role = in.role
      BY <1>1, <2>1, <2>4, <2>6, DeclaredByNode, IdsDistinct DEF ReportTrue
    <2>8. t \in Resolved(in)
      <3>1. ASSUME NEW r \in Declarations(in) PROVE ~Precedes(d, r)
        <4>1. /\ flow.nodes[r[1]] = m
              /\ r[2] \in DOMAIN m.outputs /\ m.outputs[r[2]].role = in.role
          BY <1>1, <2>1, <2>4, DeclaredByNode, IdsDistinct DEF ReportTrue
        <4>2. r[2] = d[2]
          <5>1. Distinct([k \in DOMAIN m.outputs |-> m.outputs[k].role])
            BY <2>1 DEF NamesDistinct
          <5> QED BY <2>7, <4>1, <5>1 DEF Distinct
        <4>3. r[1] = d[1]
          <5>1. r \in OutputPlaces(flow) /\ d \in OutputPlaces(flow)
            BY DEF Declarations
          <5>2. r[1] \in DOMAIN flow.nodes /\ d[1] \in DOMAIN flow.nodes
            BY <1>1, <5>1, PlacesOfFlow DEF ReportTrue
          <5> DEFINE ids == [i \in DOMAIN flow.nodes |-> flow.nodes[i].id]
          <5>3. ids[r[1]] = m.id /\ ids[d[1]] = m.id
            BY <2>7, <4>1, <5>2
          <5>4. \A i, j \in DOMAIN ids : ids[i] = ids[j] => i = j
            BY <2>1 DEF NamesDistinct, Distinct
          <5>5. r[1] \in DOMAIN ids /\ d[1] \in DOMAIN ids
            BY <5>2
          <5> HIDE DEF ids
          <5> QED BY <5>3, <5>4, <5>5
        <4>4. d \in Nat \X Nat
          BY <1>1, PlacesOfFlow DEF ReportTrue, Declarations
        <4> QED BY <4>2, <4>3, <4>4 DEF Precedes
      <3> QED BY <3>1 DEF Resolved
    <2>9. PICK a \in Registry : a.algorithm_id = n.algorithm /\ Contract(n, a)
      BY <2>1 DEF Valid, NodesValid
    <2>10. PICK b \in Registry : b.algorithm_id = m.algorithm /\ Contract(m, b)
      BY <2>1 DEF Valid, NodesValid
    <2>11. a.hazard_class = "A"
      <3>1. PICK c \in Registry : c.algorithm_id = n.algorithm /\ c.hazard_class = "A"
        BY DEF ClassOf
      <3> QED BY <2>9, <3>1, RegistryFacts
    <2>12. t \in a.inputs /\ t \in b.outputs
      BY <2>5, <2>7, <2>8, <2>9, <2>10 DEF Contract
    <2>13. b.hazard_class = "A"
      BY <2>11, <2>12, RegistryFacts
    <2>14. \A c \in Registry : c.algorithm_id = m.algorithm => c.hazard_class = "A"
      BY <2>10, <2>13, RegistryFacts
    <2> QED BY <2>10, <2>13, <2>14 DEF ClassOf
  <1> QED BY <1>1, ReportStays, ValidationOrders, OrderInvariant, PTL

\* Whatever the workflow, its mode and permissions bound what it may stage and
\* send.
THEOREM ModeBoundsAuthorityHolds == ValidateSpec => []ModeBoundsAuthority
  <1>1. ASSUME IInv, ReportTrue PROVE ModeBoundsAuthority
    <2> SUFFICES ASSUME Accepted, NEW n \in Nodes
                 PROVE  /\ (n.algorithm = "cmd.stage" \/ "staged_order_set" \in TypesOf(n)) =>
                              flow.mode \in CanStage
                        /\ (n.algorithm = "cmd.send.mock" \/ "broker_event_set" \in TypesOf(n)) =>
                              /\ flow.mode \in CanSubmit /\ flow.allow_external_write
                              /\ flow.allow_broker_resource
      BY DEF ModeBoundsAuthority
    <2>1. PICK a \in Registry : a.algorithm_id = n.algorithm /\ Contract(n, a) /\ AlgorithmMode(a)
      BY <1>1, AcceptedOrder DEF Valid, NodesValid
    <2>2. /\ "staged_order_set" \in TypesOf(n) => n.algorithm = "cmd.stage"
          /\ "broker_event_set" \in TypesOf(n) => n.algorithm = "cmd.send.mock"
      BY <2>1, RegistryFacts DEF Contract
    <2> QED BY <2>1, <2>2, RegistryFacts DEF AlgorithmMode
  <1> QED BY <1>1, ReportStays, ValidationOrders, OrderInvariant, PTL
=============================================================================
