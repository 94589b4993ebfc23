------------------------- MODULE FlowExecutorProofs -------------------------
(***************************************************************************)
(* For any set of workflows, any number of runs of them in any             *)
(* interleaving, and crashes anywhere: the rows of a run follow its order, *)
(* its nodes consume what the run itself made and nothing a second or more *)
(* later than a readable decision_as_of, lineage is complete, and a run    *)
(* that succeeded replays.                                                 *)
(***************************************************************************)
EXTENDS FlowExecutor, TLAPS

\* What comparing whole seconds says of the milliseconds.
LEMMA Seconds ==
    ASSUME NEW a \in AsOf, NEW b \in AsOf
    PROVE  LET late == EpochSecond(a) > 0 /\ EpochSecond(b) > 0 /\ EpochSecond(a) > EpochSecond(b) IN
           /\ late => a \in Dated /\ b \in Dated /\ Instant[a] > Instant[b]
           /\ ~late /\ a \in Dated /\ b \in Dated => Instant[a] - Instant[b] < 1000
  <1>1. \A x \in Int : (x \div 1000 > 0 <=> x >= 1000) /\ x \div 1000 \in Int
    OBVIOUS
  <1>2. \A x, y \in Int : x \div 1000 > y \div 1000 => x > y
    OBVIOUS
  <1>3. \A x, y \in Int : ~(x \div 1000 > y \div 1000) => x - y < 1000
    OBVIOUS
  <1>4. \A d \in AsOf : /\ EpochSecond(d) > 0 <=> d \in Dated
                        /\ d \in Readable => Instant[d] \in Int /\ EpochSecond(d) = Instant[d] \div 1000
    BY <1>1, FlowExecutorAssumption DEF EpochSecond, Dated
  <1> QED BY <1>2, <1>3, <1>4 DEF Dated

\* The node a run is at is one of its order.
LEMMA OrderFacts ==
    ASSUME TypeOK, NEW r \in Run
    PROVE  /\ flow[r] \in Flow /\ Order[flow[r]] \in Seq(Node) /\ Len(Order[flow[r]]) \in Nat
           /\ cur[r] \in Nat \ {0}
           /\ Inputs[flow[r]] \in [Node -> Seq(Node \X Type)]
           /\ \A i \in 1 .. Len(Order[flow[r]]) : Order[flow[r]][i] \in Node
           /\ cur[r] <= Len(Order[flow[r]]) => Current(r) \in Node
  BY FlowExecutorAssumption DEF TypeOK, Current

\* What topological_order and the contracts guarantee of one input.
LEMMA InputFacts ==
    ASSUME TypeOK, NEW r \in Run, NEW j \in 1 .. Len(Order[flow[r]]),
           NEW k \in DOMAIN Inputs[flow[r]][Order[flow[r]][j]]
    PROVE  LET in == Inputs[flow[r]][Order[flow[r]][j]][k] IN
           /\ in[1] \in Node /\ in[2] \in Type
           /\ \E i \in 1 .. j - 1 : Order[flow[r]][i] = in[1]
           /\ in[2] = "domain" => in[1] \in Domain
           /\ Order[flow[r]][j] \in Checked => in[2] = "domain"
  <1>1. flow[r] \in Flow /\ Order[flow[r]][j] \in Node
    BY OrderFacts
  <1>2. Inputs[flow[r]][Order[flow[r]][j]] \in Seq(Node \X Type)
    BY <1>1, OrderFacts
  <1>3. k \in 1 .. Len(Inputs[flow[r]][Order[flow[r]][j]])
    BY <1>2
  <1> DEFINE in == Inputs[flow[r]][Order[flow[r]][j]][k]
  <1>4. in \in Node \X Type
    BY <1>2, <1>3
  <1>5. in[1] \in Node /\ in[2] \in Type
    BY <1>4
  <1>6. /\ \E i \in 1 .. j - 1 : Order[flow[r]][i] = in[1]
        /\ in[2] = "domain" => in[1] \in Domain
        /\ Order[flow[r]][j] \in Checked => in[2] = "domain"
    <2>1. InputAllowed(flow[r], j, in)
      BY <1>1, <1>3, FlowExecutorAssumption
    <2> QED BY <2>1 DEF InputAllowed
  <1> QED BY <1>5, <1>6

\* resolve_inputs never misses an input, and finds what this run made.
LEMMA ResolvedFacts ==
    ASSUME IInv, NEW r \in Run, cur[r] <= Len(Order[flow[r]])
    PROVE  /\ Resolved(r) \in Seq(Key)
           /\ DOMAIN Resolved(r) = DOMAIN Inputs[flow[r]][Current(r)]
           /\ \A i \in DOMAIN Resolved(r) :
                LET in == Inputs[flow[r]][Current(r)][i] IN
                /\ node[r][in[1]] = "succeeded" /\ in[1] \in Node
                /\ Resolved(r)[i] \in outs[r][in[1]] /\ Resolved(r)[i].type = in[2]
                /\ Resolved(r)[i] \in DOMAIN products
  <1> USE DEF IInv
  <1>1. /\ Current(r) = Order[flow[r]][cur[r]] /\ cur[r] \in 1 .. Len(Order[flow[r]])
        /\ Current(r) \in Node /\ Inputs[flow[r]][Current(r)] \in Seq(Node \X Type)
    BY OrderFacts DEF Current
  <1>2. ASSUME NEW i \in DOMAIN Inputs[flow[r]][Current(r)],
               NEW in, in = Inputs[flow[r]][Current(r)][i]
        PROVE  /\ in[1] \in Node /\ node[r][in[1]] = "succeeded"
               /\ Produced(r, in) \in outs[r][in[1]] /\ Produced(r, in).type = in[2]
               /\ Produced(r, in) \in DOMAIN products /\ Produced(r, in) \in Key
    <2>1. /\ in[1] \in Node /\ in[2] \in Type
          /\ in[2] = "domain" => in[1] \in Domain
          /\ \E p \in 1 .. cur[r] - 1 : Order[flow[r]][p] = in[1]
      <3>1. i \in DOMAIN Inputs[flow[r]][Order[flow[r]][cur[r]]]
            /\ in = Inputs[flow[r]][Order[flow[r]][cur[r]]][i]
        BY <1>1, <1>2
      <3> QED BY <3>1, <1>1, InputFacts
    <2>2. PICK p \in 1 .. cur[r] - 1 : Order[flow[r]][p] = in[1]
      BY <2>1
    <2>3. node[r][in[1]] = "succeeded"
      <3>1. p \in 1 .. Len(Order[flow[r]]) /\ p < cur[r]
        BY <1>1, OrderFacts
      <3>2. PositionOf(r)
        BY DEF Position
      <3> QED BY <3>1, <3>2, <2>2 DEF PositionOf
    <2>4. Outputs(r, in[1], outs[r][in[1]])
      BY <2>1, <2>3 DEF Recorded, RecordedOf
    <2>5. \E k \in outs[r][in[1]] : k.type = in[2]
      <3>1. PICK c : outs[r][in[1]] = {OutputKey(in[1], c)}
                     \cup (IF in[1] \in Domain THEN {DomainKey(r, in[1])} ELSE {})
        BY <2>4 DEF Outputs
      <3>2. OutputKey(in[1], c).type = "output" /\ DomainKey(r, in[1]).type = "domain"
        BY DEF OutputKey, DomainKey
      <3> QED BY <2>1, <3>1, <3>2 DEF Type
    <2>6. Produced(r, in) \in outs[r][in[1]] /\ Produced(r, in).type = in[2]
      BY <2>5 DEF Produced
    <2>7. outs[r][in[1]] \subseteq DOMAIN products /\ DOMAIN products \subseteq Key
      BY <2>4 DEF Outputs, TypeOK
    <2> QED BY <2>1, <2>3, <2>6, <2>7
  <1>3. DOMAIN Resolved(r) = DOMAIN Inputs[flow[r]][Current(r)]
    BY DEF Resolved
  <1>4. \A i \in DOMAIN Resolved(r) :
          Resolved(r)[i] = Produced(r, Inputs[flow[r]][Current(r)][i])
    BY DEF Resolved
  <1>5. \A i \in DOMAIN Resolved(r) : Resolved(r)[i] \in Key
    BY <1>2, <1>3, <1>4
  <1>6. Resolved(r) \in Seq(Key)
    <2>0. ASSUME NEW s \in Seq(Node \X Type)
          PROVE  DOMAIN s = 1 .. Len(s) /\ Len(s) \in Nat
      OBVIOUS
    <2>1. /\ DOMAIN Inputs[flow[r]][Current(r)] = 1 .. Len(Inputs[flow[r]][Current(r)])
          /\ Len(Inputs[flow[r]][Current(r)]) \in Nat
      BY <1>1, <2>0
    <2>2. \A i \in 1 .. Len(Inputs[flow[r]][Current(r)]) :
            Produced(r, Inputs[flow[r]][Current(r)][i]) \in Key
      BY <1>2, <2>1
    <2>3. Resolved(r) = [i \in 1 .. Len(Inputs[flow[r]][Current(r)]) |->
                            Produced(r, Inputs[flow[r]][Current(r)][i])]
      BY <2>1, <1>3 DEF Resolved
    <2> HIDE DEF Produced
    <2> QED BY <2>1, <2>2, <2>3
  <1> QED BY <1>2, <1>3, <1>4, <1>6

\* No run has begun.
LEMMA Initially == Init => IInv
  <1> SUFFICES ASSUME Init PROVE IInv
    OBVIOUS
  <1> USE FlowExecutorAssumption DEF Init
  <1>1. products = <<>> /\ DOMAIN products = {}
    OBVIOUS
  <1>2. TypeOK
    BY <1>1 DEF TypeOK
  <1>3. Position
    BY <1>2, OrderFacts DEF Position, PositionOf, Current
  <1>4. StatusOfPosition /\ Recorded /\ FreshIsOwn
    BY <1>1 DEF StatusOfPosition, StatusOf, Recorded, RecordedOf, FreshIsOwn
  <1>5. InputsOfRun /\ NoLookahead /\ LineageComplete /\ RejectionExplained
    BY DEF InputsOfRun, NoLookahead, LineageComplete, RejectionExplained
  <1> QED BY <1>2, <1>3, <1>4, <1>5 DEF IInv

\* An input names a node and a type.
LEMMA InputNode ==
    ASSUME TypeOK, NEW r \in Run, NEW n \in Node, NEW i \in DOMAIN Inputs[flow[r]][n]
    PROVE  Inputs[flow[r]][n][i][1] \in Node /\ Inputs[flow[r]][n][i][2] \in Type
  <1>1. Inputs[flow[r]][n] \in Seq(Node \X Type)
    BY OrderFacts
  <1>2. Inputs[flow[r]][n][i] \in Node \X Type
    BY <1>1
  <1> QED BY <1>2

\* A run that does not step keeps its position.
LEMMA OthersStay ==
    ASSUME IInv, NEW q \in Run, flow' = flow, status'[q] = status[q], node'[q] = node[q],
           cur'[q] = cur[q], pc'[q] = pc[q], violations \subseteq violations'
    PROVE  PositionOf(q)' /\ StatusOf(q)'
  <1>1. PositionOf(q) /\ StatusOf(q)
    BY DEF IInv, Position, StatusOfPosition
  <1>2. Current(q)' = Current(q)
    BY DEF Current
  <1>3. PositionOf(q)'
    BY <1>1, <1>2 DEF PositionOf
  <1>4. StatusOf(q)'
    BY <1>1, <1>2 DEF StatusOf
  <1> QED BY <1>3, <1>4

\* What the invariant says of products and lineage survives a step that touches
\* neither them nor the records of inputs and outputs.
LEMMA DataStays ==
    ASSUME IInv, UNCHANGED <<ins, outs, products, lineage, flow, asOf, cur, made>>,
           \A q \in Run : pc'[q] = "made" => pc[q] = "made",
           \A q \in Run, n \in Node :
              /\ node'[q][n] = "succeeded" <=> node[q][n] = "succeeded"
              /\ node'[q][n] = "none" <=> node[q][n] = "none"
    PROVE  Recorded' /\ FreshIsOwn' /\ InputsOfRun' /\ NoLookahead' /\ LineageComplete'
  <1> USE DEF IInv
  <1>1. Recorded'
    <2> SUFFICES ASSUME NEW q \in Run PROVE RecordedOf(q)'
      BY DEF Recorded
    <2>1. RecordedOf(q)
      BY DEF Recorded
    <2>2. Current(q)' = Current(q)
      BY DEF Current
    <2> QED BY <2>1, <2>2 DEF RecordedOf, Outputs
  <1>2. FreshIsOwn' /\ NoLookahead'
    BY DEF FreshIsOwn, NoLookahead
  <1>3. InputsOfRun'
    BY InputNode DEF InputsOfRun
  <1>4. LineageComplete'
    BY DEF LineageComplete
  <1> QED BY <1>1, <1>2, <1>3, <1>4

\* The steps that move the process or a status only.
LEMMA StatusStep ==
    ASSUME IInv, NEW r \in Run,
           Start(r) \/ Reject(r) \/ FailRun(r) \/ Finish(r) \/ Crash(r)
             \/ PersistError(r) \/ MarkFailed(r)
    PROVE  IInv'
  <1> USE DEF IInv
  <1>1. /\ UNCHANGED <<ins, outs, products, lineage, violations, flow, asOf, cur, made>>
        /\ \E label \in {"start", "node", "reject", "run", "failed", "fail", "end"} :
              pc' = [pc EXCEPT ![r] = label]
        /\ \/ node' = node
           \/ pc[r] = "failed" /\ node' = [node EXCEPT ![r][Current(r)] = "failed"]
        /\ \/ status' = status
           \/ \E v \in {"running", "succeeded", "failed", "rejected"} :
                status' = [status EXCEPT ![r] = v]
    BY DEF Start, Reject, FailRun, Finish, Crash, PersistError, MarkFailed, Goto, tables
  <1>2. PositionOf(r) /\ StatusOf(r) /\ Current(r)' = Current(r)
    BY <1>1 DEF Position, StatusOfPosition, Current
  <1>3. /\ Len(Order[flow[r]]) \in Nat /\ cur[r] \in Nat \ {0}
        /\ cur[r] <= Len(Order[flow[r]]) => Current(r) \in Node /\ cur[r] \in 1 .. Len(Order[flow[r]])
    BY OrderFacts
  <1>4. pc[r] = "failed" => Current(r) \in Node /\ node[r][Current(r)] = "running"
    BY <1>2, <1>3 DEF PositionOf
  <1> DEFINE NodeStates == {"none", "running", "succeeded", "failed"}
             Labels == {"start", "node", "reject", "run", "made", "failed", "fail", "end"}
             States == {"none", "running", "succeeded", "failed", "rejected"}
  <1>t. node \in [Run -> [Node -> NodeStates]] /\ pc \in [Run -> Labels] /\ status \in [Run -> States]
    BY DEF TypeOK
  <1>n. /\ node' \in [Run -> [Node -> NodeStates]]
        /\ \A q \in Run, n \in Node :
              \/ node'[q][n] = node[q][n]
              \/ node'[q][n] = "failed" /\ node[q][n] = "running"
    <2>1. CASE node' = node
      BY <2>1, <1>t
    <2>2. CASE pc[r] = "failed" /\ node' = [node EXCEPT ![r][Current(r)] = "failed"]
      <3>1. [node[r] EXCEPT ![Current(r)] = "failed"] \in [Node -> NodeStates]
        BY <1>t, <2>2, <1>4
      <3>2. node' = [node EXCEPT ![r] = [node[r] EXCEPT ![Current(r)] = "failed"]]
        BY <2>2
      <3>3. node' \in [Run -> [Node -> NodeStates]]
        BY <3>1, <3>2, <1>t
      <3>4. \A q \in Run : node'[q] = IF q = r THEN [node[r] EXCEPT ![Current(r)] = "failed"] ELSE node[q]
        BY <3>2, <1>t
      <3> QED BY <3>3, <3>4, <1>t, <1>4, <2>2
    <2> QED BY <2>1, <2>2, <1>1
  <1>5. TypeOK'
    <2>1. pc' \in [Run -> Labels]
      BY <1>1, <1>t
    <2>2. status' \in [Run -> States]
      BY <1>1, <1>t
    <2> QED BY <1>1, <1>n, <2>1, <2>2 DEF TypeOK
  <1>6. /\ \A q \in Run : pc'[q] = "made" => pc[q] = "made"
        /\ \A q \in Run : q # r =>
              status'[q] = status[q] /\ node'[q] = node[q] /\ pc'[q] = pc[q]
    BY <1>1 DEF TypeOK
  <1>7. \A q \in Run, n \in Node :
          /\ node'[q][n] = "succeeded" <=> node[q][n] = "succeeded"
          /\ node'[q][n] = "none" <=> node[q][n] = "none"
    BY <1>n
  <1>8. Recorded' /\ FreshIsOwn' /\ InputsOfRun' /\ NoLookahead' /\ LineageComplete'
    BY <1>1, <1>6, <1>7, DataStays
  <1>9. PositionOf(r)' /\ StatusOf(r)'
    <2>1. CASE Start(r)
      BY <2>1, <1>2, <1>3 DEF Start, Goto, PositionOf, StatusOf, TypeOK
    <2>2. CASE Reject(r)
      BY <2>2, <1>2, <1>3 DEF Reject, Goto, PositionOf, StatusOf, TypeOK
    <2>3. CASE FailRun(r)
      BY <2>3, <1>2, <1>3 DEF FailRun, Goto, PositionOf, StatusOf, TypeOK
    <2>4. CASE Finish(r)
      BY <2>4, <1>2, <1>3 DEF Finish, Goto, PositionOf, StatusOf, TypeOK
    <2>5. CASE Crash(r)
      BY <2>5, <1>2, <1>3 DEF Crash, Goto, tables, PositionOf, StatusOf, TypeOK
    <2>6. CASE PersistError(r)
      BY <2>6, <1>2, <1>3 DEF PersistError, Goto, tables, PositionOf, StatusOf, TypeOK
    <2>7. CASE MarkFailed(r)
      <3>1. /\ node'[r][Current(r)] = "failed" /\ pc[r] = "failed" /\ pc'[r] = "fail"
            /\ \A n \in Node : n # Current(r) => node'[r][n] = node[r][n]
            /\ UNCHANGED <<status, flow, cur, violations>>
        BY <2>7, <1>4 DEF MarkFailed, Goto, TypeOK
      <3>2. \A i \in 1 .. Len(Order[flow[r]]) :
              i # cur[r] => Order[flow[r]][i] # Current(r) /\ Order[flow[r]][i] \in Node
        <4>1. cur[r] \in 1 .. Len(Order[flow[r]]) /\ flow[r] \in Flow
          BY <1>2, <1>3, <3>1, OrderFacts DEF PositionOf
        <4> QED BY <4>1, FlowExecutorAssumption, OrderFacts DEF Current
      <3>3. PositionOf(r)'
        <4>1. /\ cur[r] \in 1 .. Len(Order[flow[r]])
              /\ Current(r) = Order[flow[r]][cur[r]] /\ Current(r) \in Node
          BY <1>2, <1>3, <3>1 DEF PositionOf, Current
        <4>2. \A i \in 1 .. Len(Order[flow[r]]) :
                i # cur[r] => node'[r][Order[flow[r]][i]] = node[r][Order[flow[r]][i]]
          BY <3>1, <3>2
        <4>3. \A n \in Node : node'[r][n] # "none" =>
                \E i \in 1 .. Len(Order[flow[r]]) : Order[flow[r]][i] = n
          BY <1>2, <3>1, <4>1 DEF PositionOf
        <4>4. \A i \in 1 .. Len(Order[flow[r]]) :
                /\ i < cur[r] => node'[r][Order[flow[r]][i]] = "succeeded"
                /\ i > cur[r] => node'[r][Order[flow[r]][i]] = "none"
          BY <1>2, <4>1, <4>2 DEF PositionOf
        <4> QED BY <1>2, <1>3, <3>1, <4>1, <4>3, <4>4 DEF PositionOf
      <3>4. StatusOf(r)'
        BY <1>2, <3>1 DEF StatusOf
      <3> QED BY <3>3, <3>4
    <2> QED BY <2>1, <2>2, <2>3, <2>4, <2>5, <2>6, <2>7
  <1>10. Position' /\ StatusOfPosition'
    <2>1. \A q \in Run : q # r => PositionOf(q)' /\ StatusOf(q)'
      BY <1>1, <1>6, OthersStay
    <2> QED BY <2>1, <1>9 DEF Position, StatusOfPosition
  <1>11. RejectionExplained'
    <2>1. \A q \in Run : status'[q] = "rejected" => q \in violations'
      BY <1>10 DEF StatusOfPosition, StatusOf
    <2> QED BY <2>1, <1>1 DEF RejectionExplained
  <1> QED BY <1>5, <1>8, <1>10, <1>11

\* What a node that succeeded recorded as its outputs.
LEMMA OutputFacts ==
    ASSUME IInv, NEW r \in Run, NEW n \in Node, NEW k \in outs[r][n]
    PROVE  /\ node[r][n] = "succeeded" /\ k \in DOMAIN products
           /\ k.cell = Cell[n] /\ k.content \in {Same, <<r, n>>}
           /\ k.content = <<r, n>> => products[k].at = asOf[r]
           /\ n \in Checked => k.content = <<r, n>>
  <1> USE DEF IInv
  <1>1. node[r][n] = "succeeded" /\ Outputs(r, n, outs[r][n])
    BY DEF Recorded, RecordedOf
  <1>2. PICK c \in Contents(r, n) : outs[r][n] = {OutputKey(n, c)}
                \cup (IF n \in Domain THEN {DomainKey(r, n)} ELSE {})
    BY <1>1 DEF Outputs
  <1>3. k = OutputKey(n, c) \/ k = DomainKey(r, n)
    BY <1>2
  <1>4. c \in {Same, <<r, n>>} /\ (n \in Checked => c = <<r, n>>)
    BY FlowExecutorAssumption DEF Contents
  <1>5. k.cell = Cell[n] /\ (k.content = c \/ k.content = <<r, n>>)
    BY <1>3 DEF OutputKey, DomainKey
  <1>6. k \in DOMAIN products
    BY <1>1 DEF Outputs
  <1> QED BY <1>1, <1>4, <1>5, <1>6 DEF FreshIsOwn

\* What a node consumed stays in the store.
LEMMA InsStored ==
    ASSUME IInv, NEW r \in Run, NEW n \in Node, NEW i \in DOMAIN ins[r][n]
    PROVE  ins[r][n][i] \in DOMAIN products
  <1> USE DEF IInv
  <1>1. node[r][n] # "none" /\ i \in DOMAIN Inputs[flow[r]][n]
    BY DEF Recorded, RecordedOf
  <1>2. /\ Inputs[flow[r]][n][i][1] \in Node
        /\ ins[r][n][i] \in outs[r][Inputs[flow[r]][n][i][1]]
    BY <1>1, InputNode DEF InputsOfRun
  <1> QED BY <1>2, OutputFacts

\* A violation is recorded before its run is rejected.
LEMMA ViolateStep ==
    ASSUME IInv, NEW r \in Run, Violate(r)
    PROVE  IInv'
  <1> USE DEF IInv
  <1>1. /\ pc[r] = "node" /\ cur[r] <= Len(Order[flow[r]]) /\ Lookahead(r)
        /\ violations' = violations \cup {r} /\ pc' = [pc EXCEPT ![r] = "reject"]
        /\ UNCHANGED <<status, node, ins, outs, products, lineage, flow, asOf, cur, made>>
    BY DEF Violate, Goto
  <1>2. TypeOK'
    BY <1>1 DEF TypeOK
  <1>3. pc'[r] = "reject" /\ \A q \in Run : q # r => pc'[q] = pc[q]
    BY <1>1 DEF TypeOK
  <1>4. Position' /\ StatusOfPosition'
    <2>1. \A q \in Run : q # r => PositionOf(q)' /\ StatusOf(q)'
      BY <1>1, <1>3, OthersStay
    <2>2. PositionOf(r) /\ StatusOf(r) /\ Current(r)' = Current(r)
      BY <1>1 DEF Position, StatusOfPosition, Current
    <2>3. PositionOf(r)' /\ StatusOf(r)'
      BY <1>1, <1>3, <2>2 DEF PositionOf, StatusOf
    <2> QED BY <2>1, <2>3 DEF Position, StatusOfPosition
  <1>5. Recorded' /\ FreshIsOwn' /\ InputsOfRun' /\ NoLookahead' /\ LineageComplete'
    BY <1>1, <1>3, DataStays
  <1>6. RejectionExplained'
    <2>1. PICK i \in DOMAIN Resolved(r) :
            LET a == EpochSecond(products[Resolved(r)[i]].at)
                b == EpochSecond(asOf[r])
            IN  a > 0 /\ b > 0 /\ a > b
      BY <1>1, Zenon DEF Lookahead
    <2>2. PICK n \in Node : Resolved(r)[i] \in outs[r][n]
      BY <1>1, <2>1, ResolvedFacts
    <2> DEFINE available == products[Resolved(r)[i]].at
    <2>3. available \in AsOf /\ asOf[r] \in AsOf
      BY <1>1, <2>1, ResolvedFacts DEF TypeOK
    <2>4. available \in Dated /\ asOf[r] \in Dated /\ Instant[available] > Instant[asOf[r]]
      BY <2>1, <2>3, Seconds
    <2>5. Instant[available] \in Int /\ available # asOf[r]
      BY <2>4, FlowExecutorAssumption DEF Dated
    <2>6. Resolved(r)[i].content = Same
      BY <2>2, <2>5, OutputFacts
    <2>7. RejectionExplained
      OBVIOUS
    <2>8. \A q \in Run : status'[q] = status[q] /\ asOf'[q] = asOf[q] /\ outs'[q] = outs[q]
      BY <1>1
    <2> QED BY <1>1, <2>2, <2>4, <2>6, <2>7 DEF RejectionExplained, StatusOfPosition, StatusOf
  <1> QED BY <1>2, <1>4, <1>5, <1>6

\* A node begins with the inputs resolved for it.
LEMMA BeginNodeStep ==
    ASSUME IInv, NEW r \in Run, BeginNode(r)
    PROVE  IInv'
  <1> USE DEF IInv
  <1> DEFINE c == Current(r)
             NodeStates == {"none", "running", "succeeded", "failed"}
             Labels == {"start", "node", "reject", "run", "made", "failed", "fail", "end"}
  <1>1. /\ pc[r] = "node" /\ cur[r] <= Len(Order[flow[r]]) /\ ~Lookahead(r)
        /\ node' = [node EXCEPT ![r] = [node[r] EXCEPT ![c] = "running"]]
        /\ ins' = [ins EXCEPT ![r] = [ins[r] EXCEPT ![c] = Resolved(r)]]
        /\ pc' = [pc EXCEPT ![r] = "run"]
        /\ UNCHANGED <<status, outs, products, lineage, violations, flow, asOf, cur, made>>
    BY DEF BeginNode, Goto
  <1>t. /\ node \in [Run -> [Node -> NodeStates]] /\ pc \in [Run -> Labels]
        /\ ins \in [Run -> [Node -> Seq(Key)]]
    BY DEF TypeOK
  <1>2. c \in Node /\ cur[r] \in 1 .. Len(Order[flow[r]]) /\ c = Order[flow[r]][cur[r]]
    BY <1>1, OrderFacts DEF Current
  <1>3. PositionOf(r) /\ StatusOf(r) /\ node[r][c] = "none" /\ Current(r)' = c
    BY <1>1, <1>2 DEF Position, PositionOf, StatusOfPosition, Current
  <1>4. /\ node'[r][c] = "running" /\ ins'[r][c] = Resolved(r) /\ pc'[r] = "run"
        /\ \A n \in Node : n # c => node'[r][n] = node[r][n] /\ ins'[r][n] = ins[r][n]
        /\ \A q \in Run : q # r => node'[q] = node[q] /\ ins'[q] = ins[q] /\ pc'[q] = pc[q]
    BY <1>1, <1>2, <1>t
  <1>5. TypeOK'
    <2>1. Resolved(r) \in Seq(Key)
      BY <1>1, ResolvedFacts
    <2>2. [node[r] EXCEPT ![c] = "running"] \in [Node -> NodeStates]
      BY <1>t
    <2>3. [ins[r] EXCEPT ![c] = Resolved(r)] \in [Node -> Seq(Key)]
      BY <1>t, <2>1
    <2>4. node' \in [Run -> [Node -> NodeStates]] /\ ins' \in [Run -> [Node -> Seq(Key)]]
          /\ pc' \in [Run -> Labels]
      BY <1>1, <1>t, <2>2, <2>3
    <2> QED BY <1>1, <2>4 DEF TypeOK
  <1>6. Position' /\ StatusOfPosition'
    <2>1. \A q \in Run : q # r => PositionOf(q)' /\ StatusOf(q)'
      BY <1>1, <1>4, OthersStay
    <2>2. \A i \in 1 .. Len(Order[flow[r]]) :
            i # cur[r] => Order[flow[r]][i] # c /\ Order[flow[r]][i] \in Node
      BY <1>2, FlowExecutorAssumption, OrderFacts
    <2>3. \A i \in 1 .. Len(Order[flow[r]]) :
            i # cur[r] => node'[r][Order[flow[r]][i]] = node[r][Order[flow[r]][i]]
      BY <1>4, <2>2
    <2>4. \A n \in Node : node'[r][n] # "none" =>
            \E i \in 1 .. Len(Order[flow[r]]) : Order[flow[r]][i] = n
      BY <1>2, <1>3, <1>4 DEF PositionOf
    <2>5. \A i \in 1 .. Len(Order[flow[r]]) :
            /\ i < cur[r] => node'[r][Order[flow[r]][i]] = "succeeded"
            /\ i > cur[r] => node'[r][Order[flow[r]][i]] = "none"
      BY <1>2, <1>3, <2>3 DEF PositionOf
    <2>6. PositionOf(r)'
      BY <1>1, <1>2, <1>3, <1>4, <2>4, <2>5 DEF PositionOf
    <2>7. StatusOf(r)'
      BY <1>1, <1>3, <1>4 DEF StatusOf
    <2> QED BY <2>1, <2>6, <2>7 DEF Position, StatusOfPosition
  <1>7. ins[r][c] = <<>> /\ outs[r][c] = {}
    BY <1>2, <1>3 DEF Recorded, RecordedOf
  <1>8. Recorded'
    <2>2. ASSUME NEW q \in Run, q # r PROVE RecordedOf(q)'
      <3>1. RecordedOf(q) /\ Current(q)' = Current(q)
        BY <1>1 DEF Recorded, Current
      <3>2. node'[q] = node[q] /\ ins'[q] = ins[q] /\ pc'[q] = pc[q]
        BY <2>2, <1>4
      <3>3. /\ \A n \in Node : outs'[q][n] = outs[q][n] /\ flow'[q] = flow[q]
            /\ made'[q] = made[q] /\ lineage' = lineage
        BY <1>1
      <3>4. \A n \in Node :
              /\ node'[q][n] = "succeeded" => Outputs(q, n, outs[q][n])'
              /\ node'[q][n] # "succeeded" => outs'[q][n] = {}
              /\ node'[q][n] = "none" => ins'[q][n] = <<>>
              /\ node'[q][n] # "none" => DOMAIN ins'[q][n] = DOMAIN Inputs[flow'[q]][n]
        <4> HIDE DEF IInv
        <4> QED BY <3>1, <3>2, <3>3, <1>1 DEF RecordedOf, Outputs
      <3>5. pc'[q] = "made" =>
              /\ Outputs(q, Current(q), made[q])'
              /\ \A k \in made'[q], i \in DOMAIN ins'[q][Current(q)] :
                   <<k, ins'[q][Current(q)][i]>> \in lineage'
        <4> HIDE DEF IInv
        <4> QED BY <3>1, <3>2, <3>3, <1>1 DEF RecordedOf, Outputs
      <3> QED BY <3>1, <3>4, <3>5 DEF RecordedOf
    <2>3. RecordedOf(r)'
      <3>1. RecordedOf(r)
        BY DEF Recorded
      <3>2. DOMAIN Resolved(r) = DOMAIN Inputs[flow[r]][c]
        BY <1>1, ResolvedFacts
      <3> QED BY <3>1, <3>2, <1>1, <1>4, <1>7 DEF RecordedOf, Outputs
    <2> QED BY <2>2, <2>3 DEF Recorded
  <1>9. FreshIsOwn'
    <2>1. \A q \in Run, n \in Node : ~(q = r /\ n = c) => ins'[q][n] = ins[q][n]
      BY <1>4
    <2>2. \A l \in lineage : l[1].content # <<r, c>>
      BY <1>2, <1>7 DEF FreshIsOwn
    <2> QED BY <1>1, <2>1, <2>2 DEF FreshIsOwn
  <1>10. InputsOfRun'
    <2> SUFFICES ASSUME NEW q \in Run, NEW n \in Node, node'[q][n] # "none",
                        NEW i \in DOMAIN Inputs[flow[q]][n],
                        NEW in, in = Inputs[flow[q]][n][i]
                 PROVE  /\ node'[q][in[1]] = "succeeded"
                        /\ ins'[q][n][i] \in outs[q][in[1]] /\ ins'[q][n][i].type = in[2]
      BY <1>1 DEF InputsOfRun
    <2>1. in[1] \in Node
      BY InputNode
    <2>2. CASE q = r /\ n = c
      <3>1. /\ node[r][in[1]] = "succeeded" /\ Resolved(r)[i] \in outs[r][in[1]]
            /\ Resolved(r)[i].type = in[2]
        BY <1>1, <2>2, ResolvedFacts
      <3> QED BY <3>1, <2>1, <2>2, <1>3, <1>4
    <2>3. CASE ~(q = r /\ n = c)
      <3>1. node[q][n] # "none" /\ ins'[q][n] = ins[q][n]
        BY <2>3, <1>4
      <3>2. node[q][in[1]] = "succeeded" /\ ins[q][n][i] \in outs[q][in[1]]
            /\ ins[q][n][i].type = in[2]
        BY <3>1 DEF InputsOfRun
      <3> QED BY <3>1, <3>2, <2>1, <1>3, <1>4
    <2> QED BY <2>2, <2>3
  <1>11. NoLookahead'
    <2>1. ASSUME NEW i \in DOMAIN Resolved(r),
                 products[Resolved(r)[i]].at \in Dated, asOf[r] \in Dated
          PROVE  Instant[products[Resolved(r)[i]].at] - Instant[asOf[r]] < 1000
      <3>1. products[Resolved(r)[i]].at \in AsOf /\ asOf[r] \in AsOf
        BY <1>1, ResolvedFacts DEF TypeOK
      <3>2. LET a == EpochSecond(products[Resolved(r)[i]].at)
                b == EpochSecond(asOf[r])
            IN  ~(a > 0 /\ b > 0 /\ a > b)
        BY <1>1, Zenon DEF Lookahead
      <3> QED BY <2>1, <3>1, <3>2, Seconds
    <2>2. ASSUME NEW q \in Run, NEW n \in Node, NEW i \in DOMAIN ins'[q][n],
                 products[ins'[q][n][i]].at \in Dated, asOf[q] \in Dated
          PROVE  Instant[products[ins'[q][n][i]].at] - Instant[asOf[q]] < 1000
      <3>1. CASE q = r /\ n = c
        <4>1. ins'[q][n] = Resolved(r)
          BY <1>1, <1>t, <1>2, <3>1
        <4> QED BY <2>1, <2>2, <3>1, <4>1
      <3>2. CASE ~(q = r /\ n = c)
        <4>1. ins'[q][n] = ins[q][n]
          BY <1>1, <1>t, <3>2
        <4> QED BY <2>2, <4>1 DEF NoLookahead
      <3> QED BY <3>1, <3>2
    <2> QED BY <1>1, <2>2 DEF NoLookahead
  <1>12. LineageComplete'
    <2> SUFFICES ASSUME NEW q \in Run, NEW n \in Node, node'[q][n] = "succeeded",
                        NEW k \in outs[q][n], NEW i \in DOMAIN ins'[q][n]
                 PROVE  <<k, ins'[q][n][i]>> \in lineage
      BY <1>1, ZenonT(60) DEF LineageComplete
    <2>1. node[q][n] = "succeeded" /\ ins'[q][n] = ins[q][n]
      BY <1>4
    <2> QED BY <2>1 DEF LineageComplete
  <1>13. RejectionExplained'
    BY <1>1 DEF RejectionExplained
  <1> QED BY <1>5, <1>6, <1>8, <1>9, <1>10, <1>11, <1>12, <1>13

\* What persist_product keeps, for products of the node under execution that
\* are fresh or of repeated content.
LEMMA PersistKeeps ==
    ASSUME IInv, NEW r \in Run, pc[r] = "run", NEW keys \in SUBSET Key, Persist(r, keys),
           \A k \in keys : k.content \in {Same, Error, <<r, Current(r)>>},
           UNCHANGED <<status, node, ins, outs, violations, flow, asOf, cur>>
    PROVE  /\ DOMAIN products' = DOMAIN products \cup keys /\ DOMAIN products' \subseteq Key
           /\ \A k \in DOMAIN products' :
                products'[k].parents \in Seq(Key) /\ products'[k].at \in AsOf
           /\ lineage' \subseteq Key \X Key /\ lineage \subseteq lineage'
           /\ \A k \in keys, i \in DOMAIN ins[r][Current(r)] :
                <<k, ins[r][Current(r)][i]>> \in lineage'
           /\ FreshIsOwn' /\ InputsOfRun' /\ NoLookahead' /\ LineageComplete'
           /\ RejectionExplained'
  <1> USE DEF IInv
  <1> DEFINE c == Current(r)
             parents == ins[r][c]
  <1>1. c \in Node
    BY OrderFacts DEF Position, PositionOf
  <1>2. /\ parents \in Seq(Key) /\ asOf[r] \in AsOf /\ DOMAIN products \subseteq Key
        /\ \A k \in DOMAIN products : products[k].parents \in Seq(Key) /\ products[k].at \in AsOf
        /\ lineage \subseteq Key \X Key
    BY <1>1 DEF TypeOK
  <1>3. /\ products' = [k \in DOMAIN products \cup keys |->
               IF k \in DOMAIN products THEN products[k]
               ELSE [parents |-> parents, at |-> asOf[r]]]
        /\ lineage' = lineage \cup {<<k, parents[i]>> : k \in keys, i \in DOMAIN parents}
    BY DEF Persist
  <1>4. /\ DOMAIN products' = DOMAIN products \cup keys
        /\ \A k \in DOMAIN products : products'[k] = products[k]
        /\ \A k \in DOMAIN products' \ DOMAIN products :
              k \in keys /\ products'[k].parents = parents /\ products'[k].at = asOf[r]
    BY <1>3
  <1>5. \A i \in DOMAIN parents : parents[i] \in Key
    BY <1>2
  <1>6. lineage' \subseteq Key \X Key /\ lineage \subseteq lineage'
    BY <1>2, <1>3, <1>5
  <1>7. \A l \in lineage' : l \in lineage \/
          \E k \in keys, i \in DOMAIN parents : l[1] = k /\ l[2] = parents[i]
    BY <1>3
  <1>8. \A q \in Run, n \in Node, k \in keys :
          k.content = <<q, n>> => q = r /\ n = c
    <2>1. \A q \in Run, n \in Node : <<q, n>> \in Run \X Node
      OBVIOUS
    <2>2. Same \notin Run \X Node /\ Error \notin Run \X Node
      BY FlowExecutorAssumption
    <2> QED BY <2>1, <2>2
  <1>9. FreshIsOwn'
    <2> SUFFICES ASSUME NEW q \in Run, NEW n \in Node
                 PROVE  /\ \A k \in DOMAIN products' :
                             k.content = <<q, n>> => products'[k].at = asOf[q]
                        /\ \A l \in lineage' : l[1].content = <<q, n>> =>
                             \E i \in DOMAIN ins[q][n] : l[2] = ins[q][n][i]
      BY DEF FreshIsOwn
    <2>1. \A k \in DOMAIN products' : k.content = <<q, n>> => products'[k].at = asOf[q]
      BY <1>4, <1>8 DEF FreshIsOwn
    <2>2. \A l \in lineage' : l[1].content = <<q, n>> =>
             \E i \in DOMAIN ins[q][n] : l[2] = ins[q][n][i]
      BY <1>7, <1>8 DEF FreshIsOwn
    <2> QED BY <2>1, <2>2
  <1>10. InputsOfRun'
    BY InputNode DEF InputsOfRun
  <1>11. NoLookahead'
    BY <1>4, InsStored DEF NoLookahead
  <1>12. LineageComplete'
    BY <1>6 DEF LineageComplete
  <1>13. RejectionExplained'
    BY <1>4, OutputFacts DEF RejectionExplained
  <1>14. \A k \in keys, i \in DOMAIN parents : <<k, parents[i]>> \in lineage'
    BY <1>3
  <1> QED BY <1>2, <1>4, <1>6, <1>9, <1>10, <1>11, <1>12, <1>13, <1>14

\* The node's products, or its failure, are stored.
LEMMA PersistStep ==
    ASSUME IInv, NEW r \in Run, PersistOutputs(r) \/ PersistFailure(r)
    PROVE  IInv'
  <1> USE DEF IInv
  <1> DEFINE c == Current(r)
             Labels == {"start", "node", "reject", "run", "made", "failed", "fail", "end"}
  <1>1. /\ pc[r] = "run"
        /\ UNCHANGED <<status, node, ins, outs, violations, flow, asOf, cur>>
    BY DEF PersistOutputs, PersistFailure
  <1>2. c \in Node /\ cur[r] <= Len(Order[flow[r]])
    BY <1>1, OrderFacts DEF Position, PositionOf
  <1>3. PICK keys \in SUBSET Key :
          /\ Persist(r, keys)
          /\ \A k \in keys : k.content \in {Same, Error, <<r, c>>}
          /\ \/ /\ made' = [made EXCEPT ![r] = keys] /\ pc' = [pc EXCEPT ![r] = "made"]
                /\ \E x \in Contents(r, c) : keys =
                     {OutputKey(c, x)} \cup (IF c \in Domain THEN {DomainKey(r, c)} ELSE {})
             \/ made' = made /\ pc' = [pc EXCEPT ![r] = "failed"]
    <2>1. \A x \in Content : OutputKey(c, x) \in Key /\ OutputKey(c, x).content = x
      BY <1>2 DEF OutputKey, Key, Type
    <2>2. DomainKey(r, c) \in Key /\ DomainKey(r, c).content = <<r, c>>
      BY <1>2 DEF DomainKey, Key, Type, Content
    <2>3. Contents(r, c) \subseteq {Same, <<r, c>>} /\ {Same, Error, <<r, c>>} \subseteq Content
      BY <1>2 DEF Contents, Content
    <2>4. CASE PersistFailure(r)
      BY <2>1, <2>3, <2>4 DEF PersistFailure, Goto
    <2>5. CASE PersistOutputs(r)
      <3>1. PICK x \in Contents(r, c) :
              LET keys == {OutputKey(c, x)} \cup (IF c \in Domain THEN {DomainKey(r, c)} ELSE {})
              IN  Persist(r, keys) /\ made' = [made EXCEPT ![r] = keys]
        BY <2>5 DEF PersistOutputs
      <3> DEFINE keys == {OutputKey(c, x)} \cup (IF c \in Domain THEN {DomainKey(r, c)} ELSE {})
      <3>2. keys \in SUBSET Key /\ \A k \in keys : k.content \in {Same, Error, <<r, c>>}
        BY <2>1, <2>2, <2>3
      <3>3. pc' = [pc EXCEPT ![r] = "made"]
        BY <2>5 DEF PersistOutputs, Goto
      <3> QED BY <3>1, <3>2, <3>3
    <2> QED BY <2>4, <2>5
  <1>4. /\ DOMAIN products' = DOMAIN products \cup keys /\ DOMAIN products' \subseteq Key
        /\ \A k \in DOMAIN products' :
             products'[k].parents \in Seq(Key) /\ products'[k].at \in AsOf
        /\ lineage' \subseteq Key \X Key /\ lineage \subseteq lineage'
        /\ \A k \in keys, i \in DOMAIN ins[r][c] : <<k, ins[r][c][i]>> \in lineage'
        /\ FreshIsOwn' /\ InputsOfRun' /\ NoLookahead' /\ LineageComplete' /\ RejectionExplained'
    BY <1>1, <1>3, PersistKeeps
  <1>5. made \in [Run -> SUBSET Key] /\ pc \in [Run -> Labels]
    BY DEF TypeOK
  <1>6. /\ \A q \in Run : q # r => made'[q] = made[q] /\ pc'[q] = pc[q]
        /\ \/ pc'[r] = "made" /\ made'[r] = keys
              /\ \E x \in Contents(r, c) : keys =
                   {OutputKey(c, x)} \cup (IF c \in Domain THEN {DomainKey(r, c)} ELSE {})
           \/ pc'[r] = "failed"
    BY <1>3, <1>5
  <1>7. TypeOK'
    <2>1. made' \in [Run -> SUBSET Key] /\ pc' \in [Run -> Labels]
      BY <1>3, <1>5
    <2> QED BY <1>1, <1>4, <2>1 DEF TypeOK
  <1>8. Position' /\ StatusOfPosition'
    <2>1. \A q \in Run : q # r => PositionOf(q)' /\ StatusOf(q)'
      BY <1>1, <1>6, OthersStay
    <2>2. PositionOf(r) /\ StatusOf(r) /\ Current(r)' = Current(r)
      BY <1>1 DEF Position, StatusOfPosition, Current
    <2>3. PositionOf(r)' /\ StatusOf(r)'
      BY <1>1, <1>2, <1>6, <2>2 DEF PositionOf, StatusOf
    <2> QED BY <2>1, <2>3 DEF Position, StatusOfPosition
  <1>9. Recorded'
    <2> SUFFICES ASSUME NEW q \in Run PROVE RecordedOf(q)'
      BY DEF Recorded
    <2>1. RecordedOf(q) /\ Current(q)' = Current(q)
      BY <1>1 DEF Recorded, Current
    <2>2. \A n \in Node :
            /\ node'[q][n] = "succeeded" => Outputs(q, n, outs[q][n])'
            /\ node'[q][n] # "succeeded" => outs'[q][n] = {}
            /\ node'[q][n] = "none" => ins'[q][n] = <<>>
            /\ node'[q][n] # "none" => DOMAIN ins'[q][n] = DOMAIN Inputs[flow'[q]][n]
      BY <2>1, <1>1, <1>4 DEF RecordedOf, Outputs
    <2>3. ASSUME pc'[q] = "made"
          PROVE  /\ Outputs(q, Current(q), made[q])'
                 /\ \A k \in made'[q], i \in DOMAIN ins'[q][Current(q)] :
                      <<k, ins'[q][Current(q)][i]>> \in lineage'
      <3>1. CASE q = r
        BY <2>3, <3>1, <1>1, <1>4, <1>6, <2>1 DEF Outputs
      <3>2. CASE q # r
        BY <2>3, <3>2, <1>1, <1>4, <1>6, <2>1 DEF RecordedOf, Outputs
      <3> QED BY <3>1, <3>2
    <2> QED BY <2>1, <2>2, <2>3 DEF RecordedOf
  <1> QED BY <1>4, <1>7, <1>8, <1>9

\* A node ends with the products made for it.
LEMMA MarkSucceededStep ==
    ASSUME IInv, NEW r \in Run, MarkSucceeded(r)
    PROVE  IInv'
  <1> USE DEF IInv
  <1> DEFINE c == Current(r)
             NodeStates == {"none", "running", "succeeded", "failed"}
             Labels == {"start", "node", "reject", "run", "made", "failed", "fail", "end"}
  <1>1. /\ pc[r] = "made"
        /\ node' = [node EXCEPT ![r] = [node[r] EXCEPT ![c] = "succeeded"]]
        /\ outs' = [outs EXCEPT ![r] = [outs[r] EXCEPT ![c] = made[r]]]
        /\ cur' = [cur EXCEPT ![r] = cur[r] + 1]
        /\ pc' = [pc EXCEPT ![r] = "node"]
        /\ UNCHANGED <<status, ins, products, lineage, violations, flow, asOf, made>>
    BY DEF MarkSucceeded, Goto
  <1>t. /\ node \in [Run -> [Node -> NodeStates]] /\ pc \in [Run -> Labels]
        /\ outs \in [Run -> [Node -> SUBSET Key]] /\ made \in [Run -> SUBSET Key]
        /\ cur \in [Run -> Nat \ {0}]
    BY DEF TypeOK
  <1>2. /\ c \in Node /\ cur[r] \in 1 .. Len(Order[flow[r]]) /\ c = Order[flow[r]][cur[r]]
        /\ Len(Order[flow[r]]) \in Nat
    BY <1>1, OrderFacts DEF Current, Position, PositionOf
  <1>3. PositionOf(r) /\ StatusOf(r) /\ node[r][c] = "running"
    BY <1>1, <1>2 DEF Position, PositionOf, StatusOfPosition
  <1>4. /\ node'[r][c] = "succeeded" /\ outs'[r][c] = made[r] /\ pc'[r] = "node"
        /\ cur'[r] = cur[r] + 1
        /\ \A n \in Node : n # c => node'[r][n] = node[r][n] /\ outs'[r][n] = outs[r][n]
        /\ \A q \in Run : q # r => /\ node'[q] = node[q] /\ outs'[q] = outs[q]
                                   /\ pc'[q] = pc[q] /\ cur'[q] = cur[q]
    BY <1>1, <1>2, <1>t
  <1>5. TypeOK'
    <2>1. [node[r] EXCEPT ![c] = "succeeded"] \in [Node -> NodeStates]
      BY <1>t
    <2>2. [outs[r] EXCEPT ![c] = made[r]] \in [Node -> SUBSET Key]
      BY <1>t
    <2>3. cur[r] + 1 \in Nat \ {0}
      BY <1>2
    <2>4. /\ node' \in [Run -> [Node -> NodeStates]] /\ outs' \in [Run -> [Node -> SUBSET Key]]
          /\ pc' \in [Run -> Labels] /\ cur' \in [Run -> Nat \ {0}]
      BY <1>1, <1>t, <2>1, <2>2, <2>3
    <2> QED BY <1>1, <2>4 DEF TypeOK
  <1>6. outs[r][c] = {}
    BY <1>2, <1>3 DEF Recorded, RecordedOf
  <1>7. \A q \in Run, n \in Node :
          /\ outs[q][n] \subseteq outs'[q][n]
          /\ node[q][n] = "succeeded" => node'[q][n] = "succeeded"
          /\ node'[q][n] # "none" => node[q][n] # "none"
          /\ ~(q = r /\ n = c) => outs'[q][n] = outs[q][n] /\ node'[q][n] = node[q][n]
    BY <1>3, <1>4, <1>6
  <1>8. Position' /\ StatusOfPosition'
    <2>1. \A q \in Run : q # r => PositionOf(q)' /\ StatusOf(q)'
      BY <1>1, <1>4, OthersStay
    <2>2. \A i \in 1 .. Len(Order[flow[r]]) :
            i # cur[r] => Order[flow[r]][i] # c /\ Order[flow[r]][i] \in Node
      BY <1>2, FlowExecutorAssumption, OrderFacts
    <2>3. \A i \in 1 .. Len(Order[flow[r]]) :
            i # cur[r] => node'[r][Order[flow[r]][i]] = node[r][Order[flow[r]][i]]
      BY <1>4, <2>2
    <2>4. \A n \in Node : node'[r][n] # "none" =>
            \E i \in 1 .. Len(Order[flow[r]]) : Order[flow[r]][i] = n
      BY <1>2, <1>3, <1>4 DEF PositionOf
    <2>5. \A i \in 1 .. Len(Order[flow[r]]) :
            /\ i < cur[r] + 1 => node'[r][Order[flow[r]][i]] = "succeeded"
            /\ i >= cur[r] + 1 => node'[r][Order[flow[r]][i]] = "none"
      <3> SUFFICES ASSUME NEW i \in 1 .. Len(Order[flow[r]])
                   PROVE  /\ i < cur[r] + 1 => node'[r][Order[flow[r]][i]] = "succeeded"
                          /\ i >= cur[r] + 1 => node'[r][Order[flow[r]][i]] = "none"
        OBVIOUS
      <3>1. CASE i = cur[r]
        BY <1>2, <1>3, <1>4, <3>1
      <3>2. CASE i # cur[r]
        <4>1. node'[r][Order[flow[r]][i]] = node[r][Order[flow[r]][i]]
          BY <2>3, <3>2
        <4>2. /\ i < cur[r] => node[r][Order[flow[r]][i]] = "succeeded"
              /\ i > cur[r] => node[r][Order[flow[r]][i]] = "none"
          BY DEF Position, PositionOf
        <4>3. i \in Int /\ cur[r] \in Int
          BY <1>2
        <4>4. (i < cur[r] + 1 => i < cur[r]) /\ (i >= cur[r] + 1 => i > cur[r])
          BY <3>2, <4>3
        <4> QED BY <4>1, <4>2, <4>4
      <3> QED BY <3>1, <3>2
    <2>6. Current(r)' = Order[flow[r]][cur[r] + 1] /\ flow'[r] = flow[r]
      BY <1>1, <1>4 DEF Current
    <2>7. PositionOf(r)'
      BY <1>2, <1>4, <2>4, <2>5, <2>6 DEF PositionOf
    <2>8. StatusOf(r)'
      BY <1>1, <1>3, <1>4 DEF StatusOf
    <2> QED BY <2>1, <2>7, <2>8 DEF Position, StatusOfPosition
  <1>9. RecordedOf(r) /\ Outputs(r, c, made[r])
    BY <1>1 DEF Recorded, RecordedOf
  <1>10. Recorded'
    <2>2. ASSUME NEW q \in Run, q # r PROVE RecordedOf(q)'
      <3>1. RecordedOf(q) /\ Current(q)' = Current(q)
        BY <2>2, <1>1, <1>4 DEF Recorded, Current
      <3>2. /\ node'[q] = node[q] /\ ins'[q] = ins[q] /\ pc'[q] = pc[q] /\ outs'[q] = outs[q]
            /\ flow'[q] = flow[q] /\ made'[q] = made[q] /\ lineage' = lineage
            /\ products' = products
        BY <2>2, <1>1, <1>4
      <3> HIDE DEF IInv
      <3> QED BY <3>1, <3>2 DEF RecordedOf, Outputs
    <2>3. RecordedOf(r)'
      <3>1. ins'[r] = ins[r] /\ flow'[r] = flow[r] /\ products' = products
        BY <1>1
      <3>2. \A n \in Node :
              /\ node'[r][n] = "succeeded" => Outputs(r, n, outs[r][n])'
              /\ node'[r][n] # "succeeded" => outs'[r][n] = {}
              /\ node'[r][n] = "none" => ins'[r][n] = <<>>
              /\ node'[r][n] # "none" => DOMAIN ins'[r][n] = DOMAIN Inputs[flow'[r]][n]
        <4> SUFFICES ASSUME NEW n \in Node
                     PROVE  /\ node'[r][n] = "succeeded" => Outputs(r, n, outs[r][n])'
                            /\ node'[r][n] # "succeeded" => outs'[r][n] = {}
                            /\ node'[r][n] = "none" => ins'[r][n] = <<>>
                            /\ node'[r][n] # "none" =>
                                  DOMAIN ins'[r][n] = DOMAIN Inputs[flow'[r]][n]
          OBVIOUS
        <4> HIDE DEF IInv
        <4>1. CASE n = c
          BY <4>1, <3>1, <1>2, <1>3, <1>4, <1>9 DEF RecordedOf, Outputs
        <4>2. CASE n # c
          BY <4>2, <3>1, <1>4, <1>9 DEF RecordedOf, Outputs
        <4> QED BY <4>1, <4>2
      <3> QED BY <3>2, <1>4 DEF RecordedOf
    <2> QED BY <2>2, <2>3 DEF Recorded
  <1>11. FreshIsOwn' /\ NoLookahead'
    BY <1>1 DEF FreshIsOwn, NoLookahead
  <1>12. InputsOfRun'
    <2> SUFFICES ASSUME NEW q \in Run, NEW n \in Node, node'[q][n] # "none",
                        NEW i \in DOMAIN Inputs[flow[q]][n]
                 PROVE  LET in == Inputs[flow[q]][n][i] IN
                        /\ node'[q][in[1]] = "succeeded"
                        /\ ins[q][n][i] \in outs'[q][in[1]] /\ ins[q][n][i].type = in[2]
      BY <1>1, SMTT(30) DEF InputsOfRun
    <2>1. Inputs[flow[q]][n][i][1] \in Node
      BY InputNode
    <2> QED BY <2>1, <1>7 DEF InputsOfRun
  <1>13. LineageComplete'
    <2> SUFFICES ASSUME NEW q \in Run, NEW n \in Node, node'[q][n] = "succeeded",
                        NEW k \in outs'[q][n], NEW i \in DOMAIN ins[q][n]
                 PROVE  <<k, ins[q][n][i]>> \in lineage
      BY <1>1 DEF LineageComplete
    <2>1. CASE q = r /\ n = c
      BY <2>1, <1>1, <1>4, <1>9 DEF RecordedOf
    <2>2. CASE ~(q = r /\ n = c)
      BY <2>2, <1>7 DEF LineageComplete
    <2> QED BY <2>1, <2>2
  <1>14. RejectionExplained'
    BY <1>1, <1>7 DEF RejectionExplained
  <1> QED BY <1>5, <1>8, <1>10, <1>11, <1>12, <1>13, <1>14

\* The rows, the store and the positions of all runs agree, for any number of
\* runs in any interleaving, killed anywhere (run_validated_workflow).
THEOREM ExecutorInvariant == Spec => []IInv
  <1>1. Init => IInv
    BY Initially
  <1>2. IInv /\ [Next]_vars => IInv'
    <2> SUFFICES ASSUME IInv, [Next]_vars PROVE IInv'
      OBVIOUS
    <2>1. CASE UNCHANGED vars
      <3>1. UNCHANGED <<status, node, ins, outs, products, lineage, violations,
                        flow, asOf, cur, made, pc>>
        BY <2>1 DEF vars, tables, locals
      <3>2. TypeOK' /\ Position' /\ StatusOfPosition'
        BY <3>1 DEF IInv, TypeOK, Position, PositionOf, StatusOfPosition, StatusOf, Current
      <3>3. Recorded' /\ FreshIsOwn' /\ InputsOfRun' /\ NoLookahead' /\ LineageComplete'
        BY <3>1, DataStays
      <3>4. RejectionExplained'
        BY <3>1 DEF IInv, RejectionExplained
      <3> QED BY <3>2, <3>3, <3>4 DEF IInv
    <2>2. ASSUME NEW r \in Run, Step(r) PROVE IInv'
      <3>1. CASE Violate(r)
        BY <3>1, ViolateStep
      <3>2. CASE BeginNode(r)
        BY <3>2, BeginNodeStep
      <3>3. CASE PersistOutputs(r) \/ PersistFailure(r)
        BY <3>3, PersistStep
      <3>4. CASE MarkSucceeded(r)
        BY <3>4, MarkSucceededStep
      <3>5. CASE Start(r) \/ Reject(r) \/ FailRun(r) \/ Finish(r) \/ Crash(r)
                   \/ PersistError(r) \/ MarkFailed(r)
        BY <3>5, StatusStep
      <3> QED BY <2>2, <3>1, <3>2, <3>3, <3>4, <3>5 DEF Step
    <2> QED BY <2>1, <2>2 DEF Next
  <1> QED BY <1>1, <1>2, PTL DEF Spec

\* A node starts on the products that its own run made for it (resolve_inputs).
THEOREM InputsOfRunHolds == Spec => []InputsOfRun
  <1>1. IInv => InputsOfRun
    BY DEF IInv
  <1> QED BY <1>1, ExecutorInvariant, PTL

\* No node consumes what became available a second or more after its run's
\* decision_as_of, where both are dates (runtime_input_violations).
THEOREM NoLookaheadHolds == Spec => []NoLookahead
  <1>1. IInv => NoLookahead
    BY DEF IInv
  <1> QED BY <1>1, ExecutorInvariant, PTL

\* Lineage is complete for every node that succeeded (persist_product).
THEOREM LineageCompleteHolds == Spec => []LineageComplete
  <1>1. IInv => LineageComplete
    BY DEF IInv
  <1> QED BY <1>1, ExecutorInvariant, PTL

\* A run is rejected only for shared content of a later date (persist_violations
\* before mark_workflow_finished).
THEOREM RejectionExplainedHolds == Spec => []RejectionExplained
  <1>1. IInv => RejectionExplained
    BY DEF IInv
  <1> QED BY <1>1, ExecutorInvariant, PTL

\* The rows show how far a run came, whatever killed it (mark_node_finished and
\* mark_workflow_status).
THEOREM RowsFollowOrderHolds == Spec => []RowsFollowOrder
  <1>1. IInv => RowsFollowOrder
    <2> SUFFICES ASSUME IInv, NEW r \in Run
                 PROVE  LET order == Order[flow[r]]
                            After(i) == \A j \in i + 1 .. Len(order) : node[r][order[j]] = "none"
                        IN  /\ \A i \in 1 .. Len(order) :
                                  node[r][order[i]] # "succeeded" => After(i)
                            /\ status[r] = "succeeded" =>
                                  \A i \in 1 .. Len(order) : node[r][order[i]] = "succeeded"
                            /\ status[r] = "failed" =>
                                  \E i \in 1 .. Len(order) : node[r][order[i]] = "failed"
                            /\ status[r] = "rejected" =>
                                  \A i \in 1 .. Len(order) :
                                     node[r][order[i]] \in {"none", "succeeded"}
      BY DEF RowsFollowOrder
    <2>1. /\ PositionOf(r) /\ StatusOf(r) /\ cur[r] \in Nat \ {0}
          /\ Len(Order[flow[r]]) \in Nat
      BY OrderFacts DEF IInv, Position, StatusOfPosition
    <2>2. \A i \in 1 .. Len(Order[flow[r]]) :
            /\ i < cur[r] => node[r][Order[flow[r]][i]] = "succeeded"
            /\ i > cur[r] => node[r][Order[flow[r]][i]] = "none"
      BY <2>1 DEF PositionOf
    <2>3. /\ status[r] = "succeeded" => cur[r] > Len(Order[flow[r]])
          /\ status[r] = "failed" =>
                cur[r] <= Len(Order[flow[r]]) /\ node[r][Order[flow[r]][cur[r]]] = "failed"
          /\ status[r] = "rejected" =>
                cur[r] <= Len(Order[flow[r]]) /\ node[r][Order[flow[r]][cur[r]]] = "none"
      BY <2>1 DEF StatusOf, Current
    <2>4. \A i \in 1 .. Len(Order[flow[r]]) : node[r][Order[flow[r]][i]] # "succeeded" =>
            \A j \in i + 1 .. Len(Order[flow[r]]) : node[r][Order[flow[r]][j]] = "none"
      BY <2>1, <2>2
    <2>5. status[r] = "succeeded" =>
            \A i \in 1 .. Len(Order[flow[r]]) : node[r][Order[flow[r]][i]] = "succeeded"
      BY <2>1, <2>2, <2>3
    <2>6. status[r] = "failed" =>
            \E i \in 1 .. Len(Order[flow[r]]) : node[r][Order[flow[r]][i]] = "failed"
      BY <2>1, <2>3
    <2>7. status[r] = "rejected" =>
            \A i \in 1 .. Len(Order[flow[r]]) : node[r][Order[flow[r]][i]] \in {"none", "succeeded"}
      BY <2>1, <2>2, <2>3
    <2> QED BY <2>4, <2>5, <2>6, <2>7
  <1> QED BY <1>1, ExecutorInvariant, PTL

\* A run that succeeded replays for good, whatever later runs share the store
\* (replay_workflow).
THEOREM ReplayMatchesHolds == Spec => []ReplayMatches
  <1>1. IInv => ReplayMatches
    <2> SUFFICES ASSUME IInv, NEW r \in Run, status[r] = "succeeded",
                        NEW p \in 1 .. Len(Order[flow[r]]),
                        NEW n, n = Order[flow[r]][p],
                        n \in Noop \cup Checked, ListsOnce(Inputs[flow[r]][n])
                 PROVE  Replays(r, n)
      BY DEF ReplayMatches
    <2>t. TypeOK
      BY DEF IInv
    <2>1. n \in Node /\ node[r][n] = "succeeded"
      <3>1. /\ PositionOf(r) /\ cur[r] > Len(Order[flow[r]]) /\ cur[r] \in Nat
            /\ Len(Order[flow[r]]) \in Nat /\ n \in Node
        BY <2>t, OrderFacts DEF IInv, Position, StatusOfPosition, StatusOf
      <3> QED BY <3>1 DEF PositionOf
    <2>2. /\ Outputs(r, n, outs[r][n]) /\ DOMAIN ins[r][n] = DOMAIN Inputs[flow[r]][n]
      BY <2>1 DEF IInv, Recorded, RecordedOf
    <2>3. ASSUME n \in Checked, NEW k \in outs[r][n]
          PROVE  /\ k \in DOMAIN products /\ k.cell = Cell[n] /\ k.content # Error
                 /\ ListsOnce(ins[r][n]) /\ Parents(k) = {ins[r][n][i] : i \in DOMAIN ins[r][n]}
      <3>1. k \in DOMAIN products /\ k.cell = Cell[n] /\ k.content = <<r, n>>
        BY <2>1, <2>3, OutputFacts
      <3>2. k.content # Error
        <4>1. <<r, n>> \in Run \X Node
          BY <2>1
        <4> QED BY <3>1, <4>1, FlowExecutorAssumption
      <3>3. ASSUME NEW i \in DOMAIN ins[r][n]
            PROVE  /\ Inputs[flow[r]][n][i][1] \in Node /\ Inputs[flow[r]][n][i][2] = "domain"
                   /\ ins[r][n][i] \in outs[r][Inputs[flow[r]][n][i][1]]
                   /\ ins[r][n][i].type = "domain"
        <4>1. i \in DOMAIN Inputs[flow[r]][Order[flow[r]][p]]
          BY <2>2
        <4>2. /\ Inputs[flow[r]][n][i][1] \in Node
              /\ n \in Checked => Inputs[flow[r]][n][i][2] = "domain"
          BY <4>1, <2>t, InputFacts
        <4> QED BY <4>1, <4>2, <2>1, <2>3 DEF IInv, InputsOfRun
      <3>4. \A m \in Node, d \in Key : d \in outs[r][m] /\ d.type = "domain" => d.content = <<r, m>>
        <4> SUFFICES ASSUME NEW m \in Node, NEW d \in outs[r][m], d.type = "domain"
                     PROVE  d.content = <<r, m>>
          OBVIOUS
        <4>1. node[r][m] = "succeeded"
          BY OutputFacts
        <4>2. Outputs(r, m, outs[r][m])
          BY <4>1 DEF IInv, Recorded, RecordedOf
        <4>3. PICK c : d \in {OutputKey(m, c)} \cup (IF m \in Domain THEN {DomainKey(r, m)} ELSE {})
          BY <4>2 DEF Outputs
        <4>4. OutputKey(m, c).type = "output" /\ DomainKey(r, m).content = <<r, m>>
          BY DEF OutputKey, DomainKey
        <4> QED BY <4>3, <4>4
      <3>5. ListsOnce(ins[r][n])
        <4> SUFFICES ASSUME NEW i \in DOMAIN ins[r][n], NEW j \in DOMAIN ins[r][n],
                            ins[r][n][i] = ins[r][n][j]
                     PROVE  i = j
          BY DEF ListsOnce
        <4>1. /\ ins[r][n][i] \in Key /\ ins[r][n][j] \in Key
          BY InsStored, <2>1 DEF IInv, TypeOK
        <4>2. <<r, Inputs[flow[r]][n][i][1]>> = <<r, Inputs[flow[r]][n][j][1]>>
          BY <4>1, <3>3, <3>4
        <4>3. Inputs[flow[r]][n] \in Seq(Node \X Type)
          BY <2>1, <2>t, OrderFacts
        <4>4. Inputs[flow[r]][n][i] = Inputs[flow[r]][n][j]
          <5>1. Inputs[flow[r]][n][i] \in Node \X Type /\ Inputs[flow[r]][n][j] \in Node \X Type
            BY <4>3, <2>2
          <5>2. \A a, b \in Node \X Type : a[1] = b[1] /\ a[2] = b[2] => a = b
            OBVIOUS
          <5>3. Inputs[flow[r]][n][i][1] = Inputs[flow[r]][n][j][1]
            BY <4>2
          <5> QED BY <5>1, <5>2, <5>3, <3>3
        <4> QED BY <4>4, <2>2 DEF ListsOnce
      <3>6. Parents(k) = {ins[r][n][i] : i \in DOMAIN ins[r][n]}
        <4>1. \A l \in lineage : l[1] = k => \E i \in DOMAIN ins[r][n] : l[2] = ins[r][n][i]
          BY <3>1, <2>1 DEF IInv, FreshIsOwn
        <4>2. \A i \in DOMAIN ins[r][n] : <<k, ins[r][n][i]>> \in lineage
          BY <2>1 DEF IInv, LineageComplete
        <4>3. \A i \in DOMAIN ins[r][n] : ins[r][n][i] \in Parents(k)
          <5> SUFFICES ASSUME NEW i \in DOMAIN ins[r][n] PROVE ins[r][n][i] \in Parents(k)
            OBVIOUS
          <5>1. <<k, ins[r][n][i]>> \in {m \in lineage : m[1] = k}
            BY <4>2
          <5>2. <<k, ins[r][n][i]>>[2] = ins[r][n][i]
            OBVIOUS
          <5> QED BY <5>1, <5>2 DEF Parents
        <4> QED BY <4>1, <4>3 DEF Parents
      <3> QED BY <3>1, <3>2, <3>5, <3>6
    <2>4. n \in Noop => \E k \in outs[r][n] : k.type = "output" /\ k.content = Same
      <3> SUFFICES ASSUME n \in Noop
                   PROVE  \E k \in outs[r][n] : k.type = "output" /\ k.content = Same
        OBVIOUS
      <3>1. OutputKey(n, Same) \in outs[r][n]
        BY <2>2 DEF Outputs, Contents
      <3> QED BY <3>1 DEF OutputKey
    <2> QED BY <2>1, <2>3, <2>4 DEF Replays
  <1> QED BY <1>1, ExecutorInvariant, PTL
=============================================================================
