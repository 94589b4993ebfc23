--------------------------- MODULE GateCheckProofs ---------------------------
(***************************************************************************)
(* For every batch, table of securities and limits: what one call of the   *)
(* gate approves fits in the cash, and a smaller batch loses no approval.  *)
(*                                                                         *)
(* Both rest on the sum of the buys growing with the batch.  The sum is a  *)
(* fold that takes the intents in an order of its own, so it is shown to   *)
(* be the same in every order first.  Each fact about all finite sets is   *)
(* proved on the smallest set that would refute it.                        *)
(***************************************************************************)
EXTENDS GateCheck, FiniteSetTheorems, WellFoundedInduction, TLAPS

-----------------------------------------------------------------------------
(* Sums over finite sets *)

Pick(S) == CHOOSE x \in S : TRUE

\* iter sums w over every part of S.
IsSum(iter, w, S) ==
  iter = [T \in SUBSET S |-> IF T = {} THEN 0 ELSE w[Pick(T)] + iter[T \ {Pick(T)}]]

SumOver(w, S) == (CHOOSE iter : IsSum(iter, w, S))[S]

\* A property that fails of some part of a finite set fails of a smallest one.
LEMMA SmallestPart ==
    ASSUME NEW S, IsFiniteSet(S), NEW B \in SUBSET SUBSET S, B # {}
    PROVE  \E T \in B : \A U \in SUBSET T : U # T => U \notin B
  <1> DEFINE R == StrictSubsetOrdering(S)
  <1>1. IsWellFoundedOn(R, SUBSET S)
    BY FS_StrictSubsetOrderingWellFounded, FS_FiniteSubsetsOfFinite
  <1>2. PICK T \in B : \A U \in B : <<U, T>> \notin R
    <2> HIDE DEF R
    <2> QED BY <1>1, WFMin
  <1>3. ASSUME NEW U \in SUBSET T, U # T, U \in B
        PROVE  FALSE
    <2> DEFINE pair == <<U, T>>
    <2>1. pair \in (SUBSET S) \X (SUBSET S) /\ pair[1] = U /\ pair[2] = T
      BY <1>3
    <2>2. pair \in R
      <3> HIDE DEF pair
      <3> QED BY <1>3, <2>1 DEF StrictSubsetOrdering
    <2> QED BY <1>2, <1>3, <2>2
  <1> QED BY <1>2, <1>3

\* A set that is not empty has an element to take.
LEMMA PickIs ==
    ASSUME NEW S, S # {}
    PROVE  Pick(S) \in S
  BY DEF Pick

\* What the fold computes of a part.
LEMMA IsSumOf ==
    ASSUME NEW S, NEW w, NEW iter, IsSum(iter, w, S), NEW T \in SUBSET S
    PROVE  iter[T] = IF T = {} THEN 0 ELSE w[Pick(T)] + iter[T \ {Pick(T)}]
  BY DEF IsSum

\* Two sums agree wherever both are defined.
LEMMA SumsAgree ==
    ASSUME NEW S, IsFiniteSet(S), NEW V, NEW w, NEW f, NEW g, IsSum(f, w, S), IsSum(g, w, V)
    PROVE  \A T \in SUBSET (S \intersect V) : f[T] = g[T]
  <1> DEFINE B == {T \in SUBSET (S \intersect V) : f[T] # g[T]}
  <1> SUFFICES ASSUME B # {} PROVE FALSE
    OBVIOUS
  <1>1. B \in SUBSET SUBSET S
    OBVIOUS
  <1>2. PICK T \in B : \A U \in SUBSET T : U # T => U \notin B
    <2> HIDE DEF B
    <2> QED BY <1>1, SmallestPart
  <1>3. T \in SUBSET S /\ T \in SUBSET V
    OBVIOUS
  <1>4. f[T] = (IF T = {} THEN 0 ELSE w[Pick(T)] + f[T \ {Pick(T)}])
    BY <1>3 DEF IsSum
  <1>5. g[T] = (IF T = {} THEN 0 ELSE w[Pick(T)] + g[T \ {Pick(T)}])
    BY <1>3 DEF IsSum
  <1>6. CASE T = {}
    BY <1>4, <1>5, <1>6
  <1>7. CASE T # {}
    <2>1. Pick(T) \in T
      BY <1>7, PickIs
    <2>2. T \ {Pick(T)} \notin B
      BY <1>2, <2>1
    <2>3. f[T \ {Pick(T)}] = g[T \ {Pick(T)}]
      BY <2>2, <1>3
    <2> QED BY <1>4, <1>5, <1>7, <2>3
  <1> QED BY <1>6, <1>7

\* Every finite set has a sum.
LEMMA SumExists ==
    ASSUME NEW S, IsFiniteSet(S), NEW w
    PROVE  \E iter : IsSum(iter, w, S)
  <1> DEFINE B == {T \in SUBSET S : ~ \E iter : IsSum(iter, w, T)}
  <1> SUFFICES ASSUME B # {} PROVE FALSE
    OBVIOUS
  <1>1. B \in SUBSET SUBSET S
    OBVIOUS
  <1>2. PICK T \in B : \A U \in SUBSET T : U # T => U \notin B
    <2> HIDE DEF B
    <2> QED BY <1>1, SmallestPart
  <1> DEFINE of(U) == CHOOSE iter : IsSum(iter, w, U)
             value(U) == IF U = {} THEN 0 ELSE w[Pick(U)] + of(U \ {Pick(U)})[U \ {Pick(U)}]
             iter == [U \in SUBSET T |-> value(U)]
  <1>3. ASSUME NEW U \in SUBSET T, U # T
        PROVE  IsSum(of(U), w, U)
    <2>1. U \in SUBSET S /\ U \notin B
      BY <1>2, <1>3
    <2>2. \E g : IsSum(g, w, U)
      BY <2>1
    <2> QED BY <2>2
  <1>4. ASSUME NEW U \in SUBSET T, U # T
        PROVE  of(U)[U] = value(U)
    <2>1. IsSum(of(U), w, U)
      BY <1>3, <1>4
    <2>2. of(U)[U] = (IF U = {} THEN 0 ELSE w[Pick(U)] + of(U)[U \ {Pick(U)}])
      <3> HIDE DEF of
      <3> QED BY <2>1, IsSumOf
    <2>3. CASE U = {}
      BY <2>2, <2>3
    <2>4. CASE U # {}
      <3> DEFINE V == U \ {Pick(U)}
      <3>1. V \in SUBSET T /\ V # T /\ V \in SUBSET U
        BY <2>4, PickIs
      <3>2. IsSum(of(V), w, V)
        BY <1>3, <3>1
      <3>3. IsFiniteSet(U)
        BY FS_Subset
      <3>4. of(U)[V] = of(V)[V]
        <4> HIDE DEF of, V
        <4> QED BY <2>1, <3>1, <3>2, <3>3, SumsAgree
      <3> QED BY <2>2, <2>4, <3>4
    <2> QED BY <2>3, <2>4
  <1>5. \A U \in SUBSET T : iter[U] = IF U = {} THEN 0 ELSE w[Pick(U)] + iter[U \ {Pick(U)}]
    <2> SUFFICES ASSUME NEW U \in SUBSET T
                 PROVE  iter[U] = IF U = {} THEN 0 ELSE w[Pick(U)] + iter[U \ {Pick(U)}]
      OBVIOUS
    <2>1. iter[U] = value(U)
      OBVIOUS
    <2>2. CASE U = {}
      BY <2>1, <2>2
    <2>3. CASE U # {}
      <3> DEFINE V == U \ {Pick(U)}
      <3>1. V \in SUBSET T /\ V # T
        BY <2>3, PickIs
      <3>2. iter[V] = of(V)[V]
        BY <1>4, <3>1
      <3> QED BY <2>1, <2>3, <3>2
    <2> QED BY <2>2, <2>3
  <1>6. IsSum(iter, w, T)
    <2>1. iter = [U \in SUBSET T |-> iter[U]]
      OBVIOUS
    <2> HIDE DEF iter
    <2> QED BY <1>5, <2>1 DEF IsSum
  <1> HIDE DEF iter
  <1> QED BY <1>6

\* The equations of the fold.
LEMMA SumIs ==
    ASSUME NEW S, IsFiniteSet(S), NEW w
    PROVE  SumOver(w, S) = IF S = {} THEN 0 ELSE w[Pick(S)] + SumOver(w, S \ {Pick(S)})
  <1> DEFINE of(U) == CHOOSE iter : IsSum(iter, w, U)
             V == S \ {Pick(S)}
  <1>1. IsFiniteSet(V)
    BY FS_Subset
  <1>2. IsSum(of(S), w, S) /\ IsSum(of(V), w, V)
    BY <1>1, SumExists
  <1>3. of(S)[S] = IF S = {} THEN 0 ELSE w[Pick(S)] + of(S)[V]
    <2> HIDE DEF of
    <2> QED BY <1>2, IsSumOf
  <1>4. of(S)[V] = of(V)[V]
    <2>1. V \in SUBSET (S \intersect V)
      OBVIOUS
    <2> HIDE DEF of, V
    <2> QED BY <1>2, <2>1, SumsAgree
  <1> QED BY <1>3, <1>4 DEF SumOver

\* A sum of naturals is one.
LEMMA SumIsNat ==
    ASSUME NEW S, IsFiniteSet(S), NEW w, \A x \in S : w[x] \in Nat
    PROVE  SumOver(w, S) \in Nat
  <1> DEFINE B == {T \in SUBSET S : SumOver(w, T) \notin Nat}
  <1> SUFFICES ASSUME B # {} PROVE FALSE
    OBVIOUS
  <1>1. PICK T \in B : \A U \in SUBSET T : U # T => U \notin B
    <2>1. B \in SUBSET SUBSET S
      OBVIOUS
    <2> HIDE DEF B
    <2> QED BY <2>1, SmallestPart
  <1>2. IsFiniteSet(T)
    BY FS_Subset
  <1>3. T # {}
    <2>1. SumOver(w, {}) = 0
      BY FS_EmptySet, SumIs
    <2> QED BY <2>1
  <1>4. Pick(T) \in T /\ T \ {Pick(T)} \notin B
    BY <1>1, <1>3, PickIs
  <1>5. SumOver(w, T \ {Pick(T)}) \in Nat /\ w[Pick(T)] \in Nat
    BY <1>4
  <1>6. SumOver(w, T) = w[Pick(T)] + SumOver(w, T \ {Pick(T)})
    BY <1>2, <1>3, SumIs
  <1> QED BY <1>5, <1>6

\* The order in which the elements are taken does not matter.
LEMMA SumTakes ==
    ASSUME NEW S, IsFiniteSet(S), NEW w, \A x \in S : w[x] \in Nat
    PROVE  \A x \in S : SumOver(w, S) = w[x] + SumOver(w, S \ {x})
  <1> DEFINE B == {T \in SUBSET S : \E x \in T : SumOver(w, T) # w[x] + SumOver(w, T \ {x})}
  <1> SUFFICES ASSUME B # {} PROVE FALSE
    OBVIOUS
  <1>1. PICK T \in B : \A U \in SUBSET T : U # T => U \notin B
    <2>1. B \in SUBSET SUBSET S
      OBVIOUS
    <2> HIDE DEF B
    <2> QED BY <2>1, SmallestPart
  <1>2. PICK x \in T : SumOver(w, T) # w[x] + SumOver(w, T \ {x})
    OBVIOUS
  <1> DEFINE p == Pick(T)
             rest == T \ {p, x}
  <1>3. p \in T
    BY <1>2, PickIs
  <1>4. SumOver(w, T) = w[p] + SumOver(w, T \ {p})
    <2>1. IsFiniteSet(T) /\ T # {}
      BY <1>2, FS_Subset
    <2> QED BY <2>1, SumIs
  <1>5. x # p
    BY <1>2, <1>4
  <1>6. SumOver(w, T \ {p}) = w[x] + SumOver(w, rest)
    <2>1. T \ {p} \notin B /\ T \ {p} \in SUBSET S /\ x \in T \ {p}
      BY <1>1, <1>3, <1>5
    <2>2. (T \ {p}) \ {x} = rest
      OBVIOUS
    <2> HIDE DEF p
    <2> QED BY <2>1, <2>2
  <1>7. SumOver(w, T \ {x}) = w[p] + SumOver(w, rest)
    <2>1. T \ {x} \notin B /\ T \ {x} \in SUBSET S /\ p \in T \ {x}
      BY <1>1, <1>3, <1>5
    <2>2. (T \ {x}) \ {p} = rest
      OBVIOUS
    <2> HIDE DEF p
    <2> QED BY <2>1, <2>2
  <1>8. w[p] \in Nat /\ w[x] \in Nat /\ SumOver(w, rest) \in Nat
    <2>1. IsFiniteSet(rest) /\ rest \subseteq S
      BY FS_Subset
    <2>2. SumOver(w, rest) \in Nat
      <3> HIDE DEF rest
      <3> QED BY <2>1, SumIsNat
    <2> QED BY <1>3, <2>2
  <1> HIDE DEF p, rest
  <1> QED BY <1>2, <1>4, <1>6, <1>7, <1>8

\* A part sums to no more than the whole.
LEMMA SumGrows ==
    ASSUME NEW S, IsFiniteSet(S), NEW w, \A x \in S : w[x] \in Nat, NEW A \in SUBSET S
    PROVE  SumOver(w, A) <= SumOver(w, S)
  <1> DEFINE B == {T \in SUBSET S : A \subseteq T /\ ~(SumOver(w, A) <= SumOver(w, T))}
  <1> SUFFICES ASSUME B # {} PROVE FALSE
    OBVIOUS
  <1>1. PICK T \in B : \A U \in SUBSET T : U # T => U \notin B
    <2>1. B \in SUBSET SUBSET S
      OBVIOUS
    <2> HIDE DEF B
    <2> QED BY <2>1, SmallestPart
  <1>2. IsFiniteSet(T) /\ IsFiniteSet(A)
    BY FS_Subset
  <1>3. SumOver(w, A) \in Nat
    BY <1>2, SumIsNat
  <1>4. PICK x \in T : x \notin A
    <2> SUFFICES ASSUME T = A PROVE FALSE
      OBVIOUS
    <2> QED BY <1>3
  <1>5. SumOver(w, T) = w[x] + SumOver(w, T \ {x})
    BY <1>2, SumTakes
  <1>6. SumOver(w, A) <= SumOver(w, T \ {x})
    <2>1. T \ {x} \in SUBSET T /\ T \ {x} # T /\ A \subseteq T \ {x}
      BY <1>4
    <2> QED BY <1>1, <2>1
  <1>7. w[x] \in Nat /\ SumOver(w, T \ {x}) \in Nat
    <2>1. IsFiniteSet(T \ {x})
      BY <1>2, FS_Subset
    <2> QED BY <2>1, SumIsNat
  <1> QED BY <1>3, <1>5, <1>6, <1>7

-----------------------------------------------------------------------------
(* The buys of a batch *)

\* The loop over the intents computes the sum of the buys that count.
LEMMA AggregateBuyIs ==
    ASSUME NEW b, NEW ids, NEW w, NEW C, C = {i \in ids : CountsTowardsCash(b[i])},
           \A i \in C : w[i] = b[i].notional
    PROVE  AggregateBuy(b, ids) = SumOver(w, C)
  <1> DEFINE sums(iter) ==
        iter = [T \in SUBSET C |-> IF T = {} THEN 0 ELSE b[Pick(T)].notional + iter[T \ {Pick(T)}]]
  <1>1. AggregateBuy(b, ids) = (CHOOSE iter : sums(iter))[C]
    BY DEF AggregateBuy, MapThenSumSet, MapThenFoldSet, Pick
  <1>2. \A iter : sums(iter) <=> IsSum(iter, w, C)
    <2> SUFFICES ASSUME NEW iter
                 PROVE  [T \in SUBSET C |-> IF T = {} THEN 0 ELSE b[Pick(T)].notional + iter[T \ {Pick(T)}]]
                      = [T \in SUBSET C |-> IF T = {} THEN 0 ELSE w[Pick(T)] + iter[T \ {Pick(T)}]]
      BY DEF IsSum
    <2> QED BY PickIs
  <1>3. (CHOOSE iter : sums(iter)) = (CHOOSE iter : IsSum(iter, w, C))
    <2> HIDE DEF sums
    <2> QED BY <1>2
  <1> QED BY <1>1, <1>3 DEF SumOver

\* The buys that count are finitely many naturals.
LEMMA Amounts ==
    ASSUME NEW b \in UNION {[S -> Intents] : S \in SUBSET Id},
           NEW C, C = {i \in DOMAIN b : CountsTowardsCash(b[i])}
    PROVE  IsFiniteSet(C) /\ \A i \in C : b[i].notional \in Nat
  <1>1. PICK S \in SUBSET Id : b \in [S -> Intents]
    OBVIOUS
  <1>2. IsFiniteSet(C)
    <2>1. C \subseteq Id
      BY <1>1
    <2> QED BY <2>1, GateCheckAssumption, FS_Subset
  <1>3. ASSUME NEW i \in C
        PROVE  b[i].notional \in Nat
    <2>1. b[i].notional \in Int \cup {NonFinite}
      BY <1>1, GateCheckAssumption
    <2> QED BY <2>1 DEF CountsTowardsCash, Finite
  <1> QED BY <1>2, <1>3

\* The buys of a part of a batch, gated with the rest or alone, cost no more.
LEMMA PartCostsLess ==
    ASSUME NEW b \in UNION {[S -> Intents] : S \in SUBSET Id}, NEW S \in SUBSET DOMAIN b
    PROVE  /\ AggregateBuy(b, S) <= AggregateBuy(b, DOMAIN b)
           /\ AggregateBuy(Sub(b, S), S) <= AggregateBuy(b, DOMAIN b)
           /\ AggregateBuy(b, DOMAIN b) \in Nat
           /\ AggregateBuy(b, S) \in Nat /\ AggregateBuy(Sub(b, S), S) \in Nat
  <1> DEFINE C == {i \in DOMAIN b : CountsTowardsCash(b[i])}
             D == {i \in S : CountsTowardsCash(b[i])}
             w == [i \in DOMAIN b |-> b[i].notional]
  <1>1. IsFiniteSet(C) /\ (\A i \in C : w[i] \in Nat) /\ D \in SUBSET C
    BY Amounts
  <1>2. IsFiniteSet(D)
    <2> HIDE DEF C, D, w
    <2> QED BY <1>1, FS_Subset
  <1>3. AggregateBuy(b, DOMAIN b) = SumOver(w, C)
    <2>1. \A i \in C : w[i] = b[i].notional
      OBVIOUS
    <2> HIDE DEF w
    <2> QED BY <2>1, AggregateBuyIs
  <1>4. AggregateBuy(b, S) = SumOver(w, D)
    <2>1. \A i \in D : w[i] = b[i].notional
      OBVIOUS
    <2> HIDE DEF w
    <2> QED BY <2>1, AggregateBuyIs
  <1>5. AggregateBuy(Sub(b, S), S) = SumOver(w, D)
    <2> DEFINE part == Sub(b, S)
    <2>1. \A i \in S : part[i] = b[i]
      BY DEF Sub
    <2>2. D = {i \in S : CountsTowardsCash(part[i])} /\ \A i \in D : w[i] = part[i].notional
      BY <2>1
    <2> HIDE DEF w, D, part
    <2>3. AggregateBuy(part, S) = SumOver(w, D)
      BY <2>2, AggregateBuyIs
    <2> QED BY <2>3 DEF part
  <1>6. SumOver(w, D) <= SumOver(w, C) /\ SumOver(w, C) \in Nat /\ SumOver(w, D) \in Nat
    <2> HIDE DEF w, C, D
    <2> QED BY <1>1, <1>2, SumGrows, SumIsNat
  <1> QED BY <1>3, <1>4, <1>5, <1>6

-----------------------------------------------------------------------------
(* The call *)

\* The answer is the approvals of the batch, or nothing.
IInv ==
  /\ batch \in UNION {[S -> Intents] : S \in SUBSET Id}
  /\ limits \in Limits
  /\ approved = IF called /\ Accepted(batch) THEN Approved(batch, securities, limits) ELSE {}

\* The gate answers for the batch, the table and the limits it was called with.
THEOREM GateAnswers == Spec => []IInv
  <1>1. Init => IInv
    BY DEF Init, IInv
  <1>2. IInv /\ [Check]_vars => IInv'
    BY DEF IInv, Check, vars, Accepted, Approved
  <1> QED BY <1>1, <1>2, PTL DEF Spec

\* FA-SAF-006: the buys one call approves fit in the cash together, whatever else
\* is in the batch (fa_check_risk_limits_v1).
THEOREM ApprovedWithinCashHolds == Spec => []ApprovedWithinCash
  <1>1. IInv => ApprovedWithinCash
    <2> SUFFICES ASSUME IInv, NEW i \in approved, IsBuy(batch[i])
                 PROVE  AggregateBuy(batch, approved) <= limits.cash
      BY DEF ApprovedWithinCash
    <2>1. approved = Approved(batch, securities, limits)
      BY DEF IInv
    <2>2. approved \in SUBSET DOMAIN batch /\ AggregateBuy(batch, DOMAIN batch) <= limits.cash
      BY <2>1 DEF Approved
    <2>3. limits.cash \in Int
      BY GateCheckAssumption DEF IInv
    <2>4. /\ AggregateBuy(batch, approved) <= AggregateBuy(batch, DOMAIN batch)
          /\ AggregateBuy(batch, approved) \in Nat /\ AggregateBuy(batch, DOMAIN batch) \in Nat
      BY <2>2, PartCostsLess DEF IInv
    <2> QED BY <2>2, <2>3, <2>4
  <1> QED BY <1>1, GateAnswers, PTL

\* What a batch approved, any part of it gated alone approves again: no approval
\* hangs on an intent that was left out.
THEOREM SmallerBatchKeepsApprovalsHolds == Spec => []SmallerBatchKeepsApprovals
  <1>1. IInv => SmallerBatchKeepsApprovals
    <2> SUFFICES ASSUME IInv, called, Accepted(batch), NEW S \in SUBSET DOMAIN batch,
                        NEW i \in approved \cap S
                 PROVE  i \in Approved(Sub(batch, S), securities, limits)
      BY DEF SmallerBatchKeepsApprovals
    <2>1. approved = Approved(batch, securities, limits)
      BY DEF IInv
    <2>2. DOMAIN Sub(batch, S) = S /\ Sub(batch, S)[i] = batch[i]
      BY DEF Sub
    <2>3. ASSUME IsBuy(batch[i])
          PROVE  AggregateBuy(Sub(batch, S), S) <= limits.cash
      <3>1. AggregateBuy(batch, DOMAIN batch) <= limits.cash
        BY <2>1, <2>3 DEF Approved
      <3>2. limits.cash \in Int
        BY GateCheckAssumption DEF IInv
      <3>3. /\ AggregateBuy(Sub(batch, S), S) <= AggregateBuy(batch, DOMAIN batch)
            /\ AggregateBuy(Sub(batch, S), S) \in Nat /\ AggregateBuy(batch, DOMAIN batch) \in Nat
        BY PartCostsLess DEF IInv
      <3> QED BY <3>1, <3>2, <3>3
    <2>4. /\ ReconciliationFresh(limits) /\ batch[i].security \in DOMAIN securities
          /\ WithinLimits(batch[i], securities[batch[i].security], limits)
      BY <2>1 DEF Approved
    <2> QED BY <2>2, <2>3, <2>4 DEF Approved
  <1> QED BY <1>1, GateAnswers, PTL
=============================================================================
