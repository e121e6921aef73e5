---------------------------- MODULE AssemblyProofs ----------------------------
(***************************************************************************)
(* Theorems about Assembly, for any number of participants, any fee rates  *)
(* and any reveals with at least one input: the shares of the fee are fair *)
(* and add up to it, what the outputs leave to the miners, when validated  *)
(* reveals make a transaction, who turns the template down, and that a     *)
(* final transaction carries its owners' signatures.                       *)
(***************************************************************************)
EXTENDS Assembly, SumProofs

------------------------------------------------------------------------------
(* Numbers.                                                                  *)

\* The bounds that define a quotient.
LEMMA Quotient ==
    ASSUME NEW a \in Nat, NEW b \in Nat \ {0}
    PROVE  /\ a \div b \in Nat
           /\ b * (a \div b) <= a
           /\ a < b * (a \div b) + b
           /\ a % b = a - b * (a \div b)
  OBVIOUS

\* Truncation takes away at most a sat: what is left is at most the exact part and
\* at least that much less one.
LEMMA TruncatedBounds ==
    ASSUME NEW part \in Nat, NEW whole \in Nat \ {0}, NEW fee \in Nat,
           NEW n \in Truncated(part, whole, fee)
    PROVE  /\ n \in Nat
           /\ n * whole <= part * fee
           /\ n * whole >= part * fee - whole
  <1> DEFINE a == part * fee
             q == a \div whole
  <1>1. a \in Nat
    OBVIOUS
  <1>2. /\ q \in Nat
        /\ whole * q <= a
        /\ a < whole * q + whole
        /\ a % whole = a - whole * q
    <2> HIDE DEF a
    <2> QED
      BY <1>1, Quotient
  <1>3. n = q \/ (n = q - 1 /\ n >= 0 /\ a % whole = 0)
    BY DEF Truncated
  <1> HIDE DEF a, q
  <1>4. CASE n = q
    BY <1>1, <1>2, <1>4 DEF a
  <1>5. CASE n = q - 1 /\ n >= 0 /\ a % whole = 0
    BY <1>1, <1>2, <1>5 DEF a
  <1> QED
    BY <1>3, <1>4, <1>5

------------------------------------------------------------------------------
(* Reveals.                                                                  *)

\* Types of a sequence.
LEMMA SeqFacts ==
    ASSUME NEW T, NEW seq \in Seq(T)
    PROVE  /\ Len(seq) \in Nat
           /\ DOMAIN seq = 1..Len(seq)
           /\ IsFiniteSet(DOMAIN seq)
           /\ \A i \in DOMAIN seq : seq[i] \in T
  <1>1. Len(seq) \in Nat /\ DOMAIN seq = 1..Len(seq)
    OBVIOUS
  <1>2. IsFiniteSet(1..Len(seq))
    BY <1>1, FS_Interval
  <1> QED
    BY <1>1, <1>2

\* Types of a reveal.
LEMMA RevealFacts ==
    ASSUME NEW r, IsReveal(r)
    PROVE  /\ Len(r.inputs) \in Nat \ {0} /\ Len(r.payments) \in Nat
           /\ IsFiniteSet(DOMAIN r.inputs) /\ IsFiniteSet(DOMAIN r.payments)
           /\ \A i \in DOMAIN r.inputs : r.inputs[i].value \in Nat
           /\ \A i \in DOMAIN r.payments : r.payments[i].amount \in Nat
  <1> DEFINE I == [coin : Coins(r), value : Nat]
             P == [to : {r.payments[i].to : i \in DOMAIN r.payments}, amount : Nat]
  <1>1. r.inputs \in Seq(I) /\ r.inputs # <<>> /\ r.payments \in Seq(P)
    BY DEF IsReveal
  <1>2. /\ \A x \in I : x.value \in Nat
        /\ \A x \in P : x.amount \in Nat
    OBVIOUS
  <1> HIDE DEF I, P
  <1>3. /\ Len(r.inputs) \in Nat /\ IsFiniteSet(DOMAIN r.inputs)
        /\ \A i \in DOMAIN r.inputs : r.inputs[i] \in I
    BY <1>1, SeqFacts
  <1>4. /\ Len(r.payments) \in Nat /\ IsFiniteSet(DOMAIN r.payments)
        /\ \A i \in DOMAIN r.payments : r.payments[i] \in P
    BY <1>1, SeqFacts
  <1>5. Len(r.inputs) # 0
    BY <1>1
  <1> QED
    BY <1>2, <1>3, <1>4, <1>5

\* Its amounts are numbers, and it weighs at least as much as one input.
LEMMA RevealAmounts ==
    ASSUME NEW r, IsReveal(r)
    PROVE  /\ InputSum(r) \in Nat /\ PaymentSum(r) \in Nat
           /\ Margin(r) \in Int /\ Margin(r) <= InputSum(r)
           /\ Weight(r) \in Nat /\ Weight(r) >= 271
  <1> DEFINE values == [i \in DOMAIN r.inputs |-> r.inputs[i].value]
             amounts == [i \in DOMAIN r.payments |-> r.payments[i].amount]
  <1>1. /\ InputSum(r) = SumFunctionOnSet(values, DOMAIN r.inputs)
        /\ PaymentSum(r) = SumFunctionOnSet(amounts, DOMAIN r.payments)
    BY DEF InputSum, PaymentSum, Total, SumFunction
  <1>2. /\ \A i \in DOMAIN r.inputs : values[i] \in Nat
        /\ \A i \in DOMAIN r.payments : amounts[i] \in Nat
    BY RevealFacts
  <1> HIDE DEF values, amounts
  <1>3. InputSum(r) \in Nat /\ PaymentSum(r) \in Nat
    BY <1>1, <1>2, RevealFacts, SumNat
  <1>4. Weight(r) \in Nat /\ Weight(r) >= 271
    <2> DEFINE n == Len(r.inputs)
               m == Len(r.payments)
               k == IF HasChange(r) THEN 1 ELSE 0
    <2>1. n \in Nat \ {0} /\ m \in Nat /\ k \in {0, 1}
      BY RevealFacts
    <2>2. Weight(r) = (4 * 41 + 107) * n + 4 * 31 * (m + k)
      BY DEF Weight
    <2> HIDE DEF n, m, k
    <2> QED
      BY <2>1, <2>2
  <1> QED
    BY <1>3, <1>4 DEF Margin

------------------------------------------------------------------------------
(* Batches and their fee.                                                    *)

\* A batch and an assembler as the program has them.
IsBatch(batch) ==
    /\ IsFiniteSet(DOMAIN batch)
    /\ \A p \in DOMAIN batch : IsReveal(batch[p])

IsAssembler(a) == a.rate \in Nat \ {0} /\ a.allowChange \in BOOLEAN

\* Each weight is a part of the whole.
LEMMA WeightsSum ==
    ASSUME NEW batch, IsBatch(batch)
    PROVE  /\ TotalWeight(batch) \in Nat
           /\ \A p \in DOMAIN batch : Weight(batch[p]) <= TotalWeight(batch)
           /\ DOMAIN batch # {} => TotalWeight(batch) >= 271
  <1> DEFINE weights == [p \in DOMAIN batch |-> Weight(batch[p])]
  <1>1. TotalWeight(batch) = SumFunctionOnSet(weights, DOMAIN batch)
    BY DEF TotalWeight, Over, SumFunction
  <1>2. \A p \in DOMAIN batch : weights[p] \in Nat /\ weights[p] >= 271
    BY RevealAmounts DEF IsBatch
  <1>3. \A p \in DOMAIN batch : weights[p] = Weight(batch[p])
    OBVIOUS
  <1> HIDE DEF weights
  <1>4. /\ SumFunctionOnSet(weights, DOMAIN batch) \in Nat
        /\ \A p \in DOMAIN batch : weights[p] <= SumFunctionOnSet(weights, DOMAIN batch)
    BY <1>2, SumNat DEF IsBatch
  <1> QED
    BY <1>1, <1>2, <1>3, <1>4

\* The number of inputs, of payments and of participants with a change address.
Ins(batch) == Over(batch, LAMBDA r : Len(r.inputs))
Pays(batch) == Over(batch, LAMBDA r : Len(r.payments))
Changers(batch) == {p \in DOMAIN batch : HasChange(batch[p])}

\* The whole weight by its inputs and outputs: 4 * 41 + 107 and 4 * 31 for each.
LEMMA Counts ==
    ASSUME NEW batch, IsBatch(batch)
    PROVE  /\ Ins(batch) \in Nat /\ Pays(batch) \in Nat
           /\ TotalWeight(batch) =
                271 * Ins(batch) + 124 * (Pays(batch) + Cardinality(Changers(batch)))
  <1> DEFINE D == DOMAIN batch
             ins == [p \in D |-> Len(batch[p].inputs)]
             pays == [p \in D |-> Len(batch[p].payments)]
             change == [p \in D |-> IF HasChange(batch[p]) THEN 1 ELSE 0]
             outs == [p \in D |-> pays[p] + change[p]]
             inweight == [p \in D |-> 271 * ins[p]]
             outweight == [p \in D |-> 124 * outs[p]]
             weights == [p \in D |-> Weight(batch[p])]
  <1>1. /\ TotalWeight(batch) = SumFunctionOnSet(weights, D)
        /\ Ins(batch) = SumFunctionOnSet(ins, D)
        /\ Pays(batch) = SumFunctionOnSet(pays, D)
    BY DEF TotalWeight, Ins, Pays, Over, SumFunction
  <1>2. \A p \in D : ins[p] \in Nat /\ pays[p] \in Nat /\ change[p] \in {0, 1}
    BY RevealFacts DEF IsBatch
  <1>3. \A p \in D : outs[p] = pays[p] + change[p]
    OBVIOUS
  <1>4. \A p \in D : inweight[p] = 271 * ins[p] /\ outweight[p] = 124 * outs[p]
    OBVIOUS
  <1>5. \A p \in D : weights[p] = inweight[p] + outweight[p]
    <2> SUFFICES ASSUME NEW p \in D
                 PROVE  Weight(batch[p]) = 271 * ins[p] + 124 * (pays[p] + change[p])
      <3>1. \A p \in D : inweight[p] + outweight[p] = 271 * ins[p] + 124 * outs[p]
        BY <1>4
      <3>2. \A p \in D : weights[p] = Weight(batch[p])
        OBVIOUS
      <3> HIDE DEF weights, inweight, outweight, outs, ins, pays, change
      <3> QED
        BY <1>3, <3>1, <3>2
    <2>1. Weight(batch[p]) = (4 * 41 + 107) * ins[p] + 4 * 31 * (pays[p] + change[p])
      BY DEF Weight
    <2> HIDE DEF ins, pays, change
    <2> QED
      BY <1>2, <2>1
  <1>6. SumFunctionOnSet(change, D) = Cardinality(Changers(batch))
    <2> DEFINE C == Changers(batch)
    <2>1. \A p \in D : change[p] = IF p \in C THEN 1 ELSE 0
      BY DEF Changers
    <2>2. C \subseteq D
      BY DEF Changers
    <2> HIDE DEF C, change
    <2>3. SumFunctionOnSet(change, D) = Cardinality(C)
      BY <2>1, <2>2, SumMembers DEF IsBatch
    <2> QED
      BY <2>3 DEF C
  <1>7. IsFiniteSet(D)
    BY DEF IsBatch
  <1> HIDE DEF D, ins, pays, change, outs, inweight, outweight, weights
  <1>8. SumFunctionOnSet(ins, D) \in Nat /\ SumFunctionOnSet(pays, D) \in Nat
    BY <1>2, <1>7, SumNat
  <1>9. /\ Ints(ins, D) /\ Ints(pays, D) /\ Ints(change, D)
        /\ Ints(outs, D) /\ Ints(inweight, D) /\ Ints(outweight, D)
    BY <1>2, <1>3, <1>4 DEF Ints
  <1>10. SumFunctionOnSet(outs, D) = SumFunctionOnSet(pays, D) + SumFunctionOnSet(change, D)
    BY <1>3, <1>7, <1>9, SumPlus
  <1>11. SumFunctionOnSet(weights, D)
           = SumFunctionOnSet(inweight, D) + SumFunctionOnSet(outweight, D)
    BY <1>5, <1>7, <1>9, SumPlus
  <1>12. SumFunctionOnSet(inweight, D) = 271 * SumFunctionOnSet(ins, D)
    BY <1>4, <1>7, <1>9, SumTimes
  <1>13. SumFunctionOnSet(outweight, D) = 124 * SumFunctionOnSet(outs, D)
    BY <1>4, <1>7, <1>9, SumTimes
  <1> QED
    BY <1>1, <1>6, <1>8, <1>10, <1>11, <1>12, <1>13

\* Change outputs are reserved for participants that have no change address, too.
Unclaimed(a, batch) == {p \in DOMAIN batch : a.allowChange /\ ~HasChange(batch[p])}

\* The fee is for the whole weight, the overhead of the transaction and the change
\* outputs that are reserved for nothing.
LEMMA FeeIs ==
    ASSUME NEW a, NEW batch, IsAssembler(a), IsBatch(batch),
           Changers(batch) # {} => a.allowChange
    PROVE  /\ Cardinality(Unclaimed(a, batch)) \in Nat
           /\ TotalFee(a, batch) =
                Vsize(TotalWeight(batch) + 46 + 124 * Cardinality(Unclaimed(a, batch))) * a.rate
  <1> DEFINE D == DOMAIN batch
             C == Changers(batch)
             U == Unclaimed(a, batch)
             n == IF a.allowChange THEN Cardinality(D) ELSE 0
  <1>1. IsFiniteSet(D) /\ IsFiniteSet(C) /\ IsFiniteSet(U) /\ C \subseteq D
    BY FS_Subset DEF IsBatch, Changers, Unclaimed
  <1>2. Cardinality(D) \in Nat /\ Cardinality(C) \in Nat /\ Cardinality(U) \in Nat
    BY <1>1, FS_CardinalityType
  <1>3. n = Cardinality(C) + Cardinality(U)
    <2>1. CASE a.allowChange
      <3>1. U = D \ C
        BY <2>1 DEF Changers, Unclaimed
      <3>2. D \cap C = C
        BY <1>1
      <3> HIDE DEF D, C, U
      <3>3. Cardinality(D \ C) = Cardinality(D) - Cardinality(C)
        BY <1>1, <3>2, FS_Difference
      <3> QED
        BY <1>2, <2>1, <3>1, <3>3
    <2>2. CASE ~a.allowChange
      <3>1. C = {} /\ U = {}
        BY <2>2 DEF Unclaimed
      <3> HIDE DEF D, C, U
      <3> QED
        BY <2>2, <3>1, FS_EmptySet
    <2> QED
      BY <2>1, <2>2
  <1>4. TotalFee(a, batch)
          = Vsize(4 * (11 + 41 * Ins(batch) + 31 * (Pays(batch) + n)) + 107 * Ins(batch) + 2)
            * a.rate
    BY DEF TotalFee, Ins, Pays
  <1>5. /\ Ins(batch) \in Nat /\ Pays(batch) \in Nat
        /\ TotalWeight(batch) = 271 * Ins(batch) + 124 * (Pays(batch) + Cardinality(C))
    BY Counts
  <1> HIDE DEF D, C, U, n
  <1>6. 4 * (11 + 41 * Ins(batch) + 31 * (Pays(batch) + n)) + 107 * Ins(batch) + 2
          = TotalWeight(batch) + 46 + 124 * Cardinality(U)
    BY <1>2, <1>3, <1>5
  <1> QED
    BY <1>2, <1>4, <1>6 DEF U

\* Rounding up.
LEMMA VsizeBounds ==
    ASSUME NEW w \in Nat
    PROVE  Vsize(w) \in Nat /\ w <= 4 * Vsize(w) /\ 4 * Vsize(w) <= w + 3
  BY DEF Vsize

\* Multiplication keeps the order.
LEMMA Scaled ==
    ASSUME NEW x \in Int, NEW y \in Int, NEW c \in Nat, x <= y
    PROVE  x * c <= y * c
  OBVIOUS

\* The fee between two multiples of the rate.
LEMMA FeeBounds ==
    ASSUME NEW a, NEW batch, IsAssembler(a), IsBatch(batch),
           Changers(batch) # {} => a.allowChange
    PROVE  /\ Cardinality(Unclaimed(a, batch)) \in Nat
           /\ TotalFee(a, batch) \in Nat
           /\ (TotalWeight(batch) + 46) * a.rate <= 4 * TotalFee(a, batch)
           /\ 4 * TotalFee(a, batch) <=
                (TotalWeight(batch) + 49 + 124 * Cardinality(Unclaimed(a, batch))) * a.rate
  <1> DEFINE u == Cardinality(Unclaimed(a, batch))
             w == TotalWeight(batch) + 46 + 124 * u
             v == Vsize(w)
  <1>1. u \in Nat /\ TotalWeight(batch) \in Nat /\ a.rate \in Nat
    BY FeeIs, WeightsSum DEF IsAssembler
  <1>2. TotalFee(a, batch) = v * a.rate
    BY FeeIs
  <1>3. w \in Nat /\ TotalWeight(batch) + 46 <= w /\ w + 3 = TotalWeight(batch) + 49 + 124 * u
    BY <1>1
  <1>4. v \in Nat /\ w <= 4 * v /\ 4 * v <= w + 3
    <2> HIDE DEF w
    <2> QED
      BY <1>3, VsizeBounds
  <1> HIDE DEF u, w, v
  <1>5. (TotalWeight(batch) + 46) * a.rate <= (4 * v) * a.rate
    BY <1>1, <1>3, <1>4, Scaled
  <1>6. (4 * v) * a.rate <= (w + 3) * a.rate
    BY <1>1, <1>3, <1>4, Scaled
  <1>7. (4 * v) * a.rate = 4 * (v * a.rate) /\ v * a.rate \in Nat
    BY <1>1, <1>4
  <1> QED
    BY <1>1, <1>2, <1>3, <1>5, <1>6, <1>7 DEF u

------------------------------------------------------------------------------
(* The shares.                                                               *)

\* All but one of the shares are truncated parts; that one is the remainder.
LEMMA SharesAre ==
    ASSUME NEW a, NEW batch, NEW f \in Shares(a, batch)
    PROVE  \E g : \E last \in DOMAIN batch :
                /\ \A p \in DOMAIN batch :
                    g[p] \in Truncated(Weight(batch[p]), TotalWeight(batch), TotalFee(a, batch))
                /\ DOMAIN f = DOMAIN batch
                /\ \A p \in DOMAIN batch : p # last => f[p] = g[p]
                /\ f[last] = TotalFee(a, batch) - SumFunctionOnSet(g, DOMAIN batch \ {last})
  <1> DEFINE D == DOMAIN batch
             part(p) == Truncated(Weight(batch[p]), TotalWeight(batch), TotalFee(a, batch))
  <1>1. PICK g \in [D -> UNION {part(p) : p \in D}], last \in D :
            /\ \A p \in D : g[p] \in part(p)
            /\ f = [g EXCEPT ![last] =
                      Remainder(TotalFee(a, batch), SumFunctionOnSet(g, D \ {last}))]
    BY DEF Shares
  <1> HIDE DEF part
  <1>2. /\ DOMAIN f = D
        /\ \A p \in D : p # last => f[p] = g[p]
        /\ f[last] = TotalFee(a, batch) - SumFunctionOnSet(g, D \ {last})
    BY <1>1 DEF Remainder
  <1> QED
    BY <1>1, <1>2 DEF part

\* The shares add up to the fee, and each is close to its exact part: the remainder
\* makes good for what the truncation of the others took, less than a sat for each.
LEMMA SharesSum ==
    ASSUME NEW a, NEW batch, IsAssembler(a), IsBatch(batch),
           Changers(batch) # {} => a.allowChange,
           NEW f \in Shares(a, batch)
    PROVE  /\ DOMAIN f = DOMAIN batch
           /\ \A p \in DOMAIN batch : f[p] \in Int
           /\ SumFunctionOnSet(f, DOMAIN batch) = TotalFee(a, batch)
           /\ \A p \in DOMAIN batch :
                LET whole == TotalWeight(batch)
                    exact == Weight(batch[p]) * TotalFee(a, batch)
                IN  /\ f[p] * whole <= exact + Cardinality(DOMAIN batch) * whole
                    /\ f[p] * whole >= exact - whole
  <1> DEFINE D == DOMAIN batch
             W(p) == Weight(batch[p])
             whole == TotalWeight(batch)
             fee == TotalFee(a, batch)
             n == Cardinality(D)
  <1>0. PICK g : \E last \in D :
            /\ \A p \in D : g[p] \in Truncated(W(p), whole, fee)
            /\ DOMAIN f = D
            /\ \A p \in D : p # last => f[p] = g[p]
            /\ f[last] = fee - SumFunctionOnSet(g, D \ {last})
    BY SharesAre
  <1>1. PICK last \in D :
            /\ \A p \in D : g[p] \in Truncated(W(p), whole, fee)
            /\ DOMAIN f = D
            /\ \A p \in D : p # last => f[p] = g[p]
            /\ f[last] = fee - SumFunctionOnSet(g, D \ {last})
    BY <1>0
  <1>2. /\ IsFiniteSet(D) /\ n \in Nat \ {0}
        /\ whole \in Nat \ {0} /\ fee \in Nat
        /\ \A p \in D : W(p) \in Nat
    <2>1. IsFiniteSet(D) /\ D # {} /\ \A p \in D : W(p) \in Nat
      BY <1>1, RevealAmounts DEF IsBatch
    <2>2. n \in Nat \ {0}
      BY <2>1, FS_CardinalityType, FS_EmptySet
    <2>3. whole \in Nat \ {0}
      BY <2>1, WeightsSum
    <2>4. fee \in Nat
      BY FeeBounds
    <2> QED
      BY <2>1, <2>2, <2>3, <2>4
  <1>3. ASSUME NEW p \in D
        PROVE  /\ g[p] \in Nat
               /\ g[p] * whole <= W(p) * fee
               /\ g[p] * whole >= W(p) * fee - whole
    <2> HIDE DEF D, W, whole, fee
    <2> QED
      BY <1>1, <1>2, TruncatedBounds
  <1> DEFINE R == D \ {last}
             others == SumFunctionOnSet(g, R)
             rest == SumFunctionOnSet([p \in D |-> W(p)], R)
  <1>4. IsFiniteSet(R) /\ Cardinality(R) = n - 1 /\ R \subseteq D
    BY <1>1, <1>2, FS_RemoveElement, FS_Subset
  <1>5. whole = W(last) + rest /\ rest \in Nat
    <2> DEFINE weights == [p \in D |-> W(p)]
    <2>1. whole = SumFunctionOnSet(weights, D)
      BY DEF TotalWeight, Over, SumFunction
    <2>2. (\A p \in D : weights[p] = W(p)) /\ Ints(weights, D)
      BY <1>2 DEF Ints
    <2>3. \A p \in R : weights[p] \in Nat
      BY <1>2
    <2> HIDE DEF weights, D, W, whole, R
    <2>4. SumFunctionOnSet(weights, D) = weights[last] + SumFunctionOnSet(weights, D \ {last})
      BY <1>1, <1>2, <2>2, SumRemove
    <2>5. SumFunctionOnSet(weights, R) \in Nat
      BY <1>4, <2>3, SumNat
    <2> QED
      BY <1>1, <2>1, <2>2, <2>4, <2>5 DEF R, weights
  <1>6. others \in Nat
    <2>1. \A p \in R : g[p] \in Nat
      BY <1>3, <1>4
    <2> HIDE DEF R, D
    <2> QED
      BY <1>4, <2>1, SumNat
  <1>7. /\ others * whole <= rest * fee
        /\ others * whole >= rest * fee - whole * (n - 1)
    <2> DEFINE weights == [p \in D |-> W(p)]
               paid == [p \in R |-> whole * g[p]]
               exact == [p \in R |-> fee * weights[p]]
               minus == [p \in R |-> -whole]
               least == [p \in R |-> exact[p] + minus[p]]
    <2>1. \A p \in R : /\ weights[p] \in Int /\ g[p] \in Int
                       /\ paid[p] = whole * g[p] /\ exact[p] = fee * weights[p]
                       /\ minus[p] = -whole /\ least[p] = exact[p] + minus[p]
                       /\ weights[p] = W(p)
      BY <1>2, <1>3, <1>4
    <2> HIDE DEF paid, exact, minus, least, weights, D, W, whole, fee, n
    <2>2. /\ Ints(weights, R) /\ Ints(g, R)
      BY <2>1 DEF Ints
    <2>3. Ints(paid, R) /\ Ints(exact, R) /\ Ints(minus, R) /\ Ints(least, R)
      BY <1>2, <2>1 DEF Ints
    <2>4. \A p \in R : paid[p] <= exact[p] /\ least[p] <= paid[p]
      <3> SUFFICES ASSUME NEW p \in R
                   PROVE  paid[p] <= exact[p] /\ least[p] <= paid[p]
        OBVIOUS
      <3>1. /\ g[p] \in Nat /\ W(p) \in Nat
            /\ g[p] * whole <= W(p) * fee /\ g[p] * whole >= W(p) * fee - whole
        BY <1>2, <1>3, <1>4
      <3>2. g[p] * whole = whole * g[p] /\ W(p) * fee = fee * W(p)
        BY <1>2, <3>1
      <3>3. /\ paid[p] = whole * g[p] /\ exact[p] = fee * W(p)
            /\ least[p] = fee * W(p) - whole
        BY <1>2, <2>1, <3>1
      <3> QED
        BY <3>1, <3>2, <3>3
    <2>5. SumFunctionOnSet(paid, R) = whole * others
      BY <1>2, <1>4, <2>1, <2>2, SumTimes
    <2>6. SumFunctionOnSet(exact, R) = fee * rest
      BY <1>2, <1>4, <2>1, <2>2, SumTimes DEF weights
    <2>7. SumFunctionOnSet(minus, R) = (-whole) * (n - 1)
      <3> DEFINE c == -whole
      <3>1. c \in Int /\ \A p \in R : minus[p] = c
        BY <1>2, <2>1
      <3> HIDE DEF c
      <3>2. SumFunctionOnSet(minus, R) = c * Cardinality(R)
        BY <1>4, <3>1, SumConstant
      <3> QED
        BY <1>4, <3>2 DEF c
    <2>8. SumFunctionOnSet(least, R) = fee * rest + (-whole) * (n - 1)
      BY <1>4, <2>1, <2>3, <2>6, <2>7, SumPlus
    <2>9. SumFunctionOnSet(paid, R) <= SumFunctionOnSet(exact, R)
      BY <1>4, <2>3, <2>4, SumAtMost
    <2>10. SumFunctionOnSet(least, R) <= SumFunctionOnSet(paid, R)
      BY <1>4, <2>3, <2>4, SumAtMost
    <2> HIDE DEF others, rest
    <2> QED
      BY <1>2, <1>5, <1>6, <2>5, <2>6, <2>8, <2>9, <2>10
  <1>8. SumFunctionOnSet(f, D) = fee
    <2>1. Ints(f, D)
      BY <1>1, <1>2, <1>3, <1>6 DEF Ints
    <2>2. \A p \in R : f[p] = g[p]
      BY <1>1
    <2> HIDE DEF D, fee
    <2>3. SumFunctionOnSet(f, D) = f[last] + SumFunctionOnSet(f, R)
      BY <1>1, <1>2, <2>1, SumRemove
    <2>4. SumFunctionOnSet(f, R) = others
      BY <1>4, <2>2, SumAlike
    <2> HIDE DEF R, others
    <2> QED
      BY <1>1, <1>2, <1>6, <2>3, <2>4 DEF R, others
  <1>9. ASSUME NEW p \in D
        PROVE  /\ f[p] \in Int
               /\ f[p] * whole <= W(p) * fee + n * whole
               /\ f[p] * whole >= W(p) * fee - whole
    <2>1. CASE p # last
      <3>1. f[p] = g[p]
        BY <1>1, <2>1
      <3>2. 0 <= n * whole
        BY <1>2
      <3> HIDE DEF W, whole, fee, n, D
      <3> QED
        BY <1>2, <1>3, <3>1, <3>2
    <2>2. CASE p = last
      <3>1. f[p] = fee - others
        BY <1>1, <2>2
      <3> HIDE DEF W, whole, fee, n, D, others, rest
      <3>2. /\ f[p] * whole = fee * whole - others * whole
            /\ fee * whole = W(p) * fee + rest * fee
            /\ whole * (n - 1) = n * whole - whole
        BY <1>2, <1>5, <1>6, <2>2, <3>1
      <3> QED
        BY <1>2, <1>5, <1>6, <1>7, <3>1, <3>2
    <2> QED
      BY <2>1, <2>2
  <1> QED
    BY <1>1, <1>8, <1>9

\* Nobody is paid to take part: the least weight bears more than the truncation takes.
LEMMA SharePositive ==
    ASSUME NEW a, NEW batch, IsAssembler(a), IsBatch(batch),
           Changers(batch) # {} => a.allowChange,
           NEW f \in Shares(a, batch), NEW p \in DOMAIN batch
    PROVE  f[p] \in Nat \ {0}
  <1> DEFINE w == Weight(batch[p])
             whole == TotalWeight(batch)
             fee == TotalFee(a, batch)
  <1>1. f[p] \in Int /\ f[p] * whole >= w * fee - whole
    BY SharesSum
  <1>2. /\ w \in Nat /\ w >= 271 /\ whole \in Nat /\ whole >= 271
        /\ fee \in Nat /\ (whole + 46) * a.rate <= 4 * fee /\ a.rate \in Nat \ {0}
    BY RevealAmounts, WeightsSum, FeeBounds DEF IsBatch, IsAssembler
  <1> HIDE DEF w, whole, fee
  <1>3. whole <= 4 * fee
    <2>1. (whole + 46) * 1 <= (whole + 46) * a.rate
      BY <1>2
    <2> QED
      BY <1>2, <2>1
  <1>4. 271 * fee <= w * fee
    BY <1>2
  <1>5. f[p] <= 0 => f[p] * whole <= 0
    BY <1>1, <1>2
  <1> QED
    BY <1>1, <1>2, <1>3, <1>4, <1>5

\* A share exceeds the estimate of validate_reveal only by the part of the overhead
\* and of the reserved outputs, and by rounding.
LEMMA ShareBelow ==
    ASSUME NEW a, NEW batch, IsAssembler(a), IsBatch(batch),
           Changers(batch) # {} => a.allowChange,
           NEW f \in Shares(a, batch), NEW p \in DOMAIN batch
    PROVE  f[p] < Estimate(a, batch[p])
                    + a.rate * (13 + 31 * Cardinality(Unclaimed(a, batch)))
                    + Cardinality(DOMAIN batch)
  <1> DEFINE w == Weight(batch[p])
             v == Vsize(w)
             whole == TotalWeight(batch)
             fee == TotalFee(a, batch)
             u == Cardinality(Unclaimed(a, batch))
             n == Cardinality(DOMAIN batch)
             r == a.rate
             k == w * r + (49 + 124 * u) * r + 4 * n
  <1>1. f[p] \in Int /\ f[p] * whole <= w * fee + n * whole
    BY SharesSum
  <1>2. /\ w \in Nat /\ w <= whole /\ whole \in Nat \ {0}
        /\ fee \in Nat /\ 4 * fee <= (whole + 49 + 124 * u) * r /\ r \in Nat \ {0}
        /\ u \in Nat /\ n \in Nat
    BY RevealAmounts, WeightsSum, FeeBounds, FS_CardinalityType DEF IsBatch, IsAssembler
  <1>3. v \in Nat /\ w <= 4 * v
    BY <1>2, VsizeBounds
  <1>4. Estimate(a, batch[p]) = v * r
    BY DEF Estimate
  <1> HIDE DEF w, v, whole, fee, u, n, r
  <1>5. w * (4 * fee) <= w * ((whole + 49 + 124 * u) * r)
    BY <1>2
  <1>6. w * ((whole + 49 + 124 * u) * r) = whole * (w * r) + w * ((49 + 124 * u) * r)
    BY <1>2
  <1>7. w * ((49 + 124 * u) * r) <= whole * ((49 + 124 * u) * r)
    <2> DEFINE x == (49 + 124 * u) * r
    <2>1. x \in Nat
      BY <1>2
    <2> HIDE DEF x
    <2>2. w * x <= whole * x
      BY <1>2, <2>1, Scaled
    <2> QED
      BY <2>2 DEF x
  <1>8. 4 * (f[p] * whole) <= whole * k
    <2>1. whole * k = whole * (w * r) + whole * ((49 + 124 * u) * r) + 4 * (n * whole)
      BY <1>2
    <2>2. w * (4 * fee) = 4 * (w * fee)
      BY <1>2
    <2>3. /\ f[p] * whole \in Int /\ w * fee \in Int /\ n * whole \in Int
          /\ whole * (w * r) \in Int /\ whole * ((49 + 124 * u) * r) \in Int
          /\ w * ((49 + 124 * u) * r) \in Int
      BY <1>1, <1>2
    <2> HIDE DEF k
    <2> QED
      BY <1>1, <1>5, <1>6, <1>7, <2>1, <2>2, <2>3
  <1>9. 4 * f[p] <= k
    <2>1. k \in Int
      BY <1>2
    <2> HIDE DEF k
    <2>2. 4 * (f[p] * whole) = whole * (4 * f[p])
      BY <1>1, <1>2
    <2>3. \A x, y \in Int : whole * x <= whole * y => x <= y
      BY <1>2
    <2> QED
      BY <1>1, <1>8, <2>1, <2>2, <2>3
  <1>10. w * r <= (4 * v) * r
    BY <1>2, <1>3, Scaled
  <1>11. /\ (4 * v) * r = 4 * (v * r)
         /\ (49 + 124 * u) * r < 4 * (r * (13 + 31 * u))
    BY <1>2, <1>3
  <1>12. /\ v * r \in Int /\ r * (13 + 31 * u) \in Int /\ w * r \in Int
         /\ (49 + 124 * u) * r \in Int
    BY <1>2, <1>3
  <1>13. f[p] < v * r + r * (13 + 31 * u) + n
    BY <1>1, <1>2, <1>9, <1>10, <1>11, <1>12
  <1> QED
    BY <1>4, <1>13 DEF u, n, r

\* There are always shares.
LEMMA SharesExist ==
    ASSUME NEW a, NEW batch, IsAssembler(a), IsBatch(batch), DOMAIN batch # {},
           Changers(batch) # {} => a.allowChange
    PROVE  \E f : f \in Shares(a, batch)
  <1> DEFINE D == DOMAIN batch
             fee == TotalFee(a, batch)
             part(p) == Truncated(Weight(batch[p]), TotalWeight(batch), fee)
             g == [p \in D |-> (Weight(batch[p]) * fee) \div TotalWeight(batch)]
  <1>1. \A p \in D : g[p] \in part(p)
    BY DEF Truncated
  <1>2. g \in [D -> UNION {part(p) : p \in D}]
    <2> HIDE DEF part
    <2>1. \A p \in D : (Weight(batch[p]) * fee) \div TotalWeight(batch) \in UNION {part(q) : q \in D}
      BY <1>1
    <2> QED
      BY <2>1
  <1>3. PICK last \in D : TRUE
    OBVIOUS
  <1>4. [g EXCEPT ![last] = Remainder(fee, SumFunctionOnSet(g, D \ {last}))] \in Shares(a, batch)
    <2> DEFINE parts == {f \in [D -> UNION {part(p) : p \in D}] : \A p \in D : f[p] \in part(p)}
               whole(f, l) ==
                    [f EXCEPT ![l] = Remainder(fee, SumFunctionOnSet(f, D \ {l}))]
    <2>1. Shares(a, batch) = {whole(f, l) : f \in parts, l \in D}
      BY DEF Shares
    <2>2. g \in parts
      <3> HIDE DEF g, part
      <3> QED
        BY <1>1, <1>2
    <2>3. whole(g, last) \in Shares(a, batch)
      <3> HIDE DEF parts, g, part, D, fee, whole
      <3> QED
        BY <1>3, <2>1, <2>2
    <2> QED
      BY <2>3
  <1> QED
    BY <1>4

------------------------------------------------------------------------------
(* The state.                                                                *)

Assembled == {"sign", "merge", "failed", "final"}

\* The stages between Build and the end, or the next round; what the reveals, the
\* shares and the template are at each of them.
AmountsInv ==
    /\ IsAssembler(asm)
    /\ DOMAIN reveals \subseteq Participants
    /\ \A p \in DOMAIN reveals : IsReveal(reveals[p])
    /\ stage \in {"validate", "build", "unbuilt"} \cup Assembled
    /\ stage # "validate" => \A p \in DOMAIN reveals : Valid(asm, reveals[p])
    /\ stage \notin Assembled => shares = NoShares
    /\ stage \in Assembled =>
        /\ ~Clashing(reveals)
        /\ shares \in Shares(asm, reveals)
        /\ Short(reveals, shares) = {}
        /\ psbt = [tx |-> Transaction(asm, reveals, shares), sigs |-> psbt.sigs]
    /\ stage = "unbuilt" =>
        \/ Clashing(reveals)
        \/ \E f \in Shares(asm, reveals) : Short(reveals, f) # {}
        \/ Underfed(asm, reveals)
    /\ stage \in {"merge", "failed", "final"} =>
        refused = {p \in DOMAIN reveals : ~Verified(reveals[p], psbt.tx)}

\* It holds at the start.
LEMMA AmountsInit == Init => AmountsInv
  <1> SUFFICES ASSUME Init
               PROVE  AmountsInv
    OBVIOUS
  <1>1. IsAssembler(asm)
    BY RoundAssumption DEF Init, Terms, IsAssembler
  <1>2. DOMAIN reveals = Participants /\ \A p \in Participants : IsReveal(reveals[p])
    BY ProposalAssumption DEF Init
  <1> QED
    BY <1>1, <1>2 DEF Init, AmountsInv, Assembled

\* Every step keeps it.
LEMMA AmountsStep == AmountsInv /\ [Next]_vars => AmountsInv'
  <1> SUFFICES ASSUME AmountsInv, [Next]_vars
               PROVE  AmountsInv'
    OBVIOUS
  <1>1. CASE Validate
    <2>1. /\ DOMAIN reveals' \subseteq DOMAIN reveals
          /\ \A p \in DOMAIN reveals' :
                reveals'[p] = reveals[p] /\ Valid(asm, reveals[p])
      BY <1>1 DEF Validate
    <2>2. /\ stage = "validate" /\ stage' = "build"
          /\ asm' = asm /\ shares' = shares
      BY <1>1 DEF Validate
    <2>3. \A p \in DOMAIN reveals' : IsReveal(reveals'[p])
      BY <2>1 DEF AmountsInv
    <2>4. \A p \in DOMAIN reveals' : Valid(asm', reveals'[p])
      BY <2>1, <2>2
    <2>5. IsAssembler(asm') /\ shares' = NoShares /\ DOMAIN reveals' \subseteq Participants
      BY <2>1, <2>2 DEF AmountsInv, Assembled
    <2> QED
      BY <2>2, <2>3, <2>4, <2>5 DEF AmountsInv, Assembled, NoShares
  <1>2. CASE Build
    <2>1. psbt' = [tx |-> Transaction(asm, reveals, shares'), sigs |-> psbt'.sigs]
      BY <1>2 DEF Build, Unsigned
    <2> QED
      BY <1>2, <2>1 DEF AmountsInv, Assembled, Build
  <1>3. CASE BuildFails
    BY <1>3 DEF AmountsInv, Assembled, BuildFails, NoShares
  <1>4. CASE Sign
    BY <1>4 DEF AmountsInv, Assembled, Sign
  <1>5. ASSUME NEW p \in Participants, Merge(p)
        PROVE  AmountsInv'
    <2>1. stage = "merge" /\ stage' \in {"merge", "failed"}
      BY <1>5 DEF Merge
    <2>2. psbt' = [tx |-> psbt.tx, sigs |-> psbt'.sigs]
      BY <1>5, <2>1 DEF Merge, Merged, AmountsInv, Assembled
    <2>3. UNCHANGED <<asm, reveals, shares, refused>>
      BY <1>5 DEF Merge
    <2>4. psbt = [tx |-> Transaction(asm, reveals, shares), sigs |-> psbt.sigs]
      BY <2>1 DEF AmountsInv, Assembled
    <2>5. psbt'.tx = psbt.tx /\ psbt.tx = Transaction(asm, reveals, shares)
      BY <2>2, <2>4
    <2> QED
      BY <2>1, <2>2, <2>3, <2>5 DEF AmountsInv, Assembled
  <1>6. CASE Finalize
    BY <1>6 DEF AmountsInv, Assembled, Finalize
  <1>7. CASE Again
    BY <1>7 DEF AmountsInv, Assembled, Again, NoShares
  <1>8. CASE UNCHANGED vars
    BY <1>8 DEF AmountsInv, Assembled, vars, NoShares
  <1> QED
    BY <1>1, <1>2, <1>3, <1>4, <1>5, <1>6, <1>7, <1>8 DEF Next

\* So it always holds.
LEMMA AmountsInvariant == Spec => []AmountsInv
  BY AmountsInit, AmountsStep, PTL DEF Spec

\* The reveals are a batch to which the lemmas above apply.
LEMMA RevealsBatch ==
    ASSUME AmountsInv
    PROVE  /\ IsBatch(reveals)
           /\ stage # "validate" => (Changers(reveals) # {} => asm.allowChange)
  <1>1. IsFiniteSet(DOMAIN reveals)
    BY FinitelyMany, FS_Subset DEF AmountsInv
  <1> QED
    BY <1>1 DEF AmountsInv, IsBatch, Changers, Valid

\* SharesFair: the shares calculate_weight_based_fees returns add up to the fee, and no
\* share, whoever gets the remainder, is off its exact part by more than a sat for each
\* participant.
THEOREM Fair == Spec => []SharesFair
  <1>1. AmountsInv => SharesFair
    <2> SUFFICES ASSUME AmountsInv, Built
                 PROVE  SharesFair
      BY DEF SharesFair
    <2>1. stage \in Assembled /\ shares \in Shares(asm, reveals)
      BY DEF AmountsInv, Built
    <2>2. /\ IsAssembler(asm) /\ IsBatch(reveals)
          /\ Changers(reveals) # {} => asm.allowChange
      BY <2>1, RevealsBatch DEF AmountsInv, Assembled
    <2>3. /\ DOMAIN shares = DOMAIN reveals
          /\ SumFunctionOnSet(shares, DOMAIN reveals) = TotalFee(asm, reveals)
          /\ \A p \in DOMAIN reveals :
                LET whole == TotalWeight(reveals)
                    exact == Weight(reveals[p]) * TotalFee(asm, reveals)
                IN  /\ shares[p] * whole <= exact + Cardinality(DOMAIN reveals) * whole
                    /\ shares[p] * whole >= exact - whole
      BY <2>1, <2>2, SharesSum
    <2> QED
      BY <2>3 DEF SharesFair, SumFunction
  <1> QED
    BY <1>1, AmountsInvariant, PTL

\* ValidatedBuilds: the per-reveal check of validate_reveal and the check of the whole
\* in build_transaction disagree only on margins within the stated slack.
THEOREM Builds == Spec => []ValidatedBuilds
  <1>1. AmountsInv => ValidatedBuilds
    <2> SUFFICES ASSUME AmountsInv, stage = "unbuilt", DOMAIN reveals # {}, ~Clashing(reveals)
                 PROVE  \E p \in DOMAIN reveals :
                          Margin(reveals[p]) <
                            Estimate(asm, reveals[p])
                            + (asm.rate * (13 + 31 * Cardinality(Unclaimed(asm, reveals)))
                               + Cardinality(DOMAIN reveals))
      BY DEF ValidatedBuilds, Unclaimed
    <2>1. /\ IsAssembler(asm) /\ IsBatch(reveals)
          /\ Changers(reveals) # {} => asm.allowChange
      BY RevealsBatch DEF AmountsInv
    <2>2. \E f \in Shares(asm, reveals) : \E p \in DOMAIN reveals :
                Margin(reveals[p]) < f[p]
      <3>1. CASE \E f \in Shares(asm, reveals) : Short(reveals, f) # {}
        BY <3>1 DEF Short
      <3>2. CASE Underfed(asm, reveals)
        <4>1. PICK f \in Shares(asm, reveals) : TRUE
          BY <2>1, SharesExist
        <4> DEFINE D == DOMAIN reveals
                   margins == [p \in D |-> Margin(reveals[p])]
        <4>2. SumFunctionOnSet(margins, D) < TotalFee(asm, reveals)
          BY <3>2 DEF Underfed, Over, SumFunction
        <4>3. /\ Ints(f, D) /\ SumFunctionOnSet(f, D) = TotalFee(asm, reveals)
              /\ IsFiniteSet(D)
          BY <2>1, <4>1, SharesSum DEF Ints, IsBatch
        <4>4. Ints(margins, D) /\ \A p \in D : margins[p] = Margin(reveals[p])
          BY <2>1, RevealAmounts DEF Ints, IsBatch
        <4> HIDE DEF margins, D
        <4>5. SumFunctionOnSet(margins, D) \in Int /\ SumFunctionOnSet(f, D) \in Int
          BY <4>3, <4>4, SumType
        <4>6. ~(\A p \in D : f[p] <= margins[p])
          BY <4>2, <4>3, <4>4, <4>5, SumAtMost
        <4>7. \E p \in D : margins[p] < f[p]
          BY <4>3, <4>4, <4>6 DEF Ints
        <4> QED
          BY <4>1, <4>4, <4>7 DEF D
      <3> QED
        BY <3>1, <3>2 DEF AmountsInv
    <2>3. PICK f \in Shares(asm, reveals), p \in DOMAIN reveals : Margin(reveals[p]) < f[p]
      BY <2>2
    <2> DEFINE slack == asm.rate * (13 + 31 * Cardinality(Unclaimed(asm, reveals)))
                        + Cardinality(DOMAIN reveals)
    <2>4. /\ slack \in Int /\ Estimate(asm, reveals[p]) \in Int
          /\ Margin(reveals[p]) \in Int /\ f[p] \in Int
      <3>1. /\ Cardinality(Unclaimed(asm, reveals)) \in Nat
            /\ Cardinality(DOMAIN reveals) \in Nat /\ asm.rate \in Nat
        BY <2>1, FeeBounds, FS_CardinalityType DEF IsBatch, IsAssembler
      <3>2. Weight(reveals[p]) \in Nat /\ Margin(reveals[p]) \in Int
        BY <2>1, RevealAmounts DEF IsBatch
      <3>3. Estimate(asm, reveals[p]) \in Int
        <4>1. Vsize(Weight(reveals[p])) \in Nat
          BY <3>2, VsizeBounds
        <4> QED
          BY <3>1, <4>1 DEF Estimate
      <3>4. f[p] \in Int
        BY <2>1, <2>3, SharesSum
      <3>5. slack \in Int
        BY <3>1
      <3> QED
        BY <3>2, <3>3, <3>4, <3>5
    <2>5. f[p] < Estimate(asm, reveals[p]) + slack
      <3>1. f[p] < Estimate(asm, reveals[p])
                    + asm.rate * (13 + 31 * Cardinality(Unclaimed(asm, reveals)))
                    + Cardinality(DOMAIN reveals)
        BY <2>1, <2>3, ShareBelow
      <3>2. /\ Cardinality(Unclaimed(asm, reveals)) \in Nat
            /\ Cardinality(DOMAIN reveals) \in Nat /\ asm.rate \in Nat
        BY <2>1, FeeBounds, FS_CardinalityType DEF IsBatch, IsAssembler
      <3> QED
        BY <2>4, <3>1, <3>2
    <2>6. Margin(reveals[p]) < Estimate(asm, reveals[p]) + slack
      <3> HIDE DEF slack
      <3> QED
        BY <2>3, <2>4, <2>5
    <2> QED
      BY <2>3, <2>6
  <1> QED
    BY <1>1, AmountsInvariant, PTL

------------------------------------------------------------------------------
(* Signatures.                                                               *)

\* The fragment f is what p makes of a transaction that suits it.
OwnFragment(p, f) ==
    /\ f = SignedBy(p, f.tx, wallet[p])
    /\ Verified(reveals[p], f.tx)

\* The signature s of the coin c is by a participant that has its key, for the
\* template, which suits it.
GoodSignature(s, c) ==
    \E p \in DOMAIN reveals :
        /\ c \in wallet[p] /\ s = [key |-> p, tx |-> psbt.tx]
        /\ Verified(reveals[p], psbt.tx)

\* Fragments and merged signatures are made by those who have the keys and find what
\* they revealed in the transaction the signatures are for.
SignedInv ==
    /\ stage = "validate" => \A p \in Participants : sent[p] = {}
    /\ \A p \in Participants : \A f \in sent[p] : p \in DOMAIN reveals /\ OwnFragment(p, f)
    /\ stage \in Assembled =>
        /\ DOMAIN psbt.sigs = psbt.tx.spends
        /\ \A c \in psbt.tx.spends :
            /\ IsFiniteSet(psbt.sigs[c])
            /\ \A s \in psbt.sigs[c] : GoodSignature(s, c)
    /\ FinalSigned

\* It holds at the start.
LEMMA SignedInit == Init => SignedInv
  BY DEF Init, SignedInv, Assembled, FinalSigned

\* Every step keeps it, also the merging of a fragment of an earlier round.
LEMMA SignedStep == AmountsInv /\ SignedInv /\ [Next]_vars => SignedInv'
  <1> SUFFICES ASSUME AmountsInv, SignedInv, [Next]_vars
               PROVE  SignedInv'
    OBVIOUS
  <1>1. CASE Validate
    <2>1. stage = "validate" /\ stage' = "build" /\ sent' = sent
      BY <1>1 DEF Validate
    <2> QED
      BY <2>1 DEF SignedInv, Assembled, FinalSigned
  <1>2. CASE Build
    <2>1. /\ psbt' = Unsigned(psbt'.tx) /\ stage' = "sign"
          /\ UNCHANGED <<reveals, sent, wallet>>
      BY <1>2 DEF Build, Unsigned
    <2>2. /\ DOMAIN psbt'.sigs = psbt'.tx.spends
          /\ \A c \in psbt'.tx.spends : psbt'.sigs[c] = {}
      BY <2>1 DEF Unsigned
    <2>3. \A p \in Participants : \A f \in sent'[p] :
                p \in DOMAIN reveals' /\ OwnFragment(p, f)'
      BY <2>1 DEF SignedInv, OwnFragment
    <2> QED
      BY <2>1, <2>2, <2>3, FS_EmptySet DEF SignedInv, Assembled, FinalSigned
  <1>3. CASE BuildFails
    BY <1>3 DEF BuildFails, SignedInv, OwnFragment, Assembled, FinalSigned
  <1>4. CASE Sign
    <2>1. /\ stage = "sign" /\ stage' = "merge" /\ UNCHANGED <<reveals, psbt, wallet>>
          /\ refused' = {p \in DOMAIN reveals : ~Verified(reveals[p], psbt.tx)}
      BY <1>4 DEF Sign
    <2>2. ASSUME NEW p \in Participants, NEW f \in sent'[p]
          PROVE  p \in DOMAIN reveals' /\ OwnFragment(p, f)'
      <3>1. \/ f \in sent[p]
            \/ /\ p \in DOMAIN reveals \ refused'
               /\ f = SignedBy(p, psbt.tx, wallet[p])
        BY <1>4, <2>2 DEF Sign
      <3>2. CASE f \in sent[p]
        BY <2>1, <3>2 DEF SignedInv, OwnFragment
      <3>3. CASE /\ p \in DOMAIN reveals \ refused'
                 /\ f = SignedBy(p, psbt.tx, wallet[p])
        <4>1. f.tx = psbt.tx
          BY <3>3 DEF SignedBy
        <4> QED
          BY <2>1, <3>3, <4>1 DEF OwnFragment
      <3> QED
        BY <3>1, <3>2, <3>3
    <2>3. \A c \in psbt.tx.spends : \A s \in psbt.sigs[c] :
              GoodSignature(s, c) => GoodSignature(s, c)'
      BY <2>1 DEF GoodSignature
    <2> QED
      BY <2>1, <2>2, <2>3 DEF SignedInv, Assembled, FinalSigned
  <1>5. ASSUME NEW p \in Participants, Merge(p)
        PROVE  SignedInv'
    <2>1. /\ stage = "merge" /\ stage' \in {"merge", "failed"}
          /\ UNCHANGED <<reveals, sent, wallet>>
      BY <1>5 DEF Merge
    <2>2. psbt' = psbt \/ \E f \in sent[p] : Mergeable(psbt, f) /\ psbt' = Merged(psbt, f)
      BY <1>5 DEF Merge
    <2>3. \A q \in Participants : \A f \in sent'[q] : q \in DOMAIN reveals' /\ OwnFragment(q, f)'
      BY <2>1 DEF SignedInv, OwnFragment
    <2>4. CASE psbt' = psbt
      BY <2>1, <2>3, <2>4 DEF SignedInv, Assembled, FinalSigned, GoodSignature
    <2>5. ASSUME NEW f \in sent[p], Mergeable(psbt, f), psbt' = Merged(psbt, f)
          PROVE  SignedInv'
      <3>1. /\ p \in DOMAIN reveals /\ f.tx = psbt.tx
            /\ f = SignedBy(p, psbt.tx, wallet[p]) /\ Verified(reveals[p], psbt.tx)
        BY <2>5 DEF SignedInv, Mergeable, OwnFragment
      <3>2. psbt = [tx |-> psbt.tx, sigs |-> psbt.sigs] /\ DOMAIN psbt.sigs = psbt.tx.spends
        BY <2>1 DEF AmountsInv, SignedInv, Assembled
      <3>3. /\ psbt'.tx = psbt.tx
            /\ DOMAIN psbt'.sigs = psbt.tx.spends
            /\ \A c \in psbt.tx.spends :
                psbt'.sigs[c] =
                    {s \in psbt.sigs[c] : \A t \in f.sigs[c] : t.key # s.key} \cup f.sigs[c]
        BY <2>5, <3>2 DEF Merged
      <3>4. ASSUME NEW c \in psbt.tx.spends
            PROVE  /\ IsFiniteSet(psbt'.sigs[c])
                   /\ \A s \in psbt'.sigs[c] : GoodSignature(s, c)'
        <4> DEFINE kept == {s \in psbt.sigs[c] : \A t \in f.sigs[c] : t.key # s.key}
        <4>1. f.sigs[c] = IF c \in wallet[p] THEN {[key |-> p, tx |-> psbt.tx]} ELSE {}
          BY <3>1 DEF SignedBy
        <4>2. /\ IsFiniteSet(psbt.sigs[c])
              /\ \A s \in psbt.sigs[c] : GoodSignature(s, c)
          BY <2>1 DEF SignedInv, Assembled
        <4>3. IsFiniteSet(kept)
          BY <4>2, FS_Subset
        <4>4. IsFiniteSet(f.sigs[c])
          <5>1. IsFiniteSet({[key |-> p, tx |-> psbt.tx]})
            BY FS_Singleton
          <5>2. IsFiniteSet({})
            BY FS_EmptySet
          <5> QED
            BY <4>1, <5>1, <5>2
        <4>5. psbt'.sigs[c] = kept \cup f.sigs[c]
          BY <3>3
        <4>6. IsFiniteSet(psbt'.sigs[c])
          <5> HIDE DEF kept
          <5> QED
            BY <4>3, <4>4, <4>5, FS_Union
        <4>7. ASSUME NEW s \in psbt'.sigs[c]
              PROVE  GoodSignature(s, c)'
          <5>1. s \in psbt.sigs[c] \/ (c \in wallet[p] /\ s = [key |-> p, tx |-> psbt.tx])
            BY <4>1, <4>5, <4>7
          <5>2. GoodSignature(s, c)
            BY <3>1, <4>2, <5>1 DEF GoodSignature
          <5> QED
            BY <2>1, <3>3, <5>2 DEF GoodSignature
        <4> QED
          BY <4>6, <4>7
      <3> QED
        BY <2>1, <2>3, <3>3, <3>4 DEF SignedInv, Assembled, FinalSigned
    <2> QED
      BY <2>2, <2>4, <2>5
  <1>6. CASE Finalize
    <2>1. /\ stage = "merge" /\ stage' \in {"final", "failed"}
          /\ stage' = "final" => Finalizable(psbt)
          /\ UNCHANGED <<reveals, sent, psbt, wallet, refused>>
      BY <1>6 DEF Finalize
    <2>2. ASSUME stage' = "final"
          PROVE  FinalSigned'
      <3> SUFFICES ASSUME NEW c \in psbt.tx.spends
                   PROVE  \E p \in DOMAIN reveals \ refused :
                            c \in wallet[p] /\ psbt.sigs[c] = {[key |-> p, tx |-> psbt.tx]}
        BY <2>1 DEF FinalSigned
      <3>1. /\ IsFiniteSet(psbt.sigs[c]) /\ Cardinality(psbt.sigs[c]) = 1
            /\ \A s \in psbt.sigs[c] : GoodSignature(s, c)
        BY <2>1, <2>2 DEF SignedInv, Assembled, Finalizable
      <3>2. PICK s : psbt.sigs[c] = {s}
        BY <3>1, FS_Singleton
      <3>3. PICK p \in DOMAIN reveals :
                /\ c \in wallet[p] /\ s = [key |-> p, tx |-> psbt.tx]
                /\ Verified(reveals[p], psbt.tx)
        BY <3>1, <3>2 DEF GoodSignature
      <3>4. p \notin refused
        BY <2>1, <3>3 DEF AmountsInv, Assembled
      <3> QED
        BY <3>2, <3>3, <3>4
    <2>3. \A p \in Participants : \A f \in sent'[p] : p \in DOMAIN reveals' /\ OwnFragment(p, f)'
      BY <2>1 DEF SignedInv, OwnFragment
    <2> QED
      BY <2>1, <2>2, <2>3 DEF SignedInv, Assembled, FinalSigned, GoodSignature
  <1>7. CASE Again
    BY <1>7 DEF Again, SignedInv, OwnFragment, Assembled, FinalSigned
  <1>8. CASE UNCHANGED vars
    BY <1>8 DEF vars, SignedInv, OwnFragment, GoodSignature, Assembled, FinalSigned
  <1> QED
    BY <1>1, <1>2, <1>3, <1>4, <1>5, <1>6, <1>7, <1>8 DEF Next

\* FinalSigned: what finalize lets through has one signature for each input, for this
\* very transaction, by a participant that has the key, whoever revealed the input,
\* and that has found in the transaction what it revealed itself.
THEOREM Final == Spec => []FinalSigned
  <1>1. SignedInv => FinalSigned
    BY DEF SignedInv
  <1> QED
    BY SignedInit, SignedStep, AmountsInvariant, <1>1, PTL DEF Spec

------------------------------------------------------------------------------
(* What participants think of the template.                                  *)

\* Each output is a payment of some participant or its change.
LEMMA OutputsAre ==
    ASSUME NEW a, NEW batch, NEW f, NEW o
    PROVE  o \in DOMAIN Transaction(a, batch, f).pays <=>
             \E p \in DOMAIN batch :
                \/ \E i \in DOMAIN batch[p].payments :
                    o = Output(batch[p].payments[i].to, batch[p].payments[i].amount)
                \/ o \in Change(a, batch[p], f[p])
  <1> DEFINE outputs(p) == Range(Paid(batch[p])) \cup Change(a, batch[p], f[p])
  <1>1. DOMAIN Transaction(a, batch, f).pays = UNION {outputs(p) : p \in DOMAIN batch}
    BY DEF Transaction
  <1>2. \A p \in DOMAIN batch :
            o \in Range(Paid(batch[p])) <=>
                \E i \in DOMAIN batch[p].payments :
                    o = Output(batch[p].payments[i].to, batch[p].payments[i].amount)
    BY DEF Range, Paid
  <1> QED
    BY <1>1, <1>2

\* The least element of a set of amounts.
LEMMA MinIs ==
    ASSUME NEW T \in SUBSET Nat, T # {}
    PROVE  Min(T) \in T /\ \A m \in T : Min(T) <= m
  BY NatLeast DEF Min

\* What validate_reveal lets pass has dust to spare for its change.
LEMMA ValidFacts ==
    ASSUME NEW a, NEW r, IsAssembler(a), IsReveal(r), Valid(a, r)
    PROVE  /\ HasChange(r) => a.allowChange /\ Margin(r) >= Dust
           /\ \A i \in DOMAIN r.payments : r.payments[i].amount >= Dust
  <1>1. Estimate(a, r) \in Nat
    <2>1. Vsize(Weight(r)) \in Nat /\ a.rate \in Nat
      BY RevealAmounts, VsizeBounds DEF IsAssembler
    <2> QED
      BY <2>1 DEF Estimate
  <1> QED
    BY <1>1, RevealAmounts DEF Valid, Sufficient, Dust

\* What is known of the amounts once there is a template.
LEMMA AssembledFacts ==
    ASSUME AmountsInv, stage \in Assembled
    PROVE  /\ IsAssembler(asm) /\ IsBatch(reveals)
           /\ Changers(reveals) # {} => asm.allowChange
           /\ shares \in Shares(asm, reveals) /\ DOMAIN shares = DOMAIN reveals
           /\ \A q \in DOMAIN reveals :
                /\ IsReveal(reveals[q])
                /\ Margin(reveals[q]) \in Int /\ InputSum(reveals[q]) \in Nat
                /\ PaymentSum(reveals[q]) \in Nat
                /\ Margin(reveals[q]) <= InputSum(reveals[q])
                /\ shares[q] \in Nat \ {0} /\ shares[q] <= Margin(reveals[q])
                /\ HasChange(reveals[q]) =>
                    asm.allowChange /\ Margin(reveals[q]) >= Dust
                /\ \A i \in DOMAIN reveals[q].payments :
                    reveals[q].payments[i].amount \in Nat
                    /\ reveals[q].payments[i].amount >= Dust
  <1>1. /\ IsAssembler(asm) /\ IsBatch(reveals)
        /\ Changers(reveals) # {} => asm.allowChange
    BY RevealsBatch DEF AmountsInv, Assembled
  <1>2. /\ shares \in Shares(asm, reveals) /\ Short(reveals, shares) = {}
        /\ \A q \in DOMAIN reveals : IsReveal(reveals[q]) /\ Valid(asm, reveals[q])
    BY DEF AmountsInv, Assembled
  <1>3. DOMAIN shares = DOMAIN reveals
    BY <1>1, <1>2, SharesSum
  <1> SUFFICES ASSUME NEW q \in DOMAIN reveals
               PROVE  /\ IsReveal(reveals[q])
                      /\ Margin(reveals[q]) \in Int /\ InputSum(reveals[q]) \in Nat
                      /\ PaymentSum(reveals[q]) \in Nat
                      /\ Margin(reveals[q]) <= InputSum(reveals[q])
                      /\ shares[q] \in Nat \ {0} /\ shares[q] <= Margin(reveals[q])
                      /\ HasChange(reveals[q]) =>
                          asm.allowChange /\ Margin(reveals[q]) >= Dust
                      /\ \A i \in DOMAIN reveals[q].payments :
                          reveals[q].payments[i].amount \in Nat
                          /\ reveals[q].payments[i].amount >= Dust
    BY <1>1, <1>2, <1>3
  <1> DEFINE r == reveals[q]
  <1>4. IsReveal(r) /\ Valid(asm, r)
    BY <1>2
  <1>5. /\ Margin(r) \in Int /\ InputSum(r) \in Nat /\ PaymentSum(r) \in Nat
        /\ Margin(r) <= InputSum(r)
    BY <1>4, RevealAmounts
  <1>6. shares[q] \in Nat \ {0}
    BY <1>1, <1>2, SharePositive
  <1>7. shares[q] <= Margin(r)
    BY <1>2, <1>5, <1>6 DEF Short
  <1>8. \A i \in DOMAIN r.payments : r.payments[i].amount \in Nat
    BY <1>4, RevealFacts
  <1>9. /\ HasChange(r) => asm.allowChange /\ Margin(r) >= Dust
        /\ \A i \in DOMAIN r.payments : r.payments[i].amount >= Dust
    BY <1>1, <1>4, ValidFacts
  <1> QED
    BY <1>4, <1>5, <1>6, <1>7, <1>8, <1>9

\* RefusedOnlyForDust: verify_template turns down an honest template only where change
\* fell below the dust limit; change that is worth an output passes all its checks.
THEOREM Refused == Spec => []RefusedOnlyForDust
  <1>1. AmountsInv => RefusedOnlyForDust
    <2> SUFFICES ASSUME AmountsInv, stage \in {"merge", "final"},
                        NEW p \in DOMAIN reveals, p \in refused
                 PROVE  Dropped(p)
      BY DEF RefusedOnlyForDust, AmountsInv, Assembled
    <2> DEFINE r == reveals[p]
               share == shares[p]
               outputs == DOMAIN psbt.tx.pays
               mine == {o \in outputs : o.to = r.change}
               amounts == {o.amount : o \in mine}
    <2>1. /\ DOMAIN shares = DOMAIN reveals
          /\ \A q \in DOMAIN reveals :
                /\ Margin(reveals[q]) \in Int /\ InputSum(reveals[q]) \in Nat
                /\ Margin(reveals[q]) <= InputSum(reveals[q])
                /\ shares[q] \in Nat \ {0}
                /\ HasChange(reveals[q]) =>
                    asm.allowChange /\ Margin(reveals[q]) >= Dust
                /\ \A i \in DOMAIN reveals[q].payments :
                    reveals[q].payments[i].amount \in Nat
                    /\ reveals[q].payments[i].amount >= Dust
      BY AssembledFacts DEF Assembled
    <2>2. /\ psbt.tx = Transaction(asm, reveals, shares)
          /\ p \in refused <=> ~Verified(r, psbt.tx)
      BY DEF AmountsInv, Assembled
    <2>3. Built
      BY <2>1 DEF Built, NoShares
    <2>4. \A o : o \in outputs <=>
             \E q \in DOMAIN reveals :
                \/ \E i \in DOMAIN reveals[q].payments :
                    o = Output(reveals[q].payments[i].to, reveals[q].payments[i].amount)
                \/ o \in Change(asm, reveals[q], shares[q])
      BY <2>2, OutputsAre
    <2>5. /\ Margin(r) \in Int /\ InputSum(r) \in Nat /\ Margin(r) <= InputSum(r)
          /\ share \in Nat \ {0}
      BY <2>1
    <2>6. \A o \in outputs : o.amount \in Nat /\ o.amount >= Dust
      <3> SUFFICES ASSUME NEW o \in outputs
                   PROVE  o.amount \in Nat /\ o.amount >= Dust
        OBVIOUS
      <3>1. PICK q \in DOMAIN reveals :
                \/ \E i \in DOMAIN reveals[q].payments :
                    o = Output(reveals[q].payments[i].to, reveals[q].payments[i].amount)
                \/ o \in Change(asm, reveals[q], shares[q])
        BY <2>4
      <3>2. ASSUME NEW i \in DOMAIN reveals[q].payments,
                   o = Output(reveals[q].payments[i].to, reveals[q].payments[i].amount)
            PROVE  o.amount \in Nat /\ o.amount >= Dust
        <4>1. o.amount = reveals[q].payments[i].amount
          BY <3>2 DEF Output
        <4> QED
          BY <2>1, <4>1
      <3>3. CASE o \in Change(asm, reveals[q], shares[q])
        <4>1. GetsChange(asm, reveals[q], shares[q]) /\ o.amount = Margin(reveals[q]) - shares[q]
          BY <3>3 DEF Change, Output
        <4>2. Margin(reveals[q]) \in Int /\ shares[q] \in Nat
          BY <2>1
        <4> QED
          BY <4>1, <4>2 DEF GetsChange, Dust
      <3> QED
        BY <3>1, <3>2, <3>3
    <2>7. Coins(r) \subseteq psbt.tx.spends
      BY <2>2 DEF Transaction
    <2>8. Range(Paid(r)) \subseteq outputs
      BY <2>4 DEF Range, Paid
    <2>9. Verified(r, psbt.tx) <=>
            (HasChange(r) => IF mine = {} THEN Margin(r) < Dust ELSE FoundChange(r, Min(amounts)))
      BY <2>7, <2>8 DEF Verified
    <2> HIDE DEF outputs, mine, amounts
    <2>10. ASSUME HasChange(r), Margin(r) - share >= Dust
           PROVE  mine # {} /\ FoundChange(r, Min(amounts))
      <3> DEFINE o == Output(r.change, Margin(r) - share)
      <3>1. o \in Change(asm, r, share)
        BY <2>1, <2>10 DEF Change, GetsChange
      <3>2. o \in outputs /\ o.to = r.change /\ o.amount = Margin(r) - share
        BY <2>4, <3>1 DEF Output
      <3>3. o \in mine /\ Margin(r) - share \in amounts
        BY <3>2 DEF mine, amounts
      <3>4. amounts \subseteq Nat /\ \A m \in amounts : m >= Dust
        BY <2>6 DEF mine, amounts
      <3>5. Min(amounts) \in amounts /\ Min(amounts) <= Margin(r) - share
        BY <3>3, <3>4, MinIs
      <3>6. Min(amounts) \in Nat /\ Min(amounts) >= Dust
        BY <3>4, <3>5
      <3> QED
        BY <2>5, <3>3, <3>5, <3>6 DEF FoundChange
    <2>11. ASSUME ~Dropped(p), HasChange(r)
           PROVE  Margin(r) - share >= Dust
      BY <2>3, <2>5, <2>11 DEF Dropped, Dust
    <2> QED
      BY <2>2, <2>9, <2>10, <2>11
  <1> QED
    BY <1>1, AmountsInvariant, PTL

------------------------------------------------------------------------------
(* Where the money goes.                                                     *)

\* Finitely many arguments have finitely many values.
LEMMA FiniteRange ==
    ASSUME NEW S, IsFiniteSet(S), NEW T, NEW f \in [S -> T]
    PROVE  IsFiniteSet({f[x] : x \in S})
  <1> DEFINE R == {f[x] : x \in S}
  <1>1. f \in Surjection(S, R)
    BY DEF Surjection
  <1> HIDE DEF R
  <1>2. IsFiniteSet(R)
    BY <1>1, FS_Surjection
  <1> QED
    BY <1>2 DEF R

\* The change that is paid.
ChangePaid(a, r, share) == IF GetsChange(a, r, share) THEN Margin(r) - share ELSE 0

\* What the part of one participant pays out: its payments, and its change if any.
LEMMA PartPaid ==
    ASSUME NEW a, NEW r, NEW share \in Int, NEW O, IsReveal(r), IsFiniteSet(O),
           \A o \in O : o.amount \in Int,
           \A i \in DOMAIN r.payments :
                Output(r.payments[i].to, r.payments[i].amount) \in O,
           Change(a, r, share) \subseteq O
    PROVE  /\ \A o \in O : Copies(a, r, share, o) \in Int
           /\ SumFunctionOnSet([o \in O |-> o.amount * Copies(a, r, share, o)], O)
                = PaymentSum(r) + ChangePaid(a, r, share)
  <1> DEFINE I == DOMAIN r.payments
             paid == [i \in I |-> Output(r.payments[i].to, r.payments[i].amount)]
             amounts == [i \in I |-> r.payments[i].amount]
             value == [o \in O |-> o.amount]
             count == [o \in O |-> Cardinality({i \in I : paid[i] = o})]
             first == [o \in O |-> value[o] * count[o]]
             second == [o \in O |-> IF o \in Change(a, r, share) THEN o.amount ELSE 0]
             all == [o \in O |-> o.amount * Copies(a, r, share, o)]
  <1>1. /\ IsFiniteSet(I)
        /\ \A i \in I : paid[i] \in O /\ value[paid[i]] = amounts[i]
    BY RevealFacts DEF Output
  <1>2. PaymentSum(r) = SumFunctionOnSet(amounts, I)
    BY DEF PaymentSum, Total, SumFunction
  <1>3. \A o \in O : value[o] \in Int /\ value[o] = o.amount
    OBVIOUS
  <1>4. \A o \in O : count[o] = Cardinality({i \in I : paid[i] = o})
    OBVIOUS
  <1>5. \A o \in O : count[o] \in Int
    <2> SUFFICES ASSUME NEW o \in O
                 PROVE  count[o] \in Int
      OBVIOUS
    <2>1. IsFiniteSet({i \in I : paid[i] = o})
      BY <1>1, FS_Subset
    <2> HIDE DEF paid, I
    <2> QED
      BY <1>4, <2>1, FS_CardinalityType
  <1>6. \A o \in O : Copies(a, r, share, o)
                        = count[o] + IF o \in Change(a, r, share) THEN 1 ELSE 0
    BY DEF Copies, Paid
  <1>7. \A o \in O : /\ first[o] = value[o] * count[o]
                     /\ second[o] = IF o \in Change(a, r, share) THEN value[o] ELSE 0
                     /\ all[o] = value[o] * Copies(a, r, share, o)
    OBVIOUS
  <1> HIDE DEF paid, amounts, value, count, first, second, all
  <1>8. SumFunctionOnSet(first, O) = SumFunctionOnSet(amounts, I)
    <2>1. Grouped(first, paid, value, I, O)
      BY <1>4, <1>7 DEF Grouped
    <2>2. IsFiniteSet(I)
      BY <1>1
    <2>3. Placed(paid, value, amounts, I, O)
      BY <1>1 DEF Placed
    <2>4. Ints(value, O)
      BY <1>3 DEF Ints
    <2> HIDE DEF I
    <2> QED
      BY <2>1, <2>2, <2>3, <2>4, SumGrouped
  <1>9. SumFunctionOnSet(second, O) = ChangePaid(a, r, share)
    <2>1. CASE GetsChange(a, r, share)
      <3> DEFINE d == Output(r.change, Margin(r) - share)
                 c == Margin(r) - share
      <3>1. Change(a, r, share) = {d} /\ d.amount = c
        BY <2>1 DEF Change, Output
      <3>2. d \in O /\ c \in Int
        BY <3>1
      <3>3. \A o \in O : second[o] = IF o = d THEN c ELSE 0
        BY <3>1, <1>3, <1>7
      <3> HIDE DEF d, c
      <3>4. SumFunctionOnSet(second, O) = c
        BY <3>2, <3>3, SumSingle
      <3> QED
        BY <2>1, <3>4 DEF c, ChangePaid
    <2>2. CASE ~GetsChange(a, r, share)
      <3>1. \A o \in O : second[o] = 0
        BY <2>2, <1>7 DEF Change
      <3>2. SumFunctionOnSet(second, O) = 0 * Cardinality(O)
        BY <3>1, SumConstant
      <3>3. Cardinality(O) \in Nat
        BY FS_CardinalityType
      <3> QED
        BY <2>2, <3>2, <3>3 DEF ChangePaid
    <2> QED
      BY <2>1, <2>2
  <1>10. Ints(first, O) /\ Ints(second, O)
    <2>1. ASSUME NEW o \in O
          PROVE  first[o] \in Int /\ second[o] \in Int
      <3>1. value[o] \in Int /\ count[o] \in Int
        BY <1>3, <1>5
      <3>2. value[o] * count[o] \in Int
        BY <3>1
      <3> QED
        BY <1>7, <3>1, <3>2
    <2> QED
      BY <2>1 DEF Ints
  <1>11. ASSUME NEW o \in O
         PROVE  Copies(a, r, share, o) \in Int
    <2>1. count[o] \in Int
      BY <1>5
    <2>2. CASE o \in Change(a, r, share)
      BY <1>6, <2>1, <2>2
    <2>3. CASE o \notin Change(a, r, share)
      BY <1>6, <2>1, <2>3
    <2> QED
      BY <2>2, <2>3
  <1>12. ASSUME NEW o \in O
         PROVE  all[o] = first[o] + second[o]
    <2> DEFINE v == value[o]
               n == count[o]
    <2>1. v \in Int /\ n \in Int
      BY <1>3, <1>5
    <2>2. all[o] = v * Copies(a, r, share, o) /\ first[o] = v * n
      BY <1>7
    <2>3. CASE o \in Change(a, r, share)
      <3>1. Copies(a, r, share, o) = n + 1 /\ second[o] = v
        BY <1>6, <1>7, <2>3
      <3> HIDE DEF v, n
      <3>2. v * (n + 1) = v * n + v
        BY <2>1
      <3> QED
        BY <2>2, <3>1, <3>2
    <2>4. CASE o \notin Change(a, r, share)
      <3>1. Copies(a, r, share, o) = n + 0 /\ second[o] = 0
        BY <1>6, <1>7, <2>4
      <3> HIDE DEF v, n
      <3>2. n + 0 = n /\ v * n + 0 = v * n
        BY <2>1
      <3> QED
        BY <2>2, <3>1, <3>2
    <2> QED
      BY <2>3, <2>4
  <1>13. SumFunctionOnSet(all, O) = SumFunctionOnSet(first, O) + SumFunctionOnSet(second, O)
    BY <1>10, <1>12, SumPlus
  <1> QED
    BY <1>2, <1>8, <1>9, <1>11, <1>13 DEF all

\* A transaction has finitely many outputs.
LEMMA FiniteOutputs ==
    ASSUME NEW a, NEW batch, NEW f, IsBatch(batch)
    PROVE  IsFiniteSet(DOMAIN Transaction(a, batch, f).pays)
  <1> DEFINE D == DOMAIN batch
             outputs(p) == Range(Paid(batch[p])) \cup Change(a, batch[p], f[p])
             each == [p \in D |-> outputs(p)]
             S == {each[p] : p \in D}
  <1>1. ASSUME NEW p \in D
        PROVE  IsFiniteSet(outputs(p))
    <2> DEFINE paid == Paid(batch[p])
               I == DOMAIN batch[p].payments
    <2>1. IsFiniteSet(I)
      BY RevealFacts DEF IsBatch
    <2>2. paid \in [I -> Range(paid)] /\ Range(paid) = {paid[i] : i \in I}
      BY DEF Paid, Range
    <2> HIDE DEF paid, I
    <2>3. IsFiniteSet(Range(paid))
      <3>1. paid \in [I -> Range(paid)]
        BY <2>2
      <3>2. IsFiniteSet({paid[i] : i \in I})
        BY <2>1, <3>1, FiniteRange
      <3> QED
        BY <2>2, <3>2
    <2>4. IsFiniteSet(Change(a, batch[p], f[p]))
      BY FS_EmptySet, FS_Singleton DEF Change
    <2> QED
      BY <2>3, <2>4, FS_Union DEF paid
  <1>2. each \in [D -> {outputs(p) : p \in D}]
    OBVIOUS
  <1>3. DOMAIN Transaction(a, batch, f).pays = UNION {outputs(p) : p \in D}
    BY DEF Transaction
  <1>4. S = {outputs(p) : p \in D} /\ \A T \in S : IsFiniteSet(T)
    BY <1>1
  <1>5. IsFiniteSet(D)
    BY DEF IsBatch
  <1>6. IsFiniteSet(S)
    <2> HIDE DEF each, D
    <2> QED
      BY <1>2, <1>5, FiniteRange
  <1>7. IsFiniteSet(UNION S)
    <2> HIDE DEF S
    <2> QED
      BY <1>4, <1>6, FS_UNION
  <1> QED
    BY <1>3, <1>4, <1>7

\* All outputs together pay what the parts of the participants pay.
LEMMA OutputsSum ==
    ASSUME NEW a, NEW batch, NEW f, IsBatch(batch), \A p \in DOMAIN batch : f[p] \in Int
    PROVE  LET pays == Transaction(a, batch, f).pays
           IN  SumFunction([o \in DOMAIN pays |-> o.amount * pays[o]])
                 = SumFunction([p \in DOMAIN batch |->
                        PaymentSum(batch[p]) + ChangePaid(a, batch[p], f[p])])
  <1> DEFINE D == DOMAIN batch
             pays == Transaction(a, batch, f).pays
             O == DOMAIN pays
             copies(o) == [p \in D |-> Copies(a, batch[p], f[p], o)]
             m == [o \in O |-> [p \in D |-> o.amount * Copies(a, batch[p], f[p], o)]]
             k == [p \in D |-> [o \in O |-> o.amount * Copies(a, batch[p], f[p], o)]]
             first == [o \in O |-> o.amount * pays[o]]
             second == [p \in D |-> PaymentSum(batch[p]) + ChangePaid(a, batch[p], f[p])]
  <1>1. IsFiniteSet(O) /\ IsFiniteSet(D)
    BY FiniteOutputs DEF IsBatch
  <1>2. \A p \in D : IsReveal(batch[p]) /\ Margin(batch[p]) \in Int
    BY RevealAmounts DEF IsBatch
  <1>3. ASSUME NEW o \in O
        PROVE  o.amount \in Int
    <2>1. PICK p \in D :
                \/ \E i \in DOMAIN batch[p].payments :
                    o = Output(batch[p].payments[i].to, batch[p].payments[i].amount)
                \/ o \in Change(a, batch[p], f[p])
      BY OutputsAre
    <2>2. ASSUME NEW i \in DOMAIN batch[p].payments,
                 o = Output(batch[p].payments[i].to, batch[p].payments[i].amount)
          PROVE  o.amount \in Int
      <3>1. o.amount = batch[p].payments[i].amount
        BY <2>2 DEF Output
      <3>2. batch[p].payments[i].amount \in Nat
        BY <1>2, RevealFacts
      <3> QED
        BY <3>1, <3>2
    <2>3. ASSUME o \in Change(a, batch[p], f[p])
          PROVE  o.amount \in Int
      <3>1. o.amount = Margin(batch[p]) - f[p]
        BY <2>3 DEF Change, Output
      <3> QED
        BY <1>2, <3>1
    <2> QED
      BY <2>1, <2>2, <2>3
  <1>4. ASSUME NEW o \in O
        PROVE  pays[o] = SumFunctionOnSet(copies(o), D)
    BY DEF Transaction, SumFunction
  <1>5. ASSUME NEW p \in D
        PROVE  /\ \A i \in DOMAIN batch[p].payments :
                    Output(batch[p].payments[i].to, batch[p].payments[i].amount) \in O
               /\ Change(a, batch[p], f[p]) \subseteq O
    BY OutputsAre
  <1>6. ASSUME NEW p \in D
        PROVE  /\ \A o \in O : Copies(a, batch[p], f[p], o) \in Int
               /\ SumFunctionOnSet([o \in O |-> o.amount * Copies(a, batch[p], f[p], o)], O)
                    = PaymentSum(batch[p]) + ChangePaid(a, batch[p], f[p])
    <2> DEFINE r == batch[p]
               share == f[p]
    <2>1. IsReveal(r) /\ share \in Int
      BY <1>2
    <2>2. Change(a, r, share) \subseteq O
      BY <1>5
    <2>3. \A i \in DOMAIN r.payments :
                Output(r.payments[i].to, r.payments[i].amount) \in O
      BY <1>5
    <2>4. \A o \in O : o.amount \in Int
      BY <1>3
    <2> HIDE DEF O, D, r, share
    <2>5. /\ \A o \in O : Copies(a, r, share, o) \in Int
          /\ SumFunctionOnSet([o \in O |-> o.amount * Copies(a, r, share, o)], O)
               = PaymentSum(r) + ChangePaid(a, r, share)
      BY <1>1, <2>1, <2>2, <2>3, <2>4, PartPaid
    <2> QED
      BY <2>5 DEF r, share
  <1>7. \A o \in O : \A p \in D :
            /\ m[o][p] = o.amount * Copies(a, batch[p], f[p], o)
            /\ k[p][o] = o.amount * Copies(a, batch[p], f[p], o)
    OBVIOUS
  <1>8. RowSums(first, m, O, D)
    <2> SUFFICES ASSUME NEW o \in O
                 PROVE  first[o] = SumFunctionOnSet(m[o], D)
      BY DEF RowSums
    <2> DEFINE c == o.amount
               g == copies(o)
               h == m[o]
    <2>1. first[o] = c * pays[o] /\ c \in Int
      BY <1>3
    <2>2. \A p \in D : g[p] \in Int /\ h[p] = c * g[p]
      BY <1>6, <1>7
    <2>3. pays[o] = SumFunctionOnSet(g, D)
      BY <1>4
    <2> HIDE DEF c, g, h, D, pays, first, O
    <2>4. Ints(g, D)
      BY <2>2 DEF Ints
    <2>5. SumFunctionOnSet(h, D) = c * SumFunctionOnSet(g, D)
      BY <1>1, <2>1, <2>2, <2>4, SumTimes
    <2> QED
      BY <2>1, <2>3, <2>5 DEF h
  <1>9. RowSums(second, k, D, O)
    <2> SUFFICES ASSUME NEW p \in D
                 PROVE  second[p] = SumFunctionOnSet(k[p], O)
      BY DEF RowSums
    <2>1. k[p] = [o \in O |-> o.amount * Copies(a, batch[p], f[p], o)]
      OBVIOUS
    <2>2. second[p] = PaymentSum(batch[p]) + ChangePaid(a, batch[p], f[p])
      OBVIOUS
    <2> HIDE DEF k, second, O, D
    <2> QED
      BY <1>6, <2>1, <2>2
  <1>10. Transposed(m, k, O, D)
    <2> SUFFICES ASSUME NEW o \in O, NEW p \in D
                 PROVE  m[o][p] \in Int /\ k[p][o] = m[o][p]
      BY DEF Transposed
    <2> DEFINE c == o.amount
               n == Copies(a, batch[p], f[p], o)
    <2>1. c \in Int /\ n \in Int
      BY <1>3, <1>6
    <2>2. m[o][p] = c * n /\ k[p][o] = c * n
      BY <1>7
    <2> HIDE DEF c, n, m, k
    <2>3. c * n \in Int
      BY <2>1
    <2> QED
      BY <2>2, <2>3
  <1>11. SumFunctionOnSet(first, O) = SumFunctionOnSet(second, D)
    <2> HIDE DEF first, second, m, k, O, D
    <2> QED
      BY <1>1, <1>8, <1>9, <1>10, SumExchange
  <1> QED
    BY <1>11 DEF SumFunction

\* FeesCovered: the miners get the fee that the assembler has reckoned with, and beyond
\* it nothing but dust and the change of participants without a change address.
THEOREM Covered == Spec => []FeesCovered
  <1>1. AmountsInv => FeesCovered
    <2> DEFINE D == DOMAIN reveals
               pays == psbt.tx.pays
               paid == SumFunction([o \in DOMAIN pays |-> o.amount * pays[o]])
               given(p) == IF HasChange(reveals[p]) THEN Dust - 1
                           ELSE Margin(reveals[p]) - shares[p]
               in == [p \in D |-> InputSum(reveals[p])]
               out == [p \in D |-> PaymentSum(reveals[p])
                                     + ChangePaid(asm, reveals[p], shares[p])]
               rest == [p \in D |-> in[p] - out[p]]
               extra == [p \in D |-> given(p)]
               most == [p \in D |-> shares[p] + extra[p]]
               left == SumFunctionOnSet(in, D) - paid
               fee == TotalFee(asm, reveals)
    <2> SUFFICES ASSUME AmountsInv, Built
                 PROVE  left >= fee /\ left <= fee + SumFunctionOnSet(extra, D)
      BY DEF FeesCovered, Over, SumFunction
    <2>1. stage \in Assembled
      BY DEF AmountsInv, Built
    <2>2. /\ IsAssembler(asm) /\ IsBatch(reveals)
          /\ Changers(reveals) # {} => asm.allowChange
          /\ shares \in Shares(asm, reveals)
          /\ \A q \in D :
                /\ Margin(reveals[q]) \in Int /\ InputSum(reveals[q]) \in Nat
                /\ PaymentSum(reveals[q]) \in Nat
                /\ shares[q] \in Nat \ {0} /\ shares[q] <= Margin(reveals[q])
                /\ HasChange(reveals[q]) => asm.allowChange
      BY <2>1, AssembledFacts
    <2>3. IsFiniteSet(D)
      BY <2>2 DEF IsBatch
    <2>4. pays = Transaction(asm, reveals, shares).pays
      BY <2>1 DEF AmountsInv
    <2>5. SumFunctionOnSet(shares, D) = fee
      BY <2>2, SharesSum
    <2>6. paid = SumFunctionOnSet(out, D)
      <3>1. \A p \in D : shares[p] \in Int
        BY <2>2
      <3> HIDE DEF pays
      <3> QED
        BY <2>2, <2>4, <3>1, OutputsSum DEF SumFunction
    <2>7. ASSUME NEW p \in D
          PROVE  /\ in[p] \in Int /\ out[p] \in Int /\ extra[p] \in Int
                 /\ in[p] = rest[p] + out[p] /\ rest[p] \in Int
                 /\ shares[p] <= rest[p] /\ rest[p] <= most[p]
                 /\ most[p] = shares[p] + extra[p] /\ most[p] \in Int /\ shares[p] \in Int
      <3> DEFINE r == reveals[p]
                 share == shares[p]
      <3>1. /\ InputSum(r) \in Int /\ PaymentSum(r) \in Int /\ share \in Int
            /\ Margin(r) = InputSum(r) - PaymentSum(r) /\ share <= Margin(r)
            /\ HasChange(r) => asm.allowChange
        BY <2>2 DEF Margin
      <3>2. /\ in[p] = InputSum(r)
            /\ out[p] = PaymentSum(r) + ChangePaid(asm, r, share)
            /\ rest[p] = in[p] - out[p] /\ most[p] = share + extra[p]
            /\ extra[p] = IF HasChange(r) THEN Dust - 1 ELSE Margin(r) - share
        OBVIOUS
      <3> HIDE DEF r, share, in, out, rest, most, extra
      <3>3. CASE GetsChange(asm, r, share)
        <4>1. HasChange(r) /\ ChangePaid(asm, r, share) = Margin(r) - share
          BY <3>3 DEF GetsChange, ChangePaid
        <4> QED
          BY <3>1, <3>2, <4>1 DEF Dust, share
      <3>4. CASE ~GetsChange(asm, r, share)
        <4>1. ChangePaid(asm, r, share) = 0 /\ (HasChange(r) => Margin(r) - share < Dust)
          BY <3>1, <3>4 DEF GetsChange, ChangePaid, Dust
        <4> QED
          BY <3>1, <3>2, <4>1 DEF Dust, share
      <3> QED
        BY <3>3, <3>4
    <2> HIDE DEF D, pays, paid, in, out, rest, extra, most, fee
    <2>8. /\ Ints(in, D) /\ Ints(out, D) /\ Ints(extra, D) /\ Ints(rest, D)
          /\ Ints(most, D) /\ Ints(shares, D)
      BY <2>7 DEF Ints
    <2>9. SumFunctionOnSet(in, D) = SumFunctionOnSet(rest, D) + SumFunctionOnSet(out, D)
      <3>1. \A p \in D : in[p] = rest[p] + out[p]
        BY <2>7
      <3> QED
        BY <2>3, <2>8, <3>1, SumPlus
    <2>10. SumFunctionOnSet(most, D) = SumFunctionOnSet(shares, D) + SumFunctionOnSet(extra, D)
      <3>1. \A p \in D : most[p] = shares[p] + extra[p]
        BY <2>7
      <3> QED
        BY <2>3, <2>8, <3>1, SumPlus
    <2>11. /\ SumFunctionOnSet(shares, D) <= SumFunctionOnSet(rest, D)
           /\ SumFunctionOnSet(rest, D) <= SumFunctionOnSet(most, D)
      <3>1. \A p \in D : shares[p] <= rest[p]
        BY <2>7
      <3>2. \A p \in D : rest[p] <= most[p]
        BY <2>7
      <3>3. SumFunctionOnSet(shares, D) <= SumFunctionOnSet(rest, D)
        BY <2>3, <2>8, <3>1, SumAtMost
      <3>4. SumFunctionOnSet(rest, D) <= SumFunctionOnSet(most, D)
        BY <2>3, <2>8, <3>2, SumAtMost
      <3> QED
        BY <3>3, <3>4
    <2>12. /\ SumFunctionOnSet(rest, D) \in Int /\ SumFunctionOnSet(out, D) \in Int
           /\ SumFunctionOnSet(extra, D) \in Int /\ SumFunctionOnSet(shares, D) \in Int
      BY <2>3, <2>8, SumType
    <2> QED
      BY <2>5, <2>6, <2>9, <2>10, <2>11, <2>12
  <1> QED
    BY <1>1, AmountsInvariant, PTL
==============================================================================
