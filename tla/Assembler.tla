------------------------------ MODULE Assembler ------------------------------
(***************************************************************************)
(* The arithmetic of a batch: BatchAssembler of common/src/assembler.rs,   *)
(* the check of the template in participant/src/participant.rs, and the    *)
(* merging of signatures in common/src/psbt_builder.rs.                    *)
(*                                                                         *)
(* A reveal has a sequence of inputs (a coin and its value), a sequence of *)
(* payments (an address and an amount) and a change address.  Amounts are  *)
(* in sats.  Networks, descriptors and scripts are left out: an address    *)
(* stands for its script.  asm is the assembler: rate is fee_rate_sat_vb.  *)
(***************************************************************************)
EXTENDS Integers, Sequences, FiniteSetsExt

CONSTANT NoAddress

Dust == 546

\* Sums over the elements of a sequence, and over the participants of a batch.
Total(seq, amount(_)) == SumFunction([i \in DOMAIN seq |-> amount(seq[i])])
Over(batch, amount(_)) == SumFunction([p \in DOMAIN batch |-> amount(batch[p])])

InputSum(r) == Total(r.inputs, LAMBDA input : input.value)
PaymentSum(r) == Total(r.payments, LAMBDA payment : payment.amount)
Margin(r) == InputSum(r) - PaymentSum(r)

HasChange(r) == r.change # NoAddress
Coins(r) == {r.inputs[i].coin : i \in DOMAIN r.inputs}

\* Nobody takes part without a coin to spend.
IsReveal(r) ==
    /\ r.inputs \in Seq([coin : Coins(r), value : Nat]) \ {<<>>}
    /\ r.payments \in Seq([to : {r.payments[i].to : i \in DOMAIN r.payments}, amount : Nat])

------------------------------------------------------------------------------
(* Sizes and fees.                                                           *)

Vsize(weight) == (weight + 3) \div 4

\* Seeded fault for Weight: the change output is not counted.
WeightWithoutChange(r) == 271 * Len(r.inputs) + 124 * Len(r.payments)

\* What a participant adds to the weight of the transaction: 41 bytes and a
\* witness of 107 for each input, 31 bytes for each output.
Weight(r) ==
    (4 * 41 + 107) * Len(r.inputs)
    + 4 * 31 * (Len(r.payments) + IF HasChange(r) THEN 1 ELSE 0)

\* The fee validate_reveal reckons with.
Estimate(asm, r) == Vsize(Weight(r)) * asm.rate

\* The fee of the whole transaction: if change is allowed at all, everyone is
\* taken to have some.
TotalFee(asm, batch) ==
    LET ins == Over(batch, LAMBDA r : Len(r.inputs))
        outs == Over(batch, LAMBDA r : Len(r.payments))
                + IF asm.allowChange THEN Cardinality(DOMAIN batch) ELSE 0
    IN  Vsize(4 * (11 + 41 * ins + 31 * outs) + 107 * ins + 2) * asm.rate

TotalWeight(batch) == Over(batch, Weight)

\* A part of the fee in proportion to the weight is computed in floating point and
\* truncated: where it is integral, one less may come out.
Truncated(part, whole, fee) ==
    {(part * fee) \div whole}
    \cup {n \in {(part * fee) \div whole - 1} :
            n >= 0 /\ (part * fee) % whole = 0}

\* Seeded fault for Remainder: what is allocated is not added up.
Unallocated(fee, allocated) == fee

\* The last participant pays what the others leave of the fee.
Remainder(fee, allocated) == fee - allocated

\* The shares calculate_weight_based_fees may return.  Who is the last of the map
\* is up to the hash function.
Shares(asm, batch) ==
    LET fee == TotalFee(asm, batch)
        part(p) == Truncated(Weight(batch[p]), TotalWeight(batch), fee)
        parts == {f \in [DOMAIN batch -> UNION {part(p) : p \in DOMAIN batch}] :
                    \A p \in DOMAIN batch : f[p] \in part(p)}
        others(f, last) == SumFunctionOnSet(f, DOMAIN batch \ {last})
    IN  {[f EXCEPT ![last] = Remainder(fee, others(f, last))] :
            f \in parts, last \in DOMAIN batch}

------------------------------------------------------------------------------
(* validate_reveal.                                                          *)

\* validate_sufficient_funds_for_fees
Sufficient(asm, r) ==
    Margin(r) >= Estimate(asm, r) + IF HasChange(r) THEN Dust ELSE 0

Valid(asm, r) ==
    /\ Sufficient(asm, r)
    /\ \A i, j \in DOMAIN r.inputs : r.inputs[i].coin = r.inputs[j].coin => i = j
    /\ \A i \in DOMAIN r.payments : r.payments[i].amount >= Dust
    /\ HasChange(r) => asm.allowChange

------------------------------------------------------------------------------
(* build_transaction.                                                        *)

\* An input of two participants, or a participant short of its share.
Clashing(batch) ==
    \E p, q \in DOMAIN batch : p # q /\ Coins(batch[p]) \cap Coins(batch[q]) # {}
Short(batch, shares) == {p \in DOMAIN batch : Margin(batch[p]) < shares[p]}

\* The total is compared once more.
Underfed(asm, batch) == Over(batch, Margin) < TotalFee(asm, batch)

\* Seeded fault for GetsChange: change is worth an output of twice the dust limit.
GetsGoodChange(asm, r, share) ==
    asm.allowChange /\ HasChange(r) /\ Margin(r) - share >= 2 * Dust

\* Change below the dust limit goes to the miners, and so does all of it without an
\* address.
GetsChange(asm, r, share) ==
    asm.allowChange /\ HasChange(r) /\ Margin(r) - share >= Dust

Output(to, amount) == [to |-> to, amount |-> amount]
Paid(r) == [i \in DOMAIN r.payments |-> Output(r.payments[i].to, r.payments[i].amount)]
Change(asm, r, share) ==
    IF GetsChange(asm, r, share) THEN {Output(r.change, Margin(r) - share)} ELSE {}

\* How many times the part of one participant pays o.
Copies(asm, r, share, o) ==
    Cardinality({i \in DOMAIN r.payments : Paid(r)[i] = o})
    + IF o \in Change(asm, r, share) THEN 1 ELSE 0

\* Outputs are sorted by script and amount: each has a number of copies.
Transaction(asm, batch, shares) ==
    LET outputs(p) == Range(Paid(batch[p])) \cup Change(asm, batch[p], shares[p])
    IN  [spends |-> UNION {Coins(batch[p]) : p \in DOMAIN batch},
         pays |-> [o \in UNION {outputs(p) : p \in DOMAIN batch} |->
            SumFunction([p \in DOMAIN batch |->
                            Copies(asm, batch[p], shares[p], o)])]]

------------------------------------------------------------------------------
(* verify_template.                                                          *)

\* Seeded fault for FoundChange: the limit itself is taken for dust.
FoundLargerChange(r, least) == least > Dust /\ least <= Margin(r)

\* Of the outputs to the change address the smallest comes first.
FoundChange(r, least) ==
    least >= Dust /\ least < InputSum(r) /\ least <= Margin(r)

Verified(r, tx) ==
    LET outputs == DOMAIN tx.pays
        mine == {o \in outputs : o.to = r.change}
    IN  /\ Coins(r) \subseteq tx.spends
        /\ Range(Paid(r)) \subseteq outputs
        /\ HasChange(r) =>
            IF mine = {} THEN Margin(r) < Dust
            ELSE FoundChange(r, Min({o.amount : o \in mine}))

------------------------------------------------------------------------------
(* merge_fragments and finalize, with the signatures of each coin.            *)

Unsigned(tx) == [tx |-> tx, sigs |-> [c \in tx.spends |-> {}]]

\* The participant key signs whatever the transaction spends of its wallet, whoever
\* revealed it.  A signature is for all of a transaction.
SignedBy(key, tx, wallet) ==
    [tx |-> tx, sigs |-> [c \in tx.spends |->
        IF c \in wallet THEN {[key |-> key, tx |-> tx]} ELSE {}]]

\* Seeded fault for Mergeable: only the inputs are compared.
SameInputs(base, fragment) == fragment.tx.spends = base.tx.spends

Mergeable(base, fragment) == fragment.tx = base.tx

\* Another signature with the same key takes the place of the first.
Merged(base, fragment) ==
    LET kept(c) == {s \in base.sigs[c] : \A t \in fragment.sigs[c] : t.key # s.key}
    IN  [base EXCEPT !.sigs = [c \in DOMAIN @ |-> kept(c) \cup fragment.sigs[c]]]

Finalizable(psbt) == \A c \in DOMAIN psbt.sigs : Cardinality(psbt.sigs[c]) = 1
==============================================================================
