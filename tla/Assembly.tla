------------------------------- MODULE Assembly -------------------------------
(***************************************************************************)
(* From the reveals of a batch to its final transaction, with amounts: the *)
(* part of run (coordinator.rs) and process_batch (coordinator_v2.rs) that *)
(* SingleBatch and RollingBatches abstract to plans, verdicts and faults.  *)
(* The rolling coordinator may take a batch through all of it again, and   *)
(* signatures of the first round may still be on their way then.           *)
(***************************************************************************)
EXTENDS Assembler

CONSTANTS
    Participants,
    Rates,          \* fee rates, in sat per vbyte
    Shapes,         \* what reveals may look like
    Proposal(_, _, _),  \* the reveal of a participant, given the terms and its shape
    Wallets,        \* by participant, the coins whose keys its wallet may find
    MaxRounds       \* bound: how often the batch is assembled

Terms == [rate : Rates, allowChange : BOOLEAN]

ASSUME RoundAssumption == MaxRounds \in Nat /\ Rates \subseteq Nat \ {0}
ASSUME FinitelyMany == IsFiniteSet(Participants)
ASSUME ProposalAssumption ==
    \A a \in Terms, p \in Participants, shape \in Shapes : IsReveal(Proposal(a, p, shape))
\* The key of a coin is in one wallet at most.
ASSUME WalletAssumption ==
    \A w \in Wallets :
        /\ DOMAIN w = Participants
        /\ \A p, q \in Participants : p # q => w[p] \cap w[q] = {}

VARIABLES
    asm,        \* the assembler, with the terms of the batch
    wallet,     \* the coins each participant finds the key of
    stage,
    reveals,    \* by participant
    shares,     \* what each of them pays of the fee
    psbt,       \* the template, and what is merged into it
    sent,       \* the fragments each participant has sent
    unmerged,   \* those whose fragment is still to be merged
    refused,    \* those that have turned the template down
    rounds

vars == <<asm, wallet, stage, reveals, shares, psbt, sent, unmerged, refused, rounds>>

Nothing == [tx |-> [spends |-> {}, pays |-> <<>>], sigs |-> <<>>]
NoShares == <<>>

Init ==
    /\ asm \in Terms
    /\ stage = "validate"
    /\ \E shape \in [Participants -> Shapes] :
        reveals = [p \in Participants |-> Proposal(asm, p, shape[p])]
    /\ wallet \in Wallets
    /\ shares = NoShares
    /\ psbt = Nothing
    /\ sent = [p \in Participants |-> {}]
    /\ unmerged = {}
    /\ refused = {}
    /\ rounds = 1

\* Reveals that are not valid are removed.
Validate ==
    /\ stage = "validate"
    /\ stage' = "build"
    /\ reveals' = [p \in {q \in DOMAIN reveals : Valid(asm, reveals[q])} |-> reveals[p]]
    /\ UNCHANGED <<asm, wallet, shares, psbt, sent, unmerged, refused, rounds>>

\* build_transaction and build_template
Build ==
    /\ stage = "build"
    /\ ~Clashing(reveals)
    /\ shares' \in Shares(asm, reveals)
    /\ Short(reveals, shares') = {} /\ ~Underfed(asm, reveals)
    /\ psbt' = Unsigned(Transaction(asm, reveals, shares'))
    /\ stage' = "sign"
    /\ UNCHANGED <<asm, wallet, reveals, sent, unmerged, refused, rounds>>

BuildFails ==
    /\ stage = "build"
    /\ \/ Clashing(reveals)
       \/ \E f \in Shares(asm, reveals) : Short(reveals, f) # {}
       \/ Underfed(asm, reveals)
    /\ stage' = "unbuilt"
    /\ UNCHANGED <<asm, wallet, reveals, shares, psbt, sent, unmerged, refused, rounds>>

\* Everyone checks the template and signs each input its wallet finds a key of, also
\* one that somebody else has revealed and not one of its own without such a key; a
\* fragment without any signature is not sent.  Bound: one fragment at most comes too
\* late to be merged.
Sign ==
    /\ stage = "sign"
    /\ refused' = {p \in DOMAIN reveals : ~Verified(reveals[p], psbt.tx)}
    /\ sent' = [p \in Participants |->
            IF p \in DOMAIN reveals \ refused' /\ psbt.tx.spends \cap wallet[p] # {}
            THEN sent[p] \cup {SignedBy(p, psbt.tx, wallet[p])}
            ELSE sent[p]]
    /\ \E late \in SUBSET DOMAIN reveals :
        /\ Cardinality(late) <= 1
        /\ unmerged' = {p \in DOMAIN reveals : sent'[p] # {}} \ late
    /\ stage' = "merge"
    /\ UNCHANGED <<asm, wallet, reveals, shares, psbt, rounds>>

\* One fragment of each participant is merged, in no particular order; it may be
\* one that it has sent in an earlier round.
Merge(p) ==
    /\ stage = "merge" /\ p \in unmerged
    /\ \E fragment \in sent[p] :
        IF Mergeable(psbt, fragment)
        THEN psbt' = Merged(psbt, fragment) /\ UNCHANGED stage
        ELSE stage' = "failed" /\ UNCHANGED psbt
    /\ unmerged' = unmerged \ {p}
    /\ UNCHANGED <<asm, wallet, reveals, shares, sent, refused, rounds>>

Finalize ==
    /\ stage = "merge" /\ unmerged = {}
    /\ stage' = IF Finalizable(psbt) THEN "final" ELSE "failed"
    /\ UNCHANGED <<asm, wallet, reveals, shares, psbt, sent, unmerged, refused, rounds>>

\* The batch is processed again, with the same reveals.
Again ==
    /\ stage = "failed" /\ rounds < MaxRounds
    /\ stage' = "build"
    /\ rounds' = rounds + 1
    /\ shares' = NoShares /\ psbt' = Nothing /\ unmerged' = {} /\ refused' = {}
    /\ UNCHANGED <<asm, wallet, reveals, sent>>

Next ==
    \/ Validate \/ Build \/ BuildFails \/ Sign
    \/ (\E p \in Participants : Merge(p)) \/ Finalize \/ Again

Spec == Init /\ [][Next]_vars

------------------------------------------------------------------------------
Built == shares # NoShares
Dropped(p) ==
    Built /\ HasChange(reveals[p]) /\ Margin(reveals[p]) - shares[p] < Dust

\* The outputs leave at least the promised fee to the miners, and no more than that
\* and what participants without a change address give away, but for dust.
FeesCovered ==
    Built =>
        LET paid == SumFunction([o \in DOMAIN psbt.tx.pays |->
                                    o.amount * psbt.tx.pays[o]])
            left == Over(reveals, InputSum) - paid
            given(p) == IF HasChange(reveals[p]) THEN Dust - 1
                        ELSE Margin(reveals[p]) - shares[p]
        IN  /\ left >= TotalFee(asm, reveals)
            /\ left <= TotalFee(asm, reveals) + 
                SumFunction([p \in DOMAIN reveals |-> given(p)])

\* The shares add up to the fee, and truncation and remainder together shift no
\* share, not even that of the last participant, by more than a sat for each.
SharesFair ==
    Built =>
        LET n == Cardinality(DOMAIN reveals)
            fee == TotalFee(asm, reveals)
            whole == TotalWeight(reveals)
        IN  /\ SumFunction(shares) = fee
            /\ \A p \in DOMAIN reveals :
                LET exact == Weight(reveals[p]) * fee
                IN  /\ shares[p] * whole <= exact + n * whole
                    /\ shares[p] * whole >= exact - whole

\* Validated reveals that share no coin make a transaction, unless someone's funds
\* do not cover, beyond the estimate, the part of the overhead and of the change
\* outputs reserved for those that have none.
ValidatedBuilds ==
    stage = "unbuilt" /\ DOMAIN reveals # {} /\ ~Clashing(reveals) =>
        LET unclaimed == Cardinality({p \in DOMAIN reveals :
                                        asm.allowChange /\ ~HasChange(reveals[p])})
            slack == asm.rate * (13 + 31 * unclaimed) + Cardinality(DOMAIN reveals)
        IN  \E p \in DOMAIN reveals :
                Margin(reveals[p]) < Estimate(asm, reveals[p]) + slack

\* An honest participant turns down an honest template only if its share has turned
\* its change into dust: it then also accepts every change that is worth an output.
RefusedOnlyForDust ==
    stage \in {"merge", "final"} => \A p \in refused : Dropped(p)

\* What verify_template says of change that is not in the template: it is fine if the
\* amount would be below the dust limit.
DustMayBeOmitted ==
    stage = "merge" => \A p \in DOMAIN reveals : Dropped(p) => p \notin refused

\* In whatever order the fragments are merged, and though one that was late in the
\* first round, when the shares were rounded differently, may be among them: each
\* input of a final transaction has exactly one signature, for this transaction, of
\* a participant that has found its own inputs, payments and change in it.
FinalSigned ==
    stage = "final" =>
        \A c \in psbt.tx.spends :
            \E p \in DOMAIN reveals \ refused :
                c \in wallet[p] /\ psbt.sigs[c] = {[key |-> p, tx |-> psbt.tx]}
==============================================================================
