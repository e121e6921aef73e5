----------------------------- MODULE MCAssembly -----------------------------
(* Reveals at the edges: with and without change, with a second input or not, *)
(* with a coin of somebody else, or with funds around the dust limit.         *)
EXTENDS Assembly, TLC

CONSTANTS p1, p2, p3

Shape(second, change, amount, spare) ==
    [second |-> second, change |-> change, amount |-> amount, spare |-> spare]

\* The reveal of p with one input or two, one payment and possibly change.  Its
\* funds exceed the payment and the estimated fee by shape.spare.
Second(p, kind) ==
    CASE kind = "own" -> <<p, 2>> [] kind = "twice" -> <<p, 1>>
      [] kind = "shared" -> <<"shared", 1>>
MCProposal(a, p, shape) ==
    LET second == IF shape.second = "none" THEN <<>>
                  ELSE <<[coin |-> Second(p, shape.second), value |-> 700]>>
        draft(value) ==
            [inputs |-> <<[coin |-> <<p, 1>>, value |-> value]>> \o second,
             payments |-> <<[to |-> "shop", amount |-> shape.amount]>>,
             change |-> IF shape.change = "own" THEN p ELSE shape.change]
        missing == Estimate(a, draft(0)) - Margin(draft(0))
    IN  draft(missing + shape.spare)

MCShapes ==
    {Shape(second, change, 546, spare) :
        second \in {"none", "own"}, change \in {NoAddress, "own"},
        spare \in {0, 546, 558, 1500}}
    \cup {Shape("shared", "own", 546, 1500), Shape("twice", "own", 546, 1500),
          Shape("none", "own", 545, 1500), Shape("none", "shop", 546, 546),
          Shape("none", "own", 546, 545), Shape("none", NoAddress, 546, -1)}

\* Everyone finds the keys of its own coins, or only those of second coins, or one
\* participant finds those of all second coins and of the shared one.
MCWallets ==
    {[p \in Participants |-> {<<p, i>> : i \in own}] : own \in {{1, 2}, {2}}}
    \cup {[p \in Participants |-> {<<p, 1>>} \cup
            IF p = finder THEN {<<q, 2>> : q \in Participants} \cup {<<"shared", 1>>}
            ELSE {}] : finder \in Participants}

Interchangeable == Permutations(Participants)
=============================================================================
