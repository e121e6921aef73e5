--------------------------- MODULE BatchAgreement ---------------------------
(***************************************************************************)
(* What a batch promises, with no messages, phases, deadlines or bans:     *)
(* one proposal of what the transaction takes from and pays for each       *)
(* member, signatures of members on exactly that proposal, and a           *)
(* transaction that lands once every member has signed and the members are *)
(* enough.                                                                 *)
(***************************************************************************)
EXTENDS Naturals, FiniteSets

CONSTANTS Participants, Plans, NoPlan, MinParticipants, MaxParticipants

VARIABLES
    template,   \* what the transaction contains of each participant
    signed,     \* which participants have signed it
    landed      \* the transaction is on the network

vars == <<template, signed, landed>>

Members == {p \in Participants : template[p] # NoPlan}

Init ==
    /\ template = [p \in Participants |-> NoPlan]
    /\ signed = [p \in Participants |-> FALSE]
    /\ landed = FALSE

Propose ==
    /\ Members = {}
    /\ template' \in [Participants -> Plans \cup {NoPlan}]
    /\ Cardinality(Members') <= MaxParticipants
    /\ UNCHANGED <<signed, landed>>

Sign(p) ==
    /\ p \in Members
    /\ signed' = [signed EXCEPT ![p] = TRUE]
    /\ UNCHANGED <<template, landed>>

Land ==
    /\ Cardinality(Members) >= MinParticipants
    /\ \A p \in Members : signed[p]
    /\ landed' = TRUE
    /\ UNCHANGED <<template, signed>>

Next == Propose \/ (\E p \in Participants : Sign(p)) \/ Land

Spec == Init /\ [][Next]_vars
=============================================================================
