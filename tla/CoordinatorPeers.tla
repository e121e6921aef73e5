--------------------------- MODULE CoordinatorPeers ---------------------------
(***************************************************************************)
(* What the single-batch coordinator (coordinator.rs) and the rolling one  *)
(* (coordinator_v2.rs) have in common: the peers they poll, the messages   *)
(* they have fetched and not yet handled, the ban list, and the reveals,   *)
(* template and signature fragments of the batch in progress.              *)
(*                                                                         *)
(* Both handle what they have fetched one message at a time, peer by peer. *)
(* The first ban lasts an hour, so no ban expires within a behaviour and   *)
(* the clock stands at 0; what goes on inside record_offense is the        *)
(* subject of BanManager.                                                  *)
(***************************************************************************)
EXTENDS Participant, BanPolicy

CONSTANTS MinParticipants, MaxParticipants

ASSUME QuorumAssumption ==
    MinParticipants \in Nat \ {0} /\ MaxParticipants \in Nat \ {0}

VARIABLES
    reveals,        \* what each participant has validly revealed
    template,       \* the contents of the transaction template
    fragments,      \* the signature fragment of each participant
    bans,           \* the ban list
    known,          \* the peers that are polled
    inbox,          \* fetched and not yet handled, by sender
    reading         \* the sender whose messages are being handled

Nobody == "nobody"
ASSUME NobodyAssumption == Nobody \notin Participants

\* Those of whom f knows something.
Members(f) == {p \in Participants : f[p] # NoPlan}
Signers == {p \in Participants : fragments[p] # "none"}

NoFragments == [p \in Participants |-> "none"]
EmptyInbox == [p \in Participants |-> <<>>]

PeersTypeOK ==
    /\ ParticipantTypeOK
    /\ reveals \in Contents
    /\ template \in Contents
    /\ fragments \in [Participants -> {"none", "partial", "full", "foreign"}]
    /\ bans \in [Participants -> BanEntries]
    /\ known \in SUBSET Participants
    /\ inbox \in [Participants -> Seq(Outgoing)]
    /\ reading \in Participants \cup {Nobody}

PeersInit ==
    /\ ParticipantInit
    /\ reveals = NoContents
    /\ template = NoContents
    /\ fragments = NoFragments
    /\ known = Participants
    /\ inbox = EmptyInbox
    /\ reading = Nobody

------------------------------------------------------------------------------
\* send_dm to each of S in turn; a send that fails is only logged.
SendAll(S, message) ==
    \E delivered \in SUBSET S :
        /\ delivered = S \/ May("link")
        /\ toPart' = [p \in Participants |->
                        IF p \in delivered THEN Post(toPart[p], message)
                                           ELSE toPart[p]]

Sentenced(p, offense) == Recorded(bans[p], offense, 0)

\* record_offense for each of S, and unfollow for those banned for good.
Punish(S, offense) ==
    /\ bans' = [p \in Participants |->
                 IF p \in S THEN Sentenced(p, offense) ELSE bans[p]]
    /\ \E unfollowed \in
            SUBSET {p \in S : Sentenced(p, offense).kind = "permanent"} :
        /\ \/ unfollowed = {p \in S : Sentenced(p, offense).kind = "permanent"}
           \/ May("erase")
        /\ known' = known \ unfollowed

\* clear_messages_with_peer for each of S.
Clear(S) ==
    \E cleared \in SUBSET S :
        /\ cleared = S \/ May("erase")
        /\ toPart' = [p \in Participants |->
                        IF p \in cleared THEN Erased(toPart[p]) ELSE toPart[p]]
        /\ toCoord' = [p \in Participants |->
                        IF p \in cleared THEN Forgotten(toCoord[p])
                                         ELSE toCoord[p]]

\* receive_all: every known peer is polled; a peer that cannot be reached, or
\* whose answer came before its last message, is left for the next poll.
Poll ==
    /\ inbox = EmptyInbox
    /\ \E reached \in SUBSET known :
        /\ reached = known \/ May("link")
        /\ \E p \in reached : Unread(toCoord[p]) # <<>>
        /\ inbox' = [p \in Participants |->
                        IF p \in reached THEN Unread(toCoord[p]) ELSE <<>>]
        /\ toCoord' = [p \in Participants |->
                        IF p \in reached THEN Fetched(toCoord[p])
                                         ELSE toCoord[p]]

\* The next fetched message is p's, and it is taken.
Current(p) == Head(inbox[p])
Offered(p) == inbox[p] # <<>> /\ reading \in {p, Nobody}
Take(p) ==
    /\ inbox' = [inbox EXCEPT ![p] = Tail(@)]
    /\ reading' = IF Len(inbox[p]) = 1 THEN Nobody ELSE p

\* Fetched messages that are dropped, and nobody will see again.
DropInbox == inbox' = EmptyInbox /\ reading' = Nobody

------------------------------------------------------------------------------
\* Seeded fault for Opens: any reveal of a committed participant is accepted.
OpensAnything(p, promised) == promised # NoPlan

\* verify_commitment
Opens(p, promised) == promised # NoPlan /\ Current(p).plan = promised

\* The first valid reveal of a sender is kept.
KeepReveal(p) ==
    reveals' = [reveals EXCEPT ![p] = IF @ = NoPlan THEN Current(p).plan ELSE @]

\* Seeded faults for EnoughReveals: it only looks whether there are any, or asks
\* for one too many.
AnyReveals == Members(reveals) # {}
OneRevealMore == Cardinality(Members(reveals)) > MinParticipants

EnoughReveals == Cardinality(Members(reveals)) >= MinParticipants

\* validate_reveal and the lookup of every input on the chain: found, absent, or
\* not verified because the lookup fails.
Verdicts == IF May("utxo") THEN {"found", "absent", "unverified"} ELSE {"found"}
Poor == {p \in Members(reveals) : reveals[p] \in Underfunded}
Unfit == {p \in Members(reveals) : reveals[p] \in Malformed}

Invalid(verdict) ==
    Poor \cup Unfit \cup {p \in DOMAIN verdict : verdict[p] # "found"}

\* Invalid reveals are removed and rejected; the quorum is not counted again.
RemoveInvalid(verdict, i) ==
    /\ reveals' = [p \in Participants |->
                    IF p \in Invalid(verdict) THEN NoPlan ELSE reveals[p]]
    /\ SendAll(Invalid(verdict), Reject(i))

\* build_transaction and build_template, and the template to everyone in it.
\* Of no reveals at all no transaction can be built.
Propose(i) ==
    /\ Members(reveals) # {}
    /\ template' = reveals
    /\ SendAll(Members(reveals), Template(i, reveals))

\* One shared input, or one participant short of its fee share, fails them all.
BuildMayFail == Members(reveals) = {} \/ May("build")

\* The last fragment of a participant counts; merge_fragments refuses one that
\* signs another transaction than the template.
KeepFragment(p) ==
    fragments' = [fragments EXCEPT ![p] =
        IF Current(p).contents # template THEN "foreign"
        ELSE IF Current(p).complete THEN "full" ELSE "partial"]

\* Seeded faults for AllSigned: a fragment is taken for the signatures it should
\* contain, or those who have sent none are left out.
AllAnswered == \A p \in Members(template) : fragments[p] # "none"
AnswersComplete == \A p \in Signers : fragments[p] = "full"

\* merge_fragments and finalize: every input of the template needs its signature.
AllSigned == \A p \in Members(template) : fragments[p] = "full"
==============================================================================
