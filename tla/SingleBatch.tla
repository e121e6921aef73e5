----------------------------- MODULE SingleBatch -----------------------------
(***************************************************************************)
(* One batch of the single-batch coordinator, run of                       *)
(* coordinator/src/coordinator.rs, composed with its participants.         *)
(*                                                                         *)
(* The coordinator moves from phase to phase when a phase is complete or   *)
(* its deadline passes.                                                    *)
(***************************************************************************)
EXTENDS CoordinatorPeers

CONSTANTS
    Batch,              \* the one intent
    Offenders           \* those the loaded ban list still bans

ASSUME BatchAssumption == Intents = {Batch}

VARIABLES
    cpc,            \* the phase
    commitments,    \* what each participant has committed to
    landed          \* the transaction has reached the network

cvars == <<cpc, commitments, reveals, template, fragments, bans, known, inbox,
           reading, landed>>
vars == <<pvars, cvars>>

Collecting == {"commit", "reveal", "sign"}
Closed == {"done", "failed"}
Phases == Collecting \cup Closed \cup
          {"request", "validate", "build", "broadcast", "notify", "clear"}

TypeOK ==
    /\ PeersTypeOK
    /\ cpc \in Phases
    /\ commitments \in Contents
    /\ landed \in BOOLEAN

Init ==
    /\ PeersInit
    /\ cpc = "commit"
    /\ commitments = NoContents
    /\ bans = [p \in Participants |->
                IF p \in Offenders THEN TemporaryBan(0, 1, "FailedToReveal")
                                   ELSE NoBan]
    /\ landed = FALSE

------------------------------------------------------------------------------
\* A collecting loop polls until its phase is complete.
CPoll ==
    /\ \/ cpc = "commit"
       \/ cpc = "reveal" /\ Members(reveals) # Members(commitments)
       \/ cpc = "sign" /\ Signers # Members(reveals)
    /\ Poll
    /\ UNCHANGED <<ppc, plan, joined, attempts, runs, signed, toPart, cpc,
                   commitments, reveals, template, fragments, bans, known,
                   reading, landed>>

\* Seeded fault for Relevant: the ban list is not consulted.
RelevantFromAnyone(p) ==
    \/ cpc = "commit" /\ Current(p).type = "GetCurrentIntent"
    \/ cpc = "commit" /\ Current(p).type = "Commitment" /\ commitments[p] = NoPlan
    \/ cpc = "reveal" /\ Current(p).type = "Reveal"
    \/ cpc = "sign" /\ Current(p).type = "SigFragment" /\ reveals[p] # NoPlan

\* Messages that change something in the current phase; the others, and all
\* messages of a banned sender, are skipped.
Relevant(p) ==
    /\ ~IsBanned(bans[p], 0)
    /\ \/ cpc = "commit" /\ Current(p).type = "GetCurrentIntent"
       \/ cpc = "commit" /\ Current(p).type = "Commitment" /\ commitments[p] = NoPlan
       \/ cpc = "reveal" /\ Current(p).type = "Reveal"
       \/ cpc = "sign" /\ Current(p).type = "SigFragment" /\ reveals[p] # NoPlan

CSkip(p) ==
    /\ Offered(p) /\ cpc \in Collecting /\ ~Relevant(p)
    /\ Take(p)
    /\ UNCHANGED <<pvars, cpc, commitments, reveals, template, fragments, bans,
                   known, landed>>

\* Phase 1.  The first commitment of a sender counts; at the maximum the phase
\* ends at once.
CCommitment(p) ==
    /\ Offered(p) /\ Relevant(p)
    /\ Current(p).type = "Commitment"
    /\ commitments' = [commitments EXCEPT ![p] = Current(p).plan]
    /\ IF Cardinality(Members(commitments')) >= MaxParticipants
       THEN cpc' = "request" /\ DropInbox
       ELSE UNCHANGED cpc /\ Take(p)
    /\ UNCHANGED <<pvars, reveals, template, fragments, bans, known, landed>>

CAnswer(p) ==
    /\ Offered(p) /\ Relevant(p)
    /\ Current(p).type = "GetCurrentIntent"
    /\ Take(p)
    /\ SendAll({p}, CurrentIntent(Batch))
    /\ UNCHANGED <<ppc, plan, joined, attempts, runs, signed, toCoord, cpc,
                   commitments, reveals, template, fragments, bans, known, landed>>

\* The deadline is looked at between two polls.
CCommitDeadline ==
    /\ cpc = "commit"
    /\ inbox = EmptyInbox
    /\ IF Cardinality(Members(commitments)) >= MinParticipants
       THEN cpc' = "request" /\ UNCHANGED toPart
       ELSE cpc' = "failed" /\ SendAll(Members(commitments), Reject(Batch))
    /\ UNCHANGED <<ppc, plan, joined, attempts, runs, signed, toCoord,
                   commitments, reveals, template, fragments, bans, known,
                   inbox, reading, landed>>

CRequestReveals ==
    /\ cpc = "request"
    /\ cpc' = "reveal"
    /\ SendAll(Members(commitments), RequestReveal(Batch, Members(commitments)))
    /\ UNCHANGED <<ppc, plan, joined, attempts, runs, signed, toCoord,
                   commitments, reveals, template, fragments, bans, known,
                   inbox, reading, landed>>

\* Phase 2.  A reveal that opens the sender's commitment is kept, ...
CReveal(p) ==
    /\ Offered(p) /\ Relevant(p)
    /\ Current(p).type = "Reveal"
    /\ Opens(p, commitments[p])
    /\ KeepReveal(p)
    /\ Take(p)
    /\ UNCHANGED <<pvars, cpc, commitments, template, fragments, bans, known,
                   landed>>

\* ... one that does not is an offense, and is rejected, and so is the reveal of
\* a sender without a commitment, which is no offense.
CBadReveal(p) ==
    /\ Offered(p) /\ Relevant(p)
    /\ Current(p).type = "Reveal"
    /\ ~Opens(p, commitments[p])
    /\ Punish({p} \cap Members(commitments), "InvalidCommitment")
    /\ SendAll({p}, Reject(Batch))
    /\ Take(p)
    /\ UNCHANGED <<ppc, plan, joined, attempts, runs, signed, toCoord, cpc,
                   commitments, reveals, template, fragments, landed>>

\* Seeded fault for AfterReveals: with too few reveals the phase starts again.
RevealAgain == cpc' = IF EnoughReveals THEN "validate" ELSE "reveal"

\* With too few reveals the batch fails, and nobody is told.
AfterReveals == cpc' = IF EnoughReveals THEN "validate" ELSE "failed"

CRevealsComplete ==
    /\ cpc = "reveal"
    /\ inbox = EmptyInbox
    /\ Members(reveals) = Members(commitments)
    /\ AfterReveals
    /\ UNCHANGED <<pvars, commitments, reveals, template, fragments, bans, known,
                   inbox, reading, landed>>

\* The timeout strikes at any await, so fetched messages may be lost.
CRevealTimeout ==
    /\ cpc = "reveal"
    /\ inbox # EmptyInbox \/ Members(reveals) # Members(commitments)
    /\ Punish(Members(commitments) \ Members(reveals), "FailedToReveal")
    /\ DropInbox
    /\ AfterReveals
    /\ UNCHANGED <<pvars, commitments, reveals, template, fragments, landed>>

------------------------------------------------------------------------------
\* A reveal that is underfunded or has an input without history is an offense; one
\* with another defect, or whose lookup fails, is not, but is removed all the same.
CValidate ==
    /\ cpc = "validate"
    /\ \E verdict \in [Members(reveals) -> Verdicts] :
        LET absent == {p \in Members(reveals) : verdict[p] = "absent"}
            offense == [p \in Poor \cup absent |->
                        IF p \in absent THEN "FakeUtxo" ELSE "InsufficientFunds"]
        IN  /\ bans' = [p \in Participants |->
                          IF p \in DOMAIN offense THEN PermanentBan(offense[p])
                                                  ELSE bans[p]]
            /\ \E unfollowed \in SUBSET DOMAIN offense :
                /\ unfollowed = DOMAIN offense \/ May("erase")
                /\ known' = known \ unfollowed
            /\ RemoveInvalid(verdict, Batch)
    /\ cpc' = "build"
    /\ UNCHANGED <<ppc, plan, joined, attempts, runs, signed, toCoord,
                   commitments, template, fragments, inbox, reading, landed>>

CBuild ==
    /\ cpc = "build"
    /\ cpc' = "sign"
    /\ Propose(Batch)
    /\ UNCHANGED <<ppc, plan, joined, attempts, runs, signed, toCoord,
                   commitments, reveals, fragments, bans, known, inbox, reading,
                   landed>>

CBuildFails ==
    /\ cpc = "build"
    /\ BuildMayFail
    /\ cpc' = "failed"
    /\ UNCHANGED <<pvars, commitments, reveals, template, fragments, bans, known,
                   inbox, reading, landed>>

\* Phase 3.
CFragment(p) ==
    /\ Offered(p) /\ Relevant(p)
    /\ Current(p).type = "SigFragment"
    /\ KeepFragment(p)
    /\ Take(p)
    /\ UNCHANGED <<pvars, cpc, commitments, reveals, template, bans, known, landed>>

\* Seeded faults for EnoughFragments: it only looks whether there are any, or
\* asks for one too many.
AnyFragments == Signers # {}
MoreFragments == Cardinality(Signers) > MinParticipants

EnoughFragments == Cardinality(Signers) >= MinParticipants
AfterFragments ==
    cpc' = IF EnoughFragments /\ AllSigned THEN "broadcast" ELSE "failed"

CFragmentsComplete ==
    /\ cpc = "sign"
    /\ inbox = EmptyInbox
    /\ Signers = Members(reveals)
    /\ AfterFragments
    /\ UNCHANGED <<pvars, commitments, reveals, template, fragments, bans, known,
                   inbox, reading, landed>>

CFragmentTimeout ==
    /\ cpc = "sign"
    /\ inbox # EmptyInbox \/ Signers # Members(reveals)
    /\ Punish(Members(reveals) \ Signers, "FailedToSign")
    /\ DropInbox
    /\ AfterFragments
    /\ UNCHANGED <<pvars, commitments, reveals, template, fragments, landed>>

CBroadcast ==
    /\ cpc = "broadcast"
    /\ cpc' = "notify"
    /\ landed' = TRUE
    /\ UNCHANGED <<pvars, commitments, reveals, template, fragments, bans, known,
                   inbox, reading>>

\* Seeded fault for AfterRefusal: the error is logged and the batch goes on.
RefusalIgnored == "notify"
AfterRefusal == "failed"

\* The server refuses the transaction, or takes it and its answer is lost.
CBroadcastFails ==
    /\ May("broadcast")
    /\ cpc = "broadcast"
    /\ cpc' = AfterRefusal
    /\ landed' \in BOOLEAN
    /\ UNCHANGED <<pvars, commitments, reveals, template, fragments, bans, known,
                   inbox, reading>>

CNotify ==
    /\ cpc = "notify"
    /\ cpc' = "clear"
    /\ SendAll(Members(reveals), FinalTx(Batch))
    /\ UNCHANGED <<ppc, plan, joined, attempts, runs, signed, toCoord,
                   commitments, reveals, template, fragments, bans, known,
                   inbox, reading, landed>>

CClear ==
    /\ cpc = "clear"
    /\ cpc' = "done"
    /\ Clear(Members(reveals))
    /\ UNCHANGED <<ppc, plan, joined, attempts, runs, signed, commitments,
                   reveals, template, fragments, bans, known, inbox, reading,
                   landed>>

CCrash ==
    /\ May("crash")
    /\ cpc \notin Closed
    /\ cpc' = "failed"
    /\ DropInbox
    /\ UNCHANGED <<pvars, commitments, reveals, template, fragments, bans, known,
                   landed>>

------------------------------------------------------------------------------
\* Nothing is on its way: everyone waits for somebody else, or has stopped.
AtRest ==
    /\ inbox = EmptyInbox
    /\ cpc \in Collecting \cup Closed
    /\ \A p \in Participants :
        /\ ppc[p] \in DOMAIN Awaited \cup Ended
        /\ Waiting(p) => News(p) = <<>>
        /\ cpc \in Closed \/ p \notin known \/ Unread(toCoord[p]) = <<>>

\* All that p sent has been handled, and it has no answer.
Ignored(p) == Unread(toCoord[p]) = <<>> /\ inbox[p] = <<>> /\ News(p) = <<>>

\* Seeded fault for CDeadline: deadlines shorter than a message takes.
ShortDeadline == CCommitDeadline \/ CRevealTimeout \/ CFragmentTimeout

\* Without the fault "slow" every message arrives long before a deadline, and a
\* participant outwaits the coordinator: its wait for a template is a minute
\* longer than the two deadlines, and its wait for the request starts later.
CDeadline ==
    /\ May("slow") \/ AtRest
    /\ CCommitDeadline \/ CRevealTimeout \/ CFragmentTimeout

\* A query and a signature wait for a minute, whatever the phase: once what was sent
\* is handled and has no answer.
PDeadline(p) ==
    /\ \/ May("slow") \/ May("link")
       \/ AtRest /\ cpc \in Closed
       \/ ppc[p] \in {"awaitIntent", "awaitFinal"} /\ Ignored(p)
    /\ PGiveUp(p)

CMessage(p) ==
    \/ CSkip(p) \/ CCommitment(p) \/ CAnswer(p) \/ CReveal(p) \/ CBadReveal(p)
    \/ CFragment(p)

Coordinator ==
    \/ CPoll \/ (\E p \in Participants : CMessage(p)) \/ CDeadline
    \/ CRequestReveals \/ CRevealsComplete \/ CValidate \/ CBuild \/ CBuildFails
    \/ CFragmentsComplete \/ CBroadcast \/ CBroadcastFails \/ CNotify \/ CClear

ParticipantRuns(p) == (PStep(p) \/ PDeadline(p)) /\ UNCHANGED cvars
ParticipantStarts(p) == (PLaunch(p) \/ PCrash(p)) /\ UNCHANGED cvars

Finished ==
    /\ cpc \in Closed
    /\ \A p \in Participants : ppc[p] \in {"off"} \cup Ended
    /\ UNCHANGED vars

Next ==
    \/ Coordinator \/ CCrash
    \/ \E p \in Participants : ParticipantRuns(p) \/ ParticipantStarts(p)
    \/ Finished

Spec == Init /\ [][Next]_vars

\* The coordinator's loops and each participant's loop keep running, and every
\* participant is started; nobody has to crash, and nobody is started again.
Fairness ==
    /\ WF_vars(Coordinator)
    /\ \A p \in Participants :
        /\ WF_vars(ParticipantRuns(p))
        /\ WF_vars(ppc[p] = "off" /\ ParticipantStarts(p))

FairSpec == Spec /\ Fairness

------------------------------------------------------------------------------
\* Whatever is lost, late or restarted, a transaction reaches the network only
\* if every participant it spends from has itself signed, for this batch, all
\* its inputs of exactly this transaction.
AuthorizedSpend ==
    landed => \A p \in Members(template) : <<Batch, template>> \in signed[p]

\* A transaction that reaches the network joins at least the minimum and at most
\* the maximum number of participants, although reveals are removed after the
\* last time the coordinator counts them.
QuorumSpend ==
    landed => Cardinality(Members(template)) \in MinParticipants..MaxParticipants

\* Through restarts and second commitments, what is revealed and what goes into
\* the template is what the participant committed to first.
TemplateAsCommitted ==
    /\ \A p \in Members(reveals) : reveals[p] = commitments[p]
    /\ \A p \in Members(template) : template[p] = commitments[p]

\* A participant reports success only if a transaction with all that its present
\* plan asks for has reached the network.
SuccessMeansLanded ==
    \A p \in Participants :
        ppc[p] = "ok" => landed /\ Includes(template[p], plan[p]) /\ plan[p] # NoPlan

\* No transaction with a participant that is banned is sent.  One that offends after
\* its reveal was accepted stays in the template; its signature is then ignored, and
\* the batch fails.
MembersInGoodStanding ==
    cpc \in {"broadcast", "notify", "clear", "done"} \/ landed =>
        \A p \in Members(template) : ~IsBanned(bans[p], 0)

\* The permanent bans hit those they are meant for: only a client that skips the
\* local validation and has committed to more than it can pay is banned for lack of
\* funds, and only one that was started more than once for a reveal that does not open
\* its commitment.
PermanentBansDeserved ==
    \A p \in Participants :
        /\ bans[p].offense = "InsufficientFunds" =>
            p \in Bypassing /\ commitments[p] \in Underfunded
        /\ bans[p].offense = "InvalidCommitment" => runs[p] > 1

\* Without a fault nobody is punished, not even a participant that came too late
\* for the batch or found it full.
NobodyPunished ==
    Faults = {} => \A p \in Participants \ Offenders : bans[p] = NoBan

\* Through every interleaving, loss and restart, the batch does what the abstract
\* BatchAgreement promises: one template, signatures of members on their own part
\* of it, and a transaction that lands only with all of them.
Agreement == INSTANCE BatchAgreement WITH
         template <- template,
         signed <- [p \in Participants |-> <<Batch, template>> \in signed[p]],
         landed <- landed
AgreementSpec == Agreement!Spec

\* The coordinator comes to an end and so does every participant that was started,
\* whatever fails: no wait of either side is without a deadline.
EverybodyStops ==
    <>[](cpc \in Closed /\ \A p \in Participants : ppc[p] \in Ended)

\* Without faults, and with enough participants that are not banned, the
\* transaction reaches the network, whoever comes first.
BatchLands == <>landed

\* coordinator.rs:667 sends FinalTx to all participants: one that still waits for
\* it when the coordinator is done can still read it.
FinalTxReadable ==
    cpc = "done" =>
        \A p \in Members(template) :
            ppc[p] = "awaitFinal" => \E i \in DOMAIN News(p) : News(p)[i] = FinalTx(Batch)
==============================================================================
