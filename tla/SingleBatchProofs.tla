-------------------------- MODULE SingleBatchProofs --------------------------
(***************************************************************************)
(* Theorems about SingleBatch, for any participants, plans, faults and     *)
(* limits: its types, reveals that stay what was committed to, that the    *)
(* transaction spends only what its owners have signed and joins enough of *)
(* them, that the batch implements BatchAgreement, what a participant's    *)
(* success means, whom the bans hit, and whom they do not.                 *)
(***************************************************************************)
EXTENDS SingleBatch, CoordinatorPeersProofs, FiniteSetTheorems

BatchTypeInv == TypeOK /\ (\A p \in Participants : Prepared(p))

LEMMA IntentsTyped == Batch \in Intents
  BY BatchAssumption

LEMMA PeersOfBatch == BatchTypeInv => PeersInv
  BY DEF BatchTypeInv, TypeOK, PeersInv

\* What the check on the chain removes, and whom it bans.
LEMMA ValidateTyped ==
    ASSUME TypeOK, CValidate
    PROVE  /\ bans' \in [Participants -> BanEntries]
           /\ known' \in SUBSET Participants
           /\ reveals' \in Contents
           /\ \A p \in Participants : reveals'[p] \in {reveals[p], NoPlan}
           /\ toPart' \in [Participants -> Halves(Incoming)]
  <1>1. PICK verdict \in [Members(reveals) -> Verdicts] :
            LET absent == {p \in Members(reveals) : verdict[p] = "absent"}
                offense == [p \in Poor \cup absent |->
                            IF p \in absent THEN "FakeUtxo" ELSE "InsufficientFunds"]
            IN  /\ bans' = [p \in Participants |->
                              IF p \in DOMAIN offense THEN PermanentBan(offense[p])
                                                      ELSE bans[p]]
                /\ \E unfollowed \in SUBSET DOMAIN offense :
                    /\ unfollowed = DOMAIN offense \/ May("erase")
                    /\ known' = known \ unfollowed
                /\ RemoveInvalid(verdict, Batch)
    BY DEF CValidate
  <1> DEFINE absent == {p \in Members(reveals) : verdict[p] = "absent"}
             offense == [p \in Poor \cup absent |->
                            IF p \in absent THEN "FakeUtxo" ELSE "InsufficientFunds"]
  <1>2. \A p \in DOMAIN offense : PermanentBan(offense[p]) \in BanEntries
    <2>1. \A p \in DOMAIN offense : offense[p] \in Offenses
      BY DEF Offenses, Critical
    <2> QED
      BY <2>1, PermanentTyped
  <1>3. bans' = [p \in Participants |->
                  IF p \in DOMAIN offense THEN PermanentBan(offense[p]) ELSE bans[p]]
    BY <1>1
  <1>4. bans' \in [Participants -> BanEntries]
    <2> HIDE DEF offense, absent
    <2> QED
      BY <1>2, <1>3 DEF TypeOK, PeersTypeOK
  <1>5. known' \in SUBSET Participants
    BY <1>1 DEF TypeOK, PeersTypeOK
  <1> QED
    BY <1>1, <1>4, <1>5, IntentsTyped, RemoveInvalidTyped DEF TypeOK

------------------------------------------------------------------------------
(* The steps of the coordinator.                                             *)

LEMMA MessageStep ==
    ASSUME TypeOK, NEW p \in Participants, CMessage(p)
    PROVE  TypeOK' /\ Listens /\ UNCHANGED <<template, landed>>
  <1> USE DEF TypeOK, PeersTypeOK
  <1>1. Offered(p) /\ (Take(p) \/ DropInbox)
    BY DEF CMessage, CSkip, CCommitment, CAnswer, CReveal, CBadReveal, CFragment
  <1>2. /\ Current(p) \in Outgoing
        /\ inbox' \in [Participants -> Seq(Outgoing)]
        /\ reading' \in Participants \cup {Nobody}
        /\ \A q \in Participants : Items(inbox'[q]) \subseteq Items(inbox[q])
    BY <1>1, CurrentTyped, TakeTyped
  <1>3. UNCHANGED <<ppc, plan, joined, attempts, runs, signed, toCoord, template, landed>>
    BY DEF CMessage, CSkip, CCommitment, CAnswer, CReveal, CBadReveal, CFragment, pvars
  <1>4. Listens
    BY <1>2, <1>3 DEF Listens
  <1>5. CurrentIntent(Batch) \in Incoming /\ Reject(Batch) \in Incoming
    BY IntentsTyped, IncomingTyped
  <1>6. CASE CSkip(p)
    <2>1. UNCHANGED <<toPart, cpc, commitments, reveals, fragments, bans, known>>
      BY <1>6 DEF CSkip, pvars
    <2> QED
      BY <1>2, <1>3, <1>4, <2>1 DEF ParticipantTypeOK
  <1>7. CASE CCommitment(p)
    <2>1. UNCHANGED <<toPart, reveals, fragments, bans, known>>
      BY <1>7 DEF CCommitment, pvars
    <2>2. cpc' \in Phases
      BY <1>7 DEF CCommitment, Phases
    <2>3. commitments' \in Contents
      BY <1>2, <1>7, OutgoingPlan DEF CCommitment, Contents
    <2> QED
      BY <1>2, <1>3, <1>4, <2>1, <2>2, <2>3 DEF ParticipantTypeOK
  <1>8. CASE CAnswer(p)
    <2>1. UNCHANGED <<cpc, commitments, reveals, fragments, bans, known>>
      BY <1>8 DEF CAnswer
    <2>2. SendAll({p}, CurrentIntent(Batch))
      BY <1>8 DEF CAnswer
    <2>3. toPart' \in [Participants -> Halves(Incoming)]
      BY <1>5, <2>2, SendAllTyped
    <2> QED
      BY <1>2, <1>3, <1>4, <2>1, <2>3 DEF ParticipantTypeOK
  <1>9. CASE CReveal(p)
    <2>1. UNCHANGED <<toPart, cpc, commitments, fragments, bans, known>>
      BY <1>9 DEF CReveal, pvars
    <2>2. reveals' \in Contents
      BY <1>9, KeepRevealTyped DEF CReveal
    <2> QED
      BY <1>2, <1>3, <1>4, <2>1, <2>2 DEF ParticipantTypeOK
  <1>10. CASE CBadReveal(p)
    <2>1. UNCHANGED <<cpc, commitments, reveals, fragments>>
      BY <1>10 DEF CBadReveal
    <2>2. /\ Punish({p} \cap Members(commitments), "InvalidCommitment")
          /\ SendAll({p}, Reject(Batch))
          /\ "InvalidCommitment" \in Offenses
      BY <1>10 DEF CBadReveal, Offenses, Critical
    <2>3. bans' \in [Participants -> BanEntries] /\ known' \in SUBSET Participants
      BY <2>2, PunishTyped
    <2>4. toPart' \in [Participants -> Halves(Incoming)]
      BY <1>5, <2>2, SendAllTyped
    <2> QED
      BY <1>2, <1>3, <1>4, <2>1, <2>3, <2>4 DEF ParticipantTypeOK
  <1>11. CASE CFragment(p)
    <2>1. UNCHANGED <<toPart, cpc, commitments, reveals, bans, known>>
      BY <1>11 DEF CFragment, pvars
    <2>2. fragments' \in [Participants -> {"none", "partial", "full", "foreign"}]
      BY <1>11, KeepFragmentTyped DEF CFragment
    <2> QED
      BY <1>2, <1>3, <1>4, <2>1, <2>2 DEF ParticipantTypeOK
  <1> QED
    BY <1>3, <1>6, <1>7, <1>8, <1>9, <1>10, <1>11 DEF CMessage

\* Steps that only move the coordinator to another phase, or punish.
LEMMA PhaseStep ==
    ASSUME TypeOK,
           \/ CRevealTimeout \/ CFragmentTimeout \/ CRevealsComplete
           \/ CFragmentsComplete \/ CBuildFails \/ CBroadcast \/ CBroadcastFails
           \/ CCrash
    PROVE  TypeOK' /\ Listens /\ UNCHANGED template
  <1> USE DEF TypeOK, PeersTypeOK
  <1>1. UNCHANGED <<ppc, plan, joined, attempts, runs, signed, toCoord, toPart,
                    commitments, reveals, template, fragments>>
    BY DEF CRevealTimeout, CFragmentTimeout, CRevealsComplete, CFragmentsComplete,
           CBuildFails, CBroadcast, CBroadcastFails, CCrash, pvars
  <1>2. cpc' \in Phases
    BY DEF CRevealTimeout, CFragmentTimeout, CRevealsComplete, CFragmentsComplete,
           CBuildFails, CBroadcast, CBroadcastFails, CCrash, AfterReveals,
           AfterFragments, AfterRefusal, Phases, Closed
  <1>3. landed' \in BOOLEAN
    BY DEF CRevealTimeout, CFragmentTimeout, CRevealsComplete, CFragmentsComplete,
           CBuildFails, CBroadcast, CBroadcastFails, CCrash
  <1>4. /\ inbox' \in [Participants -> Seq(Outgoing)]
        /\ reading' \in Participants \cup {Nobody}
        /\ \A p \in Participants : Items(inbox'[p]) \subseteq Items(inbox[p])
    BY EmptyInboxTyped
    DEF CRevealTimeout, CFragmentTimeout, CRevealsComplete, CFragmentsComplete,
        CBuildFails, CBroadcast, CBroadcastFails, CCrash, DropInbox
  <1>5. bans' \in [Participants -> BanEntries] /\ known' \in SUBSET Participants
    <2>1. "FailedToReveal" \in Offenses /\ "FailedToSign" \in Offenses
      BY DEF Offenses, Moderate
    <2>2. CASE CRevealTimeout
      BY <2>1, <2>2, PunishTyped DEF CRevealTimeout
    <2>3. CASE CFragmentTimeout
      BY <2>1, <2>3, PunishTyped DEF CFragmentTimeout
    <2>4. CASE \/ CRevealsComplete \/ CFragmentsComplete \/ CBuildFails
               \/ CBroadcast \/ CBroadcastFails \/ CCrash
      BY <2>4 DEF CRevealsComplete, CFragmentsComplete, CBuildFails, CBroadcast,
                  CBroadcastFails, CCrash
    <2> QED
      BY <2>2, <2>3, <2>4
  <1>6. TypeOK'
    BY <1>1, <1>2, <1>3, <1>4, <1>5 DEF ParticipantTypeOK
  <1> QED
    BY <1>1, <1>4, <1>6 DEF Listens

\* Steps that send something other than a template.
LEMMA TellStep ==
    ASSUME TypeOK,
           CCommitDeadline \/ CRequestReveals \/ CValidate \/ CNotify \/ CClear
    PROVE  TypeOK' /\ Listens /\ UNCHANGED template
  <1> USE DEF TypeOK, PeersTypeOK
  <1>1. UNCHANGED <<ppc, plan, joined, attempts, runs, signed, commitments, template,
                    fragments, inbox, reading, landed>>
    BY DEF CCommitDeadline, CRequestReveals, CValidate, CNotify, CClear
  <1>2. cpc' \in Phases
    BY DEF CCommitDeadline, CRequestReveals, CValidate, CNotify, CClear, Phases, Closed,
           Collecting
  <1>3. /\ bans' \in [Participants -> BanEntries]
        /\ known' \in SUBSET Participants
        /\ reveals' \in Contents
    <2>1. CASE CValidate
      BY <2>1, ValidateTyped
    <2>2. CASE CCommitDeadline \/ CRequestReveals \/ CNotify \/ CClear
      BY <2>2 DEF CCommitDeadline, CRequestReveals, CNotify, CClear
    <2> QED
      BY <2>1, <2>2
  <1>4. /\ toCoord' \in [Participants -> Halves(Outgoing)]
        /\ \A p \in Participants : Items(toCoord'[p].sent) \subseteq Items(toCoord[p].sent)
    <2>1. CASE CClear
      BY <2>1, ClearTyped DEF CClear
    <2>2. CASE CCommitDeadline \/ CRequestReveals \/ CValidate \/ CNotify
      BY <2>2 DEF CCommitDeadline, CRequestReveals, CValidate, CNotify, ParticipantTypeOK
    <2> QED
      BY <2>1, <2>2
  <1>5. toPart' \in [Participants -> Halves(Incoming)]
    <2>1. /\ Reject(Batch) \in Incoming /\ FinalTx(Batch) \in Incoming
          /\ RequestReveal(Batch, Members(commitments)) \in Incoming
      BY IntentsTyped, IncomingTyped DEF Members
    <2>2. CASE CCommitDeadline
      <3>1. UNCHANGED toPart \/ SendAll(Members(commitments), Reject(Batch))
        BY <2>2 DEF CCommitDeadline
      <3> QED
        BY <2>1, <3>1, SendAllTyped DEF ParticipantTypeOK
    <2>3. CASE CRequestReveals
      BY <2>1, <2>3, SendAllTyped DEF CRequestReveals
    <2>4. CASE CValidate
      BY <2>4, ValidateTyped
    <2>5. CASE CNotify
      BY <2>1, <2>5, SendAllTyped DEF CNotify
    <2>6. CASE CClear
      BY <2>6, ClearTyped DEF CClear
    <2> QED
      BY <2>2, <2>3, <2>4, <2>5, <2>6
  <1>6. TypeOK'
    BY <1>1, <1>2, <1>3, <1>4, <1>5 DEF ParticipantTypeOK
  <1> QED
    BY <1>1, <1>4, <1>6 DEF Listens

LEMMA PollStep ==
    ASSUME TypeOK, CPoll
    PROVE  TypeOK' /\ Listens /\ UNCHANGED template
  <1>1. Poll /\ UNCHANGED <<ppc, plan, joined, attempts, runs, signed, toPart, cpc,
                    commitments, reveals, template, fragments, bans, known, reading,
                    landed>>
    BY DEF CPoll
  <1> QED
    BY <1>1, PollTyped DEF TypeOK, PeersTypeOK, ParticipantTypeOK, Listens

LEMMA BuildStep ==
    ASSUME TypeOK, CBuild
    PROVE  TypeOK' /\ Listens /\ template' = reveals
  <1>1. UNCHANGED <<ppc, plan, joined, attempts, runs, signed, toCoord, commitments,
                    reveals, fragments, bans, known, inbox, reading, landed>>
    BY DEF CBuild
  <1>2. cpc' \in Phases
    BY DEF CBuild, Phases, Collecting
  <1>3. template' = reveals /\ toPart' \in [Participants -> Halves(Incoming)]
    BY IntentsTyped, ProposeTyped DEF CBuild, TypeOK
  <1> QED
    BY <1>1, <1>2, <1>3 DEF TypeOK, PeersTypeOK, ParticipantTypeOK, Listens

LEMMA CoordinatorStep ==
    ASSUME TypeOK, Coordinator \/ CCrash
    PROVE  TypeOK' /\ Listens /\ (CBuild \/ UNCHANGED template)
  BY MessageStep, PhaseStep, TellStep, PollStep, BuildStep DEF Coordinator, CDeadline

------------------------------------------------------------------------------
(* Types.                                                                    *)

LEMMA TypeInit == Init => BatchTypeInv
  <1> SUFFICES ASSUME Init
               PROVE  BatchTypeInv
    OBVIOUS
  <1>1. bans \in [Participants -> BanEntries]
    <2>1. TemporaryBan(0, 1, "FailedToReveal") \in BanEntries
      BY DEF TemporaryBan, BanEntries, Offenses, Moderate
    <2> QED
      BY <2>1, NoBanTyped DEF Init
  <1>2. PeersInv
    BY <1>1, PeersStart DEF Init
  <1> QED
    BY <1>2 DEF Init, BatchTypeInv, PeersInv, TypeOK, Phases, Collecting, Contents,
                NoContents

LEMMA ParticipantTypeStep ==
    ASSUME BatchTypeInv, NEW p \in Participants,
           ParticipantRuns(p) \/ ParticipantStarts(p)
    PROVE  BatchTypeInv' /\ UNCHANGED cvars /\ ParticipantMoves(p)
  <1>1. ParticipantMoves(p) /\ UNCHANGED cvars
    BY DEF ParticipantRuns, ParticipantStarts, ParticipantMoves, PDeadline
  <1>2. PeersInv'
    BY <1>1, PeersOfBatch, ParticipantKeepsPeers DEF peers, cvars
  <1> QED
    BY <1>1, <1>2 DEF BatchTypeInv, TypeOK, PeersInv, cvars

LEMMA TypeStep == BatchTypeInv /\ [Next]_vars => BatchTypeInv'
  <1> SUFFICES ASSUME BatchTypeInv, [Next]_vars
               PROVE  BatchTypeInv'
    OBVIOUS
  <1>1. CASE Coordinator \/ CCrash
    <2>1. TypeOK' /\ Listens
      BY <1>1, CoordinatorStep DEF BatchTypeInv
    <2> QED
      BY <2>1 DEF BatchTypeInv, Listens, Prepared
  <1>2. ASSUME NEW p \in Participants, ParticipantRuns(p) \/ ParticipantStarts(p)
        PROVE  BatchTypeInv'
    BY <1>2, ParticipantTypeStep
  <1>3. CASE Finished \/ UNCHANGED vars
    BY <1>3 DEF Finished, vars, pvars, cvars, BatchTypeInv, TypeOK, PeersTypeOK,
                ParticipantTypeOK, Prepared
  <1> QED
    BY <1>1, <1>2, <1>3 DEF Next

LEMMA TypeInvariant == Spec => []BatchTypeInv
  <1>1. BatchTypeInv /\ [Next]_vars => BatchTypeInv'
    BY TypeStep
  <1> QED
    BY TypeInit, <1>1, PTL DEF Spec

\* Whatever is lost, late or restarted, every process and every conversation stays
\* well formed: no message is built from a batch that was not joined or from a plan
\* that was not made, and no query exceeds the retries.
THEOREM TypeCorrect == Spec => []TypeOK
  <1>1. BatchTypeInv => TypeOK
    BY DEF BatchTypeInv
  <1> QED
    BY TypeInvariant, <1>1, PTL

------------------------------------------------------------------------------
(* Commitments.                                                              *)

LEMMA CommittedStep ==
    ASSUME TypeOK, TemplateAsCommitted, Coordinator \/ CCrash
    PROVE  TemplateAsCommitted'
  <1> USE DEF TypeOK, PeersTypeOK, TemplateAsCommitted, Members, Contents
  <1>1. ASSUME NEW p \in Participants, CCommitment(p)
        PROVE  TemplateAsCommitted'
    <2>1. commitments[p] = NoPlan
      BY <1>1 DEF CCommitment, Relevant
    <2>2. \A q \in Participants \ {p} : commitments'[q] = commitments[q]
      BY <1>1 DEF CCommitment
    <2>3. UNCHANGED <<reveals, template>>
      BY <1>1 DEF CCommitment
    <2> QED
      BY <2>1, <2>2, <2>3
  <1>2. ASSUME NEW p \in Participants, CReveal(p)
        PROVE  TemplateAsCommitted'
    <2>1. UNCHANGED <<commitments, template>>
      BY <1>2 DEF CReveal
    <2>2. \A q \in Participants \ {p} : reveals'[q] = reveals[q]
      BY <1>2, KeepRevealTyped DEF CReveal
    <2>3. reveals'[p] \in {reveals[p], commitments[p]}
      BY <1>2, KeepRevealTyped DEF CReveal, Opens
    <2> QED
      BY <2>1, <2>2, <2>3
  <1>3. ASSUME NEW p \in Participants,
               CSkip(p) \/ CAnswer(p) \/ CBadReveal(p) \/ CFragment(p)
        PROVE  TemplateAsCommitted'
    BY <1>3 DEF CSkip, CAnswer, CBadReveal, CFragment
  <1>4. CASE CValidate
    BY <1>4, ValidateTyped DEF CValidate
  <1>5. CASE CBuild
    BY <1>5 DEF CBuild, Propose
  <1>6. CASE \/ CPoll \/ CDeadline \/ CRequestReveals \/ CRevealsComplete \/ CBuildFails
             \/ CFragmentsComplete \/ CBroadcast \/ CBroadcastFails \/ CNotify \/ CClear
             \/ CCrash
    BY <1>6
    DEF CPoll, CDeadline, CCommitDeadline, CRevealTimeout, CFragmentTimeout,
        CRequestReveals, CRevealsComplete, CBuildFails, CFragmentsComplete, CBroadcast,
        CBroadcastFails, CNotify, CClear, CCrash
  <1> QED
    BY <1>1, <1>2, <1>3, <1>4, <1>5, <1>6 DEF Coordinator, CMessage

\* What goes into the template is what its owner committed to first, for any number
\* of restarts, second commitments and repeated reveals.
THEOREM TemplateCommitted == Spec => []TemplateAsCommitted
  <1>1. Init => TemplateAsCommitted
    BY DEF Init, PeersInit, TemplateAsCommitted, Members, NoContents
  <1>2. BatchTypeInv /\ TemplateAsCommitted /\ [Next]_vars => TemplateAsCommitted'
    <2> SUFFICES ASSUME BatchTypeInv, TemplateAsCommitted, [Next]_vars
                 PROVE  TemplateAsCommitted'
      OBVIOUS
    <2>1. CASE Coordinator \/ CCrash
      BY <2>1, CommittedStep DEF BatchTypeInv
    <2>2. CASE UNCHANGED cvars
      BY <2>2 DEF cvars, TemplateAsCommitted, Members
    <2> QED
      BY <2>1, <2>2 DEF Next, Finished, ParticipantRuns, ParticipantStarts, vars
  <1> QED
    BY <1>1, <1>2, TypeInvariant, PTL DEF Spec

------------------------------------------------------------------------------
(* Signatures.                                                               *)

Early == {"commit", "request", "reveal", "validate", "build"}
Late == {"notify", "clear", "done", "failed"}

\* No fragment is kept before the template it could be about is built ...
NoEarlyFragments == cpc \in Early => fragments = NoFragments

\* ... and a complete one is its sender's signature of that template.
FragmentsTrue ==
    \A p \in Participants :
        fragments[p] = "full" => <<Batch, template>> \in signed[p]

LandedSigned ==
    /\ cpc = "broadcast" => AllSigned
    /\ landed => AllSigned /\ cpc \in Late

SpendInv == ClaimsTrue /\ NoEarlyFragments /\ FragmentsTrue /\ LandedSigned

LEMMA SpendInit == Init => SpendInv
  BY ClaimsStart
  DEF Init, PeersInit, SpendInv, NoEarlyFragments, FragmentsTrue, LandedSigned,
      NoFragments

LEMMA ParticipantSpendStep ==
    ASSUME BatchTypeInv, SpendInv, NEW p \in Participants,
           ParticipantRuns(p) \/ ParticipantStarts(p)
    PROVE  SpendInv'
  <1>1. ParticipantMoves(p) /\ UNCHANGED cvars
    BY ParticipantTypeStep
  <1>2. ClaimsTrue' /\ (\A q \in Participants : signed[q] \subseteq signed'[q])
    BY <1>1, PeersOfBatch, ParticipantKeepsClaims DEF SpendInv, cvars
  <1> QED
    BY <1>1, <1>2
    DEF SpendInv, NoEarlyFragments, FragmentsTrue, LandedSigned, AllSigned, Members,
        NoFragments, cvars

\* The coordinator is past the template for good once it has built it, and the
\* transaction is on the network only when every fragment is complete.
LEMMA PhasesAdvance ==
    ASSUME TypeOK, SpendInv, Coordinator \/ CCrash, ~CBuild
    PROVE  /\ cpc' \in Early => cpc \in Early /\ UNCHANGED fragments
           /\ LandedSigned'
           /\ \A p \in Participants : fragments'[p] = "full" =>
                fragments[p] = "full" \/ <<Batch, template>> \in signed[p]
  <1> USE DEF Early, Late
  <1>1. UNCHANGED template
    BY CoordinatorStep
  <1>2. ASSUME NEW p \in Participants, CFragment(p)
        PROVE  /\ cpc = "sign" /\ UNCHANGED <<cpc, landed>>
               /\ \A q \in Participants \ {p} : fragments'[q] = fragments[q]
               /\ fragments'[p] = "full" => <<Batch, template>> \in signed[p]
    <2>1. Current(p).intent = Batch
      <3>1. Current(p) \in Outgoing /\ Current(p).type = "SigFragment"
        BY <1>2, CurrentTyped DEF CFragment, TypeOK
      <3> QED
        BY <3>1, BatchAssumption DEF Outgoing
    <2> QED
      BY <1>2, <2>1, KeptFragmentSigned, KeepFragmentTyped
      DEF CFragment, Relevant, TypeOK, SpendInv
  <1>3. CASE \E p \in Participants : CFragment(p)
    BY <1>2, <1>3 DEF SpendInv, LandedSigned
  <1>4. ASSUME UNCHANGED fragments, AllSigned
        PROVE  AllSigned'
    BY <1>1, <1>4 DEF AllSigned, Members
  <1>5. ASSUME NEW p \in Participants,
               CSkip(p) \/ CCommitment(p) \/ CAnswer(p) \/ CReveal(p) \/ CBadReveal(p)
        PROVE  /\ UNCHANGED <<fragments, landed>> /\ cpc \in Collecting
               /\ UNCHANGED cpc \/ (cpc = "commit" /\ cpc' = "request")
    BY <1>5
    DEF CSkip, CCommitment, CAnswer, CReveal, CBadReveal, Relevant, Collecting
  <1>6. CASE \E p \in Participants :
                CSkip(p) \/ CCommitment(p) \/ CAnswer(p) \/ CReveal(p) \/ CBadReveal(p)
    BY <1>4, <1>5, <1>6 DEF SpendInv, LandedSigned, Collecting
  <1>7. CASE CFragmentsComplete \/ CFragmentTimeout
    <2>1. UNCHANGED <<fragments, landed>> /\ AfterFragments /\ cpc = "sign"
      BY <1>7 DEF CFragmentsComplete, CFragmentTimeout
    <2> QED
      BY <1>4, <2>1 DEF AfterFragments, SpendInv, LandedSigned
  <1>8. CASE CBroadcast \/ CBroadcastFails
    <2>1. UNCHANGED fragments /\ cpc = "broadcast" /\ cpc' \in {"notify", "failed"}
      BY <1>8 DEF CBroadcast, CBroadcastFails, AfterRefusal
    <2> QED
      BY <1>4, <2>1 DEF SpendInv, LandedSigned
  <1>9. CASE \/ CPoll \/ CCommitDeadline \/ CRevealTimeout \/ CRequestReveals
             \/ CRevealsComplete \/ CValidate \/ CBuildFails \/ CNotify \/ CClear
             \/ CCrash
    <2>1. UNCHANGED <<fragments, landed>>
      BY <1>9
      DEF CPoll, CCommitDeadline, CRevealTimeout, CRequestReveals, CRevealsComplete,
          CValidate, CBuildFails, CNotify, CClear, CCrash
    <2>2. /\ cpc' \in Early => cpc \in Early
          /\ cpc' # "broadcast" \/ cpc = "broadcast"
          /\ cpc \in Late => cpc' \in Late
      BY <1>9
      DEF CPoll, CCommitDeadline, CRevealTimeout, CRequestReveals, CRevealsComplete,
          CValidate, CBuildFails, CNotify, CClear, CCrash, AfterReveals
    <2> QED
      BY <1>4, <2>1, <2>2 DEF SpendInv, LandedSigned
  <1> QED
    BY <1>3, <1>6, <1>7, <1>8, <1>9 DEF Coordinator, CMessage, CDeadline

LEMMA CoordinatorSpendStep ==
    ASSUME TypeOK, SpendInv, Coordinator \/ CCrash
    PROVE  SpendInv'
  <1>1. Listens /\ (CBuild \/ UNCHANGED template)
    BY CoordinatorStep
  <1>2. ClaimsTrue'
    BY <1>1, ListeningKeepsClaims DEF SpendInv
  <1>3. CASE ~CBuild
    <2>1. NoEarlyFragments' /\ LandedSigned'
      BY <1>3, PhasesAdvance DEF SpendInv, NoEarlyFragments, NoFragments
    <2>2. FragmentsTrue'
      BY <1>1, <1>3, PhasesAdvance DEF SpendInv, FragmentsTrue, Listens
    <2> QED
      BY <1>2, <2>1, <2>2 DEF SpendInv
  <1>4. CASE CBuild
    <2>1. UNCHANGED <<fragments, landed>> /\ cpc = "build" /\ cpc' = "sign"
      BY <1>4 DEF CBuild
    <2>2. fragments = NoFragments /\ ~landed
      BY <2>1 DEF SpendInv, NoEarlyFragments, LandedSigned, Early, Late
    <2> QED
      BY <1>2, <2>1, <2>2
      DEF SpendInv, NoEarlyFragments, FragmentsTrue, LandedSigned, NoFragments, Early
  <1> QED
    BY <1>3, <1>4

LEMMA SpendInvariant == Spec => []SpendInv
  <1>1. BatchTypeInv /\ SpendInv /\ [Next]_vars => SpendInv'
    <2> SUFFICES ASSUME BatchTypeInv, SpendInv, [Next]_vars
                 PROVE  SpendInv'
      OBVIOUS
    <2>1. CASE Coordinator \/ CCrash
      BY <2>1, CoordinatorSpendStep DEF BatchTypeInv
    <2>2. ASSUME NEW p \in Participants, ParticipantRuns(p) \/ ParticipantStarts(p)
          PROVE  SpendInv'
      BY <2>2, ParticipantSpendStep
    <2>3. CASE Finished \/ UNCHANGED vars
      BY <2>3
      DEF Finished, vars, pvars, cvars, SpendInv, ClaimsTrue, NoEarlyFragments,
          FragmentsTrue, LandedSigned, AllSigned, Members, NoFragments
    <2> QED
      BY <2>1, <2>2, <2>3 DEF Next
  <1> QED
    BY SpendInit, <1>1, TypeInvariant, PTL DEF Spec

\* Nobody's coins move without that owner's own signatures on exactly what the
\* transaction contains of it, for any number of participants, any plans, any
\* limits and any of the faults.
THEOREM Authorized == Spec => []AuthorizedSpend
  <1>1. SpendInv => AuthorizedSpend
    BY DEF SpendInv, LandedSigned, FragmentsTrue, AllSigned, AuthorizedSpend, Members
  <1> QED
    BY SpendInvariant, <1>1, PTL

------------------------------------------------------------------------------
(* The quorum.                                                               *)

\* Commitments are taken one at a time, up to the maximum.
CommitmentsLimited ==
    /\ IsFiniteSet(Members(commitments))
    /\ Cardinality(Members(commitments)) <= MaxParticipants
    /\ cpc = "commit" => Cardinality(Members(commitments)) < MaxParticipants

\* From the proposal on, the template is what is left of the reveals, and only its
\* members sign.
TemplateOfReveals ==
    /\ cpc \in Early => template = NoContents
    /\ cpc \in {"sign", "broadcast"} \/ landed => template = reveals
    /\ Signers \subseteq Members(template)

QuorumReached == cpc = "broadcast" \/ landed => EnoughFragments /\ AllSigned

QuorumInv == CommitmentsLimited /\ TemplateOfReveals /\ QuorumReached

LEMMA QuorumInit == Init => QuorumInv
  <1> SUFFICES ASSUME Init
               PROVE  QuorumInv
    OBVIOUS
  <1>1. Members(commitments) = {} /\ Signers = {}
    BY DEF Init, PeersInit, Members, Signers, NoContents, NoFragments
  <1>2. CommitmentsLimited
    BY <1>1, FS_EmptySet, QuorumAssumption DEF CommitmentsLimited
  <1> QED
    BY <1>1, <1>2
    DEF Init, PeersInit, QuorumInv, TemplateOfReveals, QuorumReached

LEMMA CommitmentsStep ==
    ASSUME TypeOK, CommitmentsLimited, Coordinator \/ CCrash
    PROVE  CommitmentsLimited'
  <1>1. ASSUME NEW p \in Participants, CCommitment(p)
        PROVE  CommitmentsLimited'
    <2>1. cpc = "commit" /\ commitments[p] = NoPlan
      BY <1>1 DEF CCommitment, Relevant
    <2>2. Current(p).plan \in Plans
      BY <1>1, CurrentTyped, OutgoingPlan DEF CCommitment, TypeOK
    <2>3. commitments' = [commitments EXCEPT ![p] = Current(p).plan]
      BY <1>1 DEF CCommitment
    <2>4. Members(commitments)' = Members(commitments) \cup {p} /\ p \notin Members(commitments)
      BY <2>1, <2>2, <2>3, PlanAssumption DEF Members, TypeOK, Contents
    <2>5. /\ IsFiniteSet(Members(commitments)')
          /\ Cardinality(Members(commitments)') = Cardinality(Members(commitments)) + 1
      BY <2>4, FS_AddElement DEF CommitmentsLimited
    <2>6. /\ Cardinality(Members(commitments)) < MaxParticipants
          /\ Cardinality(Members(commitments)) \in Nat
      BY <2>1, FS_CardinalityType DEF CommitmentsLimited
    <2>7. /\ Members(commitments') = Members(commitments)'
          /\ IF Cardinality(Members(commitments')) >= MaxParticipants
             THEN cpc' = "request" ELSE cpc' = cpc
      BY <1>1 DEF CCommitment, Members
    <2> QED
      BY <2>5, <2>6, <2>7, QuorumAssumption DEF CommitmentsLimited
  <1>2. ASSUME UNCHANGED commitments, cpc' # "commit" \/ UNCHANGED cpc
        PROVE  CommitmentsLimited'
    BY <1>2 DEF CommitmentsLimited, Members
  <1>3. ASSUME NEW p \in Participants,
               CSkip(p) \/ CAnswer(p) \/ CReveal(p) \/ CBadReveal(p) \/ CFragment(p)
        PROVE  CommitmentsLimited'
    BY <1>2, <1>3 DEF CSkip, CAnswer, CReveal, CBadReveal, CFragment
  <1>4. CASE \/ CPoll \/ CDeadline \/ CRequestReveals \/ CRevealsComplete \/ CValidate
             \/ CBuild \/ CBuildFails \/ CFragmentsComplete \/ CBroadcast
             \/ CBroadcastFails \/ CNotify \/ CClear \/ CCrash
    BY <1>2, <1>4
    DEF CPoll, CDeadline, CCommitDeadline, CRevealTimeout, CFragmentTimeout,
        CRequestReveals, CRevealsComplete, CValidate, CBuild, CBuildFails,
        CFragmentsComplete, CBroadcast, CBroadcastFails, CNotify, CClear, CCrash,
        AfterReveals, AfterFragments, AfterRefusal
  <1> QED
    BY <1>1, <1>3, <1>4 DEF Coordinator, CMessage

LEMMA TemplateStep ==
    ASSUME TypeOK, SpendInv, TemplateOfReveals, QuorumReached, Coordinator \/ CCrash
    PROVE  TemplateOfReveals' /\ QuorumReached'
  <1> USE DEF Early, Late, Members, Signers
  <1>0. landed => cpc \in Late
    BY DEF SpendInv, LandedSigned
  <1>1. ASSUME UNCHANGED <<reveals, template, fragments, landed>>,
               UNCHANGED cpc \/ cpc' # "broadcast",
               cpc' \in Early => cpc \in Early,
               cpc' # "sign" \/ UNCHANGED cpc
        PROVE  TemplateOfReveals' /\ QuorumReached'
    BY <1>1
    DEF TemplateOfReveals, QuorumReached, EnoughFragments, AllSigned
  <1>2. ASSUME NEW p \in Participants, CSkip(p) \/ CCommitment(p) \/ CAnswer(p) \/ CBadReveal(p)
        PROVE  TemplateOfReveals' /\ QuorumReached'
    BY <1>1, <1>2 DEF CSkip, CCommitment, CAnswer, CBadReveal, Relevant
  <1>3. ASSUME NEW p \in Participants, CReveal(p)
        PROVE  TemplateOfReveals' /\ QuorumReached'
    <2>1. UNCHANGED <<cpc, template, fragments, landed>> /\ cpc = "reveal"
      BY <1>3 DEF CReveal, Relevant
    <2> QED
      BY <1>0, <2>1 DEF TemplateOfReveals, QuorumReached
  <1>4. ASSUME NEW p \in Participants, CFragment(p)
        PROVE  TemplateOfReveals' /\ QuorumReached'
    <2>1. /\ UNCHANGED <<cpc, reveals, template, landed>> /\ cpc = "sign"
          /\ reveals[p] # NoPlan
          /\ \A q \in Participants \ {p} : fragments'[q] = fragments[q]
      BY <1>4, KeepFragmentTyped DEF CFragment, Relevant, TypeOK
    <2>2. Signers' \subseteq Members(template)'
      BY <2>1 DEF TemplateOfReveals
    <2> QED
      BY <1>0, <2>1, <2>2 DEF TemplateOfReveals, QuorumReached
  <1>5. CASE CValidate
    BY <1>0, <1>5 DEF CValidate, TemplateOfReveals, QuorumReached
  <1>6. CASE CBuild
    <2>1. /\ UNCHANGED <<fragments, reveals, landed>> /\ cpc = "build" /\ cpc' = "sign"
          /\ template' = reveals
      BY <1>6 DEF CBuild, Propose
    <2>2. Signers' = {}
      BY <2>1 DEF SpendInv, NoEarlyFragments, NoFragments
    <2> QED
      BY <1>0, <2>1, <2>2 DEF TemplateOfReveals, QuorumReached
  <1>7. CASE CFragmentsComplete \/ CFragmentTimeout
    <2>1. UNCHANGED <<reveals, template, fragments, landed>> /\ AfterFragments /\ cpc = "sign"
      BY <1>7 DEF CFragmentsComplete, CFragmentTimeout
    <2> QED
      BY <1>0, <2>1
      DEF AfterFragments, TemplateOfReveals, QuorumReached, EnoughFragments, AllSigned
  <1>8. CASE CBroadcast \/ CBroadcastFails
    <2>1. /\ UNCHANGED <<reveals, template, fragments>> /\ cpc = "broadcast"
          /\ cpc' \in {"notify", "failed"}
      BY <1>8 DEF CBroadcast, CBroadcastFails, AfterRefusal
    <2> QED
      BY <2>1 DEF TemplateOfReveals, QuorumReached, EnoughFragments, AllSigned
  <1>9. CASE \/ CPoll \/ CCommitDeadline \/ CRevealTimeout \/ CRequestReveals
             \/ CRevealsComplete \/ CBuildFails \/ CNotify \/ CClear \/ CCrash
    BY <1>1, <1>9
    DEF CPoll, CCommitDeadline, CRevealTimeout, CRequestReveals, CRevealsComplete,
        CBuildFails, CNotify, CClear, CCrash, AfterReveals
  <1> QED
    BY <1>2, <1>3, <1>4, <1>5, <1>6, <1>7, <1>8, <1>9 DEF Coordinator, CMessage, CDeadline

LEMMA QuorumInvariant == Spec => []QuorumInv
  <1>1. BatchTypeInv /\ SpendInv /\ QuorumInv /\ [Next]_vars => QuorumInv'
    <2> SUFFICES ASSUME BatchTypeInv, SpendInv, QuorumInv, [Next]_vars
                 PROVE  QuorumInv'
      OBVIOUS
    <2>1. CASE Coordinator \/ CCrash
      BY <2>1, CommitmentsStep, TemplateStep DEF BatchTypeInv, QuorumInv
    <2>2. CASE UNCHANGED cvars
      BY <2>2
      DEF cvars, QuorumInv, CommitmentsLimited, TemplateOfReveals, QuorumReached,
          EnoughFragments, AllSigned, Signers, Members
    <2> QED
      BY <2>1, <2>2 DEF Next, Finished, ParticipantRuns, ParticipantStarts, vars
  <1> QED
    BY QuorumInit, <1>1, TypeInvariant, SpendInvariant, PTL DEF Spec

\* A template joins no more than the maximum, and what is ready for the network no
\* fewer than the minimum.
LEMMA TemplateLimited ==
    ASSUME TypeOK, TemplateAsCommitted, QuorumInv
    PROVE  /\ IsFiniteSet(Members(template))
           /\ Cardinality(Members(template)) <= MaxParticipants
           /\ Cardinality(Members(reveals)) <= MaxParticipants
           /\ cpc = "broadcast" \/ landed =>
                Cardinality(Members(template)) >= MinParticipants
  <1>1. Members(template) \subseteq Members(commitments)
    BY DEF TemplateAsCommitted, Members
  <1>2. Members(reveals) \subseteq Members(commitments)
    BY DEF TemplateAsCommitted, Members
  <1>3. /\ IsFiniteSet(Members(template)) /\ IsFiniteSet(Members(reveals))
        /\ Cardinality(Members(template)) <= Cardinality(Members(commitments))
        /\ Cardinality(Members(reveals)) <= Cardinality(Members(commitments))
        /\ Cardinality(Members(commitments)) \in Nat
        /\ Cardinality(Members(template)) \in Nat /\ Cardinality(Members(reveals)) \in Nat
    BY <1>1, <1>2, FS_Subset, FS_CardinalityType DEF QuorumInv, CommitmentsLimited
  <1>4. AllSigned => Members(template) \subseteq Signers
    BY DEF AllSigned, Members, Signers
  <1>5. EnoughFragments /\ AllSigned => Cardinality(Members(template)) >= MinParticipants
    <2>1. AllSigned => Signers = Members(template)
      BY <1>4 DEF QuorumInv, TemplateOfReveals
    <2> QED
      BY <2>1 DEF EnoughFragments
  <1> QED
    BY <1>3, <1>5, QuorumAssumption
    DEF QuorumInv, CommitmentsLimited, QuorumReached

\* A transaction never joins fewer than the minimum, though the coordinator does not
\* count again after it has removed reveals, and never more than the maximum: the
\* fragments it counts are of exactly those the transaction spends from.
THEOREM Quorum == Spec => []QuorumSpend
  <1>1. TypeOK /\ TemplateAsCommitted /\ QuorumInv => QuorumSpend
    <2> SUFFICES ASSUME TypeOK, TemplateAsCommitted, QuorumInv, landed
                 PROVE  Cardinality(Members(template)) \in MinParticipants..MaxParticipants
      BY DEF QuorumSpend
    <2>1. Cardinality(Members(template)) \in Nat
      BY TemplateLimited, FS_CardinalityType
    <2> QED
      BY <2>1, TemplateLimited, QuorumAssumption
  <1> QED
    BY <1>1, TypeCorrect, TemplateCommitted, QuorumInvariant, PTL

------------------------------------------------------------------------------
(* What participants are told, and what they make of it.                     *)

\* Whoever is sent a template is sent the one there is, and whoever is told that
\* the transaction is final is told the truth, in whatever session.
Told ==
    \A p \in Participants : \A m \in Items(toPart[p].sent) :
        /\ m.type = "Template" => cpc \notin Early /\ m.contents = template
        /\ m.type = "FinalTx" => landed

\* Only members sign, and only the template.
SignedTrue ==
    \A p \in Participants : \A s \in signed[p] :
        cpc \notin Early /\ s = <<Batch, template>> /\ template[p] # NoPlan

\* Who waits for the final transaction has found its plan in the template.
Accepted ==
    \A p \in Participants :
        /\ ppc[p] \in {"awaitFinal", "ok"} =>
            cpc \notin Early /\ plan[p] # NoPlan /\ Includes(template[p], plan[p])
        /\ ppc[p] = "ok" => landed

AcceptInv == Told /\ SignedTrue /\ Accepted /\ (cpc = "notify" => landed)

LEMMA AcceptInit == Init => AcceptInv
  BY EmptyHalfTyped
  DEF Init, PeersInit, ParticipantInit, AcceptInv, Told, SignedTrue, Accepted

\* Templates are sent when they are built, and FinalTx after the broadcast.
LEMMA CoordinatorSays ==
    ASSUME TypeOK, Coordinator \/ CCrash
    PROVE  \A p \in Participants : \A m \in Items(toPart'[p].sent) :
            \/ m \in Items(toPart[p].sent)
            \/ CBuild /\ m = Template(Batch, reveals)
            \/ CNotify /\ m = FinalTx(Batch)
            \/ m.type \in {"CurrentIntent", "RequestReveal", "Reject"}
  <1>1. /\ CurrentIntent(Batch) \in Incoming /\ Reject(Batch) \in Incoming
        /\ FinalTx(Batch) \in Incoming /\ Template(Batch, reveals) \in Incoming
        /\ RequestReveal(Batch, Members(commitments)) \in Incoming
    BY IntentsTyped, IncomingTyped DEF TypeOK, PeersTypeOK, Members
  <1>2. PeersTypeOK
    BY DEF TypeOK
  <1>3. ASSUME NEW S, NEW m \in Incoming, SendAll(S, m)
        PROVE  \A p \in Participants : \A n \in Items(toPart'[p].sent) :
                    n \in Items(toPart[p].sent) \/ n = m
    BY <1>2, <1>3, SendAllTyped
  <1>4. ASSUME NEW p \in Participants, CMessage(p)
        PROVE  \/ UNCHANGED toPart
               \/ SendAll({p}, CurrentIntent(Batch)) \/ SendAll({p}, Reject(Batch))
    BY <1>4
    DEF CMessage, CSkip, CCommitment, CAnswer, CReveal, CBadReveal, CFragment, pvars
  <1>5. ASSUME CCommitDeadline \/ CRequestReveals \/ CValidate
        PROVE  \/ UNCHANGED toPart
               \/ \E S : SendAll(S, Reject(Batch))
               \/ \E S : SendAll(S, RequestReveal(Batch, Members(commitments)))
    BY <1>5 DEF CCommitDeadline, CRequestReveals, CValidate, RemoveInvalid
  <1>6. CurrentIntent(Batch).type = "CurrentIntent" /\ Reject(Batch).type = "Reject"
        /\ RequestReveal(Batch, Members(commitments)).type = "RequestReveal"
    BY DEF CurrentIntent, Reject, RequestReveal
  <1>7. CASE (\E p \in Participants : CMessage(p)) \/ CCommitDeadline \/ CRequestReveals
             \/ CValidate
    BY <1>1, <1>3, <1>4, <1>5, <1>6, <1>7
  <1>8. CASE CBuild
    BY <1>1, <1>3, <1>8 DEF CBuild, Propose
  <1>9. CASE CNotify
    BY <1>1, <1>3, <1>9 DEF CNotify
  <1>10. CASE CClear
    BY <1>2, <1>10, ClearTyped DEF CClear
  <1>11. CASE \/ CPoll \/ CRevealTimeout \/ CFragmentTimeout \/ CRevealsComplete
              \/ CBuildFails \/ CFragmentsComplete \/ CBroadcast \/ CBroadcastFails
              \/ CCrash
    BY <1>11
    DEF CPoll, CRevealTimeout, CFragmentTimeout, CRevealsComplete, CBuildFails,
        CFragmentsComplete, CBroadcast, CBroadcastFails, CCrash, pvars
  <1> QED
    BY <1>7, <1>8, <1>9, <1>10, <1>11 DEF Coordinator, CDeadline

\* What is on the network stays there, and a notification follows a broadcast.
LEMMA LandedStays ==
    ASSUME SpendInv, cpc = "notify" => landed, Coordinator \/ CCrash
    PROVE  /\ landed => landed'
           /\ cpc' = "notify" => landed'
           /\ CNotify => landed
           /\ landed' # landed => CBroadcast \/ CBroadcastFails
  <1>1. cpc = "broadcast" => ~landed
    BY DEF SpendInv, LandedSigned, Late
  <1>2. CASE CBroadcast \/ CBroadcastFails
    BY <1>1, <1>2 DEF CBroadcast, CBroadcastFails, AfterRefusal, CNotify
  <1>3. ASSUME NEW p \in Participants, CMessage(p)
        PROVE  UNCHANGED landed /\ (cpc' = cpc \/ cpc' = "request") /\ cpc # "notify"
    BY <1>3
    DEF CMessage, CSkip, CCommitment, CAnswer, CReveal, CBadReveal, CFragment, Relevant,
        Collecting
  <1>4. CASE \E p \in Participants : CMessage(p)
    BY <1>3, <1>4 DEF CNotify
  <1>5. CASE \/ CPoll \/ CDeadline \/ CRequestReveals \/ CRevealsComplete \/ CValidate
             \/ CBuild \/ CBuildFails \/ CFragmentsComplete \/ CNotify \/ CClear
             \/ CCrash
    BY <1>5
    DEF CPoll, CDeadline, CCommitDeadline, CRevealTimeout, CFragmentTimeout,
        CRequestReveals, CRevealsComplete, CValidate, CBuild, CBuildFails,
        CFragmentsComplete, CNotify, CClear, CCrash, AfterReveals, AfterFragments
  <1> QED
    BY <1>2, <1>4, <1>5 DEF Coordinator

LEMMA CoordinatorAcceptStep ==
    ASSUME TypeOK, SpendInv, AcceptInv, Coordinator \/ CCrash
    PROVE  AcceptInv'
  <1>1. UNCHANGED <<ppc, plan, signed>>
    BY CoordinatorStep DEF Listens
  <1>2. /\ landed => landed'
        /\ cpc' = "notify" => landed'
        /\ CNotify => landed
    BY LandedStays DEF AcceptInv
  <1>3. FinalTx(Batch).type = "FinalTx"
        /\ Template(Batch, reveals).type = "Template"
        /\ Template(Batch, reveals).contents = reveals
    BY DEF FinalTx, Template
  <1>4. CASE CBuild
    <2>1. cpc = "build" /\ cpc' = "sign" /\ template' = reveals /\ UNCHANGED landed
      BY <1>4 DEF CBuild, Propose
    <2>2. Told'
      <3> SUFFICES ASSUME NEW p \in Participants, NEW m \in Items(toPart'[p].sent)
                   PROVE  /\ m.type = "Template" => m.contents = template'
                          /\ m.type = "FinalTx" => landed'
        BY <2>1 DEF Told, Early
      <3>1. CASE m \in Items(toPart[p].sent)
        BY <2>1, <3>1 DEF AcceptInv, Told, Early
      <3>2. CASE m \notin Items(toPart[p].sent)
        <4>1. m = Template(Batch, reveals) \/ m.type \in {"CurrentIntent", "RequestReveal", "Reject"}
          BY <1>4, <3>2, CoordinatorSays DEF CBuild, CNotify
        <4> QED
          BY <1>3, <2>1, <4>1
      <3> QED
        BY <3>1, <3>2
    <2> QED
      BY <1>1, <2>1, <2>2 DEF AcceptInv, SignedTrue, Accepted, Early
  <1>5. CASE ~CBuild
    <2>1. UNCHANGED template
      BY <1>5, CoordinatorStep
    <2>2. cpc' \in Early => cpc \in Early
      BY <1>5, PhasesAdvance
    <2>3. Told'
      <3> SUFFICES ASSUME NEW p \in Participants, NEW m \in Items(toPart'[p].sent)
                   PROVE  /\ m.type = "Template" => cpc' \notin Early /\ m.contents = template'
                          /\ m.type = "FinalTx" => landed'
        BY DEF Told, Early
      <3>1. CASE m \in Items(toPart[p].sent)
        BY <1>2, <2>1, <2>2, <3>1 DEF AcceptInv, Told
      <3>2. CASE m \notin Items(toPart[p].sent)
        <4>1. \/ CNotify /\ m = FinalTx(Batch)
              \/ m.type \in {"CurrentIntent", "RequestReveal", "Reject"}
          BY <1>5, <3>2, CoordinatorSays
        <4> QED
          BY <1>2, <1>3, <4>1
      <3> QED
        BY <3>1, <3>2
    <2> QED
      BY <1>1, <1>2, <2>1, <2>2, <2>3 DEF AcceptInv, SignedTrue, Accepted, Early
  <1> QED
    BY <1>4, <1>5

LEMMA ParticipantAcceptStep ==
    ASSUME BatchTypeInv, AcceptInv, NEW p \in Participants,
           ParticipantRuns(p) \/ ParticipantStarts(p)
    PROVE  AcceptInv'
  <1>1. ParticipantMoves(p) /\ UNCHANGED cvars
    BY ParticipantTypeStep
  <1>2. ParticipantInv
    BY PeersOfBatch DEF PeersInv, PeersTypeOK, ParticipantInv
  <1>3. \A q \in Participants : Items(toPart'[q].sent) = Items(toPart[q].sent)
    BY <1>1, PeersOfBatch, ParticipantOnlyReads
  <1>4. Told'
    BY <1>1, <1>3 DEF AcceptInv, Told, cvars, Early
  <1> USE DEF ParticipantInv, ParticipantTypeOK, Goto
  <1>5. CASE PSign(p)
    <2>1. PICK t \in Items(toPart[p].sent), complete \in BOOLEAN :
            /\ t.type = "Template" /\ Includes(t.contents[p], plan[p])
            /\ plan[p] \in Plans /\ t.contents[p] \in Plans
            /\ signed' = IF complete
                         THEN [signed EXCEPT ![p] = @ \cup {<<joined[p], t.contents>>}]
                         ELSE signed
      BY <1>2, <1>5, SignStep
    <2>2. ppc[p] = "awaitTemplate" /\ joined[p] = Batch
      BY <1>2, <1>5, BatchAssumption DEF PSign, Hears, Prepared
    <2>3. /\ cpc \notin Early /\ t.contents = template
          /\ Includes(template[p], plan[p]) /\ template[p] # NoPlan /\ plan[p] # NoPlan
      BY <2>1, PlanAssumption DEF AcceptInv, Told
    <2>4. /\ UNCHANGED plan
          /\ \A q \in Participants \ {p} : ppc'[q] = ppc[q]
          /\ ppc'[p] # "ok"
      BY <1>2, <1>5 DEF PSign, SendThen
    <2>5. SignedTrue'
      BY <1>1, <1>2, <2>1, <2>2, <2>3 DEF AcceptInv, SignedTrue, cvars, Early
    <2>6. Accepted'
      BY <1>1, <2>3, <2>4 DEF AcceptInv, Accepted, cvars, Early
    <2> QED
      BY <1>1, <1>4, <2>5, <2>6 DEF AcceptInv, cvars
  <1>6. CASE PFinal(p)
    <2>1. ppc[p] = "awaitFinal" /\ landed
      <3>1. ppc[p] = "awaitFinal" /\ Answered(p)
        BY <1>6 DEF PFinal
      <3>2. Answer(p) \in Items(toPart[p].sent) /\ Answer(p).type = "FinalTx"
        BY <1>2, <3>1, AnswerHeard, AwaitedStages
      <3> QED
        BY <3>1, <3>2 DEF AcceptInv, Told
    <2>2. UNCHANGED <<plan, signed>> /\ ppc' = [ppc EXCEPT ![p] = "ok"]
      BY <1>6 DEF PFinal
    <2> QED
      BY <1>1, <1>2, <1>4, <2>1, <2>2 DEF AcceptInv, SignedTrue, Accepted, cvars, Early
  <1>7. CASE PLaunch(p)
    <2>1. /\ ppc' = [ppc EXCEPT ![p] = "query"] /\ UNCHANGED signed
          /\ \A q \in Participants \ {p} : plan'[q] = plan[q]
      BY <1>2, <1>7 DEF PLaunch
    <2> QED
      BY <1>1, <1>2, <1>4, <2>1 DEF AcceptInv, SignedTrue, Accepted, cvars, Early
  <1>8. CASE PCommit(p)
    <2>1. /\ \A q \in Participants \ {p} : ppc'[q] = ppc[q] /\ plan'[q] = plan[q]
          /\ ppc'[p] \in {"awaitRequest", "err"} /\ UNCHANGED signed
      BY <1>2, <1>8 DEF PCommit, SendThen
    <2> QED
      BY <1>1, <1>2, <1>4, <2>1 DEF AcceptInv, SignedTrue, Accepted, cvars, Early
  <1>9. CASE \/ PCrash(p) \/ PQuery(p) \/ PSkip(p) \/ PGiveUp(p) \/ PIntent(p)
             \/ PReveal(p) \/ PRejected(p) \/ PRefuse(p)
    <2>1. /\ UNCHANGED <<plan, signed>>
          /\ \A q \in Participants \ {p} : ppc'[q] = ppc[q]
          /\ ppc'[p] \in {ppc[p], "query", "awaitIntent", "commit", "awaitTemplate", "err"}
      BY <1>2, <1>9
      DEF PCrash, PQuery, PSkip, PGiveUp, PIntent, PReveal, PRejected, PRefuse, SendThen,
          RetryOrFail
    <2> QED
      BY <1>1, <1>2, <1>4, <2>1 DEF AcceptInv, SignedTrue, Accepted, cvars, Early
  <1> QED
    BY <1>1, <1>5, <1>6, <1>7, <1>8, <1>9 DEF ParticipantMoves, PStep

LEMMA AcceptInvariant == Spec => []AcceptInv
  <1>1. BatchTypeInv /\ SpendInv /\ AcceptInv /\ [Next]_vars => AcceptInv'
    <2> SUFFICES ASSUME BatchTypeInv, SpendInv, AcceptInv, [Next]_vars
                 PROVE  AcceptInv'
      OBVIOUS
    <2>1. CASE Coordinator \/ CCrash
      BY <2>1, CoordinatorAcceptStep DEF BatchTypeInv
    <2>2. ASSUME NEW p \in Participants, ParticipantRuns(p) \/ ParticipantStarts(p)
          PROVE  AcceptInv'
      BY <2>2, ParticipantAcceptStep
    <2>3. CASE Finished \/ UNCHANGED vars
      BY <2>3
      DEF Finished, vars, pvars, cvars, AcceptInv, Told, SignedTrue, Accepted
    <2> QED
      BY <2>1, <2>2, <2>3 DEF Next
  <1> QED
    BY AcceptInit, <1>1, TypeInvariant, SpendInvariant, PTL DEF Spec

\* A participant never reports success for nothing, whatever was lost, erased,
\* restarted or read again: the transaction is on the network, and in it is the plan
\* of the very session that reports.
THEOREM Success == Spec => []SuccessMeansLanded
  <1>1. AcceptInv => SuccessMeansLanded
    BY DEF AcceptInv, Accepted, SuccessMeansLanded
  <1> QED
    BY AcceptInvariant, <1>1, PTL

------------------------------------------------------------------------------
(* BatchAgreement.                                                           *)

\* Who has signed the template, as BatchAgreement sees it.
Agreeing == [p \in Participants |-> <<Batch, template>> \in signed[p]]

\* The abstract specification counts as this one does.
LEMMA CountsAlike ==
    ASSUME NEW S
    PROVE  Agreement!Cardinality(S) = Cardinality(S)
  BY Zenon DEF Agreement!Cardinality, Cardinality

LEMMA RefinesInit == Init => Agreement!Init
  <1> SUFFICES ASSUME Init
               PROVE  Agreement!Init
    OBVIOUS
  <1>1. template = [p \in Participants |-> NoPlan] /\ landed = FALSE
    BY DEF Init, PeersInit, NoContents
  <1>2. \A p \in Participants : signed[p] = {}
    BY DEF Init, PeersInit, ParticipantInit
  <1>3. Agreeing = [p \in Participants |-> FALSE]
    <2>1. \A p \in Participants : (<<Batch, template>> \in signed[p]) = FALSE
      BY <1>2
    <2> QED
      BY <2>1, Zenon DEF Agreeing
  <1> QED
    BY <1>1, <1>3 DEF Agreement!Init, Agreeing

\* The proposal is the building of the template, before which nobody has signed.
LEMMA BuildProposes ==
    ASSUME TypeOK, TemplateAsCommitted, QuorumInv, SpendInv, AcceptInv, CBuild
    PROVE  Agreement!Propose
  <1>1. cpc = "build" /\ cpc \in Early /\ template' = reveals /\ UNCHANGED <<signed, landed>>
    BY DEF CBuild, Propose, Early
  <1>2. Agreement!Members = {}
    BY <1>1 DEF QuorumInv, TemplateOfReveals, NoContents, Agreement!Members
  <1>3. Agreement!Members' = Members(reveals)
    BY <1>1 DEF Agreement!Members, Members
  <1>4. Agreement!Cardinality(Agreement!Members') <= MaxParticipants
    BY <1>3, CountsAlike, TemplateLimited
  <1>5. \A p \in Participants : signed[p] = {}
    BY <1>1 DEF AcceptInv, SignedTrue
  <1>6. Agreeing' = Agreeing
    BY <1>1, <1>5 DEF Agreeing
  <1>7. template' \in [Participants -> Plans \cup {NoPlan}]
    BY <1>1 DEF TypeOK, PeersTypeOK, Contents
  <1> QED
    <2>1. UNCHANGED <<[p \in Participants |-> <<Batch, template>> \in signed[p]], landed>>
      BY <1>1, <1>6 DEF Agreeing
    <2> QED
      BY <1>2, <1>4, <1>7, <2>1 DEF Agreement!Propose

\* A transaction that reaches the network has the minimum of members, and all of
\* them have signed.
LEMMA BroadcastLands ==
    ASSUME TypeOK, TemplateAsCommitted, QuorumInv, SpendInv,
           CBroadcast \/ CBroadcastFails, landed' # landed
    PROVE  Agreement!Land
  <1>1. cpc = "broadcast" /\ UNCHANGED <<signed, template>>
    BY DEF CBroadcast, CBroadcastFails, pvars
  <1>2. ~landed /\ landed' = TRUE
    BY <1>1 DEF SpendInv, LandedSigned, Late, CBroadcast, CBroadcastFails, TypeOK
  <1>3. Agreement!Members = Members(template)
    BY DEF Agreement!Members, Members
  <1>4. Agreement!Cardinality(Agreement!Members) >= MinParticipants
    BY <1>1, <1>3, CountsAlike, TemplateLimited
  <1>5. \A p \in Members(template) : <<Batch, template>> \in signed[p]
    BY <1>1 DEF SpendInv, LandedSigned, FragmentsTrue, AllSigned, Members
  <1>6. \A p \in Agreement!Members : Agreeing[p]
    BY <1>3, <1>5 DEF Agreeing, Members
  <1>7. Agreeing' = Agreeing
    BY <1>1 DEF Agreeing
  <1> QED
    <2>1. /\ \A p \in Agreement!Members :
                [q \in Participants |-> <<Batch, template>> \in signed[q]][p]
          /\ UNCHANGED <<template, [p \in Participants |-> <<Batch, template>> \in signed[p]]>>
      BY <1>1, <1>6, <1>7 DEF Agreeing
    <2> QED
      BY <1>2, <1>4, <2>1 DEF Agreement!Land

\* A participant's signature is an abstract one; what else it does is not seen.
LEMMA ParticipantSigns ==
    ASSUME BatchTypeInv, AcceptInv, AcceptInv', NEW p \in Participants,
           ParticipantRuns(p) \/ ParticipantStarts(p)
    PROVE  Agreement!Sign(p) \/ UNCHANGED Agreement!vars
  <1>1. ParticipantMoves(p) /\ UNCHANGED cvars
    BY ParticipantTypeStep
  <1>2. ParticipantInv
    BY PeersOfBatch DEF PeersInv, PeersTypeOK, ParticipantInv
  <1>3. CASE PSign(p)
    <2>1. PICK t \in Items(toPart[p].sent), complete \in BOOLEAN :
            signed' = IF complete
                      THEN [signed EXCEPT ![p] = @ \cup {<<joined[p], t.contents>>}]
                      ELSE signed
      BY <1>2, <1>3, SignStep
    <2>2. CASE complete
      <3>1. <<joined[p], t.contents>> \in signed'[p]
        BY <1>2, <2>1, <2>2 DEF ParticipantInv, ParticipantTypeOK
      <3>2. <<joined[p], t.contents>> = <<Batch, template>> /\ template[p] # NoPlan
        BY <1>1, <3>1 DEF AcceptInv, SignedTrue, cvars
      <3>3. signed' = [signed EXCEPT ![p] = @ \cup {<<Batch, template>>}]
        BY <2>1, <2>2, <3>2
      <3>4. Agreeing' = [Agreeing EXCEPT ![p] = TRUE]
        BY <1>1, <1>2, <3>3 DEF Agreeing, cvars, ParticipantInv, ParticipantTypeOK
      <3>5. p \in Agreement!Members
        BY <3>2 DEF Agreement!Members
      <3> QED
        BY <1>1, <3>4, <3>5 DEF Agreement!Sign, Agreeing, cvars
    <2>3. CASE ~complete
      BY <1>1, <2>1, <2>3 DEF Agreement!vars, cvars
    <2> QED
      BY <2>2, <2>3
  <1>4. CASE ~PSign(p)
    <2>1. UNCHANGED signed
      BY <1>1, <1>4
      DEF ParticipantMoves, PStep, PLaunch, PCrash, PQuery, PSkip, PGiveUp, PIntent,
          PCommit, PReveal, PRejected, PRefuse, PFinal
    <2> QED
      BY <1>1, <2>1 DEF Agreement!vars, cvars
  <1> QED
    BY <1>3, <1>4

LEMMA RefinesStep ==
    ASSUME BatchTypeInv, TemplateAsCommitted, SpendInv, QuorumInv, AcceptInv, AcceptInv',
           [Next]_vars
    PROVE  [Agreement!Next]_Agreement!vars
  <1>1. CASE Coordinator \/ CCrash
    <2>1. UNCHANGED signed /\ (CBuild \/ UNCHANGED template)
      BY <1>1, CoordinatorStep DEF BatchTypeInv, Listens
    <2>2. landed' # landed => CBroadcast \/ CBroadcastFails
      BY <1>1, LandedStays DEF AcceptInv
    <2>3. CASE CBuild
      BY <2>3, BuildProposes DEF BatchTypeInv, Agreement!Next
    <2>4. CASE landed' # landed
      BY <2>2, <2>4, BroadcastLands DEF BatchTypeInv, Agreement!Next
    <2>5. CASE UNCHANGED <<template, signed, landed>>
      BY <2>5 DEF Agreement!vars
    <2> QED
      BY <2>1, <2>3, <2>4, <2>5
  <1>2. ASSUME NEW p \in Participants, ParticipantRuns(p) \/ ParticipantStarts(p)
        PROVE  [Agreement!Next]_Agreement!vars
    BY <1>2, ParticipantSigns DEF Agreement!Next
  <1>3. CASE Finished \/ UNCHANGED vars
    BY <1>3 DEF Finished, vars, pvars, cvars, Agreement!vars
  <1> QED
    BY <1>1, <1>2, <1>3 DEF Next

\* Messages, phases, deadlines, bans and faults are only the way in which the batch
\* does what BatchAgreement promises: one proposal of a limited number of members,
\* signatures of members on it, and a transaction that lands with all of them.
THEOREM Agrees == Spec => AgreementSpec
  <1>1. /\ BatchTypeInv /\ TemplateAsCommitted /\ SpendInv /\ QuorumInv /\ AcceptInv
        /\ AcceptInv' /\ [Next]_vars
        => [Agreement!Next]_Agreement!vars
    BY RefinesStep
  <1> QED
    BY RefinesInit, <1>1, TypeInvariant, TemplateCommitted, SpendInvariant, QuorumInvariant,
       AcceptInvariant, PTL
    DEF Spec, AgreementSpec, Agreement!Spec

------------------------------------------------------------------------------
(* Whom the bans hit.                                                        *)

\* What is held against a participant is what it has said itself.
CommittedPromised ==
    \A p \in Participants :
        commitments[p] # NoPlan => Promised(p, Batch, commitments[p])

DesertInv == PromisesKept /\ CommittedPromised /\ PermanentBansDeserved

LEMMA DesertInit == Init => DesertInv
  <1> SUFFICES ASSUME Init
               PROVE  DesertInv
    OBVIOUS
  <1>1. \A p \in Participants : bans[p].offense \in {"FailedToReveal", "none"}
    BY DEF Init, TemporaryBan, NoBan
  <1> QED
    BY <1>1, PromisesStart
    DEF Init, NoContents, DesertInv, CommittedPromised, PermanentBansDeserved

LEMMA SentencedFor ==
    ASSUME NEW p, NEW offense
    PROVE  Sentenced(p, offense).offense = offense
  BY DEF Sentenced, Recorded, Sentence, PermanentBan, TemporaryBan

\* The message that is read is one its sender stands by, if it says anything.
LEMMA CurrentPromised ==
    ASSUME TypeOK, PromisesKept, NEW p \in Participants, Offered(p),
           Current(p).type \in {"Commitment", "Reveal"}
    PROVE  Promised(p, Batch, Current(p).plan) /\ Current(p).plan \in Plans
  <1>1. Current(p) \in Outgoing /\ Current(p) \in Items(inbox[p])
    BY CurrentTyped DEF TypeOK
  <1>2. Current(p).intent = Batch
    BY <1>1, BatchAssumption DEF Outgoing
  <1> QED
    BY <1>1, <1>2, OutgoingPlan DEF PromisesKept, Promises

\* Who has promised two things was started twice.
LEMMA TwoPromises ==
    ASSUME TypeOK, NEW p \in Participants, NEW x, NEW y, x # y,
           Promised(p, Batch, x), Promised(p, Batch, y)
    PROVE  runs[p] > 1
  <1>1. runs[p] \in Nat
    BY RetryAssumption DEF TypeOK, PeersTypeOK, ParticipantTypeOK
  <1> QED
    BY <1>1 DEF Promised, Bound

LEMMA CommittedPromisedStep ==
    ASSUME TypeOK, DesertInv, Coordinator \/ CCrash
    PROVE  PromisesKept' /\ CommittedPromised'
  <1>1. Listens
    BY CoordinatorStep
  <1>2. PromisesKept'
    BY <1>1, ListeningKeepsPromises DEF DesertInv
  <1>3. \A p \in Participants : \A x : Promised(p, Batch, x) => Promised(p, Batch, x)'
    BY <1>1, ListeningKeepsPromises DEF DesertInv
  <1>4. ASSUME NEW p \in Participants, CCommitment(p)
        PROVE  CommittedPromised'
    <2>1. Promised(p, Batch, Current(p).plan)
      BY <1>4, CurrentPromised DEF CCommitment, DesertInv
    <2>2. commitments' = [commitments EXCEPT ![p] = Current(p).plan]
      BY <1>4 DEF CCommitment
    <2>3. commitments \in [Participants -> Plans \cup {NoPlan}]
      BY DEF TypeOK, Contents
    <2>4. \A q \in Participants :
            commitments'[q] # NoPlan => Promised(q, Batch, commitments'[q])
      BY <2>1, <2>2, <2>3 DEF DesertInv, CommittedPromised
    <2>5. \A q \in Participants :
            commitments'[q] # NoPlan =>
                \A x : x = commitments'[q] => Promised(q, Batch, x)'
      BY <1>3, <2>4
    <2> QED
      BY <2>5 DEF CommittedPromised
  <1>5. ASSUME UNCHANGED commitments
        PROVE  CommittedPromised'
    BY <1>3, <1>5 DEF DesertInv, CommittedPromised
  <1>6. ASSUME ~(\E p \in Participants : CCommitment(p))
        PROVE  UNCHANGED commitments
    BY <1>6
    DEF Coordinator, CMessage, CDeadline, CSkip, CAnswer, CReveal, CBadReveal, CFragment,
        CPoll, CCommitDeadline, CRevealTimeout, CFragmentTimeout, CRequestReveals,
        CRevealsComplete, CValidate, CBuild, CBuildFails, CFragmentsComplete, CBroadcast,
        CBroadcastFails, CNotify, CClear, CCrash
  <1> QED
    BY <1>2, <1>4, <1>5, <1>6

\* What the check on the chain bans for.
LEMMA ValidateBans ==
    ASSUME CValidate, NEW p \in Participants
    PROVE  \/ bans'[p] = bans[p] /\ reveals'[p] \in {reveals[p], NoPlan}
           \/ /\ reveals'[p] = NoPlan
              /\ \/ bans'[p].offense = "FakeUtxo"
                 \/ p \in Poor /\ bans'[p].offense = "InsufficientFunds"
  <1>1. PICK verdict \in [Members(reveals) -> Verdicts] :
            LET absent == {q \in Members(reveals) : verdict[q] = "absent"}
                offense == [q \in Poor \cup absent |->
                            IF q \in absent THEN "FakeUtxo" ELSE "InsufficientFunds"]
            IN  /\ bans' = [q \in Participants |->
                              IF q \in DOMAIN offense THEN PermanentBan(offense[q])
                                                      ELSE bans[q]]
                /\ RemoveInvalid(verdict, Batch)
    BY DEF CValidate
  <1> DEFINE absent == {q \in Members(reveals) : verdict[q] = "absent"}
             offense == [q \in Poor \cup absent |->
                            IF q \in absent THEN "FakeUtxo" ELSE "InsufficientFunds"]
  <1>2. reveals'[p] = IF p \in Invalid(verdict) THEN NoPlan ELSE reveals[p]
    BY <1>1 DEF RemoveInvalid
  <1>3. p \in Poor \cup absent => p \in Invalid(verdict)
    BY DEF Invalid
  <1>4. DOMAIN offense = Poor \cup absent
    OBVIOUS
  <1>5. bans'[p] = IF p \in Poor \cup absent THEN PermanentBan(offense[p]) ELSE bans[p]
    BY <1>1, <1>4
  <1>6. CASE p \in absent
    BY <1>2, <1>3, <1>5, <1>6 DEF PermanentBan
  <1>7. CASE p \in Poor \ absent
    BY <1>2, <1>3, <1>5, <1>7 DEF PermanentBan
  <1>8. CASE p \notin Poor \cup absent
    BY <1>2, <1>5, <1>8
  <1> QED
    BY <1>6, <1>7, <1>8

\* The first commitment of a participant is kept.
LEMMA FirstCommitmentKept ==
    ASSUME TypeOK, Coordinator \/ CCrash, NEW q \in Participants, commitments[q] # NoPlan
    PROVE  commitments'[q] = commitments[q]
  <1>1. ASSUME NEW p \in Participants, CCommitment(p)
        PROVE  commitments'[q] = commitments[q]
    <2>1. commitments[p] = NoPlan /\ commitments' = [commitments EXCEPT ![p] = Current(p).plan]
      BY <1>1 DEF CCommitment, Relevant
    <2> QED
      BY <2>1 DEF TypeOK
  <1>2. ASSUME ~(\E p \in Participants : CCommitment(p))
        PROVE  UNCHANGED commitments
    BY <1>2
    DEF Coordinator, CMessage, CDeadline, CSkip, CAnswer, CReveal, CBadReveal, CFragment,
        CPoll, CCommitDeadline, CRevealTimeout, CFragmentTimeout, CRequestReveals,
        CRevealsComplete, CValidate, CBuild, CBuildFails, CFragmentsComplete, CBroadcast,
        CBroadcastFails, CNotify, CClear, CCrash
  <1> QED
    BY <1>1, <1>2

LEMMA BansDeservedStep ==
    ASSUME TypeOK, TemplateAsCommitted, DesertInv, Coordinator \/ CCrash
    PROVE  PermanentBansDeserved'
  <1> SUFFICES ASSUME NEW q \in Participants
               PROVE  /\ bans'[q].offense = "InsufficientFunds" =>
                            q \in Bypassing /\ commitments[q] \in Underfunded
                      /\ bans'[q].offense = "InvalidCommitment" => runs[q] > 1
    <2>1. UNCHANGED runs
      BY CoordinatorStep DEF Listens
    <2>2. \A q \in Participants :
            commitments[q] \in Underfunded => commitments'[q] = commitments[q]
      BY FirstCommitmentKept, PlanAssumption
    <2> QED
      BY <2>1, <2>2 DEF PermanentBansDeserved
  <1>1. CASE bans'[q] = bans[q]
    BY <1>1 DEF DesertInv, PermanentBansDeserved
  <1>2. ASSUME NEW p \in Participants, CBadReveal(p)
        PROVE  bans'[q] = bans[q] \/ (runs[q] > 1 /\ bans'[q].offense = "InvalidCommitment")
    <2>1. CASE q \in {p} \cap Members(commitments)
      <3>1. /\ commitments[p] # NoPlan /\ q = p /\ Current(p).plan # commitments[p]
            /\ Offered(p) /\ Current(p).type = "Reveal"
        BY <1>2, <2>1 DEF CBadReveal, Members, Opens
      <3>2. Promised(p, Batch, Current(p).plan) /\ Promised(p, Batch, commitments[p])
        BY <3>1, CurrentPromised DEF DesertInv, CommittedPromised
      <3>3. runs[p] > 1
        BY <3>1, <3>2, TwoPromises
      <3>4. bans'[q] = Sentenced(q, "InvalidCommitment")
        BY <1>2, <2>1 DEF CBadReveal, Punish
      <3> QED
        BY <3>1, <3>3, <3>4, SentencedFor
    <2>2. CASE q \notin {p} \cap Members(commitments)
      BY <1>2, <2>2 DEF CBadReveal, Punish
    <2> QED
      BY <2>1, <2>2
  <1>3. CASE CRevealTimeout \/ CFragmentTimeout
    <2>1. \/ bans'[q] = bans[q]
          \/ bans'[q] = Sentenced(q, "FailedToReveal")
          \/ bans'[q] = Sentenced(q, "FailedToSign")
      BY <1>3 DEF CRevealTimeout, CFragmentTimeout, Punish
    <2> QED
      BY <1>1, <2>1, SentencedFor
  <1>4. CASE CValidate
    <2>1. ASSUME q \in Poor
          PROVE  q \in Bypassing /\ commitments[q] \in Underfunded
      <3>1. reveals[q] # NoPlan /\ reveals[q] \in Underfunded
        BY <2>1 DEF Poor, Members
      <3>2. reveals[q] = commitments[q] /\ Promised(q, Batch, reveals[q])
        BY <3>1 DEF TemplateAsCommitted, Members, DesertInv, CommittedPromised
      <3> QED
        BY <3>1, <3>2 DEF Promised, PassesLocally
    <2> QED
      BY <1>1, <1>4, <2>1, ValidateBans
  <1>5. ASSUME ~(\E p \in Participants : CBadReveal(p)),
               ~CRevealTimeout, ~CFragmentTimeout, ~CValidate
        PROVE  UNCHANGED bans
    BY <1>5
    DEF Coordinator, CMessage, CDeadline, CSkip, CAnswer, CReveal, CCommitment, CFragment,
        CPoll, CCommitDeadline, CRequestReveals, CRevealsComplete, CBuild, CBuildFails,
        CFragmentsComplete, CBroadcast, CBroadcastFails, CNotify, CClear, CCrash
  <1> QED
    BY <1>1, <1>2, <1>3, <1>4, <1>5

LEMMA ParticipantDesertStep ==
    ASSUME BatchTypeInv, DesertInv, NEW p \in Participants,
           ParticipantRuns(p) \/ ParticipantStarts(p)
    PROVE  DesertInv'
  <1>1. ParticipantMoves(p) /\ UNCHANGED cvars
    BY ParticipantTypeStep
  <1>2. PromisesKept'
    BY <1>1, PeersOfBatch, ParticipantKeepsPromises DEF cvars, DesertInv
  <1>3. CommittedPromised'
    BY <1>1, PeersOfBatch, ParticipantKeepsBound DEF cvars, DesertInv, CommittedPromised
  <1>4. PermanentBansDeserved'
    BY <1>1, PeersOfBatch, RunsGrow DEF cvars, DesertInv, PermanentBansDeserved
  <1> QED
    BY <1>2, <1>3, <1>4 DEF DesertInv

LEMMA DesertInvariant == Spec => []DesertInv
  <1>1. BatchTypeInv /\ TemplateAsCommitted /\ DesertInv /\ [Next]_vars => DesertInv'
    <2> SUFFICES ASSUME BatchTypeInv, TemplateAsCommitted, DesertInv, [Next]_vars
                 PROVE  DesertInv'
      OBVIOUS
    <2>1. CASE Coordinator \/ CCrash
      BY <2>1, CommittedPromisedStep, BansDeservedStep DEF BatchTypeInv, DesertInv
    <2>2. ASSUME NEW p \in Participants, ParticipantRuns(p) \/ ParticipantStarts(p)
          PROVE  DesertInv'
      BY <2>2, ParticipantDesertStep
    <2>3. CASE Finished \/ UNCHANGED vars
      BY <2>3
      DEF Finished, vars, pvars, cvars, DesertInv, PromisesKept, CommittedPromised,
          PermanentBansDeserved, Promised, Bound, PassesLocally
    <2> QED
      BY <2>1, <2>2, <2>3 DEF Next
  <1> QED
    BY DesertInit, <1>1, TypeInvariant, TemplateCommitted, PTL DEF Spec

\* The bans that never end hit nobody who has played by the rules: only a client that
\* skips its own validation is banned for lack of funds, and only one that was started
\* more than once for a reveal that does not open its commitment, whatever is lost,
\* late, erased or read again.
THEOREM Deserved == Spec => []PermanentBansDeserved
  <1>1. DesertInv => PermanentBansDeserved
    BY DEF DesertInv
  <1> QED
    BY DesertInvariant, <1>1, PTL

------------------------------------------------------------------------------
(* Good standing.                                                            *)

\* A signature that counts is of somebody who is not banned, and the bans stay as they
\* are once all signatures are there.
StandingInv ==
    /\ landed => cpc \in {"notify", "clear", "done", "failed"}
    /\ cpc = "sign" => \A p \in Signers : ~IsBanned(bans[p], 0)
    /\ MembersInGoodStanding

LEMMA StandingInit == Init => StandingInv
  BY DEF Init, PeersInit, StandingInv, MembersInGoodStanding

\* With every signature there is nobody left to punish for a missing one.
LEMMA StandingStep ==
    ASSUME TypeOK, QuorumInv, StandingInv, Coordinator \/ CCrash
    PROVE  StandingInv'
  <1> DEFINE Sent == {"broadcast", "notify", "clear", "done"}
  <1>1. Signers # {} => cpc \notin Early
    BY DEF QuorumInv, TemplateOfReveals, Members, NoContents
  <1>2. ASSUME cpc \in Early, cpc' \in Early \cup {"failed"}, UNCHANGED landed
        PROVE  StandingInv'
    BY <1>2 DEF StandingInv, MembersInGoodStanding, Early
  <1>3. ASSUME NEW p \in Participants, CFragment(p)
        PROVE  StandingInv'
    <2>1. /\ cpc = "sign" /\ cpc' = "sign" /\ ~IsBanned(bans[p], 0)
          /\ UNCHANGED <<bans, template, landed>>
          /\ \A q \in Participants \ {p} : fragments'[q] = fragments[q]
      BY <1>3 DEF CFragment, Relevant, KeepFragment, TypeOK, PeersTypeOK
    <2> QED
      BY <2>1 DEF StandingInv, MembersInGoodStanding, Signers
  <1>4. CASE CFragmentTimeout \/ CFragmentsComplete
    <2>1. /\ cpc = "sign" /\ UNCHANGED <<reveals, template, fragments, landed>>
          /\ cpc' = IF EnoughFragments /\ AllSigned THEN "broadcast" ELSE "failed"
      BY <1>4 DEF CFragmentTimeout, CFragmentsComplete, AfterFragments
    <2>2. CASE ~(EnoughFragments /\ AllSigned)
      BY <2>1, <2>2 DEF StandingInv, MembersInGoodStanding
    <2>3. CASE EnoughFragments /\ AllSigned
      <3>1. Members(template) \subseteq Signers /\ template = reveals
        BY <2>1, <2>3 DEF AllSigned, Members, Signers, QuorumInv, TemplateOfReveals
      <3>2. \A q \in Members(template) : bans'[q] = bans[q]
        BY <1>4, <3>1 DEF CFragmentTimeout, CFragmentsComplete, Punish, Members
      <3> QED
        BY <2>1, <2>3, <3>1, <3>2 DEF StandingInv, MembersInGoodStanding, Members
    <2> QED
      BY <2>2, <2>3
  <1>5. CASE CBuild
    <2>1. cpc = "build" /\ cpc' = "sign" /\ UNCHANGED <<fragments, landed>>
      BY <1>5 DEF CBuild
    <2> QED
      BY <1>1, <2>1 DEF StandingInv, MembersInGoodStanding, Signers, Early
  <1>6. ASSUME UNCHANGED <<template, fragments, bans>>,
               cpc' \in Sent \/ landed' => cpc \in Sent \/ landed,
               landed' => cpc' \in {"notify", "clear", "done", "failed"},
               cpc' = "sign" => cpc = "sign"
        PROVE  StandingInv'
    BY <1>6 DEF StandingInv, MembersInGoodStanding, Members, Signers
  <1>7. CASE \/ CPoll \/ (\E p \in Participants : CSkip(p)) \/ CBroadcast \/ CBroadcastFails
             \/ CNotify \/ CClear \/ CCrash
    BY <1>6, <1>7
    DEF CPoll, CSkip, CBroadcast, CBroadcastFails, CNotify, CClear, CCrash, AfterRefusal,
        Collecting, Closed, StandingInv
  <1>8. CASE \/ \E p \in Participants :
                    CCommitment(p) \/ CAnswer(p) \/ CReveal(p) \/ CBadReveal(p)
             \/ CCommitDeadline \/ CRequestReveals \/ CRevealsComplete \/ CRevealTimeout
             \/ CValidate \/ CBuildFails
    BY <1>2, <1>8
    DEF CCommitment, CAnswer, CReveal, CBadReveal, Relevant, CCommitDeadline,
        CRequestReveals, CRevealsComplete, CRevealTimeout, CValidate, CBuildFails,
        AfterReveals, Early
  <1> QED
    BY <1>3, <1>4, <1>5, <1>7, <1>8 DEF Coordinator, CMessage, CDeadline

LEMMA StandingInvariant == Spec => []StandingInv
  <1>1. BatchTypeInv /\ QuorumInv /\ StandingInv /\ [Next]_vars => StandingInv'
    <2> SUFFICES ASSUME BatchTypeInv, QuorumInv, StandingInv, [Next]_vars
                 PROVE  StandingInv'
      OBVIOUS
    <2>1. CASE Coordinator \/ CCrash
      BY <2>1, StandingStep DEF BatchTypeInv
    <2>2. ASSUME UNCHANGED cvars
          PROVE  StandingInv'
      BY <2>2 DEF StandingInv, MembersInGoodStanding, Members, Signers, cvars
    <2> QED
      BY <2>1, <2>2
      DEF Next, ParticipantRuns, ParticipantStarts, Finished, vars
  <1> QED
    BY StandingInit, <1>1, TypeInvariant, QuorumInvariant, PTL DEF Spec

\* MembersInGoodStanding: nobody in a transaction that is sent is banned, also where a
\* participant offends after its reveal was accepted.  Its signature is ignored from
\* then on, and a transaction is sent only with the signatures of all its members.
THEOREM GoodStanding == Spec => []MembersInGoodStanding
  <1>1. StandingInv => MembersInGoodStanding
    BY DEF StandingInv
  <1> QED
    BY <1>1, StandingInvariant, PTL

------------------------------------------------------------------------------
(* Nobody is punished for nothing.                                           *)

\* Who is not started again is started once.
LEMMA StartedOnce == Spec => [](\A p \in Participants \ Returning : runs[p] <= 1)
  <1> DEFINE Once == \A p \in Participants \ Returning : runs[p] <= 1
  <1>1. Init => Once
    BY DEF Init, PeersInit, ParticipantInit
  <1>2. BatchTypeInv /\ Once /\ [Next]_vars => Once'
    <2> SUFFICES ASSUME BatchTypeInv, Once, [Next]_vars
                 PROVE  Once'
      OBVIOUS
    <2>1. ASSUME NEW p \in Participants, ParticipantRuns(p) \/ ParticipantStarts(p)
          PROVE  Once'
      BY <2>1, ParticipantTypeStep, PeersOfBatch, RunsGrow
    <2>2. CASE Coordinator \/ CCrash
      BY <2>2, CoordinatorStep DEF BatchTypeInv, Listens
    <2> QED
      BY <2>1, <2>2 DEF Next, Finished, vars, pvars
  <1> QED
    BY <1>1, <1>2, TypeInvariant, PTL DEF Spec

\* Up to here a batch can still hold a participant to account.
Open == Early \cup {"sign"}

\* What p has said, and what of it the coordinator has not handled yet.
Said(p) == Items(toCoord[p].sent) \cup Items(inbox[p])
Pending(p) == Items(Unread(toCoord[p])) \cup Items(inbox[p])

Unpunished ==
    /\ known = Participants
    /\ bans = [p \in Participants |->
                IF p \in Offenders THEN TemporaryBan(0, 1, "FailedToReveal")
                                   ELSE NoBan]

\* Before the coordinator asks for reveals, whoever has committed waits for that.
Gathered(p) ==
    cpc \in {"commit", "request"} =>
        /\ reveals[p] = NoPlan
        /\ \A m \in Items(toPart[p].sent) : m.type = "CurrentIntent"
        /\ \A m \in Said(p) : m.type # "Reveal"
        /\ commitments[p] # NoPlan \/ (\E m \in Said(p) : Promises(m)) =>
            ppc[p] = "awaitRequest"

\* Whoever has committed is not banned, is asked as one who has, and is not rejected.
Welcome(p) ==
    commitments[p] # NoPlan =>
        /\ p \notin Offenders
        /\ cpc \in Open => \A m \in Items(toPart[p].sent) :
            /\ m.type # "Reject"
            /\ m.type = "RequestReveal" => p \in m.committed

\* A reveal that is missing has been asked for, or is on its way, ...
Revealing(p) ==
    cpc \in {"reveal", "validate", "build"} /\ commitments[p] # NoPlan =>
        /\ reveals[p] # NoPlan \/ (\E m \in Said(p) : m.type = "Reveal") =>
            ppc[p] = "awaitTemplate"
        /\ cpc = "reveal" /\ reveals[p] = NoPlan =>
            \/ /\ ppc[p] = "awaitRequest"
               /\ \E m \in Items(News(p)) : m.type = "RequestReveal"
            \/ \E m \in Pending(p) : m.type = "Reveal"

\* ... and so is a fragment.
Signing(p) ==
    cpc = "sign" /\ reveals[p] # NoPlan /\ fragments[p] = "none" =>
        \/ ppc[p] = "awaitTemplate" /\ \E m \in Items(News(p)) : m.type = "Template"
        \/ \E m \in Pending(p) : m.type = "SigFragment"

Served(p) == Gathered(p) /\ Welcome(p) /\ Revealing(p) /\ Signing(p)

FairInv == Unpunished /\ (\A p \in Participants : Served(p))

\* What the other invariants say of it.
StartedAtMostOnce == \A p \in Participants : runs[p] <= 1

Known ==
    /\ BatchTypeInv /\ TemplateAsCommitted /\ SpendInv /\ QuorumInv /\ AcceptInv
    /\ DesertInv /\ WellRead /\ StartedAtMostOnce

Faultless == Faults = {} /\ Returning = {} /\ Bypassing = {}

LEMMA NoFault ==
    ASSUME Faultless
    PROVE  \A f : ~May(f)
  BY DEF Faultless, May

LEMMA FairInit == Init => FairInv
  <1> SUFFICES ASSUME Init
               PROVE  FairInv
    OBVIOUS
  <1>1. Unpunished
    BY DEF Init, PeersInit, Unpunished
  <1>2. ASSUME NEW p \in Participants
        PROVE  Served(p)
    <2>1. Items(toPart[p].sent) = {} /\ Items(toCoord[p].sent) = {} /\ Items(inbox[p]) = {}
      BY EmptyHalfTyped, EmptyInboxTyped DEF Init, PeersInit, ParticipantInit
    <2>2. cpc = "commit" /\ commitments[p] = NoPlan /\ reveals[p] = NoPlan
      BY DEF Init, PeersInit, NoContents
    <2> QED
      BY <2>1, <2>2 DEF Served, Gathered, Welcome, Revealing, Signing, Said
  <1> QED
    BY <1>1, <1>2 DEF FairInv

------------------------------------------------------------------------------
\* A message the coordinator still needs of p.
Needed(p, m) ==
    \/ cpc = "reveal" /\ m.type = "Reveal" /\ commitments[p] # NoPlan
    \/ cpc = "sign" /\ m.type = "SigFragment" /\ reveals[p] # NoPlan

\* A step that changes nothing of p but that unneeded messages are handled.
LEMMA ServedStays ==
    ASSUME NEW p, Served(p),
           ppc'[p] = ppc[p], toPart'[p] = toPart[p], commitments'[p] = commitments[p],
           reveals'[p] = reveals[p], fragments'[p] = fragments[p], cpc' = cpc,
           Said(p)' \subseteq Said(p),
           \A m \in Pending(p) : m \in Pending(p)' \/ ~Needed(p, m)
    PROVE  Served(p)'
  <1>1. News(p)' = News(p)
    BY DEF News
  <1>2. Gathered(p)'
    BY DEF Served, Gathered
  <1>3. Welcome(p)'
    BY DEF Served, Welcome
  <1>4. Revealing(p)'
    BY <1>1 DEF Served, Revealing, Needed
  <1>5. Signing(p)'
    BY <1>1 DEF Served, Signing, Needed
  <1> QED
    BY <1>2, <1>3, <1>4, <1>5 DEF Served

\* When the batch is over nobody owes anything.
LEMMA ServedOver ==
    ASSUME NEW p, Served(p), cpc' \notin Open, commitments'[p] = commitments[p]
    PROVE  Served(p)'
  BY DEF Served, Gathered, Welcome, Revealing, Signing, Open, Early

\* Nor does a participant that has not committed.
LEMMA ServedFree ==
    ASSUME NEW p, commitments'[p] = NoPlan, reveals'[p] = NoPlan,
           cpc' \in {"commit", "request"} => Gathered(p)'
    PROVE  Served(p)'
  BY DEF Served, Gathered, Welcome, Revealing, Signing

------------------------------------------------------------------------------
(* The participants.                                                         *)

\* Whoever has promised something was started once, stands by that and is past
\* making up its mind.
LEMMA PromiseStands ==
    ASSUME Known, Faultless, NEW p \in Participants, NEW x, Promised(p, Batch, x)
    PROVE  /\ runs[p] = 1 /\ ppc[p] \notin Undecided
           /\ plan[p] = x /\ x \notin Underfunded \cup Malformed
  <1>1. runs[p] \in Nat /\ runs[p] <= 1
    BY RetryAssumption
    DEF Known, StartedAtMostOnce, BatchTypeInv, TypeOK, PeersTypeOK, ParticipantTypeOK
  <1> QED
    BY <1>1 DEF Promised, Bound, PassesLocally, Faultless

\* What is said is of this batch.
LEMMA SaidPromised ==
    ASSUME Known, NEW p \in Participants, NEW m \in Said(p), Promises(m)
    PROVE  Promised(p, Batch, m.plan)
  <1>1. m \in Outgoing
    <2>1. toCoord[p] \in Halves(Outgoing) /\ inbox[p] \in Seq(Outgoing)
      BY DEF Known, BatchTypeInv, TypeOK, PeersTypeOK, ParticipantTypeOK
    <2> QED
      BY <2>1, HalfTyped, ItemsTyped DEF Said
  <1>2. m.intent = Batch
    BY <1>1, BatchAssumption DEF Promises, Outgoing
  <1> QED
    BY <1>2 DEF Known, DesertInv, PromisesKept, Said

LEMMA CommitmentStands ==
    ASSUME Known, Faultless, NEW p \in Participants, commitments[p] # NoPlan
    PROVE  /\ runs[p] = 1 /\ ppc[p] \notin Undecided
           /\ plan[p] = commitments[p]
           /\ commitments[p] \notin Underfunded \cup Malformed
           /\ reveals[p] \in {NoPlan, plan[p]}
  <1>1. Promised(p, Batch, commitments[p])
    BY DEF Known, DesertInv, CommittedPromised
  <1>2. reveals[p] \in {NoPlan, commitments[p]}
    BY DEF Known, TemplateAsCommitted, Members
  <1> QED
    BY <1>1, <1>2, PromiseStands

LEMMA RevealCommitted ==
    ASSUME Known, NEW p \in Participants, reveals[p] # NoPlan
    PROVE  commitments[p] = reveals[p]
  BY DEF Known, TemplateAsCommitted, Members

\* Who has not made up its mind has neither committed nor promised anything.
LEMMA UndecidedFree ==
    ASSUME Known, Faultless, NEW p \in Participants, ppc[p] \in Undecided
    PROVE  /\ commitments[p] = NoPlan /\ reveals[p] = NoPlan
           /\ \A m \in Said(p) : ~Promises(m)
  <1>1. commitments[p] = NoPlan
    BY CommitmentStands
  <1>2. ASSUME NEW m \in Said(p), Promises(m)
        PROVE  FALSE
    BY <1>2, SaidPromised, PromiseStands
  <1> QED
    BY <1>1, <1>2, RevealCommitted

\* It owes nothing yet, and only a commitment that it then stands by changes that.
LEMMA UndecidedServed ==
    ASSUME Known, Faultless, NEW p \in Participants, Served(p), UNCHANGED cvars,
           ppc[p] \in Undecided,
           Items(toPart'[p].sent) = Items(toPart[p].sent),
           \A m \in Items(toCoord'[p].sent) :
                \/ m \in Items(toCoord[p].sent)
                \/ ~Promises(m)
                \/ m.type = "Commitment" /\ ppc'[p] = "awaitRequest"
    PROVE  Served(p)'
  <1>1. commitments[p] = NoPlan /\ reveals[p] = NoPlan /\ \A m \in Said(p) : ~Promises(m)
    BY UndecidedFree
  <1>2. \A m \in Said(p)' :
            ~Promises(m) \/ (m.type = "Commitment" /\ ppc'[p] = "awaitRequest")
    BY <1>1 DEF Said, cvars
  <1>3. cpc \in {"commit", "request"} => Gathered(p)'
    BY <1>1, <1>2 DEF Served, Gathered, Promises, cvars
  <1> QED
    BY <1>1, <1>3, ServedFree DEF cvars

\* A step of a participant that hears something changes neither half's messages but
\* those it sends itself.
LEMMA UndecidedStep ==
    ASSUME Known, Faultless, NEW p \in Participants, Served(p), UNCHANGED cvars,
           ParticipantMoves(p), ppc[p] \in Undecided
    PROVE  Served(p)'
  <1>1. ParticipantInv /\ PeersInv
    BY PeersOfBatch DEF Known, PeersInv, PeersTypeOK, ParticipantInv
  <1>2. Items(toPart'[p].sent) = Items(toPart[p].sent)
    BY <1>1, ParticipantOnlyReads
  <1>3. ASSUME \A m \in Items(toCoord'[p].sent) : m \in Items(toCoord[p].sent) \/ ~Promises(m)
        PROVE  Served(p)'
    BY <1>2, <1>3, UndecidedServed
  <1>4. CASE PLaunch(p)
    BY <1>1, <1>3, <1>4, LaunchStep
  <1>5. CASE PQuery(p)
    <2>1. ~Promises(Query)
      BY DEF Promises, Query
    <2> QED
      BY <1>1, <1>3, <1>5, <2>1, QueryStep
  <1>6. CASE PCommit(p)
    <2>1. PICK x \in Plans :
            IF PassesLocally(p, x)
            THEN SendThen(p, Commitment(joined[p], x), "awaitRequest")
            ELSE Goto(p, "err") /\ UNCHANGED toCoord
      BY <1>6 DEF PCommit
    <2>2. CASE UNCHANGED toCoord
      BY <1>3, <2>2
    <2>3. CASE SendThen(p, Commitment(joined[p], x), "awaitRequest") /\ ~UNCHANGED toCoord
      <3>1. ppc'[p] = "awaitRequest"
        BY <1>1, <2>3 DEF SendThen, Goto, ParticipantInv, ParticipantTypeOK
      <3>2. /\ Commitment(joined[p], x) \in Outgoing
            /\ Commitment(joined[p], x).type = "Commitment"
        BY <1>1, <1>6, OutgoingTyped DEF PCommit, ParticipantInv, Prepared, Commitment
      <3>3. Items(toCoord'[p].sent)
                \subseteq Items(toCoord[p].sent) \cup {Commitment(joined[p], x)}
        BY <1>1, <2>3, <3>2, SendTyped, AwaitedStages
      <3> QED
        BY <1>2, <3>1, <3>2, <3>3, UndecidedServed
    <2> QED
      BY <2>1, <2>2, <2>3
  <1>7. CASE \/ PCrash(p) \/ PSkip(p) \/ PGiveUp(p) \/ PIntent(p) \/ PRejected(p)
             \/ PRefuse(p)
    BY <1>1, <1>3, <1>7, SilentStep
  <1>8. CASE PReveal(p) \/ PSign(p) \/ PFinal(p)
    BY <1>8 DEF PReveal, PSign, PFinal, Hears, Undecided
  <1> QED
    BY <1>4, <1>5, <1>6, <1>7, <1>8 DEF ParticipantMoves, PStep

\* What a message that was heard tells.
LEMMA Heard ==
    ASSUME Known, NEW p \in Participants, Waiting(p), Answered(p), cpc \in Open
    PROVE  /\ Answer(p) \in Items(toPart[p].sent) /\ Answer(p) \in Items(News(p))
           /\ Answer(p).type \in Awaited[ppc[p]]
           /\ Answer(p).type = "Template" => cpc = "sign" /\ Answer(p).contents = template
           /\ Answer(p).type # "FinalTx"
  <1>1. /\ Answer(p) \in Items(toPart[p].sent) /\ Answer(p) \in Items(News(p))
        /\ Answer(p).type \in Awaited[ppc[p]]
    BY AnswerHeard DEF Known, BatchTypeInv, TypeOK, PeersTypeOK
  <1>2. ~landed
    BY DEF Known, SpendInv, LandedSigned, Late, Open, Early
  <1>3. /\ Answer(p).type = "Template" => cpc \notin Early /\ Answer(p).contents = template
        /\ Answer(p).type = "FinalTx" => landed
    BY <1>1 DEF Known, AcceptInv, Told
  <1> QED
    BY <1>1, <1>2, <1>3 DEF Open

\* A participant that has what it waits for is not put off.
LEMMA SkipStep ==
    ASSUME Known, Faultless, NEW p \in Participants, Served(p), UNCHANGED cvars,
           PSkip(p), ppc[p] \notin Undecided, cpc \in Open
    PROVE  Served(p)'
  <1>1. UNCHANGED <<ppc, toCoord>> /\ ~Answered(p) /\ Waiting(p)
    BY DEF PSkip
  <1>2. ParticipantInv
    BY PeersOfBatch DEF Known, PeersInv, PeersTypeOK, ParticipantInv
  <1>3. Items(toPart'[p].sent) = Items(toPart[p].sent)
    BY <1>2, SilentStep
  <1>4. ASSUME NEW m \in Items(News(p)), m.type \in Awaited[ppc[p]],
               ppc[p] \in {"awaitRequest", "awaitTemplate"}
        PROVE  FALSE
    <2>1. joined[p] = Batch
      BY <1>2, <1>4, BatchAssumption DEF ParticipantInv, Prepared
    <2>2. m \in Incoming
      BY <1>2, UnreadItems, ItemsTyped DEF News, ParticipantInv, ParticipantTypeOK
    <2>3. m.intent \in Awaits(p)
      BY <1>4, <2>1, <2>2, IncomingIntent, BatchAssumption DEF Awaits
    <2> QED
      BY <1>1, <1>2, <1>4, <2>3, FindsAnswer DEF ParticipantInv
  <1>5. Said(p)' = Said(p) /\ Pending(p)' = Pending(p)
    BY <1>1 DEF Said, Pending, cvars
  <1>6. Gathered(p)' /\ Welcome(p)'
    BY <1>1, <1>3, <1>5 DEF Served, Gathered, Welcome, cvars, Open, Early
  <1>7. Revealing(p)'
    <2>1. ~(ppc[p] = "awaitRequest" /\ \E m \in Items(News(p)) : m.type = "RequestReveal")
      BY <1>4, AwaitedStages
    <2> QED
      BY <1>1, <1>5, <2>1 DEF Served, Revealing, cvars
  <1>8. Signing(p)'
    <2>1. ~(ppc[p] = "awaitTemplate" /\ \E m \in Items(News(p)) : m.type = "Template")
      BY <1>4, AwaitedStages
    <2> QED
      BY <1>1, <1>5, <2>1 DEF Served, Signing, cvars
  <1> QED
    BY <1>6, <1>7, <1>8 DEF Served

\* What is sent without a fault is to be handled.
LEMMA SendsWithoutFault ==
    ASSUME Known, Faultless, NEW p \in Participants, NEW m \in Outgoing, NEW stage,
           SendThen(p, m, stage), UNCHANGED inbox
    PROVE  /\ ppc'[p] = stage
           /\ Said(p)' = Said(p) \cup {m}
           /\ Pending(p) \cup {m} \subseteq Pending(p)'
  <1>1. toCoord' = [toCoord EXCEPT ![p] = Post(@, m)] /\ ppc' = [ppc EXCEPT ![p] = stage]
    BY NoFault DEF SendThen, Goto
  <1>2. /\ toCoord[p] \in Halves(Outgoing) /\ Within(toCoord[p])
        /\ toCoord'[p] = Post(toCoord[p], m) /\ ppc'[p] = stage
    BY <1>1 DEF Known, BatchTypeInv, TypeOK, PeersTypeOK, ParticipantTypeOK, WellRead
  <1>3. Items(toCoord'[p].sent) = Items(toCoord[p].sent) \cup {m}
    <2>1. toCoord[p] \in Halves(Outgoing)
      BY <1>2
    <2>2. /\ Post(toCoord[p], m) \in Halves(Outgoing)
          /\ Items(Post(toCoord[p], m).sent) = Items(toCoord[p].sent) \cup {m}
      <3> DEFINE half == toCoord[p]
      <3> HIDE DEF half
      <3>1. half \in Halves(Outgoing)
        BY <2>1 DEF half
      <3>2. /\ Post(half, m) \in Halves(Outgoing)
            /\ Items(Post(half, m).sent) = Items(half.sent) \cup {m}
        BY <3>1, PostAdds
      <3> QED
        BY <3>2 DEF half
    <2> QED
      BY <1>2, <2>2
  <1>4. Items(Unread(toCoord[p])) \cup {m} \subseteq Items(Unread(toCoord'[p]))
    BY <1>2, PostUnread
  <1> QED
    BY <1>2, <1>3, <1>4 DEF Said, Pending

\* Whoever is asked for its reveal reveals.
LEMMA RevealServed ==
    ASSUME Known, Faultless, NEW p \in Participants, Served(p), UNCHANGED cvars,
           PReveal(p), cpc \in Open
    PROVE  Served(p)'
  <1>1. ParticipantInv
    BY PeersOfBatch DEF Known, PeersInv, PeersTypeOK, ParticipantInv
  <1>2. ppc[p] = "awaitRequest" /\ Answered(p) /\ Answer(p).type = "RequestReveal"
    BY DEF PReveal, Hears
  <1>3. Answer(p) \in Items(toPart[p].sent)
    BY <1>1, <1>2, AnswerHeard DEF ParticipantInv
  <1>4. cpc \notin {"commit", "request"}
    BY <1>2, <1>3 DEF Served, Gathered
  <1>5. CASE commitments[p] = NoPlan
    BY <1>4, <1>5, RevealCommitted, ServedFree DEF cvars
  <1>6. CASE commitments[p] # NoPlan
    <2>1. p \in Answer(p).committed
      BY <1>2, <1>3, <1>6 DEF Served, Welcome
    <2> DEFINE m == Reveal(joined[p], plan[p])
    <2>2. m \in Outgoing /\ m.type = "Reveal"
      BY <1>1, <1>2, OutgoingTyped DEF ParticipantInv, Prepared, Reveal
    <2>3. SendThen(p, m, "awaitTemplate")
      BY <2>1 DEF PReveal
    <2> HIDE DEF m
    <2>4. /\ ppc'[p] = "awaitTemplate" /\ Said(p)' = Said(p) \cup {m}
          /\ Pending(p) \cup {m} \subseteq Pending(p)'
      BY <2>2, <2>3, SendsWithoutFault DEF cvars
    <2>5. Items(toPart'[p].sent) = Items(toPart[p].sent)
      BY <1>1, RevealStep
    <2>6. Gathered(p)' /\ Welcome(p)'
      BY <1>4, <2>5 DEF Served, Gathered, Welcome, cvars, Open, Early
    <2>7. Revealing(p)'
      BY <2>2, <2>4 DEF Revealing, cvars
    <2>8. Signing(p)'
      BY <1>2, <2>4 DEF Served, Signing, cvars
    <2> QED
      BY <2>6, <2>7, <2>8 DEF Served
  <1> QED
    BY <1>5, <1>6

\* Whoever is sent the template signs it: it is what it has revealed.
LEMMA SignServed ==
    ASSUME Known, Faultless, NEW p \in Participants, Served(p), UNCHANGED cvars,
           PSign(p) \/ PRefuse(p), cpc \in Open
    PROVE  Served(p)'
  <1>1. ParticipantInv
    BY PeersOfBatch DEF Known, PeersInv, PeersTypeOK, ParticipantInv
  <1>2. ppc[p] = "awaitTemplate" /\ Answered(p) /\ Answer(p).type = "Template"
    BY DEF PSign, PRefuse, Hears
  <1>3. cpc = "sign" /\ Answer(p).contents = template
    BY <1>2, Heard, AwaitedStages DEF Waiting
  <1>4. Items(toPart'[p].sent) = Items(toPart[p].sent)
    BY <1>1, SignStep, SilentStep
  <1>5. Gathered(p)' /\ Welcome(p)' /\ Revealing(p)'
    BY <1>3, <1>4 DEF Served, Gathered, Welcome, Revealing, cvars, Open, Early
  <1>6. CASE reveals[p] = NoPlan
    BY <1>5, <1>6 DEF Served, Signing, cvars
  <1>7. CASE reveals[p] # NoPlan
    <2>1. Accepts(p, Answer(p).contents)
      <3>1. template = reveals
        BY <1>3 DEF Known, QuorumInv, TemplateOfReveals
      <3>2. reveals[p] = plan[p]
        BY <1>7, RevealCommitted, CommitmentStands
      <3> QED
        BY <1>3, <3>1, <3>2 DEF Accepts, Includes
    <2>2. PSign(p)
      BY <2>1, NoFault DEF PRefuse
    <2>3. PICK c \in BOOLEAN, stage \in {"left", "awaitFinal"} :
            SendThen(p, SigFragment(joined[p], Answer(p).contents, c), stage)
      <3>1. \A c \in {TRUE} \cup (IF May("partial") THEN {FALSE} ELSE {}) : c \in BOOLEAN
        OBVIOUS
      <3> QED
        BY <2>2, <3>1 DEF PSign
    <2> DEFINE m == SigFragment(joined[p], Answer(p).contents, c)
    <2>4. m \in Outgoing /\ m.type = "SigFragment"
      <3>1. joined[p] \in Intents
        BY <1>1, <1>2 DEF ParticipantInv, Prepared
      <3>2. Answer(p).contents \in Contents
        BY <1>3 DEF Known, BatchTypeInv, TypeOK, PeersTypeOK
      <3> QED
        BY <3>1, <3>2, OutgoingTyped DEF SigFragment
    <2> HIDE DEF m
    <2>5. m \in Pending(p)'
      BY <2>3, <2>4, SendsWithoutFault DEF m, cvars
    <2>6. Signing(p)'
      BY <2>4, <2>5 DEF Signing
    <2> QED
      BY <1>5, <2>6 DEF Served
  <1> QED
    BY <1>6, <1>7

\* Whatever a participant does, it is still served.
LEMMA ParticipantServed ==
    ASSUME Known, Faultless, NEW p \in Participants, Served(p), UNCHANGED cvars,
           ParticipantRuns(p) \/ ParticipantStarts(p)
    PROVE  Served(p)'
  <1>1. ParticipantMoves(p)
    BY ParticipantTypeStep DEF Known
  <1>2. CASE ppc[p] \in Undecided
    BY <1>1, <1>2, UndecidedStep
  <1>3. CASE cpc \notin Open
    BY <1>3, ServedOver DEF cvars
  <1>4. ASSUME ppc[p] \notin Undecided, cpc \in Open
        PROVE  Served(p)'
    <2>1. ~PQuery(p) /\ ~PIntent(p) /\ ~PCommit(p) /\ ~PCrash(p)
      BY <1>4, NoFault DEF PQuery, PIntent, PCommit, Hears, PCrash, Undecided
    <2>2. ~PLaunch(p)
      BY <1>4 DEF PLaunch, Faultless, Known, DesertInv, PromisesKept, Undecided
    <2>3. CASE PDeadline(p)
      <3>1. ppc[p] = "awaitFinal" /\ Ignored(p)
        BY <1>4, <2>3, NoFault DEF PDeadline, Undecided, Open, Early, Closed
      <3>2. /\ Pending(p) = {} /\ cpc = "sign"
            /\ Items(toPart'[p].sent) = Items(toPart[p].sent)
        <4>1. \A x \in Items(<<>>) : FALSE
          BY DEF Items
        <4>2. Pending(p) = {}
          BY <3>1, <4>1 DEF Pending, Ignored
        <4>3. cpc \notin Early
          BY <3>1 DEF Known, AcceptInv, Accepted
        <4>4. UNCHANGED toPart
          BY <2>3 DEF PDeadline, PGiveUp
        <4> QED
          BY <1>4, <4>2, <4>3, <4>4 DEF Open
      <3>3. reveals[p] = NoPlan \/ fragments[p] # "none"
        BY <3>1, <3>2 DEF Served, Signing
      <3>4. Signing(p)'
        BY <3>3 DEF Signing, cvars
      <3> QED
        BY <3>2, <3>4 DEF Served, Gathered, Welcome, Revealing, cvars
    <2>4. ~PFinal(p)
      <3>1. PFinal(p) => ppc[p] = "awaitFinal" /\ Answered(p)
        BY DEF PFinal
      <3> QED
        BY <1>4, <3>1, Heard, AwaitedStages DEF Waiting
    <2>5. CASE PRejected(p)
      <3>1. /\ ppc[p] \in {"awaitRequest", "awaitTemplate"} /\ Answered(p)
            /\ Answer(p).type = "Reject"
        BY <2>5 DEF PRejected, Hears
      <3>2. Answer(p) \in Items(toPart[p].sent)
        BY <1>4, <3>1, Heard, AwaitedStages DEF Waiting
      <3>3. commitments[p] = NoPlan
        BY <1>4, <3>1, <3>2 DEF Served, Welcome
      <3>4. cpc \notin {"commit", "request"}
        BY <3>1, <3>2 DEF Served, Gathered
      <3> QED
        BY <3>3, <3>4, RevealCommitted, ServedFree DEF cvars
    <2>6. CASE PSkip(p) \/ PReveal(p) \/ PSign(p) \/ PRefuse(p)
      BY <1>4, <2>6, SkipStep, RevealServed, SignServed
    <2> QED
      BY <2>1, <2>2, <2>3, <2>4, <2>5, <2>6
      DEF ParticipantRuns, ParticipantStarts, PStep
  <1> QED
    BY <1>2, <1>3, <1>4

------------------------------------------------------------------------------
(* The coordinator.                                                          *)

\* Nobody who is in the batch is banned, so its messages are handled.
LEMMA InTheBatch ==
    ASSUME Known, FairInv, NEW p \in Participants,
           commitments[p] # NoPlan \/ reveals[p] # NoPlan
    PROVE  commitments[p] # NoPlan /\ p \notin Offenders /\ ~IsBanned(bans[p], 0)
  <1>1. commitments[p] # NoPlan
    BY RevealCommitted
  <1>2. p \notin Offenders
    BY <1>1 DEF FairInv, Served, Welcome
  <1> QED
    BY <1>1, <1>2 DEF FairInv, Unpunished, NoBan, IsBanned

LEMMA BannedOffenders ==
    ASSUME Unpunished, NEW p \in Offenders, p \in Participants
    PROVE  IsBanned(bans[p], 0)
  BY DEF Unpunished, TemporaryBan, IsBanned

\* A message that is taken and was not needed.
LEMMA TakenServed ==
    ASSUME Known, FairInv, NEW p \in Participants, Offered(p), Take(p),
           UNCHANGED <<ppc, toCoord, cpc>>,
           NEW q \in Participants,
           toPart'[q] = toPart[q], commitments'[q] = commitments[q],
           reveals'[q] = reveals[q], fragments'[q] = fragments[q],
           q = p => ~Needed(p, Current(p))
    PROVE  Served(q)'
  <1>1. PeersTypeOK
    BY DEF Known, BatchTypeInv, TypeOK
  <1>2. /\ \A r \in Participants \ {p} : inbox'[r] = inbox[r]
        /\ \A m \in Items(inbox[p]) : m = Current(p) \/ m \in Items(inbox'[p])
    BY <1>1, TakesOne
  <1>3. Items(inbox'[q]) \subseteq Items(inbox[q])
    BY <1>1, TakeTyped
  <1>4. Said(q)' \subseteq Said(q)
    BY <1>3 DEF Said
  <1>5. \A m \in Pending(q) : m \in Pending(q)' \/ ~Needed(q, m)
    BY <1>2 DEF Pending
  <1>6. Served(q)
    BY DEF FairInv
  <1> QED
    BY <1>4, <1>5, <1>6, ServedStays

LEMMA SkipServed ==
    ASSUME Known, FairInv, NEW p \in Participants, CSkip(p)
    PROVE  FairInv'
  <1>1. /\ Offered(p) /\ ~Relevant(p) /\ Take(p)
        /\ UNCHANGED <<pvars, cpc, commitments, reveals, template, fragments, bans, known>>
    BY DEF CSkip
  <1>2. ~Needed(p, Current(p))
    BY <1>1, InTheBatch DEF Needed, Relevant
  <1>3. ASSUME NEW q \in Participants
        PROVE  Served(q)'
    BY <1>1, <1>2, TakenServed DEF pvars
  <1> QED
    BY <1>1, <1>3 DEF FairInv, Unpunished

LEMMA CommitmentServed ==
    ASSUME Known, FairInv, NEW p \in Participants, CCommitment(p)
    PROVE  FairInv'
  <1>1. /\ cpc = "commit" /\ cpc' \in {"commit", "request"} /\ Offered(p)
        /\ Current(p).type = "Commitment" /\ ~IsBanned(bans[p], 0)
        /\ UNCHANGED <<ppc, toCoord, toPart, reveals, fragments, bans, known>>
        /\ commitments' = [commitments EXCEPT ![p] = Current(p).plan]
    BY DEF CCommitment, Relevant, pvars
  <1>2. PeersTypeOK
    BY DEF Known, BatchTypeInv, TypeOK
  <1>3. Current(p) \in Said(p)
    BY <1>1, <1>2, CurrentTyped DEF Said
  <1>4. p \notin Offenders
    BY <1>1, BannedOffenders DEF FairInv
  <1>5. ASSUME NEW q \in Participants
        PROVE  Items(inbox'[q]) \subseteq Items(inbox[q])
    BY <1>1, <1>2, TakeTyped DEF CCommitment
  <1>6. ASSUME NEW q \in Participants
        PROVE  Served(q)'
    <2>1. Gathered(q) /\ Welcome(q)
      BY DEF FairInv, Served
    <2>2. commitments'[q] = IF q = p THEN Current(p).plan ELSE commitments[q]
      BY <1>1 DEF Known, BatchTypeInv, TypeOK, Contents
    <2>3. Said(q)' \subseteq Said(q)
      BY <1>1, <1>5 DEF Said
    <2>4. Gathered(q)'
      BY <1>1, <1>3, <2>1, <2>2, <2>3 DEF Gathered, Promises
    <2>5. Welcome(q)'
      BY <1>1, <1>4, <2>1, <2>2 DEF Welcome, Gathered
    <2> QED
      BY <1>1, <2>4, <2>5 DEF Served, Revealing, Signing
  <1> QED
    BY <1>1, <1>6 DEF FairInv, Unpunished

LEMMA AnswerServed ==
    ASSUME Known, FairInv, NEW p \in Participants, CAnswer(p)
    PROVE  FairInv'
  <1>1. /\ cpc = "commit" /\ Offered(p) /\ Take(p)
        /\ SendAll({p}, CurrentIntent(Batch))
        /\ UNCHANGED <<ppc, toCoord, cpc, commitments, reveals, fragments, bans, known>>
    BY DEF CAnswer, Relevant
  <1>2. PeersTypeOK
    BY DEF Known, BatchTypeInv, TypeOK
  <1>3. ASSUME NEW q \in Participants
        PROVE  /\ Items(inbox'[q]) \subseteq Items(inbox[q])
               /\ Items(toPart'[q].sent)
                    \subseteq Items(toPart[q].sent) \cup {CurrentIntent(Batch)}
    BY <1>1, <1>2, TakeTyped, SendAllTyped, IntentsTyped, IncomingTyped
  <1>4. CurrentIntent(Batch).type = "CurrentIntent"
    BY DEF CurrentIntent
  <1>5. ASSUME NEW q \in Participants
        PROVE  Served(q)'
    <2>1. Gathered(q) /\ Welcome(q)
      BY DEF FairInv, Served
    <2>2. Said(q)' \subseteq Said(q)
      BY <1>1, <1>3 DEF Said
    <2>3. \A m \in Items(toPart'[q].sent) : m.type = "CurrentIntent"
      BY <1>1, <1>3, <1>4, <2>1 DEF Gathered
    <2>4. Gathered(q)'
      BY <1>1, <2>1, <2>2, <2>3 DEF Gathered
    <2>5. Welcome(q)'
      BY <1>1, <2>1, <2>3 DEF Welcome
    <2> QED
      BY <1>1, <2>4, <2>5 DEF Served, Revealing, Signing
  <1> QED
    BY <1>1, <1>5 DEF FairInv, Unpunished

\* A reveal that was owed has come.
LEMMA RevealKept ==
    ASSUME Known, FairInv, NEW p \in Participants, CReveal(p)
    PROVE  FairInv'
  <1>1. /\ cpc = "reveal" /\ Offered(p) /\ Take(p) /\ Current(p).type = "Reveal"
        /\ commitments[p] # NoPlan /\ Current(p).plan = commitments[p]
        /\ UNCHANGED <<ppc, toCoord, toPart, cpc, commitments, fragments, bans, known>>
    BY DEF CReveal, Relevant, Opens, pvars
  <1>2. PeersTypeOK
    BY DEF Known, BatchTypeInv, TypeOK
  <1>3. /\ \A q \in Participants \ {p} : reveals'[q] = reveals[q]
        /\ reveals'[p] # NoPlan
    BY <1>1, <1>2 DEF CReveal, KeepReveal, PeersTypeOK, Contents
  <1>4. ASSUME NEW q \in Participants \ {p}
        PROVE  Served(q)'
    BY <1>1, <1>3, TakenServed
  <1>5. Served(p)'
    <2>1. Current(p) \in Said(p)
      BY <1>1, <1>2, CurrentTyped DEF Said
    <2>2. ppc[p] = "awaitTemplate"
      BY <1>1, <2>1 DEF FairInv, Served, Revealing
    <2> QED
      BY <1>1, <1>3, <2>2
      DEF FairInv, Served, Gathered, Welcome, Revealing, Signing
  <1> QED
    BY <1>1, <1>4, <1>5 DEF FairInv, Unpunished

\* Only the reveal of somebody that has not committed is turned down, for which nobody
\* is punished.
LEMMA BadRevealServed ==
    ASSUME Known, Faultless, FairInv, NEW p \in Participants, CBadReveal(p)
    PROVE  FairInv'
  <1>1. /\ cpc = "reveal" /\ Offered(p) /\ Take(p) /\ Current(p).type = "Reveal"
        /\ Punish({p} \cap Members(commitments), "InvalidCommitment")
        /\ SendAll({p}, Reject(Batch))
        /\ UNCHANGED <<ppc, toCoord, cpc, commitments, reveals, fragments>>
    BY DEF CBadReveal, Relevant
  <1>2. PeersTypeOK
    BY DEF Known, BatchTypeInv, TypeOK
  <1>3. commitments[p] = NoPlan
    <2>1. Promised(p, Batch, Current(p).plan)
      BY <1>1, CurrentPromised DEF Known, BatchTypeInv, DesertInv
    <2>2. Current(p).plan = plan[p]
      BY <2>1, PromiseStands
    <2> QED
      BY <2>2, CommitmentStands DEF CBadReveal, Opens
  <1>4. Unpunished'
    <2>1. {p} \cap Members(commitments) = {}
      BY <1>3 DEF Members
    <2>2. bans' = [q \in Participants |-> bans[q]] /\ known' = known
      BY <1>1, <2>1 DEF Punish
    <2> QED
      BY <2>2 DEF FairInv, Unpunished
  <1>5. ASSUME NEW q \in Participants \ {p}
        PROVE  Served(q)'
    <2>1. Reject(Batch) \in Incoming
      BY IntentsTyped, IncomingTyped
    <2>2. toPart'[q] = toPart[q]
      BY <1>1, <1>2, <2>1, NoFault, SendAllDelivers DEF Known
    <2> QED
      BY <1>1, <2>2, TakenServed
  <1>6. Served(p)'
    BY <1>1, <1>3, RevealCommitted, ServedFree
  <1> QED
    BY <1>4, <1>5, <1>6 DEF FairInv

\* A fragment that was owed has come.
LEMMA FragmentKept ==
    ASSUME Known, FairInv, NEW p \in Participants, CFragment(p)
    PROVE  FairInv'
  <1>1. /\ cpc = "sign" /\ Offered(p) /\ Take(p) /\ Current(p).type = "SigFragment"
        /\ KeepFragment(p)
        /\ UNCHANGED <<ppc, toCoord, toPart, cpc, commitments, reveals, bans, known>>
    BY DEF CFragment, Relevant, pvars
  <1>2. PeersTypeOK
    BY DEF Known, BatchTypeInv, TypeOK
  <1>3. fragments'[p] # "none" /\ \A q \in Participants \ {p} : fragments'[q] = fragments[q]
    BY <1>1, <1>2 DEF KeepFragment, PeersTypeOK
  <1>4. ASSUME NEW q \in Participants \ {p}
        PROVE  Served(q)'
    BY <1>1, <1>3, TakenServed
  <1>5. Served(p)'
    BY <1>1, <1>3 DEF FairInv, Served, Gathered, Welcome, Revealing, Signing
  <1> QED
    BY <1>1, <1>4, <1>5 DEF FairInv, Unpunished

\* What the coordinator polls is still to be handled, and it reaches everyone.
LEMMA PollServed ==
    ASSUME Known, Faultless, FairInv, CPoll
    PROVE  FairInv'
  <1>1. PeersTypeOK /\ Poll /\ inbox = EmptyInbox
    BY DEF Known, BatchTypeInv, TypeOK, CPoll, Poll
  <1>2. /\ UNCHANGED <<ppc, toPart, cpc, commitments, reveals, fragments, bans, known>>
        /\ known = Participants
    BY DEF CPoll, FairInv, Unpunished
  <1>3. inbox' = [p \in Participants |-> Unread(toCoord[p])]
    BY <1>1, <1>2, NoFault DEF Poll
  <1>4. ASSUME NEW p \in Participants
        PROVE  Served(p)'
    <2>1. Said(p)' \subseteq Said(p)
      BY <1>1, PollTyped DEF Said
    <2>2. Items(inbox[p]) = {} /\ inbox'[p] = Unread(toCoord[p])
      BY <1>1, <1>3, EmptyInboxTyped
    <2>3. \A m \in Pending(p) : m \in Pending(p)'
      BY <2>2 DEF Pending
    <2> QED
      BY <1>2, <2>1, <2>3, ServedStays DEF FairInv
  <1> QED
    BY <1>2, <1>4 DEF FairInv, Unpunished

\* A step of the coordinator after which no participant owes more than before.
LEMMA OverServed ==
    ASSUME FairInv, cpc' \notin Open, UNCHANGED <<commitments, bans, known>>
    PROVE  FairInv'
  BY ServedOver DEF FairInv, Unpunished

\* Those who have committed wait for the request before it is sent.
LEMMA CommitDeadlineServed ==
    ASSUME Known, FairInv, CCommitDeadline
    PROVE  FairInv'
  <1>1. /\ cpc = "commit"
        /\ UNCHANGED <<ppc, toCoord, commitments, reveals, fragments, bans, known, inbox>>
    BY DEF CCommitDeadline
  <1>2. CASE cpc' = "request" /\ UNCHANGED toPart
    <2>1. ASSUME NEW p \in Participants
          PROVE  Served(p)'
      <3>1. Gathered(p) /\ Welcome(p)
        BY DEF FairInv, Served
      <3>2. Said(p)' = Said(p)
        BY <1>1 DEF Said
      <3>3. Gathered(p)'
        BY <1>1, <1>2, <3>1, <3>2 DEF Gathered
      <3>4. Welcome(p)'
        BY <1>1, <1>2, <3>1 DEF Welcome, Open, Early
      <3> QED
        BY <1>2, <3>3, <3>4 DEF Served, Revealing, Signing
    <2> QED
      BY <1>1, <2>1 DEF FairInv, Unpunished
  <1>3. CASE cpc' = "failed"
    BY <1>1, <1>3, OverServed DEF Open, Early
  <1> QED
    BY <1>2, <1>3 DEF CCommitDeadline

\* The request reaches everyone who has committed.
LEMMA RequestServed ==
    ASSUME Known, Faultless, FairInv, CRequestReveals
    PROVE  FairInv'
  <1> DEFINE m == RequestReveal(Batch, Members(commitments))
  <1>1. /\ cpc = "request" /\ cpc' = "reveal" /\ SendAll(Members(commitments), m)
        /\ UNCHANGED <<ppc, toCoord, commitments, reveals, fragments, bans, known, inbox>>
    BY DEF CRequestReveals
  <1>2. PeersTypeOK /\ WellRead
    BY DEF Known, BatchTypeInv, TypeOK
  <1>3. m \in Incoming /\ m.type = "RequestReveal" /\ m.committed = Members(commitments)
    <2>1. Members(commitments) \in SUBSET Participants
      BY DEF Members
    <2> QED
      BY <2>1, IntentsTyped, IncomingTyped DEF RequestReveal
  <1> HIDE DEF m
  <1>4. \A p \in Members(commitments) : m \in Items(News(p)')
    <2>1. Members(commitments) \in SUBSET Participants
      BY DEF Members
    <2> QED
      BY <1>1, <1>2, <1>3, <2>1, NoFault, SendAllDelivers
  <1>5. \A p \in Participants :
            Items(toPart'[p].sent) \subseteq Items(toPart[p].sent) \cup {m}
    BY <1>1, <1>2, <1>3, SendAllTyped
  <1>6. ASSUME NEW p \in Participants
        PROVE  Served(p)'
    <2>1. Gathered(p) /\ Welcome(p)
      BY DEF FairInv, Served
    <2>2. Said(p)' = Said(p)
      BY <1>1 DEF Said
    <2>3. Gathered(p)'
      BY <1>1 DEF Gathered
    <2>4. Welcome(p)'
      <3>1. commitments[p] # NoPlan => p \in m.committed
        BY <1>3 DEF Members
      <3>2. \A n \in Items(toPart'[p].sent) : n = m \/ n.type = "CurrentIntent"
        BY <1>1, <1>5, <2>1 DEF Gathered
      <3> QED
        BY <1>1, <1>3, <2>1, <3>1, <3>2 DEF Welcome
    <2>5. Revealing(p)'
      <3>1. reveals[p] = NoPlan /\ \A n \in Said(p)' : n.type # "Reveal"
        BY <1>1, <2>1, <2>2 DEF Gathered
      <3>2. commitments[p] # NoPlan => ppc[p] = "awaitRequest" /\ m \in Items(News(p)')
        BY <1>1, <1>4, <2>1 DEF Gathered, Members
      <3> QED
        BY <1>1, <1>3, <3>1, <3>2 DEF Revealing
    <2>6. Signing(p)'
      BY <1>1 DEF Signing
    <2> QED
      BY <2>3, <2>4, <2>5, <2>6 DEF Served
  <1> QED
    BY <1>1, <1>6 DEF FairInv, Unpunished

------------------------------------------------------------------------------
(* The deadlines.                                                            *)

\* When everyone waits for somebody else, nobody has an answer or owes one.
LEMMA Settled ==
    ASSUME Known, FairInv, AtRest, cpc \in {"reveal", "sign"}, NEW p \in Participants
    PROVE  /\ Pending(p) = {}
           /\ ppc[p] \in {"awaitRequest", "awaitTemplate"} => Items(News(p)) = {}
  <1>1. Unread(toCoord[p]) = <<>> /\ inbox = EmptyInbox
    BY DEF AtRest, Closed, FairInv, Unpunished
  <1>2. ppc[p] \in {"awaitRequest", "awaitTemplate"} => News(p) = <<>>
    BY AwaitedStages DEF AtRest, Waiting
  <1> QED
    BY <1>1, <1>2, ItemsEmpty, EmptyInboxTyped DEF Pending

\* Nobody is punished for an empty set of offences.
LEMMA PunishNobody ==
    ASSUME Unpunished, NEW offense, Punish({}, offense)
    PROVE  Unpunished'
  BY DEF Punish, Unpunished

LEMMA RevealTimeoutServed ==
    ASSUME Known, FairInv, AtRest, CRevealTimeout
    PROVE  FairInv'
  <1>1. /\ cpc = "reveal" /\ cpc' \in {"validate", "failed"}
        /\ UNCHANGED <<ppc, toCoord, toPart, commitments, reveals, fragments>>
        /\ Punish(Members(commitments) \ Members(reveals), "FailedToReveal")
        /\ inbox' = EmptyInbox
    BY DEF CRevealTimeout, AfterReveals, pvars, DropInbox
  <1>2. Members(commitments) \ Members(reveals) = {}
    <2>1. ASSUME NEW p \in Participants, commitments[p] # NoPlan, reveals[p] = NoPlan
          PROVE  FALSE
      BY <1>1, <2>1, Settled DEF FairInv, Served, Revealing
    <2> QED
      BY <2>1 DEF Members
  <1>3. Unpunished'
    BY <1>1, <1>2, PunishNobody DEF FairInv
  <1>4. ASSUME NEW p \in Participants
        PROVE  Served(p)'
    <2>1. Said(p)' \subseteq Said(p)
      BY <1>1, EmptyInboxTyped DEF Said
    <2>2. Welcome(p) /\ Revealing(p)
      BY DEF FairInv, Served
    <2>3. Welcome(p)'
      BY <1>1, <2>2 DEF Welcome, Open, Early
    <2>4. Revealing(p)'
      BY <1>1, <2>1, <2>2 DEF Revealing
    <2> QED
      BY <1>1, <2>3, <2>4 DEF Served, Gathered, Signing
  <1> QED
    BY <1>3, <1>4 DEF FairInv

LEMMA FragmentTimeoutServed ==
    ASSUME Known, FairInv, AtRest, CFragmentTimeout
    PROVE  FairInv'
  <1>1. /\ cpc = "sign" /\ cpc' \in {"broadcast", "failed"} /\ UNCHANGED commitments
        /\ Punish(Members(reveals) \ Signers, "FailedToSign")
    BY DEF CFragmentTimeout, AfterFragments
  <1>2. Members(reveals) \ Signers = {}
    <2>1. ASSUME NEW p \in Participants, reveals[p] # NoPlan, fragments[p] = "none"
          PROVE  FALSE
      BY <1>1, <2>1, Settled DEF FairInv, Served, Signing
    <2> QED
      BY <2>1 DEF Members, Signers
  <1>3. Unpunished'
    BY <1>1, <1>2, PunishNobody DEF FairInv
  <1>4. \A p \in Participants : Served(p)'
    BY <1>1, ServedOver DEF FairInv, Open, Early
  <1> QED
    BY <1>3, <1>4 DEF FairInv

\* With all reveals the phase ends, or the batch has too few of them.
LEMMA RevealsCompleteServed ==
    ASSUME FairInv, CRevealsComplete
    PROVE  FairInv'
  <1>1. /\ cpc = "reveal" /\ cpc' \in {"validate", "failed"}
        /\ UNCHANGED <<ppc, toCoord, toPart, commitments, reveals, fragments, bans,
                       known, inbox>>
    BY DEF CRevealsComplete, AfterReveals, pvars
  <1>2. ASSUME NEW p \in Participants
        PROVE  Served(p)'
    <2>1. Said(p)' = Said(p)
      BY <1>1 DEF Said
    <2>2. Welcome(p) /\ Revealing(p)
      BY DEF FairInv, Served
    <2>3. Welcome(p)'
      BY <1>1, <2>2 DEF Welcome, Open, Early
    <2>4. Revealing(p)'
      BY <1>1, <2>1, <2>2 DEF Revealing
    <2> QED
      BY <1>1, <2>3, <2>4 DEF Served, Gathered, Signing
  <1> QED
    BY <1>1, <1>2 DEF FairInv, Unpunished

\* Every reveal is found on the chain and has its funds.
LEMMA ValidateServed ==
    ASSUME Known, Faultless, FairInv, CValidate
    PROVE  FairInv'
  <1>1. /\ cpc = "validate" /\ cpc' = "build"
        /\ UNCHANGED <<ppc, toCoord, commitments, fragments, inbox>>
    BY DEF CValidate
  <1>2. PeersTypeOK
    BY DEF Known, BatchTypeInv, TypeOK
  <1>3. Poor = {} /\ Unfit = {}
    <2>1. ASSUME NEW p \in Participants, reveals[p] # NoPlan,
                 reveals[p] \in Underfunded \cup Malformed
          PROVE  FALSE
      BY <2>1, RevealCommitted, CommitmentStands
    <2> QED
      BY <2>1 DEF Poor, Unfit, Members
  <1>4. PICK verdict \in [Members(reveals) -> Verdicts] :
            LET absent == {p \in Members(reveals) : verdict[p] = "absent"}
                offense == [p \in Poor \cup absent |->
                            IF p \in absent THEN "FakeUtxo" ELSE "InsufficientFunds"]
            IN  /\ bans' = [p \in Participants |->
                              IF p \in DOMAIN offense THEN PermanentBan(offense[p])
                                                      ELSE bans[p]]
                /\ \E unfollowed \in SUBSET DOMAIN offense :
                    /\ unfollowed = DOMAIN offense \/ May("erase")
                    /\ known' = known \ unfollowed
                /\ RemoveInvalid(verdict, Batch)
    BY DEF CValidate
  <1>5. \A p \in Members(reveals) : verdict[p] = "found"
    BY NoFault DEF Verdicts
  <1>6. {p \in Members(reveals) : verdict[p] = "absent"} = {}
    BY <1>5
  <1>7. bans' = [p \in Participants |-> bans[p]] /\ known' = known
    BY <1>3, <1>4, <1>6
  <1>8. Invalid(verdict) = {}
    BY <1>3, <1>5 DEF Invalid
  <1>9. /\ reveals' = [p \in Participants |-> reveals[p]]
        /\ SendAll({}, Reject(Batch))
    BY <1>4, <1>8 DEF RemoveInvalid
  <1>10. \A p \in Participants : toPart'[p] = toPart[p]
    BY <1>9 DEF SendAll
  <1>11. ASSUME NEW p \in Participants
         PROVE  Served(p)'
    <2>1. Said(p)' = Said(p) /\ reveals'[p] = reveals[p]
      BY <1>1, <1>9 DEF Said
    <2>2. Welcome(p) /\ Revealing(p)
      BY DEF FairInv, Served
    <2>3. Welcome(p)'
      BY <1>1, <1>10, <2>2 DEF Welcome, Open, Early
    <2>4. Revealing(p)'
      BY <1>1, <2>1, <2>2 DEF Revealing
    <2> QED
      BY <1>1, <2>3, <2>4 DEF Served, Gathered, Signing
  <1> QED
    BY <1>7, <1>11 DEF FairInv, Unpunished

\* The template reaches everyone who has revealed, and who waits for it.
LEMMA BuildServed ==
    ASSUME Known, Faultless, FairInv, CBuild
    PROVE  FairInv'
  <1> DEFINE m == Template(Batch, reveals)
  <1>1. /\ cpc = "build" /\ cpc' = "sign" /\ SendAll(Members(reveals), m)
        /\ UNCHANGED <<ppc, toCoord, commitments, reveals, fragments, bans, known, inbox>>
    BY DEF CBuild, Propose
  <1>2. PeersTypeOK /\ WellRead
    BY DEF Known, BatchTypeInv, TypeOK
  <1>3. m \in Incoming /\ m.type = "Template"
    BY <1>2, IntentsTyped, IncomingTyped DEF PeersTypeOK, Template
  <1> HIDE DEF m
  <1>4. \A p \in Members(reveals) : m \in Items(News(p)')
    <2>1. Members(reveals) \in SUBSET Participants
      BY DEF Members
    <2> QED
      BY <1>1, <1>2, <1>3, <2>1, NoFault, SendAllDelivers
  <1>5. \A p \in Participants :
            Items(toPart'[p].sent) \subseteq Items(toPart[p].sent) \cup {m}
    BY <1>1, <1>2, <1>3, SendAllTyped
  <1>6. ASSUME NEW p \in Participants
        PROVE  Served(p)'
    <2>1. Welcome(p) /\ Revealing(p)
      BY DEF FairInv, Served
    <2>2. Welcome(p)'
      BY <1>1, <1>3, <1>5, <2>1 DEF Welcome, Open, Early
    <2>3. Signing(p)'
      <3>1. reveals[p] # NoPlan => ppc[p] = "awaitTemplate" /\ m \in Items(News(p)')
        BY <1>1, <1>4, <2>1, RevealCommitted DEF Revealing, Members
      <3> QED
        BY <1>1, <1>3, <3>1 DEF Signing
    <2> QED
      BY <1>1, <2>2, <2>3 DEF Served, Gathered, Revealing
  <1> QED
    BY <1>1, <1>6 DEF FairInv, Unpunished

\* Nothing the coordinator does leaves anybody to be punished.
LEMMA CoordinatorServed ==
    ASSUME Known, Faultless, FairInv, Coordinator \/ CCrash
    PROVE  FairInv'
  <1>1. ASSUME NEW p \in Participants, CMessage(p)
        PROVE  FairInv'
    BY <1>1, SkipServed, CommitmentServed, AnswerServed, RevealKept, BadRevealServed,
       FragmentKept
    DEF CMessage
  <1>2. CASE CDeadline
    BY <1>2, NoFault, CommitDeadlineServed, RevealTimeoutServed, FragmentTimeoutServed
    DEF CDeadline
  <1>3. CASE \/ CBuildFails \/ CFragmentsComplete \/ CBroadcast \/ CBroadcastFails
             \/ CNotify \/ CClear
    <2>1. cpc' \notin Open /\ UNCHANGED <<commitments, bans, known>>
      BY <1>3
      DEF CBuildFails, CFragmentsComplete, CBroadcast, CBroadcastFails, CNotify, CClear,
          AfterFragments, AfterRefusal, Open, Early
    <2> QED
      BY <2>1, OverServed
  <1>4. CASE CPoll \/ CRequestReveals \/ CRevealsComplete \/ CValidate \/ CBuild
    BY <1>4, PollServed, RequestServed, RevealsCompleteServed, ValidateServed, BuildServed
  <1>5. ~CCrash
    BY NoFault DEF CCrash
  <1> QED
    BY <1>1, <1>2, <1>3, <1>4, <1>5 DEF Coordinator

LEMMA FairStep ==
    ASSUME Known, Faultless, FairInv, [Next]_vars
    PROVE  FairInv'
  <1>1. CASE Coordinator \/ CCrash
    BY <1>1, CoordinatorServed
  <1>2. ASSUME NEW p \in Participants, ParticipantRuns(p) \/ ParticipantStarts(p)
        PROVE  FairInv'
    <2>1. ParticipantMoves(p) /\ UNCHANGED cvars /\ PeersInv
      BY <1>2, ParticipantTypeStep, PeersOfBatch DEF Known
    <2>2. Served(p)'
      BY <1>2, <2>1, ParticipantServed DEF FairInv
    <2>3. ASSUME NEW q \in Participants \ {p}
          PROVE  Served(q)'
      <3>1. ppc'[q] = ppc[q] /\ toPart'[q] = toPart[q] /\ toCoord'[q] = toCoord[q]
        BY <2>1, OthersStay DEF Elsewhere
      <3>2. Said(q)' = Said(q) /\ Pending(q)' = Pending(q)
        BY <2>1, <3>1 DEF Said, Pending, cvars
      <3> QED
        BY <2>1, <3>1, <3>2, ServedStays DEF FairInv, cvars
    <2> QED
      BY <2>1, <2>2, <2>3 DEF FairInv, Unpunished, cvars
  <1>3. CASE UNCHANGED vars
    BY <1>3
    DEF vars, pvars, cvars, FairInv, Unpunished, Served, Gathered, Welcome, Revealing,
        Signing, Said, Pending, News
  <1> QED
    BY <1>1, <1>2, <1>3 DEF Next, Finished

------------------------------------------------------------------------------
\* Every step of the coordinator that sends, fetches or clears uses the operations of
\* Transport.
LEMMA CoordinatorMoves ==
    ASSUME PeersTypeOK, Coordinator \/ CCrash
    PROVE  \A p \in Participants : /\ Moved(toCoord[p], toCoord'[p], Outgoing)
                                   /\ Moved(toPart[p], toPart'[p], Incoming)
  <1>1. ASSUME UNCHANGED toCoord, NEW S, NEW m \in Incoming, SendAll(S, m)
        PROVE  \A p \in Participants : /\ Moved(toCoord[p], toCoord'[p], Outgoing)
                                       /\ Moved(toPart[p], toPart'[p], Incoming)
    BY <1>1, SendAllMoves DEF Moved
  <1>2. ASSUME UNCHANGED <<toCoord, toPart>>
        PROVE  \A p \in Participants : /\ Moved(toCoord[p], toCoord'[p], Outgoing)
                                       /\ Moved(toPart[p], toPart'[p], Incoming)
    BY <1>2 DEF Moved
  <1>3. ASSUME NEW p \in Participants, CMessage(p)
        PROVE  \A q \in Participants : /\ Moved(toCoord[q], toCoord'[q], Outgoing)
                                       /\ Moved(toPart[q], toPart'[q], Incoming)
    <2>1. CASE CAnswer(p) \/ CBadReveal(p)
      BY <1>1, <2>1, IntentsTyped, IncomingTyped DEF CAnswer, CBadReveal
    <2>2. CASE CSkip(p) \/ CCommitment(p) \/ CReveal(p) \/ CFragment(p)
      BY <1>2, <2>2 DEF CSkip, CCommitment, CReveal, CFragment, pvars
    <2> QED
      BY <1>3, <2>1, <2>2 DEF CMessage
  <1>4. CASE CPoll
    <2>1. UNCHANGED toPart
      BY <1>4 DEF CPoll
    <2>2. \A p \in Participants : toCoord'[p] \in {toCoord[p], Fetched(toCoord[p])}
      BY <1>4 DEF CPoll, Poll
    <2> QED
      BY <2>1, <2>2 DEF Moved
  <1>5. CASE CClear
    <2>1. Clear(Members(reveals))
      BY <1>5 DEF CClear
    <2>2. \A p \in Participants : /\ toCoord'[p] \in {toCoord[p], Forgotten(toCoord[p])}
                                  /\ toPart'[p] \in {toPart[p], Erased(toPart[p])}
      BY <2>1 DEF Clear
    <2> QED
      BY <2>2 DEF Moved
  <1>6. CASE CRequestReveals
    <2>1. Members(commitments) \in SUBSET Participants
      BY DEF Members
    <2>2. RequestReveal(Batch, Members(commitments)) \in Incoming
      BY <2>1, IntentsTyped, IncomingTyped
    <2> QED
      BY <1>1, <1>6, <2>2 DEF CRequestReveals
  <1>7. CASE CValidate
    <2>1. UNCHANGED toCoord /\ \E S : SendAll(S, Reject(Batch))
      BY <1>7 DEF CValidate, RemoveInvalid
    <2> QED
      BY <1>1, <2>1, IntentsTyped, IncomingTyped
  <1>8. CASE CBuild
    <2>1. Template(Batch, reveals) \in Incoming
      BY IntentsTyped, IncomingTyped DEF PeersTypeOK
    <2> QED
      BY <1>1, <1>8, <2>1 DEF CBuild, Propose
  <1>9. CASE CNotify
    BY <1>1, <1>9, IntentsTyped, IncomingTyped DEF CNotify
  <1>10. CASE CCommitDeadline
    <2>1. UNCHANGED toCoord
      BY <1>10 DEF CCommitDeadline
    <2>2. UNCHANGED toPart \/ SendAll(Members(commitments), Reject(Batch))
      BY <1>10 DEF CCommitDeadline
    <2> QED
      BY <1>1, <1>2, <2>1, <2>2, IntentsTyped, IncomingTyped
  <1>11. CASE \/ CRevealTimeout \/ CFragmentTimeout \/ CRevealsComplete \/ CBuildFails
              \/ CFragmentsComplete \/ CBroadcast \/ CBroadcastFails \/ CCrash
    BY <1>2, <1>11
    DEF CRevealTimeout, CFragmentTimeout, CRevealsComplete, CBuildFails,
        CFragmentsComplete, CBroadcast, CBroadcastFails, CCrash, pvars
  <1> QED
    BY <1>3, <1>4, <1>5, <1>6, <1>7, <1>8, <1>9, <1>10, <1>11 DEF Coordinator, CDeadline

\* Neither side ever reads beyond what it was sent.
LEMMA ReadInvariant == Spec => []WellRead
  <1>1. Init => WellRead
    BY DEF Init, PeersInit, ParticipantInit, WellRead, Within, EmptyHalf
  <1>2. BatchTypeInv /\ WellRead /\ [Next]_vars => WellRead'
    <2> SUFFICES ASSUME BatchTypeInv, WellRead, [Next]_vars
                 PROVE  WellRead'
      OBVIOUS
    <2>1. CASE Coordinator \/ CCrash
      BY <2>1, CoordinatorMoves, MovesKeepRead DEF BatchTypeInv, TypeOK
    <2>2. ASSUME NEW p \in Participants, ParticipantRuns(p) \/ ParticipantStarts(p)
          PROVE  WellRead'
      BY <2>2, ParticipantTypeStep, PeersOfBatch, ParticipantKeepsRead
    <2>3. CASE UNCHANGED vars
      BY <2>3 DEF vars, pvars, WellRead
    <2> QED
      BY <2>1, <2>2, <2>3 DEF Next, Finished
  <1> QED
    BY <1>1, <1>2, TypeInvariant, PTL DEF Spec

LEMMA FairInvariant ==
    ASSUME Faultless
    PROVE  Spec => []FairInv
  <1>1. (\A p \in Participants \ Returning : runs[p] <= 1) => StartedAtMostOnce
    BY DEF Faultless, StartedAtMostOnce
  <1>2. BatchTypeInv /\ TemplateAsCommitted /\ SpendInv /\ QuorumInv /\ AcceptInv
            /\ DesertInv /\ WellRead /\ StartedAtMostOnce => Known
    BY DEF Known
  <1>3. Known /\ FairInv /\ [Next]_vars => FairInv'
    BY FairStep
  <1> QED
    BY <1>1, <1>2, <1>3, FairInit, TypeInvariant, TemplateCommitted, SpendInvariant,
       QuorumInvariant, AcceptInvariant, DesertInvariant, ReadInvariant, StartedOnce, PTL
    DEF Spec

\* Whoever has come too late, found the batch full or was put off is not punished, and
\* neither is anybody else while nothing fails: for any number of participants and in
\* every interleaving, each of them answers in time and with what it has committed to.
\* Excluded are a client that skips the local validation, which is banned for lack of
\* funds, and one that is started again with another plan, whose second reveal does not
\* open its commitment.
THEOREM Blameless ==
    ASSUME Returning = {}, Bypassing = {}
    PROVE  Spec => []NobodyPunished
  <1>1. CASE Faults = {}
    <2>1. Faultless
      BY <1>1 DEF Faultless
    <2>2. FairInv => NobodyPunished
      BY DEF FairInv, Unpunished, NobodyPunished
    <2> QED
      BY <2>1, <2>2, FairInvariant, PTL
  <1>2. CASE Faults # {}
    <2>1. NobodyPunished
      BY <1>2 DEF NobodyPunished
    <2> QED
      BY <2>1, PTL
  <1> QED
    BY <1>1, <1>2
==============================================================================
