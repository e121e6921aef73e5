------------------------- MODULE RollingBatchesProofs -------------------------
(***************************************************************************)
(* Theorems about RollingBatches, for any participants, batches, plans,    *)
(* faults and limits, however often a batch is processed: its types, what  *)
(* goes into a template, whose signatures the network sees, how many join, *)
(* and what a participant's success means.                                 *)
(***************************************************************************)
EXTENDS RollingBatches, CoordinatorPeersProofs, FiniteSetTheorems

Idle == {"poll", "serve", "pick"}

\* process_batch has a batch.
RollingTypeInv ==
    /\ TypeOK
    /\ \A p \in Participants : Prepared(p)
    /\ phase \notin Idle => doing \in Intents

LEMMA PeersOfRolling == RollingTypeInv => PeersInv
  BY DEF RollingTypeInv, TypeOK, PeersInv

------------------------------------------------------------------------------
(* The steps of the coordinator.                                             *)

\* What a step of the coordinator keeps, without the participants' own state.
CoordinatorTyped ==
    /\ reveals \in Contents
    /\ template \in Contents
    /\ fragments \in [Participants -> {"none", "partial", "full", "foreign"}]
    /\ bans \in [Participants -> BanEntries]
    /\ known \in SUBSET Participants
    /\ inbox \in [Participants -> Seq(Outgoing)]
    /\ reading \in Participants \cup {Nobody}
    /\ toCoord \in [Participants -> Halves(Outgoing)]
    /\ toPart \in [Participants -> Halves(Incoming)]
    /\ phase \in Phases
    /\ queue \in SUBSET Intents
    /\ doing \in Intents \cup {NoIntent}
    /\ status \in [Intents -> Statuses]
    /\ committed \in [Intents -> Contents]
    /\ current \in Intents \cup {NoIntent}
    /\ late \in SUBSET Intents
    /\ removed \in SUBSET Participants
    /\ landed \in SUBSET (Intents \X Contents)
    /\ phase \notin Idle => doing \in Intents

LEMMA CoordinatorPart == RollingTypeInv => CoordinatorTyped
  BY DEF RollingTypeInv, TypeOK, PeersTypeOK, ParticipantTypeOK, CoordinatorTyped

LEMMA OwnPart ==
    ASSUME RollingTypeInv, UNCHANGED own, CoordinatorTyped'
    PROVE  RollingTypeInv'
  BY DEF RollingTypeInv, TypeOK, PeersTypeOK, ParticipantTypeOK, CoordinatorTyped, own,
         Prepared

LEMMA NothingTyped ==
    /\ NoContents \in Contents
    /\ NoFragments \in [Participants -> {"none", "partial", "full", "foreign"}]
  BY DEF NoContents, Contents, NoFragments

LEMMA FinishTyped ==
    ASSUME CoordinatorTyped, Finish
    PROVE  /\ status' \in [Intents -> Statuses]
           /\ doing' = NoIntent
           /\ reveals' = NoContents /\ template' = NoContents /\ fragments' = NoFragments
           /\ removed' = {}
           /\ phase' \in {"poll", "pick"}
  BY DEF Finish, CoordinatorTyped, Statuses

LEMMA FreshTyped ==
    /\ First \in Intents
    /\ Unborn # {} => Fresh \in Unborn
  BY SomeIntent DEF First, Fresh

LEMMA RollingMessageStep ==
    ASSUME RollingTypeInv, NEW p \in Participants, RMessage(p)
    PROVE  CoordinatorTyped' /\ UNCHANGED own /\ Listens
  <1> USE DEF CoordinatorTyped, control, book, round, standing, fetched, own, pvars
  <1>0. CoordinatorTyped /\ PeersTypeOK
    BY CoordinatorPart DEF RollingTypeInv, TypeOK
  <1>1. Offered(p) /\ Take(p)
    BY DEF RMessage, RSkip, RQuery, RCommitment, RReject, RReveal, RBadReveal, RFragment
  <1>2. /\ Current(p) \in Outgoing
        /\ inbox' \in [Participants -> Seq(Outgoing)]
        /\ reading' \in Participants \cup {Nobody}
        /\ \A q \in Participants : Items(inbox'[q]) \subseteq Items(inbox[q])
    BY <1>0, <1>1, CurrentTyped, TakeTyped
  <1>3. UNCHANGED <<ppc, plan, joined, attempts, runs, signed, toCoord, phase, queue, doing,
                    late, landed, template, removed>>
    BY DEF RMessage, RSkip, RQuery, RCommitment, RReject, RReveal, RBadReveal, RFragment
  <1>4. UNCHANGED own /\ Listens
    BY <1>2, <1>3 DEF Listens
  <1>5. CASE RSkip(p)
    BY <1>0, <1>2, <1>3, <1>4, <1>5 DEF RSkip
  <1>6. CASE RQuery(p)
    <2>1. UNCHANGED <<committed, reveals, fragments, bans, known>>
      BY <1>6 DEF RQuery
    <2>2. CASE GetOrCreate /\ SendAll({p}, CurrentIntent(current'))
      <3>1. current' \in Intents /\ status' \in [Intents -> Statuses]
        BY <1>0, <2>2, FreshTyped DEF GetOrCreate, Kept, Unborn, Statuses
      <3>2. toPart' \in [Participants -> Halves(Incoming)]
        BY <1>0, <2>2, <3>1, IncomingTyped, SendAllTyped
      <3> QED
        BY <1>0, <1>2, <1>3, <1>4, <2>1, <3>1, <3>2
    <2>3. CASE UNCHANGED <<status, current, toPart>>
      BY <1>0, <1>2, <1>3, <1>4, <2>1, <2>3
    <2> QED
      BY <1>6, <2>2, <2>3 DEF RQuery
  <1>7. CASE RCommitment(p)
    <2> DEFINE b == Current(p).intent
               c == [committed[b] EXCEPT ![p] = Current(p).plan]
    <2>1. UNCHANGED <<toPart, reveals, fragments, bans, known>>
      BY <1>7 DEF RCommitment
    <2>2. AddCommitment(b, c) /\ status' = [status EXCEPT ![b] = StatusWith(b, c)]
      BY <1>7 DEF RCommitment
    <2>3. b \in Intents /\ Current(p).plan \in Plans
      BY <1>2, <1>7, OutgoingPlan DEF RCommitment, AddCommitment, Accepting, Kept
    <2>4. c \in Contents
      BY <1>0, <2>3 DEF Contents
    <2>5. StatusWith(b, c) \in Statuses
      BY DEF StatusWith, Statuses
    <2> HIDE DEF b, c
    <2>6. /\ committed' \in [Intents -> Contents]
          /\ status' \in [Intents -> Statuses]
          /\ current' \in Intents \cup {NoIntent}
      BY <1>0, <2>2, <2>3, <2>4, <2>5 DEF AddCommitment
    <2> QED
      BY <1>0, <1>2, <1>3, <1>4, <2>1, <2>6
  <1>8. CASE RReject(p)
    <2>1. UNCHANGED <<status, committed, current, reveals, fragments, bans, known>>
      BY <1>8 DEF RReject
    <2>2. Current(p).intent \in Intents
      BY <1>2, <1>8 DEF RReject, Outgoing
    <2>3. toPart' \in [Participants -> Halves(Incoming)]
      BY <1>0, <1>8, <2>2, IncomingTyped, SendAllTyped DEF RReject
    <2> QED
      BY <1>0, <1>2, <1>3, <1>4, <2>1, <2>3
  <1>9. CASE RReveal(p)
    <2>1. UNCHANGED <<toPart, status, committed, current, fragments, bans, known>>
      BY <1>9 DEF RReveal
    <2>2. reveals' \in Contents
      BY <1>0, <1>9, KeepRevealTyped DEF RReveal
    <2> QED
      BY <1>0, <1>2, <1>3, <1>4, <2>1, <2>2
  <1>10. CASE RBadReveal(p)
    <2>1. UNCHANGED <<status, committed, current, reveals, fragments>>
      BY <1>10 DEF RBadReveal
    <2>2. /\ Punish({p}, "InvalidCommitment") /\ SendAll({p}, Reject(doing))
          /\ "InvalidCommitment" \in Offenses
      BY <1>10 DEF RBadReveal, Offenses, Critical
    <2>3. doing \in Intents
      BY <1>0, <1>10 DEF RBadReveal, Relevant, Idle
    <2>4. bans' \in [Participants -> BanEntries] /\ known' \in SUBSET Participants
      BY <1>0, <2>2, PunishTyped
    <2>5. toPart' \in [Participants -> Halves(Incoming)]
      BY <1>0, <2>2, <2>3, IncomingTyped, SendAllTyped
    <2> QED
      BY <1>0, <1>2, <1>3, <1>4, <2>1, <2>4, <2>5
  <1>11. CASE RFragment(p)
    <2>1. UNCHANGED <<toPart, status, committed, current, reveals, bans, known>>
      BY <1>11 DEF RFragment
    <2>2. fragments' \in [Participants -> {"none", "partial", "full", "foreign"}]
      BY <1>0, <1>11, KeepFragmentTyped DEF RFragment
    <2> QED
      BY <1>0, <1>2, <1>3, <1>4, <2>1, <2>2
  <1> QED
    BY <1>5, <1>6, <1>7, <1>8, <1>9, <1>10, <1>11 DEF RMessage

\* Fetching, marking, and the clock.
LEMMA RollingLoopStep ==
    ASSUME RollingTypeInv,
           \/ RPoll \/ RMark \/ (\E b \in Intents : RStart(b) \/ ROverdue(b) \/ RCleanup(b))
           \/ RCrash
    PROVE  CoordinatorTyped' /\ UNCHANGED own /\ Listens
  <1> USE DEF CoordinatorTyped, control, book, round, standing, fetched, own, pvars
  <1>0. CoordinatorTyped /\ PeersTypeOK
    BY CoordinatorPart DEF RollingTypeInv, TypeOK
  <1>1. CASE RPoll
    <2>1. /\ UNCHANGED <<ppc, plan, joined, attempts, runs, signed, toPart, queue, doing,
                         status, committed, current, late, reveals, template, fragments,
                         removed, bans, known, reading, landed>>
          /\ phase' = "serve" \/ UNCHANGED phase
          /\ Poll
      BY <1>1 DEF RPoll
    <2> QED
      BY <1>0, <2>1, PollTyped DEF Listens, Phases, Idle
  <1>2. CASE RMark
    <2>1. UNCHANGED <<ppc, plan, joined, attempts, runs, signed, toCoord, toPart, doing,
                      committed, current, late, reveals, template, fragments, removed,
                      bans, known, inbox, reading, landed>>
      BY <1>2 DEF RMark
    <2>2. /\ phase' \in {"poll", "pick"} /\ queue' \subseteq Intents
          /\ status' \in [Intents -> Statuses]
      BY <1>0, <1>2 DEF RMark, Marked, Statuses
    <2> QED
      BY <1>0, <2>1, <2>2 DEF Listens, Phases, Polling, Idle
  <1>3. ASSUME NEW b \in Intents, RStart(b)
        PROVE  CoordinatorTyped' /\ UNCHANGED own /\ Listens
    <2>1. UNCHANGED <<ppc, plan, joined, attempts, runs, signed, toCoord, committed,
                      current, late, reveals, template, fragments, removed, bans, known,
                      inbox, reading, landed>>
      BY <1>3 DEF RStart
    <2>2. /\ phase' = "reveal" /\ doing' = b /\ queue' \subseteq Intents
          /\ status' \in [Intents -> Statuses]
      BY <1>0, <1>3 DEF RStart, Statuses
    <2>3. RequestReveal(b, Members(committed[b])) \in Incoming
      BY IncomingTyped DEF Members
    <2>4. toPart' \in [Participants -> Halves(Incoming)]
      BY <1>0, <1>3, <2>3, SendAllTyped DEF RStart
    <2> QED
      BY <1>0, <2>1, <2>2, <2>4 DEF Listens, Phases, Polling
  <1>4. ASSUME NEW b \in Intents, ROverdue(b) \/ RCleanup(b)
        PROVE  CoordinatorTyped' /\ UNCHANGED own /\ Listens
    <2>1. UNCHANGED <<ppc, plan, joined, attempts, runs, signed, toCoord, toPart, phase,
                      queue, doing, current, reveals, template, fragments, removed, bans,
                      known, inbox, reading, landed>>
      BY <1>4 DEF ROverdue, RCleanup
    <2>2. /\ status' \in [Intents -> Statuses]
          /\ committed' \in [Intents -> Contents]
          /\ late' \subseteq Intents
      <3>1. "removed" \in Statuses
        BY DEF Statuses
      <3>2. CASE ROverdue(b)
        BY <1>0, <3>2 DEF ROverdue
      <3>3. CASE RCleanup(b)
        BY <1>0, <3>1, <3>3, NothingTyped DEF RCleanup
      <3> QED
        BY <1>4, <3>2, <3>3
    <2> QED
      BY <1>0, <2>1, <2>2 DEF Listens
  <1>5. CASE RCrash
    <2>1. UNCHANGED <<ppc, plan, joined, attempts, runs, signed, toPart, bans, landed>>
      BY <1>5 DEF RCrash
    <2>2. /\ phase' = "poll" /\ queue' = {} /\ doing' = NoIntent /\ late' = {}
          /\ reveals' = NoContents /\ template' = NoContents /\ fragments' = NoFragments
          /\ removed' = {}
          /\ known' \in {known, Participants}
      BY <1>5 DEF RCrash
    <2>3. status' \in [Intents -> Statuses]
      BY <1>5 DEF RCrash, Statuses, Unborn
    <2>4. committed' \in [Intents -> Contents] /\ current' \in Intents
      BY <1>5, NothingTyped, FreshTyped DEF RCrash, Unborn
    <2>5. /\ toCoord' \in [Participants -> Halves(Outgoing)]
          /\ \A p \in Participants : Items(toCoord'[p].sent) = Items(toCoord[p].sent)
      <3>1. \A p \in Participants :
                /\ Forgotten(toCoord[p]) \in Halves(Outgoing)
                /\ Items(Forgotten(toCoord[p]).sent) = Items(toCoord[p].sent)
        BY <1>0, NothingPosted
      <3> QED
        BY <1>5, <3>1 DEF RCrash
    <2>6. /\ inbox' \in [Participants -> Seq(Outgoing)]
          /\ reading' \in Participants \cup {Nobody}
          /\ \A p \in Participants : Items(inbox'[p]) = {}
      BY <1>5, EmptyInboxTyped DEF RCrash, DropInbox
    <2> QED
      BY <1>0, <2>1, <2>2, <2>3, <2>4, <2>5, <2>6, NothingTyped
      DEF Listens, Phases, Polling, Idle
  <1> QED
    BY <1>1, <1>2, <1>3, <1>4, <1>5

\* process_batch, between two polls.
LEMMA RollingBatchStep ==
    ASSUME RollingTypeInv,
           \/ RRevealsEnd \/ RValidate \/ RBuild \/ RBuildFails \/ RFragmentsEnd
           \/ RBroadcast \/ RBroadcastFails \/ RNotify \/ RClear
    PROVE  CoordinatorTyped' /\ UNCHANGED own /\ Listens
  <1> USE DEF CoordinatorTyped, control, book, round, standing, fetched, own, pvars
  <1>0. CoordinatorTyped /\ PeersTypeOK
    BY CoordinatorPart DEF RollingTypeInv, TypeOK
  <1>1. /\ UNCHANGED <<ppc, plan, joined, attempts, runs, signed, queue, committed,
                       current, late, inbox, reading>>
        /\ phase \notin Idle
    BY DEF RRevealsEnd, RValidate, RBuild, RBuildFails, RFragmentsEnd, RBroadcast,
           RBroadcastFails, Refused, RNotify, RClear, Idle
  <1>2. doing \in Intents
    BY <1>0, <1>1
  <1>3. \/ Finish
        \/ /\ UNCHANGED <<doing, status>> /\ phase' \in Phases \ Idle
           /\ UNCHANGED round \/ RValidate \/ RBuild
    BY DEF RRevealsEnd, RValidate, RBuild, RBuildFails, RFragmentsEnd, RBroadcast,
           RBroadcastFails, Refused, RNotify, RClear, Idle, Phases, Polling
  <1>4. /\ status' \in [Intents -> Statuses] /\ doing' \in Intents \cup {NoIntent}
        /\ phase' \in Phases /\ (phase' \notin Idle => doing' \in Intents)
        /\ reveals' \in Contents /\ template' \in Contents
        /\ fragments' \in [Participants -> {"none", "partial", "full", "foreign"}]
        /\ removed' \in SUBSET Participants
    <2>1. CASE Finish
      BY <1>0, <2>1, FinishTyped, NothingTyped DEF Phases, Polling, Idle
    <2>2. CASE /\ UNCHANGED <<doing, status>> /\ phase' \in Phases \ Idle
               /\ UNCHANGED round
      BY <1>0, <1>2, <2>2
    <2>3. CASE UNCHANGED <<doing, status>> /\ phase' \in Phases \ Idle /\ RValidate
      <3>1. reveals' \in Contents
        BY <1>0, <1>2, <2>3, RemoveInvalidTyped DEF RValidate
      <3>2. removed' \in SUBSET Participants
        BY <2>3 DEF RValidate, Invalid, Poor, Unfit, Members
      <3> QED
        BY <1>0, <1>2, <2>3, <3>1, <3>2 DEF RValidate
    <2>4. CASE UNCHANGED <<doing, status>> /\ phase' \in Phases \ Idle /\ RBuild
      <3>1. template' \in Contents
        BY <1>0, <1>2, <2>4, ProposeTyped DEF RBuild
      <3> QED
        BY <1>0, <1>2, <2>4, <3>1 DEF RBuild
    <2> QED
      BY <1>3, <2>1, <2>2, <2>3, <2>4
  <1>5. bans' \in [Participants -> BanEntries] /\ known' \in SUBSET Participants
    <2>1. CASE RRevealsEnd
      <3>1. "FailedToReveal" \in Offenses
        BY DEF Offenses, Moderate
      <3> QED
        BY <1>0, <2>1, <3>1, PunishTyped DEF RRevealsEnd
    <2>2. CASE ~RRevealsEnd
      <3>1. UNCHANGED <<bans, known>>
        BY <2>2 DEF RValidate, RBuild, RBuildFails, RFragmentsEnd, RBroadcast,
                    RBroadcastFails, RNotify, RClear
      <3> QED
        BY <1>0, <3>1
    <2> QED
      BY <2>1, <2>2
  <1>6. landed' \in SUBSET (Intents \X Contents)
    BY <1>0, <1>2
    DEF RRevealsEnd, RValidate, RBuild, RBuildFails, RFragmentsEnd, RBroadcast,
        RBroadcastFails, RNotify, RClear
  <1>7. /\ toPart' \in [Participants -> Halves(Incoming)]
        /\ toCoord' \in [Participants -> Halves(Outgoing)]
        /\ \A p \in Participants : Items(toCoord'[p].sent) \subseteq Items(toCoord[p].sent)
    <2>1. \/ UNCHANGED <<toPart, toCoord>>
          \/ \E S : Clear(S)
          \/ UNCHANGED toCoord /\ (RValidate \/ RBuild \/ RNotify)
      BY DEF RRevealsEnd, RValidate, RBuild, RBuildFails, RFragmentsEnd, RBroadcast,
             RBroadcastFails, Refused, RNotify, RClear
    <2>2. ASSUME NEW S, Clear(S)
          PROVE  /\ toPart' \in [Participants -> Halves(Incoming)]
                 /\ toCoord' \in [Participants -> Halves(Outgoing)]
                 /\ \A p \in Participants : Items(toCoord'[p].sent) = Items(toCoord[p].sent)
      BY <1>0, <2>2, ClearTyped
    <2>3. CASE UNCHANGED toCoord /\ RValidate
      BY <1>0, <1>2, <2>3, RemoveInvalidTyped DEF RValidate
    <2>4. CASE UNCHANGED toCoord /\ RBuild
      BY <1>0, <1>2, <2>4, ProposeTyped DEF RBuild
    <2>5. CASE UNCHANGED toCoord /\ RNotify
      BY <1>0, <1>2, <2>5, IncomingTyped, SendAllTyped DEF RNotify
    <2> QED
      BY <1>0, <2>1, <2>2, <2>3, <2>4, <2>5
  <1> QED
    BY <1>0, <1>1, <1>4, <1>5, <1>6, <1>7 DEF Listens

\* Every step that is not a participant's.
CoordinatorMoves ==
    Coordinator \/ RCrash \/ (\E b \in Intents : ROverdue(b) \/ RCleanup(b))

LEMMA RollingStep ==
    ASSUME RollingTypeInv, CoordinatorMoves
    PROVE  RollingTypeInv' /\ Listens
  <1>1. CoordinatorTyped' /\ UNCHANGED own /\ Listens
    BY RollingMessageStep, RollingLoopStep, RollingBatchStep
    DEF CoordinatorMoves, Coordinator, RDeadline
  <1> QED
    BY <1>1, OwnPart
------------------------------------------------------------------------------
(* Types.                                                                    *)

LEMMA RollingTypeInit == Init => RollingTypeInv
  <1> SUFFICES ASSUME Init
               PROVE  RollingTypeInv
    OBVIOUS
  <1>1. PeersInv
    BY NoBanTyped, PeersStart DEF Init
  <1>2. /\ status \in [Intents -> Statuses] /\ current \in Intents
        /\ committed \in [Intents -> Contents]
    BY FreshTyped, NothingTyped DEF Init, Statuses
  <1> QED
    BY <1>1, <1>2 DEF Init, RollingTypeInv, PeersInv, TypeOK, Phases, Polling, Idle

LEMMA ParticipantRollingStep ==
    ASSUME RollingTypeInv, NEW p \in Participants,
           ParticipantRuns(p) \/ ParticipantStarts(p)
    PROVE  RollingTypeInv' /\ UNCHANGED rvars /\ ParticipantMoves(p)
  <1>1. ParticipantMoves(p) /\ UNCHANGED rvars
    BY DEF ParticipantRuns, ParticipantStarts, ParticipantMoves, PDeadline
  <1>2. PeersInv'
    BY <1>1, PeersOfRolling, ParticipantKeepsPeers DEF peers, rvars, round, standing, fetched
  <1> QED
    BY <1>1, <1>2
    DEF RollingTypeInv, TypeOK, PeersInv, rvars, control, book, round, standing, fetched

LEMMA RollingTypeStep == RollingTypeInv /\ [Next]_vars => RollingTypeInv'
  <1> SUFFICES ASSUME RollingTypeInv, [Next]_vars
               PROVE  RollingTypeInv'
    OBVIOUS
  <1>1. CASE CoordinatorMoves
    BY <1>1, RollingStep
  <1>2. ASSUME NEW p \in Participants, ParticipantRuns(p) \/ ParticipantStarts(p)
        PROVE  RollingTypeInv'
    BY <1>2, ParticipantRollingStep
  <1>3. CASE UNCHANGED vars
    BY <1>3
    DEF vars, pvars, rvars, control, book, round, standing, fetched, RollingTypeInv, TypeOK,
        PeersTypeOK, ParticipantTypeOK, Prepared
  <1> QED
    BY <1>1, <1>2, <1>3 DEF Next, CoordinatorMoves, Waits

LEMMA RollingTypeInvariant == Spec => []RollingTypeInv
  <1>1. RollingTypeInv /\ [Next]_vars => RollingTypeInv'
    BY RollingTypeStep
  <1> QED
    BY RollingTypeInit, <1>1, PTL DEF Spec

\* Through batches that come and go and a coordinator that is started again, every
\* process, conversation and book stays well formed: no request, template or rejection
\* is sent for a batch there never was.
THEOREM TypeCorrect == Spec => []TypeOK
  <1>1. RollingTypeInv => TypeOK
    BY DEF RollingTypeInv
  <1> QED
    BY RollingTypeInvariant, <1>1, PTL

------------------------------------------------------------------------------
(* Rounds of process_batch.                                                  *)

RoundEmpty == reveals = NoContents /\ template = NoContents /\ fragments = NoFragments

\* Nothing is left of a round when the next begins, and from the proposal on the
\* template is what was revealed.
RoundOrder ==
    /\ phase \in Idle => RoundEmpty
    /\ phase \in {"reveal", "validate", "build"} =>
        template = NoContents /\ fragments = NoFragments
    /\ phase \in {"sign", "broadcast", "notify", "clear"} =>
        template = reveals /\ Members(template) # {}
    /\ phase = "broadcast" => AllSigned
    /\ phase = "notify" => <<doing, template>> \in landed

\* A complete fragment is its sender's signature of this template for this batch.
FragmentsTrue ==
    \A p \in Participants :
        fragments[p] = "full" => <<doing, template>> \in signed[p]

RoundInv ==
    /\ RoundOrder
    /\ TemplateAsCommitted
    /\ ClaimsTrue
    /\ FragmentsTrue
    /\ AuthorizedSpends

LEMMA RoundInit == Init => RoundInv
  BY ClaimsStart
  DEF Init, PeersInit, RoundInv, RoundOrder, RoundEmpty, TemplateAsCommitted, FragmentsTrue,
      AuthorizedSpends, Idle, NoContents, NoFragments

\* The network sees a transaction when it is broadcast, and not before.
LEMMA LandingStep ==
    ASSUME RollingTypeInv, CoordinatorMoves
    PROVE  /\ landed \subseteq landed'
           /\ landed' # landed => (RBroadcast \/ RBroadcastFails)
           /\ landed' \subseteq landed \cup {<<doing, template>>}
           /\ landed' # landed => phase = "broadcast"
  <1> USE DEF control, book, round, standing, fetched, own, pvars
  <1>1. CASE RBroadcast \/ RBroadcastFails
    BY <1>1 DEF RBroadcast, RBroadcastFails
  <1>2. CASE ~(RBroadcast \/ RBroadcastFails)
    <2>1. UNCHANGED landed
      BY <1>2
      DEF CoordinatorMoves, Coordinator, RDeadline, RMessage, RSkip, RQuery, RCommitment,
          RReject, RReveal, RBadReveal, RFragment, RPoll, RMark, RStart, ROverdue, RCleanup,
          RCrash, RRevealsEnd, RValidate, RBuild, RBuildFails, RFragmentsEnd, RNotify,
          RClear
    <2> QED
      BY <2>1
  <1> QED
    BY <1>1, <1>2

LEMMA RollingSpendStep ==
    ASSUME RollingTypeInv, RoundInv, CoordinatorMoves
    PROVE  AuthorizedSpends'
  <1>1. UNCHANGED signed
    BY RollingStep DEF Listens
  <1>2. phase = "broadcast" =>
            /\ Members(template) # {}
            /\ \A p \in Members(template) : <<doing, template>> \in signed[p]
    BY DEF RoundInv, RoundOrder, AllSigned, FragmentsTrue, Members
  <1>3. ASSUME NEW t \in landed'
        PROVE  Members(t[2]) # {} /\ \A p \in Members(t[2]) : t \in signed[p]
    <2>1. CASE t \in landed
      BY <2>1 DEF RoundInv, AuthorizedSpends
    <2>2. CASE t \notin landed
      <3>1. t = <<doing, template>> /\ phase = "broadcast"
        BY <1>3, <2>2, LandingStep
      <3> QED
        BY <1>2, <3>1
    <2> QED
      BY <2>1, <2>2
  <1> QED
    BY <1>1, <1>3 DEF AuthorizedSpends, Members

LEMMA CoordinatorRoundStep ==
    ASSUME RollingTypeInv, RoundInv, CoordinatorMoves
    PROVE  RoundInv'
  <1> USE DEF control, book, round, standing, fetched, own, pvars
  <1>0. CoordinatorTyped /\ PeersTypeOK
    BY CoordinatorPart DEF RollingTypeInv, TypeOK
  <1>1. ClaimsTrue' /\ AuthorizedSpends' /\ UNCHANGED signed
    BY RollingStep, ListeningKeepsClaims, RollingSpendStep DEF RoundInv, Listens
  <1>2. ASSUME RoundEmpty', phase' \in Idle \cup {"reveal"}
        PROVE  RoundInv'
    BY <1>1, <1>2
    DEF RoundInv, RoundOrder, RoundEmpty, TemplateAsCommitted, FragmentsTrue, Idle,
        NoContents, NoFragments
  <1>3. ASSUME Finish
        PROVE  RoundInv'
    <2>1. RoundEmpty' /\ phase' \in Idle
      BY <1>0, <1>3, FinishTyped DEF RoundEmpty, Idle, NoContents, NoFragments
    <2> QED
      BY <1>2, <2>1
  <1>4. ASSUME UNCHANGED <<phase, doing, committed, reveals, template, fragments, landed>>
        PROVE  RoundInv'
    BY <1>1, <1>4
    DEF RoundInv, RoundOrder, RoundEmpty, TemplateAsCommitted, FragmentsTrue, AllSigned,
        Members, NoContents, NoFragments
  <1>5. ASSUME RoundEmpty, UNCHANGED <<reveals, template, fragments>>,
               phase' \in Idle \cup {"reveal"}
        PROVE  RoundInv'
    BY <1>2, <1>5 DEF RoundEmpty, NoContents, NoFragments
  <1>6. ASSUME phase \in Idle
        PROVE  RoundEmpty
    BY <1>6 DEF RoundInv, RoundOrder
  <1>7. ASSUME NEW p \in Participants, RMessage(p)
        PROVE  RoundInv'
    <2>1. CASE RSkip(p) \/ RBadReveal(p)
      BY <1>4, <2>1 DEF RSkip, RBadReveal
    <2>2. CASE RQuery(p) \/ RCommitment(p) \/ RReject(p)
      <3>1. phase = "serve" /\ phase' = "serve" /\ UNCHANGED <<reveals, template, fragments>>
        BY <2>2 DEF RQuery, RCommitment, RReject, Relevant
      <3> QED
        BY <1>5, <1>6, <3>1 DEF Idle
    <2>3. CASE RReveal(p)
      <3>1. /\ phase = "reveal"
            /\ UNCHANGED <<phase, doing, committed, template, fragments, landed>>
            /\ \A q \in Participants \ {p} : reveals'[q] = reveals[q]
            /\ reveals'[p] \in {reveals[p], committed[doing][p]}
        BY <1>0, <2>3, KeepRevealTyped DEF RReveal, Relevant, Opens
      <3> QED
        BY <1>1, <3>1
        DEF RoundInv, RoundOrder, TemplateAsCommitted, FragmentsTrue, Idle, NoContents,
            NoFragments
    <2>4. CASE RFragment(p)
      <3>1. /\ phase = "sign" /\ Current(p).type = "SigFragment"
            /\ Current(p).intent = doing
            /\ UNCHANGED <<phase, doing, committed, reveals, template, landed>>
            /\ \A q \in Participants \ {p} : fragments'[q] = fragments[q]
        BY <1>0, <2>4, KeepFragmentTyped DEF RFragment, Relevant
      <3>2. fragments'[p] = "full" => <<doing, template>> \in signed[p]
        BY <1>0, <2>4, <3>1, KeptFragmentSigned DEF RFragment, RoundInv
      <3> QED
        BY <1>1, <3>1, <3>2
        DEF RoundInv, RoundOrder, TemplateAsCommitted, FragmentsTrue, Idle, Members
    <2> QED
      BY <1>7, <2>1, <2>2, <2>3, <2>4 DEF RMessage
  <1>8. CASE RPoll
    <2>1. UNCHANGED <<doing, committed, reveals, template, fragments, landed>>
      BY <1>8 DEF RPoll
    <2>2. UNCHANGED phase \/ (phase = "poll" /\ phase' = "serve")
      BY <1>8 DEF RPoll
    <2> QED
      BY <1>4, <1>5, <1>6, <2>1, <2>2 DEF Idle
  <1>9. CASE RMark \/ \E b \in Intents : RStart(b)
    <2>1. /\ phase \in Idle /\ phase' \in Idle \cup {"reveal"}
          /\ UNCHANGED <<reveals, template, fragments>>
      BY <1>9 DEF RMark, RStart, Idle
    <2> QED
      BY <1>5, <1>6, <2>1
  <1>10. CASE \E b \in Intents : ROverdue(b)
    BY <1>4, <1>10 DEF ROverdue
  <1>11. CASE \E b \in Intents : RCleanup(b)
    <2>1. phase = "poll" /\ phase' = "poll" /\ UNCHANGED <<reveals, template, fragments>>
      BY <1>11 DEF RCleanup
    <2> QED
      BY <1>5, <1>6, <2>1 DEF Idle
  <1>12. CASE RCrash
    <2>1. RoundEmpty' /\ phase' = "poll"
      BY <1>12 DEF RCrash, RoundEmpty, NoContents, NoFragments
    <2> QED
      BY <1>2, <2>1 DEF Idle
  <1>13. CASE RRevealsEnd
    <2>1. \/ Finish
          \/ /\ phase = "reveal" /\ phase' = "validate"
             /\ UNCHANGED <<doing, committed, reveals, template, fragments, landed>>
      BY <1>13 DEF RRevealsEnd
    <2>2. ASSUME phase = "reveal", phase' = "validate",
                 UNCHANGED <<doing, committed, reveals, template, fragments, landed>>
          PROVE  RoundInv'
      BY <1>1, <2>2
      DEF RoundInv, RoundOrder, TemplateAsCommitted, FragmentsTrue, Idle, NoContents,
          NoFragments
    <2> QED
      BY <1>3, <2>1, <2>2
  <1>14. CASE RValidate
    <2>1. /\ phase = "validate" /\ phase' = "build"
          /\ UNCHANGED <<doing, committed, template, fragments, landed>>
      BY <1>14 DEF RValidate
    <2>2. \A p \in Participants : reveals'[p] \in {reveals[p], NoPlan}
      BY <1>14 DEF RValidate, RemoveInvalid
    <2> QED
      BY <1>1, <2>1, <2>2
      DEF RoundInv, RoundOrder, TemplateAsCommitted, FragmentsTrue, Idle, NoContents,
          NoFragments
  <1>15. CASE RBuild
    <2>1. /\ phase = "build" /\ phase' = "sign" /\ template' = reveals
          /\ Members(reveals) # {}
          /\ UNCHANGED <<doing, committed, reveals, fragments, landed>>
      BY <1>15 DEF RBuild, Propose
    <2>2. \A p \in Participants : fragments'[p] # "full"
      BY <2>1 DEF RoundInv, RoundOrder, NoFragments
    <2> QED
      BY <1>1, <2>1, <2>2
      DEF RoundInv, RoundOrder, TemplateAsCommitted, FragmentsTrue, Idle, Members
  <1>16. CASE RFragmentsEnd
    <2>1. \/ Finish
          \/ /\ phase = "sign" /\ phase' = "broadcast" /\ AllSigned
             /\ UNCHANGED <<doing, committed, reveals, template, fragments, landed>>
      BY <1>16 DEF RFragmentsEnd
    <2>2. ASSUME phase = "sign", phase' = "broadcast", AllSigned,
                 UNCHANGED <<doing, committed, reveals, template, fragments, landed>>
          PROVE  RoundInv'
      BY <1>1, <2>2
      DEF RoundInv, RoundOrder, TemplateAsCommitted, FragmentsTrue, Idle, AllSigned, Members
    <2> QED
      BY <1>3, <2>1, <2>2
  <1>17. CASE RBroadcast \/ RNotify
    <2>1. /\ \/ phase = "broadcast" /\ phase' = "notify" /\ <<doing, template>> \in landed'
             \/ phase = "notify" /\ phase' = "clear"
          /\ UNCHANGED <<doing, committed, reveals, template, fragments>>
      BY <1>17 DEF RBroadcast, RNotify
    <2> QED
      BY <1>1, <2>1
      DEF RoundInv, RoundOrder, TemplateAsCommitted, FragmentsTrue, Idle, Members
  <1>18. CASE RBuildFails \/ RBroadcastFails \/ RClear
    BY <1>3, <1>18 DEF RBuildFails, RBroadcastFails, Refused, RClear
  <1> QED
    BY <1>7, <1>8, <1>9, <1>10, <1>11, <1>12, <1>13, <1>14, <1>15, <1>16, <1>17, <1>18
    DEF CoordinatorMoves, Coordinator, RDeadline

LEMMA RoundInvariant == Spec => []RoundInv
  <1>1. RollingTypeInv /\ RoundInv /\ [Next]_vars => RoundInv'
    <2> SUFFICES ASSUME RollingTypeInv, RoundInv, [Next]_vars
                 PROVE  RoundInv'
      OBVIOUS
    <2>1. CASE CoordinatorMoves
      BY <2>1, CoordinatorRoundStep
    <2>2. ASSUME NEW p \in Participants, ParticipantRuns(p) \/ ParticipantStarts(p)
          PROVE  RoundInv'
      <3>1. ParticipantMoves(p) /\ UNCHANGED rvars
        BY <2>2, ParticipantRollingStep
      <3>2. ClaimsTrue' /\ (\A q \in Participants : signed[q] \subseteq signed'[q])
        BY <3>1, PeersOfRolling, ParticipantKeepsClaims DEF RoundInv, rvars, fetched
      <3> QED
        BY <3>1, <3>2
        DEF rvars, control, book, round, RoundInv, RoundOrder, RoundEmpty,
            TemplateAsCommitted, FragmentsTrue, AuthorizedSpends, AllSigned, Members,
            NoContents, NoFragments
    <2>3. CASE UNCHANGED vars
      BY <2>3
      DEF vars, pvars, rvars, control, book, round, fetched, RoundInv, RoundOrder,
          RoundEmpty, TemplateAsCommitted, ClaimsTrue, FragmentsTrue, AuthorizedSpends,
          AllSigned, Members, NoContents, NoFragments
    <2> QED
      BY <2>1, <2>2, <2>3 DEF Next, CoordinatorMoves, Waits
  <1> QED
    BY RoundInit, <1>1, RollingTypeInvariant, PTL DEF Spec

\* However often a batch is processed, and whatever is left over from an earlier round
\* or an earlier coordinator, nobody's coins move without that owner's signatures on
\* exactly this transaction, for this batch.
THEOREM Authorized == Spec => []AuthorizedSpends
  <1>1. RoundInv => AuthorizedSpends
    BY DEF RoundInv
  <1> QED
    BY RoundInvariant, <1>1, PTL

\* What is revealed and what goes into the template is what its owner has committed to
\* last: no commitment changes while its batch is processed.
THEOREM TemplateCommitted == Spec => []TemplateAsCommitted
  <1>1. RoundInv => TemplateAsCommitted
    BY DEF RoundInv
  <1> QED
    BY RoundInvariant, <1>1, PTL
------------------------------------------------------------------------------
(* Commitments and the quorum.                                               *)

\* How the commitments to a batch change: one is added or replaced in a batch that is
\* not full, or the batch is forgotten.
LEMMA CommittedChanges ==
    ASSUME RollingTypeInv, CoordinatorMoves, NEW b \in Intents
    PROVE  \/ committed'[b] \in {committed[b], NoContents}
           \/ \E p \in Participants :
                /\ Offered(p) /\ Current(p).type = "Commitment" /\ Current(p).intent = b
                /\ ~Full(committed[b])
                /\ committed'[b] = [committed[b] EXCEPT ![p] = Current(p).plan]
  <1> USE DEF control, book, round, standing, fetched, own, pvars
  <1>0. CoordinatorTyped
    BY CoordinatorPart
  <1>1. ASSUME NEW p \in Participants, RCommitment(p)
        PROVE  \/ committed'[b] = committed[b]
               \/ /\ Offered(p) /\ Current(p).type = "Commitment" /\ Current(p).intent = b
                  /\ ~Full(committed[b])
                  /\ committed'[b] = [committed[b] EXCEPT ![p] = Current(p).plan]
    BY <1>0, <1>1 DEF RCommitment, AddCommitment, Accepting, CoordinatorTyped
  <1>2. CASE RCrash \/ \E c \in Intents : RCleanup(c)
    BY <1>0, <1>2 DEF RCrash, RCleanup, CoordinatorTyped
  <1>3. CASE ~RCrash /\ ~(\E c \in Intents : RCleanup(c)) /\ ~(\E p \in Participants : RCommitment(p))
    <2>1. UNCHANGED committed
      BY <1>3
      DEF CoordinatorMoves, Coordinator, RDeadline, RMessage, RSkip, RQuery, RReject,
          RReveal, RBadReveal, RFragment, RPoll, RMark, RStart, ROverdue, RRevealsEnd,
          RValidate, RBuild, RBuildFails, RFragmentsEnd, RBroadcast, RBroadcastFails,
          RNotify, RClear
    <2> QED
      BY <2>1
  <1> QED
    BY <1>1, <1>2, <1>3

\* What is held against a participant is what it has said itself.
CommittedPromised ==
    \A b \in Intents : \A p \in Participants :
        committed[b][p] # NoPlan => Promised(p, b, committed[b][p])

PromiseInv == PromisesKept /\ CommittedPromised

LEMMA PromiseInit == Init => PromiseInv
  BY PromisesStart DEF Init, PromiseInv, CommittedPromised, NoContents

LEMMA CoordinatorPromiseStep ==
    ASSUME RollingTypeInv, PromiseInv, CoordinatorMoves
    PROVE  PromiseInv'
  <1>0. CoordinatorTyped /\ PeersTypeOK /\ Listens
    BY CoordinatorPart, RollingStep DEF RollingTypeInv, TypeOK
  <1>1. PromisesKept' /\ \A p \in Participants : \A i, x : Promised(p, i, x) => Promised(p, i, x)'
    BY <1>0, ListeningKeepsPromises DEF PromiseInv
  <1>2. ASSUME NEW b \in Intents, NEW p \in Participants, committed'[b][p] # NoPlan
        PROVE  Promised(p, b, committed'[b][p])
    <2>1. CASE committed'[b] = committed[b]
      BY <1>2, <2>1 DEF PromiseInv, CommittedPromised
    <2>2. CASE committed'[b] = NoContents
      BY <1>2, <2>2 DEF NoContents
    <2>3. ASSUME NEW q \in Participants,
                 Offered(q), Current(q).type = "Commitment", Current(q).intent = b,
                 committed'[b] = [committed[b] EXCEPT ![q] = Current(q).plan]
          PROVE  Promised(p, b, committed'[b][p])
      <3>1. Promised(q, b, Current(q).plan)
        BY <1>0, <2>3, CurrentTyped DEF PromiseInv, PromisesKept, Promises
      <3> QED
        BY <1>0, <1>2, <2>3, <3>1
        DEF PromiseInv, CommittedPromised, CoordinatorTyped, Contents
    <2> QED
      BY <2>1, <2>2, <2>3, CommittedChanges
  <1>3. \A b \in Intents : \A p \in Participants : committed'[b][p] # NoPlan =>
            \A x : x = committed'[b][p] => Promised(p, b, x)'
    BY <1>1, <1>2
  <1> QED
    BY <1>1, <1>3 DEF PromiseInv, CommittedPromised

LEMMA PromiseInvariant == Spec => []PromiseInv
  <1>1. RollingTypeInv /\ PromiseInv /\ [Next]_vars => PromiseInv'
    <2> SUFFICES ASSUME RollingTypeInv, PromiseInv, [Next]_vars
                 PROVE  PromiseInv'
      OBVIOUS
    <2>1. CASE CoordinatorMoves
      BY <2>1, CoordinatorPromiseStep
    <2>2. ASSUME NEW p \in Participants, ParticipantRuns(p) \/ ParticipantStarts(p)
          PROVE  PromiseInv'
      <3>1. ParticipantMoves(p) /\ UNCHANGED rvars
        BY <2>2, ParticipantRollingStep
      <3>2. PromisesKept'
        BY <3>1, PeersOfRolling, ParticipantKeepsPromises DEF PromiseInv, rvars, fetched
      <3> QED
        BY <3>1, <3>2, PeersOfRolling, ParticipantKeepsBound
        DEF PromiseInv, CommittedPromised, rvars, book
    <2>3. CASE UNCHANGED vars
      BY <2>3
      DEF vars, pvars, rvars, book, fetched, PromiseInv, PromisesKept, CommittedPromised,
          Promised, Bound, PassesLocally
    <2> QED
      BY <2>1, <2>2, <2>3 DEF Next, CoordinatorMoves, Waits
  <1> QED
    BY PromiseInit, <1>1, RollingTypeInvariant, PTL DEF Spec

\* From the counting of the reveals to the broadcast.
Ongoing == {"validate", "build", "sign", "broadcast"}

\* What is removed from a round has been committed to it, and no round goes on whose
\* reveals were too few before some were removed.
RoundLimits ==
    /\ phase \in Idle \cup {"reveal", "validate"} => removed = {}
    /\ phase \notin Idle => removed \subseteq Members(committed[doing])
    /\ phase \in Ongoing => Cardinality(Members(reveals) \cup removed) >= MinParticipants

\* No batch exceeds the maximum.
LimitInv ==
    /\ \A b \in Intents :
        /\ IsFiniteSet(Members(committed[b]))
        /\ Cardinality(Members(committed[b])) <= MaxParticipants
    /\ RoundLimits

LEMMA LimitInit == Init => LimitInv
  <1> SUFFICES ASSUME Init
               PROVE  LimitInv
    OBVIOUS
  <1>1. \A b \in Intents : Members(committed[b]) = {}
    BY DEF Init, Members, NoContents
  <1>2. \A b \in Intents : IsFiniteSet(Members(committed[b]))
                            /\ Cardinality(Members(committed[b])) = 0
    BY <1>1, FS_EmptySet
  <1> QED
    BY <1>2, QuorumAssumption DEF Init, LimitInv, RoundLimits, Ongoing, Idle

LEMMA OneMore ==
    ASSUME NEW S, NEW T, NEW x, NEW n \in Nat,
           T \subseteq S \cup {x}, IsFiniteSet(S), Cardinality(S) < n
    PROVE  IsFiniteSet(T) /\ Cardinality(T) <= n
  <1>1. Cardinality(S) \in Nat
    BY FS_CardinalityType
  <1>2. IsFiniteSet(S \cup {x}) /\ Cardinality(S \cup {x}) \in {Cardinality(S), Cardinality(S) + 1}
    BY FS_AddElement
  <1>3. IsFiniteSet(T) /\ Cardinality(T) <= Cardinality(S \cup {x})
    BY <1>2, FS_Subset
  <1>4. Cardinality(T) \in Nat
    BY <1>3, FS_CardinalityType
  <1> QED
    BY <1>1, <1>2, <1>3, <1>4

LEMMA CommittedLimited ==
    ASSUME RollingTypeInv, LimitInv, CoordinatorMoves, NEW b \in Intents
    PROVE  /\ IsFiniteSet(Members(committed[b])')
           /\ Cardinality(Members(committed[b])') <= MaxParticipants
  <1>0. CoordinatorTyped /\ PeersTypeOK
    BY CoordinatorPart DEF RollingTypeInv, TypeOK
  <1>1. CASE committed'[b] = committed[b]
    BY <1>1 DEF LimitInv, Members
  <1>2. CASE committed'[b] = NoContents
    <2>1. Members(committed[b])' = {}
      BY <1>2 DEF Members, NoContents
    <2> QED
      BY <2>1, FS_EmptySet, QuorumAssumption
  <1>3. ASSUME NEW p \in Participants, ~Full(committed[b]),
               committed'[b] = [committed[b] EXCEPT ![p] = Current(p).plan]
        PROVE  /\ IsFiniteSet(Members(committed[b])')
               /\ Cardinality(Members(committed[b])') <= MaxParticipants
    <2>1. Members(committed[b])' \subseteq Members(committed[b]) \cup {p}
      BY <1>0, <1>3 DEF Members, CoordinatorTyped, Contents
    <2>2. IsFiniteSet(Members(committed[b])) /\ Cardinality(Members(committed[b])) < MaxParticipants
      <3>1. IsFiniteSet(Members(committed[b])) /\ Cardinality(Members(committed[b])) \in Nat
        BY FS_CardinalityType DEF LimitInv
      <3> QED
        BY <1>3, <3>1, QuorumAssumption DEF Full
    <2> QED
      BY <2>1, <2>2, OneMore, QuorumAssumption
  <1> QED
    BY <1>1, <1>2, <1>3, CommittedChanges

\* Validation moves members from the reveals to the removed.
LEMMA MovesRemoved ==
    ASSUME RollingTypeInv, RValidate
    PROVE  /\ Members(reveals)' \cup removed' = Members(reveals)
           /\ removed' \subseteq Members(reveals)
  <1>1. PICK verdict \in [Members(reveals) -> Verdicts] :
            RemoveInvalid(verdict, doing) /\ removed' = Invalid(verdict)
    BY DEF RValidate
  <1>2. removed' \subseteq Members(reveals)
    BY <1>1 DEF Invalid, Poor, Unfit
  <1>3. \A p \in Participants :
            reveals'[p] = IF p \in removed' THEN NoPlan ELSE reveals[p]
    BY <1>1 DEF RemoveInvalid
  <1> QED
    BY <1>2, <1>3 DEF Members

\* Nothing else happens to a round whose reveals are counted.
LEMMA RoundStays ==
    ASSUME RollingTypeInv, CoordinatorMoves, ~RRevealsEnd, ~RValidate,
           phase' \notin Idle \cup {"reveal"}
    PROVE  /\ UNCHANGED <<doing, committed, reveals, removed>>
           /\ phase \notin Idle \cup {"reveal"}
           /\ phase' = "validate" => phase = "validate"
           /\ phase' \in Ongoing => phase \in Ongoing
  <1> USE DEF control, book, round, standing, fetched, own, pvars, Idle, Ongoing
  <1>0. CoordinatorTyped
    BY CoordinatorPart
  <1>1. ~Finish
    BY <1>0, FinishTyped
  <1>2. CASE \E p \in Participants : RMessage(p)
    BY <1>2
    DEF RMessage, RSkip, RQuery, RCommitment, RReject, RReveal, RBadReveal, RFragment,
        Relevant
  <1>3. CASE RPoll \/ RMark \/ RCrash
             \/ \E b \in Intents : RStart(b) \/ ROverdue(b) \/ RCleanup(b)
    BY <1>3 DEF RPoll, RMark, RCrash, RStart, ROverdue, RCleanup
  <1>4. CASE \/ RBuild \/ RBuildFails \/ RFragmentsEnd \/ RBroadcast
             \/ RBroadcastFails \/ RNotify \/ RClear
    BY <1>1, <1>4
    DEF RBuild, RBuildFails, RFragmentsEnd, RBroadcast, RBroadcastFails, Refused,
        RNotify, RClear
  <1> QED
    BY <1>2, <1>3, <1>4 DEF CoordinatorMoves, Coordinator, RDeadline

\* Between two rounds, and while reveals come in, nothing has been removed.
LEMMA NothingRemovedYet ==
    ASSUME RollingTypeInv, RoundLimits, CoordinatorMoves,
           phase' \in Idle \cup {"reveal"}
    PROVE  removed' = {}
  <1> USE DEF control, book, round, standing, fetched, own, pvars, Idle, RoundLimits
  <1>0. CoordinatorTyped
    BY CoordinatorPart
  <1>1. CASE Finish
    BY <1>0, <1>1, FinishTyped
  <1>2. CASE \E p \in Participants : RMessage(p)
    BY <1>2
    DEF RMessage, RSkip, RQuery, RCommitment, RReject, RReveal, RBadReveal, RFragment
  <1>3. CASE RPoll \/ RMark \/ RCrash
             \/ \E b \in Intents : RStart(b) \/ ROverdue(b) \/ RCleanup(b)
    BY <1>3 DEF RPoll, RMark, RCrash, RStart, ROverdue, RCleanup
  <1>4. CASE /\ ~Finish
             /\ \/ RRevealsEnd \/ RValidate \/ RBuild \/ RBuildFails \/ RFragmentsEnd
                \/ RBroadcast \/ RBroadcastFails \/ RNotify \/ RClear
    BY <1>4
    DEF RRevealsEnd, RValidate, RBuild, RBuildFails, RFragmentsEnd, RBroadcast,
        RBroadcastFails, Refused, RNotify, RClear
  <1> QED
    BY <1>1, <1>2, <1>3, <1>4 DEF CoordinatorMoves, Coordinator, RDeadline

LEMMA RoundLimitStep ==
    ASSUME RollingTypeInv, RoundInv, RoundLimits, CoordinatorMoves
    PROVE  RoundLimits'
  <1>0. CoordinatorTyped
    BY CoordinatorPart
  <1>1. CASE phase' \in Idle \cup {"reveal"}
    BY <1>1, NothingRemovedYet DEF RoundLimits, Ongoing, Idle
  <1>2. CASE RRevealsEnd /\ phase' \notin Idle \cup {"reveal"}
    <2>1. /\ phase = "reveal" /\ phase' = "validate"
          /\ EnoughReveals /\ UNCHANGED <<reveals, removed>>
      BY <1>0, <1>2, FinishTyped DEF RRevealsEnd, round, Idle
    <2>2. removed' = {}
      BY <2>1 DEF RoundLimits
    <2>3. Members(reveals)' \cup removed' = Members(reveals)
      BY <2>1, <2>2 DEF Members
    <2> QED
      BY <2>1, <2>2, <2>3 DEF RoundLimits, EnoughReveals, Idle, Ongoing
  <1>3. CASE RValidate
    <2>1. /\ phase = "validate" /\ phase' = "build"
          /\ UNCHANGED <<doing, committed>>
      BY <1>3 DEF RValidate, book
    <2>2. Members(reveals) \subseteq Members(committed[doing])
      BY DEF RoundInv, TemplateAsCommitted, Members
    <2>3. removed = {} /\ Cardinality(Members(reveals) \cup removed) >= MinParticipants
      BY <2>1 DEF RoundLimits, Ongoing
    <2>4. Members(reveals)' \cup removed' = Members(reveals) \cup removed
      BY <1>3, <2>3, MovesRemoved
    <2>5. removed' \subseteq Members(committed[doing])'
      BY <1>3, <2>1, <2>2, MovesRemoved DEF Members
    <2> QED
      BY <2>1, <2>3, <2>4, <2>5 DEF RoundLimits, Idle
  <1>4. CASE ~RRevealsEnd /\ ~RValidate /\ phase' \notin Idle \cup {"reveal"}
    BY <1>4, RoundStays DEF RoundLimits, Members
  <1> QED
    BY <1>1, <1>2, <1>3, <1>4

LEMMA LimitInvariant == Spec => []LimitInv
  <1>1. RollingTypeInv /\ RoundInv /\ LimitInv /\ [Next]_vars => LimitInv'
    <2> SUFFICES ASSUME RollingTypeInv, RoundInv, LimitInv, [Next]_vars
                 PROVE  LimitInv'
      OBVIOUS
    <2>1. CASE CoordinatorMoves
      BY <2>1, CommittedLimited, RoundLimitStep DEF LimitInv
    <2>2. CASE UNCHANGED rvars
      BY <2>2 DEF rvars, control, book, round, LimitInv, RoundLimits, Members
    <2> QED
      BY <2>1, <2>2
      DEF Next, CoordinatorMoves, Waits, ParticipantRuns, ParticipantStarts, vars
  <1> QED
    BY LimitInit, <1>1, RollingTypeInvariant, RoundInvariant, PTL DEF Spec

\* A transaction that is broadcast, and what was removed from its round, stay within
\* the limits.
LEMMA QuorumStep ==
    ASSUME RollingTypeInv, RoundInv, LimitInv, phase = "broadcast"
    PROVE  Cardinality(Members(template) \cup removed) \in MinParticipants..MaxParticipants
  <1> DEFINE S == Members(template) \cup removed
  <1>1. template = reveals /\ doing \in Intents
    BY DEF RoundInv, RoundOrder, RollingTypeInv, Idle
  <1>2. Members(template) \subseteq Members(committed[doing])
    BY DEF RoundInv, TemplateAsCommitted, Members
  <1>3. S \subseteq Members(committed[doing]) /\ Cardinality(S) >= MinParticipants
    <2>1. removed \subseteq Members(committed[doing])
      BY DEF LimitInv, RoundLimits, Idle
    <2>2. Cardinality(Members(reveals) \cup removed) >= MinParticipants
      BY DEF LimitInv, RoundLimits, Ongoing
    <2> QED
      BY <1>1, <1>2, <2>1, <2>2
  <1>4. /\ IsFiniteSet(Members(committed[doing]))
        /\ Cardinality(Members(committed[doing])) <= MaxParticipants
    BY <1>1 DEF LimitInv
  <1> HIDE DEF S
  <1>5. IsFiniteSet(S) /\ Cardinality(S) <= Cardinality(Members(committed[doing]))
    BY <1>3, <1>4, FS_Subset
  <1>6. Cardinality(Members(committed[doing])) \in Nat /\ Cardinality(S) \in Nat
    BY <1>4, <1>5, FS_CardinalityType
  <1>7. Cardinality(S) \in MinParticipants..MaxParticipants
    BY <1>3, <1>4, <1>5, <1>6, QuorumAssumption
  <1> QED
    BY <1>7 DEF S

\* Whenever a transaction reaches the network, those it joins and those whose reveals
\* were removed from its batch, for lack of funds, for their form or for an input that
\* was not found, are at least the minimum and never more than the maximum, though a
\* batch is handed out and committed to while it is processed and after.
THEOREM Quorum == Spec => QuorumUnlessRemoved
  <1>1. RollingTypeInv /\ RoundInv /\ LimitInv /\ [Next]_vars
            => [landed' # landed =>
                    Cardinality(Members(template) \cup removed)
                        \in MinParticipants..MaxParticipants]_vars
    <2> SUFFICES ASSUME RollingTypeInv, RoundInv, LimitInv, Next, landed' # landed
                 PROVE  Cardinality(Members(template) \cup removed)
                            \in MinParticipants..MaxParticipants
      OBVIOUS
    <2>1. UNCHANGED rvars => UNCHANGED landed
      BY DEF rvars
    <2>2. CoordinatorMoves
      BY <2>1
      DEF Next, CoordinatorMoves, Waits, ParticipantRuns, ParticipantStarts, vars
    <2>3. phase = "broadcast"
      BY <2>2, LandingStep
    <2> QED
      BY <2>3, QuorumStep
  <1> QED
    BY <1>1, RollingTypeInvariant, RoundInvariant, LimitInvariant, PTL
    DEF Spec, QuorumUnlessRemoved
------------------------------------------------------------------------------
(* The book, and what is left to process.                                    *)

Serving == {"serve", "reveal", "sign"}

\* Messages are handled before anything else happens; nothing is known of a batch
\* that does not exist; and the batches to process are those that are marked.
BookInv ==
    /\ phase \notin Serving => inbox = EmptyInbox
    /\ \A b \in Intents : status[b] \in {"none", "removed"} => committed[b] = NoContents
    /\ phase \in {"poll", "serve"} => queue = {}
    /\ queue \subseteq Marked
    /\ phase \notin Idle => status[doing] = "processing" /\ doing \notin queue

LEMMA BookInit == Init => BookInv
  BY DEF Init, PeersInit, BookInv, Idle, Serving, NoContents

LEMMA FinishBook ==
    ASSUME RollingTypeInv, BookInv, Finish, phase \notin Idle, inbox = EmptyInbox,
           UNCHANGED <<inbox, queue, committed>>
    PROVE  BookInv'
  <1>1. /\ status \in [Intents -> Statuses] /\ doing \in Intents
        /\ queue \subseteq Marked /\ doing \notin queue
    BY DEF RollingTypeInv, TypeOK, BookInv
  <1>2. /\ status' = [status EXCEPT ![doing] = "completed"]
        /\ phase' = IF queue = {} THEN "poll" ELSE "pick"
    BY DEF Finish
  <1>3. queue' \subseteq Marked'
    BY <1>1, <1>2 DEF Marked
  <1>4. \A b \in Intents : status'[b] \in {"none", "removed"} => committed'[b] = NoContents
    BY <1>1, <1>2 DEF BookInv
  <1>5. EmptyInbox' = EmptyInbox /\ NoContents' = NoContents
    BY DEF EmptyInbox, NoContents
  <1> QED
    BY <1>2, <1>3, <1>4, <1>5 DEF BookInv, Idle

LEMMA BookStep ==
    ASSUME RollingTypeInv, BookInv, CoordinatorMoves
    PROVE  BookInv'
  <1> USE DEF control, book, round, standing, fetched, own, pvars
  <1>0. CoordinatorTyped
    BY CoordinatorPart
  <1>1. EmptyInbox' = EmptyInbox /\ NoContents' = NoContents
    BY DEF EmptyInbox, NoContents
  <1>2. ASSUME phase' \in Serving \/ inbox' = EmptyInbox,
               UNCHANGED <<queue, doing, status, committed>>,
               phase' = phase \/ (phase = "poll" /\ phase' = "serve")
                    \/ (phase \notin Idle /\ phase' \notin Idle)
        PROVE  BookInv'
    BY <1>1, <1>2 DEF BookInv, Idle, Marked
  <1>3. ASSUME NEW p \in Participants, RMessage(p)
        PROVE  BookInv'
    <2>1. phase \in Serving /\ UNCHANGED <<phase, queue, doing>>
      BY <1>3
      DEF RMessage, RSkip, RQuery, RCommitment, RReject, RReveal, RBadReveal, RFragment,
          Relevant, Serving
    <2>2. CASE UNCHANGED <<status, committed>>
      BY <1>2, <2>1, <2>2
    <2>3. CASE RQuery(p) /\ GetOrCreate
      <3>1. phase = "serve" /\ UNCHANGED committed
        BY <2>3 DEF RQuery, Relevant
      <3>2. \/ UNCHANGED status
            \/ Fresh \in Unborn /\ status' = [status EXCEPT ![Fresh] = "filling"]
        BY <2>3, FreshTyped DEF GetOrCreate
      <3>3. \A b \in Intents : status'[b] \in {"none", "removed"} => committed'[b] = NoContents
        BY <1>0, <3>1, <3>2 DEF BookInv, CoordinatorTyped
      <3> QED
        BY <1>1, <2>1, <3>1, <3>3 DEF BookInv, Idle, Serving
    <2>4. CASE RCommitment(p)
      <3> DEFINE b == Current(p).intent
      <3>1. phase = "serve" /\ Kept(b)
        BY <2>4 DEF RCommitment, Relevant, AddCommitment, Accepting
      <3>2. /\ \A c \in Intents \ {b} : status'[c] = status[c] /\ committed'[c] = committed[c]
            /\ status'[b] \notin {"none", "removed"}
        BY <1>0, <2>4, <3>1
        DEF RCommitment, AddCommitment, StatusWith, CoordinatorTyped, Kept
      <3> HIDE DEF b
      <3>3. \A c \in Intents : status'[c] \in {"none", "removed"} => committed'[c] = NoContents
        BY <3>2 DEF BookInv
      <3> QED
        BY <1>1, <2>1, <3>1, <3>3 DEF BookInv, Idle, Serving
    <2> QED
      BY <1>3, <2>2, <2>3, <2>4
      DEF RMessage, RSkip, RQuery, RReject, RReveal, RBadReveal, RFragment
  <1>4. CASE RPoll
    BY <1>2, <1>4 DEF RPoll, Serving
  <1>5. CASE RMark
    <2>1. /\ inbox' = EmptyInbox /\ UNCHANGED committed /\ phase' \in {"poll", "pick"}
          /\ queue' = Marked /\ (phase' = "poll" => queue' = {})
          /\ \A b \in Intents : status'[b] = "processing" \/ status'[b] = status[b]
      BY <1>0, <1>5 DEF RMark, CoordinatorTyped
    <2>2. queue' \subseteq Marked'
      BY <2>1 DEF Marked
    <2>3. \A b \in Intents : status'[b] \in {"none", "removed"} => committed'[b] = NoContents
      BY <2>1 DEF BookInv
    <2> QED
      BY <1>1, <2>1, <2>2, <2>3 DEF BookInv, Idle
  <1>6. ASSUME NEW b \in Intents, RStart(b)
        PROVE  BookInv'
    <2>1. /\ phase = "pick" /\ phase' = "reveal" /\ b \in queue /\ queue' = queue \ {b}
          /\ doing' = b /\ UNCHANGED <<committed, inbox>>
          /\ status' = [status EXCEPT ![b] = "processing"]
      BY <1>6 DEF RStart
    <2>2. \A c \in Intents : status'[c] = status[c]
      BY <1>0, <2>1 DEF BookInv, Marked, CoordinatorTyped
    <2>3. \A c \in Intents : status'[c] \in {"none", "removed"} => committed'[c] = NoContents
      BY <2>1, <2>2 DEF BookInv
    <2>4. queue' \subseteq Marked' /\ status'[b] = "processing"
      BY <2>1, <2>2 DEF BookInv, Marked
    <2> QED
      BY <1>1, <2>1, <2>3, <2>4 DEF BookInv, Idle, Serving
  <1>7. ASSUME NEW b \in Intents, ROverdue(b)
        PROVE  BookInv'
    BY <1>1, <1>7 DEF ROverdue, BookInv, Marked
  <1>8. ASSUME NEW b \in Intents, RCleanup(b)
        PROVE  BookInv'
    <2>1. /\ phase = "poll" /\ phase' = "poll" /\ UNCHANGED <<queue, inbox>>
          /\ \A c \in Intents \ {b} : status'[c] = status[c] /\ committed'[c] = committed[c]
          /\ committed'[b] = NoContents
      BY <1>0, <1>8 DEF RCleanup, CoordinatorTyped
    <2>2. \A c \in Intents : status'[c] \in {"none", "removed"} => committed'[c] = NoContents
      BY <2>1 DEF BookInv
    <2> QED
      BY <1>1, <2>1, <2>2 DEF BookInv, Idle
  <1>9. CASE RCrash
    <2>1. /\ phase' = "poll" /\ queue' = {} /\ inbox' = EmptyInbox
          /\ \A b \in Intents : committed'[b] = NoContents
      BY <1>9 DEF RCrash, DropInbox
    <2> QED
      BY <1>1, <2>1 DEF BookInv, Idle
  <1>10. ASSUME \/ RRevealsEnd \/ RValidate \/ RBuild \/ RBuildFails \/ RFragmentsEnd
                \/ RBroadcast \/ RBroadcastFails \/ RNotify \/ RClear
         PROVE  BookInv'
    <2>1. phase \notin Idle /\ inbox = EmptyInbox /\ UNCHANGED <<inbox, queue, committed>>
      BY <1>10
      DEF RRevealsEnd, RValidate, RBuild, RBuildFails, RFragmentsEnd, RBroadcast,
          RBroadcastFails, RNotify, RClear, BookInv, Idle, Serving
    <2>2. \/ Finish
          \/ UNCHANGED <<doing, status>> /\ phase' \notin Idle
      BY <1>10
      DEF RRevealsEnd, RValidate, RBuild, RBuildFails, RFragmentsEnd, RBroadcast,
          RBroadcastFails, Refused, RNotify, RClear, Idle
    <2> QED
      BY <1>2, <2>1, <2>2, FinishBook
  <1> QED
    BY <1>3, <1>4, <1>6, <1>5, <1>7, <1>8, <1>9, <1>10
    DEF CoordinatorMoves, Coordinator, RDeadline

LEMMA BookInvariant == Spec => []BookInv
  <1>1. RollingTypeInv /\ BookInv /\ [Next]_vars => BookInv'
    <2> SUFFICES ASSUME RollingTypeInv, BookInv, [Next]_vars
                 PROVE  BookInv'
      OBVIOUS
    <2>1. CASE CoordinatorMoves
      BY <2>1, BookStep
    <2>2. CASE UNCHANGED rvars
      BY <2>2
      DEF rvars, control, book, fetched, BookInv, Marked, EmptyInbox, NoContents
    <2> QED
      BY <2>1, <2>2
      DEF Next, CoordinatorMoves, Waits, ParticipantRuns, ParticipantStarts, vars
  <1> QED
    BY BookInit, <1>1, RollingTypeInvariant, PTL DEF Spec
\* A batch that is removed stays removed, and commitments change only one at a time.
LEMMA BookMoves ==
    ASSUME RollingTypeInv, BookInv, CoordinatorMoves, NEW b \in Intents
    PROVE  /\ status[b] = "removed" => status'[b] = "removed"
           /\ \/ committed'[b] = committed[b]
              \/ status'[b] = "removed"
              \/ \E p \in Participants : RCommitment(p) /\ Current(p).intent = b
  <1> USE DEF control, book, round, standing, fetched, own, pvars
  <1>0. CoordinatorTyped
    BY CoordinatorPart
  <1>1. ASSUME NEW p \in Participants, RCommitment(p)
        PROVE  /\ status[b] = "removed" => status'[b] = "removed"
               /\ committed'[b] = committed[b] \/ Current(p).intent = b
    BY <1>0, <1>1 DEF RCommitment, AddCommitment, Accepting, Kept, CoordinatorTyped
  <1>2. ASSUME NEW p \in Participants, RMessage(p), ~RCommitment(p)
        PROVE  /\ status[b] = "removed" => status'[b] = "removed"
               /\ committed'[b] = committed[b]
    <2>1. UNCHANGED committed
      BY <1>2 DEF RMessage, RSkip, RQuery, RReject, RReveal, RBadReveal, RFragment
    <2>2. UNCHANGED status \/ (RQuery(p) /\ GetOrCreate)
      BY <1>2 DEF RMessage, RSkip, RQuery, RReject, RReveal, RBadReveal, RFragment
    <2>3. ASSUME GetOrCreate, status[b] = "removed"
          PROVE  status'[b] = "removed"
      BY <1>0, <2>3, FreshTyped DEF GetOrCreate, Unborn, CoordinatorTyped
    <2> QED
      BY <2>1, <2>2, <2>3
  <1>3. CASE RPoll \/ \E c \in Intents : ROverdue(c)
    BY <1>3 DEF RPoll, ROverdue
  <1>4. CASE RMark
    BY <1>0, <1>4 DEF RMark, Due, CoordinatorTyped
  <1>5. ASSUME NEW c \in Intents, RStart(c)
        PROVE  /\ status[b] = "removed" => status'[b] = "removed"
               /\ committed'[b] = committed[b]
    BY <1>0, <1>5 DEF RStart, BookInv, Marked, CoordinatorTyped
  <1>6. ASSUME NEW c \in Intents, RCleanup(c)
        PROVE  /\ status[b] = "removed" => status'[b] = "removed"
               /\ committed'[b] = committed[b] \/ status'[b] = "removed"
    BY <1>0, <1>6 DEF RCleanup, CoordinatorTyped
  <1>7. CASE RCrash
    <2>1. /\ status' = [c \in Intents |-> IF c = Fresh THEN "filling"
                                        ELSE IF c \in Unborn THEN "none" ELSE "removed"]
          /\ committed'[b] = NoContents /\ Unborn # {}
      BY <1>7 DEF RCrash
    <2>2. Fresh \in Unborn
      BY <2>1, FreshTyped
    <2>3. CASE b \in Unborn
      BY <2>1, <2>3 DEF BookInv, Unborn
    <2>4. CASE b \notin Unborn
      BY <2>1, <2>2, <2>4
    <2> QED
      BY <2>3, <2>4 DEF Unborn
  <1>8. CASE \/ RRevealsEnd \/ RValidate \/ RBuild \/ RBuildFails \/ RFragmentsEnd
             \/ RBroadcast \/ RBroadcastFails \/ RNotify \/ RClear
    <2>1. UNCHANGED committed /\ phase \notin Idle /\ (UNCHANGED status \/ Finish)
      BY <1>8
      DEF RRevealsEnd, RValidate, RBuild, RBuildFails, RFragmentsEnd, RBroadcast,
          RBroadcastFails, Refused, RNotify, RClear, Idle
    <2>2. Finish /\ status[b] = "removed" => status'[b] = "removed"
      BY <1>0, <2>1 DEF Finish, BookInv, CoordinatorTyped
    <2> QED
      BY <2>1, <2>2
  <1> QED
    BY <1>1, <1>2, <1>3, <1>4, <1>5, <1>6, <1>7, <1>8
    DEF CoordinatorMoves, Coordinator, RDeadline

------------------------------------------------------------------------------
(* What participants are told.                                               *)

\* Reveals are requested when a round starts, templates are sent when they are
\* built, and FinalTx when the transaction has been broadcast.
LEMMA CoordinatorTells ==
    ASSUME RollingTypeInv, CoordinatorMoves
    PROVE  \A p \in Participants : \A m \in Items(News(p)') :
            \/ m \in Items(News(p))
            \/ RBuild /\ m = Template(doing, reveals)
            \/ RNotify /\ p \in Members(reveals) /\ m = FinalTx(doing)
            \/ m.type \in {"CurrentIntent", "RequestReveal", "Reject"}
  <1> USE DEF control, book, round, standing, fetched, own, pvars
  <1>0. CoordinatorTyped /\ PeersTypeOK
    BY CoordinatorPart DEF RollingTypeInv, TypeOK
  <1> DEFINE Small == {"CurrentIntent", "RequestReveal", "Reject"}
             Same == \A p \in Participants : Items(News(p)') \subseteq Items(News(p))
  <1>1. ASSUME UNCHANGED toPart \/ \E S : Clear(S)
        PROVE  Same
    BY <1>0, <1>1, ClearNews DEF News
  <1>2. ASSUME NEW S, NEW m \in Incoming, SendAll(S, m)
        PROVE  \A p \in Participants : \A n \in Items(News(p)') :
                    n \in Items(News(p)) \/ (n = m /\ p \in S)
    BY <1>0, <1>2, SendAllNews
  <1>3. ASSUME NEW i \in Intents
        PROVE  /\ CurrentIntent(i) \in Incoming /\ CurrentIntent(i).type \in Small
               /\ Reject(i) \in Incoming /\ Reject(i).type \in Small
               /\ \A c \in SUBSET Participants :
                    RequestReveal(i, c) \in Incoming /\ RequestReveal(i, c).type \in Small
    BY IncomingTyped DEF CurrentIntent, Reject, RequestReveal
  <1>4. ASSUME NEW p \in Participants, RMessage(p)
        PROVE  \/ UNCHANGED toPart
               \/ \E S : \E i \in Intents : SendAll(S, CurrentIntent(i)) \/ SendAll(S, Reject(i))
    <2>1. UNCHANGED toPart \/ RQuery(p) \/ RReject(p) \/ RBadReveal(p)
      BY <1>4 DEF RMessage, RSkip, RCommitment, RReveal, RFragment
    <2>2. CASE RQuery(p)
      <3>1. UNCHANGED toPart \/ (GetOrCreate /\ SendAll({p}, CurrentIntent(current')))
        BY <2>2 DEF RQuery
      <3>2. GetOrCreate => current' \in Intents
        BY FreshTyped DEF GetOrCreate, Kept, Unborn
      <3> QED
        BY <3>1, <3>2
    <2>3. CASE RReject(p)
      <3>1. Current(p).intent \in Intents
        BY <1>0, <2>3, CurrentTyped DEF RReject, Outgoing
      <3> QED
        BY <2>3, <3>1 DEF RReject
    <2>4. CASE RBadReveal(p)
      BY <1>0, <2>4 DEF RBadReveal, Relevant, CoordinatorTyped, Idle
    <2> QED
      BY <2>1, <2>2, <2>3, <2>4
  <1>5. CASE \E p \in Participants : RMessage(p)
    BY <1>1, <1>2, <1>3, <1>4, <1>5
  <1>6. ASSUME NEW b \in Intents, RStart(b)
        PROVE  \A p \in Participants : \A m \in Items(News(p)') :
                    m \in Items(News(p)) \/ m.type \in Small
    <2>1. /\ SendAll(Members(committed[b]), RequestReveal(b, Members(committed[b])))
          /\ Members(committed[b]) \in SUBSET Participants
      BY <1>6 DEF RStart, Members
    <2> QED
      BY <1>2, <1>3, <2>1
  <1>7. CASE RValidate \/ RBuild \/ RNotify
    <2>1. doing \in Intents
      BY <1>0, <1>7 DEF RValidate, RBuild, RNotify, CoordinatorTyped, Idle
    <2>2. CASE RValidate
      <3>1. \E S : SendAll(S, Reject(doing))
        BY <2>2 DEF RValidate, RemoveInvalid
      <3> QED
        BY <1>2, <1>3, <2>1, <3>1
    <2>3. CASE RBuild
      BY <1>0, <1>2, <2>1, <2>3, IncomingTyped DEF RBuild, Propose, CoordinatorTyped
    <2>4. CASE RNotify
      BY <1>2, <2>1, <2>4, IncomingTyped DEF RNotify
    <2> QED
      BY <1>7, <2>2, <2>3, <2>4
  <1>8. CASE \/ RPoll \/ RMark \/ RCrash \/ (\E b \in Intents : ROverdue(b) \/ RCleanup(b))
             \/ RRevealsEnd \/ RBuildFails \/ RFragmentsEnd \/ RBroadcast
             \/ RBroadcastFails \/ RClear
    <2>1. UNCHANGED toPart \/ \E S : Clear(S)
      BY <1>8
      DEF RPoll, RMark, RCrash, ROverdue, RCleanup, RRevealsEnd, RBuildFails,
          RFragmentsEnd, RBroadcast, RBroadcastFails, Refused, RClear
    <2> QED
      BY <1>1, <2>1
  <1> QED
    BY <1>5, <1>6, <1>7, <1>8 DEF CoordinatorMoves, Coordinator, RDeadline
------------------------------------------------------------------------------
(* Commitments that are still under way.  After a restart there may be several     *)
(* to one batch, and all of them are read again once the conversation is cleared.  *)

Vow(m, i) == m.type = "Commitment" /\ m.intent = i

\* Every commitment to i is followed by one to x, unless it is one.
Superseded(messages, i, x) ==
    \A j \in 1..Len(messages) :
        Vow(messages[j], i) /\ messages[j].plan # x =>
            \E k \in 1..Len(messages) :
                j < k /\ Vow(messages[k], i) /\ messages[k].plan = x

LEMMA VowAppended ==
    ASSUME NEW M, NEW s \in Seq(M), NEW m \in M, NEW i, NEW x,
           (Superseded(s, i, x) /\ ~Vow(m, i)) \/ (Vow(m, i) /\ m.plan = x)
    PROVE  Superseded(Append(s, m), i, x)
  <1> DEFINE t == Append(s, m)
  <1>1. /\ Len(t) = Len(s) + 1
        /\ \A j \in 1..Len(s) : t[j] = s[j]
        /\ t[Len(s) + 1] = m
        /\ Len(s) \in Nat
    BY AppendProperties, LenProperties
  <1> HIDE DEF t
  <1> SUFFICES ASSUME NEW j \in 1..Len(t), Vow(t[j], i), t[j].plan # x
               PROVE  \E k \in 1..Len(t) : j < k /\ Vow(t[k], i) /\ t[k].plan = x
    BY DEF Superseded, t
  <1>2. CASE j = Len(s) + 1
    BY <1>1, <1>2
  <1>3. CASE j \in 1..Len(s)
    <2>1. CASE Vow(m, i) /\ m.plan = x
      BY <1>1, <1>3, <2>1
    <2>2. CASE Superseded(s, i, x)
      <3>1. PICK k \in 1..Len(s) : j < k /\ Vow(s[k], i) /\ s[k].plan = x
        BY <1>1, <1>3, <2>2 DEF Superseded
      <3>2. k \in 1..Len(t) /\ t[k] = s[k]
        BY <1>1
      <3> QED
        BY <3>1, <3>2
    <2> QED
      BY <2>1, <2>2
  <1> QED
    BY <1>1, <1>2, <1>3

LEMMA VowUnread ==
    ASSUME NEW M, NEW half \in Halves(M), NEW i, NEW x, Superseded(half.sent, i, x)
    PROVE  Superseded(Unread(half), i, x)
  <1> DEFINE s == half.sent
             u == Unread(half)
  <1>1. /\ half.read \in Nat /\ Len(s) \in Nat
        /\ Len(u) = IF half.read < Len(s) THEN Len(s) - half.read ELSE 0
        /\ \A j \in 1..Len(u) : half.read + j \in 1..Len(s) /\ u[j] = s[half.read + j]
    BY HalfTyped, UnreadIs
  <1> SUFFICES ASSUME NEW j \in 1..Len(u), Vow(u[j], i), u[j].plan # x
               PROVE  \E k \in 1..Len(u) : j < k /\ Vow(u[k], i) /\ u[k].plan = x
    BY DEF Superseded
  <1> HIDE DEF u
  <1>2. PICK k \in 1..Len(s) : half.read + j < k /\ Vow(s[k], i) /\ s[k].plan = x
    BY <1>1 DEF Superseded
  <1>3. k - half.read \in 1..Len(u) /\ j < k - half.read /\ half.read + (k - half.read) = k
    BY <1>1, <1>2
  <1> QED
    BY <1>1, <1>2, <1>3

\* The first one is taken; if it is a vow to something else, the right one remains.
LEMMA VowTaken ==
    ASSUME NEW M, NEW s \in Seq(M), s # <<>>, NEW i, NEW x, Superseded(s, i, x)
    PROVE  /\ Superseded(Tail(s), i, x)
           /\ Vow(Head(s), i) /\ Head(s).plan # x =>
                Len(s) # 1 /\ \E m \in Items(Tail(s)) : Vow(m, i) /\ m.plan = x
  <1> DEFINE t == Tail(s)
  <1>1. /\ Len(s) \in Nat \ {0} /\ Len(t) = Len(s) - 1
        /\ \A j \in 1..Len(t) : t[j] = s[j + 1]
        /\ Head(s) = s[1]
    BY EmptySeq, HeadTailProperties
  <1> HIDE DEF t
  <1>2. ASSUME NEW j \in 1..Len(s), Vow(s[j], i), s[j].plan # x
        PROVE  \E k \in 1..Len(t) : j < k + 1 /\ Vow(t[k], i) /\ t[k].plan = x
    <2>1. PICK k \in 1..Len(s) : j < k /\ Vow(s[k], i) /\ s[k].plan = x
      BY <1>2 DEF Superseded
    <2>2. k - 1 \in 1..Len(t) /\ t[k - 1] = s[k] /\ j < (k - 1) + 1
      BY <1>1, <2>1
    <2> QED
      BY <2>1, <2>2
  <1>3. Superseded(t, i, x)
    <2> SUFFICES ASSUME NEW j \in 1..Len(t), Vow(t[j], i), t[j].plan # x
                 PROVE  \E k \in 1..Len(t) : j < k /\ Vow(t[k], i) /\ t[k].plan = x
      BY DEF Superseded
    <2>1. j + 1 \in 1..Len(s) /\ t[j] = s[j + 1]
      BY <1>1
    <2>2. PICK k \in 1..Len(t) : j + 1 < k + 1 /\ Vow(t[k], i) /\ t[k].plan = x
      BY <1>2, <2>1
    <2> QED
      BY <2>2
  <1>4. ASSUME Vow(Head(s), i), Head(s).plan # x
        PROVE  Len(s) # 1 /\ \E m \in Items(t) : Vow(m, i) /\ m.plan = x
    <2>1. PICK k \in 1..Len(t) : Vow(t[k], i) /\ t[k].plan = x
      BY <1>1, <1>2, <1>4
    <2> QED
      BY <1>1, <2>1 DEF Items
  <1> QED
    BY <1>3, <1>4 DEF t

\* Who has agreed to a template, or is about to.
Agreeing(p) ==
    \/ ppc[p] = "awaitFinal"
    \/ /\ ppc[p] = "awaitTemplate"
       /\ \E m \in Items(News(p)) :
            /\ m.type = "Template" /\ m.intent = joined[p]
            /\ Includes(m.contents[p], plan[p])

\* The batch is gone, or what it holds against p includes p's plan ...
Fixed(p) ==
    status[joined[p]] = "removed" \/ Includes(committed[joined[p]][p], plan[p])

\* ... or will be, when the messages have been handled that were fetched with an old
\* commitment.
Pending(p) ==
    /\ phase = "serve" /\ reading = p /\ ~IsBanned(bans[p], 0)
    /\ committed[joined[p]][p] # NoPlan /\ ~Full(committed[joined[p]])
    /\ \E m \in Items(inbox[p]) : Vow(m, joined[p]) /\ m.plan = plan[p]

VowInv ==
    \A p \in Participants :
        /\ ppc[p] \in {"awaitRequest", "awaitTemplate", "awaitFinal"} =>
            Superseded(toCoord[p].sent, joined[p], plan[p])
        /\ Agreeing(p) =>
            Superseded(inbox[p], joined[p], plan[p]) /\ (Fixed(p) \/ Pending(p))

Landed(p) ==
    \E t \in landed : t[1] = joined[p] /\ Includes(t[2][p], plan[p]) /\ plan[p] # NoPlan

\* Who is told that the transaction is final is told so of its own.
ToldTruly ==
    \A p \in Participants :
        /\ ppc[p] = "awaitFinal" =>
            \A m \in Items(News(p)) :
                m.type = "FinalTx" /\ m.intent = joined[p] => Landed(p)
        /\ ppc[p] = "ok" => Landed(p)
LEMMA VowInit == Init => VowInv /\ ToldTruly
  BY DEF Init, PeersInit, ParticipantInit, VowInv, ToldTruly, Agreeing

LEMMA SentKept ==
    ASSUME RollingTypeInv, CoordinatorMoves
    PROVE  \A p \in Participants : toCoord'[p].sent = toCoord[p].sent
  <1> USE DEF control, book, round, standing, fetched, own, pvars
  <1>1. \/ Poll \/ (\E S : Clear(S)) \/ UNCHANGED toCoord
        \/ toCoord' = [p \in Participants |-> Forgotten(toCoord[p])]
    BY DEF CoordinatorMoves, Coordinator, RDeadline, RMessage, RSkip, RQuery, RCommitment,
           RReject, RReveal, RBadReveal, RFragment, RPoll, RMark, RStart, ROverdue,
           RCleanup, RCrash, RRevealsEnd, RValidate, RBuild, RBuildFails, RFragmentsEnd,
           RBroadcast, RBroadcastFails, Refused, RNotify, RClear
  <1> QED
    BY <1>1, PeersOfRolling, SentStays DEF PeersInv

\* When a template is sent, everything fetched has been handled, and what it says of
\* its members is what they are held to.
LEMMA NewlyAgreeing ==
    ASSUME RollingTypeInv, RoundInv, BookInv, CoordinatorMoves,
           NEW p \in Participants, Agreeing(p)', ~Agreeing(p)
    PROVE  inbox' = EmptyInbox /\ Fixed(p)'
  <1>1. UNCHANGED <<ppc, plan, joined>>
    BY RollingStep DEF Listens
  <1>2. PICK m \in Items(News(p)') :
            /\ ppc[p] = "awaitTemplate"
            /\ m.type = "Template" /\ m.intent = joined[p]
            /\ Includes(m.contents[p], plan[p])
            /\ m \notin Items(News(p))
    BY <1>1 DEF Agreeing, Includes
  <1>3. RBuild /\ m = Template(doing, reveals)
    BY <1>2, CoordinatorTells DEF FinalTx
  <1>4. doing = joined[p] /\ Includes(reveals[p], plan[p])
    BY <1>2, <1>3 DEF Template
  <1>5. plan[p] \in Plans
    BY <1>2 DEF RollingTypeInv, Prepared
  <1>6. Includes(committed[doing][p], plan[p])
    <2>1. reveals[p] # NoPlan
      BY <1>4, <1>5, IncludingPlan, PlanAssumption
    <2>2. committed[doing][p] = reveals[p]
      BY <2>1 DEF RoundInv, TemplateAsCommitted
    <2> QED
      BY <1>4, <2>2
  <1>7. phase = "build" /\ UNCHANGED <<inbox, committed>>
    BY <1>3 DEF RBuild, book, fetched
  <1> QED
    BY <1>1, <1>4, <1>6, <1>7 DEF BookInv, Serving, Fixed, Includes

LEMMA InboxSuperseded ==
    ASSUME RollingTypeInv, VowInv, CoordinatorMoves, NEW p \in Participants, Agreeing(p)
    PROVE  Superseded(inbox'[p], joined[p], plan[p])
  <1> USE DEF control, book, round, standing, fetched, own, pvars
  <1>0. inbox \in [Participants -> Seq(Outgoing)] /\ toCoord \in [Participants -> Halves(Outgoing)]
    BY DEF RollingTypeInv, TypeOK, PeersTypeOK, ParticipantTypeOK
  <1>1. /\ Superseded(inbox[p], joined[p], plan[p])
        /\ Superseded(toCoord[p].sent, joined[p], plan[p])
    BY DEF VowInv, Agreeing
  <1>2. Superseded(<<>>, joined[p], plan[p])
    BY DEF Superseded
  <1>3. ASSUME NEW q \in Participants, RMessage(q)
        PROVE  Superseded(inbox'[p], joined[p], plan[p])
    <2>1. Offered(q) /\ Take(q)
      BY <1>3 DEF RMessage, RSkip, RQuery, RCommitment, RReject, RReveal, RBadReveal,
                  RFragment
    <2>2. CASE q = p
      <3>1. inbox'[p] = Tail(inbox[p]) /\ inbox[p] \in Seq(Outgoing) /\ inbox[p] # <<>>
        BY <1>0, <2>1, <2>2 DEF Take, Offered
      <3> QED
        BY <1>1, <3>1, VowTaken
    <2>3. CASE q # p
      BY <1>0, <1>1, <2>1, <2>3 DEF Take
    <2> QED
      BY <2>2, <2>3
  <1>4. CASE RPoll
    <2>1. inbox'[p] = Unread(toCoord[p]) \/ inbox'[p] = <<>>
      BY <1>4 DEF RPoll, Poll
    <2>2. Superseded(Unread(toCoord[p]), joined[p], plan[p])
      BY <1>0, <1>1, VowUnread
    <2> QED
      BY <1>2, <2>1, <2>2
  <1>5. CASE RCrash
    BY <1>2, <1>5 DEF RCrash, DropInbox, EmptyInbox
  <1>6. CASE \/ RMark \/ (\E b \in Intents : RStart(b) \/ ROverdue(b) \/ RCleanup(b))
             \/ RRevealsEnd \/ RValidate \/ RBuild \/ RBuildFails \/ RFragmentsEnd
             \/ RBroadcast \/ RBroadcastFails \/ RNotify \/ RClear
    BY <1>1, <1>6
    DEF RMark, RStart, ROverdue, RCleanup, RRevealsEnd, RValidate, RBuild, RBuildFails,
        RFragmentsEnd, RBroadcast, RBroadcastFails, RNotify, RClear
  <1> QED
    BY <1>3, <1>4, <1>5, <1>6 DEF CoordinatorMoves, Coordinator, RDeadline
\* A commitment that is taken is p's plan, or p's plan is still to come: it is
\* taken as well, for a replacement fills no batch.
LEMMA FixedByCommitment ==
    ASSUME RollingTypeInv, VowInv, NEW p \in Participants, Agreeing(p),
           NEW q \in Participants, RCommitment(q)
    PROVE  Fixed(p)' \/ Pending(p)'
  <1> USE DEF control, book, round, standing, fetched, own, pvars
  <1> DEFINE i == joined[p]
             b == Current(q).intent
  <1>0. CoordinatorTyped
    BY CoordinatorPart
  <1>1. i \in Intents /\ plan[p] \in Plans /\ plan[p] # NoPlan
    BY PlanAssumption DEF Agreeing, RollingTypeInv, Prepared
  <1>2. /\ UNCHANGED <<ppc, plan, joined, bans, phase>>
        /\ phase = "serve" /\ ~IsBanned(bans[q], 0)
        /\ Kept(b) /\ ~Full(committed[b]) /\ Offered(q) /\ Take(q)
        /\ Current(q).type = "Commitment"
        /\ committed' = [committed EXCEPT ![b] = [committed[b] EXCEPT ![q] = Current(q).plan]]
    BY DEF RCommitment, AddCommitment, Accepting, Relevant
  <1>3. /\ \A c \in Intents \ {b} : status'[c] = status[c] /\ committed'[c] = committed[c]
        /\ committed'[b] = [committed[b] EXCEPT ![q] = Current(q).plan]
        /\ status[b] # "removed" /\ b \in Intents
    BY <1>0, <1>2 DEF RCommitment, CoordinatorTyped, Kept
  <1>3a. \A r \in Participants :
            committed'[b][r] = IF r = q THEN Current(q).plan ELSE committed[b][r]
    <2>1. committed[b] \in [Participants -> Plans \cup {NoPlan}]
      BY <1>0, <1>3 DEF CoordinatorTyped, Contents
    <2> QED
      BY <1>3, <2>1
  <1>4. Current(q).plan \in Plans
    BY <1>2, CurrentTyped, OutgoingPlan DEF RollingTypeInv, TypeOK
  <1>5. inbox[p] \in Seq(Outgoing)
    BY <1>0 DEF CoordinatorTyped
  <1>6. Fixed(p) \/ Pending(p)
    BY DEF VowInv
  <1>7. Pending(p) => q = p
    BY <1>2, NobodyAssumption DEF Pending, Offered
  <1>8. CASE q # p
    <2>1. Fixed(p)
      BY <1>6, <1>7, <1>8
    <2>2. committed'[i][p] = committed[i][p]
      BY <1>1, <1>3, <1>8, <1>3a
    <2> QED
      BY <1>1, <1>2, <1>3, <2>1, <2>2 DEF Fixed, Includes
  <1>9. CASE q = p /\ b # i
    <2>1. committed'[i] = committed[i] /\ status'[i] = status[i]
      BY <1>1, <1>3, <1>9
    <2>2. CASE Fixed(p)
      BY <1>2, <2>1, <2>2 DEF Fixed, Includes
    <2>3. CASE Pending(p)
      <3>1. PICK m \in Items(inbox[p]) : Vow(m, i) /\ m.plan = plan[p]
        BY <2>3 DEF Pending
      <3>2. m # Head(inbox[p])
        BY <1>9, <3>1 DEF Vow, Current
      <3>3. m \in Items(Tail(inbox[p])) /\ Len(inbox[p]) # 1
        BY <1>5, <3>1, <3>2, RestOfItems
      <3>4. inbox'[p] = Tail(inbox[p]) /\ reading' = p
        BY <1>0, <1>2, <1>9, <3>3 DEF Take, CoordinatorTyped
      <3> QED
        BY <1>2, <2>1, <2>3, <3>1, <3>3, <3>4 DEF Pending
    <2> QED
      BY <1>6, <2>2, <2>3
  <1>10. CASE q = p /\ b = i
    <2>1. committed'[i][p] = Current(p).plan
      BY <1>10, <1>3a
    <2>2. CASE Current(p).plan = plan[p]
      BY <1>2, <2>1, <2>2 DEF Fixed, Includes
    <2>3. CASE Current(p).plan # plan[p]
      <3>1. /\ Vow(Head(inbox[p]), i) /\ Head(inbox[p]).plan # plan[p] /\ inbox[p] # <<>>
            /\ Superseded(inbox[p], i, plan[p])
        BY <1>2, <1>10, <2>3 DEF Vow, Current, Offered, VowInv
      <3>2. /\ Len(inbox[p]) # 1
            /\ \E m \in Items(Tail(inbox[p])) : Vow(m, i) /\ m.plan = plan[p]
        BY <1>5, <3>1, VowTaken
      <3>3. inbox'[p] = Tail(inbox[p]) /\ reading' = p
        BY <1>0, <1>2, <1>10, <3>2 DEF Take, CoordinatorTyped
      <3>4. committed[i][p] # NoPlan
        BY <1>1, <1>3, <1>6, <1>10, IncludingPlan, PlanAssumption DEF Fixed, Pending
      <3>5. Members(committed'[i]) = Members(committed[i])
        BY <1>4, <1>10, <1>3a, <3>4, PlanAssumption DEF Members
      <3>6. ~Full(committed'[i])
        BY <1>2, <1>10, <3>5 DEF Full
      <3>7. committed'[i][p] # NoPlan
        BY <1>4, <1>10, <2>1, PlanAssumption
      <3> QED
        BY <1>2, <1>10, <3>2, <3>3, <3>6, <3>7 DEF Pending, Full, Members
    <2> QED
      BY <2>2, <2>3
  <1> QED
    BY <1>8, <1>9, <1>10

LEMMA FixedStep ==
    ASSUME RollingTypeInv, BookInv, VowInv, CoordinatorMoves,
           NEW p \in Participants, Agreeing(p)
    PROVE  Fixed(p)' \/ Pending(p)'
  <1> USE DEF control, book, round, standing, fetched, own, pvars
  <1> DEFINE i == joined[p]
  <1>0. CoordinatorTyped /\ UNCHANGED <<ppc, plan, joined>>
    BY CoordinatorPart, RollingStep DEF Listens
  <1>1. i \in Intents /\ (Fixed(p) \/ Pending(p))
    BY DEF Agreeing, RollingTypeInv, Prepared, VowInv
  <1>2. CASE \E q \in Participants : RCommitment(q)
    BY <1>2, FixedByCommitment
  <1>3. CASE Fixed(p) /\ ~\E q \in Participants : RCommitment(q)
    <2>1. /\ status[i] = "removed" => status'[i] = "removed"
          /\ committed'[i] = committed[i] \/ status'[i] = "removed"
      BY <1>1, <1>3, BookMoves
    <2> QED
      BY <1>0, <1>3, <2>1 DEF Fixed, Includes
  <1>4. CASE Pending(p) /\ ~\E q \in Participants : RCommitment(q)
    <2>1. PICK m \in Items(inbox[p]) : Vow(m, i) /\ m.plan = plan[p]
      BY <1>4 DEF Pending
    <2>2. /\ phase = "serve" /\ reading = p /\ ~IsBanned(bans[p], 0)
          /\ committed[i][p] # NoPlan /\ ~Full(committed[i])
      BY <1>4 DEF Pending
    <2>3. status[i] \notin {"none", "removed"}
      BY <1>1, <2>2 DEF BookInv, NoContents
    <2>4. inbox # EmptyInbox
      BY <2>1, ItemsEmpty DEF EmptyInbox
    <2>5. ASSUME NEW q \in Participants, RMessage(q)
          PROVE  Pending(p)'
      <3>1. /\ RSkip(q) \/ RQuery(q) \/ RReject(q)
            /\ Offered(q) /\ Take(q) /\ UNCHANGED <<phase, committed, bans>>
        BY <1>4, <2>2, <2>5
        DEF RMessage, RSkip, RQuery, RReject, RReveal, RBadReveal, RFragment, Relevant
      <3>2. q = p
        BY <2>2, <3>1, NobodyAssumption DEF Offered
      <3>3. ~(Vow(Current(p), i) /\ RSkip(p))
        BY <2>2 DEF RSkip, Relevant, Vow
      <3>4. ~(Vow(Current(p), i) /\ RQuery(p))
        BY DEF RQuery, Vow
      <3>5. ~(Vow(Current(p), i) /\ RReject(p))
        BY <1>1, <2>2, <2>3 DEF RReject, Accepting, Kept, Vow
      <3>6. m # Head(inbox[p])
        BY <2>1, <3>1, <3>2, <3>3, <3>4, <3>5 DEF Current
      <3>7. m \in Items(Tail(inbox[p])) /\ Len(inbox[p]) # 1
        BY <1>0, <2>1, <3>6, RestOfItems DEF CoordinatorTyped
      <3>8. inbox'[p] = Tail(inbox[p]) /\ reading' = p
        BY <1>0, <3>1, <3>2, <3>7 DEF Take, CoordinatorTyped
      <3> QED
        BY <1>0, <2>1, <2>2, <3>1, <3>7, <3>8 DEF Pending, Full, Members
    <2>6. ASSUME NEW b \in Intents, ROverdue(b)
          PROVE  Pending(p)'
      <3>1. UNCHANGED <<phase, reading, bans, committed, inbox>>
        BY <2>6 DEF ROverdue
      <3> QED
        BY <1>0, <1>4, <3>1 DEF Pending, Full, Members
    <2>7. CASE RCrash
      <3>1. /\ status'[i] = IF i = Fresh THEN "filling"
                            ELSE IF i \in Unborn THEN "none" ELSE "removed"
            /\ Unborn # {}
        BY <1>1, <2>7 DEF RCrash
      <3>2. i # Fresh /\ i \notin Unborn
        BY <2>3, <3>1, FreshTyped DEF Unborn
      <3> QED
        BY <1>0, <3>1, <3>2 DEF Fixed, Includes
    <2>8. ~(\/ RPoll \/ RMark \/ (\E b \in Intents : RStart(b) \/ RCleanup(b))
            \/ RRevealsEnd \/ RValidate \/ RBuild \/ RBuildFails \/ RFragmentsEnd
            \/ RBroadcast \/ RBroadcastFails \/ RNotify \/ RClear)
      BY <2>2, <2>4
      DEF RPoll, RMark, RStart, RCleanup, RRevealsEnd, RValidate, RBuild, RBuildFails,
          RFragmentsEnd, RBroadcast, RBroadcastFails, RNotify, RClear
    <2> QED
      BY <2>5, <2>6, <2>7, <2>8 DEF CoordinatorMoves, Coordinator, RDeadline
  <1> QED
    BY <1>1, <1>2, <1>3, <1>4
LEMMA CoordinatorVowStep ==
    ASSUME RollingTypeInv, RoundInv, BookInv, VowInv, CoordinatorMoves
    PROVE  VowInv'
  <1>0. UNCHANGED <<ppc, plan, joined>>
    BY RollingStep DEF Listens
  <1> SUFFICES ASSUME NEW p \in Participants
               PROVE  /\ ppc[p] \in {"awaitRequest", "awaitTemplate", "awaitFinal"} =>
                            Superseded(toCoord'[p].sent, joined[p], plan[p])
                      /\ Agreeing(p)' => /\ Superseded(inbox'[p], joined[p], plan[p])
                                         /\ Fixed(p)' \/ Pending(p)'
    BY <1>0 DEF VowInv
  <1>1. ppc[p] \in {"awaitRequest", "awaitTemplate", "awaitFinal"} =>
            Superseded(toCoord'[p].sent, joined[p], plan[p])
    BY SentKept DEF VowInv
  <1>2. CASE Agreeing(p)
    BY <1>1, <1>2, InboxSuperseded, FixedStep
  <1>3. ASSUME Agreeing(p)', ~Agreeing(p)
        PROVE  Superseded(inbox'[p], joined[p], plan[p]) /\ Fixed(p)'
    <2>1. inbox'[p] = <<>> /\ Fixed(p)'
      BY <1>3, NewlyAgreeing DEF EmptyInbox
    <2> QED
      BY <2>1 DEF Superseded
  <1> QED
    BY <1>1, <1>2, <1>3

\* The notification goes to those whose plan the transaction contains.
LEMMA CoordinatorToldStep ==
    ASSUME RollingTypeInv, RoundInv, BookInv, VowInv, ToldTruly, CoordinatorMoves
    PROVE  ToldTruly'
  <1>0. UNCHANGED <<ppc, plan, joined>> /\ landed \subseteq landed'
    BY RollingStep, LandingStep DEF Listens
  <1>1. \A p \in Participants : Landed(p) => Landed(p)'
    BY <1>0 DEF Landed, Includes
  <1>2. ASSUME NEW p \in Participants, ppc[p] = "awaitFinal", NEW m \in Items(News(p)'),
               m.type = "FinalTx", m.intent = joined[p], m \notin Items(News(p))
        PROVE  Landed(p)
    <2>1. RNotify /\ p \in Members(reveals) /\ m = FinalTx(doing)
      BY <1>2, CoordinatorTells DEF Template
    <2>2. doing = joined[p] /\ phase = "notify" /\ reveals[p] # NoPlan
      BY <1>2, <2>1 DEF FinalTx, RNotify, Members
    <2>3. ~Pending(p) /\ status[doing] # "removed"
      BY <2>2 DEF Pending, BookInv, Idle
    <2>4. Includes(committed[doing][p], plan[p])
      BY <1>2, <2>2, <2>3 DEF VowInv, Agreeing, Fixed
    <2>5. /\ Includes(template[p], plan[p]) /\ plan[p] # NoPlan
          /\ <<doing, template>> \in landed
      <3>1. template[p] = committed[doing][p] /\ <<doing, template>> \in landed
        BY <2>2 DEF RoundInv, RoundOrder, TemplateAsCommitted
      <3> QED
        BY <1>2, <2>4, <3>1, PlanAssumption DEF RollingTypeInv, Prepared
    <2> QED
      BY <2>2, <2>5 DEF Landed
  <1>3. ASSUME NEW p \in Participants, ppc[p] = "awaitFinal", NEW m \in Items(News(p)'),
               m.type = "FinalTx", m.intent = joined[p]
        PROVE  Landed(p)
    <2>1. CASE m \in Items(News(p))
      BY <1>3, <2>1 DEF ToldTruly
    <2> QED
      BY <1>2, <1>3, <2>1
  <1> QED
    BY <1>0, <1>1, <1>3 DEF ToldTruly

\* What a participant's own step leaves of what it has agreed to.
LEMMA AgreeingStep ==
    ASSUME PeersInv, NEW p \in Participants, ParticipantMoves(p), Agreeing(p)'
    PROVE  Agreeing(p) /\ joined'[p] = joined[p] /\ plan'[p] = plan[p]
  <1> USE DEF Goto, PeersInv, PeersTypeOK, ParticipantTypeOK
  <1>1. ppc'[p] \in {"awaitTemplate", "awaitFinal"}
    BY DEF Agreeing
  <1>2. ASSUME Items(News(p)') = {}
        PROVE  ppc'[p] = "awaitFinal"
    BY <1>1, <1>2 DEF Agreeing
  <1>3. CASE PSign(p)
    <2>1. /\ ppc[p] = "awaitTemplate" /\ Answered(p) /\ Answer(p).type = "Template"
          /\ Includes(Answer(p).contents[p], plan[p]) /\ UNCHANGED <<joined, plan>>
      BY <1>3 DEF PSign, Hears, Accepts
    <2>2. Answer(p) \in Items(News(p)) /\ Answer(p).intent = joined[p]
      BY <2>1, AnswerHeard DEF Awaits
    <2> QED
      BY <2>1, <2>2 DEF Agreeing
  <1>4. CASE PReveal(p)
    <2>1. toPart' = [toPart EXCEPT ![p] = Fetched(@)] /\ ppc'[p] \in {"awaitTemplate", "err"}
      BY <1>4 DEF PReveal, Hears, SendThen
    <2>2. Items(News(p)') = {}
      BY <2>1, HeardAll
    <2> QED
      BY <1>2, <2>1, <2>2
  <1>5. CASE PSkip(p)
    <2>1. toPart' = [toPart EXCEPT ![p] = Fetched(@)] /\ UNCHANGED <<ppc, plan, joined>>
      BY <1>5 DEF PSkip
    <2>2. Items(News(p)') = {}
      BY <2>1, HeardAll
    <2> QED
      BY <1>2, <2>1, <2>2 DEF Agreeing
  <1>6. CASE PQuery(p) \/ PCommit(p) \/ PFinal(p) \/ PLaunch(p)
    <2>1. ppc'[p] \in {"query", "awaitIntent", "awaitRequest", "err", "ok"}
      BY <1>6 DEF PQuery, PCommit, PFinal, PLaunch, RetryOrFail, SendThen
    <2> QED
      BY <1>1, <2>1
  <1>7. CASE PCrash(p) \/ PGiveUp(p) \/ PIntent(p) \/ PRejected(p) \/ PRefuse(p)
    <2>1. ppc'[p] \in {"query", "commit", "err"}
      BY <1>7 DEF PCrash, PGiveUp, PIntent, PRejected, PRefuse, RetryOrFail
    <2> QED
      BY <1>1, <2>1
  <1> QED
    BY <1>3, <1>4, <1>5, <1>6, <1>7 DEF ParticipantMoves, PStep

\* A participant commits to what it plans now, whatever it has sent before.
LEMMA OwnVows ==
    ASSUME PeersInv, VowInv, NEW p \in Participants, ParticipantMoves(p),
           ppc'[p] \in {"awaitRequest", "awaitTemplate", "awaitFinal"}
    PROVE  Superseded(toCoord'[p].sent, joined'[p], plan'[p])
  <1> USE DEF Goto, PeersInv, PeersTypeOK, ParticipantTypeOK
  <1>0. toCoord[p] \in Halves(Outgoing) /\ toCoord[p].sent \in Seq(Outgoing)
    BY HalfTyped
  <1>1. ASSUME NEW m, toCoord' = [toCoord EXCEPT ![p] = Post(@, m)]
        PROVE  toCoord'[p].sent = Append(toCoord[p].sent, m)
    BY <1>0, <1>1 DEF Post, Halves
  <1>2. CASE PCommit(p)
    <2>1. PICK x \in Plans :
            /\ plan' = [plan EXCEPT ![p] = x]
            /\ toCoord' = [toCoord EXCEPT ![p] = Post(@, Commitment(joined[p], x))]
            /\ ppc[p] = "commit" /\ UNCHANGED joined
      <3>1. PICK x \in Plans :
                /\ plan' = [plan EXCEPT ![p] = x]
                /\ IF PassesLocally(p, x)
                   THEN SendThen(p, Commitment(joined[p], x), "awaitRequest")
                   ELSE Goto(p, "err") /\ UNCHANGED toCoord
        BY <1>2 DEF PCommit
      <3>2. ppc'[p] # "err"
        OBVIOUS
      <3>3. toCoord' = [toCoord EXCEPT ![p] = Post(@, Commitment(joined[p], x))]
        BY <3>1, <3>2 DEF SendThen
      <3> QED
        BY <1>2, <3>1, <3>3 DEF PCommit
    <2>2. Commitment(joined[p], x) \in Outgoing
      BY <2>1, OutgoingTyped DEF Prepared
    <2>3. /\ Vow(Commitment(joined[p], x), joined[p])
          /\ Commitment(joined[p], x).plan = x
      BY DEF Vow, Commitment
    <2>4. Superseded(Append(toCoord[p].sent, Commitment(joined[p], x)), joined[p], x)
      BY <1>0, <2>2, <2>3, VowAppended
    <2> QED
      BY <1>1, <2>1, <2>4
  <1>3. CASE PReveal(p)
    <2>1. /\ ppc[p] = "awaitRequest" /\ UNCHANGED <<joined, plan>>
          /\ toCoord' = [toCoord EXCEPT ![p] = Post(@, Reveal(joined[p], plan[p]))]
      BY <1>3 DEF PReveal, Hears, SendThen
    <2>2. Reveal(joined[p], plan[p]) \in Outgoing
      BY <2>1, OutgoingTyped DEF Prepared
    <2>3. ~Vow(Reveal(joined[p], plan[p]), joined[p]) /\ Superseded(toCoord[p].sent, joined[p], plan[p])
      BY <2>1 DEF Vow, Reveal, VowInv
    <2>4. Superseded(Append(toCoord[p].sent, Reveal(joined[p], plan[p])), joined[p], plan[p])
      BY <1>0, <2>2, <2>3, VowAppended
    <2> QED
      BY <1>1, <2>1, <2>4
  <1>4. CASE PSign(p)
    <2>1. PICK complete \in BOOLEAN :
            /\ ppc[p] = "awaitTemplate" /\ UNCHANGED <<joined, plan>>
            /\ Answered(p) /\ Answer(p).type = "Template"
            /\ toCoord' = [toCoord EXCEPT ![p] =
                    Post(@, SigFragment(joined[p], Answer(p).contents, complete))]
      BY <1>4 DEF PSign, Hears, SendThen
    <2> DEFINE m == SigFragment(joined[p], Answer(p).contents, complete)
    <2>2. m \in Outgoing
      BY <2>1, AnswerHeard, IncomingContents, OutgoingTyped DEF Prepared
    <2>3. ~Vow(m, joined[p]) /\ Superseded(toCoord[p].sent, joined[p], plan[p])
      BY <2>1 DEF Vow, SigFragment, VowInv
    <2> HIDE DEF m
    <2>4. Superseded(Append(toCoord[p].sent, m), joined[p], plan[p])
      BY <1>0, <2>2, <2>3, VowAppended
    <2>5. toCoord'[p].sent = Append(toCoord[p].sent, m)
      BY <1>1, <2>1 DEF m
    <2> QED
      BY <2>1, <2>4, <2>5
  <1>5. CASE PSkip(p)
    BY <1>5 DEF PSkip, VowInv
  <1>6. CASE PQuery(p) \/ PFinal(p) \/ PLaunch(p)
    BY <1>6 DEF PQuery, PFinal, PLaunch, RetryOrFail
  <1>7. CASE PCrash(p) \/ PGiveUp(p) \/ PIntent(p) \/ PRejected(p) \/ PRefuse(p)
    BY <1>7 DEF PCrash, PGiveUp, PIntent, PRejected, PRefuse, RetryOrFail
  <1> QED
    BY <1>2, <1>3, <1>4, <1>5, <1>6, <1>7 DEF ParticipantMoves, PStep
LEMMA OwnNews ==
    ASSUME PeersInv, ToldTruly, NEW p \in Participants, ParticipantMoves(p), UNCHANGED landed
    PROVE  /\ ppc'[p] = "awaitFinal" => Items(News(p)') = {}
           /\ ppc'[p] = "ok" => Landed(p)'
  <1> USE DEF Goto, PeersInv, PeersTypeOK, ParticipantTypeOK
  <1>1. CASE PFinal(p)
    <2>1. ppc[p] = "awaitFinal" /\ Answered(p) /\ UNCHANGED <<joined, plan>> /\ ppc'[p] = "ok"
      BY <1>1 DEF PFinal
    <2>2. /\ Answer(p) \in Items(News(p)) /\ Answer(p).type = "FinalTx"
          /\ Answer(p).intent = joined[p]
      BY <2>1, AnswerHeard, AwaitedStages DEF Awaits
    <2>3. Landed(p)
      BY <2>1, <2>2 DEF ToldTruly
    <2> QED
      BY <2>1, <2>3 DEF Landed, Includes
  <1>2. CASE PSign(p) \/ PSkip(p)
    <2>1. toPart' = [toPart EXCEPT ![p] = Fetched(@)]
      BY <1>2 DEF PSign, PSkip, Hears
    <2>2. ppc'[p] # "ok"
      <3>1. CASE PSign(p)
        BY <3>1 DEF PSign, SendThen
      <3>2. CASE PSkip(p)
        BY <3>2, AwaitedStages DEF PSkip, Waiting
      <3> QED
        BY <1>2, <3>1, <3>2
    <2> QED
      BY <2>1, <2>2, HeardAll
  <1>3. CASE \/ PQuery(p) \/ PCommit(p) \/ PReveal(p) \/ PLaunch(p) \/ PCrash(p)
             \/ PGiveUp(p) \/ PIntent(p) \/ PRejected(p) \/ PRefuse(p)
    <2>1. ppc'[p] \notin {"awaitFinal", "ok"}
      BY <1>3
      DEF PQuery, PCommit, PReveal, PLaunch, PCrash, PGiveUp, PIntent, PRejected, PRefuse,
          RetryOrFail, SendThen
    <2> QED
      BY <2>1
  <1> QED
    BY <1>1, <1>2, <1>3 DEF ParticipantMoves, PStep

LEMMA ParticipantVowStep ==
    ASSUME RollingTypeInv, VowInv, ToldTruly, NEW p \in Participants,
           ParticipantRuns(p) \/ ParticipantStarts(p)
    PROVE  VowInv' /\ ToldTruly'
  <1>1. ParticipantMoves(p) /\ UNCHANGED rvars
    BY ParticipantRollingStep
  <1>2. PeersInv /\ Elsewhere(p)
    BY <1>1, PeersOfRolling, OthersStay
  <1>3. ASSUME NEW q \in Participants, q # p
        PROVE  /\ ppc'[q] = ppc[q] /\ plan'[q] = plan[q] /\ joined'[q] = joined[q]
               /\ toCoord'[q] = toCoord[q] /\ News(q)' = News(q)
    BY <1>2, <1>3 DEF Elsewhere, News
  <1>4. ASSUME NEW q \in Participants, plan'[q] = plan[q], joined'[q] = joined[q]
        PROVE  /\ Fixed(q)' = Fixed(q) /\ Pending(q)' = Pending(q) /\ Landed(q)' = Landed(q)
               /\ inbox'[q] = inbox[q]
    BY <1>1, <1>4
    DEF rvars, control, book, standing, fetched, Fixed, Pending, Landed, Includes, Full,
        Members
  <1>5. ASSUME NEW q \in Participants, q # p
        PROVE  /\ ppc'[q] \in {"awaitRequest", "awaitTemplate", "awaitFinal"} =>
                    Superseded(toCoord'[q].sent, joined'[q], plan'[q])
               /\ Agreeing(q)' => /\ Superseded(inbox'[q], joined'[q], plan'[q])
                                  /\ Fixed(q)' \/ Pending(q)'
    <2>1. Agreeing(q)' = Agreeing(q)
      BY <1>3, <1>5 DEF Agreeing, Includes
    <2> QED
      BY <1>3, <1>4, <1>5, <2>1 DEF VowInv
  <1>6. /\ ppc'[p] \in {"awaitRequest", "awaitTemplate", "awaitFinal"} =>
                Superseded(toCoord'[p].sent, joined'[p], plan'[p])
        /\ Agreeing(p)' => /\ Superseded(inbox'[p], joined'[p], plan'[p])
                           /\ Fixed(p)' \/ Pending(p)'
    BY <1>1, <1>2, <1>4, OwnVows, AgreeingStep DEF VowInv
  <1>7. VowInv'
    BY <1>5, <1>6 DEF VowInv
  <1>8. ASSUME NEW q \in Participants, q # p
        PROVE  /\ ppc'[q] = "awaitFinal" =>
                    \A m \in Items(News(q)') :
                        m.type = "FinalTx" /\ m.intent = joined'[q] => Landed(q)'
               /\ ppc'[q] = "ok" => Landed(q)'
    BY <1>3, <1>4, <1>8 DEF ToldTruly
  <1>9. /\ ppc'[p] = "awaitFinal" => Items(News(p)') = {}
        /\ ppc'[p] = "ok" => Landed(p)'
    BY <1>1, <1>2, OwnNews DEF rvars
  <1>10. ToldTruly'
    BY <1>8, <1>9 DEF ToldTruly
  <1> QED
    BY <1>7, <1>10

LEMMA ToldInvariant == Spec => [](VowInv /\ ToldTruly)
  <1>1. RollingTypeInv /\ RoundInv /\ BookInv /\ VowInv /\ ToldTruly /\ [Next]_vars
            => VowInv' /\ ToldTruly'
    <2> SUFFICES ASSUME RollingTypeInv, RoundInv, BookInv, VowInv, ToldTruly, [Next]_vars
                 PROVE  VowInv' /\ ToldTruly'
      OBVIOUS
    <2>1. CASE CoordinatorMoves
      BY <2>1, CoordinatorVowStep, CoordinatorToldStep
    <2>2. ASSUME NEW p \in Participants, ParticipantRuns(p) \/ ParticipantStarts(p)
          PROVE  VowInv' /\ ToldTruly'
      BY <2>2, ParticipantVowStep
    <2>3. CASE UNCHANGED vars
      <3>1. \A p \in Participants :
                /\ Agreeing(p)' = Agreeing(p) /\ Fixed(p)' = Fixed(p)
                /\ Pending(p)' = Pending(p) /\ Landed(p)' = Landed(p)
                /\ Items(News(p)') = Items(News(p))
        BY <2>3
        DEF vars, pvars, rvars, control, book, standing, fetched, Agreeing, Fixed, Pending,
            Landed, Includes, News, Full, Members
      <3> QED
        BY <2>3, <3>1 DEF vars, pvars, rvars, fetched, VowInv, ToldTruly
    <2> QED
      BY <2>1, <2>2, <2>3 DEF Next, CoordinatorMoves, Waits
  <1> QED
    BY VowInit, <1>1, RollingTypeInvariant, RoundInvariant, BookInvariant, PTL DEF Spec

\* A participant that reports success has its own plan on the network, in the batch
\* it has joined, whatever is lost, late or not deleted, and though it, or the
\* coordinator, may have been started again and reads the old commitments once more:
\* between its signature and the notification nothing it said earlier is held to it.
THEOREM Success == Spec => []SuccessMeansLanded
  <1>1. ToldTruly => SuccessMeansLanded
    BY DEF ToldTruly, SuccessMeansLanded, Landed
  <1> QED
    BY ToldInvariant, <1>1, PTL
==============================================================================
