---------------------------- MODULE RollingBatches ----------------------------
(***************************************************************************)
(* The rolling coordinator, run_multi_batch and process_batch of           *)
(* coordinator/src/coordinator_v2.rs, with the batches that                *)
(* coordinator/src/batch_manager.rs keeps for it, composed with its        *)
(* participants.                                                           *)
(*                                                                         *)
(* One loop serves queries and commitments for any batch, and takes the    *)
(* batches marked for processing through reveals and signatures one after  *)
(* the other.  While it does, it fetches and drops whatever anybody else   *)
(* sends.                                                                  *)
(***************************************************************************)
EXTENDS CoordinatorPeers

\* The first batch is created before the loop begins.
ASSUME SomeIntent == Intents # {}

VARIABLES
    phase,          \* where the loop is
    queue,          \* the marked batches this iteration still has to process
    doing,          \* the batch in process_batch
    status,         \* of each batch
    committed,      \* what its participants have committed to
    current,        \* current_intent_id
    late,           \* the batches that are older than the deadline
    removed,        \* invalid_participants of process_batch
    landed          \* the transactions on the network, with their batch

control == <<phase, queue, doing>>
book == <<status, committed, current, late>>
round == <<reveals, template, fragments, removed>>
standing == <<bans, known>>
fetched == <<inbox, reading>>
own == <<ppc, plan, joined, attempts, runs, signed>>
rvars == <<control, book, round, standing, fetched, landed>>
vars == <<pvars, rvars>>

\* "none": not created yet; "removed": forgotten by the batch manager.  The
\* status Full is overwritten before anybody looks at it.
Statuses == {"none", "filling", "ready", "processing", "completed", "removed"}
Polling == {"poll", "reveal", "sign"}
Phases == Polling \cup
    {"serve", "pick", "validate", "build", "broadcast", "notify", "clear"}

TypeOK ==
    /\ PeersTypeOK
    /\ phase \in Phases
    /\ queue \in SUBSET Intents
    /\ doing \in Intents \cup {NoIntent}
    /\ status \in [Intents -> Statuses]
    /\ committed \in [Intents -> Contents]
    /\ current \in Intents \cup {NoIntent}
    /\ late \in SUBSET Intents
    /\ removed \in SUBSET Participants
    /\ landed \in SUBSET (Intents \X Contents)

------------------------------------------------------------------------------
(* The batch manager.                                                        *)

Kept(b) == b \in Intents /\ status[b] \notin {"none", "removed"}
Unborn == {b \in Intents : status[b] = "none"}
Fresh == CHOOSE b \in Unborn : TRUE
First == CHOOSE b \in Intents : TRUE

\* Seeded fault for Full: one more is let in.
FullBeyond(c) == Cardinality(Members(c)) > MaxParticipants

\* is_full and has_minimum, once the commitments are c.
Full(c) == Cardinality(Members(c)) >= MaxParticipants
Enough(c) == Cardinality(Members(c)) >= MinParticipants

\* add_commitment takes one into any batch that is kept and not full ...
Accepting(b) == Kept(b) /\ ~Full(committed[b])

\* ... and update_status makes of it whatever the number of commitments says,
\* whatever the batch was before.  The loop marks it at once if it is full or its
\* deadline has passed.
StatusWith(b, c) ==
    IF Full(c) \/ (Enough(c) /\ b \in late) THEN "processing"
    ELSE IF Enough(c) THEN "ready" ELSE "filling"

\* The batches whose deadline marks them.
Due == {b \in late : status[b] \in {"filling", "ready"} /\ Enough(committed[b])}
Marked == {b \in Intents : status[b] = "processing"}

Init ==
    /\ PeersInit
    /\ bans = [p \in Participants |-> NoBan]
    /\ phase = "poll"
    /\ queue = {}
    /\ doing = NoIntent
    /\ current = First
    /\ status = [b \in Intents |-> IF b = First THEN "filling" ELSE "none"]
    /\ committed = [b \in Intents |-> NoContents]
    /\ late = {}
    /\ removed = {}
    /\ landed = {}

------------------------------------------------------------------------------
(* The main loop.                                                            *)

RPoll ==
    /\ \/ phase = "poll" /\ phase' = "serve"
       \/ /\ phase = "reveal" /\ Members(reveals) # Members(committed[doing])
          /\ UNCHANGED phase
       \/ phase = "sign" /\ Signers # Members(reveals) /\ UNCHANGED phase
    /\ Poll
    /\ UNCHANGED <<own, toPart, queue, doing, book, round, standing, reading, landed>>

\* Messages that are looked at; signatures are taken from a banned sender too.
Relevant(p) ==
    LET type == Current(p).type
        about(t) == type = t /\ Current(p).intent = doing
    IN  \/ phase = "serve" /\ ~IsBanned(bans[p], 0)
            /\ type \in {"GetCurrentIntent", "Commitment"}
        \/ phase = "reveal" /\ ~IsBanned(bans[p], 0)
            /\ about("Reveal") /\ committed[doing][p] # NoPlan
        \/ phase = "sign" /\ about("SigFragment") /\ reveals[p] # NoPlan

RSkip(p) ==
    /\ Offered(p) /\ phase \in {"serve", "reveal", "sign"} /\ ~Relevant(p)
    /\ Take(p)
    /\ UNCHANGED <<pvars, control, book, round, standing, landed>>

\* get_or_create_current_intent: the current batch is handed out as long as it is
\* kept, though it may be in processing or completed; otherwise one is created.
GetOrCreate ==
    \/ Kept(current) /\ UNCHANGED <<status, current>>
    \/ /\ ~Kept(current) /\ Unborn # {}
       /\ current' = Fresh
       /\ status' = [status EXCEPT ![Fresh] = "filling"]

\* Bound: when all of Intents are used up the query is not answered.
RQuery(p) ==
    /\ Offered(p) /\ Relevant(p)
    /\ Current(p).type = "GetCurrentIntent"
    /\ Take(p)
    /\ \/ GetOrCreate /\ SendAll({p}, CurrentIntent(current'))
       \/ ~Kept(current) /\ Unborn = {} /\ UNCHANGED <<status, current, toPart>>
    /\ UNCHANGED <<own, toCoord, control, committed, late, round, standing, landed>>

\* add_commitment, after which the commitments to b are c: a batch that is full is
\* not handed out any more.
AddCommitment(b, c) ==
    /\ Accepting(b)
    /\ committed' = [committed EXCEPT ![b] = c]
    /\ current' = IF Full(c) /\ current = b THEN NoIntent ELSE current

\* A later commitment of the same sender replaces the earlier one.
RCommitment(p) ==
    LET b == Current(p).intent
        c == [committed[b] EXCEPT ![p] = Current(p).plan]
    IN  /\ Offered(p) /\ Relevant(p)
        /\ Current(p).type = "Commitment"
        /\ Take(p)
        /\ AddCommitment(b, c)
        /\ status' = [status EXCEPT ![b] = StatusWith(b, c)]
        /\ UNCHANGED <<pvars, control, late, round, standing, landed>>

\* A commitment to a full or forgotten batch.
RReject(p) ==
    /\ Offered(p) /\ Relevant(p)
    /\ Current(p).type = "Commitment"
    /\ ~Accepting(Current(p).intent)
    /\ Take(p)
    /\ SendAll({p}, Reject(Current(p).intent))
    /\ UNCHANGED <<own, toCoord, control, book, round, standing, landed>>

\* After the messages: those that were marked before are processed now, and those
\* that are due are marked for the next iteration.
RMark ==
    /\ \/ phase = "serve"
       \/ phase = "poll" /\ Marked \cup Due # {}
    /\ inbox = EmptyInbox
    /\ queue' = Marked
    /\ status' = [b \in Intents |-> IF b \in Due THEN "processing" ELSE status[b]]
    /\ phase' = IF queue' = {} THEN "poll" ELSE "pick"
    /\ UNCHANGED <<pvars, doing, committed, current, late, round, standing, fetched,
                   landed>>

RStart(b) ==
    /\ phase = "pick" /\ b \in queue
    /\ phase' = "reveal"
    /\ queue' = queue \ {b}
    /\ doing' = b
    /\ status' = [status EXCEPT ![b] = "processing"]
    /\ SendAll(Members(committed[b]), RequestReveal(b, Members(committed[b])))
    /\ UNCHANGED <<own, toCoord, committed, current, late, round, standing, fetched,
                   landed>>

\* Seeded fault for Finish: only a batch that has landed is completed.
FinishLanded ==
    /\ status' = IF <<doing, template>> \in landed
                 THEN [status EXCEPT ![doing] = "completed"] ELSE status
    /\ doing' = NoIntent
    /\ reveals' = NoContents /\ template' = NoContents /\ fragments' = NoFragments
    /\ removed' = {}
    /\ phase' = IF queue = {} THEN "poll" ELSE "pick"

\* process_batch returns, with or without an error: the batch is completed.
Finish ==
    /\ status' = [status EXCEPT ![doing] = "completed"]
    /\ doing' = NoIntent
    /\ reveals' = NoContents /\ template' = NoContents /\ fragments' = NoFragments
    /\ removed' = {}
    /\ phase' = IF queue = {} THEN "poll" ELSE "pick"

------------------------------------------------------------------------------
(* process_batch.                                                            *)

RReveal(p) ==
    /\ Offered(p) /\ Relevant(p)
    /\ Current(p).type = "Reveal"
    /\ Opens(p, committed[doing][p])
    /\ KeepReveal(p)
    /\ Take(p)
    /\ UNCHANGED <<pvars, control, book, template, fragments, removed, standing,
                   landed>>

RBadReveal(p) ==
    /\ Offered(p) /\ Relevant(p)
    /\ Current(p).type = "Reveal"
    /\ ~Opens(p, committed[doing][p])
    /\ Punish({p}, "InvalidCommitment")
    /\ SendAll({p}, Reject(doing))
    /\ Take(p)
    /\ UNCHANGED <<own, toCoord, control, book, round, landed>>

\* The reveals are complete, or their deadline has passed, which is looked at
\* between two polls.
RRevealsEnd ==
    /\ phase = "reveal"
    /\ inbox = EmptyInbox
    /\ Punish(Members(committed[doing]) \ Members(reveals), "FailedToReveal")
    /\ IF EnoughReveals
       THEN phase' = "validate"
            /\ UNCHANGED <<toCoord, toPart, queue, doing, status, round>>
       ELSE Clear(Members(committed[doing])) /\ Finish /\ UNCHANGED queue
    /\ UNCHANGED <<own, committed, current, late, fetched, landed>>

\* Here a reveal that is turned down is no offense.
RValidate ==
    /\ phase = "validate"
    /\ phase' = "build"
    /\ \E verdict \in [Members(reveals) -> Verdicts] :
        RemoveInvalid(verdict, doing) /\ removed' = Invalid(verdict)
    /\ UNCHANGED <<own, toCoord, queue, doing, book, template, fragments, standing,
                   fetched, landed>>

RBuild ==
    /\ phase = "build"
    /\ phase' = "sign"
    /\ Propose(doing)
    /\ UNCHANGED <<own, toCoord, queue, doing, book, reveals, fragments, removed,
                   standing, fetched, landed>>

RBuildFails ==
    /\ phase = "build"
    /\ BuildMayFail
    /\ Finish
    /\ UNCHANGED <<pvars, queue, committed, current, late, standing, fetched, landed>>

RFragment(p) ==
    /\ Offered(p) /\ Relevant(p)
    /\ Current(p).type = "SigFragment"
    /\ KeepFragment(p)
    /\ Take(p)
    /\ UNCHANGED <<pvars, control, book, reveals, template, removed, standing,
                   landed>>

\* The signatures are complete, or their deadline has passed.  One that is missing
\* is no offense; the transaction then cannot be finalized.
RFragmentsEnd ==
    /\ phase = "sign"
    /\ inbox = EmptyInbox
    /\ IF AllSigned
       THEN phase' = "broadcast"
            /\ UNCHANGED <<toCoord, toPart, queue, doing, status, round>>
       ELSE /\ IF Signers = {} THEN Clear(Members(reveals))
                               ELSE UNCHANGED <<toCoord, toPart>>
            /\ Finish /\ UNCHANGED queue
    /\ UNCHANGED <<own, committed, current, late, standing, fetched, landed>>

\* The transactions on the network that spend an input of the template.
Overlap(x, y) == Includes(x, y) \/ Includes(y, x)
Spent(contents) ==
    {t \in landed : \E p \in Members(contents) : Overlap(t[2][p], contents[p])}

\* The network takes what spends nothing twice; it knows the very same
\* transaction already.
RBroadcast ==
    /\ phase = "broadcast"
    /\ \A t \in Spent(template) : t[2] = template
    /\ phase' = "notify"
    /\ landed' = landed \cup {<<doing, template>>}
    /\ UNCHANGED <<pvars, queue, doing, book, round, standing, fetched>>

\* Seeded fault for Refused: the error is logged and the batch goes on.
RefusalIgnored == phase' = "notify" /\ UNCHANGED <<toCoord, toPart, doing, status, round>>

Refused == Clear(Members(reveals)) /\ Finish

\* It is refused, or taken and the answer is lost.
RBroadcastFails ==
    /\ phase = "broadcast"
    /\ \/ May("broadcast") /\ Spent(template) = {}
            /\ landed' \in {landed, landed \cup {<<doing, template>>}}
       \/ Spent(template) # {} /\ UNCHANGED landed
    /\ Refused
    /\ UNCHANGED <<own, queue, committed, current, late, standing, fetched>>

RNotify ==
    /\ phase = "notify"
    /\ phase' = "clear"
    /\ SendAll(Members(reveals), FinalTx(doing))
    /\ UNCHANGED <<own, toCoord, queue, doing, book, round, standing, fetched, landed>>

RClear ==
    /\ phase = "clear"
    /\ Clear(Members(reveals))
    /\ Finish
    /\ UNCHANGED <<own, queue, committed, current, late, standing, fetched, landed>>

------------------------------------------------------------------------------
(* Time and restarts.                                                        *)

\* Nothing is on its way: everyone waits for somebody else, has stopped, or has
\* not come yet.
AtRest ==
    /\ inbox = EmptyInbox
    /\ phase \in Polling
    /\ phase = "poll" => Marked \cup Due = {}
    /\ \A p \in Participants :
        /\ ppc[p] \in {"off"} \cup DOMAIN Awaited \cup Ended
        /\ Waiting(p) => News(p) = <<>>
        /\ p \notin known \/ Unread(toCoord[p]) = <<>>

Settled == May("slow") \/ AtRest

\* The deadline of a batch, which counts from its creation whatever has become of
\* it since.
ROverdue(b) ==
    /\ Settled
    /\ Kept(b) /\ b \notin late
    /\ late' = late \cup {b}
    /\ UNCHANGED <<pvars, control, status, committed, current, round, standing,
                   fetched, landed>>

\* cleanup_completed_batches: it has been completed for minutes.
RCleanup(b) ==
    /\ Settled
    /\ phase = "poll" /\ inbox = EmptyInbox
    /\ status[b] = "completed"
    /\ status' = [status EXCEPT ![b] = "removed"]
    /\ committed' = [committed EXCEPT ![b] = NoContents]
    /\ late' = late \ {b}
    /\ UNCHANGED <<pvars, control, current, round, standing, fetched, landed>>

\* A new process knows no batch, and none of the messages it has processed before;
\* clear_all_messages has no peer to clear yet.  Peers named on the command line
\* are known again.  Bound: there must be a batch left to create.
RCrash ==
    /\ May("restart") /\ Unborn # {}
    /\ phase' = "poll" /\ queue' = {} /\ doing' = NoIntent
    /\ status' = [b \in Intents |-> IF b = Fresh THEN "filling"
                                    ELSE IF b \in Unborn THEN "none" ELSE "removed"]
    /\ committed' = [b \in Intents |-> NoContents]
    /\ current' = Fresh
    /\ late' = {}
    /\ reveals' = NoContents /\ template' = NoContents /\ fragments' = NoFragments
    /\ removed' = {}
    /\ known' \in {known, Participants}
    /\ toCoord' = [p \in Participants |-> Forgotten(toCoord[p])]
    /\ DropInbox
    /\ UNCHANGED <<own, toPart, bans, landed>>

\* Seeded fault for RDeadline: the reveals are given no time.
RDeadlineAtOnce ==
    \/ RRevealsEnd
    \/ RFragmentsEnd /\ (Signers = Members(reveals) \/ Settled)

RDeadline ==
    \/ RRevealsEnd /\ (Members(reveals) = Members(committed[doing]) \/ Settled)
    \/ RFragmentsEnd /\ (Signers = Members(reveals) \/ Settled)

\* A participant waits for the request as long as the batch may take it, for the
\* template longer than the coordinator needs, and for the answer to its query or its
\* signature for a minute.
PDeadline(p) ==
    /\ \/ May("slow") \/ May("link")
       \/ ppc[p] \in {"awaitIntent", "awaitFinal"}
            /\ Unread(toCoord[p]) = <<>> /\ inbox[p] = <<>> /\ News(p) = <<>>
       \/ ppc[p] = "awaitRequest" /\ AtRest /\ phase = "poll"
            /\ (joined[p] \in late \/ ~Kept(joined[p]))
       \/ ppc[p] = "awaitTemplate" /\ AtRest /\ doing # joined[p]
    /\ PGiveUp(p)

RMessage(p) ==
    \/ RSkip(p) \/ RQuery(p) \/ RCommitment(p) \/ RReject(p) \/ RReveal(p)
    \/ RBadReveal(p) \/ RFragment(p)

Coordinator ==
    \/ RPoll \/ (\E p \in Participants : RMessage(p)) \/ RMark
    \/ (\E b \in Intents : RStart(b)) \/ RDeadline
    \/ RValidate \/ RBuild \/ RBuildFails \/ RBroadcast \/ RBroadcastFails
    \/ RNotify \/ RClear

ParticipantRuns(p) == (PStep(p) \/ PDeadline(p)) /\ UNCHANGED rvars
ParticipantStarts(p) == (PLaunch(p) \/ PCrash(p)) /\ UNCHANGED rvars

\* The coordinator waits for participants for ever.
Waits == phase = "poll" /\ AtRest /\ UNCHANGED vars

Next ==
    \/ Coordinator \/ RCrash
    \/ \E b \in Intents : ROverdue(b) \/ RCleanup(b)
    \/ \E p \in Participants : ParticipantRuns(p) \/ ParticipantStarts(p)
    \/ Waits

Spec == Init /\ [][Next]_vars

\* The loop and the participants keep running, and the clock does not stop before
\* a deadline; nobody has to be started, to crash, or to be forgotten.
Fairness ==
    /\ WF_vars(Coordinator)
    /\ \A b \in Intents : WF_vars(ROverdue(b))
    /\ \A p \in Participants : WF_vars(ParticipantRuns(p))

FairSpec == Spec /\ Fairness

------------------------------------------------------------------------------
\* Whatever is lost, late, restarted or processed twice, a transaction reaches the
\* network only if everyone it spends from has itself signed exactly this
\* transaction for this batch.
AuthorizedSpends ==
    \A t \in landed :
        Members(t[2]) # {} /\ \A p \in Members(t[2]) : t \in signed[p]

\* In process_batch, a participant's reveal and its part of the template are what
\* it has committed to last, even if the batch is processed again with other
\* commitments.
TemplateAsCommitted ==
    \A p \in Participants :
        /\ reveals[p] # NoPlan => reveals[p] = committed[doing][p]
        /\ template[p] # NoPlan => template[p] = committed[doing][p]

\* A participant reports success only if what it plans has reached the network in
\* the batch it has joined, though an earlier session or an earlier round of the
\* same batch may have left messages behind.
SuccessMeansLanded ==
    \A p \in Participants :
        ppc[p] = "ok" =>
            \E t \in landed :
                t[1] = joined[p] /\ Includes(t[2][p], plan[p]) /\ plan[p] # NoPlan

\* Whenever a transaction reaches the network, those it joins and those whose invalid
\* reveals were removed from its batch are together at least the minimum and at most
\* the maximum: nothing but such a removal takes it below the minimum.
QuorumUnlessRemoved ==
    [][landed' # landed =>
        Cardinality(Members(template) \cup removed)
            \in MinParticipants..MaxParticipants]_vars

\* coordinator_v2.rs:477 records an offense for participants who failed to reveal:
\* without a fault, nobody would be punished who still takes part in the batch.
OnlyTheDepartedPunished ==
    [][\A p \in Participants :
        bans'[p] # bans[p] => ~(joined[p] = doing /\ ppc[p] \notin Ended)]_vars

\* Without a fault nobody is punished for a batch while it waits for the request
\* to reveal: the request reaches it, and its reveal is in time and matches.
WaitingUnpunished ==
    [][\A p \in Participants :
        bans'[p] # bans[p] => ~(joined[p] = doing /\ ppc[p] = "awaitRequest")]_vars

\* A batch that is marked for processing is completed, though every commitment that
\* comes before its turn recomputes its status.
MarkedCompletes ==
    \A b \in Intents :
        status[b] = "processing" ~> status[b] \in {"completed", "removed"}

\* Without a fault, a batch that is started while everyone in it waits for it, and
\* that spends nothing twice, lands, whatever the others do meanwhile.
Attended(b) ==
    /\ phase = "reveal" /\ doing = b
    /\ Spent(committed[b]) = {}
    /\ \A p \in Members(committed[b]) :
        /\ ppc[p] = "awaitRequest" /\ joined[p] = b /\ plan[p] = committed[b][p]
        /\ ~IsBanned(bans[p], 0)
AttendedLands ==
    \A b \in Intents : Attended(b) ~> \E t \in landed : t[1] = b
==============================================================================
