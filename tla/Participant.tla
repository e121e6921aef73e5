----------------------------- MODULE Participant -----------------------------
(***************************************************************************)
(* The participant process: run of participant/src/participant.rs with its *)
(* wait loops.  The coordinator is whoever answers on the other half of    *)
(* each conversation: SingleBatch or RollingBatches.                       *)
(*                                                                         *)
(* What a participant proposes (inputs, payments, change address) is one   *)
(* plan; the commitment hash is binding, so a Commitment carries the plan  *)
(* it commits to.  Acks are left out: no wait loop of the participant      *)
(* looks at them.                                                          *)
(***************************************************************************)
EXTENDS Transport, FiniteSets

CONSTANTS
    Participants,
    Intents,        \* the batches a coordinator announces
    Plans,          \* what a participant may reveal
    NoPlan, NoIntent,
    Underfunded,    \* the plans validate_reveal turns down for lack of funds ...
    Malformed,      \* ... and those it turns down for anything else
    Wider,          \* <<x, y>>: plan x has the inputs and the payments of y, and more
    Bypassing,      \* clients that skip the local validation
    NoWait,         \* participants started with --no-wait
    MaxRetries,     \* CURRENT_INTENT_MAX_RETRIES
    MaxRuns,        \* bound: how often a participant is started
    Returning,      \* bound: those that are started more than once
    Faults          \* what may go wrong, see May

ASSUME PlanAssumption ==
    /\ Underfunded \subseteq Plans /\ Malformed \subseteq Plans /\ NoPlan \notin Plans
    /\ Wider \subseteq Plans \X Plans
ASSUME IntentAssumption == NoIntent \notin Intents
ASSUME RetryAssumption == MaxRetries \in Nat \ {0} /\ MaxRuns \in Nat

VARIABLES
    ppc,        \* where each participant is in run
    plan,       \* the reveal it has built
    joined,     \* the batch it takes part in
    attempts,   \* queries for the current intent so far
    runs,       \* how often it has been started
    signed,     \* the transactions whose inputs it has all signed, with their intent
    toCoord,    \* its half of the conversation with the coordinator
    toPart      \* the coordinator's half

pvars == <<ppc, plan, joined, attempts, runs, signed, toCoord, toPart>>

\* The faults a run admits: "link" (a send or a fetch fails), "erase" (messages
\* are not deleted, a peer is not unfollowed), "slow" (messages are late, so that
\* any timeout may fire), "crash", "restart" (the rolling coordinator is started
\* again), "partial" (a key is not found), "refuse" (a correct template is turned
\* down), and those of the coordinator's surroundings: "utxo", "build" and
\* "broadcast".
May(fault) == fault \in Faults

Contents == [Participants -> Plans \cup {NoPlan}]
NoContents == [p \in Participants |-> NoPlan]

\* Messages to the coordinator ...
Query == [type |-> "GetCurrentIntent"]
Commitment(i, x) == [type |-> "Commitment", intent |-> i, plan |-> x]
Reveal(i, x) == [type |-> "Reveal", intent |-> i, plan |-> x]
SigFragment(i, contents, complete) ==
    [type |-> "SigFragment", intent |-> i, contents |-> contents,
     complete |-> complete]

Outgoing ==
    [type : {"GetCurrentIntent"}]
    \cup [type : {"Commitment", "Reveal"}, intent : Intents, plan : Plans]
    \cup [type : {"SigFragment"}, intent : Intents, contents : Contents,
          complete : BOOLEAN]

\* ... and from it.
CurrentIntent(i) == [type |-> "CurrentIntent", intent |-> i]
RequestReveal(i, committed) ==
    [type |-> "RequestReveal", intent |-> i, committed |-> committed]
Template(i, contents) ==
    [type |-> "Template", intent |-> i, contents |-> contents]
FinalTx(i) == [type |-> "FinalTx", intent |-> i]
Reject(i) == [type |-> "Reject", intent |-> i]

Incoming ==
    [type : {"CurrentIntent", "FinalTx", "Reject"}, intent : Intents]
    \cup [type : {"RequestReveal"}, intent : Intents,
          committed : SUBSET Participants]
    \cup [type : {"Template"}, intent : Intents, contents : Contents]

Ended == {"ok", "left", "err"}

\* What each wait loop looks for.
Awaited == [awaitIntent |-> {"CurrentIntent"},
            awaitRequest |-> {"RequestReveal", "Reject"},
            awaitTemplate |-> {"Template", "Reject"},
            awaitFinal |-> {"FinalTx"}]

Stages == {"off", "query", "commit"} \cup DOMAIN Awaited \cup Ended

ParticipantTypeOK ==
    /\ ppc \in [Participants -> Stages]
    /\ plan \in [Participants -> Plans \cup {NoPlan}]
    /\ joined \in [Participants -> Intents \cup {NoIntent}]
    /\ attempts \in [Participants -> 0..MaxRetries]
    /\ runs \in [Participants -> 0..MaxRuns]
    /\ signed \in [Participants -> SUBSET (Intents \X Contents)]
    /\ toCoord \in [Participants -> Halves(Outgoing)]
    /\ toPart \in [Participants -> Halves(Incoming)]

ParticipantInit ==
    /\ ppc = [p \in Participants |-> "off"]
    /\ plan = [p \in Participants |-> NoPlan]
    /\ joined = [p \in Participants |-> NoIntent]
    /\ attempts = [p \in Participants |-> 0]
    /\ runs = [p \in Participants |-> 0]
    /\ signed = [p \in Participants |-> {}]
    /\ toCoord = [p \in Participants |-> EmptyHalf]
    /\ toPart = [p \in Participants |-> EmptyHalf]

------------------------------------------------------------------------------
Goto(p, stage) == ppc' = [ppc EXCEPT ![p] = stage]

\* A send that fails ends the run with an error (the ? of send_dm).
SendThen(p, message, stage) ==
    \/ /\ toCoord' = [toCoord EXCEPT ![p] = Post(@, message)]
       /\ Goto(p, stage)
    \/ May("link") /\ UNCHANGED toCoord /\ Goto(p, "err")

\* The participant's own messages are deleted, or the homeserver is not reached.
EraseOwn(p) ==
    \/ toCoord' = [toCoord EXCEPT ![p] = Erased(@)]
    \/ May("erase") /\ UNCHANGED toCoord

\* run up to the first query, in a new process that has processed nothing yet.
PLaunch(p) ==
    /\ ppc[p] \in {"off"} \cup Ended
    /\ runs[p] < MaxRuns
    /\ runs[p] = 0 \/ p \in Returning
    /\ runs' = [runs EXCEPT ![p] = @ + 1]
    /\ Goto(p, "query")
    /\ plan' = [plan EXCEPT ![p] = NoPlan]
    /\ joined' = [joined EXCEPT ![p] = NoIntent]
    /\ attempts' = [attempts EXCEPT ![p] = 0]
    /\ toPart' = [toPart EXCEPT ![p] = Forgotten(@)]
    /\ EraseOwn(p)
    /\ UNCHANGED signed

PCrash(p) ==
    /\ May("crash")
    /\ ppc[p] \notin {"off"} \cup Ended
    /\ Goto(p, "err")
    /\ UNCHANGED <<plan, joined, attempts, runs, signed, toCoord, toPart>>

\* Seeded fault for RetryOrFail: the loop makes one attempt too many.
RetryOnceMore(p, used) ==
    Goto(p, IF used <= MaxRetries THEN "query" ELSE "err")

RetryOrFail(p, used) ==
    Goto(p, IF used < MaxRetries THEN "query" ELSE "err")

\* One turn of query_current_intent_with_retry: what came before is discarded,
\* then the query is sent.  A query that cannot be sent uses up the attempt.
PQuery(p) ==
    /\ ppc[p] = "query"
    /\ attempts' = [attempts EXCEPT ![p] = @ + 1]
    /\ \/ toPart' = [toPart EXCEPT ![p] = Fetched(@)]
       \/ May("link") /\ UNCHANGED toPart
    /\ \/ /\ toCoord' = [toCoord EXCEPT ![p] = Post(@, Query)]
          /\ Goto(p, "awaitIntent")
       \/ May("link") /\ UNCHANGED toCoord /\ RetryOrFail(p, attempts[p] + 1)
    /\ UNCHANGED <<plan, joined, runs, signed>>

\* What a participant that waits has not looked at yet, and the answers in it.
Waiting(p) == ppc[p] \in DOMAIN Awaited
Awaits(p) == IF ppc[p] = "awaitIntent" THEN Intents ELSE {joined[p]}
News(p) == Unread(toPart[p])
Answered(p) == Matches(News(p), Awaited[ppc[p]], Awaits(p)) # {}
Answer(p) == FirstMatch(News(p), Awaited[ppc[p]], Awaits(p))

\* A poll: everything unread is processed, and the first answer is taken.
Hears(p, stage, type) ==
    /\ ppc[p] = stage
    /\ Answered(p)
    /\ Answer(p).type = type
    /\ toPart' = [toPart EXCEPT ![p] = Fetched(@)]

PSkip(p) ==
    /\ Waiting(p)
    /\ News(p) # <<>>
    /\ ~Answered(p)
    /\ toPart' = [toPart EXCEPT ![p] = Fetched(@)]
    /\ UNCHANGED <<ppc, plan, joined, attempts, runs, signed, toCoord>>

\* A wait ends without an answer, by its timeout or because a poll failed.
PGiveUp(p) ==
    /\ Waiting(p)
    /\ IF ppc[p] = "awaitIntent"
       THEN RetryOrFail(p, attempts[p])
       ELSE Goto(p, "err")
    /\ UNCHANGED <<plan, joined, attempts, runs, signed, toCoord, toPart>>

PIntent(p) ==
    /\ Hears(p, "awaitIntent", "CurrentIntent")
    /\ joined' = [joined EXCEPT ![p] = Answer(p).intent]
    /\ Goto(p, "commit")
    /\ UNCHANGED <<plan, attempts, runs, signed, toCoord>>

\* Seeded fault for PassesLocally: the local validation is forgotten.
PassesAlways(p, x) == TRUE

\* The local validate_reveal, which some clients skip.
PassesLocally(p, x) == x \notin Underfunded \cup Malformed \/ p \in Bypassing

\* Build the reveal, validate it locally, commit to it.
PCommit(p) ==
    /\ ppc[p] = "commit"
    /\ \E x \in Plans :
        /\ plan' = [plan EXCEPT ![p] = x]
        /\ IF PassesLocally(p, x)
           THEN SendThen(p, Commitment(joined[p], x), "awaitRequest")
           ELSE Goto(p, "err") /\ UNCHANGED toCoord
    /\ UNCHANGED <<joined, attempts, runs, signed, toPart>>

PReveal(p) ==
    /\ Hears(p, "awaitRequest", "RequestReveal")
    /\ IF p \in Answer(p).committed
       THEN SendThen(p, Reveal(joined[p], plan[p]), "awaitTemplate")
       ELSE Goto(p, "err") /\ UNCHANGED toCoord
    /\ UNCHANGED <<plan, joined, attempts, runs, signed>>

PRejected(p) ==
    /\ \E stage \in {"awaitRequest", "awaitTemplate"} : Hears(p, stage, "Reject")
    /\ Goto(p, "err")
    /\ UNCHANGED <<plan, joined, attempts, runs, signed, toCoord>>

\* Whoever has the plan y finds its inputs and its payments among those of x.
Includes(x, y) == x = y \/ <<x, y>> \in Wider

\* verify_template: what this participant wants is there; there may be more, also of
\* its own.  Change that the fee has made dust, and left out, is a fault ("refuse").
Accepts(p, contents) == Includes(contents[p], plan[p])

\* Every input of the template whose key is among the first 1000 receiving
\* addresses is signed, for exactly this transaction (SIGHASH_ALL).
PSign(p) ==
    /\ Hears(p, "awaitTemplate", "Template")
    /\ Accepts(p, Answer(p).contents)
    /\ \E complete \in {TRUE} \cup (IF May("partial") THEN {FALSE} ELSE {}) :
        /\ signed' = IF complete
                     THEN [signed EXCEPT ![p] =
                                @ \cup {<<joined[p], Answer(p).contents>>}]
                     ELSE signed
        /\ SendThen(p, SigFragment(joined[p], Answer(p).contents, complete),
                    IF p \in NoWait THEN "left" ELSE "awaitFinal")
    /\ UNCHANGED <<plan, joined, attempts, runs>>

\* The template is turned down, or no key matches any of its inputs.
PRefuse(p) ==
    /\ Hears(p, "awaitTemplate", "Template")
    /\ ~Accepts(p, Answer(p).contents) \/ May("refuse") \/ May("partial")
    /\ Goto(p, "err")
    /\ UNCHANGED <<plan, joined, attempts, runs, signed, toCoord>>

\* The final transaction has come: clear_messages_with_peer, and done.
PFinal(p) ==
    /\ ppc[p] = "awaitFinal"
    /\ Answered(p)
    /\ Goto(p, "ok")
    /\ \/ /\ toCoord' = [toCoord EXCEPT ![p] = Erased(@)]
          /\ toPart' = [toPart EXCEPT ![p] = Forgotten(@)]
       \/ /\ May("erase")
          /\ toPart' = [toPart EXCEPT ![p] = Fetched(@)]
          /\ UNCHANGED toCoord
    /\ UNCHANGED <<plan, joined, attempts, runs, signed>>

\* The steps of a running participant; giving up is left to the composition,
\* which knows how long the other side takes.
PStep(p) ==
    \/ PQuery(p) \/ PSkip(p) \/ PIntent(p) \/ PCommit(p) \/ PReveal(p)
    \/ PRejected(p) \/ PSign(p) \/ PRefuse(p) \/ PFinal(p)
==============================================================================
