# Bitcoin batch coordinator: TLA+ models and proofs

A coordinator invites participants over Pubky messages, collects from each a
commitment, a reveal (inputs, payments, a change address) and a signature, and
sends one bitcoin transaction that contains them all. This directory models the
protocol as the Rust code runs it, model-checks it with TLC on small instances,
and proves its safety invariants with TLAPS for every instance.

Read `BatchAgreement.tla` first (what a batch promises, one page), then
`SingleBatch.tla` and `RollingBatches.tla` (how the two coordinators get there), and
`Assembly.tla` for the money.

## 1. Inventory

| Part | Source | State it keeps | Operations | Module |
|---|---|---|---|---|
| Transport | `common/src/transport.rs` | known peers, ids of processed messages per peer; on each homeserver the messages sent | `send_dm`, `receive_from`, `receive_all`, `clear_messages_with_peer`, `clear_all_messages`, `unfollow`, discovery | `Transport` |
| Ban manager | `coordinator/src/ban_manager.rs`, task in `main.rs` | the ban list (under a lock), the JSON file | `load`, `save`, `is_banned`, `record_offense`, `cleanup_expired_bans` | `BanPolicy`, `BanManager` |
| Single-batch coordinator | `coordinator/src/coordinator.rs` | commitments, reveals, template, fragments of one batch | the phases of `run` and its three collecting loops | `CoordinatorPeers`, `SingleBatch` |
| Participant | `participant/src/participant.rs` | its reveal, the intent, its signatures | `run` and its wait loops | `Participant` |
| Rolling coordinator | `coordinator/src/coordinator_v2.rs` | one loop over several batches, and the batch it is processing | `run_multi_batch`, `process_batch` | `CoordinatorPeers`, `RollingBatches` |
| Batch manager | `coordinator/src/batch_manager.rs` | batches by intent id, the current one | create, commit, status, cleanup | `RollingBatches` |
| Assembler | `common/src/assembler.rs` | none (pure) | `validate_reveal`, `build_transaction`, fee shares, change | `Assembler`, `Assembly` |
| PSBT builder | `common/src/psbt_builder.rs` | none (pure) | `build_template`, `merge_fragments`, `finalize` | `Assembler`, `Assembly`; elsewhere the condition `AllSigned` |
| Commitment hash | `common/src/commitment.rs` | none (pure) | `compute_commitment`, `verify_commitment` | as a binding commitment |
| Messages, errors | `common/src/messages.rs`, `error.rs` | none | wire formats | records of `Participant` |
| Entry points | `main.rs`, `lib.rs` of both crates | configuration | argument parsing | ban list's start only |

### How the parts interact

- A **participant** queries the current intent, commits, waits for the request,
  reveals, waits for the template, verifies and signs its inputs, and waits for the
  final transaction. It talks to the coordinator only.
- The **coordinator** polls all its peers (`receive_all`), handles what it fetched
  one message at a time, and asks the **ban manager** before each message.
  Offenses found in a phase go to `record_offense`, which writes the list to disk.
- **Nothing is pushed.** A message lies on its sender's homeserver until its sender
  deletes it. A reader remembers what it has processed, in memory only. A restart
  therefore sees every message again that was not deleted, and a deletion may come
  before the reading.
- The **rolling coordinator** replaces the single-batch loop by one loop over all
  batches of the **batch manager** and runs a complete batch inline.
- The hourly task of `main.rs` sweeps the ban list **concurrently** with everything else.

### What is hard here, and what correctness means

| Part | Hard behaviour | Correct when |
|---|---|---|
| Transport | reading is not consuming; deleting is not reading; restart forgets | (as part of the protocols that use it) |
| Ban manager | two tasks, one file; writes that overlap; an abandoned write that finishes late; a crash inside a write | a ban in force ends only by expiring; the file says what memory says once the tasks are quiet |
| Single batch | phases end inside a fetch; timeouts race answers; reveals leave after the last count; whoever offends late stays in the template; a late answer from the network | what lands was signed, part by part, by its owners; quorum; no banned member; while nothing fails, nobody is punished |
| Participant | retries of a query; restarts; template verification | it signs only a transaction that includes its plan; success means landed; it always ends |
| Rolling | stale intents; batches resurrected; messages swallowed by an inline batch; restarts | each batch keeps the agreement of a single batch, however often it is processed; marked batches are completed; nobody is punished that still takes part |
| Assembler | rounding, dust, map order | inputs = outputs + fee; nobody pays more than its share; an honest participant turns an honest template down for one reason only, change that became dust (where a comment says it should not, section 6) |
| PSBT builder | fragments in any order, some of an earlier round | what is final carries, for every input, one signature of a wallet that has its key, on this very transaction |

The hazards, with their lines and the properties aimed at each, are listed in
`PROJECT.json`. The few without a property carry a note.

## 2. Modules

| Module | What it is |
|---|---|
| `Transport` | one direction of a conversation: `sent` (stored messages) and `read` (the receiver's processed prefix) |
| `Participant` | the participant, one action per step of `run`; `ppc` is the wait loop it is in |
| `CoordinatorPeers` | what both coordinators share: the peers they poll, fetched messages, the ban list, reveals, template and fragments of the batch in progress |
| `SingleBatch` | the single-batch coordinator, composed with the participants; `cpc` is its phase |
| `RollingBatches` | the rolling coordinator with its batch manager, composed with the same participants; `phase` is where its loop is |
| `BatchAgreement` | the abstract specification: propose, sign, land |
| `BanPolicy` | the pure part of the ban manager: severities, counts, durations |
| `BanManager` | the list, the file, the two tasks, the clock, crashes |
| `Assembler` | the arithmetic of a batch as operators: weights, fees, shares, change, the participant's check of the template, the merging of signatures |
| `Assembly` | one batch from its reveals to its final transaction with those operators, possibly assembled a second time |
| `MCSingleBatch`, `MCRollingBatches`, `MCBanManager`, `MCAssembly` | model values and the shapes of reveals for TLC |
| `SumProofs` | lemmas about `SumFunctionOnSet` of the community modules, proved from its definition |
| `BanPolicyProofs`, `ParticipantProofs`, `CoordinatorPeersProofs` | the lemmas about the operators and steps that several components share |
| `BanManagerProofs`, `SingleBatchProofs`, `RollingBatchesProofs`, `AssemblyProofs` | the theorems about the module of that name |

`Participant` EXTENDS `Transport`; `CoordinatorPeers` EXTENDS `Participant` and
`BanPolicy`; `SingleBatch` and `RollingBatches` EXTEND `CoordinatorPeers`; `Assembly` EXTENDS
`Assembler`; `BanManager` EXTENDS `BanPolicy`. `SingleBatch` instantiates `BatchAgreement` for the
refinement.

### Correspondence with the code

*Conversations.* `receive_from` marks all it fetches as processed, so the processed
ids of a peer are a prefix of its messages, and `read` is its length.
`clear_messages_with_peer` deletes the caller's own messages (`Erased`) **and**
forgets which of the peer's it has processed (`Forgotten`); the peer's messages stay.

*One message at a time.* `Poll` moves the unread messages of all reachable peers to
`inbox`; then each `CMessage` or `RMessage` handles one. `reading` keeps the messages of one peer
together, for `receive_all` returns them peer by peer, in an order of peers that a
hash set decides. `CCommitment` at the maximum, and the two timeouts, drop the rest
of the inbox: it has been marked as processed, and nobody will see it again.

*Punishing.* `record_offense` and `unfollow` for a set of participants are one step of
either coordinator. Nothing reads the list between two of them, because the
coordinator is one task and the sweep changes nothing within the first hour: the
clock stands at hour 0. What happens inside `record_offense` is `BanManager`'s subject.

*Bulk sends* (`SendAll`) are one step too: no peer's step can tell apart the moments
between two sends to different peers. With the fault `link` any subset is delivered.

*The chain.* The lookup of a reveal's inputs has one of three results: found, absent,
or unverified (the lookup failed). All three remove or keep the reveal as the code does,
and only `absent` is an offense. The broadcast may fail either before or after the
network has taken the transaction (`CBroadcastFails`).

*Signing.* The signing loop goes over all inputs of the template and signs those whose key is among the first 1000
receiving addresses of the wallet, whoever revealed them; an input whose
key lies beyond is left unsigned while the fragment is sent all the same (`partial`).
In `Assembly` the variable `wallet` says which coins each participant finds the key of, and `Sign` signs by it
(`SignedBy`): a coin may be revealed by one participant and signed by another, or by nobody. In the protocol modules a
plan's coins are its owner's.
A fragment with no signature at all is an error of the participant (`PRefuse`).
A fragment carries the transaction it signs; `merge_fragments` refuses one that signs another
(`KeepFragment`, `foreign`), which spoils the batch.

*Accepting a template.* `verify_template` looks for the inputs and payments of the participant in the template and allows
more beside them. `Accepts` therefore asks that what the template holds for the participant *includes* its plan
(`Includes`): it is the plan, or, by the constant `Wider`, a plan with more inputs and payments. What a participant signs, and what its
success means, is stated with `Includes`. In the runs no participant ever meets a wider plan of its own: `single_restart` admits
one, but a template holds it only if its owner was started again after it had revealed it, and whoever starts again discards the request
that would take it as far as the template. The rolling runs leave `Wider` empty. The theorems hold for every `Wider`. Change that the fee has turned into dust, which the participant refuses, is the fault `refuse`
here and is computed in `Assembly`.

*The rolling loop.* One iteration of `run_multi_batch` is `RPoll`, an `RMessage` for each fetched
message, and `RMark`. `RMark` takes the list of marked batches *before* it marks those whose deadline
has passed, as the code does, so these wait for the next iteration; an empty iteration in which
nothing is marked or due changes nothing and is left out. `RStart` to `RClear` are `process_batch`.
While it runs, `RSkip` drops what the main loop would have answered, and in the main loop it drops
reveals. Reveals are taken only from senders that are not banned, signatures from anybody who has revealed.

*The batch manager.* A batch is `status`, `committed` and membership in `late` (older than its
deadline). `add_commitment` sets the status from the number of commitments whatever it was before
(`StatusWith`), so a commitment to a completed batch makes it ready again. `get_or_create_current_intent` hands
out the current batch as long as it is kept. The status `Full` is overwritten by the caller of
`add_commitment` before anybody reads it.

*The chain, again.* A rolling coordinator may send the same or a conflicting transaction again. The network
takes what spends nothing twice and knows the very same transaction (`Spent`); the
plans of one participant share no coin.

*Restarts.* `RCrash` starts a new rolling process: no batches, no processed messages, one new
batch, the ban list from its file. What participants have not erased is read again.

*Writes of the ban file.* `fs::write` truncates the file and then writes it, on a thread of its own: a write is two steps (`BeginSave` and
`EndSave`, `BeginSweepSave` and `EndSweepSave`, `StrayOpen` and `StrayWrite`), and a crash between them leaves the file `torn`. Both tasks hold the list for
reading while they write, which does not keep them from writing at the same time. A write that has not had the file to
itself since its truncation leaves either its list or a mixture that does not parse (`Outcomes`). A `record_offense` that is dropped by
the reveal timeout leaves its write behind, queued or begun (`Abandon`). `FailSave`, `FailSweepSave` and `StrayFails` leave the file as it was or
unreadable; `record_offense` ignores the error.

*Amounts.* `Assembly` starts from reveals as they come: amounts in sats, the weights and the
formulas of the code. The floating-point share of a participant is the exact quotient, or one
less where the quotient is integral (`Truncated`); the participant that gets the remainder
is any of them, for a hash map decides. A transaction is the set of coins it spends and, for each output, how
often it pays it: the code sorts both. A signature names its key and its transaction. A reveal has at least one
input (`IsReveal`), for a wallet without any is an error of the participant. What a participant reveals is the constant operator
`Proposal`, which `MCAssembly` defines; the proofs know no more of it than `IsReveal`.

*Plans.* What a participant reveals is one value of `Plans`; those in `Underfunded` fail
`validate_reveal` for lack of funds, which is an offense, and those in `Malformed` fail it for any other reason (an input
twice, a payment below the dust limit, an address of another network), which is none: the reveal is removed and rejected. The rolling coordinator
records no offense for either. The participant runs the same validation itself before it commits,
which the clients in `Bypassing` skip. `verify_commitment` compares plans: the hash is taken
to be binding.

### Faults

`Faults` is a constant set; a run names those it admits.

| Fault | What it allows |
|---|---|
| `link` | any send or fetch fails |
| `erase` | a deletion or an unfollow is not carried out |
| `slow` | messages are late: any deadline may fire at any time |
| `crash` | coordinator or participant stops between two steps |
| `restart` | the rolling coordinator stops between two steps and a new process takes over |
| `partial` | a key is not found: a fragment lacks a signature |
| `refuse` | an honest participant turns the template down (dust change) |
| `utxo`, `build`, `broadcast` | the lookup, the assembler, the Electrum server fail |

## 3. Runs

| Run | Instance | Shows |
|---|---|---|
| `ban_manager` | 2 participants, 2 hours | `TypeOK`, `DurableWhenSettled`, `NoEarlyRelease` |
| `single_three` | 3 participants (one skips local validation, one started with `--no-wait`), 3 plans (one underfunded, one malformed), minimum 2, all nine faults | `TypeOK`, `AuthorizedSpend`, `QuorumSpend`, `SuccessMeansLanded`, `PermanentBansDeserved` |
| `single_restart` | 2 participants of which one skips the local validation and is started up to twice, 2 plans (one underfunded), minimum 1, all faults but `utxo`, fair | `TemplateAsCommitted`, `PermanentBansDeserved`, `MembersInGoodStanding`, `EverybodyStops`, and that the batch implements `BatchAgreement` |
| `single_faultless` | 4 participants for a batch of 2, one banned, no fault, fair | `NobodyPunished`, `MembersInGoodStanding`, `BatchLands` |
| `rolling_faults` | 2 batches, 2 participants (one started with `--no-wait`, one started twice), 2 plans, minimum 2, maximum 3, restarts of the coordinator, late messages, missing keys, failures of lookup, assembler and server | `TypeOK`, `AuthorizedSpends`, `TemplateAsCommitted`, `SuccessMeansLanded`, `QuorumUnlessRemoved` |
| `rolling_faultless` | 2 batches, 3 participants (two started with `--no-wait`) for batches of 1 or 2, no fault, fair | `QuorumUnlessRemoved`, `WaitingUnpunished`, `MarkedCompletes`, `AttendedLands` |
| `assembly` | 3 participants, 22 shapes of reveals, 5 choices of wallets, 2 fee rates, change allowed or not, assembled up to twice | `FeesCovered`, `SharesFair`, `ValidatedBuilds`, `RefusedOnlyForDust`, `FinalSigned` |
| `ban_permanent`, `ban_escalation`, `final_tx_erased`, `rolling_reprocessed`, `assembly_dust` | small instances of the above | five violations, section 6 |

### Bounds, and why they are enough

- **Participants.** Three is the least number with which a quorum of two can lose one
  member between the last count and the build. Four for a batch of two gives a banned one, a full
  batch, and a participant left over. `rolling_faultless` has three for batches of one or two, so that a batch may be full, be joined while
  it is due, or be asked for a place it no longer has. `rolling_faults` spends its states on restarts
  and has two: a batch of them is complete but not full, so it can be committed to again after it was processed.
- **Plans.** Two: the plan an owner committed to and another one, in `single_restart` the underfunded one. `single_three` has a third, malformed one.
- **Faults.** `single_restart` leaves out `utxo`: what a lookup does to a reveal does not depend on how often its owner was started, and `single_three` has it.
- **Intents.** Two batches: the current one and its successor. A restart of the rolling coordinator
  uses one up, so there is one restart. When all are used up a query is not answered.
- **MaxRuns, Returning.** Two: one restart brings back every old message once. A second restart would
  add the same messages again, and the theorems of section 5 cover any number. `Returning` is
  the set of those that are started more than once; in `single_restart` and `rolling_faults` one of the two.
- **MaxRetries.** The code's constant is 3. Two attempts in
  `single_faultless` give a query with an old answer behind it; the other runs use one, to spend their states on faults, restarts and batches.
- **MaxHours.** Two hours: a first ban lasts one hour, so it expires within the run,
  and a later ban of six hours does not. The proofs cover any number.
- **Raised.** One critical and one moderate offense: the ban manager tells offenses apart by their severity only.
- **Shapes.** The reveals of `assembly`: one input or two, change or none, funds that exceed the payment and the estimated
  fee by nothing, by exactly the dust limit, by 12 sats more (the fee's rounding and overhead), or by plenty; and the ones that must be
  turned down or fail the batch: a coin of somebody else, the same coin twice, a payment below the dust limit,
  one sat too little, and a payment to the own change address. At a rate of 1 the overhead is a few sats, at 60 it is more
  than the dust limit, so that a share both can and cannot be paid from what dust leaves.
- **Wallets.** Everybody finds the keys of its own coins; or only those of its second coins, so that first coins stay unsigned; or one of
  the three finds those of all second coins and of the shared one, so that it signs what others revealed.
- **MaxRounds.** Two: the second assembly meets the fragments of the first. One fragment at most comes too late in a round.

No state constraint is used; every bound is a guard or follows from one. `rolling_faults` is symmetric in its two
plans, and `assembly` in its three participants: no definition and no property of the module names one of them, and both runs
check invariants only, for which symmetry is sound. `assembly` really stops when the batch is final or has failed for good;
everywhere else deadlock is checked.

### Fairness and deadlines

`FairSpec` assumes weak fairness of the coordinator as a whole, of every running
participant, and of its first start. This is what the code's scheduling gives: each is
a loop in a process of its own that never blocks without a timeout. Crashes and second starts
are never forced, and neither is any particular order. In `RollingBatches` a deadline of a batch is fair as well
(`ROverdue`: the clock does not stop), starts of participants are not, and cleanup and restarts are never forced.

With `slow`, any deadline may fire at any time, and that is how all safety runs work.
Without it, a deadline fires only when nothing is on its way (`AtRest`): the code polls every
half second and its deadlines are minutes. The participant waits for its template the deadline and 60 s, and the
coordinator's phases before it wait half the deadline each; for the request it waits as long as the coordinator may need. In
these two places `PDeadline` lets the coordinator be done first. The waits for the answer to the query and for the final transaction are one
minute each whatever the deadline, and whatever the coordinator's phase: they end as soon as what was sent has been
handled without an answer (`Ignored`), for instance while the coordinator still waits for the signatures of others. `BatchLands` and `NobodyPunished` rest on
the order that is left; the safety properties do not.

In the rolling coordinator the same holds of a batch in `process_batch`: its deadlines (a half and a quarter of the
batch's) fire at rest. A participant waits for the request as long as the batch may still be taken up
(the loop polls, and the batch is overdue or forgotten), for its template until the batch is no longer in processing,
and for the other two answers a minute.

## 4. Properties

- `AuthorizedSpend`: what lands was signed by every owner, for this batch and in exactly this transaction.
- `QuorumSpend`: what lands has between minimum and maximum members. The code counts
  reveals *before* it removes the invalid ones; it is the count of signatures that saves it.
- `TemplateAsCommitted`: reveals and template are what was committed to *first*.
- `SuccessMeansLanded`: a participant that reports success is right, even after a lost answer of the server.
- `MembersInGoodStanding`: no transaction with a banned member is sent. An offense after an accepted reveal does not take its author out of the template:
  `coordinator.rs:872-905` bans it and keeps the reveal. What keeps it from landing is that its signature is ignored from then on, and the batch fails.
- `PermanentBansDeserved`: lack of funds bans only a client that skips the local validation and committed to more than it has; a reveal that
  does not open its commitment bans only who was started more than once. That such a participant may be honest is a hazard of
  the code, not excluded here: it may send the same coins under a new salt, and is banned for good.
- `NobodyPunished`: without a fault nobody is banned, who is late or finds the batch full included.
- `AgreementSpec`: `SingleBatch` implements `BatchAgreement`; the refinement maps
  `template`, `signed` and `landed` to themselves and everything else to nothing.
- `EverybodyStops`, `BatchLands`: termination under all faults, success without any.
- `DurableWhenSettled`: when both tasks are quiet, and since the last good save no write was abandoned, failed, or was mixed with another,
  the file loads to the list in memory.
- `NoEarlyRelease`: a ban ends only by expiring, or by a restart that interrupts a save or follows a bad one. That a restart then
  does forget bans is what the code does; both properties bound it, and do not exclude it.

Rolling coordinator:

- `AuthorizedSpends`, `TemplateAsCommitted`, `SuccessMeansLanded`: the agreement of a single batch for each of many, with commitments that may be
  replaced, batches that may be processed twice, and coordinators that restart. Here the *last* commitment counts.
- `QuorumUnlessRemoved`: whenever a transaction lands, its members and those whose reveals `process_batch` removed as invalid (`removed`) are together between
  minimum and maximum. So only such a removal takes it below the minimum: after it the code asks whether there is any signature at all.
- `MarkedCompletes`: a batch marked for processing is completed, though a commitment to it recomputes its status:
  the mark is lost for a moment, and the same handler puts it back, since the batch is still full or due.
- `AttendedLands`: a batch all of whose members wait for it lands, whatever the participants of other batches do meanwhile.
- `WaitingUnpunished`: no one that waits for the request is banned, because the request reaches it and its reveal is read.
  With restarts of participants or after a failed batch this is false: see the fourth finding.

Amounts:

- `FeesCovered`: the outputs leave the miners at least the fee at the promised rate, and more only by dust and by what participants without a change
  address give away.
- `SharesFair`: the shares add up to the fee, and none is off its proportion by more than a sat for each participant, the one that gets the remainder included.
- `ValidatedBuilds`: reveals that passed the validation and share no coin fail to build only if someone's funds exceed the
  estimate by less than a bound: 13 vbytes of overhead, 31 for every change output reserved for a participant that has no change
  address, and a sat for each participant.
- `RefusedOnlyForDust`: an honest participant refuses an honest template only if its share has turned its change into dust. That it
  should not refuse it then either is what a comment of the code says, and is false: the fifth finding (`DustMayBeOmitted`).
- `FinalSigned`: in a final transaction every input carries exactly one signature, on this very transaction, by a participant whose wallet has the key and
  who has found what it revealed in it, whatever the order of merging, whoever revealed the input, and although fragments of an earlier assembly
  are among those merged.

Every property has a seeded fault: an operator next to the definition it replaces
(`AllAnswered` for `AllSigned`, and so on), with which TLC finds the property violated.

## 5. Proofs

All proofs are checked by TLAPS 1.4.5, with nothing omitted. With them every safety invariant that a run checks is a theorem,
and so are the refinement of `BatchAgreement` and the action properties `NoEarlyRelease` and `QuorumUnlessRemoved`.

### The ban manager

| Theorem | Statement | Argument |
|---|---|---|
| `BanManagerProofs!TypeCorrect` | `Spec => []TypeOK` | with the lemmas of `BanPolicyProofs`: what an offense leaves behind is an entry that bans |
| `BanManagerProofs!Durable` | `Spec => []DurableWhenSettled` | inductive invariant `FileInv` = `TypeOK` ∧ `SavesCurrent` ∧ `DurableWhenSettled`. `SavesCurrent` says that what a task is about to write is the list: `save` holds the read lock over the write, so the list cannot change between the two; a mixture that two writes leave is remembered (`Stale`) until a save completes, so nothing is claimed of it |
| `BanManagerProofs!BansHold` | `Spec => NoEarlyRelease` | step by step from `FileInv` |

### The single batch

| Theorem | Statement | Argument |
|---|---|---|
| `SingleBatchProofs!TypeCorrect` | `Spec => []TypeOK` | `BatchTypeInv` = `TypeOK` ∧ every participant past its commitment has a plan and an intent (`Prepared`); without it the messages it sends would be ill-typed |
| `SingleBatchProofs!TemplateCommitted` | `Spec => []TemplateAsCommitted` | inductive by itself over `TypeOK`: commitments never change once made |
| `SingleBatchProofs!Authorized` | `Spec => []AuthorizedSpend` | inductive invariant `SpendInv`: every complete fragment on its way claims a transaction its sender has signed (`ClaimsTrue`), none is accepted before there is a template (`NoEarlyFragments`), every one accepted as complete was made by signing the template (`FragmentsTrue`), and a transaction on the network had all of them (`LandedSigned`) |
| `SingleBatchProofs!Quorum` | `Spec => []QuorumSpend` | `QuorumInv`. Upper bound: commitments come one at a time, and the phase ends at the maximum (`CommitmentsLimited`); the template is part of them by `TemplateAsCommitted`. Lower bound: `EnoughFragments` counts signers, and these are members of the template (`TemplateOfReveals`); nothing is said of the reveals, which may well be too few |
| `SingleBatchProofs!Success` | `Spec => []SuccessMeansLanded` | `AcceptInv`: in whatever conversation and session, a `Template` message carries the only template there is and a `FinalTx` is sent after the transaction has landed (`Told`, over all stored messages, read or not), and who waits for the final transaction has found its present plan in that template (`Accepted`). Old messages are read again after a restart, so nothing may be said of unread messages only |
| `SingleBatchProofs!Agrees` | `Spec => AgreementSpec` | the refinement. Each step maps to `Propose`, `Sign`, `Land` or a stutter: `CBuild` to `Propose` by `CommitmentsLimited`, a participant's template step to `Sign` by `Told`, the broadcast to `Land` by `LandedSigned` and `QuorumReached` |
| `SingleBatchProofs!Deserved` | `Spec => []PermanentBansDeserved` | `DesertInv`: every commitment and reveal on its way, fetched or kept was said by its sender (`PromisesKept`, `CommittedPromised`), and who was started once has said only one of each |
| `SingleBatchProofs!GoodStanding` | `Spec => []MembersInGoodStanding` | `StandingInv`: whoever has signed is not banned while signatures are collected, for a message of a banned sender is skipped and a timeout punishes those whose signature is missing; with `QuorumInv` the members of what is sent have all signed |
| `SingleBatchProofs!Blameless` | `Returning = {}`, `Bypassing = {}` ⊢ `Spec => []NobodyPunished` | `FairInv`: for each participant, where its next message is, stage by stage (`Served` = `Gathered` ∧ `Welcome` ∧ `Revealing` ∧ `Signing`). Whoever has committed but not revealed either waits and has the request among its unread messages, or its reveal is unread or fetched; likewise for the template and the fragment. A deadline passes `AtRest` only, where all of these are empty: so nobody is missing |

The two hypotheses of `Blameless` are needed: a participant that is started a second time may send another reveal after its first
one was kept, and is banned for it; a client that skips the local validation is banned for what it reveals, although nothing fails. `NobodyPunished` itself speaks of `Faults = {}` only. Its proof
needs what the others show, and `WellRead` besides: neither side's count of read messages is beyond what was sent, so that
what is sent is unread.

### The rolling coordinator

| Theorem | Statement | Argument |
|---|---|---|
| `RollingBatchesProofs!TypeCorrect` | `Spec => []TypeOK` | `RollingTypeInv` = `TypeOK` ∧ `Prepared` ∧ `process_batch` has a batch |
| `RollingBatchesProofs!Authorized` | `Spec => []AuthorizedSpends` | `RoundInv`: nothing is left of one round of `process_batch` when the next begins, template and reveals agree from the proposal on (`RoundOrder`), and a complete fragment is its sender's signature of *this* template for *this* batch, although fragments of earlier rounds and coordinators are still read |
| `RollingBatchesProofs!TemplateCommitted` | `Spec => []TemplateAsCommitted` | a part of `RoundInv`: no commitment changes while its batch is processed, for the loop that takes them is not running |
| `RollingBatchesProofs!Quorum` | `Spec => QuorumUnlessRemoved` | `LimitInv`: no batch has more than the maximum of commitments, though it may be committed to after it was processed; what is removed from a round was committed to its batch, and a round goes on only if what is left and what was removed make up the minimum (`RoundLimits`). The template is made of what is left (`RoundInv`) |
| `RollingBatchesProofs!Success` | `Spec => []SuccessMeansLanded` | `BookInv` (what is marked, queued and forgotten), and `VowInv` ∧ `ToldTruly`. The difficulty is a commitment that is *replaced* while its owner has already accepted a template: old commitments are read again after the conversation was cleared or the coordinator restarted. `Superseded` says that any other commitment to the batch is followed, on the homeserver and in what was fetched, by one to the present plan; so the batch holds the present plan already (`Fixed`), or will before anything is built (`Pending`) |

### Amounts

| Theorem | Statement | Argument |
|---|---|---|
| `AssemblyProofs!Fair` | `Spec => []SharesFair` | `AmountsInv` (what reveals, shares and template are at each stage) and `SharesSum`: the remainder makes up for what truncation took from the others, at most a sat each |
| `AssemblyProofs!Covered` | `Spec => []FeesCovered` | `OutputsSum`: the outputs counted by copies pay what the participants pay one by one, an exchange of two sums; then inputs less outputs is at least each one's share, and more by dust or a missing change address only |
| `AssemblyProofs!Builds` | `Spec => []ValidatedBuilds` | `ShareBelow`: a share exceeds the estimate by its part of overhead and reserved outputs at most; and if the total is too small, then somebody's margin is below its share (`SumAtMost`) |
| `AssemblyProofs!Refused` | `Spec => []RefusedOnlyForDust` | `AssembledFacts`: validation leaves a margin above dust, a share is positive and within the margin; so the least output at the change address is in the range that `verify_template` accepts, if there is one |
| `AssemblyProofs!Final` | `Spec => []FinalSigned` | `SignedInv`: a fragment holds its sender's signatures for the coins of the transaction it is for whose keys are in its wallet, and its sender has verified that transaction; what is merged is for the template; a key is in one wallet at most (`WalletAssumption`), so no coin gets two signatures |

Sums over all participants are sums over a finite set (`SumFunctionOnSet`), which the library defines by recursion over a `CHOOSE`. `SumProofs`
proves that this recursion has a solution and that the order of its choices does not matter, and from there the usual laws: bounds, linearity, exchange, grouping.
It needs no induction theorem with an operator for a parameter: the subsets of a finite set are well-founded
under strict inclusion, so a set of subsets that fails to contain the whole has a smallest one that is missing (`SubsetInduction`, `FiniteInduction`).

### Assumptions, and what is shared

The assumptions are those stated as `ASSUME` in the modules. Most say that a model value is none of the others (`NoPlan`,
`Nobody`, `NoIntent`), that the limits are positive, and that there is a first intent (`SomeIntent`). In `Assembly` the
participants are finite in number (`FinitelyMany`), whatever they propose is a reveal with at least one input (`ProposalAssumption`), and the key of a coin is in one wallet at most
(`WalletAssumption`); which wallet, and whether it is the one of who reveals the coin, is open. `Wider` and `Malformed` are any relation and any subset
of the plans (`PlanAssumption`).
Participants, plans, limits, faults, retries, restarts, fee rates and amounts are arbitrary.

`ParticipantProofs` and `CoordinatorPeersProofs` hold the lemmas of both coordinators: what
posting, fetching, erasing and forgetting do to a half, that the first match of a fetch is a message
of it, what each step of a participant preserves, and what the operators shared by both coordinators preserve. `ClaimsTrue`, `PromisesKept` and the
lemmas about them are stated for whatever coordinator only listens (`Listens`), so that they serve both.

### Model-checked only

- The liveness properties `EverybodyStops`, `BatchLands`, `MarkedCompletes` and `AttendedLands`: fairness and `ENABLED` are out of the prover's reach.
- `WaitingUnpunished`, an action property: like `NobodyPunished` it depends on deadlines that fire only when nothing is on its way (`AtRest`),
  but with batches that repeat and a coordinator that clears conversations in between. This is planned (section 8).

## 6. Where code and comments disagree

1. `ban_permanent`: `add_temporary_ban` overwrites a permanent ban. Within one batch, a
   reveal that does not open its commitment is banned for good, and the reveal timeout then records
   `FailedToReveal` for the same participant: six hours.
2. `ban_escalation`: `add_temporary_ban` stores `offense_count: 1` over the count just raised,
   so from the second offense on every ban lasts six hours.
3. `final_tx_erased`: the coordinator deletes `FinalTx` right after sending it. A
   participant that polls every half second may find nothing and report a timeout, although the transaction landed.
4. `rolling_reprocessed`: when a batch fails, `clear_messages_with_peer` also forgets which messages of the peer were
   processed, so the next poll reads the old commitment once more. `add_commitment` takes it into the completed batch, `update_status`
   makes that batch ready, and it is processed again, although two comments say it is marked completed "to avoid
   reprocessing". A participant that answers the first request late is read by the main loop, which drops its reveal; the second round waits
   for it in vain, and bans its sender, who still waits for the template, for failing to reveal.
5. `assembly_dust`: `participant.rs:1043` says of change that is not in the template "This is OK if change amount would be below
   dust". The check below it compares inputs less payments with the dust limit (`participant.rs:1044-1045`), while the assembler leaves change out
   after subtracting the fee share (`assembler.rs:317`). Where the share has made the change dust, the honest participant turns the honest template down.

One more comment does not hold. `assembler.rs:126-127` calls the estimate of `validate_reveal` conservative: "actual fee will be
lower when split among multiple participants". The estimate leaves out the overhead of the transaction and the change outputs
reserved for participants without change, so the share is *higher* (`ValidatedBuilds` bounds by how much), and one
participant whose funds lie in between fails the batch of everybody.

## 7. Not modelled, and why

- Acks: nobody reads them. The initial broadcast of `CurrentIntent`: a participant discards what precedes its query.
- `clear_all_messages` at the coordinator's start: no peer is known yet, so it does nothing.
- The participant's option `--intent-id`, which skips the query.
- Its own entry points: argument parsing and a builder around `run`, with no state.
- `add_reveal` keeps a copy of each reveal in the batch; nobody reads it.
- Messages name their sender's key in a field of their own (`participant_pkarr`); it is taken to be the sender.
- In `RollingBatches` equal contents are one transaction, although the shares may be rounded differently when a batch is assembled again: `Assembly` tells the two apart.
- Overflow of amounts: they are integers without a bound. Networks, descriptors, address formats and the order of inputs and outputs.
- A participant that fails both the validation and the lookup is rejected twice by the code, once by the model: the second Reject meets a participant that has already stopped.
- Failures of the wallet and of the Electrum connection: they end the process, as `crash` does.
- The `Minor` severity, which no offense has.
- A reveal timeout that cancels `record_offense` halfway is modelled in `BanManager` (`Abandon`, `StrayOpen`, `StrayWrite`, `StrayFails`) only, with one such write outstanding at a time.
- Scripts, witnesses, keys, base64, JSON, logging, command lines.

## 8. Plan

What is left:

1. `WaitingUnpunished` of `RollingBatches`, with the lemmas that `Blameless` rests on: the invariant `FairInv` stated for the batch in process.
2. A common abstract specification of many batches, each a `BatchAgreement`, that `RollingBatches` implements.
