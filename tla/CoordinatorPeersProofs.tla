------------------------ MODULE CoordinatorPeersProofs ------------------------
(***************************************************************************)
(* Lemmas about CoordinatorPeers, for either coordinator: what its parts   *)
(* of a step keep typed, and that a signature fragment which says it is    *)
(* complete has been signed, for the transaction it names.                 *)
(***************************************************************************)
EXTENDS CoordinatorPeers, ParticipantProofs, BanPolicyProofs

\* The types alone do not survive a step: a participant must also have what its
\* next message needs.
PeersInv == PeersTypeOK /\ (\A p \in Participants : Prepared(p))

peers == <<reveals, template, fragments, bans, known, inbox, reading>>

------------------------------------------------------------------------------
(* The parts of a coordinator's step.                                        *)

LEMMA SendAllTyped ==
    ASSUME PeersTypeOK, NEW S, NEW m \in Incoming, SendAll(S, m)
    PROVE  /\ toPart' \in [Participants -> Halves(Incoming)]
           /\ \A p \in Participants :
                Items(toPart'[p].sent) \subseteq Items(toPart[p].sent) \cup {m}
  <1>1. toPart \in [Participants -> Halves(Incoming)]
    BY DEF PeersTypeOK, ParticipantTypeOK
  <1>2. \A p \in Participants :
            /\ Post(toPart[p], m) \in Halves(Incoming)
            /\ Items(Post(toPart[p], m).sent) = Items(toPart[p].sent) \cup {m}
    BY <1>1, PostAdds
  <1>3. PICK delivered \in SUBSET S :
            toPart' = [p \in Participants |->
                        IF p \in delivered THEN Post(toPart[p], m) ELSE toPart[p]]
    BY DEF SendAll
  <1> QED
    BY <1>1, <1>2, <1>3

LEMMA SentencedTyped ==
    ASSUME PeersTypeOK, NEW p \in Participants, NEW offense \in Offenses
    PROVE  Sentenced(p, offense) \in BanEntries
  <1>1. OffenseCount(bans[p]) \in Nat \ {0}
    BY CountedTyped DEF PeersTypeOK
  <1> QED
    BY <1>1, SentenceBans DEF Sentenced, Recorded

LEMMA PunishTyped ==
    ASSUME PeersTypeOK, NEW S, NEW offense \in Offenses, Punish(S, offense)
    PROVE  bans' \in [Participants -> BanEntries] /\ known' \in SUBSET Participants
  <1>1. bans' \in [Participants -> BanEntries]
    BY SentencedTyped DEF Punish, PeersTypeOK
  <1>2. known' \in SUBSET Participants
    BY DEF Punish, PeersTypeOK
  <1> QED
    BY <1>1, <1>2

LEMMA CurrentTyped ==
    ASSUME PeersTypeOK, NEW p \in Participants, Offered(p)
    PROVE  Current(p) \in Outgoing /\ Current(p) \in Items(inbox[p])
  <1>1. inbox[p] \in Seq(Outgoing) /\ inbox[p] # <<>>
    BY DEF PeersTypeOK, Offered
  <1> QED
    BY <1>1, HeadIsItem DEF Current

LEMMA EmptyInboxTyped ==
    /\ EmptyInbox \in [Participants -> Seq(Outgoing)]
    /\ \A p \in Participants : Items(EmptyInbox[p]) = {}
  BY EmptySeq, ItemsEmpty DEF EmptyInbox

LEMMA TakeTyped ==
    ASSUME PeersTypeOK, NEW p \in Participants, Offered(p), Take(p) \/ DropInbox
    PROVE  /\ inbox' \in [Participants -> Seq(Outgoing)]
           /\ reading' \in Participants \cup {Nobody}
           /\ \A q \in Participants : Items(inbox'[q]) \subseteq Items(inbox[q])
  <1>1. CASE Take(p)
    <2>1. inbox[p] \in Seq(Outgoing) /\ inbox[p] # <<>>
      BY DEF PeersTypeOK, Offered
    <2>2. Tail(inbox[p]) \in Seq(Outgoing) /\ Items(Tail(inbox[p])) \subseteq Items(inbox[p])
      BY <2>1, TailItems
    <2> QED
      BY <1>1, <2>2 DEF Take, PeersTypeOK
  <1>2. CASE DropInbox
    BY <1>2, EmptyInboxTyped DEF DropInbox
  <1> QED
    BY <1>1, <1>2

LEMMA PollTyped ==
    ASSUME PeersTypeOK, Poll
    PROVE  /\ inbox' \in [Participants -> Seq(Outgoing)]
           /\ toCoord' \in [Participants -> Halves(Outgoing)]
           /\ \A p \in Participants :
                /\ Items(inbox'[p]) \subseteq Items(toCoord[p].sent)
                /\ Items(toCoord'[p].sent) = Items(toCoord[p].sent)
  <1>1. toCoord \in [Participants -> Halves(Outgoing)]
    BY DEF PeersTypeOK, ParticipantTypeOK
  <1>2. \A p \in Participants :
            /\ Unread(toCoord[p]) \in Seq(Outgoing)
            /\ Items(Unread(toCoord[p])) \subseteq Items(toCoord[p].sent)
            /\ Fetched(toCoord[p]) \in Halves(Outgoing)
            /\ Items(Fetched(toCoord[p]).sent) = Items(toCoord[p].sent)
    BY <1>1, UnreadItems, NothingPosted
  <1>3. PICK reached \in SUBSET known :
            /\ inbox' = [p \in Participants |->
                            IF p \in reached THEN Unread(toCoord[p]) ELSE <<>>]
            /\ toCoord' = [p \in Participants |->
                            IF p \in reached THEN Fetched(toCoord[p])
                                             ELSE toCoord[p]]
    BY DEF Poll
  <1>4. <<>> \in Seq(Outgoing) /\ Items(<<>>) = {}
    BY EmptySeq, ItemsEmpty
  <1> QED
    BY <1>1, <1>2, <1>3, <1>4

LEMMA ClearTyped ==
    ASSUME PeersTypeOK, NEW S, Clear(S)
    PROVE  /\ toPart' \in [Participants -> Halves(Incoming)]
           /\ toCoord' \in [Participants -> Halves(Outgoing)]
           /\ \A p \in Participants :
                /\ Items(toPart'[p].sent) \subseteq Items(toPart[p].sent)
                /\ Items(toCoord'[p].sent) = Items(toCoord[p].sent)
  <1>1. /\ toPart \in [Participants -> Halves(Incoming)]
        /\ toCoord \in [Participants -> Halves(Outgoing)]
    BY DEF PeersTypeOK, ParticipantTypeOK
  <1>2. \A p \in Participants :
            /\ Erased(toPart[p]) \in Halves(Incoming)
            /\ Items(Erased(toPart[p]).sent) = {}
            /\ Forgotten(toCoord[p]) \in Halves(Outgoing)
            /\ Items(Forgotten(toCoord[p]).sent) = Items(toCoord[p].sent)
    BY <1>1, NothingPosted
  <1>3. PICK cleared \in SUBSET S :
            /\ toPart' = [p \in Participants |->
                            IF p \in cleared THEN Erased(toPart[p]) ELSE toPart[p]]
            /\ toCoord' = [p \in Participants |->
                            IF p \in cleared THEN Forgotten(toCoord[p])
                                             ELSE toCoord[p]]
    BY DEF Clear
  <1> QED
    BY <1>1, <1>2, <1>3

LEMMA KeepRevealTyped ==
    ASSUME PeersTypeOK, NEW p \in Participants, Offered(p),
           Current(p).type = "Reveal", KeepReveal(p)
    PROVE  /\ reveals' \in Contents
           /\ reveals'[p] \in {reveals[p], Current(p).plan}
           /\ \A q \in Participants \ {p} : reveals'[q] = reveals[q]
  <1>1. Current(p).plan \in Plans
    BY CurrentTyped, OutgoingPlan
  <1> QED
    BY <1>1 DEF KeepReveal, PeersTypeOK, Contents

LEMMA KeepFragmentTyped ==
    ASSUME PeersTypeOK, NEW p \in Participants, KeepFragment(p)
    PROVE  /\ fragments' \in [Participants -> {"none", "partial", "full", "foreign"}]
           /\ \A q \in Participants \ {p} : fragments'[q] = fragments[q]
           /\ fragments'[p] = "full" =>
                Current(p).contents = template /\ Current(p).complete
  BY DEF KeepFragment, PeersTypeOK

LEMMA RemoveInvalidTyped ==
    ASSUME PeersTypeOK, NEW verdict, NEW i \in Intents, RemoveInvalid(verdict, i)
    PROVE  /\ reveals' \in Contents
           /\ \A p \in Participants : reveals'[p] \in {reveals[p], NoPlan}
           /\ toPart' \in [Participants -> Halves(Incoming)]
  <1>1. Reject(i) \in Incoming
    BY IncomingTyped
  <1>2. toPart' \in [Participants -> Halves(Incoming)]
    BY <1>1, SendAllTyped DEF RemoveInvalid
  <1> QED
    BY <1>2 DEF RemoveInvalid, PeersTypeOK, Contents

LEMMA ProposeTyped ==
    ASSUME PeersTypeOK, NEW i \in Intents, Propose(i)
    PROVE  template' = reveals /\ toPart' \in [Participants -> Halves(Incoming)]
  <1>1. Template(i, reveals) \in Incoming
    BY IncomingTyped DEF PeersTypeOK
  <1> QED
    BY <1>1, SendAllTyped DEF Propose

LEMMA PeersStart ==
    ASSUME PeersInit, bans \in [Participants -> BanEntries]
    PROVE  PeersInv
  <1>1. ParticipantInv
    BY InitPrepared DEF PeersInit
  <1>2. NoContents \in Contents
    BY DEF NoContents, Contents
  <1> QED
    BY <1>1, <1>2, EmptyInboxTyped
    DEF PeersInit, PeersInv, ParticipantInv, PeersTypeOK, NoFragments

------------------------------------------------------------------------------
(* Signature fragments.                                                      *)

\* A message that claims all signatures of its sender.
Claims(m) == m.type = "SigFragment" /\ m.complete

\* What is claimed has been signed, for that batch and that transaction.
ClaimsTrue ==
    \A p \in Participants : \A m \in Items(toCoord[p].sent) \cup Items(inbox[p]) :
        Claims(m) => <<m.intent, m.contents>> \in signed[p]

\* The coordinator puts no message into a participant's mouth.
Listens ==
    /\ UNCHANGED <<ppc, plan, joined, attempts, runs, signed>>
    /\ \A p \in Participants :
        /\ Items(toCoord'[p].sent) \subseteq Items(toCoord[p].sent)
        /\ Items(inbox'[p]) \subseteq Items(inbox[p]) \cup Items(toCoord[p].sent)

LEMMA ClaimsStart == PeersInit => ClaimsTrue
  BY EmptyHalfTyped, EmptyInboxTyped DEF PeersInit, ParticipantInit, ClaimsTrue

LEMMA ListeningKeepsClaims ==
    ASSUME ClaimsTrue, Listens
    PROVE  ClaimsTrue'
  BY DEF ClaimsTrue, Listens

\* The steps of a participant, whoever it talks to.
ParticipantMoves(p) == PStep(p) \/ PGiveUp(p) \/ PLaunch(p) \/ PCrash(p)

\* A signature is never taken back, and a complete fragment is sent only by who
\* has just signed what it names.
LEMMA ParticipantKeepsClaims ==
    ASSUME PeersInv, ClaimsTrue, NEW p \in Participants, ParticipantMoves(p),
           UNCHANGED inbox
    PROVE  ClaimsTrue' /\ (\A q \in Participants : signed[q] \subseteq signed'[q])
  <1>1. ParticipantInv
    BY DEF PeersInv, PeersTypeOK, ParticipantInv
  <1>2. ASSUME UNCHANGED signed,
               \A q \in Participants : \A m \in Items(toCoord'[q].sent) :
                    m \in Items(toCoord[q].sent) \/ ~Claims(m)
        PROVE  ClaimsTrue' /\ (\A q \in Participants : signed[q] \subseteq signed'[q])
    BY <1>2 DEF ClaimsTrue
  <1>3. CASE PSign(p)
    <2>1. PICK t \in Items(toPart[p].sent), complete \in BOOLEAN :
            /\ signed' = IF complete
                         THEN [signed EXCEPT ![p] = @ \cup {<<joined[p], t.contents>>}]
                         ELSE signed
            /\ Items(toCoord'[p].sent) \subseteq Items(toCoord[p].sent)
                    \cup {SigFragment(joined[p], t.contents, complete)}
      BY <1>1, <1>3, SignStep
    <2>2. \A q \in Participants : signed[q] \subseteq signed'[q]
      BY <1>1, <1>3, SignStep
    <2>3. \A q \in Participants \ {p} : toCoord'[q] = toCoord[q]
      BY <1>1, <1>3, SignStep
    <2>4. Claims(SigFragment(joined[p], t.contents, complete)) =>
            /\ SigFragment(joined[p], t.contents, complete).intent = joined[p]
            /\ SigFragment(joined[p], t.contents, complete).contents = t.contents
            /\ <<joined[p], t.contents>> \in signed'[p]
      BY <1>1, <2>1
      DEF Claims, SigFragment, ParticipantInv, ParticipantTypeOK
    <2> QED
      BY <2>1, <2>2, <2>3, <2>4 DEF ClaimsTrue
  <1>4. CASE PQuery(p)
    <2>1. ~Claims(Query)
      BY DEF Claims, Query
    <2> QED
      BY <1>1, <1>2, <1>4, <2>1, QueryStep DEF PQuery
  <1>5. CASE PCommit(p)
    <2>1. \A x \in Plans : ~Claims(Commitment(joined[p], x))
      BY DEF Claims, Commitment
    <2> QED
      BY <1>1, <1>2, <1>5, <2>1, CommitStep
  <1>6. CASE PReveal(p)
    <2>1. ~Claims(Reveal(joined[p], plan[p]))
      BY DEF Claims, Reveal
    <2> QED
      BY <1>1, <1>2, <1>6, <2>1, RevealStep
  <1>7. CASE PLaunch(p) \/ PFinal(p)
    BY <1>1, <1>2, <1>7, LaunchStep, FinalStep
  <1>8. CASE \/ PCrash(p) \/ PSkip(p) \/ PGiveUp(p) \/ PIntent(p) \/ PRejected(p)
             \/ PRefuse(p)
    BY <1>1, <1>2, <1>8, SilentStep
  <1> QED
    BY <1>3, <1>4, <1>5, <1>6, <1>7, <1>8 DEF ParticipantMoves, PStep

LEMMA ParticipantKeepsPeers ==
    ASSUME PeersInv, NEW p \in Participants, ParticipantMoves(p), UNCHANGED peers
    PROVE  PeersInv'
  <1>1. ParticipantInv
    BY DEF PeersInv, PeersTypeOK, ParticipantInv
  <1>2. ParticipantInv'
    BY <1>1, QueryStep, SilentStep, LaunchStep, CommitStep, RevealStep, SignStep, FinalStep
    DEF ParticipantMoves, PStep
  <1> QED
    BY <1>2 DEF PeersInv, PeersTypeOK, ParticipantInv, peers

\* A fragment that is kept as complete was claimed by its sender.
LEMMA KeptFragmentSigned ==
    ASSUME PeersTypeOK, ClaimsTrue, NEW p \in Participants, Offered(p),
           Current(p).type = "SigFragment", KeepFragment(p), fragments'[p] = "full"
    PROVE  <<Current(p).intent, template>> \in signed[p]
  BY CurrentTyped, KeepFragmentTyped DEF ClaimsTrue, Claims

------------------------------------------------------------------------------
(* Promises.                                                                 *)

\* A message that says what its sender wants to pay.
Promises(m) == m.type \in {"Commitment", "Reveal"}

\* Where a participant that was just started has not made up its mind yet.
Undecided == {"off", "query", "awaitIntent", "commit"}

\* p was started, and if it was never started again it still stands by x in i.
Bound(p, i, x) ==
    /\ runs[p] # 0
    /\ runs[p] = 1 => ppc[p] \notin Undecided /\ joined[p] = i /\ plan[p] = x

Promised(p, i, x) == PassesLocally(p, x) /\ Bound(p, i, x)

PromisesKept ==
    \A p \in Participants :
        /\ runs[p] = 0 => ppc[p] = "off"
        /\ ppc[p] \in {"awaitRequest", "awaitTemplate", "awaitFinal"} =>
            PassesLocally(p, plan[p])
        /\ \A m \in Items(toCoord[p].sent) \cup Items(inbox[p]) :
            Promises(m) => Promised(p, m.intent, m.plan)

LEMMA PromisesStart == PeersInit => PromisesKept
  BY EmptyHalfTyped, EmptyInboxTyped DEF PeersInit, ParticipantInit, PromisesKept

LEMMA ListeningKeepsPromises ==
    ASSUME PromisesKept, Listens
    PROVE  /\ PromisesKept'
           /\ \A p \in Participants : \A i, x : Promised(p, i, x) => Promised(p, i, x)'
  BY DEF PromisesKept, Listens, Promised, Bound, PassesLocally

\* Nobody is started less often than it was, and only some are started again.
LEMMA RunsGrow ==
    ASSUME PeersInv, NEW p \in Participants, ParticipantMoves(p)
    PROVE  \A q \in Participants :
            /\ runs[q] \in Nat
            /\ runs'[q] \in {runs[q], runs[q] + 1}
            /\ runs'[q] # runs[q] => runs[q] = 0 \/ q \in Returning
  <1>1. runs \in [Participants -> Nat]
    BY RetryAssumption DEF PeersInv, PeersTypeOK, ParticipantTypeOK
  <1>2. \/ UNCHANGED runs
        \/ runs' = [runs EXCEPT ![p] = @ + 1] /\ (runs[p] = 0 \/ p \in Returning)
    BY DEF ParticipantMoves, PStep, PLaunch, PCrash, PQuery, PSkip, PGiveUp, PIntent,
           PCommit, PReveal, PRejected, PSign, PRefuse, PFinal
  <1> QED
    BY <1>1, <1>2

\* What a participant has promised binds it until it is started again.
LEMMA ParticipantKeepsBound ==
    ASSUME PeersInv, NEW p \in Participants, ParticipantMoves(p)
    PROVE  \A q \in Participants : \A i, x : Promised(q, i, x) => Promised(q, i, x)'
  <1> SUFFICES ASSUME NEW q \in Participants, NEW i, NEW x, Bound(q, i, x)
               PROVE  Bound(q, i, x)'
    BY DEF Promised, PassesLocally
  <1> USE DEF PeersInv, PeersTypeOK, ParticipantTypeOK, Bound, Undecided, Goto
  <1>1. CASE PLaunch(p)
    <2>1. runs[q] \in Nat
      BY RetryAssumption
    <2>2. runs'[q] = IF q = p THEN runs[p] + 1 ELSE runs[q]
      BY <1>1 DEF PLaunch
    <2>3. q # p => ppc'[q] = ppc[q] /\ joined'[q] = joined[q] /\ plan'[q] = plan[q]
      BY <1>1 DEF PLaunch
    <2> QED
      BY <2>1, <2>2, <2>3
  <1>2. CASE PQuery(p) \/ PIntent(p) \/ PCommit(p)
    <2>1. ppc[p] \in Undecided /\ UNCHANGED runs
      BY <1>2 DEF PQuery, PIntent, PCommit, Hears
    <2>2. q # p => ppc'[q] = ppc[q] /\ joined'[q] = joined[q] /\ plan'[q] = plan[q]
      BY <1>2 DEF PQuery, PIntent, PCommit, RetryOrFail, SendThen
    <2> QED
      BY <2>1, <2>2
  <1>3. CASE PGiveUp(p)
    <2>1. UNCHANGED <<runs, joined, plan>>
      BY <1>3 DEF PGiveUp
    <2>2. ppc'[q] = ppc[q] \/ ppc[q] = "awaitIntent" \/ ppc'[q] = "err"
      BY <1>3 DEF PGiveUp, RetryOrFail
    <2> QED
      BY <2>1, <2>2
  <1>4. CASE \/ PCrash(p) \/ PSkip(p) \/ PReveal(p) \/ PRejected(p) \/ PSign(p)
             \/ PRefuse(p) \/ PFinal(p)
    <2>1. UNCHANGED <<runs, joined, plan>>
      BY <1>4 DEF PCrash, PSkip, PReveal, PRejected, PSign, PRefuse, PFinal
    <2>2. ppc'[q] \in {ppc[q], "err", "awaitTemplate", "left", "awaitFinal", "ok"}
      BY <1>4 DEF PCrash, PSkip, PReveal, PRejected, PSign, PRefuse, PFinal, SendThen
    <2> QED
      BY <2>1, <2>2
  <1> QED
    BY <1>1, <1>2, <1>3, <1>4 DEF ParticipantMoves, PStep

\* A commitment and a reveal are only sent of a plan that passes, by somebody who
\* then stands by it.
LEMMA ParticipantKeepsPromises ==
    ASSUME PeersInv, PromisesKept, NEW p \in Participants, ParticipantMoves(p),
           UNCHANGED inbox
    PROVE  PromisesKept'
  <1>1. ParticipantInv
    BY DEF PeersInv, PeersTypeOK, ParticipantInv
  <1>2. \A q \in Participants : \A i, x : Promised(q, i, x) => Promised(q, i, x)'
    BY ParticipantKeepsBound
  <1>3. ASSUME NEW m,
                \A q \in Participants \ {p} : toCoord'[q] = toCoord[q],
                Items(toCoord'[p].sent) \subseteq Items(toCoord[p].sent) \cup {m},
                Promises(m) => Promised(p, m.intent, m.plan)'
         PROVE  \A q \in Participants :
                \A n \in Items(toCoord'[q].sent) \cup Items(inbox'[q]) :
                    Promises(n) => Promised(q, n.intent, n.plan)'
    <2> SUFFICES ASSUME NEW q \in Participants,
                        NEW n \in Items(toCoord'[q].sent) \cup Items(inbox'[q]),
                        Promises(n)
                 PROVE  Promised(q, n.intent, n.plan)'
      OBVIOUS
    <2>1. CASE n \in Items(toCoord[q].sent) \cup Items(inbox[q])
      BY <1>2, <2>1 DEF PromisesKept
    <2>2. CASE n \notin Items(toCoord[q].sent) \cup Items(inbox[q])
      <3>1. q = p /\ n = m
        BY <1>3, <2>2
      <3> QED
        BY <1>3, <3>1
    <2> QED
      BY <2>1, <2>2
  <1> USE DEF PeersInv, PeersTypeOK, ParticipantTypeOK
  <1>4. ASSUME \A q \in Participants : Items(toCoord'[q].sent) \subseteq Items(toCoord[q].sent)
        PROVE  \A q \in Participants :
                \A n \in Items(toCoord'[q].sent) \cup Items(inbox'[q]) :
                    Promises(n) => Promised(q, n.intent, n.plan)'
    BY <1>2, <1>4 DEF PromisesKept
  <1>5. CASE PCommit(p)
    <2>1. PICK x \in Plans :
            /\ plan' = [plan EXCEPT ![p] = x]
            /\ IF PassesLocally(p, x)
               THEN SendThen(p, Commitment(joined[p], x), "awaitRequest")
               ELSE Goto(p, "err") /\ UNCHANGED toCoord
      BY <1>5 DEF PCommit
    <2>2. ppc[p] = "commit" /\ UNCHANGED <<joined, runs>> /\ joined[p] \in Intents
      BY <1>1, <1>5 DEF PCommit, ParticipantInv, Prepared
    <2>3. \A q \in Participants \ {p} : ppc'[q] = ppc[q] /\ plan'[q] = plan[q]
                                            /\ toCoord'[q] = toCoord[q]
      BY <2>1 DEF SendThen, Goto
    <2>4. CASE PassesLocally(p, x)
      <3>1. /\ ppc'[p] \in {"awaitRequest", "err"} /\ plan'[p] = x
            /\ Items(toCoord'[p].sent)
                    \subseteq Items(toCoord[p].sent) \cup {Commitment(joined[p], x)}
        BY <1>1, <2>1, <2>2, <2>4, OutgoingTyped, SendTyped, AwaitedStages
      <3>2. LET m == Commitment(joined[p], x)
            IN  Promised(p, m.intent, m.plan)'
        BY <2>2, <2>4, <3>1
        DEF PromisesKept, Promised, Bound, Undecided, PassesLocally, Commitment
      <3> QED
        BY <1>3, <2>2, <2>3, <2>4, <3>1, <3>2 DEF PromisesKept, PassesLocally
    <2>5. CASE ~PassesLocally(p, x)
      BY <1>4, <2>1, <2>2, <2>3, <2>5 DEF PromisesKept, Goto, PassesLocally
    <2> QED
      BY <2>4, <2>5
  <1>6. CASE PReveal(p)
    <2>1. /\ ppc[p] = "awaitRequest" /\ UNCHANGED <<joined, plan, runs>>
          /\ joined[p] \in Intents /\ plan[p] \in Plans
      BY <1>1, <1>6 DEF PReveal, Hears, ParticipantInv, Prepared
    <2>2. /\ ppc' = [ppc EXCEPT ![p] = ppc'[p]] /\ ppc'[p] \in {"awaitTemplate", "err"}
          /\ \A q \in Participants \ {p} : toCoord'[q] = toCoord[q]
      <3>1. CASE SendThen(p, Reveal(joined[p], plan[p]), "awaitTemplate")
        BY <3>1 DEF SendThen, Goto
      <3>2. CASE Goto(p, "err") /\ UNCHANGED toCoord
        BY <3>2 DEF Goto
      <3> QED
        BY <1>6, <3>1, <3>2 DEF PReveal
    <2>3. PICK m : /\ m = Reveal(joined[p], plan[p])
                   /\ Items(toCoord'[p].sent) \subseteq Items(toCoord[p].sent) \cup {m}
      BY <1>1, <1>6, RevealStep
    <2>4. Promised(p, m.intent, m.plan)'
      BY <2>1, <2>2, <2>3
      DEF PromisesKept, Promised, Bound, Undecided, PassesLocally, Reveal
    <2>5. \A q \in Participants : \A n \in Items(toCoord'[q].sent) \cup Items(inbox'[q]) :
                Promises(n) => Promised(q, n.intent, n.plan)'
      BY <1>3, <2>2, <2>3, <2>4
    <2>6. \A q \in Participants :
            ppc'[q] = ppc[q] \/ (ppc[q] = "awaitRequest" /\ ppc'[q] \in {"awaitTemplate", "err"})
      BY <2>1, <2>2
    <2> QED
      BY <2>1, <2>5, <2>6 DEF PromisesKept, PassesLocally
  <1>7. CASE PSign(p)
    <2>1. /\ ppc[p] = "awaitTemplate" /\ UNCHANGED <<plan, runs>>
          /\ ppc' = [ppc EXCEPT ![p] = ppc'[p]]
      BY <1>7 DEF PSign, Hears, SendThen, Goto
    <2>2. PICK i, t, c :
            Items(toCoord'[p].sent)
                \subseteq Items(toCoord[p].sent) \cup {SigFragment(i, t, c)}
      BY <1>1, <1>7, SignStep
    <2>3. ~Promises(SigFragment(i, t, c))
      BY DEF Promises, SigFragment
    <2>4. \A q \in Participants \ {p} : toCoord'[q] = toCoord[q]
      BY <1>1, <1>7, SignStep
    <2>5. \A q \in Participants : \A n \in Items(toCoord'[q].sent) \cup Items(inbox'[q]) :
                Promises(n) => Promised(q, n.intent, n.plan)'
      BY <1>3, <2>2, <2>3, <2>4
    <2>6. \A q \in Participants : ppc'[q] = ppc[q] \/ ppc[q] = "awaitTemplate"
      BY <2>1
    <2> QED
      BY <2>1, <2>5, <2>6 DEF PromisesKept, PassesLocally
  <1>8. CASE PLaunch(p)
    <2>1. \A q \in Participants : Items(toCoord'[q].sent) \subseteq Items(toCoord[q].sent)
      BY <1>1, <1>8, LaunchStep
    <2>2. runs'[p] # 0 /\ ppc'[p] = "query"
      BY <1>8, RetryAssumption DEF PLaunch, Goto
    <2>3. \A q \in Participants \ {p} :
            ppc'[q] = ppc[q] /\ plan'[q] = plan[q] /\ runs'[q] = runs[q]
      BY <1>8 DEF PLaunch, Goto
    <2> QED
      BY <1>4, <2>1, <2>2, <2>3 DEF PromisesKept, PassesLocally
  <1>9. CASE PQuery(p)
    <2>1. /\ ppc[p] = "query" /\ UNCHANGED <<plan, runs>>
          /\ ppc' = [ppc EXCEPT ![p] = ppc'[p]]
          /\ ppc'[p] \in {"query", "awaitIntent", "err"}
          /\ \A q \in Participants \ {p} : toCoord'[q] = toCoord[q]
      BY <1>9 DEF PQuery, RetryOrFail, Goto
    <2>2. ~Promises(Query)
      BY DEF Promises, Query
    <2>3. Items(toCoord'[p].sent) \subseteq Items(toCoord[p].sent) \cup {Query}
      BY <1>1, <1>9, QueryStep
    <2>4. \A q \in Participants : \A n \in Items(toCoord'[q].sent) \cup Items(inbox'[q]) :
                Promises(n) => Promised(q, n.intent, n.plan)'
      BY <1>3, <2>1, <2>2, <2>3
    <2>5. \A q \in Participants : ppc'[q] # "off" => ppc[q] # "off"
      BY <2>1
    <2> QED
      BY <2>1, <2>4, <2>5 DEF PromisesKept, PassesLocally
  <1>10. CASE \/ PCrash(p) \/ PSkip(p) \/ PGiveUp(p) \/ PIntent(p) \/ PRejected(p)
              \/ PRefuse(p) \/ PFinal(p)
    <2>1. \A q \in Participants : Items(toCoord'[q].sent) \subseteq Items(toCoord[q].sent)
      BY <1>1, <1>10, SilentStep, FinalStep
    <2>2. /\ UNCHANGED <<plan, runs>>
          /\ ppc' = [ppc EXCEPT ![p] = ppc'[p]]
          /\ ppc[p] # "off" /\ ppc'[p] \in {ppc[p], "query", "commit", "err", "ok"}
      BY <1>10, AwaitedStages
      DEF PCrash, PSkip, PGiveUp, PIntent, PRejected, PRefuse, PFinal, RetryOrFail, Goto,
          Hears, Waiting
    <2> QED
      BY <1>4, <2>1, <2>2 DEF PromisesKept, PassesLocally
  <1> QED
    BY <1>5, <1>6, <1>7, <1>8, <1>9, <1>10 DEF ParticipantMoves, PStep

\* A participant puts nothing into the coordinator's half.
LEMMA ParticipantOnlyReads ==
    ASSUME PeersInv, NEW p \in Participants, ParticipantMoves(p)
    PROVE  \A q \in Participants : Items(toPart'[q].sent) = Items(toPart[q].sent)
  <1>1. ParticipantInv
    BY DEF PeersInv, PeersTypeOK, ParticipantInv
  <1> QED
    BY <1>1, QueryStep, SilentStep, LaunchStep, CommitStep, RevealStep, SignStep, FinalStep
    DEF ParticipantMoves, PStep
------------------------------------------------------------------------------
(* What a participant has not looked at yet.                                 *)

\* Everyone but p stays as it is, and so do both of its halves.
Elsewhere(p) ==
    \A q \in Participants \ {p} :
        /\ ppc'[q] = ppc[q] /\ plan'[q] = plan[q] /\ joined'[q] = joined[q]
        /\ toCoord'[q] = toCoord[q] /\ toPart'[q] = toPart[q]

LEMMA OthersStay ==
    ASSUME PeersInv, NEW p \in Participants, ParticipantMoves(p)
    PROVE  Elsewhere(p)
  <1> USE DEF Elsewhere, Goto, PeersInv, PeersTypeOK, ParticipantTypeOK
  <1>1. CASE PLaunch(p) \/ PFinal(p)
    BY <1>1 DEF PLaunch, PFinal, EraseOwn
  <1>2. CASE PQuery(p) \/ PCommit(p)
    BY <1>2 DEF PQuery, PCommit, RetryOrFail, SendThen
  <1>3. CASE PReveal(p) \/ PSign(p)
    <2>1. UNCHANGED <<plan, joined>> /\ toPart' = [toPart EXCEPT ![p] = Fetched(@)]
      BY <1>3 DEF PReveal, PSign, Hears
    <2>2. \A q \in Participants \ {p} : ppc'[q] = ppc[q] /\ toCoord'[q] = toCoord[q]
      <3>1. CASE PReveal(p)
        BY <3>1 DEF PReveal, SendThen
      <3>2. CASE PSign(p)
        BY <3>2 DEF PSign, SendThen
      <3> QED
        BY <1>3, <3>1, <3>2
    <2> QED
      BY <2>1, <2>2
  <1>4. CASE \/ PCrash(p) \/ PSkip(p) \/ PGiveUp(p) \/ PIntent(p) \/ PRejected(p)
             \/ PRefuse(p)
    BY <1>4 DEF PCrash, PSkip, PGiveUp, PIntent, PRejected, PRefuse, RetryOrFail, Hears
  <1> QED
    BY <1>1, <1>2, <1>3, <1>4 DEF ParticipantMoves, PStep

LEMMA SendAllNews ==
    ASSUME PeersTypeOK, NEW S, NEW m \in Incoming, SendAll(S, m)
    PROVE  \A p \in Participants :
            /\ Items(News(p)') \subseteq Items(News(p)) \cup {m}
            /\ p \notin S => Items(News(p)') \subseteq Items(News(p))
  <1>1. toPart \in [Participants -> Halves(Incoming)]
    BY DEF PeersTypeOK, ParticipantTypeOK
  <1>2. \A p \in Participants :
            Items(Unread(Post(toPart[p], m))) \subseteq Items(Unread(toPart[p])) \cup {m}
    BY <1>1, UnreadPost
  <1>3. PICK delivered \in SUBSET S :
            toPart' = [p \in Participants |->
                        IF p \in delivered THEN Post(toPart[p], m) ELSE toPart[p]]
    BY DEF SendAll
  <1> QED
    BY <1>2, <1>3 DEF News

LEMMA ClearNews ==
    ASSUME PeersTypeOK, NEW S, Clear(S)
    PROVE  \A p \in Participants : Items(News(p)') \subseteq Items(News(p))
  <1>1. toPart \in [Participants -> Halves(Incoming)]
    BY DEF PeersTypeOK, ParticipantTypeOK
  <1>2. \A p \in Participants : Items(Unread(Erased(toPart[p]))) = {}
    BY <1>1, NothingUnread
  <1>3. PICK cleared \in SUBSET S :
            toPart' = [p \in Participants |->
                        IF p \in cleared THEN Erased(toPart[p]) ELSE toPart[p]]
    BY DEF Clear
  <1> QED
    BY <1>2, <1>3 DEF News

\* Who has just polled has nothing left to look at.
LEMMA HeardAll ==
    ASSUME PeersInv, NEW p \in Participants,
           toPart' = [toPart EXCEPT ![p] = Fetched(@)]
    PROVE  Items(News(p)') = {}
  <1>1. toPart \in [Participants -> Halves(Incoming)]
    BY DEF PeersInv, PeersTypeOK, ParticipantTypeOK
  <1>2. Items(Unread(Fetched(toPart[p]))) = {}
    BY <1>1, NothingUnread
  <1> QED
    BY <1>1, <1>2 DEF News

\* The coordinator cannot delete what a participant has sent.
LEMMA SentStays ==
    ASSUME PeersTypeOK,
           \/ Poll \/ (\E S : Clear(S)) \/ UNCHANGED toCoord
           \/ toCoord' = [p \in Participants |-> Forgotten(toCoord[p])]
    PROVE  \A p \in Participants : toCoord'[p].sent = toCoord[p].sent
  <1>1. toCoord \in [Participants -> Halves(Outgoing)]
    BY DEF PeersTypeOK, ParticipantTypeOK
  <1>2. \A p \in Participants :
            Fetched(toCoord[p]).sent = toCoord[p].sent
                /\ Forgotten(toCoord[p]).sent = toCoord[p].sent
    BY <1>1 DEF Fetched, Forgotten, Halves
  <1> QED
    BY <1>2 DEF Poll, Clear

------------------------------------------------------------------------------
(* What was sent and not read.                                              *)

\* Neither side ever reads beyond what it was sent.
WellRead ==
    \A p \in Participants : Within(toCoord[p]) /\ Within(toPart[p])

\* A half changes by one of the operations of Transport.
Moved(half, moved, M) ==
    \/ moved \in {half, Erased(half), Fetched(half), Forgotten(half)}
    \/ \E m \in M : moved = Post(half, m)

LEMMA MovesKeepRead ==
    ASSUME PeersTypeOK, WellRead,
           \A p \in Participants : /\ Moved(toCoord[p], toCoord'[p], Outgoing)
                                   /\ Moved(toPart[p], toPart'[p], Incoming)
    PROVE  WellRead'
  <1> SUFFICES ASSUME NEW p \in Participants
               PROVE  Within(toCoord'[p]) /\ Within(toPart'[p])
    BY DEF WellRead, Within
  <1>1. toCoord[p] \in Halves(Outgoing) /\ toPart[p] \in Halves(Incoming)
    BY DEF PeersTypeOK, ParticipantTypeOK
  <1>2. Within(toCoord[p]) /\ Within(toPart[p])
    BY DEF WellRead
  <1>3. Within(toCoord'[p])
    BY <1>1, <1>2, WithinKept DEF Moved
  <1>4. Within(toPart'[p])
    BY <1>1, <1>2, WithinKept DEF Moved
  <1> QED
    BY <1>3, <1>4

LEMMA ParticipantKeepsRead ==
    ASSUME PeersInv, WellRead, NEW p \in Participants, ParticipantMoves(p)
    PROVE  WellRead'
  <1>1. ParticipantInv
    BY DEF PeersInv, PeersTypeOK, ParticipantInv
  <1>2. ASSUME NEW m \in Outgoing, NEW stage, SendThen(p, m, stage)
        PROVE  Moved(toCoord[p], toCoord'[p], Outgoing)
    BY <1>2 DEF SendThen, Moved, PeersInv, PeersTypeOK, ParticipantTypeOK
  <1> USE DEF PeersInv, PeersTypeOK, ParticipantTypeOK
  <1>3. Moved(toPart[p], toPart'[p], Incoming)
    BY DEF ParticipantMoves, PStep, PLaunch, PCrash, PQuery, PSkip, PGiveUp, PIntent,
           PCommit, PReveal, PRejected, PSign, PRefuse, PFinal, Hears, Moved
  <1>4. Moved(toCoord[p], toCoord'[p], Outgoing)
    <2>1. CASE PLaunch(p) \/ PFinal(p)
      BY <2>1 DEF PLaunch, PFinal, EraseOwn, Moved
    <2>2. CASE PQuery(p)
      BY <2>2, OutgoingTyped DEF PQuery, Moved
    <2>3. CASE PCommit(p)
      <3>1. joined[p] \in Intents
        BY <2>3 DEF PCommit, Prepared
      <3> QED
        BY <1>2, <2>3, <3>1, OutgoingTyped DEF PCommit, Moved
    <2>4. CASE PReveal(p)
      <3>1. joined[p] \in Intents /\ plan[p] \in Plans
        BY <2>4 DEF PReveal, Hears, Prepared
      <3> QED
        BY <1>2, <2>4, <3>1, OutgoingTyped DEF PReveal, Moved
    <2>5. CASE PSign(p)
      <3>1. joined[p] \in Intents
        BY <2>5 DEF PSign, Hears, Prepared
      <3>2. Answer(p).contents \in Contents
        BY <2>5, AnswerHeard, IncomingContents DEF PSign, Hears
      <3>3. \A c \in {TRUE} \cup (IF May("partial") THEN {FALSE} ELSE {}) : c \in BOOLEAN
        OBVIOUS
      <3>4. PICK c \in BOOLEAN, stage \in {"left", "awaitFinal"} :
                SendThen(p, SigFragment(joined[p], Answer(p).contents, c), stage)
        BY <2>5, <3>3 DEF PSign
      <3>5. SigFragment(joined[p], Answer(p).contents, c) \in Outgoing
        BY <3>1, <3>2, OutgoingTyped
      <3> QED
        BY <1>2, <3>4, <3>5
    <2>6. CASE \/ PCrash(p) \/ PSkip(p) \/ PGiveUp(p) \/ PIntent(p) \/ PRejected(p)
               \/ PRefuse(p)
      BY <2>6 DEF PCrash, PSkip, PGiveUp, PIntent, PRejected, PRefuse, Moved
    <2> QED
      BY <2>1, <2>2, <2>3, <2>4, <2>5, <2>6 DEF ParticipantMoves, PStep
  <1>5. Elsewhere(p)
    BY OthersStay
  <1> QED
    BY <1>3, <1>4, <1>5, MovesKeepRead DEF Elsewhere, Moved

\* Without a fault whatever is sent arrives.
LEMMA SendAllDelivers ==
    ASSUME PeersTypeOK, WellRead, ~May("link"), NEW S \in SUBSET Participants,
           NEW m \in Incoming, SendAll(S, m)
    PROVE  /\ \A p \in S : m \in Items(News(p)')
           /\ \A p \in Participants \ S : toPart'[p] = toPart[p]
  <1>1. toPart' = [p \in Participants |-> IF p \in S THEN Post(toPart[p], m) ELSE toPart[p]]
    BY DEF SendAll
  <1>2. ASSUME NEW p \in S
        PROVE  m \in Items(Unread(Post(toPart[p], m)))
    BY PostUnread DEF PeersTypeOK, ParticipantTypeOK, WellRead
  <1> QED
    BY <1>1, <1>2 DEF News

LEMMA SendAllMoves ==
    ASSUME PeersTypeOK, NEW S, NEW m \in Incoming, SendAll(S, m)
    PROVE  \A p \in Participants : Moved(toPart[p], toPart'[p], Incoming)
  BY DEF SendAll, Moved

\* Taking a message takes only that one.
LEMMA TakesOne ==
    ASSUME PeersTypeOK, NEW p \in Participants, Offered(p), Take(p)
    PROVE  /\ \A q \in Participants \ {p} : inbox'[q] = inbox[q]
           /\ \A m \in Items(inbox[p]) : m = Current(p) \/ m \in Items(inbox'[p])
  <1>1. inbox[p] \in Seq(Outgoing) /\ inbox[p] # <<>>
    BY DEF PeersTypeOK, Offered
  <1>2. \A m \in Items(inbox[p]) : m = Current(p) \/ m \in Items(Tail(inbox[p]))
    BY <1>1, RestOfItems DEF Current
  <1> QED
    BY <1>2 DEF Take, PeersTypeOK
==============================================================================
