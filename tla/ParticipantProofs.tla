-------------------------- MODULE ParticipantProofs --------------------------
(***************************************************************************)
(* Lemmas about Transport and Participant: what each operation on a half   *)
(* does to its type and to the messages in it, that a fetch that holds an  *)
(* answer yields one, that the steps of a participant keep its types,      *)
(* whoever it talks to, and what an answer it has heard can be.            *)
(***************************************************************************)
EXTENDS Participant, SequenceTheorems, WellFoundedInduction, TLAPS

\* The messages of a sequence, whatever their order.
Items(messages) == {messages[i] : i \in 1..Len(messages)}

------------------------------------------------------------------------------
(* Sequences.                                                                *)

LEMMA ItemsTyped ==
    ASSUME NEW M, NEW s \in Seq(M)
    PROVE  Items(s) \subseteq M
  BY ElementOfSeq DEF Items

LEMMA ItemsEmpty == Items(<<>>) = {}
  BY DEF Items

LEMMA ItemsAppend ==
    ASSUME NEW M, NEW s \in Seq(M), NEW m \in M
    PROVE  Items(Append(s, m)) = Items(s) \cup {m}
  <1> DEFINE t == Append(s, m)
  <1>1. /\ Len(t) = Len(s) + 1
        /\ \A i \in 1..Len(s) : t[i] = s[i]
        /\ t[Len(s) + 1] = m
    BY AppendProperties
  <1>2. Len(s) \in Nat
    BY LenProperties
  <1> HIDE DEF t
  <1>3. 1..Len(t) = 1..Len(s) \cup {Len(s) + 1}
    BY <1>1, <1>2
  <1>4. Items(t) = {t[i] : i \in 1..Len(s)} \cup {t[Len(s) + 1]}
    BY <1>3 DEF Items
  <1>5. {t[i] : i \in 1..Len(s)} = Items(s)
    BY <1>1 DEF Items
  <1> QED
    BY <1>1, <1>4, <1>5 DEF t

LEMMA HeadIsItem ==
    ASSUME NEW M, NEW s \in Seq(M), s # <<>>
    PROVE  Head(s) \in Items(s) /\ Head(s) \in M
  <1>1. Len(s) \in Nat \ {0}
    BY EmptySeq
  <1>2. 1 \in 1..Len(s)
    BY <1>1
  <1>3. Head(s) = s[1]
    OBVIOUS
  <1> QED
    BY <1>2, <1>3, ElementOfSeq DEF Items

LEMMA TailItems ==
    ASSUME NEW M, NEW s \in Seq(M), s # <<>>
    PROVE  Tail(s) \in Seq(M) /\ Items(Tail(s)) \subseteq Items(s)
  <1>1. /\ Tail(s) \in Seq(M)
        /\ Len(Tail(s)) = Len(s) - 1
        /\ \A i \in 1..Len(Tail(s)) : Tail(s)[i] = s[i + 1]
    BY HeadTailProperties
  <1>2. Len(s) \in Nat \ {0}
    BY EmptySeq
  <1>3. \A i \in 1..Len(Tail(s)) : i + 1 \in 1..Len(s)
    BY <1>1, <1>2
  <1> QED
    BY <1>1, <1>3 DEF Items

\* Taking the head leaves everything else.
LEMMA RestOfItems ==
    ASSUME NEW M, NEW s \in Seq(M), NEW m \in Items(s), m # Head(s)
    PROVE  m \in Items(Tail(s)) /\ Len(s) # 1
  <1>1. PICK i \in 1..Len(s) : m = s[i]
    BY DEF Items
  <1>2. s # <<>>
    BY <1>1
  <1>3. /\ Len(s) \in Nat /\ Len(Tail(s)) = Len(s) - 1
        /\ \A j \in 1..Len(Tail(s)) : Tail(s)[j] = s[j + 1]
        /\ Head(s) = s[1]
    BY <1>2, EmptySeq, HeadTailProperties
  <1>4. i # 1
    BY <1>1, <1>3
  <1>5. i - 1 \in 1..Len(Tail(s)) /\ Tail(s)[i - 1] = m
    BY <1>1, <1>3, <1>4
  <1> QED
    BY <1>3, <1>5 DEF Items

------------------------------------------------------------------------------
(* Halves.                                                                   *)

LEMMA EmptyHalfTyped ==
    ASSUME NEW M
    PROVE  EmptyHalf \in Halves(M) /\ Items(EmptyHalf.sent) = {}
  BY EmptySeq, ItemsEmpty DEF EmptyHalf, Halves

LEMMA HalfTyped ==
    ASSUME NEW M, NEW half \in Halves(M)
    PROVE  /\ half.sent \in Seq(M)
           /\ half.read \in Nat
           /\ Len(half.sent) \in Nat
           /\ Items(half.sent) \subseteq M
  BY ItemsTyped, LenProperties DEF Halves

LEMMA PostAdds ==
    ASSUME NEW M, NEW half \in Halves(M), NEW m \in M
    PROVE  /\ Post(half, m) \in Halves(M)
           /\ Items(Post(half, m).sent) = Items(half.sent) \cup {m}
  <1>1. Append(half.sent, m) \in Seq(M)
    BY AppendProperties, HalfTyped
  <1>2. /\ Post(half, m).sent = Append(half.sent, m)
        /\ Post(half, m) \in Halves(M)
    BY <1>1 DEF Post, Halves
  <1> QED
    BY <1>2, HalfTyped, ItemsAppend

\* Reading, forgetting and erasing put no message anywhere.
LEMMA NothingPosted ==
    ASSUME NEW M, NEW half \in Halves(M)
    PROVE  /\ Fetched(half) \in Halves(M)
           /\ Items(Fetched(half).sent) = Items(half.sent)
           /\ Forgotten(half) \in Halves(M)
           /\ Items(Forgotten(half).sent) = Items(half.sent)
           /\ Erased(half) \in Halves(M)
           /\ Items(Erased(half).sent) = {}
  <1>1. Fetched(half) \in Halves(M) /\ Fetched(half).sent = half.sent
    BY HalfTyped DEF Fetched, Halves
  <1>2. Forgotten(half) \in Halves(M) /\ Forgotten(half).sent = half.sent
    BY HalfTyped DEF Forgotten, Halves
  <1> QED
    BY <1>1, <1>2, EmptyHalfTyped DEF Erased

LEMMA UnreadItems ==
    ASSUME NEW M, NEW half \in Halves(M)
    PROVE  /\ Unread(half) \in Seq(M)
           /\ Items(Unread(half)) \subseteq Items(half.sent)
  <1> DEFINE s == half.sent
             m == half.read + 1
             n == Len(half.sent)
  <1>1. m \in Nat \ {0} /\ n \in Nat
    BY HalfTyped
  <1>2. \A i \in m..n : i \in 1..n
    BY <1>1
  <1>3. \A i \in m..n : s[i] \in M
    BY <1>2, HalfTyped, ElementOfSeq
  <1>4. /\ SubSeq(s, m, n) \in Seq(M)
        /\ Len(SubSeq(s, m, n)) = IF m <= n THEN n - m + 1 ELSE 0
        /\ \A i \in 1..(n - m + 1) : SubSeq(s, m, n)[i] = s[m + i - 1]
    BY <1>1, <1>3, SubSeqProperties
  <1>5. \A i \in 1..Len(SubSeq(s, m, n)) :
            i \in 1..(n - m + 1) /\ m + i - 1 \in 1..n
    BY <1>1, <1>4
  <1>6. \A i \in 1..Len(SubSeq(s, m, n)) : SubSeq(s, m, n)[i] \in Items(s)
    BY <1>4, <1>5 DEF Items
  <1> QED
    BY <1>4, <1>6 DEF Unread, Items

------------------------------------------------------------------------------
(* The first match.                                                          *)

LEMMA LeastElement ==
    ASSUME NEW S \in SUBSET Nat, S # {}
    PROVE  \E i \in S : \A j \in S : i <= j
  <1> DEFINE Less == {ss \in Nat \X Nat : ss[1] < ss[2]}
  <1>1. IsWellFoundedOn(Less, Nat)
    BY NatLessThanWellFounded DEF OpToRel
  <1>2. PICK i \in S : \A j \in S : <<j, i>> \notin Less
    BY <1>1, WFMin
  <1>3. ASSUME NEW j \in S
        PROVE  i <= j
    <2>1. i \in Nat /\ j \in Nat
      OBVIOUS
    <2>2. <<j, i>> \in Nat \X Nat /\ <<j, i>>[1] = j /\ <<j, i>>[2] = i
      BY <2>1
    <2>3. ~(j < i)
      BY <1>2, <2>1, <2>2
    <2> QED
      BY <2>1, <2>3
  <1> QED
    BY <1>3

\* A fetch with a match yields one of its messages, and one that matches.
LEMMA FirstMatches ==
    ASSUME NEW M, NEW s \in Seq(M), NEW types, NEW intents,
           Matches(s, types, intents) # {}
    PROVE  LET m == FirstMatch(s, types, intents)
           IN  m \in Items(s) /\ m \in M /\ m.type \in types /\ m.intent \in intents
  <1> DEFINE S == Matches(s, types, intents)
             i == CHOOSE k \in S : \A j \in S : k <= j
  <1>1. DOMAIN s = 1..Len(s) /\ Len(s) \in Nat
    BY LenProperties
  <1>2. S \in SUBSET Nat
    BY <1>1 DEF Matches
  <1>3. \E k \in S : \A j \in S : k <= j
    BY <1>2, LeastElement
  <1>4. i \in S
    BY <1>3
  <1>5. i \in 1..Len(s) /\ s[i].type \in types /\ s[i].intent \in intents
    BY <1>1, <1>4 DEF Matches
  <1>6. FirstMatch(s, types, intents) = s[i]
    BY DEF FirstMatch
  <1> QED
    BY <1>5, <1>6, ElementOfSeq DEF Items
------------------------------------------------------------------------------
(* What is unread.                                                           *)

LEMMA UnreadIs ==
    ASSUME NEW M, NEW half \in Halves(M)
    PROVE  /\ Unread(half) \in Seq(M)
           /\ Len(Unread(half)) = IF half.read < Len(half.sent)
                                  THEN Len(half.sent) - half.read ELSE 0
           /\ \A j \in 1..Len(Unread(half)) :
                /\ half.read + j \in 1..Len(half.sent)
                /\ Unread(half)[j] = half.sent[half.read + j]
  <1> DEFINE s == half.sent
             m == half.read + 1
             n == Len(half.sent)
  <1>0. half.read \in Nat
    BY HalfTyped
  <1>1. m \in Nat \ {0} /\ n \in Nat
    BY HalfTyped
  <1>2. \A i \in m..n : i \in 1..n
    BY <1>1
  <1>3. \A i \in m..n : s[i] \in M
    BY <1>2, HalfTyped, ElementOfSeq
  <1>4. /\ SubSeq(s, m, n) \in Seq(M)
        /\ Len(SubSeq(s, m, n)) = IF m <= n THEN n - m + 1 ELSE 0
        /\ \A i \in 1..(n - m + 1) : SubSeq(s, m, n)[i] = s[m + i - 1]
    BY <1>1, <1>3, SubSeqProperties
  <1>5. Unread(half) = SubSeq(s, m, n)
    BY DEF Unread
  <1> HIDE DEF s, n
  <1>6. Len(Unread(half)) = IF half.read < n THEN n - half.read ELSE 0
    BY <1>0, <1>1, <1>4, <1>5
  <1>7. ASSUME NEW j \in 1..Len(Unread(half))
        PROVE  half.read + j \in 1..n /\ Unread(half)[j] = s[half.read + j]
    <2>1. j \in 1..(n - m + 1) /\ m + j - 1 = half.read + j
      BY <1>0, <1>1, <1>6
    <2>2. half.read + j \in 1..n
      BY <1>0, <1>1, <2>1
    <2> QED
      BY <1>4, <1>5, <2>1, <2>2
  <1> QED
    BY <1>4, <1>5, <1>6, <1>7 DEF s, n

LEMMA NothingUnread ==
    ASSUME NEW M, NEW half \in Halves(M)
    PROVE  Items(Unread(Fetched(half))) = {} /\ Items(Unread(Erased(half))) = {}
  <1>1. /\ Fetched(half) \in Halves(M) /\ Erased(half) \in Halves(M)
        /\ Fetched(half).read = Len(half.sent) /\ Fetched(half).sent = half.sent
        /\ Len(half.sent) \in Nat
    BY NothingPosted, HalfTyped DEF Fetched, Halves
  <1>2. Len(Unread(Fetched(half))) = 0
    BY <1>1, UnreadIs
  <1>3. Erased(half).read = 0 /\ Len(Erased(half).sent) = 0
    BY DEF Erased, EmptyHalf
  <1>4. Len(Unread(Erased(half))) = 0
    BY <1>1, <1>3, UnreadIs
  <1> QED
    BY <1>2, <1>4 DEF Items

\* A message that is sent joins what is unread, and displaces nothing.
LEMMA UnreadPost ==
    ASSUME NEW M, NEW half \in Halves(M), NEW m \in M
    PROVE  Items(Unread(Post(half, m))) \subseteq Items(Unread(half)) \cup {m}
  <1> DEFINE s == half.sent
             h == Post(half, m)
  <1>1. /\ s \in Seq(M) /\ half.read \in Nat /\ Len(s) \in Nat
        /\ h \in Halves(M) /\ h.sent = Append(s, m) /\ h.read = half.read
    BY HalfTyped, PostAdds DEF Post, Halves
  <1>2. /\ Len(h.sent) = Len(s) + 1
        /\ \A i \in 1..Len(s) : h.sent[i] = s[i]
        /\ h.sent[Len(s) + 1] = m
    BY <1>1, AppendProperties
  <1> HIDE DEF h
  <1>3. ASSUME NEW j \in 1..Len(Unread(h))
        PROVE  Unread(h)[j] \in Items(Unread(half)) \cup {m}
    <2>0. h.read + j \in 1..Len(h.sent) /\ Unread(h)[j] = h.sent[h.read + j]
      BY <1>1, UnreadIs
    <2>1. /\ Unread(h)[j] = h.sent[half.read + j]
          /\ half.read + j \in 1..Len(s) + 1
      BY <1>1, <1>2, <2>0
    <2>2. CASE half.read + j = Len(s) + 1
      BY <1>2, <2>1, <2>2
    <2>3. CASE half.read + j # Len(s) + 1
      <3>1. half.read + j \in 1..Len(s) /\ j \in Nat \ {0}
        BY <1>1, <2>1, <2>3
      <3>2. Len(Unread(half)) = Len(s) - half.read
        <4>1. half.read < Len(s)
          BY <1>1, <3>1
        <4>2. Len(Unread(half)) = IF half.read < Len(half.sent)
                                  THEN Len(half.sent) - half.read ELSE 0
          BY UnreadIs
        <4> QED
          BY <4>1, <4>2
      <3>3. j \in 1..Len(Unread(half))
        BY <1>1, <3>1, <3>2
      <3>4. Unread(half)[j] = s[half.read + j]
        BY <3>3, UnreadIs
      <3> QED
        BY <1>2, <2>1, <3>1, <3>3, <3>4 DEF Items
    <2> QED
      BY <2>2, <2>3
  <1> QED
    BY <1>3 DEF Items, h

------------------------------------------------------------------------------
(* The participant.                                                          *)

LEMMA AwaitedStages ==
    /\ DOMAIN Awaited = {"awaitIntent", "awaitRequest", "awaitTemplate", "awaitFinal"}
    /\ Stages = {"off", "query", "commit", "awaitIntent", "awaitRequest",
                 "awaitTemplate", "awaitFinal", "ok", "left", "err"}
    /\ Ended = {"ok", "left", "err"}
    /\ Awaited["awaitIntent"] = {"CurrentIntent"}
    /\ Awaited["awaitRequest"] = {"RequestReveal", "Reject"}
    /\ Awaited["awaitTemplate"] = {"Template", "Reject"}
    /\ Awaited["awaitFinal"] = {"FinalTx"}
  BY DEF Awaited, Stages, Ended

\* What a participant has got together by the time it is at a stage.
Prepared(p) ==
    /\ ppc[p] = "query" => attempts[p] < MaxRetries
    /\ ppc[p] \in {"commit", "awaitRequest", "awaitTemplate", "awaitFinal"} =>
        joined[p] \in Intents
    /\ ppc[p] \in {"awaitRequest", "awaitTemplate", "awaitFinal"} =>
        plan[p] \in Plans

ParticipantInv ==
    /\ ParticipantTypeOK
    /\ \A p \in Participants : Prepared(p)

------------------------------------------------------------------------------
(* Messages.                                                                 *)

LEMMA OutgoingTyped ==
    /\ Query \in Outgoing
    /\ \A i \in Intents, x \in Plans :
        Commitment(i, x) \in Outgoing /\ Reveal(i, x) \in Outgoing
    /\ \A i \in Intents, t \in Contents, c \in BOOLEAN :
        SigFragment(i, t, c) \in Outgoing
  BY DEF Outgoing, Query, Commitment, Reveal, SigFragment

LEMMA IncomingTyped ==
    ASSUME NEW i \in Intents
    PROVE  /\ CurrentIntent(i) \in Incoming
           /\ FinalTx(i) \in Incoming
           /\ Reject(i) \in Incoming
           /\ \A c \in SUBSET Participants : RequestReveal(i, c) \in Incoming
           /\ \A x \in Contents : Template(i, x) \in Incoming
  BY DEF Incoming, CurrentIntent, FinalTx, Reject, RequestReveal, Template

LEMMA IncomingIntent ==
    ASSUME NEW m \in Incoming
    PROVE  m.intent \in Intents
  BY DEF Incoming

LEMMA IncomingContents ==
    ASSUME NEW m \in Incoming, m.type = "Template"
    PROVE  m.contents \in Contents
  BY DEF Incoming

LEMMA OutgoingPlan ==
    ASSUME NEW m \in Outgoing, m.type \in {"Commitment", "Reveal"}
    PROVE  m.plan \in Plans
  BY DEF Outgoing

\* An answer is a message of the other half, of a kind and a batch waited for.
LEMMA AnswerHeard ==
    ASSUME ParticipantTypeOK, NEW p \in Participants, Answered(p)
    PROVE  /\ Answer(p) \in Items(News(p))
           /\ Answer(p) \in Items(toPart[p].sent)
           /\ Answer(p) \in Incoming
           /\ Answer(p).intent \in Intents
           /\ Answer(p).intent \in Awaits(p)
           /\ Answer(p).type \in Awaited[ppc[p]]
  <1>1. toPart[p] \in Halves(Incoming)
    BY DEF ParticipantTypeOK
  <1>2. News(p) \in Seq(Incoming) /\ Items(News(p)) \subseteq Items(toPart[p].sent)
    BY <1>1, UnreadItems DEF News
  <1>3. /\ Answer(p) \in Items(News(p))
        /\ Answer(p) \in Incoming
        /\ Answer(p).type \in Awaited[ppc[p]]
        /\ Answer(p).intent \in Awaits(p)
    BY <1>2, FirstMatches DEF Answered, Answer
  <1> QED
    BY <1>2, <1>3, IncomingIntent

------------------------------------------------------------------------------
(* Steps.                                                                    *)

LEMMA InitPrepared == ParticipantInit => ParticipantInv
  BY EmptyHalfTyped, AwaitedStages, RetryAssumption
  DEF ParticipantInit, ParticipantInv, ParticipantTypeOK, Prepared

LEMMA RetryTyped ==
    ASSUME ParticipantInv, NEW p \in Participants, NEW used \in 0..MaxRetries,
           RetryOrFail(p, used)
    PROVE  /\ ppc' \in [Participants -> Stages]
           /\ ppc' = [ppc EXCEPT ![p] = ppc'[p]]
           /\ ppc'[p] \in {"query", "err"}
           /\ ppc'[p] = "query" => used < MaxRetries
  BY AwaitedStages DEF ParticipantInv, ParticipantTypeOK, RetryOrFail, Goto

LEMMA SendTyped ==
    ASSUME ParticipantInv, NEW p \in Participants, NEW m \in Outgoing,
           NEW stage \in Stages, SendThen(p, m, stage)
    PROVE  /\ toCoord' \in [Participants -> Halves(Outgoing)]
           /\ ppc' \in [Participants -> Stages]
           /\ ppc' = [ppc EXCEPT ![p] = ppc'[p]]
           /\ ppc'[p] \in {stage, "err"}
           /\ \A q \in Participants \ {p} : toCoord'[q] = toCoord[q]
           /\ Items(toCoord'[p].sent) \subseteq Items(toCoord[p].sent) \cup {m}
  <1>1. toCoord[p] \in Halves(Outgoing) /\ toCoord \in [Participants -> Halves(Outgoing)]
    BY DEF ParticipantInv, ParticipantTypeOK
  <1>2. /\ Post(toCoord[p], m) \in Halves(Outgoing)
        /\ Items(Post(toCoord[p], m).sent) = Items(toCoord[p].sent) \cup {m}
    BY <1>1, PostAdds
  <1> QED
    BY <1>1, <1>2, AwaitedStages
    DEF SendThen, Goto, ParticipantInv, ParticipantTypeOK

LEMMA EraseTyped ==
    ASSUME ParticipantInv, NEW p \in Participants, EraseOwn(p)
    PROVE  /\ toCoord' \in [Participants -> Halves(Outgoing)]
           /\ \A q \in Participants :
                Items(toCoord'[q].sent) \subseteq Items(toCoord[q].sent)
  <1>1. toCoord \in [Participants -> Halves(Outgoing)]
    BY DEF ParticipantInv, ParticipantTypeOK
  <1>2. /\ Erased(toCoord[p]) \in Halves(Outgoing)
        /\ Items(Erased(toCoord[p]).sent) = {}
    BY <1>1, NothingPosted
  <1> QED
    BY <1>1, <1>2 DEF EraseOwn

\* No participant touches what the other side has stored for it but to read it.
LEMMA HearTyped ==
    ASSUME ParticipantInv, NEW p \in Participants,
           \/ toPart' = [toPart EXCEPT ![p] = Fetched(@)]
           \/ toPart' = [toPart EXCEPT ![p] = Forgotten(@)]
           \/ UNCHANGED toPart
    PROVE  /\ toPart' \in [Participants -> Halves(Incoming)]
           /\ \A q \in Participants : Items(toPart'[q].sent) = Items(toPart[q].sent)
  <1>1. toPart \in [Participants -> Halves(Incoming)]
    BY DEF ParticipantInv, ParticipantTypeOK
  <1>2. /\ Fetched(toPart[p]) \in Halves(Incoming)
        /\ Items(Fetched(toPart[p]).sent) = Items(toPart[p].sent)
        /\ Forgotten(toPart[p]) \in Halves(Incoming)
        /\ Items(Forgotten(toPart[p]).sent) = Items(toPart[p].sent)
    BY <1>1, NothingPosted
  <1> QED
    BY <1>1, <1>2

LEMMA QueryStep ==
    ASSUME ParticipantInv, NEW p \in Participants, PQuery(p)
    PROVE  /\ ParticipantInv'
           /\ \A q \in Participants : Items(toPart'[q].sent) = Items(toPart[q].sent)
           /\ \A q \in Participants : Items(toCoord'[q].sent)
                    \subseteq Items(toCoord[q].sent) \cup {Query}
  <1> USE DEF PQuery
  <1>1. attempts[p] + 1 \in 0..MaxRetries /\ attempts[p] \in Nat
    BY RetryAssumption DEF ParticipantInv, ParticipantTypeOK, Prepared
  <1>2. /\ toPart' \in [Participants -> Halves(Incoming)]
        /\ \A q \in Participants : Items(toPart'[q].sent) = Items(toPart[q].sent)
    BY HearTyped
  <1>3. /\ ppc' \in [Participants -> Stages]
        /\ ppc' = [ppc EXCEPT ![p] = ppc'[p]]
        /\ ppc'[p] \in {"query", "err", "awaitIntent"}
        /\ ppc'[p] = "query" => attempts[p] + 1 < MaxRetries
    <2>1. CASE Goto(p, "awaitIntent")
      BY <2>1, AwaitedStages DEF Goto, ParticipantInv, ParticipantTypeOK
    <2>2. CASE RetryOrFail(p, attempts[p] + 1)
      BY <1>1, <2>2, RetryTyped
    <2> QED
      BY <2>1, <2>2
  <1>4. /\ toCoord' \in [Participants -> Halves(Outgoing)]
        /\ \A q \in Participants : Items(toCoord'[q].sent)
                    \subseteq Items(toCoord[q].sent) \cup {Query}
    <2>1. toCoord \in [Participants -> Halves(Outgoing)]
      BY DEF ParticipantInv, ParticipantTypeOK
    <2>2. /\ Post(toCoord[p], Query) \in Halves(Outgoing)
          /\ Items(Post(toCoord[p], Query).sent) = Items(toCoord[p].sent) \cup {Query}
      BY <2>1, OutgoingTyped, PostAdds
    <2> QED
      BY <2>1, <2>2
  <1>5. ParticipantTypeOK'
    BY <1>1, <1>2, <1>3, <1>4 DEF ParticipantInv, ParticipantTypeOK
  <1>6. ASSUME NEW q \in Participants
        PROVE  Prepared(q)'
    BY <1>1, <1>3 DEF Prepared, ParticipantInv, ParticipantTypeOK
  <1> QED
    BY <1>2, <1>4, <1>5, <1>6 DEF ParticipantInv

\* Steps that only read, or only move on.
LEMMA SilentStep ==
    ASSUME ParticipantInv, NEW p \in Participants,
           \/ PCrash(p) \/ PSkip(p) \/ PGiveUp(p) \/ PIntent(p) \/ PRejected(p)
           \/ PRefuse(p)
    PROVE  /\ ParticipantInv'
           /\ \A q \in Participants : Items(toPart'[q].sent) = Items(toPart[q].sent)
           /\ UNCHANGED toCoord
           /\ UNCHANGED signed
  <1>0. ASSUME PGiveUp(p), ppc[p] = "awaitIntent"
        PROVE  /\ ppc' \in [Participants -> Stages]
               /\ ppc' = [ppc EXCEPT ![p] = ppc'[p]]
               /\ ppc'[p] = "err" \/ (ppc'[p] = "query" /\ attempts[p] < MaxRetries)
    <2>1. RetryOrFail(p, attempts[p])
      BY <1>0 DEF PGiveUp
    <2>2. attempts[p] \in 0..MaxRetries
      BY DEF ParticipantInv, ParticipantTypeOK
    <2> QED
      BY <2>1, <2>2, RetryTyped
  <1> USE DEF ParticipantInv
  <1>1. /\ toPart' \in [Participants -> Halves(Incoming)]
        /\ \A q \in Participants : Items(toPart'[q].sent) = Items(toPart[q].sent)
    BY HearTyped
    DEF PCrash, PSkip, PGiveUp, PIntent, PRejected, PRefuse, Hears
  <1>2. UNCHANGED <<plan, attempts, runs, signed, toCoord>>
    BY DEF PCrash, PSkip, PGiveUp, PIntent, PRejected, PRefuse
  <1>3. CASE PIntent(p)
    <2>1. Answer(p).intent \in Intents
      BY <1>3, AnswerHeard DEF PIntent, Hears
    <2>2. ParticipantTypeOK'
      BY <1>1, <1>2, <1>3, <2>1, AwaitedStages
      DEF PIntent, Goto, ParticipantTypeOK
    <2>3. ASSUME NEW q \in Participants
          PROVE  Prepared(q)'
      BY <1>2, <1>3, <2>1 DEF PIntent, Goto, Prepared, ParticipantTypeOK
    <2> QED
      BY <1>1, <1>2, <2>2, <2>3
  <1>4. CASE PGiveUp(p)
    <2>1. /\ ppc' \in [Participants -> Stages]
          /\ ppc' = [ppc EXCEPT ![p] = ppc'[p]]
          /\ ppc'[p] = "err" \/ (ppc'[p] = "query" /\ attempts[p] < MaxRetries)
      <3>1. CASE ppc[p] = "awaitIntent"
        BY <1>0, <1>4, <3>1
      <3>2. CASE ppc[p] # "awaitIntent"
        BY <1>4, <3>2, AwaitedStages DEF PGiveUp, Goto, ParticipantTypeOK
      <3> QED
        BY <3>1, <3>2
    <2>2. ParticipantTypeOK'
      BY <1>1, <1>2, <1>4, <2>1 DEF PGiveUp, ParticipantTypeOK
    <2>3. ASSUME NEW q \in Participants
          PROVE  Prepared(q)'
      BY <1>2, <1>4, <2>1 DEF PGiveUp, Prepared, ParticipantTypeOK
    <2> QED
      BY <1>1, <1>2, <2>2, <2>3
  <1>5. CASE PCrash(p) \/ PSkip(p) \/ PRejected(p) \/ PRefuse(p)
    <2>1. /\ ppc' \in [Participants -> Stages]
          /\ ppc' = [ppc EXCEPT ![p] = ppc'[p]]
          /\ ppc'[p] \in {ppc[p], "err"}
      BY <1>5, AwaitedStages
      DEF PCrash, PSkip, PRejected, PRefuse, Goto, ParticipantTypeOK
    <2>2. UNCHANGED joined
      BY <1>5 DEF PCrash, PSkip, PRejected, PRefuse
    <2>3. ParticipantTypeOK'
      BY <1>1, <1>2, <2>1, <2>2 DEF ParticipantTypeOK
    <2>4. ASSUME NEW q \in Participants
          PROVE  Prepared(q)'
      BY <1>2, <2>1, <2>2 DEF Prepared, ParticipantTypeOK
    <2> QED
      BY <1>1, <1>2, <2>3, <2>4
  <1> QED
    BY <1>3, <1>4, <1>5

LEMMA LaunchStep ==
    ASSUME ParticipantInv, NEW p \in Participants, PLaunch(p)
    PROVE  /\ ParticipantInv'
           /\ \A q \in Participants : Items(toPart'[q].sent) = Items(toPart[q].sent)
           /\ \A q \in Participants :
                Items(toCoord'[q].sent) \subseteq Items(toCoord[q].sent)
           /\ UNCHANGED signed
  <1> USE DEF ParticipantInv, PLaunch, Goto
  <1>1. /\ toPart' \in [Participants -> Halves(Incoming)]
        /\ \A q \in Participants : Items(toPart'[q].sent) = Items(toPart[q].sent)
    BY HearTyped
  <1>2. /\ toCoord' \in [Participants -> Halves(Outgoing)]
        /\ \A q \in Participants :
                Items(toCoord'[q].sent) \subseteq Items(toCoord[q].sent)
    BY EraseTyped
  <1>3. runs' \in [Participants -> 0..MaxRuns]
    BY RetryAssumption DEF ParticipantTypeOK
  <1>4. ParticipantTypeOK'
    BY <1>1, <1>2, <1>3, RetryAssumption, AwaitedStages DEF ParticipantTypeOK
  <1>5. ASSUME NEW q \in Participants
        PROVE  Prepared(q)'
    BY RetryAssumption DEF Prepared, ParticipantTypeOK
  <1> QED
    BY <1>1, <1>2, <1>4, <1>5

\* A participant says what it has built: its commitment and its reveal.
LEMMA CommitStep ==
    ASSUME ParticipantInv, NEW p \in Participants, PCommit(p)
    PROVE  /\ ParticipantInv'
           /\ UNCHANGED <<toPart, signed>>
           /\ \E x \in Plans : \A q \in Participants : Items(toCoord'[q].sent)
                    \subseteq Items(toCoord[q].sent) \cup {Commitment(joined[p], x)}
  <1> USE DEF ParticipantInv
  <1>1. ppc[p] = "commit" /\ joined[p] \in Intents
    BY DEF PCommit, Prepared
  <1>2. PICK x \in Plans :
            /\ plan' = [plan EXCEPT ![p] = x]
            /\ IF PassesLocally(p, x)
               THEN SendThen(p, Commitment(joined[p], x), "awaitRequest")
               ELSE Goto(p, "err") /\ UNCHANGED toCoord
    BY DEF PCommit
  <1>3. /\ toCoord' \in [Participants -> Halves(Outgoing)]
        /\ ppc' \in [Participants -> Stages]
        /\ ppc' = [ppc EXCEPT ![p] = ppc'[p]]
        /\ ppc'[p] \in {"awaitRequest", "err"}
        /\ \A q \in Participants : Items(toCoord'[q].sent)
                \subseteq Items(toCoord[q].sent) \cup {Commitment(joined[p], x)}
    <2>1. CASE SendThen(p, Commitment(joined[p], x), "awaitRequest")
      BY <1>1, <2>1, OutgoingTyped, SendTyped, AwaitedStages
    <2>2. CASE Goto(p, "err") /\ UNCHANGED toCoord
      BY <2>2, AwaitedStages DEF Goto, ParticipantTypeOK
    <2> QED
      BY <1>2, <2>1, <2>2
  <1>4. UNCHANGED <<joined, attempts, runs, signed, toPart>>
    BY DEF PCommit
  <1>5. ParticipantTypeOK'
    BY <1>2, <1>3, <1>4 DEF ParticipantTypeOK
  <1>6. ASSUME NEW q \in Participants
        PROVE  Prepared(q)'
    BY <1>1, <1>2, <1>3, <1>4 DEF Prepared, ParticipantTypeOK
  <1> QED
    BY <1>3, <1>4, <1>5, <1>6

LEMMA RevealStep ==
    ASSUME ParticipantInv, NEW p \in Participants, PReveal(p)
    PROVE  /\ ParticipantInv'
           /\ UNCHANGED signed
           /\ \A q \in Participants : Items(toPart'[q].sent) = Items(toPart[q].sent)
           /\ \A q \in Participants : Items(toCoord'[q].sent)
                    \subseteq Items(toCoord[q].sent) \cup {Reveal(joined[p], plan[p])}
  <1> USE DEF ParticipantInv
  <1>1. ppc[p] = "awaitRequest" /\ joined[p] \in Intents /\ plan[p] \in Plans
    BY DEF PReveal, Hears, Prepared
  <1>2. /\ toPart' \in [Participants -> Halves(Incoming)]
        /\ \A q \in Participants : Items(toPart'[q].sent) = Items(toPart[q].sent)
    BY HearTyped DEF PReveal, Hears
  <1>3. /\ toCoord' \in [Participants -> Halves(Outgoing)]
        /\ ppc' \in [Participants -> Stages]
        /\ ppc' = [ppc EXCEPT ![p] = ppc'[p]]
        /\ ppc'[p] \in {"awaitTemplate", "err"}
        /\ \A q \in Participants : Items(toCoord'[q].sent)
                \subseteq Items(toCoord[q].sent) \cup {Reveal(joined[p], plan[p])}
    <2>1. CASE SendThen(p, Reveal(joined[p], plan[p]), "awaitTemplate")
      BY <1>1, <2>1, OutgoingTyped, SendTyped, AwaitedStages
    <2>2. CASE Goto(p, "err") /\ UNCHANGED toCoord
      BY <2>2, AwaitedStages DEF Goto, ParticipantTypeOK
    <2> QED
      BY <2>1, <2>2 DEF PReveal
  <1>4. UNCHANGED <<plan, joined, attempts, runs, signed>>
    BY DEF PReveal
  <1>5. ParticipantTypeOK'
    BY <1>2, <1>3, <1>4 DEF ParticipantTypeOK
  <1>6. ASSUME NEW q \in Participants
        PROVE  Prepared(q)'
    BY <1>1, <1>3, <1>4 DEF Prepared, ParticipantTypeOK
  <1> QED
    BY <1>2, <1>3, <1>4, <1>5, <1>6

\* Only a plan includes another.
LEMMA IncludingPlan ==
    ASSUME NEW x, NEW y \in Plans, Includes(x, y)
    PROVE  x \in Plans
  BY PlanAssumption DEF Includes

\* A fragment that is complete has been signed, for a template that was read and
\* that includes the signer's own plan.
LEMMA SignStep ==
    ASSUME ParticipantInv, NEW p \in Participants, PSign(p)
    PROVE  /\ ParticipantInv'
           /\ \A q \in Participants : Items(toPart'[q].sent) = Items(toPart[q].sent)
           /\ \A q \in Participants : signed[q] \subseteq signed'[q]
           /\ \A q \in Participants \ {p} : UNCHANGED <<toCoord[q], signed[q]>>
           /\ \E t \in Items(toPart[p].sent), complete \in BOOLEAN :
                /\ t.type = "Template" /\ Includes(t.contents[p], plan[p])
                /\ t.intent = joined[p] /\ t.intent \in Intents
                /\ plan[p] \in Plans /\ t.contents[p] \in Plans
                /\ t.contents \in Contents
                /\ signed' = IF complete
                             THEN [signed EXCEPT ![p] =
                                        @ \cup {<<joined[p], t.contents>>}]
                             ELSE signed
                /\ Items(toCoord'[p].sent) \subseteq Items(toCoord[p].sent)
                        \cup {SigFragment(joined[p], t.contents, complete)}
  <1> USE DEF ParticipantInv
  <1>1. ppc[p] = "awaitTemplate" /\ joined[p] \in Intents /\ plan[p] \in Plans
    BY DEF PSign, Hears, Prepared
  <1>2. /\ toPart' \in [Participants -> Halves(Incoming)]
        /\ \A q \in Participants : Items(toPart'[q].sent) = Items(toPart[q].sent)
    BY HearTyped DEF PSign, Hears
  <1>3. /\ Answer(p) \in Items(toPart[p].sent)
        /\ Answer(p).type = "Template"
        /\ Includes(Answer(p).contents[p], plan[p])
        /\ Answer(p).contents[p] \in Plans
        /\ Answer(p).intent = joined[p]
        /\ Answer(p).contents \in Contents
    <2>1. Answered(p) /\ Awaits(p) = {joined[p]}
      BY <1>1 DEF PSign, Hears, Awaits
    <2>2. Answer(p).type = "Template" /\ Includes(Answer(p).contents[p], plan[p])
      BY DEF PSign, Hears, Accepts
    <2>3. /\ Answer(p) \in Items(toPart[p].sent)
          /\ Answer(p).intent = joined[p]
          /\ Answer(p).contents \in Contents
      BY <2>1, <2>2, AnswerHeard, IncomingContents
    <2> QED
      BY <1>1, <2>2, <2>3, IncludingPlan
  <1>4. PICK complete \in BOOLEAN :
            /\ signed' = IF complete
                         THEN [signed EXCEPT ![p] =
                                    @ \cup {<<joined[p], Answer(p).contents>>}]
                         ELSE signed
            /\ SendThen(p, SigFragment(joined[p], Answer(p).contents, complete),
                        IF p \in NoWait THEN "left" ELSE "awaitFinal")
    <2>1. \A c \in {TRUE} \cup (IF May("partial") THEN {FALSE} ELSE {}) : c \in BOOLEAN
      OBVIOUS
    <2> QED
      BY <2>1 DEF PSign
  <1>5. /\ toCoord' \in [Participants -> Halves(Outgoing)]
        /\ ppc' \in [Participants -> Stages]
        /\ ppc' = [ppc EXCEPT ![p] = ppc'[p]]
        /\ ppc'[p] \in {"left", "awaitFinal", "err"}
        /\ \A q \in Participants \ {p} : toCoord'[q] = toCoord[q]
        /\ Items(toCoord'[p].sent) \subseteq Items(toCoord[p].sent)
                \cup {SigFragment(joined[p], Answer(p).contents, complete)}
    <2> DEFINE stage == IF p \in NoWait THEN "left" ELSE "awaitFinal"
               fragment == SigFragment(joined[p], Answer(p).contents, complete)
    <2>1. stage \in Stages /\ stage \in {"left", "awaitFinal"}
      BY AwaitedStages
    <2>2. fragment \in Outgoing
      BY <1>1, <1>3, OutgoingTyped
    <2>3. SendThen(p, fragment, stage)
      BY <1>4
    <2> HIDE DEF stage, fragment
    <2>4. /\ toCoord' \in [Participants -> Halves(Outgoing)]
          /\ ppc' \in [Participants -> Stages]
          /\ ppc' = [ppc EXCEPT ![p] = ppc'[p]]
          /\ ppc'[p] \in {stage, "err"}
          /\ \A q \in Participants \ {p} : toCoord'[q] = toCoord[q]
          /\ Items(toCoord'[p].sent) \subseteq Items(toCoord[p].sent) \cup {fragment}
      BY <2>1, <2>2, <2>3, SendTyped
    <2> QED
      BY <2>1, <2>4 DEF fragment
  <1>6. UNCHANGED <<plan, joined, attempts, runs>>
    BY DEF PSign
  <1>7. signed' \in [Participants -> SUBSET (Intents \X Contents)]
    BY <1>1, <1>3, <1>4 DEF ParticipantTypeOK
  <1>8. ParticipantTypeOK'
    BY <1>2, <1>5, <1>6, <1>7 DEF ParticipantTypeOK
  <1>9. ASSUME NEW q \in Participants
        PROVE  Prepared(q)'
    BY <1>1, <1>5, <1>6 DEF Prepared, ParticipantTypeOK
  <1>10. /\ \A q \in Participants : signed[q] \subseteq signed'[q]
         /\ \A q \in Participants \ {p} : UNCHANGED <<toCoord[q], signed[q]>>
    BY <1>4, <1>5 DEF ParticipantTypeOK
  <1> QED
    BY <1>1, <1>2, <1>3, <1>4, <1>5, <1>8, <1>9, <1>10

LEMMA FinalStep ==
    ASSUME ParticipantInv, NEW p \in Participants, PFinal(p)
    PROVE  /\ ParticipantInv'
           /\ UNCHANGED signed
           /\ \A q \in Participants : Items(toPart'[q].sent) = Items(toPart[q].sent)
           /\ \A q \in Participants :
                Items(toCoord'[q].sent) \subseteq Items(toCoord[q].sent)
  <1> USE DEF ParticipantInv, PFinal, Goto
  <1>1. /\ toPart' \in [Participants -> Halves(Incoming)]
        /\ \A q \in Participants : Items(toPart'[q].sent) = Items(toPart[q].sent)
    BY HearTyped
  <1>2. /\ toCoord' \in [Participants -> Halves(Outgoing)]
        /\ \A q \in Participants :
                Items(toCoord'[q].sent) \subseteq Items(toCoord[q].sent)
    <2>1. EraseOwn(p) => /\ toCoord' \in [Participants -> Halves(Outgoing)]
                         /\ \A q \in Participants :
                            Items(toCoord'[q].sent) \subseteq Items(toCoord[q].sent)
      BY EraseTyped
    <2> QED
      BY <2>1 DEF EraseOwn
  <1>3. ParticipantTypeOK'
    BY <1>1, <1>2, AwaitedStages DEF ParticipantTypeOK
  <1>4. ASSUME NEW q \in Participants
        PROVE  Prepared(q)'
    BY DEF Prepared, ParticipantTypeOK
  <1> QED
    BY <1>1, <1>2, <1>3, <1>4

------------------------------------------------------------------------------
(* Delivery.                                                                 *)

\* Nothing is read that was not sent.
Within(half) == half.read <= Len(half.sent)

LEMMA WithinKept ==
    ASSUME NEW M, NEW half \in Halves(M), Within(half)
    PROVE  /\ Within(EmptyHalf) /\ Within(Erased(half))
           /\ Within(Fetched(half)) /\ Within(Forgotten(half))
           /\ \A m \in M : Within(Post(half, m))
  <1>1. /\ half.sent \in Seq(M) /\ half.read \in Nat /\ Len(half.sent) \in Nat
    BY HalfTyped
  <1>2. Within(EmptyHalf) /\ Within(Erased(half))
    BY DEF Within, Erased, EmptyHalf
  <1>3. Within(Fetched(half)) /\ Within(Forgotten(half))
    BY <1>1 DEF Within, Fetched, Forgotten, Halves
  <1>4. ASSUME NEW m \in M
        PROVE  Within(Post(half, m))
    <2>1. Len(Append(half.sent, m)) = Len(half.sent) + 1
      BY <1>1, AppendProperties
    <2>2. Post(half, m).sent = Append(half.sent, m) /\ Post(half, m).read = half.read
      BY DEF Post, Halves
    <2>3. half.read <= Len(half.sent)
      BY DEF Within
    <2>4. Post(half, m).read <= Len(Post(half, m).sent)
      BY <1>1, <2>1, <2>2, <2>3
    <2> QED
      BY <2>4 DEF Within
  <1> QED
    BY <1>2, <1>3, <1>4

\* A message that is sent is unread, and what was unread still is.
LEMMA PostUnread ==
    ASSUME NEW M, NEW half \in Halves(M), NEW m \in M, Within(half)
    PROVE  Items(Unread(half)) \cup {m} \subseteq Items(Unread(Post(half, m)))
  <1> DEFINE s == half.sent
             h == Post(half, m)
  <1>1. /\ s \in Seq(M) /\ half.read \in Nat /\ Len(s) \in Nat /\ half.read <= Len(s)
        /\ h \in Halves(M) /\ h.sent = Append(s, m) /\ h.read = half.read
    BY HalfTyped, PostAdds DEF Post, Halves, Within
  <1>2. /\ Len(h.sent) = Len(s) + 1
        /\ \A i \in 1..Len(s) : h.sent[i] = s[i]
        /\ h.sent[Len(s) + 1] = m
    BY <1>1, AppendProperties
  <1> HIDE DEF h
  <1>3. /\ Len(Unread(h)) = Len(s) + 1 - half.read
        /\ \A j \in 1..Len(Unread(h)) : Unread(h)[j] = h.sent[half.read + j]
    <2>1. /\ Len(Unread(h)) = IF h.read < Len(h.sent)
                              THEN Len(h.sent) - h.read ELSE 0
          /\ \A j \in 1..Len(Unread(h)) : Unread(h)[j] = h.sent[h.read + j]
      BY <1>1, UnreadIs
    <2>2. /\ h.read = half.read /\ Len(h.sent) = Len(s) + 1
          /\ half.read < Len(s) + 1
      BY <1>1, <1>2
    <2> QED
      BY <1>1, <2>1, <2>2
  <1>4. m \in Items(Unread(h))
    <2>1. Len(s) + 1 - half.read \in 1..Len(Unread(h))
          /\ half.read + (Len(s) + 1 - half.read) = Len(s) + 1
      BY <1>1, <1>3
    <2>2. Unread(h)[Len(s) + 1 - half.read] = m
      BY <1>2, <1>3, <2>1
    <2> QED
      BY <2>1, <2>2 DEF Items
  <1>5. ASSUME NEW j \in 1..Len(Unread(half))
        PROVE  Unread(half)[j] \in Items(Unread(h))
    <2>1. half.read + j \in 1..Len(s) /\ Unread(half)[j] = s[half.read + j]
      BY UnreadIs
    <2>2. j \in 1..Len(Unread(h))
      BY <1>1, <1>3, <2>1
    <2>3. Unread(h)[j] = Unread(half)[j]
      BY <1>2, <1>3, <2>1, <2>2
    <2> QED
      BY <2>2, <2>3 DEF Items
  <1> QED
    BY <1>4, <1>5 DEF Items, h

\* A participant that finds what it waits for takes it.
LEMMA FindsAnswer ==
    ASSUME ParticipantTypeOK, NEW p \in Participants, NEW m \in Items(News(p)),
           m.type \in Awaited[ppc[p]], m.intent \in Awaits(p)
    PROVE  Answered(p)
  <1>1. News(p) \in Seq(Incoming)
    BY UnreadItems DEF News, ParticipantTypeOK
  <1>2. PICK i \in 1..Len(News(p)) : m = News(p)[i]
    BY DEF Items
  <1>3. DOMAIN News(p) = 1..Len(News(p))
    BY <1>1, LenProperties
  <1> QED
    BY <1>2, <1>3 DEF Answered, Matches
==============================================================================
