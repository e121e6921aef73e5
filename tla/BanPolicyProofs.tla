-------------------------- MODULE BanPolicyProofs ---------------------------
(***************************************************************************)
(* Lemmas about BanPolicy: what an offense costs.                          *)
(***************************************************************************)
EXTENDS BanPolicy, TLAPS

LEMMA HoursPositive ==
    ASSUME NEW count \in Nat \ {0}, count <= Len(ModerateHours)
    PROVE  ModerateHours[count] \in Nat \ {0}
  <1>1. Len(ModerateHours) = 5
    BY DEF ModerateHours
  <1>2. count \in {1, 2, 3, 4, 5}
    BY <1>1
  <1> QED
    BY <1>2 DEF ModerateHours

\* A sentence is a ban list entry, and it bans from the moment it is passed.
LEMMA SentenceBans ==
    ASSUME NEW offense \in Offenses, NEW count \in Nat \ {0}, NEW time \in Nat
    PROVE  /\ Sentence(offense, count, time) \in BanEntries
           /\ IsBanned(Sentence(offense, count, time), time)
  <1>1. CASE MakesPermanent(offense, count)
    BY <1>1 DEF Sentence, PermanentBan, BanEntries, IsBanned
  <1>2. CASE ~MakesPermanent(offense, count)
    <2>1. count <= Len(ModerateHours)
      BY <1>2 DEF MakesPermanent, ModerateHours
    <2>2. PICK hours \in Nat \ {0} : hours = ModerateHours[count]
      BY <2>1, HoursPositive
    <2>3. Sentence(offense, count, time) = TemporaryBan(time, hours, offense)
      BY <1>2, <2>2 DEF Sentence
    <2>4. time + hours \in Nat /\ time + hours > time
      OBVIOUS
    <2> QED
      BY <2>3, <2>4 DEF TemporaryBan, BanEntries, IsBanned
  <1> QED
    BY <1>1, <1>2

LEMMA CountedTyped ==
    ASSUME NEW ban \in BanEntries
    PROVE  Counted(ban) \in BanEntries /\ OffenseCount(ban) \in Nat \ {0}
  <1>1. CASE ban = NoBan
    BY <1>1 DEF NoBan, Counted, OffenseCount, BanEntries
  <1>2. CASE ban # NoBan
    BY <1>2 DEF NoBan, Counted, OffenseCount, BanEntries
  <1> QED
    BY <1>1, <1>2

LEMMA PermanentTyped ==
    ASSUME NEW offense \in Offenses
    PROVE  PermanentBan(offense) \in BanEntries
  BY DEF PermanentBan, BanEntries

LEMMA TemporaryUntil ==
    ASSUME NEW ban \in BanEntries, ban.kind = "temporary"
    PROVE  ban.until \in Nat
  BY DEF BanEntries, NoBan

LEMMA NoBanTyped == NoBan \in BanEntries
  BY DEF BanEntries
=============================================================================
