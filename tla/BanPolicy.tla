------------------------------ MODULE BanPolicy ------------------------------
(***************************************************************************)
(* What coordinator/src/ban_manager.rs makes of one offense: the severity  *)
(* of each offense, the escalation table, and the ban entry an offense     *)
(* leaves behind.  Time is in hours.  No offense has severity Minor, so    *)
(* the warnings of that severity are dead code and are left out.           *)
(***************************************************************************)
EXTENDS Naturals, Sequences

Critical == {"InvalidCommitment", "FakeUtxo", "InsufficientFunds"}
Moderate == {"FailedToReveal", "FailedToSign"}
Offenses == Critical \cup Moderate

\* banned_at and expires_at of a ban are since and until; a permanent ban has
\* neither here.
NoBan == [kind |-> "none", since |-> 0, until |-> 0, count |-> 0, offense |-> "none"]

\* add_permanent_ban and add_temporary_ban insert a fresh entry over the old
\* one; both set its offense_count to 1.
PermanentBan(offense) ==
    [kind |-> "permanent", since |-> 0, until |-> 0, count |-> 1, offense |-> offense]

TemporaryBan(since, hours, offense) ==
    [kind |-> "temporary", since |-> since, until |-> since + hours,
     count |-> 1, offense |-> offense]

\* Whoever is on the list has offended, and a temporary ban ends after it began.
BanEntries ==
    {NoBan}
    \cup [kind : {"permanent"}, since : {0}, until : {0}, count : Nat \ {0},
          offense : Offenses]
    \cup {ban \in [kind : {"temporary"}, since : Nat, until : Nat, count : Nat \ {0},
                    offense : Offenses] : ban.since < ban.until}

IsBanned(ban, now) ==
    \/ ban.kind = "permanent"
    \/ ban.kind = "temporary" /\ ban.until > now

\* Seeded fault for OffenseCount: the count before this offense.
OffensesBefore(ban) == IF ban.kind = "none" THEN 0 ELSE ban.count

\* increment_offense_count: the entry, expired or not, counts one more.
Counted(ban) == IF ban.kind = "none" THEN ban ELSE [ban EXCEPT !.count = @ + 1]
OffenseCount(ban) == IF ban.kind = "none" THEN 1 ELSE ban.count + 1

\* calculate_moderate_action: 1 hour, 6 hours, 1 day, 7 days, 30 days, then
\* a permanent ban.
ModerateHours == <<1, 6, 24, 168, 720>>
MakesPermanent(offense, count) ==
    offense \in Critical \/ count > Len(ModerateHours)

Sentence(offense, count, now) ==
    IF MakesPermanent(offense, count)
    THEN PermanentBan(offense)
    ELSE TemporaryBan(now, ModerateHours[count], offense)

\* record_offense without an interruption between its steps.
Recorded(ban, offense, now) == Sentence(offense, OffenseCount(ban), now)
==============================================================================
