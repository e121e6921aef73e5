----------------------------- MODULE BanManager -----------------------------
(***************************************************************************)
(* The ban list of coordinator/src/ban_manager.rs while the coordinator's  *)
(* main task and the hourly cleanup task of main.rs share it.              *)
(*                                                                         *)
(* record_offense takes the lock once to count the offense, once more to   *)
(* enter the ban, and a third time to save; the cleanup task may run in    *)
(* between.  A save holds the list for reading while it truncates and      *)
(* rewrites the file, so the list does not change under it.  Single-batch  *)
(* mode runs part of its work under tokio's timeout, which can drop a      *)
(* record_offense half way: the list is unlocked, but its file write goes  *)
(* on by itself on a thread of its own and is called stray here.           *)
(*                                                                         *)
(* fs::write truncates the file and then writes from its start.  Two       *)
(* writes may overlap, those of both tasks or a stray one with either, and *)
(* the longer of two leaves its tail behind the other: they differ in      *)
(* length even for one list, for the time stamp in it has no fixed length. *)
(***************************************************************************)
EXTENDS BanPolicy

CONSTANTS
    Participants,
    Raised,         \* bound: the offenses that are raised
    MaxHours        \* bound: the hours the clock counts

ASSUME RaisedAssumption == Raised \subseteq Offenses
ASSUME HoursAssumption == MaxHours \in Nat

VARIABLES
    now,        \* the clock, in hours
    bans,       \* the list in memory
    disk,       \* ban_list.json
    recorder,   \* where the main task is in record_offense
    sweeper,    \* where the cleanup task is in its loop
    copies,     \* the list each of them has read for its save
    stray       \* an abandoned write that goes on, or that the file is stale

vars == <<now, bans, disk, recorder, sweeper, copies, stray>>

Tasks == {"recorder", "sweeper"}

NoBans == [p \in Participants |-> NoBan]
Lists == [Participants -> BanEntries]

Idle == [step |-> "idle"]
Recording(step, p, offense, count) ==
    [step |-> step, who |-> p, offense |-> offense, count |-> count]

\* A torn file has been truncated and not been written since; a mixed one holds
\* pieces of several writes, or a part of one that failed.  Neither parses.
Files == [kind : {"missing", "torn", "mixed"}] \cup [kind : {"list"}, bans : Lists]
Written(list) == [kind |-> "list", bans |-> list]
Mixed == [kind |-> "mixed"]

\* An abandoned write waits for its thread or has truncated the file; or the file is
\* stale: the last write was an abandoned one, has failed or was mixed with another.
NoStray == [kind |-> "none"]
Stale == [kind |-> "stale"]
Strays == [kind : {"queued", "open"}, bans : Lists]

\* load: a file that is missing or does not parse yields an empty list.
Loaded(file) == IF file.kind = "list" THEN file.bans ELSE NoBans

TypeOK ==
    /\ now \in 0..MaxHours
    /\ bans \in Lists
    /\ disk \in Files
    /\ recorder \in {Idle} \cup
        [step : {"enter", "save", "write"}, who : Participants,
         offense : Offenses, count : Nat \ {0}]
    /\ sweeper \in {"sleep", "due", "save", "write"}
    /\ copies \in [Tasks -> Lists]
    /\ stray \in {NoStray, Stale} \cup Strays

Init ==
    /\ now = 0
    /\ bans = NoBans
    /\ disk = [kind |-> "missing"]
    /\ recorder = Idle
    /\ sweeper = "sleep"
    /\ copies = [t \in Tasks |-> NoBans]
    /\ stray = NoStray

-----------------------------------------------------------------------------
\* Seeded fault for Unlocked: save gives the list back before it writes the file.
UnlockedEarly == TRUE

\* A save that is writing holds both lists for reading, and nobody writes.
Unlocked == recorder.step # "write" /\ sweeper # "write"

\* record_offense, Moderate: increment_offense_count.
CountOffense(p, offense) ==
    /\ recorder = Idle
    /\ Unlocked
    /\ offense \in Moderate
    /\ bans' = [bans EXCEPT ![p] = Counted(@)]
    /\ recorder' = Recording("enter", p, offense, OffenseCount(bans[p]))
    /\ UNCHANGED <<now, disk, sweeper, copies, stray>>

\* record_offense, Moderate: calculate_moderate_action and the ban it asks for.
EnterBan ==
    /\ recorder.step = "enter"
    /\ Unlocked
    /\ bans' = [bans EXCEPT ![recorder.who] =
                    Sentence(recorder.offense, recorder.count, now)]
    /\ recorder' = [recorder EXCEPT !.step = "save"]
    /\ UNCHANGED <<now, disk, sweeper, copies, stray>>

\* record_offense, Critical: add_permanent_ban at once.
EnterPermanentBan(p, offense) ==
    /\ recorder = Idle
    /\ Unlocked
    /\ offense \in Critical
    /\ bans' = [bans EXCEPT ![p] = PermanentBan(offense)]
    /\ recorder' = Recording("save", p, offense, 1)
    /\ UNCHANGED <<now, disk, sweeper, copies, stray>>

\* save: the list is read, and fs::write truncates the file ...
ReadList(task) ==
    /\ copies' = [copies EXCEPT ![task] = bans]
    /\ disk' = [kind |-> "torn"]

\* The writes that have truncated the file and are not at their end.
Writers ==
    {t \in Tasks : IF t = "recorder" THEN recorder.step = "write" ELSE sweeper = "write"}
    \cup IF stray.kind = "open" THEN {"stray"} ELSE {}

\* What a write leaves at its end.  It has had the file to itself if nobody else is
\* writing and the file is as its truncation has left it.
Outcomes(writer, list) ==
    {Written(list)}
    \cup IF Writers = {writer} /\ disk.kind = "torn" THEN {} ELSE {Mixed}

\* ... which holds the whole list when it returns, unless another write got in the
\* way.  A completed save makes good what a late write or a failed save has spoilt.
WriteList(task) ==
    /\ disk' \in Outcomes(task, copies[task])
    /\ copies' = [copies EXCEPT ![task] = NoBans]
    /\ stray' = IF stray \in Strays THEN stray
                ELSE IF disk' = Mixed THEN Stale ELSE NoStray

\* The file cannot be opened, or not be written once it is truncated.
SpoilFile(task) ==
    /\ disk' \in {disk} \cup IF task \in Writers THEN {Mixed} ELSE {}
    /\ copies' = [copies EXCEPT ![task] = NoBans]
    /\ stray' = IF stray = NoStray THEN Stale ELSE stray

BeginSave ==
    /\ recorder.step = "save"
    /\ recorder' = [recorder EXCEPT !.step = "write"]
    /\ ReadList("recorder")
    /\ UNCHANGED <<now, bans, sweeper, stray>>

EndSave ==
    /\ recorder.step = "write"
    /\ recorder' = Idle
    /\ WriteList("recorder")
    /\ UNCHANGED <<now, bans, sweeper>>

\* record_offense drops the error of a save: it returns as if the ban were stored.
FailSave ==
    /\ recorder.step \in {"save", "write"}
    /\ recorder' = Idle
    /\ SpoilFile("recorder")
    /\ UNCHANGED <<now, bans, sweeper>>

\* collect_reveals is dropped by its timeout while its record_offense waits for
\* the write: the only await of that call that is ever pending for long.  Bound: one
\* abandoned write at a time.
Abandon ==
    /\ recorder.step = "write"
    /\ recorder.offense = "InvalidCommitment"
    /\ stray \in {NoStray, Stale}
    /\ recorder' = Idle
    /\ \E kind \in {"queued", "open"} :
        stray' = [kind |-> kind, bans |-> copies["recorder"]]
    /\ copies' = [copies EXCEPT !["recorder"] = NoBans]
    /\ UNCHANGED <<now, bans, disk, sweeper>>

\* The abandoned write opens the file, truncates it ...
StrayOpen ==
    /\ stray.kind = "queued"
    /\ disk' = [kind |-> "torn"]
    /\ stray' = [stray EXCEPT !.kind = "open"]
    /\ UNCHANGED <<now, bans, recorder, sweeper, copies>>

\* ... and writes the list of its time.
StrayWrite ==
    /\ stray.kind = "open"
    /\ disk' \in Outcomes("stray", stray.bans)
    /\ stray' = IF disk' = Written(bans) THEN NoStray ELSE Stale
    /\ UNCHANGED <<now, bans, recorder, sweeper, copies>>

StrayFails ==
    /\ stray \in Strays
    /\ disk' \in {disk} \cup IF stray.kind = "open" THEN {Mixed} ELSE {}
    /\ stray' = Stale
    /\ UNCHANGED <<now, bans, recorder, sweeper, copies>>

-----------------------------------------------------------------------------
\* Seeded fault for Expired: the comparison with the clock is one hour too generous.
ExpiredSoon(ban) == ban.kind = "temporary" /\ ban.until <= now + 1

\* cleanup_expired_bans
Expired(ban) == ban.kind = "temporary" /\ ban.until <= now
Unexpired == [p \in Participants |-> IF Expired(bans[p]) THEN NoBan ELSE bans[p]]

Sweep ==
    /\ sweeper = "due"
    /\ Unlocked
    /\ bans' = Unexpired
    /\ sweeper' = "save"
    /\ UNCHANGED <<now, disk, recorder, copies, stray>>

BeginSweepSave ==
    /\ sweeper = "save"
    /\ sweeper' = "write"
    /\ ReadList("sweeper")
    /\ UNCHANGED <<now, bans, recorder, stray>>

EndSweepSave ==
    /\ sweeper = "write"
    /\ sweeper' = "sleep"
    /\ WriteList("sweeper")
    /\ UNCHANGED <<now, bans, recorder>>

\* The cleanup task logs the error, and tries again in an hour.
FailSweepSave ==
    /\ sweeper \in {"save", "write"}
    /\ sweeper' = "sleep"
    /\ SpoilFile("sweeper")
    /\ UNCHANGED <<now, bans, recorder>>

-----------------------------------------------------------------------------
\* An hour passes, and the cleanup task's sleep ends.
Tick ==
    /\ now < MaxHours
    /\ now' = now + 1
    /\ sweeper' = IF sweeper = "sleep" THEN "due" ELSE sweeper
    /\ UNCHANGED <<bans, disk, recorder, copies, stray>>

\* The process dies at any point and is started again: main loads the file.
Restart ==
    /\ bans' = Loaded(disk)
    /\ recorder' = Idle
    /\ sweeper' = "sleep"
    /\ copies' = [t \in Tasks |-> NoBans]
    /\ stray' = NoStray
    /\ UNCHANGED <<now, disk>>

Next ==
    \/ \E p \in Participants, offense \in Raised :
        CountOffense(p, offense) \/ EnterPermanentBan(p, offense)
    \/ EnterBan \/ BeginSave \/ EndSave \/ FailSave
    \/ Abandon \/ StrayOpen \/ StrayWrite \/ StrayFails
    \/ Sweep \/ BeginSweepSave \/ EndSweepSave \/ FailSweepSave
    \/ Tick \/ Restart

Spec == Init /\ [][Next]_vars

-----------------------------------------------------------------------------
\* Neither task is between a change of the list and the end of its save.
Quiet == recorder = Idle /\ sweeper \in {"sleep", "due"}
Settled == Quiet /\ stray = NoStray

\* While both tasks are quiet, a restart would load exactly the list in memory: no
\* interleaving of record_offense and the cleanup task loses a ban or revives one.
\* An abandoned write that comes late, a save that fails, or two that overlap spoil
\* the file no longer than until the next save completes.
DurableWhenSettled == Settled => Loaded(disk) = bans

\* A ban ends by expiring and in no other way, neither by another offense nor by
\* the cleanup task, and a restart forgets one only if it interrupts a save or
\* follows one that failed.
NoEarlyRelease ==
    [][\A p \in Participants :
        IsBanned(bans[p], now) /\ ~IsBanned(bans'[p], now') =>
            \/ bans[p].kind = "temporary" /\ bans[p].until <= now'
            \/ Restart /\ ~Settled]_vars

\* ban_manager.rs:484 calls the ban for a critical offense permanent: no later
\* offense of the same participant may turn it into a temporary one.
PermanentIsForever ==
    [][\A p \in Participants :
        bans[p].kind = "permanent" => bans'[p].kind = "permanent" \/ Restart]_vars

\* ban_manager.rs:135 calls the bans for moderate offenses escalating: an offense
\* of a participant that is on the list is punished for longer than the last.
BansEscalate ==
    [][\A p \in Participants :
        EnterBan /\ p = recorder.who /\ bans[p].kind = "temporary" =>
            \/ bans'[p].kind = "permanent"
            \/ bans'[p].until - bans'[p].since > bans[p].until - bans[p].since]_vars
=============================================================================
