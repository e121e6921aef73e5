-------------------------- MODULE BanManagerProofs --------------------------
(***************************************************************************)
(* Theorems about BanManager, for any set of participants and any number   *)
(* of hours: the types, the file that agrees with the list whenever both   *)
(* tasks are quiet, and the only ways in which a ban ends.                 *)
(***************************************************************************)
EXTENDS BanManager, BanPolicyProofs

-----------------------------------------------------------------------------
(* The list and its file.                                                    *)

LEMMA NoBansTyped == NoBans \in Lists
  BY NoBanTyped DEF NoBans, Lists

\* Whatever the file holds, loading it yields a list.
LEMMA LoadedTyped ==
    ASSUME NEW file \in Files
    PROVE  Loaded(file) \in Lists
  <1>1. CASE file \in [kind : {"missing", "torn", "mixed"}]
    BY <1>1, NoBansTyped DEF Loaded
  <1>2. CASE file \in [kind : {"list"}, bans : Lists]
    BY <1>2 DEF Loaded
  <1> QED
    BY <1>1, <1>2 DEF Files

LEMMA WrittenLoads ==
    ASSUME NEW list \in Lists
    PROVE  /\ Written(list) \in Files /\ Loaded(Written(list)) = list
           /\ Written(list) # Mixed
  BY DEF Written, Mixed, Loaded, Files

\* A write leaves its list behind or a mixture.
LEMMA OutcomesTyped ==
    ASSUME NEW list \in Lists, NEW writer, NEW file \in Outcomes(writer, list)
    PROVE  file \in Files /\ (file = Written(list) \/ file = Mixed)
  BY WrittenLoads DEF Outcomes, Mixed, Files

LEMMA SpoiltTyped ==
    ASSUME NEW task \in Tasks, TypeOK, SpoilFile(task)
    PROVE  /\ disk' \in Files /\ copies' \in [Tasks -> Lists]
           /\ stray' \in {NoStray, Stale} \cup Strays /\ stray' # NoStray
  BY NoBansTyped DEF SpoilFile, TypeOK, Files, Mixed, NoStray, Stale, Strays

LEMMA WriteTyped ==
    ASSUME NEW task \in Tasks, TypeOK, WriteList(task)
    PROVE  /\ disk' \in Files /\ copies' \in [Tasks -> Lists]
           /\ stray' \in {NoStray, Stale} \cup Strays
           /\ stray' = NoStray => disk' = Written(copies[task])
  <1>1. copies[task] \in Lists
    BY DEF TypeOK
  <1>2. disk' \in Files /\ (disk' = Written(copies[task]) \/ disk' = Mixed)
    BY <1>1, OutcomesTyped DEF WriteList
  <1> QED
    BY <1>1, <1>2, NoBansTyped DEF WriteList, TypeOK, NoStray, Stale, Strays

-----------------------------------------------------------------------------
(* Types.                                                                    *)

LEMMA TypeInit == Init => TypeOK
  BY HoursAssumption, NoBansTyped DEF Init, TypeOK, Files, Tasks

LEMMA TypeStep == TypeOK /\ [Next]_vars => TypeOK'
  <1> SUFFICES ASSUME TypeOK, [Next]_vars
               PROVE  TypeOK'
    OBVIOUS
  <1> USE DEF TypeOK
  <1>0. now \in Nat
    BY HoursAssumption
  <1>1. ASSUME NEW p \in Participants, NEW offense \in Raised,
               CountOffense(p, offense)
        PROVE  TypeOK'
    <2>1. bans[p] \in BanEntries
      BY DEF Lists
    <2>2. bans' \in Lists
      BY <1>1, <2>1, CountedTyped DEF CountOffense, Lists
    <2>3. recorder' \in [step : {"enter", "save", "write"}, who : Participants,
                         offense : Offenses, count : Nat \ {0}]
      BY <1>1, <2>1, CountedTyped, RaisedAssumption DEF CountOffense, Recording
    <2> QED
      BY <1>1, <2>2, <2>3 DEF CountOffense
  <1>2. ASSUME NEW p \in Participants, NEW offense \in Raised,
               EnterPermanentBan(p, offense)
        PROVE  TypeOK'
    <2>1. bans' \in Lists
      BY <1>2, PermanentTyped, RaisedAssumption DEF EnterPermanentBan, Lists
    <2>2. recorder' \in [step : {"enter", "save", "write"}, who : Participants,
                         offense : Offenses, count : Nat \ {0}]
      BY <1>2, RaisedAssumption DEF EnterPermanentBan, Recording
    <2> QED
      BY <1>2, <2>1, <2>2 DEF EnterPermanentBan
  <1>3. CASE EnterBan
    <2>1. recorder \in [step : {"enter", "save", "write"}, who : Participants,
                        offense : Offenses, count : Nat \ {0}]
      BY <1>3 DEF EnterBan, Idle
    <2>2. Sentence(recorder.offense, recorder.count, now) \in BanEntries
      BY <1>0, <2>1, SentenceBans
    <2>3. bans' \in Lists
      BY <1>3, <2>1, <2>2 DEF EnterBan, Lists
    <2>4. recorder' \in [step : {"enter", "save", "write"}, who : Participants,
                         offense : Offenses, count : Nat \ {0}]
      BY <1>3, <2>1 DEF EnterBan
    <2> QED
      BY <1>3, <2>3, <2>4 DEF EnterBan
  <1>4. CASE BeginSave
    <2>1. recorder \in [step : {"enter", "save", "write"}, who : Participants,
                        offense : Offenses, count : Nat \ {0}]
      BY <1>4 DEF BeginSave, Idle
    <2>2. recorder' \in [step : {"enter", "save", "write"}, who : Participants,
                         offense : Offenses, count : Nat \ {0}]
      BY <1>4, <2>1 DEF BeginSave
    <2> QED
      BY <1>4, <2>2 DEF BeginSave, ReadList, Files, Tasks
  <1>5. CASE EndSave
    BY <1>5, WriteTyped DEF EndSave, Tasks
  <1>6. CASE Abandon
    BY <1>6, NoBansTyped DEF Abandon, Tasks, Strays
  <1>7. CASE StrayWrite
    <2>1. stray.bans \in Lists
      BY <1>7 DEF StrayWrite, NoStray, Stale, Strays
    <2>2. disk' \in Files
      BY <1>7, <2>1, OutcomesTyped DEF StrayWrite
    <2> QED
      BY <1>7, <2>2 DEF StrayWrite
  <1>8. CASE Sweep
    <2>1. Unexpired \in Lists
      BY NoBanTyped DEF Unexpired, Lists
    <2> QED
      BY <1>8, <2>1 DEF Sweep
  <1>9. CASE BeginSweepSave
    BY <1>9 DEF BeginSweepSave, ReadList, Files, Tasks
  <1>10. CASE EndSweepSave
    BY <1>10, WriteTyped DEF EndSweepSave, Tasks
  <1>11. CASE Tick
    BY <1>11, HoursAssumption DEF Tick
  <1>12. CASE Restart
    BY <1>12, LoadedTyped, NoBansTyped DEF Restart, Tasks
  <1>13. CASE FailSave
    BY <1>13, SpoiltTyped DEF FailSave, Tasks
  <1>14. CASE FailSweepSave
    BY <1>14, SpoiltTyped DEF FailSweepSave, Tasks
  <1>15. CASE StrayOpen
    BY <1>15 DEF StrayOpen, Files, NoStray, Stale, Strays
  <1>16. CASE StrayFails
    BY <1>16 DEF StrayFails, Files, Mixed
  <1>17. CASE UNCHANGED vars
    BY <1>17 DEF vars
  <1> QED
    BY <1>1, <1>2, <1>3, <1>4, <1>5, <1>6, <1>7, <1>8, <1>9, <1>10, <1>11,
       <1>12, <1>13, <1>14, <1>15, <1>16, <1>17 DEF Next

\* The list, the file and the progress of both tasks stay well formed, for any
\* participants and any length of time.
THEOREM TypeCorrect == Spec => []TypeOK
  <1>1. TypeOK /\ [Next]_vars => TypeOK'
    BY TypeStep
  <1> QED
    BY TypeInit, <1>1, PTL DEF Spec

-----------------------------------------------------------------------------
(* The file.                                                                 *)

\* A save that is writing holds the list for reading, so what it writes is the
\* list: without this DurableWhenSettled would not survive the end of a save.
SavesCurrent ==
    /\ recorder.step = "write" => copies["recorder"] = bans
    /\ sweeper = "write" => copies["sweeper"] = bans

FileInv == TypeOK /\ SavesCurrent /\ DurableWhenSettled

LEMMA FileInit == Init => FileInv
  BY TypeInit
  DEF Init, FileInv, SavesCurrent, DurableWhenSettled, Settled, Quiet, Idle, Loaded

LEMMA FileStep == FileInv /\ [Next]_vars => FileInv'
  <1> SUFFICES ASSUME FileInv, [Next]_vars
               PROVE  SavesCurrent' /\ DurableWhenSettled'
    BY TypeStep DEF FileInv
  <1> USE DEF FileInv, SavesCurrent, DurableWhenSettled, Settled, Quiet
  <1>1. ASSUME NEW p \in Participants, NEW offense \in Raised,
               CountOffense(p, offense)
        PROVE  SavesCurrent' /\ DurableWhenSettled'
    BY <1>1 DEF CountOffense, Unlocked, Recording, Idle
  <1>2. ASSUME NEW p \in Participants, NEW offense \in Raised,
               EnterPermanentBan(p, offense)
        PROVE  SavesCurrent' /\ DurableWhenSettled'
    BY <1>2 DEF EnterPermanentBan, Unlocked, Recording, Idle
  <1>3. CASE EnterBan
    <2>1. recorder'.step = "save"
      BY <1>3 DEF EnterBan, TypeOK, Idle
    <2>2. recorder' # Idle
      BY <2>1 DEF Idle
    <2> QED
      BY <1>3, <2>1, <2>2 DEF EnterBan, Unlocked
  <1>4. CASE BeginSave
    <2>1. recorder'.step = "write"
      BY <1>4 DEF BeginSave, TypeOK, Idle
    <2>2. recorder' # Idle
      BY <2>1 DEF Idle
    <2> QED
      BY <1>4, <2>1, <2>2 DEF BeginSave, ReadList, TypeOK, Tasks
  <1>5. CASE EndSave
    <2>1. stray' = NoStray => Loaded(disk') = bans'
      BY <1>5, WriteTyped, WrittenLoads DEF EndSave, TypeOK, Tasks
    <2> QED
      BY <1>5, <2>1 DEF EndSave, WriteList, TypeOK, Tasks, Idle
  <1>6. CASE Abandon
    BY <1>6 DEF Abandon, TypeOK, Tasks, Idle, NoStray
  <1>7. CASE StrayWrite
    <2>1. bans' = bans /\ UNCHANGED <<recorder, sweeper, copies>>
      BY <1>7 DEF StrayWrite
    <2>2. ASSUME stray' = NoStray
          PROVE  Loaded(disk') = bans'
      <3>1. disk' = Written(bans) /\ bans \in Lists
        BY <1>7, <2>2 DEF StrayWrite, NoStray, Stale, TypeOK
      <3> QED
        BY <2>1, <3>1, WrittenLoads
    <2> QED
      BY <2>1, <2>2
  <1>8. CASE Sweep
    BY <1>8 DEF Sweep, Unlocked
  <1>9. CASE BeginSweepSave
    BY <1>9 DEF BeginSweepSave, ReadList, TypeOK, Tasks
  <1>10. CASE EndSweepSave
    <2>1. stray' = NoStray => Loaded(disk') = bans'
      BY <1>10, WriteTyped, WrittenLoads DEF EndSweepSave, TypeOK, Tasks
    <2> QED
      BY <1>10, <2>1 DEF EndSweepSave, WriteList, TypeOK, Tasks
  <1>11. CASE Tick
    BY <1>11 DEF Tick
  <1>12. CASE Restart
    BY <1>12 DEF Restart, Idle
  <1>13. CASE FailSave
    <2>1. stray' # NoStray
      BY <1>13, SpoiltTyped DEF FailSave, Tasks
    <2> QED
      BY <1>13, <2>1 DEF FailSave, SpoilFile, TypeOK, Tasks, Idle
  <1>14. CASE FailSweepSave
    <2>1. stray' # NoStray
      BY <1>14, SpoiltTyped DEF FailSweepSave, Tasks
    <2> QED
      BY <1>14, <2>1 DEF FailSweepSave, SpoilFile, TypeOK, Tasks
  <1>15. CASE StrayOpen
    <2>1. stray' # NoStray
      BY <1>15 DEF StrayOpen, TypeOK, NoStray, Stale, Strays
    <2> QED
      BY <1>15, <2>1 DEF StrayOpen
  <1>16. CASE StrayFails
    BY <1>16 DEF StrayFails, Stale, NoStray
  <1>17. CASE UNCHANGED vars
    BY <1>17 DEF vars
  <1> QED
    BY <1>1, <1>2, <1>3, <1>4, <1>5, <1>6, <1>7, <1>8, <1>9, <1>10, <1>11,
       <1>12, <1>13, <1>14, <1>15, <1>16, <1>17 DEF Next

LEMMA FileInvariant == Spec => []FileInv
  <1>1. FileInv /\ [Next]_vars => FileInv'
    BY FileStep
  <1> QED
    BY FileInit, <1>1, PTL DEF Spec

\* Whenever both tasks are quiet, no abandoned write is pending and the last save
\* was in time and has not failed, the file loads to the list in memory.
THEOREM Durable == Spec => []DurableWhenSettled
  <1>1. FileInv => DurableWhenSettled
    BY DEF FileInv
  <1> QED
    BY FileInvariant, <1>1, PTL

-----------------------------------------------------------------------------
(* The end of a ban.                                                         *)

LEMMA ReleaseStep ==
    ASSUME FileInv, [Next]_vars, NEW p \in Participants,
           IsBanned(bans[p], now), ~IsBanned(bans'[p], now')
    PROVE  \/ bans[p].kind = "temporary" /\ bans[p].until <= now'
           \/ Restart /\ ~Settled
  <1> USE DEF FileInv, TypeOK
  <1>0. now \in Nat /\ bans[p] \in BanEntries
    BY HoursAssumption DEF Lists
  <1>1. ASSUME NEW q \in Participants, NEW offense \in Raised,
               CountOffense(q, offense)
        PROVE  FALSE
    BY <1>0, <1>1 DEF CountOffense, Counted, IsBanned, Lists, BanEntries
  <1>2. ASSUME NEW q \in Participants, NEW offense \in Raised,
               EnterPermanentBan(q, offense)
        PROVE  FALSE
    BY <1>0, <1>2 DEF EnterPermanentBan, PermanentBan, IsBanned, Lists
  <1>3. ASSUME EnterBan
        PROVE  FALSE
    <2>1. recorder.who \in Participants /\ recorder.offense \in Offenses
          /\ recorder.count \in Nat \ {0}
      BY <1>3 DEF EnterBan, Idle
    <2>2. IsBanned(Sentence(recorder.offense, recorder.count, now), now)
      BY <1>0, <2>1, SentenceBans
    <2> QED
      BY <1>3, <2>1, <2>2 DEF EnterBan, Lists
  <1>4. ASSUME Sweep
        PROVE  bans[p].kind = "temporary" /\ bans[p].until <= now'
    BY <1>0, <1>4 DEF Sweep, Unexpired, Expired
  <1>5. ASSUME Tick
        PROVE  bans[p].kind = "temporary" /\ bans[p].until <= now'
    <2>1. bans[p].kind = "temporary" /\ ~(bans[p].until > now')
      BY <1>5 DEF Tick, IsBanned
    <2>2. bans[p].until \in Nat /\ now' \in Nat
      BY <1>0, <1>5, <2>1, TemporaryUntil DEF Tick
    <2> QED
      BY <2>1, <2>2
  <1>6. ASSUME Restart
        PROVE  ~Settled
    BY <1>6 DEF Restart, DurableWhenSettled
  <1>7. ASSUME BeginSave \/ EndSave \/ Abandon \/ StrayOpen \/ StrayWrite
               \/ StrayFails \/ BeginSweepSave \/ EndSweepSave \/ FailSave
               \/ FailSweepSave \/ UNCHANGED vars
        PROVE  FALSE
    BY <1>7 DEF BeginSave, EndSave, Abandon, StrayOpen, StrayWrite, StrayFails,
                BeginSweepSave, EndSweepSave, FailSave, FailSweepSave, vars
  <1> QED
    BY <1>1, <1>2, <1>3, <1>4, <1>5, <1>6, <1>7 DEF Next

\* No offense and no cleanup ends a ban before its time, and a restart forgets
\* one only if it comes between a change of the list and the end of its save, or
\* after a save that failed.
THEOREM BansHold == Spec => NoEarlyRelease
  <1>1. FileInv /\ [Next]_vars =>
            [\A p \in Participants :
                IsBanned(bans[p], now) /\ ~IsBanned(bans'[p], now') =>
                    \/ bans[p].kind = "temporary" /\ bans[p].until <= now'
                    \/ Restart /\ ~Settled]_vars
    BY ReleaseStep
  <1> QED
    BY FileInvariant, <1>1, PTL DEF Spec, NoEarlyRelease
=============================================================================
