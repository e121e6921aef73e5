SPECIFICATION FairSpec
CONSTANTS
    p1 = p1
    p2 = p2
    p3 = p3
    p4 = p4
    planA = planA
    planB = planB
    planPoor = planPoor
    planOdd = planOdd
    batch = batch
    Batch = batch
    NoPlan = NoPlan
    NoIntent = NoIntent
    Participants = {p1, p2, p3, p4}
    Intents = {batch}
    Plans = {planA}
    Underfunded = {}
    Malformed = {}
    Wider = {}
    Bypassing = {}
    NoWait = {p3}
    MaxRetries = 2
    MaxRuns = 1
    Returning = {}
    Faults = {}
    MinParticipants = 2
    MaxParticipants = 2
    Offenders = {p4}
INVARIANTS
    NobodyPunished
    MembersInGoodStanding
PROPERTY
    BatchLands
