SPECIFICATION FairSpec
CONSTANTS
    p1 = p1
    p2 = p2
    p3 = p3
    p4 = p4
    planA = planA
    planB = planB
    planPoor = planPoor
    planOdd = planOdd
    batch = batch
    Batch = batch
    NoPlan = NoPlan
    NoIntent = NoIntent
    Participants = {p1, p2}
    Intents = {batch}
    Plans = {planA, planPoor}
    Underfunded = {planPoor}
    Malformed = {}
    Wider <- MCWider
    Bypassing = {p2}
    NoWait = {}
    MaxRetries = 1
    MaxRuns = 2
    Returning = {p2}
    Faults = {"link", "erase", "slow", "crash", "partial", "refuse", "build", "broadcast"}
    MinParticipants = 1
    MaxParticipants = 2
    Offenders = {}
INVARIANTS
    TemplateAsCommitted
    PermanentBansDeserved
    MembersInGoodStanding
PROPERTIES
    AgreementSpec
    EverybodyStops
