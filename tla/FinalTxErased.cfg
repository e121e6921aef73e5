SPECIFICATION Spec
CONSTANTS
    p1 = p1
    p2 = p2
    p3 = p3
    p4 = p4
    planA = planA
    planB = planB
    planPoor = planPoor
    planOdd = planOdd
    batch = batch
    Batch = batch
    NoPlan = NoPlan
    NoIntent = NoIntent
    Participants = {p1, p2}
    Intents = {batch}
    Plans = {planA}
    Underfunded = {}
    Malformed = {}
    Wider = {}
    Bypassing = {}
    NoWait = {}
    MaxRetries = 2
    MaxRuns = 1
    Returning = {}
    Faults = {}
    MinParticipants = 2
    MaxParticipants = 2
    Offenders = {}
INVARIANT
    FinalTxReadable
