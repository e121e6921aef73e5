SPECIFICATION FairSpec
CONSTANTS
    p1 = p1
    p2 = p2
    p3 = p3
    planA = planA
    planB = planB
    b1 = b1
    b2 = b2
    NoPlan = NoPlan
    NoIntent = NoIntent
    Participants = {p1, p2, p3}
    Intents = {b1, b2}
    Plans = {planA}
    Underfunded = {}
    Malformed = {}
    Wider = {}
    Bypassing = {}
    NoWait = {p2, p3}
    MaxRetries = 1
    MaxRuns = 1
    Returning = {}
    Faults = {}
    MinParticipants = 1
    MaxParticipants = 2
PROPERTIES
    QuorumUnlessRemoved
    WaitingUnpunished
    MarkedCompletes
    AttendedLands
