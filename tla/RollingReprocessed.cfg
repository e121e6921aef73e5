SPECIFICATION Spec
CONSTANTS
    p1 = p1
    p2 = p2
    p3 = p3
    planA = planA
    planB = planB
    b1 = b1
    b2 = b2
    NoPlan = NoPlan
    NoIntent = NoIntent
    Participants = {p1, p2, p3}
    Intents = {b1, b2}
    Plans = {planA}
    Underfunded = {}
    Malformed = {}
    Wider = {}
    Bypassing = {}
    NoWait = {}
    MaxRetries = 1
    MaxRuns = 1
    Returning = {}
    Faults = {}
    MinParticipants = 2
    MaxParticipants = 3
PROPERTIES
    OnlyTheDepartedPunished
