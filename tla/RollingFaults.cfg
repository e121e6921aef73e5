SPECIFICATION Spec
CONSTANTS
    p1 = p1
    p2 = p2
    p3 = p3
    planA = planA
    planB = planB
    b1 = b1
    b2 = b2
    NoPlan = NoPlan
    NoIntent = NoIntent
    Participants = {p1, p2}
    Intents = {b1, b2}
    Plans = {planA, planB}
    Underfunded = {}
    Malformed = {}
    Wider = {}
    Bypassing = {}
    NoWait = {p1}
    MaxRetries = 1
    MaxRuns = 2
    Returning = {p2}
    Faults = {"slow", "restart", "partial", "utxo", "build", "broadcast"}
    MinParticipants = 2
    MaxParticipants = 3
INVARIANTS
    TypeOK
    AuthorizedSpends
    TemplateAsCommitted
    SuccessMeansLanded
PROPERTY
    QuorumUnlessRemoved
SYMMETRY PlansAlike
