SPECIFICATION Spec
CONSTANTS
    p1 = p1
    p2 = p2
    p3 = p3
    p4 = p4
    planA = planA
    planB = planB
    planPoor = planPoor
    planOdd = planOdd
    batch = batch
    Batch = batch
    NoPlan = NoPlan
    NoIntent = NoIntent
    Participants = {p1, p2, p3}
    Intents = {batch}
    Plans = {planA, planPoor, planOdd}
    Underfunded = {planPoor}
    Malformed = {planOdd}
    Wider = {}
    Bypassing = {p2}
    NoWait = {p3}
    MaxRetries = 1
    MaxRuns = 1
    Returning = {}
    Faults = {"link", "erase", "slow", "crash", "partial", "refuse", "utxo", "build", "broadcast"}
    MinParticipants = 2
    MaxParticipants = 3
    Offenders = {}
INVARIANTS
    TypeOK
    AuthorizedSpend
    QuorumSpend
    SuccessMeansLanded
    PermanentBansDeserved
