SPECIFICATION Spec
CONSTANTS
    p1 = p1
    p2 = p2
    p3 = p3
    NoAddress = NoAddress
    Participants = {p1, p2, p3}
    Rates = {1, 60}
    Shapes <- MCShapes
    Proposal <- MCProposal
    Wallets <- MCWallets
    MaxRounds = 2
INVARIANTS
    FeesCovered
    SharesFair
    ValidatedBuilds
    RefusedOnlyForDust
    FinalSigned
CHECK_DEADLOCK FALSE
SYMMETRY Interchangeable
