SPECIFICATION Spec
CONSTANTS
    p1 = p1
    p2 = p2
    p3 = p3
    NoAddress = NoAddress
    Participants = {p1, p2}
    Rates = {1}
    Shapes <- MCShapes
    Proposal <- MCProposal
    Wallets <- MCWallets
    MaxRounds = 1
INVARIANTS
    DustMayBeOmitted
CHECK_DEADLOCK FALSE
