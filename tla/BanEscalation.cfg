SPECIFICATION Spec
CONSTANTS
    p1 = p1
    p2 = p2
    Participants <- MCParticipants
    Raised = {"InvalidCommitment", "FailedToReveal"}
    MaxHours = 2
PROPERTY
    BansEscalate
