\* A chat that is folded.
SPECIFICATION Spec
CONSTANTS
    a1 = a1
    a2 = a2
    alice = alice
    ann = ann
    bea = bea
    ned = ned
    meg = meg
    Turns = {a1, a2}
    Sessions = {alice}
    SessionOf <- MCSessionOf
    Structured = {ann, bea}
    Named = {ned, meg}
    Unset = Unset
    Question <- MCQuestion
    RowTexts <- MCRowTexts
    MaxTokens = 2
    CriticEnabled = FALSE
    KeepLast = 1
    MaxRestarts = 1
CHECK_DEADLOCK FALSE
INVARIANT ModelsSeeNoValues
