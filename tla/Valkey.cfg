\* Limit 1: alice's second question in a window is one too many.
SPECIFICATION Spec
CONSTANTS
    alice = alice
    bob = bob
    a1 = a1
    a2 = a2
    b1 = b1
    small = small
    large = large
    prompt = prompt
    Questions = {a1, a2, b1}
    Users = {alice, bob}
    Models = {small, large}
    Prompts = {prompt}
    Asker <- MCAsker
    ModelOf <- MCModelOf
    PromptOf <- MCPromptOf
    Limit = 1
    MaxWindow = 1
    Fragile = {a1}
    MaxOutages = 1
    MaxRestarts = 1
CHECK_DEADLOCK FALSE
INVARIANTS
    TypeOK
    AtMostLimit
    RefusalsAreOwn
    TextsAreOwn
PROPERTY
    QuestionsEnd
