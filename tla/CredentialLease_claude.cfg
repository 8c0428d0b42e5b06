SPECIFICATION LiveSpec
CONSTANTS
    Brokers = {b1, b2}
    Workers = {w1}
    MaxTokens = 3
    MaxRows = 2
INVARIANTS TypeOK TokenKept RevokedIsDead
PROPERTIES OneManager KeepsChain
