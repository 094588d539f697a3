\* A stop request does not end every turn.
SPECIFICATION FairSpec
CONSTANTS
    MaxTurns = 2
    MaxTokens = 1
PROPERTY StopEndsTurn
