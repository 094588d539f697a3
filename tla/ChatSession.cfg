\* Two turns against the engine, the loader and the buttons.
SPECIFICATION FairSpec
CONSTANTS
    MaxTurns = 2
    MaxTokens = 2
INVARIANTS
    TypeOK
    OwnAnswer
    FinishedAnswerComplete
PROPERTIES
    AnswersStand
    AcceptedTurnEnds
