\* The client against every stream of up to three tokens, in any pieces.
SPECIFICATION FairSpec
CONSTANTS
    TokenForms <- MCTokenForms
    MaxTokens = 3
    MaxRequests = 2
INVARIANTS
    TypeOK
    TokensInOrder
    AnswerComplete
    EndReported
PROPERTIES
    ImplementsCloudRequest
    RequestEnds
    StopReturns
