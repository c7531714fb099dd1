SPECIFICATION FairSpec
CONSTANTS
    Document <- MCDocument
    AdapterHandlers <- MCAdapterHandlers
    Requests = {r1}
    Texts <- MCTexts
    Inputs <- MCInputs
    Keys <- MCKeys
    KeyScopes <- MCKeyScopes
    UpstreamStatuses = {200, 402, 404}
    MaxVersion = 2
INVARIANTS TypeOK AttemptsInOrder AnswerJustified BodiesClosed NoStaleCredential  OnlyAuthorized
PROPERTIES NoWorkAfterAnswer  ImplementsContract 
CHECK_DEADLOCK FALSE
