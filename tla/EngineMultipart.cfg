SPECIFICATION Spec
CONSTANTS
    Document <- MCDocument
    AdapterHandlers <- MCAdapterHandlers
    Requests = {r1}
    Texts <- MCTexts
    Inputs <- MCMultipartInputs
    Keys <- MCKeys
    KeyScopes <- MCKeyScopes
    UpstreamStatuses = {200, 402, 404}
    MaxVersion = 2
INVARIANTS OwnModelInBody
CHECK_DEADLOCK FALSE
