\* "Standard OpenAI-format streaming chunk" (edge_cloud.cpp:497).
SPECIFICATION Spec
CONSTANTS
    TokenForms <- MCCloudForms
    MaxTokens = 2
    MaxRequests = 1
INVARIANT UnderstandsStream
