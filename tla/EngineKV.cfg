\* Contexts of 4 or 6 cells and shifts at 4 or 5 tokens, whichever is set, prompts in
\* pieces of 1: two turns fill the context, and the longer prompt exceeds a batch.
SPECIFICATION Spec
CONSTANTS
    Tokens = {1, 2}
    Contexts = {4, 5}
    Keeps = {1}
    Align = 2
    NBatch = 2
    NUbatch = 1
    Predicts = {1, 2}
    MaxPredict = 2
    Prompts <- MCPrompts
INVARIANTS TypeOK InStep
PROPERTIES ShiftMakesRoom ShiftKeepsBothEnds GenerationEnds
