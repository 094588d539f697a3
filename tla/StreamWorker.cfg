\* Five lines for a queue of two and two results: the queue overflows, and so do the
\* results.  The program ends.
SPECIFICATION Spec
CONSTANTS
    Batches <- MCBatches
    QueueMax = 2
    ResultsMax = 2
    MaxLines = 5
CHECK_DEADLOCK FALSE
INVARIANTS TypeOK Accounted
PROPERTY Drains
