\* Two tasks at once, run through the cloud client or not: the queues, execution, and
\* every task handled in the end.
SPECIFICATION FairSpec
CONSTANTS
    Situations <- MCSituations
    MaxTasks = 2
INVARIANTS
    TypeOK
    ExactlyOnePlace
    QueueOrder
    ReportedInTurn
    QuietAfterStop
PROPERTIES
    AtMostOnceDelivery
    EveryTaskHandled
