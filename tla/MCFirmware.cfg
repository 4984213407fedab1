\* The program's eight samples and four slots.  Up to two more queue objects
\* are constructed while the threads run: the system may then stop with a
\* thread pended for ever.
SPECIFICATION Spec
CONSTANTS
    SampleCount = 8
    QueueCapacity = 4
    MaxPurges = 2
INVARIANT
    TypeOK
    NothingIsLost
    TransmittedLeadsByOne
    NoOrphanWaits
    SummaryIsTruthful
    NotBothPended
    DeliveryOrder
PROPERTY
    SnapshotIsFinal
    ImplementsStream
    EventuallySummary
    EndsOrHangs
CHECK_DEADLOCK FALSE
