SPECIFICATION Spec
CONSTANTS
    Items = {i1, i2, i3, i4}
    NULL = NULL
    MaxValues = 2
INVARIANTS
    TypeOK
    ListRepresents
    QueuedItemsAreLive
    QueueCommandShowsOrder
PROPERTIES
    ImplementsWriteQueue
