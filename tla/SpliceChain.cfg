CONSTANTS
    Hops = 2
    Aborter <- FallbackConsumer
    Window = 1
    MaxBytes <- ConsumerSends
SPECIFICATION FairSpec
PROPERTIES ImplementsPipe ReturnsOnLoss FinDelivered
CHECK_DEADLOCK FALSE
