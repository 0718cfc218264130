SPECIFICATION FairSpec

CONSTANTS
    Deliveries = {d1, d2}
    Settings <- MCSettings
    GlobalHook = FALSE
    MaxRetries = 2
    DialTries = 2
    WebhookTries = 2
    MaxConns = 2
    None = None

INVARIANTS
    DeliveryTypeOK
    NilIsSomeoneElses

PROPERTIES
    DeliversByContract
    AmqpProduceReturns

CHECK_DEADLOCK FALSE
