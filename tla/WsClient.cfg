SPECIFICATION WsSpec
CONSTANTS
    Sockets = {s1, s2, s3}
    NoSocket = none
    MaxUnderway = 3
    s1 = s1
    s2 = s2
    s3 = s3
    none = none
INVARIANTS
    WsTypeOK
    OneLiveSocket
    RetryHasSession
    RetryIsUnderWay
PROPERTIES
    LostIsRetried
