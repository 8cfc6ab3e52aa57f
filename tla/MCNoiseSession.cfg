SPECIFICATION FairSession
CONSTANTS
    KeyRotationInterval = 3
    MaxUint16 = 2
    Sizes = {1, 3}
    Buffers = {1, 2}
    MaxWritten = 5
INVARIANTS TypeOK KeysAgree ChangesNoticed InOrder KeysInStep NonceOnce
PROPERTIES WrittenArrives
CHECK_DEADLOCK FALSE
