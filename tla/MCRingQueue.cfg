CONSTANTS
    a = a  b = b  c = c
    NoMsg = NoMsg
    Msgs = {a, b, c}
    Producers = {"main"}
    Consumers = {"net"}
    Length <- LengthVal
    HeadLen = 2
    Size = 4
    Modulus = 8
    MaxPush = 4
SPECIFICATION FairSpec
INVARIANTS TypeOK SpaceExact PendingIntact ReadsOldestRecord
PROPERTIES ImplementsQueue EventuallyDelivered
