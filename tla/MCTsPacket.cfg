SPECIFICATION Spec
CONSTANTS
    MaxPayload = 560
    CounterRange = 4
    MaxPes = 2
    PayloadSizes <- MCPayloadSizes
INVARIANTS
    ReservedExactly
    PacketFilled
CHECK_DEADLOCK FALSE
