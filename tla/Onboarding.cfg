SPECIFICATION FairSpec
CONSTANTS
    Nets = {"home", "cafe"}
    MaxDrops = 1
    MaxPackets = 2
    MaxPresses = 1
    MaxPowerFails = 1
INVARIANTS AcceptedIsWhole NetworkIsKnown ResetFindsNetwork
PROPERTIES OnboardingEnds ComesUp
CHECK_DEADLOCK FALSE
