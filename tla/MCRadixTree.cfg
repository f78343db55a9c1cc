CONSTANTS
    b1 = b1
    b2 = b2
    Blocks <- MCBlocks
    Chains <- MCChains
    MaxEvict = 3
    MaxRefs = 1
    MaxClock = 2
SPECIFICATION TreeSpec
INVARIANTS PrefixClosed
PROPERTIES HeldChainSurvives
