CONSTANTS
    n0 = n0
    n1 = n1
    Nodes <- MCNodes
    Self = n0
    Session = s0
    W <- MCWidth
    MaxRound <- MCMaxRound
    MaxCrashes = 2
    Torn = Torn
    NoRound = NoRound
    s1 = s1
SPECIFICATION RefSpec
\* The log is fixed; the spec takes no step.
CHECK_DEADLOCK FALSE
INVARIANT VerifyUnitsAsSpecified
