CONSTANTS
    n0 = n0
    n1 = n1
    Nodes <- MCNodes
    Self = n0
    Session = s0
    W <- MCWidth
    MaxRound <- MCMaxRoundAll
    MaxCrashes = 2
    Torn = Torn
    NoRound = NoRound
SPECIFICATION Spec
INVARIANT NoEquivocation
\* The runway stops at MaxRound and a refused node stays down.
CHECK_DEADLOCK FALSE
