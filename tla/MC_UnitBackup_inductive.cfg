CONSTANTS
    n0 = n0
    n1 = n1
    Nodes <- MCNodes
    Self = n0
    Session = s0
    W <- MCWidth
    MaxRound <- MCMaxRound
    MaxCrashes = 2
    Torn = Torn
    NoRound = NoRound
SPECIFICATION Spec
INVARIANT BackupIInv
INVARIANT LoaderIInv
\* The runway stops at MaxRound and a refused node stays down.
CHECK_DEADLOCK FALSE
