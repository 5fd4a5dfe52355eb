CONSTANTS
    n0 = n0
    n1 = n1
    n2 = n2
    Nodes <- MCNodes
    Self = n0
    Peers <- MCPeers
    Alerts <- MCAlerts
    NoAlert = NoAlert
    Everyone = Everyone
    NoEntry = NoEntry
SPECIFICATION Spec
INVARIANT MultisignedRecorded
\* Both tasks stop for good on their exit signals or a closed channel.
CHECK_DEADLOCK FALSE
VIEW MCView
