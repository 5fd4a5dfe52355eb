CONSTANTS
    n0 = n0
    n1 = n1
    n2 = n2
    Nodes <- MCNodes
    Self = n0
    Peers <- MCPeers
    Alerts <- MCAlerts
    NoAlert = NoAlert
    Everyone = Everyone
SPECIFICATION LoopSpec
PROPERTY LoopForkerBeforeUnits
\* The loop stops for good on its exit signal or a closed channel.
CHECK_DEADLOCK FALSE
VIEW MCView
