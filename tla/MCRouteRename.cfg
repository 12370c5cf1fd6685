SPECIFICATION Spec
CONSTANTS
    Prefixes = {"half", "lan"}
    Adapters <- RenamedAdapters
    Tun <- MCTun
    NoExit = NoExit
    Networks <- RenamedNetworks
    Split <- MCSplit
    Exclusions <- MCExclusions
    MaxRoutes = 3
    Meddling = FALSE
PROPERTY KeepsDesired
