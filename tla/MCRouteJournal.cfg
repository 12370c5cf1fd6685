SPECIFICATION Spec
CONSTANTS
    Prefixes = {"half", "lan", "dns"}
    Adapters <- TwoAdapters
    Tun <- MCTun
    NoExit = NoExit
    Networks <- TwoNetworks
    Split <- MCSplit
    Exclusions <- MCExclusions
    MaxRoutes = 3
    Meddling = FALSE
INVARIANTS Recoverable RoutesInPlace
PROPERTIES OthersUntouched
