CONSTANTS
    cn = cn  ads = ads  geosite = geosite  provider = provider
    old = old  new = new  bad = bad  c1 = c1  c2 = c2
    Refs = {cn, ads}
    Assets = {geosite, provider}
    AssetOf <- MCAssetOf
    Providers = {provider}
    DnsRefs = {ads}
    Contents = {old, new, bad}
    NamedBy <- MCNamedBy
    Corrupt = {bad}
    Missing = Missing
    Unbound = Unbound
    RuleLists <- MCRuleLists
    Modes = {"rule"}
    Clients = {c1, c2}
    Keep = Keep
    Documents <- MCDocuments
    Delays = {1, 3}
    Tolerance = 1
    Longest = 9
    Nothing = Nothing
SPECIFICATION SpecAny
SYMMETRY Symmetry
INVARIANTS ShownRulesInForce OneSnapshot StaleOnlyAfterRace LeafResolves
PROPERTIES LeavesSilentNode
CHECK_DEADLOCK FALSE
