------------------------------ MODULE MCPolicy ------------------------------
EXTENDS Policy, TLC

CONSTANTS cn, ads, geosite, provider, old, new, bad, c1, c2

MCAssetOf == cn :> geosite @@ ads :> provider
\* the new provider is a classical one that names a geosite category
MCNamedBy == [c \in Contents |-> IF c = new THEN {cn} ELSE {}]
MCRuleLists == {{}, {cn}}
Symmetry == Permutations({c1, c2})
=============================================================================
