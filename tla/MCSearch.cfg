SPECIFICATION SearchSpec
CONSTANTS
    m1 = m1
    m2 = m2
    cz = cz
    us = us
    eu868 = eu868
    us915 = us915
    SearchKey = {1}
    SearchNet <- TwoNets
    CountriesOf <- Countries
    RegionsOf <- Regions
    Filter <- Searches
    SearchLimit = {2}
    NoRecord = NoRecord
    MaxSightings = 1
CHECK_DEADLOCK FALSE
INVARIANT OnlyAllowedCountries
