SPECIFICATION UnitsSpec
CONSTANTS
    Units = {1, 2, 3}
    UnitNames = {n, o}
    Domains = {"d"}
    Editors = {e1}
    MaxFold = 12
CHECK_DEADLOCK FALSE
PROPERTIES DomainsGoAlong
