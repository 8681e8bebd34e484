SPECIFICATION Spec
CONSTANTS
    o1 = o1  c1 = c1  c2 = c2  n1 = n1  n2 = n2  n3 = n3  d1 = d1  d2 = d2  d3 = d3
    r1 = r1  r2 = r2
    Org = {o1}
    Campaign = {c1, c2}
    Number = {n1, n2, n3}
    Dispatch = {d1, d2, d3}
    NoNumber = NoNumber
    OrgOf <- MCOrgOf
    CampaignOf <- MCCampaignOf
    Numbers <- MCNumbersMixed
    OrgLimit <- MCOrgLimit
    Capped = {c1, c2}
    CampaignLimit <- MCCampaignLimit
    StaleAfter = 1
    NumberMapTTL = 2
    Reporter = {r1}
    Fault = {"cancel"}
    MaxTime = 2
SYMMETRY MCSymmetry
INVARIANTS TypeOK CapRespected LiveCallHoldsSlot LiveCallsWithinCap
PROPERTY OrgSlotsAreLeases
CHECK_DEADLOCK FALSE
