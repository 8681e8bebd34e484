SPECIFICATION Spec
CONSTANTS
    o1 = o1  c1 = c1  c2 = c2  n1 = n1  n2 = n2  n3 = n3  d1 = d1  d2 = d2  d3 = d3
    r1 = r1  r2 = r2
    Org = {o1}
    Campaign = {c1}
    Number = {n1, n2}
    Dispatch = {d1, d2}
    NoNumber = NoNumber
    OrgOf <- MCOrgOf1
    CampaignOf <- MCCampaignOf1
    Numbers <- MCNumbersPool
    OrgLimit <- MCOrgLimit1
    Capped = {c1}
    CampaignLimit <- MCCampaignLimitOne
    StaleAfter = 1
    NumberMapTTL = 2
    Reporter = {r1, r2}
    Fault = {"redis", "dial", "defer"}
    MaxTime = 1
SYMMETRY MCSymmetry
INVARIANTS CapRespected LiveCallHoldsSlot CountedSlotIsReleasable SlotInv
PROPERTIES OnlyOwnerFreesSlot CampaignSlotsAreLeases
CHECK_DEADLOCK FALSE
