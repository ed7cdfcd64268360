SPECIFICATION FairSpec
CONSTANTS
    Addresses = {1, 2, 3, 4}
    V6 = {4}
    SpecialUse <- MCSpecialUse
    Hosts = {"target.example", "other.example", "localhost"}
    ProhibitedNames = {"localhost"}
    TargetHost = "target.example"
    NoAddress = NoAddress
    NoRequest = NoRequest
    NoLocation = NoLocation
    Locations <- MCLocations
    max_redirects = 2
    Mishaps = {"networkCreateRaised", "containerCreateRaised", "createdLate", "rmFailed", "probeTimeout", "containerDied", "chainDrift", "unreadRule", "killed"}
INVARIANTS TypeOK EstablishedIsEnforced DeliveredIsValidated RedirectBudget LeftoversAreExplained
PROPERTIES AttemptEnds
CHECK_DEADLOCK FALSE
