SPECIFICATION Spec
CONSTANTS
    o1 = o1  o2 = o2
    Orders = {o1, o2}
    Riders = {d1, d2}
    Requests = {h1, h2}
    None = None
    Scenarios <- OneAtATime
    MaxActive = 1
    MaxCrashes = 1
INVARIANT OneOffer
PROPERTIES HolderKeeps OnlyForward OfferMovesOn CommissionEarned
CHECK_DEADLOCK FALSE
