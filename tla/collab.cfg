\* A mirror and a reactor on each of two replicas of a map of registers.
SPECIFICATION FairSpec
CONSTANTS
    r1 = r1
    r2 = r2
    k1 = k1
    v0 = v0
    v1 = v1
    mirror = mirror
    reactor = reactor
    Replica = {r1, r2}
    Key = {k1}
    Value = {v1}
    Default = v0
    Mirror = {mirror}
    Reactor = {reactor}
    Plain = {r2}
    Stamp = {1, 2, 3}
    Kinds = {"add", "remove", "clear", "update"}
    CausalDelivery = FALSE
INVARIANTS
    TypeOK
    DisplayIsData
    DisplaysAgree
PROPERTIES
    EventualDisplays
