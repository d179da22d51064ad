CONSTANTS
    c1 = c1
    c2 = c2
    r = r
    Kvm = Kvm
    Reqwest = Reqwest
    Slots = {k1, k2, k3}
    Spinners <- MCSpinners
    Triers <- MCTriers
    Kinds <- MCKinds
    Kind <- MCKind
    FlagSets <- MCFlagSets
SPECIFICATION FairSpec
INVARIANTS
    TicketExclusion
    WorkInOnePlace
PROPERTIES
    TicketIsServed
    ComputeWorkIsTaken
