\* Two replicas, and a lease handle to spare. Liveness, so no symmetry.
CONSTANTS
    Replica = {r1, r2}
    Lease = {l1, l2, l3}
    None = None
    MaxFaults = 3
SPECIFICATION Spec
INVARIANTS
    TypeOK
    LeaseSafety
    OneFailureLeavesNoKey
PROPERTIES
    AddressStaysPublished
    ImplementsLeadership
    Takeover
