SPECIFICATION Spec
CONSTANTS
    o1 = o1
    o2 = o2
    sa = sa
    sb = sb
    n1 = n1
    n2 = n2
    Ops <- MCOps
    SourceIds <- MCSourceIds
    Snapshots <- MCSnapshots
    LegacySource = sa
    LegacySnapshot = n1
    MaxVersion = 2
    MaxRevision = 3
    MaxCrashes = 2
    MaxFaults = 0
    MaxUnreadable = 1
    NoJournal = NoJournal
INVARIANTS
    NoDanglingSnapshot
PROPERTIES
    StartupTerminates
