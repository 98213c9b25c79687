SPECIFICATION RosterSpec
CONSTANTS
    q1 = q1
    q2 = q2
    i1 = i1
    m1 = m1
    b1 = b1
    Query = {q1, q2}
    Ingest = {i1}
    Managed = {m1}
    Bootstrap = {b1}
    MaxConcurrent <- MCCapacity
INVARIANTS CapacityExact PublicationIsUncancelled NothingEscapesDrain ResourcesUnderWork LeaseOwnerWorks
PROPERTIES DrainCompletes
