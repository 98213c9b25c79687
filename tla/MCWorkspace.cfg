SPECIFICATION AllSpec
CONSTANTS
    p1 = p1
    p2 = p2
    d1 = d1
    Ops <- MCOps
    Deletes <- MCDeletes
    NoJournal = NoJournal
    MaxRevision = 3
    MaxCrashes = 2
    MaxFaults = 2
    Threads = {t1, t2}
    Ids = {i1, i2, i3}
    Titles = {"title", "other"}
    Absent = Absent
    Blank = Blank
    MaxCreateCrashes = 1
    MaxCreateFaults = 1
    a = a
    b = b
    Requests = {r1, r2}
    Keys = {k1, k2}
    Docs = {a, b}
    OpIds = {o1, o2}
    Size <- MCSize
    IngestSlots = 1
    SourceCeiling = 1
    ByteCeiling = 2
    MaxPatches = 1
    MaxManagedCrashes = 1
    MaxManagedFaults = 1
    Nobody = Nobody
CHECK_DEADLOCK FALSE
INVARIANTS AppliedAsRecorded CreateIsIdempotent AdmissionIsExact BytesAreKept
PROPERTIES WaitsEnd
