SPECIFICATION Spec
CONSTANTS
    Docs = {d1, d2}
    NoDoc = NoDoc
    course = course
    api = api
    Courses = {course}
    CourseOf <- OneCourse
    NativeFiles = {native}
    CorruptFiles = {}
    ScannedFiles = {scanned}
    Workers = {w1}
    Clients = {c1, c2}
    Procs = {api}
    ProcOf <- OneProc
    MaxRetries = 1
    MayRemove = {}
    MaxRequests = 2
    MaxFaults = 1
    MaxWorkerCrashes = 0
    MaxApiCrashes = 1
INVARIANTS
    NoDuplicateListed
    NoOrphanOriginal
    ErrorMatchesStatus
PROPERTIES
    ImplementsLibrary
SYMMETRY Symmetry
CHECK_DEADLOCK FALSE
