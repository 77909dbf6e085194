SPECIFICATION Spec
CONSTANTS
    Docs = {d1}
    NoDoc = NoDoc
    course = course
    api = api
    Courses = {course}
    CourseOf <- OneCourse
    NativeFiles = {native}
    CorruptFiles = {}
    ScannedFiles = {}
    Workers = {w1, w2}
    Clients = {c1, c2}
    Procs = {api}
    ProcOf <- OneProc
    MaxRetries = 1
    MayRemove = {}
    MaxRequests = 2
    MaxFaults = 0
    MaxWorkerCrashes = 0
    MaxApiCrashes = 0
INVARIANTS
    OneProcessor
CHECK_DEADLOCK FALSE
