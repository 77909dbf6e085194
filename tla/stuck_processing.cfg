SPECIFICATION FairSpec
CONSTANTS
    Docs = {d1}
    NoDoc = NoDoc
    course = course
    api = api
    Courses = {course}
    CourseOf <- OneCourse
    NativeFiles = {native}
    CorruptFiles = {}
    ScannedFiles = {}
    Workers = {w1}
    Clients = {c1}
    Procs = {api}
    ProcOf <- OneProc
    MaxRetries = 1
    MayRemove = {}
    MaxRequests = 2
    MaxFaults = 0
    MaxWorkerCrashes = 1
    MaxApiCrashes = 0
PROPERTIES
    ProcessingEnds
CHECK_DEADLOCK FALSE
