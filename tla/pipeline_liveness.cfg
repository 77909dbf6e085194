SPECIFICATION FairSpec
CONSTANTS
    Docs = {d1}
    NoDoc = NoDoc
    course = course
    api = api
    Courses = {course}
    CourseOf <- OneCourse
    NativeFiles = {native}
    CorruptFiles = {corrupt}
    ScannedFiles = {}
    Workers = {w1, w2}
    Clients = {c1}
    Procs = {api}
    ProcOf <- OneProc
    MaxRetries = 1
    MayRemove = {course}
    MaxRequests = 2
    MaxFaults = 2
    MaxWorkerCrashes = 0
    MaxApiCrashes = 0
PROPERTIES
    ProcessingEnds
    DeletedFileGoes
CHECK_DEADLOCK FALSE
