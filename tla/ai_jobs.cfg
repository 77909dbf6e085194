SPECIFICATION FairSpec
CONSTANTS
    d1 = d1
    course = course
    Docs = {d1}
    Courses = {course}
    CourseOf <- OneCourse
    Extractions = {x}
    Embeddings = {e}
    DocOf <- OneDocument
    NoJob = NoJob
    NoRow = NoRow
    TaskKinds = {assignment}
    CourseKinds = {}
    OtherKinds = {}
    Chunks = chunks
    Workers = {w1}
    Clients = {c1}
    Reviewers = {}
    MaxRetries = 1
    MaxTriggers = 2
    MaxFaults = 1
    MaxWorkerCrashes = 1
    MaxChanges = 1
INVARIANTS
    JobHasOwner
    OneRunShown
    CompletedHasChunks
PROPERTIES
    JobEnds
CHECK_DEADLOCK FALSE
