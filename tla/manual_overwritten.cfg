SPECIFICATION Spec
CONSTANTS
    d1 = d1
    course = course
    Docs = {d1}
    Courses = {course}
    CourseOf <- OneCourse
    Extractions = {x}
    Embeddings = {}
    DocOf <- OneDocument
    NoJob = NoJob
    NoRow = NoRow
    TaskKinds = {}
    CourseKinds = {info}
    OtherKinds = {}
    Chunks = chunks
    Workers = {w1}
    Clients = {c1}
    Reviewers = {q1}
    MaxRetries = 0
    MaxTriggers = 1
    MaxFaults = 0
    MaxWorkerCrashes = 0
    MaxChanges = 1
PROPERTIES
    ManualDataWins
CHECK_DEADLOCK FALSE
