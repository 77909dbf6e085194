SPECIFICATION Spec
CONSTANTS
    d1 = d1
    course = course
    Docs = {d1}
    Courses = {course}
    CourseOf <- OneCourse
    Extractions = {x}
    Embeddings = {}
    DocOf <- OneDocument
    NoJob = NoJob
    NoRow = NoRow
    TaskKinds = {assignment}
    CourseKinds = {info}
    OtherKinds = {}
    Chunks = chunks
    Workers = {w1}
    Clients = {c1}
    Reviewers = {q1, q2}
    MaxRetries = 0
    MaxTriggers = 2
    MaxFaults = 1
    MaxWorkerCrashes = 0
    MaxChanges = 0
PROPERTIES
    ReviewedKept
    ImplementsInsights
SYMMETRY Symmetry
CHECK_DEADLOCK FALSE
