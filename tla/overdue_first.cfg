SPECIFICATION Spec
CONSTANTS
    Parts = {"triage"}
    RoadTasks = {1, 2}
    Triggers = {a, b}
    Workers = {u, v}
    Recommendations <- MC_Recommendations
    MaxTriggers = 2
    MaxUpsets = 1
    Students = {"ann", "bob"}
    Turns = {ta, tb}
    Completions <- MC_Completions
    OwnChunks <- MC_OwnChunks
    MaxHistory = 2
    MaxTurns = 3
    Callers = {x, y}
    MaxCalls = 5
    DueTasks = {1}
    Exams = {1}
    Runs = {j1, j2}
    MaxRuns = 3
    MaxMoves = 2
    ChunkSize = 4
    ChunkOverlap = 1
    PageSizes = {1, 2}
    Catalog <- MC_Catalog
    MaxRecommendations = 1
INVARIANTS
    OverdueFirst
SYMMETRY MC_Symmetry
CHECK_DEADLOCK FALSE
