CONSTANTS
  Users = {u1, u2}
  SemesterIds = {1, 2}
  CourseIds = {1, 2}
  TaskIds = {1}
  Requests = {p1, p2}
  Names <- MC_Names
  Codes = {"CS101", "CS102"}
  Dates <- MC_Dates
  DocumentIds = {1, 2}
  Documents = {1}
  SemesterDrafts <- MC_SemesterDrafts
  CourseDrafts <- MC_CourseDrafts
  TaskDrafts <- MC_TaskDrafts
  SemesterPatches <- MC_SemesterPatches
  CoursePatches <- MC_CoursePatches
  TaskPatches <- MC_TaskPatches
  Mixes <- MC_Mixes
  MaxRequests = 4
  Null = Null
SPECIFICATION Spec
INVARIANTS
  NoDuplicateActive
  OnlyRacesBreakRows
  OwnershipKept
PROPERTIES
  ConflictIsReal
  AnswersDocumented
SYMMETRY MC_Symmetry
CHECK_DEADLOCK FALSE
