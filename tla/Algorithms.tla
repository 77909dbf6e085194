----------------------------- MODULE Algorithms -----------------------------
(***************************************************************************)
(* The pure computations behind the API, each compared with a definition   *)
(* that says what it is for: the weeks and items of a roadmap, the chunks  *)
(* of a document, the paged lists and the dashboard, the recovery plan and *)
(* the courses a degree advisor may recommend.                             *)
(*                                                                         *)
(* One state is one input.  Times are hours from the instant of the        *)
(* request, dates are days; NoDate stands for NULL, and sorts as           *)
(* PostgreSQL sorts it (last ascending, first descending).                 *)
(***************************************************************************)
EXTENDS Integers, FiniteSets, SequencesExt

CONSTANTS
  ChunkSize,           \* CHUNK_SIZE_CHARS
  ChunkOverlap,        \* CHUNK_OVERLAP_CHARS
  PageSizes,           \* page_size of the lists
  Catalog,             \* course_catalog_entries: [id, institution, code, category, credits]
  MaxRecommendations   \* MAX_RECOMMENDATIONS

ASSUME OverlapIsShort == ChunkSize \in Nat /\ ChunkOverlap \in 0..(ChunkSize - 1)

\* page_size: int = Query(ge=1)
ASSUME PagesHoldRows == PageSizes \subseteq Nat \ {0}

\* uq_catalog_institution_course_code; credits is an integer column
ASSUME CatalogAssumption ==
  /\ IsFiniteSet(Catalog) /\ \A e \in Catalog : e.credits \in Int
  /\ \A e, g \in Catalog : e.institution = g.institution /\ e.code = g.code => e = g

VARIABLE input

NoDate == 9999
Lesser(a, b) == IF a < b THEN a ELSE b

-----------------------------------------------------------------------------
(* Roadmap weeks and items: services/roadmap_scheduling.py                 *)

DaysPerWeek == 7

\* mutant: the week ends a day late, on the first day of the next one
WeekEndsLate(cursor, end) == Lesser(cursor + DaysPerWeek, end)

WeekEnd(cursor, end) == Lesser(cursor + DaysPerWeek - 1, end)

ComputeWeeks(start, end) ==
  LET from[cursor \in start..(end + 1)] ==
        IF cursor > end THEN <<>>
        ELSE LET last == WeekEnd(cursor, end)
             IN  <<[first |-> cursor, last |-> last]>> \o from[last + 1]
  IN  IF end < start THEN <<>> ELSE from[start]

WeeksOn(weeks, day) == {n \in DOMAIN weeks : weeks[n].first <= day /\ day <= weeks[n].last}

\* _week_number_for_date: the first week that holds the day
WeekNumber(weeks, day) == Min(WeeksOn(weeks, day))

ItemType(type) ==
  CASE type \in {"EXAM", "QUIZ"} -> "EXAM_PREPARATION"
    [] type \in {"ASSIGNMENT", "PROJECT", "PRESENTATION"} -> "ASSIGNMENT_PREPARATION"
    [] OTHER -> "MILESTONE"

Schedulable(t) == t.status \in {"TODO", "IN_PROGRESS"}

DeterministicItems(weeks, plannedTasks) ==
  {[week |-> WeekNumber(weeks, t.due), type |-> ItemType(t.type), task |-> t.id, due |-> t.due] :
     t \in {u \in plannedTasks : /\ Schedulable(u)
                                 /\ u.due # NoDate
                                 /\ WeeksOn(weeks, u.due) # {}}}

(* Every day of the semester is in exactly one week, of at most seven days, *)
(* and none outside it is; an open task has one item, in the week of its    *)
(* date, exactly when that date is in the semester.  The last, short week   *)
(* and the first and last day of a week are where the cut can go wrong      *)
(* (compute_weeks, _week_number_for_date, compute_deterministic_items).     *)
WeeksCoverSemester ==
  input.kind = "semester" =>
    LET weeks == ComputeWeeks(input.start, input.end)
        items == DeterministicItems(weeks, input.tasks)
        inside(day) == input.start <= day /\ day <= input.end
    IN  /\ \A day \in (input.start - 8)..(input.end + 8) :
             Cardinality(WeeksOn(weeks, day)) = IF inside(day) THEN 1 ELSE 0
        /\ \A n \in DOMAIN weeks : weeks[n].last - weeks[n].first < DaysPerWeek
        /\ \A t \in input.tasks :
             {i.week : i \in {j \in items : j.task = t.id}} =
               IF Schedulable(t) /\ inside(t.due)
               THEN {((t.due - input.start) \div DaysPerWeek) + 1} ELSE {}

-----------------------------------------------------------------------------
(* Chunks of a document: services/chunking.py.  A character is the page    *)
(* and place it comes from, a blank is Blank.                              *)

Blank == <<0, 0>>
Separator == <<Blank, Blank>>

\* mutant: the blank line between two pages is not counted in the offsets
JoinPageUncounted(joined, page) ==
  LET lead == IF joined.bounds = <<>> THEN <<>> ELSE joined.text \o Separator
      end == IF joined.bounds = <<>> THEN 0 ELSE joined.bounds[Len(joined.bounds)].end
  IN  [text |-> lead \o page.text,
       bounds |-> Append(joined.bounds, [page |-> page.number, start |-> end,
                                         end |-> end + Len(page.text)])]

JoinPage(joined, page) ==
  LET lead == IF joined.bounds = <<>> THEN <<>> ELSE joined.text \o Separator
  IN  [text |-> lead \o page.text,
       bounds |-> Append(joined.bounds, [page |-> page.number, start |-> Len(lead),
                                         end |-> Len(lead) + Len(page.text)])]

\* A page with no text is passed over.
JoinPages(pages) ==
  LET joined[n \in 0..Len(pages)] ==
        IF n = 0 THEN [text |-> <<>>, bounds |-> <<>>]
        ELSE IF pages[n].text = <<>> THEN joined[n - 1]
        ELSE JoinPage(joined[n - 1], pages[n])
  IN  joined[Len(pages)]

Inked(text) == {i \in DOMAIN text : text[i] # Blank}
Strip(text) == IF Inked(text) = {} THEN <<>> ELSE SubSeq(text, Min(Inked(text)), Max(Inked(text)))

\* the window slides by size - overlap, and stops when it reaches the end
WindowStarts(length) ==
  LET step == ChunkSize - ChunkOverlap
  IN  {k * step : k \in {j \in 0..length :
         /\ length > 0
         /\ j = 0 \/ (j - 1) * step + ChunkSize < length}}

\* _page_range_for: the pages the window touches, or the first one
PagesIn(bounds, start, end) ==
  LET covering == {b \in DOMAIN bounds : bounds[b].end > start /\ bounds[b].start < end}
  IN  {bounds[b].page : b \in IF covering = {} THEN {1} ELSE covering}

ChunkDocument(pages) ==
  LET joined == JoinPages(pages)
      end(start) == Lesser(start + ChunkSize, Len(joined.text))
      content(start) == Strip(SubSeq(joined.text, start + 1, end(start)))
      spread(start) == PagesIn(joined.bounds, start, end(start))
  IN  {[content |-> content(s), startPage |-> Min(spread(s)), endPage |-> Max(spread(s))] :
         s \in {w \in WindowStarts(Len(joined.text)) : content(w) # <<>>}}

(* Nothing of a document is lost to retrieval, and a citation's pages are   *)
(* right: every character is in a chunk whose page range holds its page, a  *)
(* chunk is never longer than the window, and two characters of a page at   *)
(* most the overlap apart are together in some chunk, which is what the     *)
(* overlap is for (chunk_document_pages, _page_range_for).                  *)
ChunksCoverText ==
  input.kind = "document" =>
    LET drafts == ChunkDocument(input.pages)
    IN  /\ \A d \in drafts :
             /\ Len(d.content) \in 1..ChunkSize
             /\ \A i \in Inked(d.content) : d.content[i][1] \in d.startPage..d.endPage
        /\ \A p \in DOMAIN input.pages :
             \A i, j \in Inked(input.pages[p].text) :
               i <= j /\ j - i <= ChunkOverlap =>
                 \E d \in drafts : {input.pages[p].text[i], input.pages[p].text[j]}
                                     \subseteq ToSet(d.content)

-----------------------------------------------------------------------------
(* Lists: a query returns any order its ORDER BY allows, so one that leaves *)
(* ties may return two of them on two pages.                                *)

\* mutant: the list is ordered by the column alone
BeforeByColumn(a, b, column, desc) ==
  IF desc THEN a[column] > b[column] ELSE a[column] < b[column]

\* ORDER BY column, id: both ascending or both descending
Before(a, b, column, desc) ==
  IF desc THEN a[column] > b[column] \/ (a[column] = b[column] /\ a.id > b.id)
  ELSE a[column] < b[column] \/ (a[column] = b[column] /\ a.id < b.id)

Sorted(matched, column, desc) ==
  {s \in SetToSeqs(matched) :
     \A i, j \in DOMAIN s : i < j => ~Before(s[j], s[i], column, desc)}

\* OFFSET (page - 1) * size LIMIT size
Paged(matched, column, desc, page, size) ==
  {SubSeq(s, (page - 1) * size + 1, Lesser(page * size, Len(s))) :
     s \in Sorted(matched, column, desc)}

TotalPages(total, size) == IF total > 0 THEN (total + size - 1) \div size ELSE 0

Mine(t) == t.access = "own"

\* the WHERE of task_repository.list_tasks, and the one count_tasks repeats
TaskMatches(t, f) ==
  /\ Mine(t)
  /\ f.status # "any" => t.status = f.status
  /\ f.from # NoDate => t.due # NoDate /\ t.due >= f.from
  /\ f.to # NoDate => t.due # NoDate /\ t.due <= f.to
  /\ f.overdue = "yes" => /\ t.due # NoDate /\ t.due < 0
                          /\ t.status \notin {"COMPLETED", "CANCELLED"}
  /\ f.overdue = "no" => t.due = NoDate \/ t.due >= 0 \/ t.status \in {"COMPLETED", "CANCELLED"}

ListTasks(f, column, desc, page, size) ==
  Paged({t \in input.tasks : TaskMatches(t, f)}, column, desc, page, size)
CountTasks(f) == Cardinality({t \in input.tasks : TaskMatches(t, f)})

\* _apply_list_filters of the document repository, for list and count alike
DocumentMatches(d, f) ==
  /\ Mine(d)
  /\ f.status # "any" => d.status = f.status
  /\ f.from # NoDate => d.created >= f.from
  /\ f.to # NoDate => d.created <= f.to

ListDocuments(f, page, size) ==
  Paged({d \in input.rows : DocumentMatches(d, f)}, "created", TRUE, page, size)
CountDocuments(f) == Cardinality({d \in input.rows : DocumentMatches(d, f)})

SemesterMatches(s, f) == Mine(s) /\ (f.status # "any" => s.status = f.status)
ListSemesters(f, column, desc, page, size) ==
  Paged({s \in input.rows : SemesterMatches(s, f)}, column, desc, page, size)

\* count_by_user writes the conditions of list_by_user a second time
CountSemesters(f) ==
  Cardinality({s \in input.rows : s.access = "own" /\ (f.status = "any" \/ s.status = f.status)})

\* Whatever order each page's query picks, the pages 1..total_pages hold every
\* matching row once, and the page after them none.
PagesPartition(pages, matched, total, size) ==
  LET n == TotalPages(total, size)
  IN  /\ pages[n + 1] = {<<>>}
      /\ \A answer \in [1..n -> UNION {pages[p] : p \in 1..n}] :
           (\A p \in 1..n : answer[p] \in pages[p]) =>
              LET all == FlattenSeq(answer)
              IN  Len(all) = total /\ ToSet(all) = matched

AnyFilter == [status |-> "any", from |-> NoDate, to |-> NoDate, overdue |-> "any"]
Filters ==
  {AnyFilter, [AnyFilter EXCEPT !.status = "TODO"], [AnyFilter EXCEPT !.from = 0],
   [AnyFilter EXCEPT !.to = 0], [AnyFilter EXCEPT !.overdue = "yes"],
   [AnyFilter EXCEPT !.overdue = "no", !.from = 0]}

-----------------------------------------------------------------------------
(* Recovery plan: services/recovery_planning.py.  Scores in thousandths.   *)

Urgency(t) ==
  IF t.due = NoDate THEN 10
  ELSE IF t.due < 0 THEN 100
  ELSE IF t.due <= 24 THEN 80
  ELSE IF t.due <= 72 THEN 60
  ELSE IF t.due <= 168 THEN 40
  ELSE 10

Distance(a, b) == IF a < b THEN b - a ELSE a - b

ClusterSize(t, all) ==
  IF t.due = NoDate THEN 0
  ELSE Cardinality({o \in all : o.id # t.id /\ o.due # NoDate /\ Distance(o.due, t.due) <= 72})

\* effort_minutes / days_remaining / 10, at least 0.1 day, at most 20 points
EffortScore(t) ==
  CASE t.due = NoDate -> (t.minutes * 100) \div 999
    [] t.due <= 2     -> Lesser(t.minutes * 1000, 20000)
    [] OTHER          -> Lesser((t.minutes * 2400) \div t.due, 20000)

PlanScore(t, all) == 1000 * (Urgency(t) + Lesser(15 * ClusterSize(t, all), 45)) + EffortScore(t)

\* build_plan and build_recovery_plan: highest score, earliest due date, lowest id
RecoveryPlan(all) ==
  LET schedulable == {t \in all : Mine(t) /\ Schedulable(t)}
      sooner(a, b) ==
        LET x == PlanScore(a, schedulable)
            y == PlanScore(b, schedulable)
        IN  \/ x > y
            \/ x = y /\ (a.due < b.due \/ (a.due = b.due /\ a.id < b.id))
  IN  CHOOSE s \in SetToSeqs(schedulable) : \A i, j \in DOMAIN s : i < j => sooner(s[i], s[j])

(* services/recovery_planning.py:37-38: the plan "is always overdue-first  *)
(* regardless of clustering/effort".                                       *)
OverdueFirst ==
  input.kind = "tasks" =>
    LET plan == RecoveryPlan(input.tasks)
    IN  \A i, j \in DOMAIN plan : i < j /\ plan[j].due < 0 => plan[i].due < 0

-----------------------------------------------------------------------------
(* The dashboard (repositories/dashboard.py) and the other places that     *)
(* decide whether a task is overdue.                                       *)

Incomplete(t) == Mine(t) /\ t.status \in {"TODO", "IN_PROGRESS"}

TaskCounts ==
  [incomplete |-> Cardinality({t \in input.tasks : Incomplete(t)}),
   overdue |-> Cardinality({t \in input.tasks : Incomplete(t) /\ t.due # NoDate /\ t.due < 0}),
   within  |-> Cardinality({t \in input.tasks : Incomplete(t) /\ t.due \in 0..168})]

UpcomingDeadlines(limit) ==
  Paged({t \in input.tasks : Incomplete(t) /\ t.due # NoDate /\ t.due >= 0}, "due", FALSE, 1, limit)

\* Task.is_overdue
IsOverdue(t) == t.due # NoDate /\ t.status \notin {"COMPLETED", "CANCELLED"} /\ t.due < 0

\* _overdue_tasks_with_owner, for one of the owners it returns
OverdueReminders ==
  {t \in input.tasks : Mine(t) /\ t.status \in {"TODO", "IN_PROGRESS"} /\ t.due # NoDate /\ t.due < 0}

\* Five queries and a property decide whether a task is overdue; they agree.
OverdueAgrees ==
  LET late == {t \in input.tasks : Mine(t) /\ IsOverdue(t)}
      plan == RecoveryPlan(input.tasks)
      count(status, from, to) ==
        CountTasks([AnyFilter EXCEPT !.status = status, !.from = from, !.to = to])
      listed(overdue) ==
        {t \in input.tasks : TaskMatches(t, [AnyFilter EXCEPT !.overdue = overdue])}
  IN  /\ listed("yes") = late
      /\ listed("no") = {t \in input.tasks : Mine(t)} \ late
      /\ OverdueReminders = late
      /\ {t \in ToSet(plan) : Urgency(t) = 100} = late
      /\ TaskCounts.overdue = Cardinality(late)
      /\ TaskCounts.incomplete = count("TODO", NoDate, NoDate) + count("IN_PROGRESS", NoDate, NoDate)
      /\ TaskCounts.incomplete = Len(plan)
      /\ TaskCounts.within = count("TODO", 0, 168) + count("IN_PROGRESS", 0, 168)
      /\ \A upcoming \in UpcomingDeadlines(2) :
           ToSet(upcoming) \cap late = {} /\ Len(upcoming) <= TaskCounts.incomplete - TaskCounts.overdue

(* Following the pages of a list of tasks, documents or semesters shows     *)
(* every matching row once and their number is the announced total, though  *)
(* each page is a query of its own and the count another; and the task list, *)
(* the dashboard, the reminders, the recovery plan and Task.is_overdue, which *)
(* each write the condition again, mean the same tasks by overdue.          *)
ListsAgree ==
  /\ input.kind = "tasks" =>
       /\ OverdueAgrees
       /\ \A f \in Filters, column \in {"due", "created"}, desc \in BOOLEAN, size \in PageSizes :
            PagesPartition([p \in Nat |-> ListTasks(f, column, desc, p, size)],
                           {t \in input.tasks : TaskMatches(t, f)}, CountTasks(f), size)
  /\ input.kind = "rows" =>
       \A f \in Filters, size \in PageSizes :
         /\ PagesPartition([p \in Nat |-> ListDocuments(f, p, size)],
                           {d \in input.rows : DocumentMatches(d, f)}, CountDocuments(f), size)
         /\ \A desc \in BOOLEAN :
              PagesPartition([p \in Nat |-> ListSemesters(f, "created", desc, p, size)],
                             {s \in input.rows : SemesterMatches(s, f)}, CountSemesters(f), size)

-----------------------------------------------------------------------------
(* Degree advisor: services/degree_recommendation.py.  A requirement names  *)
(* a course, or a category and its credits; 0 stands for NULL.              *)

Offered(institution) == {e \in Catalog : e.institution = institution}
Credits(entries) == FoldSet(LAMBDA e, sum : e.credits + sum, 0, entries)

CreditsIn(category, done) ==
  Credits({e \in Offered(input.institution) : e.code \in done /\ e.category = category})

RequirementSatisfied(r, done) ==
  IF r.course # 0 THEN \E e \in Catalog : e.id = r.course /\ e.code \in done
  ELSE r.credits # 0 => CreditsIn(r.category, done) >= r.credits

\* mutant: one satisfied prerequisite is enough
SomePrerequisite(e) ==
  LET required == {c.code : c \in {d \in Catalog : <<e.id, d.id>> \in input.prerequisites}}
  IN  required = {} \/ required \cap input.completed # {}

PrerequisitesSatisfied(e) ==
  {c.code : c \in {d \in Catalog : <<e.id, d.id>> \in input.prerequisites}} \subseteq input.completed

UnmetRequirements == {r \in input.requirements : ~RequirementSatisfied(r, input.completed)}

EligibleCourses ==
  {e \in Offered(input.institution) :
     /\ e.code \notin input.completed
     /\ \E r \in UnmetRequirements : \/ r.course # 0 /\ r.course = e.id
                                     \/ r.credits # 0 /\ r.category = e.category
     /\ PrerequisitesSatisfied(e)}

\* _ground_truth_filter, on what the model answers; with nothing eligible it is
\* not asked.  The order of the answer is kept, and left out here.
RecommendedCourses ==
  {input.answer[i] : i \in 1..Lesser(MaxRecommendations, Len(input.answer))}
    \cap {e.code : e \in EligibleCourses}

(* Whatever the model answers, a recommended course is one of the student's *)
(* institution that he has not taken and whose every prerequisite he has    *)
(* (by code), and taking it meets an unmet requirement or adds its credits  *)
(* to those that count for it: "no code path by which the model could       *)
(* recommend a non-catalog course or one whose prerequisites aren't         *)
(* satisfied" (degree_recommendation.py:10-13).                             *)
RecommendedIsReady ==
  input.kind = "degree" =>
    \A code \in RecommendedCourses :
      LET after == input.completed \cup {code}
      IN  /\ code \notin input.completed
          /\ \E e \in Offered(input.institution) :
               /\ e.code = code
               /\ \A c \in Catalog : <<e.id, c.id>> \in input.prerequisites => c.code \in input.completed
               /\ \E r \in input.requirements :
                    /\ ~RequirementSatisfied(r, input.completed)
                    /\ \/ RequirementSatisfied(r, after)
                       \/ CreditsIn(r.category, after) = e.credits + CreditsIn(r.category, input.completed)
=============================================================================
