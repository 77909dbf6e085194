--------------------------- MODULE Algorithms_proofs ---------------------------
(***************************************************************************)
(* What is proved of the pure computations, for every input a request can  *)
(* give them: the weeks of a semester of any length, the chunks of any     *)
(* document, the pages of any list and the screens that count its tasks,   *)
(* the courses the advisor recommends.  What a loop computes is proved by  *)
(* the least number, or the least set, for which it would be wrong.        *)
(***************************************************************************)
EXTENDS Algorithms, FiniteSetTheorems, SequenceTheorems, WellFoundedInduction, TLAPS

-----------------------------------------------------------------------------
(* Induction: a set of natural numbers has a least element. *)

LEMMA LeastNumber ==
    ASSUME NEW T, T \subseteq Nat, T # {}
    PROVE  \E m \in T : \A k \in T : m <= k
<1> DEFINE R == OpToRel(<, Nat)
<1>1. IsWellFoundedOn(R, Nat)
      BY NatLessThanWellFounded
<1>2. PICK m \in T : \A k \in T : ~ (<<k, m>> \in R)
    <2> HIDE DEF R
    <2> QED BY <1>1, WFMin
<1>3. \A k \in T : ~ (k < m)
      BY <1>2 DEF OpToRel
<1> QED BY <1>3

\* One that holds 0 and the successor of each of its members holds them all.
LEMMA AllNumbers ==
    ASSUME NEW U, 0 \in U, \A n \in Nat : n \in U => n + 1 \in U
    PROVE  Nat \subseteq U
<1> DEFINE T == {n \in Nat : n \notin U}
<1> SUFFICES ASSUME T # {} PROVE FALSE
    OBVIOUS
<1>1. T \subseteq Nat
      OBVIOUS
<1>2. PICK m \in T : \A k \in T : m <= k
    <2> HIDE DEF T
    <2> QED BY <1>1, LeastNumber
<1>3. m - 1 \in Nat /\ m - 1 \in T
    <2>1. m - 1 \in Nat
          BY <1>2
    <2>2. m - 1 \in U => (m - 1) + 1 \in U
          BY <2>1
    <2> QED BY <1>2, <2>1, <2>2
<1> QED BY <1>2, <1>3

-----------------------------------------------------------------------------
(* The weeks of a semester *)

\* The weeks from a day to the end, said without recursion.
WeeksLeft(cursor, end) == IF cursor > end THEN 0 ELSE ((end - cursor) \div 7) + 1
Cut(cursor, end) ==
    [n \in 1..WeeksLeft(cursor, end) |->
        [first |-> cursor + 7 * (n - 1), last |-> Lesser(cursor + 7 * n - 1, end)]]

\* One turn of the loop of compute_weeks.
Turn(from, cursor, end) ==
    IF cursor > end THEN <<>>
    ELSE LET last == WeekEnd(cursor, end)
         IN  <<[first |-> cursor, last |-> last]>> \o from[last + 1]

\* A turn of the loop puts one week before those that are left.
LEMMA CutTurns ==
    ASSUME NEW end \in Int, NEW cursor \in Int, cursor <= end
    PROVE  /\ WeekEnd(cursor, end) \in Int /\ cursor <= WeekEnd(cursor, end) /\ WeekEnd(cursor, end) <= end
           /\ Cut(cursor, end) =
                <<[first |-> cursor, last |-> WeekEnd(cursor, end)]>> \o Cut(WeekEnd(cursor, end) + 1, end)
<1> DEFINE next == WeekEnd(cursor, end) + 1
           more == WeeksLeft(next, end)
           week(c, n) == [first |-> c + 7 * (n - 1), last |-> Lesser(c + 7 * n - 1, end)]
<1>1. next \in Int /\ cursor < next /\ next <= end + 1 /\ (next = cursor + 7 \/ next = end + 1)
      BY DEF WeekEnd, DaysPerWeek, Lesser
<1>2. more \in Nat /\ WeeksLeft(cursor, end) = more + 1
      BY <1>1 DEF WeeksLeft, WeekEnd, DaysPerWeek, Lesser
<1>3. week(cursor, 1) = [first |-> cursor, last |-> WeekEnd(cursor, end)]
      BY DEF WeekEnd, DaysPerWeek, Lesser
<1>4. \A n \in 1..more : week(cursor, n + 1) = week(next, n)
    <2> SUFFICES ASSUME NEW n \in 1..more PROVE week(cursor, n + 1) = week(next, n)
        OBVIOUS
    <2>1. next = cursor + 7
          BY <1>1 DEF WeeksLeft
    <2> QED BY <2>1
<1> DEFINE head == [first |-> cursor, last |-> WeekEnd(cursor, end)]
           rest == [n \in 1..more |-> week(next, n)]
           all  == [n \in 1..(more + 1) |-> week(cursor, n)]
<1>5. Cut(cursor, end) = all /\ Cut(next, end) = rest
      BY <1>2 DEF Cut
<1>6. all = <<head>> \o rest
    <2> HIDE DEF week, more, next, head
    <2>1. rest \in Seq({week(next, n) : n \in 1..more}) /\ Len(rest) = more
          BY <1>2
    <2>2. \A n \in 1..more : rest[n] = week(next, n)
          OBVIOUS
    <2>3. \A n \in 1..(more + 1) : all[n] = week(cursor, n)
          OBVIOUS
    <2> QED BY <1>2, <1>3, <1>4, <2>1, <2>2, <2>3 DEF head
<1>7. WeekEnd(cursor, end) = next - 1 /\ head = [first |-> cursor, last |-> WeekEnd(cursor, end)]
      BY <1>1 DEF WeekEnd, Lesser, DaysPerWeek
<1> HIDE DEF all, rest, head
<1> QED BY <1>1, <1>5, <1>6, <1>7

\* The recursion of the loop has a solution, and it is the only one.
LEMMA WeeksAreCut ==
    ASSUME NEW start \in Int, NEW end \in Int
    PROVE  ComputeWeeks(start, end) = Cut(start, end)
<1>1. CASE end < start
      BY <1>1 DEF ComputeWeeks, Cut, WeeksLeft
<1>2. CASE start <= end
    <2> DEFINE S == start..(end + 1)
               Loop(f) == f = [cursor \in S |-> Turn(f, cursor, end)]
               cut == [cursor \in S |-> Cut(cursor, end)]
               from == CHOOSE f : Loop(f)
    <2>1. \A c \in S : c <= end => WeekEnd(c, end) + 1 \in S /\ WeekEnd(c, end) + 1 > c
        <3> SUFFICES ASSUME NEW c \in S, c <= end
                     PROVE  WeekEnd(c, end) + 1 \in S /\ WeekEnd(c, end) + 1 > c
            OBVIOUS
        <3>1. c \in Int /\ start <= c
              OBVIOUS
        <3>2. WeekEnd(c, end) \in Int /\ c <= WeekEnd(c, end) /\ WeekEnd(c, end) <= end
              BY <3>1, CutTurns
        <3> QED BY <3>1, <3>2
    <2>2. \A c \in S : c > end => Cut(c, end) = <<>>
          BY DEF Cut, WeeksLeft
    <2>3. \A c \in S : Turn(cut, c, end) = Cut(c, end)
        <3> SUFFICES ASSUME NEW c \in S PROVE Turn(cut, c, end) = Cut(c, end)
            OBVIOUS
        <3>1. CASE c > end
              BY <2>2, <3>1 DEF Turn
        <3>2. CASE c <= end
            <4>1. cut[WeekEnd(c, end) + 1] = Cut(WeekEnd(c, end) + 1, end)
                  BY <2>1, <3>2
            <4> HIDE DEF cut
            <4> QED BY <3>2, <4>1, CutTurns DEF Turn
        <3> QED BY <3>1, <3>2
    <2>4. Loop(cut)
          BY <2>3
    <2>5. Loop(from)
        <3> HIDE DEF Loop, cut
        <3> QED BY <2>4
    <2>6. \A c \in S : from[c] = Turn(from, c, end)
        <3> HIDE DEF from
        <3> QED BY <2>5
    <2>7. \A c \in S : from[c] = Cut(c, end)
        <3> HIDE DEF from, cut, Loop
        <3> DEFINE T == {n \in Nat : \E c \in S : n = end + 1 - c /\ from[c] # Cut(c, end)}
        <3> SUFFICES ASSUME T # {} PROVE FALSE
            <4> SUFFICES ASSUME NEW c \in S, from[c] # Cut(c, end) PROVE T # {}
                OBVIOUS
            <4>1. end + 1 - c \in Nat
                  OBVIOUS
            <4> QED BY <4>1
        <3>1. PICK m \in T : \A k \in T : m <= k
              BY LeastNumber
        <3>2. PICK c \in S : m = end + 1 - c /\ from[c] # Cut(c, end)
              BY <3>1
        <3>3. c <= end
            <4>1. c > end => from[c] = <<>>
                  BY <2>6 DEF Turn
            <4> QED BY <2>2, <3>2, <4>1
        <3>4. from[WeekEnd(c, end) + 1] = Cut(WeekEnd(c, end) + 1, end)
            <4> DEFINE next == WeekEnd(c, end) + 1
            <4>1. next \in S /\ next > c
                  BY <2>1, <3>3
            <4> HIDE DEF next
            <4>2. PICK k \in Int : k = end + 1 - next
                  BY <4>1
            <4>3. k \in Nat /\ ~(m <= k)
                  BY <3>2, <4>1, <4>2
            <4>4. from[next] # Cut(next, end) => k \in T
                  BY <4>1, <4>2, <4>3
            <4>5. from[next] = Cut(next, end)
                <5> HIDE DEF T
                <5> QED BY <3>1, <4>3, <4>4
            <4> QED BY <4>5 DEF next
        <3>5. from[c] = <<[first |-> c, last |-> WeekEnd(c, end)]>> \o from[WeekEnd(c, end) + 1]
            <4>1. ~(c > end)
                  BY <3>3
            <4>2. from[c] = Turn(from, c, end)
                  BY <2>6
            <4> QED BY <4>1, <4>2 DEF Turn
        <3>6. Cut(c, end) = <<[first |-> c, last |-> WeekEnd(c, end)]>> \o Cut(WeekEnd(c, end) + 1, end)
              BY <3>3, CutTurns
        <3> QED BY <3>2, <3>4, <3>5, <3>6
    <2>8. start \in S
          BY <1>2
    <2>9. ComputeWeeks(start, end) = from[start]
          BY <1>2 DEF ComputeWeeks, Turn
    <2> QED BY <2>7, <2>8, <2>9
<1> QED BY <1>1, <1>2

\* The weeks that hold a day: one, or none outside the semester.
LEMMA WeeksOnDay ==
    ASSUME NEW start \in Int, NEW end \in Int, NEW day \in Int
    PROVE  WeeksOn(Cut(start, end), day) =
             IF start <= day /\ day <= end THEN {((day - start) \div 7) + 1} ELSE {}
<1> DEFINE N == WeeksLeft(start, end)
           holds(n) == start + 7 * (n - 1) <= day /\ day <= Lesser(start + 7 * n - 1, end)
<1>1. N \in Nat /\ (start <= end => N = ((end - start) \div 7) + 1) /\ (end < start => N = 0)
      BY DEF WeeksLeft
<1>2. WeeksOn(Cut(start, end), day) = {n \in 1..N : holds(n)}
    <2> HIDE DEF N
    <2> QED BY DEF WeeksOn, Cut, N
<1>3. ASSUME NEW n \in Int
      PROVE  n \in 1..N /\ holds(n) <=> start <= day /\ day <= end /\ n = ((day - start) \div 7) + 1
    <2> HIDE DEF N
    <2>1. ASSUME n \in 1..N, holds(n)
          PROVE  start <= day /\ day <= end /\ n = ((day - start) \div 7) + 1
          BY <1>1, <2>1 DEF Lesser
    <2>2. ASSUME start <= day, day <= end, n = ((day - start) \div 7) + 1
          PROVE  n \in 1..N /\ holds(n)
        <3>1. n \in 1..N
              BY <1>1, <2>2
        <3>2. start + 7 * (n - 1) <= day /\ day <= start + 7 * n - 1
              BY <2>2
        <3> QED BY <2>2, <3>1, <3>2 DEF Lesser
    <2> QED BY <2>1, <2>2
<1>4. ((day - start) \div 7) + 1 \in Int
      OBVIOUS
<1> HIDE DEF N, holds
<1>5. \A n : n \in {m \in 1..N : holds(m)} <=>
             start <= day /\ day <= end /\ n = ((day - start) \div 7) + 1
      BY <1>1, <1>3, <1>4
<1> QED BY <1>2, <1>5

\* What compute_weeks and compute_deterministic_items are given: two dates, and
\* tasks with ids of their own. No semester reaches the date that stands for NULL.
SemesterInput ==
    /\ input.start \in Int /\ input.end \in Int /\ input.end < NoDate
    /\ \A t \in input.tasks : t.due \in Int
    /\ \A t, u \in input.tasks : t.id = u.id => t = u

\* For a semester of any length and any set of tasks, every day is in exactly
\* one week of at most seven days, and an open task has one item, in the week
\* of its date, exactly when that date is in the semester (compute_weeks,
\* _week_number_for_date, compute_deterministic_items).
THEOREM WeeksAreExact ==
    ASSUME SemesterInput
    PROVE  WeeksCoverSemester
<1> DEFINE start == input.start
           end == input.end
           weeks == ComputeWeeks(start, end)
           items == DeterministicItems(weeks, input.tasks)
           inside(day) == start <= day /\ day <= end
           at(day) == ((day - start) \div 7) + 1
<1>1. start \in Int /\ end \in Int
      BY DEF SemesterInput
<1>2. weeks = Cut(start, end)
      BY <1>1, WeeksAreCut
<1>3. ASSUME NEW day \in Int
      PROVE  WeeksOn(weeks, day) = IF inside(day) THEN {at(day)} ELSE {}
      BY <1>1, <1>2, WeeksOnDay
<1> HIDE DEF weeks
<1>4. \A day \in (start - 8)..(end + 8) : Cardinality(WeeksOn(weeks, day)) = IF inside(day) THEN 1 ELSE 0
    <2> SUFFICES ASSUME NEW day \in Int
                 PROVE  Cardinality(WeeksOn(weeks, day)) = IF inside(day) THEN 1 ELSE 0
        BY <1>1
    <2> HIDE DEF start, end, at
    <2> QED BY <1>3, FS_Singleton, FS_EmptySet
<1>5. \A n \in DOMAIN weeks : weeks[n].last - weeks[n].first < DaysPerWeek
    <2> HIDE DEF start, end
    <2> QED BY <1>1, <1>2 DEF Cut, WeeksLeft, Lesser, DaysPerWeek
<1>6. ASSUME NEW t \in input.tasks
      PROVE  {i.week : i \in {j \in items : j.task = t.id}} =
               IF Schedulable(t) /\ inside(t.due) THEN {at(t.due)} ELSE {}
    <2>1. \A u \in input.tasks : u.due \in Int
          BY DEF SemesterInput
    <2>2. ASSUME NEW day \in Int, inside(day)
          PROVE  WeekNumber(weeks, day) = at(day) /\ day # NoDate
        <3>1. WeeksOn(weeks, day) = {at(day)} /\ at(day) \in Int
              BY <1>1, <1>3, <2>2
        <3>2. WeekNumber(weeks, day) = at(day)
            <4> HIDE DEF at
            <4> QED BY <3>1 DEF WeekNumber, Min
        <3> QED BY <1>1, <2>2, <3>2 DEF SemesterInput, NoDate
    <2> DEFINE planned(u) == Schedulable(u) /\ u.due # NoDate /\ WeeksOn(weeks, u.due) # {}
               item(u) == [week |-> WeekNumber(weeks, u.due), type |-> ItemType(u.type), task |-> u.id,
                           due |-> u.due]
    <2>3. items = {item(u) : u \in {v \in input.tasks : planned(v)}}
          BY DEF DeterministicItems
    <2>4. \A u \in input.tasks : planned(u) <=> Schedulable(u) /\ inside(u.due)
          BY <1>3, <2>1, <2>2
    <2>5. \A u \in input.tasks : item(u).task = u.id /\ item(u).week = WeekNumber(weeks, u.due)
          OBVIOUS
    <2>6. \A u \in input.tasks : u.id = t.id => u = t
          BY DEF SemesterInput
    <2> HIDE DEF items, planned, item
    <2>7. {j \in items : j.task = t.id} = IF planned(t) THEN {item(t)} ELSE {}
          BY <2>3, <2>5, <2>6
    <2>8. planned(t) => item(t).week = at(t.due)
          BY <2>1, <2>2, <2>4, <2>5
    <2> QED BY <2>4, <2>7, <2>8
<1> QED BY <1>4, <1>5, <1>6 DEF WeeksCoverSemester, weeks, DaysPerWeek

-----------------------------------------------------------------------------
(* The sum of the credits of a set of catalogue entries *)

\* One step of a sum over the entries in s.
Picked(s) == CHOOSE e \in s : TRUE
PlusOne(sum, s) == IF s = {} THEN 0 ELSE Picked(s).credits + sum[s \ {Picked(s)}]

LEMMA PickedIsIn ==
    ASSUME NEW s, s # {}
    PROVE  Picked(s) \in s
BY DEF Picked

\* Taking an entry from a set of entries leaves a smaller one.
LEMMA EntriesCount ==
    ASSUME NEW s \in SUBSET Catalog
    PROVE  /\ IsFiniteSet(s) /\ Cardinality(s) \in Nat /\ (Cardinality(s) = 0 <=> s = {})
           /\ \A e \in s : /\ s \ {e} \in SUBSET Catalog
                          /\ Cardinality(s \ {e}) = Cardinality(s) - 1
<1>1. IsFiniteSet(s)
      BY CatalogAssumption, FS_Subset
<1> QED BY <1>1, FS_CardinalityType, FS_EmptySet, FS_RemoveElement

\* The recursion of the sum has a solution.
LEMMA SumExists == \E sum : sum = [s \in SUBSET Catalog |-> PlusOne(sum, s)]
<1> DEFINE C == SUBSET Catalog
           UpTo(n, g) == /\ g \in [C -> Int]
                         /\ \A s \in C : Cardinality(s) <= n => g[s] = PlusOne(g, s)
           U == {n \in Nat : \E g : UpTo(n, g)}
<1>1. ASSUME NEW g \in [C -> Int], NEW s \in C
      PROVE  PlusOne(g, s) \in Int
    <2>1. CASE s = {}
          BY <2>1 DEF PlusOne
    <2>2. CASE s # {}
        <3>1. Picked(s) \in s /\ s \ {Picked(s)} \in C /\ Picked(s).credits \in Int
              BY <2>2, PickedIsIn, CatalogAssumption
        <3> QED BY <2>2, <3>1 DEF PlusOne
    <2> QED BY <2>1, <2>2
<1>2. 0 \in U
    <2> DEFINE zero == [s \in C |-> 0]
    <2>1. zero \in [C -> Int]
          OBVIOUS
    <2>2. \A s \in C : Cardinality(s) <= 0 => zero[s] = PlusOne(zero, s)
          BY EntriesCount DEF PlusOne
    <2>3. UpTo(0, zero)
          BY <2>1, <2>2
    <2> HIDE DEF zero, UpTo
    <2> QED BY <2>3
<1>3. ASSUME NEW n \in Nat, n \in U PROVE n + 1 \in U
    <2>1. PICK g : UpTo(n, g)
          BY <1>3
    <2> DEFINE more == [s \in C |-> PlusOne(g, s)]
    <2>2. more \in [C -> Int]
          BY <1>1, <2>1
    <2>3. ASSUME NEW s \in C, Cardinality(s) <= n + 1
          PROVE  more[s] = PlusOne(more, s)
        <3>1. CASE s = {}
              BY <3>1 DEF PlusOne
        <3>2. CASE s # {}
            <4> DEFINE rest == s \ {Picked(s)}
            <4>1. rest \in C /\ Cardinality(rest) <= n
                  BY <2>3, <3>2, PickedIsIn, EntriesCount
            <4>2. more[rest] = g[rest]
                  BY <2>1, <4>1
            <4> QED BY <3>2, <4>2 DEF PlusOne
        <3> QED BY <3>1, <3>2
    <2>4. UpTo(n + 1, more)
          BY <2>2, <2>3
    <2> HIDE DEF more, UpTo
    <2> QED BY <2>4
<1>4. Nat \subseteq U
    <2> HIDE DEF U
    <2> QED BY <1>2, <1>3, AllNumbers
<1>5. PICK g : UpTo(Cardinality(Catalog), g)
    <2>1. Cardinality(Catalog) \in Nat
          BY EntriesCount
    <2> HIDE DEF UpTo
    <2> QED BY <1>4, <2>1
<1>6. \A s \in C : Cardinality(s) <= Cardinality(Catalog)
      BY CatalogAssumption, FS_Subset
<1>7. g = [s \in C |-> g[s]] /\ \A s \in C : g[s] = PlusOne(g, s)
      BY <1>5, <1>6
<1>8. g = [s \in C |-> PlusOne(g, s)]
      BY <1>7
<1> QED BY <1>8

\* Two solutions agree, the one over the entries summed and the one over all.
LEMMA SumUnique ==
    ASSUME NEW sum, sum = [s \in SUBSET Catalog |-> PlusOne(sum, s)],
           NEW A \in SUBSET Catalog,
           NEW part, part = [s \in SUBSET A |-> PlusOne(part, s)]
    PROVE  part[A] = sum[A]
<1> DEFINE T == {n \in Nat : \E s \in SUBSET A : Cardinality(s) = n /\ part[s] # sum[s]}
<1>1. \A s \in SUBSET A : part[s] = PlusOne(part, s) /\ sum[s] = PlusOne(sum, s)
      OBVIOUS
<1>2. T \subseteq Nat
      OBVIOUS
<1> SUFFICES ASSUME part[A] # sum[A] PROVE FALSE
    OBVIOUS
<1>3. Cardinality(A) \in T
      BY EntriesCount
<1>4. PICK m \in T : \A k \in T : m <= k
    <2> HIDE DEF T
    <2> QED BY <1>2, <1>3, LeastNumber
<1>5. PICK s \in SUBSET A : Cardinality(s) = m /\ part[s] # sum[s]
      BY <1>4
<1>6. s # {}
    <2>1. s = {} => part[s] = 0 /\ sum[s] = 0
          BY <1>1 DEF PlusOne
    <2> QED BY <1>5, <2>1
<1> DEFINE rest == s \ {Picked(s)}
<1>7. rest \in SUBSET A /\ Cardinality(rest) \in Nat /\ Cardinality(rest) = m - 1 /\ m \in Nat
      BY <1>5, <1>6, PickedIsIn, EntriesCount
<1>8. part[rest] = sum[rest]
    <2>1. part[rest] # sum[rest] => m - 1 \in T
          BY <1>7
    <2>2. ~ (m <= m - 1)
          BY <1>7
    <2> HIDE DEF T
    <2> QED BY <1>4, <2>1, <2>2
<1> QED BY <1>1, <1>5, <1>6, <1>8 DEF PlusOne

\* The sum does not depend on the entry that is taken first.
LEMMA SumTakesAny ==
    ASSUME NEW sum, sum = [s \in SUBSET Catalog |-> PlusOne(sum, s)],
           NEW A \in SUBSET Catalog, NEW a \in A
    PROVE  sum[A] = a.credits + sum[A \ {a}]
<1> DEFINE C == SUBSET Catalog
           Takes(s) == \A e \in s : sum[s] = e.credits + sum[s \ {e}]
           T == {n \in Nat : \E s \in C : Cardinality(s) = n /\ ~Takes(s)}
<1>1. \A s \in C : sum[s] = PlusOne(sum, s)
      OBVIOUS
<1>2. ASSUME NEW s \in C PROVE sum[s] \in Int
    <2> DEFINE U == {n \in Nat : \E t \in C : Cardinality(t) = n /\ sum[t] \notin Int}
    <2> SUFFICES ASSUME sum[s] \notin Int PROVE FALSE
        OBVIOUS
    <2>1. Cardinality(s) \in U /\ U \subseteq Nat
          BY EntriesCount
    <2>2. PICK m \in U : \A k \in U : m <= k
        <3> HIDE DEF U
        <3> QED BY <2>1, LeastNumber
    <2>3. PICK t \in C : Cardinality(t) = m /\ sum[t] \notin Int
          BY <2>2
    <2>4. t # {}
        <3>1. t = {} => sum[t] = 0
              BY <1>1 DEF PlusOne
        <3> QED BY <2>3, <3>1
    <2> DEFINE rest == t \ {Picked(t)}
    <2>5. Picked(t) \in t /\ rest \in C /\ Cardinality(rest) = m - 1 /\ m - 1 \in Nat
          BY <2>3, <2>4, PickedIsIn, EntriesCount
    <2>6. sum[rest] \in Int
        <3>1. sum[rest] \notin Int => m - 1 \in U
              BY <2>5
        <3>2. ~ (m <= m - 1)
              BY <2>5
        <3> HIDE DEF U
        <3> QED BY <2>2, <3>1, <3>2
    <2>7. sum[t] = Picked(t).credits + sum[rest]
          BY <1>1, <2>4 DEF PlusOne
    <2>8. Picked(t).credits \in Int
          BY <2>5, CatalogAssumption
    <2> HIDE DEF rest
    <2> QED BY <2>3, <2>6, <2>7, <2>8
<1>3. T = {}
    <2> SUFFICES ASSUME T # {} PROVE FALSE
        OBVIOUS
    <2>1. T \subseteq Nat
          OBVIOUS
    <2>2. PICK m \in T : \A k \in T : m <= k
        <3> HIDE DEF T
        <3> QED BY <2>1, LeastNumber
    <2>3. PICK s \in C : Cardinality(s) = m /\ ~Takes(s)
          BY <2>2
    <2>4. PICK e \in s : sum[s] # e.credits + sum[s \ {e}]
          BY <2>3
    <2> DEFINE p == Picked(s)
    <2>5. p \in s /\ sum[s] = p.credits + sum[s \ {p}]
          BY <1>1, <2>4, PickedIsIn DEF PlusOne
    <2> HIDE DEF p
    <2>6. p # e
          BY <2>4, <2>5
    <2>7. ASSUME NEW x \in s PROVE Takes(s \ {x})
        <3>1. s \ {x} \in C /\ Cardinality(s \ {x}) = m - 1 /\ m \in Nat /\ m - 1 \in Nat
              BY <2>3, EntriesCount
        <3>2. ~Takes(s \ {x}) => m - 1 \in T
            <4> HIDE DEF Takes
            <4> QED BY <3>1
        <3>3. ~ (m <= m - 1)
              BY <3>1
        <3> HIDE DEF T
        <3> QED BY <2>2, <3>2, <3>3
    <2>8. sum[s \ {p}] = e.credits + sum[(s \ {p}) \ {e}]
          BY <2>5, <2>6, <2>7
    <2>9. sum[s \ {e}] = p.credits + sum[(s \ {e}) \ {p}]
          BY <2>5, <2>6, <2>7
    <2>10. (s \ {p}) \ {e} = (s \ {e}) \ {p}
          OBVIOUS
    <2>11. p.credits \in Int /\ e.credits \in Int /\ sum[(s \ {p}) \ {e}] \in Int
          BY <1>2, <2>5, CatalogAssumption
    <2>12. PICK left \in Int : left = sum[(s \ {p}) \ {e}]
          BY <2>11
    <2>13. sum[s \ {p}] = e.credits + left /\ sum[s \ {e}] = p.credits + left
          BY <2>8, <2>9, <2>10, <2>12
    <2>14. p.credits + (e.credits + left) = e.credits + (p.credits + left)
          BY <2>11
    <2> QED BY <2>4, <2>5, <2>13, <2>14
<1> QED BY <1>3, EntriesCount

\* Credits is that sum.
LEMMA CreditsSum ==
    ASSUME NEW sum, sum = [s \in SUBSET Catalog |-> PlusOne(sum, s)],
           NEW A \in SUBSET Catalog
    PROVE  Credits(A) = sum[A]
<1> DEFINE Iter(f) == f = [s \in SUBSET A |-> PlusOne(f, s)]
           iter == CHOOSE f : Iter(f)
           part == [s \in SUBSET A |-> sum[s]]
<1>1. \A s \in SUBSET A : part[s] = sum[s] /\ PlusOne(part, s) = PlusOne(sum, s)
    <2> SUFFICES ASSUME NEW s \in SUBSET A PROVE part[s] = sum[s] /\ PlusOne(part, s) = PlusOne(sum, s)
        OBVIOUS
    <2>1. s \ {Picked(s)} \in SUBSET A
          OBVIOUS
    <2> QED BY <2>1 DEF PlusOne
<1>2. \A s \in SUBSET A : sum[s] = PlusOne(sum, s)
      OBVIOUS
<1>3. Iter(part)
      BY <1>1, <1>2
<1>4. Iter(iter)
    <2> HIDE DEF Iter, part
    <2> QED BY <1>3
<1>5. iter[A] = sum[A]
    <2> HIDE DEF iter
    <2> QED BY <1>4, SumUnique
<1>6. Credits(A) = iter[A]
      BY DEF Credits, FoldSet, MapThenFoldSet, PlusOne, Picked
<1> QED BY <1>5, <1>6

\* One entry more adds its credits.
LEMMA CreditsAdd ==
    ASSUME NEW A \in SUBSET Catalog, NEW e \in Catalog, e \notin A
    PROVE  Credits(A \cup {e}) = e.credits + Credits(A)
<1>1. PICK sum : sum = [s \in SUBSET Catalog |-> PlusOne(sum, s)]
      BY SumExists
<1>2. A \cup {e} \in SUBSET Catalog /\ e \in A \cup {e} /\ (A \cup {e}) \ {e} = A
      OBVIOUS
<1>3. sum[A \cup {e}] = e.credits + sum[(A \cup {e}) \ {e}]
    <2> DEFINE B == A \cup {e}
    <2>1. B \in SUBSET Catalog /\ e \in B
          BY <1>2
    <2> HIDE DEF B
    <2>2. \A C \in SUBSET Catalog : \A a \in C : sum[C] = a.credits + sum[C \ {a}]
          BY <1>1, SumTakesAny
    <2>3. sum[B] = e.credits + sum[B \ {e}]
          BY <2>1, <2>2, Zenon
    <2> QED BY <2>3 DEF B
<1>4. Credits(A \cup {e}) = sum[A \cup {e}] /\ Credits(A) = sum[A]
      BY <1>1, <1>2, CreditsSum
<1> QED BY <1>2, <1>3, <1>4

-----------------------------------------------------------------------------
(* The degree advisor *)

\* Whatever the model answers, for every catalogue, set of requirements and
\* student: a recommended course is offered, not taken, its prerequisites are,
\* and it meets an unmet requirement or adds its credits to it
\* (_compute_eligible_courses, _prerequisites_satisfied,
\* _requirement_satisfied, _ground_truth_filter).
THEOREM RecommendationsAreReady == RecommendedIsReady
<1> SUFFICES ASSUME NEW code \in RecommendedCourses
             PROVE  LET after == input.completed \cup {code}
                    IN  /\ code \notin input.completed
                        /\ \E e \in Offered(input.institution) :
                             /\ e.code = code
                             /\ \A c \in Catalog : <<e.id, c.id>> \in input.prerequisites => c.code \in input.completed
                             /\ \E r \in input.requirements :
                                  /\ ~RequirementSatisfied(r, input.completed)
                                  /\ \/ RequirementSatisfied(r, after)
                                     \/ CreditsIn(r.category, after)
                                          = e.credits + CreditsIn(r.category, input.completed)
    BY DEF RecommendedIsReady
<1> DEFINE after == input.completed \cup {code}
<1>1. PICK e \in EligibleCourses : e.code = code
      BY DEF RecommendedCourses
<1>2. e \in Catalog /\ e \in Offered(input.institution) /\ code \notin input.completed
      BY <1>1 DEF EligibleCourses, Offered
<1>3. \A c \in Catalog : <<e.id, c.id>> \in input.prerequisites => c.code \in input.completed
      BY <1>1 DEF EligibleCourses, PrerequisitesSatisfied
<1>4. PICK r \in input.requirements :
         /\ ~RequirementSatisfied(r, input.completed)
         /\ \/ r.course # 0 /\ r.course = e.id
            \/ r.credits # 0 /\ r.category = e.category
      BY <1>1 DEF EligibleCourses, UnmetRequirements
<1>5. CASE r.course # 0 /\ r.course = e.id
    <2>1. RequirementSatisfied(r, after)
        <3>1. \E g \in Catalog : g.id = r.course /\ g.code \in after
              BY <1>1, <1>2, <1>5
        <3> HIDE DEF after
        <3> QED BY <1>5, <3>1 DEF RequirementSatisfied
    <2> QED BY <1>1, <1>2, <1>3, <1>4, <2>1
<1>6. CASE r.category = e.category
    <2> DEFINE done == {g \in Offered(input.institution) : g.code \in input.completed /\ g.category = r.category}
    <2>1. {g \in Offered(input.institution) : g.code \in after /\ g.category = r.category} = done \cup {e}
          BY <1>1, <1>2, <1>6, CatalogAssumption DEF Offered
    <2>2. done \in SUBSET Catalog /\ e \notin done
          BY <1>1, <1>2 DEF Offered
    <2>3. CreditsIn(r.category, after) = e.credits + CreditsIn(r.category, input.completed)
          BY <1>2, <2>1, <2>2, CreditsAdd DEF CreditsIn
    <2> QED BY <1>1, <1>2, <1>3, <1>4, <2>3
<1> QED BY <1>4, <1>5, <1>6

-----------------------------------------------------------------------------
(* The pages of a document, joined *)

\* One turn of the loop over the pages.
NoText == [text |-> <<>>, bounds |-> <<>>]
JoinTurn(joined, pages, n) ==
    IF n = 0 THEN NoText
    ELSE IF pages[n].text = <<>> THEN joined[n - 1]
    ELSE JoinPage(joined[n - 1], pages[n])

\* The recursion of the loop has a solution, and JoinPages is its last value.
LEMMA JoinTurns ==
    ASSUME NEW pages, Len(pages) \in Nat
    PROVE  \E joined : /\ \A n \in 0..Len(pages) : joined[n] = JoinTurn(joined, pages, n)
                       /\ JoinPages(pages) = joined[Len(pages)]
<1> DEFINE S == 0..Len(pages)
           Loop(f) == f = [n \in S |-> JoinTurn(f, pages, n)]
           UpTo(m, g) == g = [n \in S |-> g[n]] /\ \A n \in S : n <= m => g[n] = JoinTurn(g, pages, n)
           U == {m \in Nat : \E g : UpTo(m, g)}
           loop == CHOOSE f : Loop(f)
<1>1. 0 \in U
    <2> DEFINE g == [n \in S |-> NoText]
    <2>1. UpTo(0, g)
          BY DEF JoinTurn
    <2> HIDE DEF g, UpTo
    <2> QED BY <2>1
<1>2. ASSUME NEW m \in Nat, m \in U PROVE m + 1 \in U
    <2>1. PICK g : UpTo(m, g)
          BY <1>2
    <2> DEFINE more == [n \in S |-> JoinTurn(g, pages, n)]
    <2>2. ASSUME NEW n \in S, n <= m + 1 PROVE more[n] = JoinTurn(more, pages, n)
        <3>1. CASE n = 0
              BY <3>1 DEF JoinTurn
        <3>2. CASE n # 0
            <4>1. n - 1 \in S /\ n - 1 <= m
                  BY <2>2, <3>2
            <4>2. more[n - 1] = g[n - 1]
                  BY <2>1, <4>1
            <4> QED BY <3>2, <4>2 DEF JoinTurn
        <3> QED BY <3>1, <3>2
    <2>3. UpTo(m + 1, more)
          BY <2>2
    <2> HIDE DEF more, UpTo
    <2> QED BY <2>3
<1>3. Nat \subseteq U
    <2> HIDE DEF U
    <2> QED BY <1>1, <1>2, AllNumbers
<1>4. PICK g : UpTo(Len(pages), g)
    <2> HIDE DEF UpTo
    <2> QED BY <1>3
<1>5. Loop(g)
      BY <1>4
<1>6. Loop(loop)
    <2> HIDE DEF Loop
    <2> QED BY <1>5
<1>7. \A n \in S : loop[n] = JoinTurn(loop, pages, n)
    <2> HIDE DEF loop
    <2> QED BY <1>6
<1>8. JoinPages(pages) = loop[Len(pages)]
      BY DEF JoinPages, JoinTurn, NoText
<1> HIDE DEF loop
<1> QED BY <1>7, <1>8

\* What the loop keeps: every character that is no blank lies in the bounds of
\* its page, and the text grows at its end.
Chars == Nat \X Nat
Bounds == [page : Nat, start : Nat, end : Nat]
Holds(b, i) == b.start < i /\ i <= b.end

JoinedOK(joined) ==
    /\ joined.text \in Seq(Chars) /\ joined.bounds \in Seq(Bounds)
    /\ joined.bounds = <<>> => joined.text = <<>>
    /\ \A i \in 1..Len(joined.text) :
          joined.text[i] = Blank \/ \E b \in 1..Len(joined.bounds) :
             Holds(joined.bounds[b], i) /\ joined.text[i][1] = joined.bounds[b].page

Starts(text, longer) ==
    Len(text) <= Len(longer) /\ \A i \in 1..Len(text) : longer[i] = text[i]
Places(text, longer) ==
    \E s \in Nat : s + Len(text) <= Len(longer) /\ \A i \in 1..Len(text) : longer[s + i] = text[i]

PageOK(page) ==
    /\ page.number \in Nat /\ page.text \in Seq(Chars)
    /\ \A i \in 1..Len(page.text) : page.text[i] = Blank \/ page.text[i][1] = page.number

LEMMA JoinPageKeeps ==
    ASSUME NEW joined, JoinedOK(joined), NEW page, PageOK(page)
    PROVE  /\ JoinedOK(JoinPage(joined, page))
           /\ Starts(joined.text, JoinPage(joined, page).text)
           /\ Places(page.text, JoinPage(joined, page).text)
<1> DEFINE lead == IF joined.bounds = <<>> THEN <<>> ELSE joined.text \o Separator
           n == Len(joined.bounds)
           here == [page |-> page.number, start |-> Len(lead), end |-> Len(lead) + Len(page.text)]
           text == lead \o page.text
           bounds == Append(joined.bounds, here)
<1>1. JoinPage(joined, page) = [text |-> text, bounds |-> bounds]
      BY DEF JoinPage
<1>2. joined.text \in Seq(Chars) /\ joined.bounds \in Seq(Bounds) /\ page.text \in Seq(Chars)
      BY DEF JoinedOK, PageOK
<1>3. Separator \in Seq(Chars) /\ Len(Separator) = 2 /\ Separator[1] = Blank /\ Separator[2] = Blank
      BY DEF Separator, Blank, Chars
<1>4. /\ lead \in Seq(Chars) /\ Len(lead) \in Nat /\ Len(joined.text) \in Nat /\ Len(joined.text) <= Len(lead)
      /\ \A i \in 1..Len(lead) : lead[i] = IF i <= Len(joined.text) THEN joined.text[i] ELSE Blank
    <2>1. CASE joined.bounds = <<>>
        <3>1. joined.text = <<>> /\ lead = <<>>
              BY <2>1 DEF JoinedOK
        <3> HIDE DEF lead
        <3>2. Len(joined.text) = 0 /\ Len(lead) = 0 /\ lead \in Seq(Chars)
              BY <3>1, EmptySeq
        <3> QED BY <3>2
    <2>2. CASE joined.bounds # <<>>
        <3>1. lead = joined.text \o Separator
              BY <2>2
        <3>2. lead \in Seq(Chars) /\ Len(lead) = Len(joined.text) + 2
            <4> HIDE DEF lead
            <4>1. /\ joined.text \o Separator \in Seq(Chars)
                  /\ Len(joined.text \o Separator) = Len(joined.text) + Len(Separator)
                  BY <1>2, <1>3, ConcatProperties
            <4> QED BY <1>3, <3>1, <4>1
        <3>3. ASSUME NEW i \in 1..Len(lead)
              PROVE  lead[i] = IF i <= Len(joined.text) THEN joined.text[i] ELSE Blank
            <4> HIDE DEF lead
            <4>1. CASE i <= Len(joined.text)
                  BY <1>2, <1>3, <3>1, <3>2, <4>1
            <4>2. CASE i = Len(joined.text) + 1
                <5>1. lead[i] = Separator[1]
                      BY <1>2, <1>3, <3>1, <3>2, <4>2
                <5> QED BY <1>2, <1>3, <4>2, <5>1
            <4>3. CASE i = Len(joined.text) + 2
                <5>1. lead[i] = Separator[2]
                      BY <1>2, <1>3, <3>1, <3>2, <4>3
                <5> QED BY <1>2, <1>3, <4>3, <5>1
            <4> QED BY <1>2, <3>2, <4>1, <4>2, <4>3
        <3> QED BY <1>2, <3>2, <3>3
    <2> QED BY <2>1, <2>2
<1> HIDE DEF lead
<1>5. /\ text \in Seq(Chars) /\ Len(text) = Len(lead) + Len(page.text) /\ Len(page.text) \in Nat
      /\ \A i \in 1..Len(lead) : text[i] = lead[i]
      /\ \A i \in 1..Len(page.text) : text[Len(lead) + i] = page.text[i]
      BY <1>2, <1>4
<1>6. /\ bounds \in Seq(Bounds) /\ Len(bounds) = n + 1 /\ n \in Nat /\ bounds[n + 1] = here
      /\ \A b \in 1..n : bounds[b] = joined.bounds[b]
    <2>1. here \in Bounds
          BY <1>4, <1>5 DEF Bounds, PageOK
    <2> HIDE DEF here
    <2> QED BY <1>2, <2>1
<1>7. here.start = Len(lead) /\ here.end = Len(lead) + Len(page.text) /\ here.page = page.number
      OBVIOUS
<1> HIDE DEF text, bounds, here
<1>8. ASSUME NEW i \in 1..Len(text)
      PROVE  text[i] = Blank \/ \E b \in 1..Len(bounds) : Holds(bounds[b], i) /\ text[i][1] = bounds[b].page
    <2>1. CASE i <= Len(joined.text)
        <3>1. text[i] = joined.text[i] /\ i \in 1..Len(joined.text)
              BY <1>4, <1>5, <2>1
        <3>2. CASE text[i] # Blank
            <4>1. PICK b \in 1..n : Holds(joined.bounds[b], i) /\ joined.text[i][1] = joined.bounds[b].page
                  BY <3>1, <3>2 DEF JoinedOK
            <4>2. b \in 1..Len(bounds) /\ bounds[b] = joined.bounds[b]
                  BY <1>6
            <4> QED BY <3>1, <4>1, <4>2
        <3> QED BY <3>2
    <2>2. CASE Len(joined.text) < i /\ i <= Len(lead)
          BY <1>4, <1>5, <2>2
    <2>3. CASE Len(lead) < i
        <3>1. PICK k \in 1..Len(page.text) : i = Len(lead) + k
            <4>1. i - Len(lead) \in 1..Len(page.text)
                  BY <1>4, <1>5, <2>3
            <4> QED BY <1>4, <4>1
        <3>2. text[i] = page.text[k] /\ (page.text[k] = Blank \/ page.text[k][1] = page.number)
              BY <1>5, <3>1 DEF PageOK
        <3>3. Holds(here, i)
              BY <1>4, <1>5, <1>7, <3>1 DEF Holds
        <3>4. n + 1 \in 1..Len(bounds)
              BY <1>6
        <3> QED BY <1>6, <1>7, <3>2, <3>3, <3>4
    <2> QED BY <1>4, <1>5, <2>1, <2>2, <2>3
<1>9. bounds # <<>>
      BY <1>6
<1>10. Starts(joined.text, text)
      BY <1>4, <1>5 DEF Starts
<1>11. Places(page.text, text)
    <2>1. /\ Len(lead) \in Nat /\ Len(lead) + Len(page.text) <= Len(text)
          /\ \A i \in 1..Len(page.text) : text[Len(lead) + i] = page.text[i]
          BY <1>4, <1>5
    <2> QED BY <2>1 DEF Places
<1>12. JoinedOK([text |-> text, bounds |-> bounds])
      BY <1>5, <1>6, <1>8, <1>9 DEF JoinedOK
<1> QED BY <1>1, <1>10, <1>11, <1>12

\* A page's place in a text is its place in a longer one.
LEMMA PlacesStay ==
    ASSUME NEW text, NEW shorter, NEW longer, Len(text) \in Nat, Len(shorter) \in Nat, Len(longer) \in Nat,
           Places(text, shorter), Starts(shorter, longer)
    PROVE  Places(text, longer)
<1>1. PICK s \in Nat : /\ s + Len(text) <= Len(shorter)
                       /\ \A i \in 1..Len(text) : shorter[s + i] = text[i]
      BY DEF Places
<1>2. \A i \in 1..Len(text) : longer[s + i] = text[i]
    <2> SUFFICES ASSUME NEW i \in 1..Len(text) PROVE longer[s + i] = text[i]
        OBVIOUS
    <2>1. s + i \in 1..Len(shorter)
          BY <1>1
    <2> QED BY <1>1, <2>1 DEF Starts
<1>3. s + Len(text) <= Len(longer)
      BY <1>1 DEF Starts
<1> QED BY <1>2, <1>3 DEF Places

\* The joined text holds every page in its place, and nothing but blanks and
\* characters of the pages whose bounds they lie in.
PagesOK(pages) ==
    /\ Len(pages) \in Nat /\ DOMAIN pages = 1..Len(pages)
    /\ \A p \in 1..Len(pages) : PageOK(pages[p])

LEMMA JoinedPages ==
    ASSUME NEW pages, PagesOK(pages)
    PROVE  /\ JoinedOK(JoinPages(pages))
           /\ \A p \in 1..Len(pages) : Places(pages[p].text, JoinPages(pages).text)
<1>1. Len(pages) \in Nat
      BY DEF PagesOK
<1>2. PICK joined : /\ \A n \in 0..Len(pages) : joined[n] = JoinTurn(joined, pages, n)
                    /\ JoinPages(pages) = joined[Len(pages)]
      BY <1>1, JoinTurns
<1> DEFINE Inv(n) == JoinedOK(joined[n]) /\ \A p \in 1..n : Places(pages[p].text, joined[n].text)
           U == {n \in Nat : n <= Len(pages) => Inv(n)}
<1>3. 0 \in U
    <2>1. joined[0] = NoText
          BY <1>1, <1>2 DEF JoinTurn
    <2>2. JoinedOK(NoText)
        <3>1. NoText.text = <<>> /\ NoText.bounds = <<>>
              BY DEF NoText
        <3> QED BY <3>1, EmptySeq DEF JoinedOK
    <2> QED BY <2>1, <2>2
<1>4. ASSUME NEW n \in Nat, n \in U PROVE n + 1 \in U
    <2> SUFFICES ASSUME n + 1 <= Len(pages) PROVE Inv(n + 1)
        OBVIOUS
    <2> DEFINE page == pages[n + 1]
    <2>1. n + 1 \in 0..Len(pages) /\ n + 1 \in 1..Len(pages) /\ n + 1 # 0 /\ (n + 1) - 1 = n
          BY <1>1
    <2>2. Inv(n)
          BY <1>1, <1>4
    <2>3. PageOK(page) /\ Len(page.text) \in Nat
          BY <2>1 DEF PagesOK, PageOK
    <2>4. joined[n + 1] = IF page.text = <<>> THEN joined[n] ELSE JoinPage(joined[n], page)
          BY <1>2, <2>1 DEF JoinTurn
    <2>5. \A p \in 1..(n + 1) : p \in 1..n \/ p = n + 1
          OBVIOUS
    <2>6. \A p \in 1..n : PageOK(pages[p]) /\ Len(pages[p].text) \in Nat
        <3>1. \A p \in 1..n : p \in 1..Len(pages)
              BY <1>1
        <3> QED BY <3>1 DEF PagesOK, PageOK
    <2>7. Len(joined[n].text) \in Nat
          BY <2>2 DEF JoinedOK
    <2> HIDE DEF page
    <2>8. CASE page.text = <<>>
        <3>1. joined[n + 1] = joined[n]
              BY <2>4, <2>8
        <3>2. Places(page.text, joined[n].text)
            <4>1. Len(page.text) = 0 /\ 0 + 0 <= Len(joined[n].text)
                  BY <2>7, <2>8, EmptySeq
            <4> QED BY <4>1 DEF Places
        <3> QED BY <2>2, <2>5, <3>1, <3>2 DEF page
    <2>9. CASE page.text # <<>>
        <3> DEFINE next == JoinPage(joined[n], page)
        <3>1. joined[n + 1] = next
              BY <2>4, <2>9
        <3>2. JoinedOK(next) /\ Starts(joined[n].text, next.text) /\ Places(page.text, next.text)
              BY <2>2, <2>3, JoinPageKeeps
        <3>3. Len(next.text) \in Nat
              BY <3>2 DEF JoinedOK
        <3> HIDE DEF next
        <3>4. \A p \in 1..n : Places(pages[p].text, next.text)
              BY <2>2, <2>6, <2>7, <3>2, <3>3, PlacesStay
        <3> QED BY <2>5, <3>1, <3>2, <3>4 DEF page
    <2> QED BY <2>8, <2>9
<1>5. Nat \subseteq U
    <2> HIDE DEF U
    <2> QED BY <1>3, <1>4, AllNumbers
<1> QED BY <1>1, <1>2, <1>5

-----------------------------------------------------------------------------
(* The windows over the text, and what is left of one *)

\* A bounded set of numbers has a greatest, and any has a least.
LEMMA Extremes ==
    ASSUME NEW T, T \subseteq Nat, T # {}, NEW top \in Nat, \A k \in T : k <= top
    PROVE  /\ Max(T) \in T /\ \A k \in T : k <= Max(T)
           /\ Min(T) \in T /\ \A k \in T : Min(T) <= k
<1>1. PICK least \in T : \A k \in T : least <= k
      BY LeastNumber
<1>2. Min(T) \in T /\ \A k \in T : Min(T) <= k
      BY <1>1 DEF Min
<1> DEFINE above == {n \in Nat : \A k \in T : k <= n}
<1>3. PICK m \in above : \A n \in above : m <= n
    <2>1. top \in above
          OBVIOUS
    <2> QED BY <2>1, LeastNumber
<1>4. m \in T
    <2> SUFFICES ASSUME m \notin T PROVE FALSE
        OBVIOUS
    <2>1. \A k \in T : k <= m - 1
          BY <1>3
    <2>2. m - 1 \in Nat
          BY <2>1
    <2> QED BY <1>3, <2>1, <2>2
<1>5. Max(T) \in T /\ \A k \in T : k <= Max(T)
    <2>1. \E x \in T : \A y \in T : x >= y
          BY <1>3, <1>4
    <2> QED BY <2>1 DEF Max
<1> QED BY <1>2, <1>5

\* The values of a function on 1..n have an upper bound.
LEMMA ValuesAreBounded ==
    ASSUME NEW n \in Nat, NEW f, \A b \in 1..n : f[b] \in Nat
    PROVE  \E top \in Nat : \A b \in 1..n : f[b] <= top
<1> DEFINE Bounded(k) == \E top \in Nat : \A b \in 1..k : f[b] <= top
           U == {k \in Nat : k <= n => Bounded(k)}
<1>1. 0 \in U
      OBVIOUS
<1>2. ASSUME NEW k \in Nat, k \in U PROVE k + 1 \in U
    <2> SUFFICES ASSUME k + 1 <= n PROVE Bounded(k + 1)
        OBVIOUS
    <2>1. PICK top \in Nat : \A b \in 1..k : f[b] <= top
          BY <1>2
    <2>2. f[k + 1] \in Nat
          OBVIOUS
    <2>3. PICK next \in Nat : top <= next /\ f[k + 1] <= next
        <3>1. top <= top + f[k + 1] /\ f[k + 1] <= top + f[k + 1] /\ top + f[k + 1] \in Nat
              BY <2>2
        <3> QED BY <3>1
    <2>4. \A b \in 1..(k + 1) : f[b] <= next
        <3> SUFFICES ASSUME NEW b \in 1..(k + 1) PROVE f[b] <= next
            OBVIOUS
        <3>1. CASE b = k + 1
              BY <2>3, <3>1
        <3>2. CASE b \in 1..k
            <4>1. f[b] <= top /\ f[b] \in Nat
                  BY <2>1, <3>2
            <4> QED BY <2>3, <4>1
        <3> QED BY <3>1, <3>2
    <2> QED BY <2>4
<1>3. Nat \subseteq U
    <2> HIDE DEF U
    <2> QED BY <1>1, <1>2, AllNumbers
<1>4. n \in U
    <2> HIDE DEF U
    <2> QED BY <1>3
<1> QED BY <1>4

\* A window starts inside the text.
LEMMA WindowsStartInside ==
    ASSUME NEW L \in Nat, NEW w \in WindowStarts(L)
    PROVE  w \in Nat /\ w < L
<1> DEFINE step == ChunkSize - ChunkOverlap
<1>1. PICK j \in 0..L : w = j * step /\ L > 0 /\ (j = 0 \/ (j - 1) * step + ChunkSize < L)
      BY DEF WindowStarts
<1>2. step \in Nat /\ step <= ChunkSize /\ ChunkSize \in Nat
      BY OverlapIsShort
<1> HIDE DEF step
<1>3. j * step \in Nat /\ (j = 0 => j * step = 0) /\ j * step = (j - 1) * step + step
      BY <1>2
<1>4. PICK a \in Int : a = (j - 1) * step
      BY <1>2
<1> QED BY <1>1, <1>2, <1>3, <1>4

\* Two characters at most the overlap apart are together in a window.
LEMMA WindowsOverlap ==
    ASSUME NEW L \in Nat, NEW k \in 1..L, NEW l \in k..L, l - k <= ChunkOverlap
    PROVE  \E w \in WindowStarts(L) : w < k /\ l <= Lesser(w + ChunkSize, L)
<1> DEFINE step == ChunkSize - ChunkOverlap
           T == {j \in Nat : l <= j * step + ChunkSize}
<1>1. step \in Nat /\ step >= 1 /\ step <= ChunkSize /\ ChunkSize \in Nat /\ ChunkOverlap = ChunkSize - step
      BY OverlapIsShort
<1>2. ASSUME NEW s \in Nat, NEW j \in Nat, s >= 1
      PROVE  j * s \in Nat /\ j <= j * s /\ (j - 1) * s = j * s - s
    <2>1. j * s = j + j * (s - 1) /\ j * (s - 1) \in Nat
          BY <1>2
    <2> QED BY <1>2, <2>1
<1>3. l \in T
    <2>1. l * step \in Nat /\ l <= l * step
          BY <1>1, <1>2
    <2> HIDE DEF step
    <2> QED BY <1>1, <2>1
<1>4. PICK m \in T : \A j \in T : m <= j
    <2> HIDE DEF T
    <2>1. T \subseteq Nat
          BY DEF T
    <2> QED BY <1>3, <2>1, LeastNumber
<1>5. PICK w \in Nat : w = m * step
      BY <1>1, <1>2
<1>6. l <= w + ChunkSize
      BY <1>4, <1>5
<1>7. m \in Nat /\ m <= w /\ (m - 1) * step = w - step
      BY <1>1, <1>2, <1>4, <1>5
<1>8. m = 0 => w = 0
      BY <1>1, <1>5
<1>9. m # 0 => w - step + ChunkSize < l
    <2> SUFFICES ASSUME m # 0 PROVE w - step + ChunkSize < l
        OBVIOUS
    <2>1. m - 1 \in Nat /\ m - 1 \notin T
        <3> HIDE DEF T
        <3> QED BY <1>4, <1>7
    <2>2. ~(l <= (m - 1) * step + ChunkSize)
          BY <2>1
    <2> HIDE DEF step
    <2> QED BY <1>1, <1>7, <2>2
<1> HIDE DEF T, step
<1>10. w < k
    <2>1. l - k <= ChunkSize - step
          BY <1>1
    <2>2. CASE m = 0
          BY <1>8, <2>2
    <2>3. CASE m # 0
          BY <1>1, <1>9, <2>1, <2>3
    <2> QED BY <2>2, <2>3
<1>11. w \in WindowStarts(L)
    <2>1. m \in 0..L /\ L > 0
          BY <1>7, <1>10
    <2>2. m = 0 \/ (m - 1) * step + ChunkSize < L
          BY <1>1, <1>7, <1>9
    <2> QED BY <1>5, <2>1, <2>2 DEF WindowStarts, step
<1>12. l <= Lesser(w + ChunkSize, L)
      BY <1>6 DEF Lesser
<1> QED BY <1>10, <1>11, <1>12

\* Stripping a text with a character in it leaves its characters, in a part of it.
LEMMA StripKeeps ==
    ASSUME NEW text \in Seq(Chars), Inked(text) # {}
    PROVE  /\ Len(Strip(text)) \in 1..Len(text)
           /\ Strip(text) # <<>>
           /\ \A i \in DOMAIN Strip(text) : \E j \in 1..Len(text) : Strip(text)[i] = text[j]
           /\ \A j \in Inked(text) : text[j] \in ToSet(Strip(text))
<1> DEFINE T == Inked(text)
           a == Min(T)
           z == Max(T)
           s == SubSeq(text, a, z)
<1>1. Len(text) \in Nat /\ DOMAIN text = 1..Len(text) /\ \A i \in 1..Len(text) : text[i] \in Chars
      OBVIOUS
<1>2. T \subseteq 1..Len(text)
      BY <1>1 DEF Inked
<1>3. /\ z \in T /\ \A k \in T : k <= z
      /\ a \in T /\ \A k \in T : a <= k
    <2> HIDE DEF T
    <2>1. T \subseteq Nat /\ \A k \in T : k <= Len(text)
          BY <1>1, <1>2
    <2> QED BY <1>1, <2>1, Extremes DEF T
<1>4. Strip(text) = s
      BY DEF Strip
<1> HIDE DEF T, a, z
<1>5. a \in 1..Len(text) /\ z \in 1..Len(text) /\ a <= z
      BY <1>1, <1>2, <1>3
<1>6. s \in Seq(Chars) /\ Len(s) = z - a + 1 /\ \A i \in 1..(z - a + 1) : s[i] = text[a + i - 1]
    <2>1. a \in Int /\ z \in Int /\ \A i \in a..z : text[i] \in Chars
          BY <1>1, <1>5
    <2> HIDE DEF s
    <2> QED BY <1>5, <2>1, SubSeqProperties DEF s
<1> HIDE DEF s
<1>7. Len(s) \in 1..Len(text) /\ DOMAIN s = 1..(z - a + 1)
      BY <1>1, <1>5, <1>6
<1>8. \A i \in DOMAIN s : \E j \in 1..Len(text) : s[i] = text[j]
    <2> SUFFICES ASSUME NEW i \in 1..(z - a + 1) PROVE \E j \in 1..Len(text) : s[i] = text[j]
        BY <1>7
    <2>1. a + i - 1 \in 1..Len(text)
          BY <1>1, <1>5
    <2> QED BY <1>6, <2>1
<1>9. \A j \in T : text[j] \in ToSet(s)
    <2> SUFFICES ASSUME NEW j \in T PROVE text[j] \in ToSet(s)
        OBVIOUS
    <2>1. PICK i \in 1..(z - a + 1) : j = a + i - 1
        <3>1. j \in Nat /\ a <= j /\ j <= z
              BY <1>2, <1>3
        <3>2. j - a + 1 \in 1..(z - a + 1)
              BY <1>5, <3>1
        <3> QED BY <1>5, <3>1, <3>2
    <2> QED BY <1>6, <1>7, <2>1 DEF ToSet
<1>10. s # <<>>
      BY <1>5, <1>6
<1> QED BY <1>4, <1>7, <1>8, <1>9, <1>10 DEF T

\* What chunk_document_pages is given: pages of text, whose characters carry the
\* number of their page.
DocumentInput == PagesOK(input.pages)

\* A window of the joined text whose characters are not all blank.
LEMMA Within ==
    ASSUME NEW w \in Int, NEW end \in Int, NEW from \in Int, NEW to \in Int, NEW k \in Int,
           w < k, k <= end, from < k, k <= to
    PROVE  to > w /\ from < end
OBVIOUS

LEMMA WindowChunk ==
    ASSUME NEW joined, JoinedOK(joined), NEW w \in WindowStarts(Len(joined.text)),
           NEW end, end = Lesser(w + ChunkSize, Len(joined.text)),
           NEW window, window = SubSeq(joined.text, w + 1, end),
           NEW spread, spread = PagesIn(joined.bounds, w, end)
    PROVE  /\ window \in Seq(Chars)
           /\ \A k \in (w + 1)..end : joined.text[k] # Blank =>
                /\ Inked(window) # {}
                /\ joined.text[k] \in ToSet(Strip(window))
           /\ Strip(window) # <<>> =>
                /\ Len(Strip(window)) \in 1..ChunkSize
                /\ \A i \in Inked(Strip(window)) : Strip(window)[i][1] \in Min(spread)..Max(spread)
<1> DEFINE text == joined.text
           bounds == joined.bounds
           n == Len(bounds)
<1>1. /\ text \in Seq(Chars) /\ Len(text) \in Nat /\ bounds \in Seq(Bounds) /\ n \in Nat
      /\ \A k \in 1..Len(text) : text[k] \in Chars
      BY DEF JoinedOK
<1>2. /\ w \in Nat /\ w < end /\ end \in Nat /\ end <= Len(text) /\ end - w <= ChunkSize
      /\ ChunkSize \in Nat
    <2>1. w \in Nat /\ w < Len(text)
          BY <1>1, WindowsStartInside
    <2>2. ChunkSize \in Nat /\ ChunkSize > 0
          BY OverlapIsShort
    <2> QED BY <1>1, <2>1, <2>2 DEF Lesser
<1>3. /\ window \in Seq(Chars) /\ Len(window) = end - w
      /\ \A j \in 1..(end - w) : window[j] = text[w + j]
    <2>1. w + 1 \in Int /\ end \in Int /\ \A i \in (w + 1)..end : text[i] \in Chars
          BY <1>1, <1>2
    <2>2. window = SubSeq(text, w + 1, end)
          OBVIOUS
    <2> HIDE DEF text
    <2>3. PICK m \in Int : m = w + 1
          BY <2>1
    <2>4. /\ SubSeq(text, m, end) \in Seq(Chars)
          /\ Len(SubSeq(text, m, end)) = IF m <= end THEN end - m + 1 ELSE 0
          /\ \A i \in 1..(end - m + 1) : SubSeq(text, m, end)[i] = text[m + i - 1]
          BY <2>1, <2>3, SubSeqProperties
    <2>5. window = SubSeq(text, m, end)
          BY <2>2, <2>3
    <2>6. Len(window) = end - w
          BY <1>2, <2>3, <2>4, <2>5
    <2>7. \A j \in 1..(end - w) : j \in 1..(end - m + 1) /\ m + j - 1 = w + j
          BY <1>2, <2>3
    <2> QED BY <2>4, <2>5, <2>6, <2>7
<1>4. DOMAIN window = 1..(end - w)
      BY <1>3
<1> HIDE DEF text, bounds
<1>5. ASSUME NEW k \in (w + 1)..end, text[k] # Blank
      PROVE  Inked(window) # {} /\ text[k] \in ToSet(Strip(window))
    <2>1. PICK j \in 1..(end - w) : k = w + j
        <3>1. k - w \in 1..(end - w) /\ k = w + (k - w)
              BY <1>2
        <3> QED BY <3>1
    <2>2. window[j] = text[k] /\ j \in Inked(window)
          BY <1>3, <1>4, <1>5, <2>1 DEF Inked
    <2>3. window[j] \in ToSet(Strip(window))
          BY <1>3, <2>2, StripKeeps
    <2> QED BY <2>2, <2>3
<1>6. ASSUME Strip(window) # <<>>
      PROVE  /\ Len(Strip(window)) \in 1..ChunkSize
             /\ \A i \in Inked(Strip(window)) : Strip(window)[i][1] \in Min(spread)..Max(spread)
    <2>1. Inked(window) # {}
          BY <1>6 DEF Strip
    <2>2. /\ Len(Strip(window)) \in 1..Len(window)
          /\ \A i \in DOMAIN Strip(window) : \E j \in 1..Len(window) : Strip(window)[i] = window[j]
          BY <1>3, <2>1, StripKeeps
    <2>3. Len(Strip(window)) \in 1..ChunkSize
        <3>1. PICK size \in Int : size = Len(Strip(window))
              BY <2>2
        <3>2. PICK most \in Int : most = Len(window) /\ most <= ChunkSize
              BY <1>2, <1>3
        <3> QED BY <1>2, <2>2, <3>1, <3>2
    <2> DEFINE covering == {b \in 1..n : bounds[b].end > w /\ bounds[b].start < end}
               page == [b \in 1..n |-> bounds[b].page]
    <2>4. DOMAIN bounds = 1..n /\ \A b \in 1..n : bounds[b] \in Bounds
          BY <1>1 DEF bounds
    <2>5. \A b \in 1..n : page[b] \in Nat /\ bounds[b].start \in Nat /\ bounds[b].end \in Nat
          BY <2>4 DEF Bounds
    <2>6. spread = {page[b] : b \in IF covering = {} THEN {1} ELSE covering} \/ covering = {}
          BY <2>4 DEF PagesIn, bounds
    <2> HIDE DEF page
    <2>7. ASSUME NEW k \in (w + 1)..end, text[k] # Blank
          PROVE  \E b \in covering : text[k][1] = page[b]
        <3>1. k \in 1..Len(text) /\ k \in Nat /\ w < k /\ k <= end
              BY <1>1, <1>2
        <3>2. PICK b \in 1..n : Holds(bounds[b], k) /\ text[k][1] = bounds[b].page
              BY <2>7, <3>1 DEF JoinedOK, text, bounds
        <3>3. bounds[b].end > w /\ bounds[b].start < end
            <4>1. PICK from \in Nat, to \in Nat : from = bounds[b].start /\ to = bounds[b].end
                  BY <2>5
            <4>2. from < k /\ k <= to
                  BY <3>2, <4>1 DEF Holds
            <4>3. w \in Int /\ end \in Int
                  BY <1>2
            <4>4. to > w /\ from < end
                  BY <3>1, <4>2, <4>3, Within
            <4> QED BY <4>1, <4>4
        <3> QED BY <3>2, <3>3 DEF page
    <2> HIDE DEF covering
    <2>8. covering # {}
        <3>1. PICK j \in 1..(end - w) : window[j] # Blank
              BY <1>4, <2>1 DEF Inked
        <3>2. w + j \in (w + 1)..end
              BY <1>2
        <3>3. text[w + j] = window[j]
              BY <1>3
        <3> QED BY <2>7, <3>1, <3>2, <3>3
    <2>9. spread = {page[b] : b \in covering} /\ covering \subseteq 1..n
          BY <2>6, <2>8 DEF covering
    <2>10. PICK top \in Nat : \A b \in 1..n : page[b] <= top
          BY <1>1, <2>5, ValuesAreBounded
    <2>11. \A p \in spread : Min(spread) <= p /\ p <= Max(spread) /\ p \in Nat
        <3>1. spread \subseteq Nat /\ spread # {} /\ \A p \in spread : p <= top
              BY <2>5, <2>8, <2>9, <2>10
        <3> QED BY <3>1, Extremes
    <2>12. Min(spread) \in Nat /\ Max(spread) \in Nat
        <3>1. spread \subseteq Nat /\ spread # {} /\ \A p \in spread : p <= top
              BY <2>5, <2>8, <2>9, <2>10
        <3> QED BY <3>1, Extremes
    <2>13. ASSUME NEW i \in Inked(Strip(window))
          PROVE  Strip(window)[i][1] \in Min(spread)..Max(spread)
        <3>1. i \in DOMAIN Strip(window) /\ Strip(window)[i] # Blank
              BY DEF Inked
        <3>2. PICK j \in 1..(end - w) : Strip(window)[i] = window[j]
            <4>1. PICK j \in 1..Len(window) : Strip(window)[i] = window[j]
                  BY <2>2, <3>1
            <4>2. Len(window) = end - w
                  BY <1>3
            <4>3. j \in 1..(end - w)
                  BY <4>2
            <4> QED BY <4>1, <4>3
        <3>3. w + j \in (w + 1)..end /\ text[w + j] = window[j]
              BY <1>2, <1>3
        <3>4. Strip(window)[i][1] \in spread
              BY <2>7, <2>9, <3>1, <3>2, <3>3
        <3> QED BY <2>11, <2>12, <3>4
    <2> QED BY <2>3, <2>13
<1> QED BY <1>3, <1>5, <1>6 DEF text

\* For every document and every window, nothing of the text is lost to the
\* chunks, no chunk is longer than the window, the pages of a chunk hold those
\* of its characters, and two characters of a page at most the overlap apart
\* are together in a chunk (chunk_document_pages, _page_range_for).
THEOREM ChunksAreComplete ==
    ASSUME DocumentInput
    PROVE  ChunksCoverText
<1> DEFINE pages == input.pages
           joined == JoinPages(pages)
           L == Len(joined.text)
           end(w) == Lesser(w + ChunkSize, L)
           window(w) == SubSeq(joined.text, w + 1, end(w))
           content(w) == Strip(window(w))
           spread(w) == PagesIn(joined.bounds, w, end(w))
           draft(w) == [content |-> content(w), startPage |-> Min(spread(w)), endPage |-> Max(spread(w))]
           drafts == ChunkDocument(pages)
<1>1. PagesOK(pages)
      BY DEF DocumentInput
<1>2. JoinedOK(joined) /\ \A p \in 1..Len(pages) : Places(pages[p].text, joined.text)
      BY <1>1, JoinedPages
<1>3. drafts = {draft(w) : w \in {v \in WindowStarts(L) : content(v) # <<>>}}
      BY DEF ChunkDocument
<1> HIDE DEF joined, drafts
<1>4. L \in Nat
      BY <1>2 DEF JoinedOK
<1>5. ASSUME NEW w \in WindowStarts(L)
      PROVE  /\ \A k \in (w + 1)..end(w) : joined.text[k] # Blank =>
                   joined.text[k] \in ToSet(content(w))
             /\ content(w) # <<>> =>
                  /\ Len(content(w)) \in 1..ChunkSize
                  /\ \A i \in Inked(content(w)) : content(w)[i][1] \in Min(spread(w))..Max(spread(w))
      BY <1>2, WindowChunk
<1>6. \A w : draft(w).content = content(w) /\ draft(w).startPage = Min(spread(w))
               /\ draft(w).endPage = Max(spread(w))
      OBVIOUS
<1> HIDE DEF content, spread, draft
<1>7. ASSUME NEW d \in drafts
      PROVE  /\ Len(d.content) \in 1..ChunkSize
             /\ \A i \in Inked(d.content) : d.content[i][1] \in d.startPage..d.endPage
    <2>1. PICK w \in WindowStarts(L) : content(w) # <<>> /\ d = draft(w)
          BY <1>3
    <2> QED BY <1>5, <1>6, <2>1
<1>8. ASSUME NEW p \in DOMAIN pages, NEW i \in Inked(pages[p].text), NEW j \in Inked(pages[p].text),
             i <= j, j - i <= ChunkOverlap
      PROVE  \E d \in drafts : {pages[p].text[i], pages[p].text[j]} \subseteq ToSet(d.content)
    <2> DEFINE text == pages[p].text
    <2>1. p \in 1..Len(pages) /\ text \in Seq(Chars)
          BY <1>1 DEF PagesOK, PageOK
    <2>2. /\ Len(text) \in Nat /\ i \in 1..Len(text) /\ j \in 1..Len(text)
          /\ text[i] # Blank /\ text[j] # Blank
          BY <2>1 DEF Inked
    <2>3. PICK s \in Nat : /\ s + Len(text) <= L
                           /\ \A k \in 1..Len(text) : joined.text[s + k] = text[k]
          BY <1>2, <2>1 DEF Places
    <2> HIDE DEF text, L
    <2>4. /\ s + i \in 1..L /\ s + j \in (s + i)..L /\ (s + j) - (s + i) <= ChunkOverlap
          BY <1>4, <1>8, <2>2, <2>3, OverlapIsShort
    <2>5. PICK w \in WindowStarts(L) : w < s + i /\ s + j <= end(w)
        <3> HIDE DEF end
        <3>1. \A w : end(w) = Lesser(w + ChunkSize, L)
              BY DEF end
        <3> QED BY <1>4, <2>4, <3>1, WindowsOverlap
    <2>6. w \in Nat /\ end(w) \in Int
        <3>1. w \in Nat
              BY <1>4, WindowsStartInside
        <3> QED BY <1>4, <3>1, OverlapIsShort DEF Lesser
    <2> HIDE DEF end
    <2>7. s + i \in (w + 1)..end(w) /\ s + j \in (w + 1)..end(w)
          BY <1>8, <2>2, <2>5, <2>6
    <2>8. joined.text[s + i] = text[i] /\ joined.text[s + j] = text[j]
          BY <2>2, <2>3
    <2>9. text[i] \in ToSet(content(w)) /\ text[j] \in ToSet(content(w))
          BY <1>5, <2>2, <2>7, <2>8
    <2>10. content(w) # <<>>
        <3>1. ToSet(<<>>) = {}
              BY DEF ToSet
        <3> QED BY <2>9, <3>1
    <2>11. draft(w) \in drafts
          BY <1>3, <2>10 DEF L
    <2> QED BY <1>6, <2>9, <2>11 DEF text
<1> QED BY <1>7, <1>8 DEF ChunksCoverText, drafts

-----------------------------------------------------------------------------
(* The rows of a list in order: a set of rows and an order on it have one    *)
(* sequence that lists the rows in that order.                               *)

StrictOrder(S, R) ==
    /\ \A x \in S : <<x, x>> \notin R
    /\ \A x, y, z \in S : <<x, y>> \in R /\ <<y, z>> \in R => <<x, z>> \in R
    /\ \A x, y \in S : x = y \/ <<x, y>> \in R \/ <<y, x>> \in R

Under(x, S, R) == {y \in S : <<y, x>> \in R}
Rank(x, S, R) == Cardinality(Under(x, S, R)) + 1

LEMMA RankIsPlace ==
    ASSUME NEW S, IsFiniteSet(S), NEW R, StrictOrder(S, R)
    PROVE  /\ Cardinality(S) \in Nat
           /\ \A x \in S : Rank(x, S, R) \in 1..Cardinality(S)
           /\ \A x, y \in S : <<x, y>> \in R => Rank(x, S, R) < Rank(y, S, R)
<1>1. Cardinality(S) \in Nat
      BY FS_CardinalityType
<1>2. ASSUME NEW x \in S
      PROVE  /\ Under(x, S, R) \in SUBSET S /\ x \notin Under(x, S, R)
             /\ IsFiniteSet(Under(x, S, R)) /\ Cardinality(Under(x, S, R)) \in Nat
    <2>1. Under(x, S, R) \in SUBSET S /\ x \notin Under(x, S, R)
          BY DEF Under, StrictOrder
    <2>2. IsFiniteSet(Under(x, S, R))
          BY <2>1, FS_Subset
    <2> QED BY <2>1, <2>2, FS_CardinalityType
<1>3. ASSUME NEW x \in S PROVE Rank(x, S, R) \in 1..Cardinality(S)
    <2>1. Under(x, S, R) \in SUBSET (S \ {x})
          BY <1>2
    <2>2. IsFiniteSet(S \ {x}) /\ Cardinality(S \ {x}) = Cardinality(S) - 1
          BY FS_RemoveElement
    <2>3. Cardinality(Under(x, S, R)) <= Cardinality(S \ {x})
          BY <2>1, <2>2, FS_Subset
    <2> QED BY <1>1, <1>2, <2>2, <2>3 DEF Rank
<1>4. ASSUME NEW x \in S, NEW y \in S, <<x, y>> \in R PROVE Rank(x, S, R) < Rank(y, S, R)
    <2>1. Under(x, S, R) \in SUBSET Under(y, S, R)
          BY <1>4 DEF Under, StrictOrder
    <2>2. Under(x, S, R) # Under(y, S, R)
        <3>1. x \in Under(y, S, R)
              BY <1>4 DEF Under
        <3> QED BY <1>2, <3>1
    <2>3. /\ Cardinality(Under(x, S, R)) <= Cardinality(Under(y, S, R))
          /\ Cardinality(Under(x, S, R)) # Cardinality(Under(y, S, R))
          BY <1>2, <2>1, <2>2, FS_Subset
    <2> QED BY <1>2, <2>3 DEF Rank
<1> QED BY <1>1, <1>3, <1>4

\* Of two rows one comes first.
LEMMA OneIsFirst ==
    ASSUME NEW S, NEW R, StrictOrder(S, R), NEW x \in S, NEW y \in S
    PROVE  /\ x = y \/ <<x, y>> \in R \/ <<y, x>> \in R
           /\ <<x, y>> \in R => x # y /\ <<y, x>> \notin R
<1>1. x = y \/ <<x, y>> \in R \/ <<y, x>> \in R
      BY Zenon DEF StrictOrder
<1>2. <<x, x>> \notin R /\ <<y, y>> \notin R
      BY Zenon DEF StrictOrder
<1>3. <<x, y>> \in R /\ <<y, x>> \in R => <<x, x>> \in R
      BY Zenon DEF StrictOrder
<1> QED BY <1>1, <1>2, <1>3, Zenon

\* No two rows have one rank.
LEMMA RanksDiffer ==
    ASSUME NEW S, IsFiniteSet(S), NEW R, StrictOrder(S, R), NEW x \in S, NEW y \in S,
           Rank(x, S, R) = Rank(y, S, R)
    PROVE  x = y
<1>1. Cardinality(S) \in Nat /\ Rank(x, S, R) \in 1..Cardinality(S) /\ Rank(y, S, R) \in 1..Cardinality(S)
      BY RankIsPlace
<1>2. Rank(x, S, R) \in Nat /\ Rank(y, S, R) \in Nat
      BY <1>1
<1>3. /\ <<x, y>> \in R => Rank(x, S, R) < Rank(y, S, R)
      /\ <<y, x>> \in R => Rank(y, S, R) < Rank(x, S, R)
      BY RankIsPlace
<1>4. x = y \/ <<x, y>> \in R \/ <<y, x>> \in R
      BY OneIsFirst
<1> QED BY <1>2, <1>3, <1>4

\* Every place is that of some row.
LEMMA PlacesAreTaken ==
    ASSUME NEW S, IsFiniteSet(S), NEW R, StrictOrder(S, R), NEW i \in 1..Cardinality(S)
    PROVE  \E x \in S : Rank(x, S, R) = i
<1> DEFINE T == 1..Cardinality(S)
           rank == [x \in S |-> Rank(x, S, R)]
<1>1. Cardinality(S) \in Nat /\ IsFiniteSet(T) /\ Cardinality(T) = Cardinality(S)
    <2>1. Cardinality(S) \in Nat
          BY FS_CardinalityType
    <2> QED BY <2>1, FS_Interval
<1>2. rank \in [S -> T]
      BY RankIsPlace
<1>3. \A x, y \in S : rank[x] = rank[y] => x = y
      BY RanksDiffer
<1> HIDE DEF rank, T
<1>4. rank \in Injection(S, T)
      BY <1>2, <1>3 DEF Injection, IsInjective
<1>5. rank \in Surjection(S, T)
      BY <1>1, <1>4, FS_Injection
<1>6. PICK x \in S : rank[x] = i
      BY <1>5 DEF Surjection, T
<1> QED BY <1>6 DEF rank

\* The sequences that list the rows in their order.
InOrder(S, R) == {s \in SetToSeqs(S) : \A i, j \in DOMAIN s : i < j => <<s[j], s[i]>> \notin R}

\* In such a sequence each row is at its place.
LEMMA OrderIsRank ==
    ASSUME NEW S, IsFiniteSet(S), NEW R, StrictOrder(S, R), NEW s \in InOrder(S, R)
    PROVE  /\ s \in [1..Cardinality(S) -> S]
           /\ \A i \in 1..Cardinality(S) : Rank(s[i], S, R) = i
           /\ \A x \in S : \E i \in 1..Cardinality(S) : s[i] = x
<1> DEFINE n == Cardinality(S)
<1>1. n \in Nat /\ IsFiniteSet(1..n) /\ Cardinality(1..n) = n
    <2>1. n \in Nat
          BY FS_CardinalityType
    <2> HIDE DEF n
    <2> QED BY <2>1, FS_Interval
<1>2. /\ s \in [1..n -> S]
      /\ \A i, j \in 1..n : i # j => s[i] # s[j]
      /\ \A i, j \in 1..n : i < j => <<s[j], s[i]>> \notin R
      BY DEF InOrder, SetToSeqs
<1>3. \A x \in S : \E i \in 1..n : s[i] = x
    <2>1. s \in Injection(1..n, S)
          BY <1>2 DEF Injection, IsInjective
    <2>2. s \in Surjection(1..n, S)
          BY <1>1, <2>1, FS_Injection
    <2> QED BY <2>2 DEF Surjection
<1> HIDE DEF n
<1>4. ASSUME NEW i \in 1..n PROVE Rank(s[i], S, R) = i
    <2> DEFINE first == [k \in 1..(i - 1) |-> s[k]]
               under == Under(s[i], S, R)
    <2>1. \A j \in 1..n : j < i <=> <<s[j], s[i]>> \in R
        <3> SUFFICES ASSUME NEW j \in 1..n PROVE j < i <=> <<s[j], s[i]>> \in R
            OBVIOUS
        <3>1. s[i] \in S /\ s[j] \in S
              BY <1>2
        <3>2. CASE j < i
            <4>1. s[j] # s[i] /\ <<s[i], s[j]>> \notin R
                <5>1. j # i
                      BY <1>1, <3>2
                <5> QED BY <1>2, <3>2, <5>1
            <4> QED BY <3>1, <3>2, <4>1, OneIsFirst
        <3>3. CASE j = i
            <4>1. <<s[j], s[i]>> \notin R
                  BY <3>1, <3>3, OneIsFirst
            <4> QED BY <1>1, <3>3, <4>1
        <3>4. CASE i < j
              BY <1>2, <3>4
        <3> QED BY <1>1, <3>2, <3>3, <3>4
    <2>2. \A k \in 1..(i - 1) : k \in 1..n /\ k < i
          BY <1>1
    <2>3. first \in [1..(i - 1) -> under]
        <3> SUFFICES ASSUME NEW k \in 1..(i - 1) PROVE s[k] \in under
            OBVIOUS
        <3>1. s[k] \in S /\ <<s[k], s[i]>> \in R
              BY <1>2, <2>1, <2>2
        <3> QED BY <3>1 DEF Under
    <2>4. \A a, b \in 1..(i - 1) : first[a] = first[b] => a = b
          BY <1>2, <2>2
    <2>5. \A x \in under : \E k \in 1..(i - 1) : first[k] = x
        <3> SUFFICES ASSUME NEW x \in under PROVE \E k \in 1..(i - 1) : first[k] = x
            OBVIOUS
        <3>1. x \in S /\ <<x, s[i]>> \in R
              BY DEF Under
        <3>2. PICK k \in 1..n : s[k] = x
              BY <1>3, <3>1
        <3>3. k < i
              BY <2>1, <3>1, <3>2
        <3>4. k \in 1..(i - 1)
              BY <3>3
        <3> QED BY <3>2, <3>4
    <2> HIDE DEF first, under
    <2>6. first \in Bijection(1..(i - 1), under)
          BY <2>3, <2>4, <2>5 DEF Bijection, Injection, IsInjective, Surjection
    <2>7. IsFiniteSet(1..(i - 1)) /\ Cardinality(1..(i - 1)) = i - 1
        <3>1. i - 1 \in Int /\ 1 \in Int /\ i - 1 >= 0
              OBVIOUS
        <3> QED BY <3>1, FS_Interval
    <2>8. ExistsBijection(1..(i - 1), under)
          BY <2>6 DEF ExistsBijection
    <2>9. Cardinality(under) = i - 1
          BY <2>7, <2>8, FS_Bijection
    <2> QED BY <2>9 DEF Rank, under
<1> QED BY <1>2, <1>3, <1>4 DEF n

\* There is one.
LEMMA OneOrder ==
    ASSUME NEW S, IsFiniteSet(S), NEW R, StrictOrder(S, R)
    PROVE  \E s \in [1..Cardinality(S) -> S] :
              /\ InOrder(S, R) = {s}
              /\ \A x \in S : \E i \in 1..Cardinality(S) : s[i] = x
              /\ \A i, j \in 1..Cardinality(S) : i < j <=> <<s[i], s[j]>> \in R
<1> DEFINE n == Cardinality(S)
           s == [i \in 1..n |-> CHOOSE x \in S : Rank(x, S, R) = i]
<1>1. n \in Nat /\ \A x \in S : Rank(x, S, R) \in Nat
      BY RankIsPlace
<1>2. \A x, y \in S : <<x, y>> \in R => Rank(x, S, R) < Rank(y, S, R)
      BY RankIsPlace
<1>3. \A i \in 1..n : s[i] \in S /\ Rank(s[i], S, R) = i
      BY PlacesAreTaken
<1>4. s \in [1..n -> S]
      BY <1>3
<1> HIDE DEF n, s
<1>5. \A x, y \in S : Rank(x, S, R) = Rank(y, S, R) => x = y
      BY RanksDiffer
<1>6. \A i, j \in 1..n : i < j <=> <<s[i], s[j]>> \in R
    <2> SUFFICES ASSUME NEW i \in 1..n, NEW j \in 1..n PROVE i < j <=> <<s[i], s[j]>> \in R
        OBVIOUS
    <2>1. /\ s[i] \in S /\ s[j] \in S /\ Rank(s[i], S, R) = i /\ Rank(s[j], S, R) = j
          BY <1>3
    <2>2. s[i] = s[j] \/ <<s[i], s[j]>> \in R \/ <<s[j], s[i]>> \in R
          BY <2>1, OneIsFirst
    <2>3. /\ <<s[i], s[j]>> \in R => i < j
          /\ <<s[j], s[i]>> \in R => j < i
          BY <1>2, <2>1
    <2> QED BY <2>1, <2>2, <2>3
<1>7. s \in InOrder(S, R)
    <2>1. s \in SetToSeqs(S)
          BY <1>3, <1>4 DEF SetToSeqs, n
    <2>2. \A i, j \in 1..n : i < j => <<s[j], s[i]>> \notin R
          BY <1>1, <1>6
    <2> QED BY <1>4, <2>1, <2>2 DEF InOrder
<1>8. ASSUME NEW t \in InOrder(S, R) PROVE t = s
    <2>1. t \in [1..n -> S] /\ \A i \in 1..n : Rank(t[i], S, R) = i
          BY <1>8, OrderIsRank DEF n
    <2>2. ASSUME NEW i \in 1..n PROVE t[i] = s[i]
        <3>1. /\ t[i] \in S /\ Rank(t[i], S, R) = i
              /\ s[i] \in S /\ Rank(s[i], S, R) = i
              BY <1>3, <2>1
        <3> QED BY <1>5, <3>1
    <2>3. \A i \in 1..n : t[i] = s[i]
          BY <2>2
    <2>4. t \in [1..n -> S]
          BY <2>1
    <2>5. t = [i \in 1..n |-> t[i]]
          BY <2>4
    <2>6. s = [i \in 1..n |-> s[i]]
          BY <1>4
    <2>7. [i \in 1..n |-> t[i]] = [i \in 1..n |-> s[i]]
          BY <2>3
    <2> QED BY <2>5, <2>6, <2>7
<1>9. \A x \in S : \E i \in 1..n : s[i] = x
      BY <1>7, OrderIsRank DEF n
<1> QED BY <1>4, <1>6, <1>7, <1>8, <1>9 DEF n

-----------------------------------------------------------------------------
(* Pages: the first pages of a list, one after the other, are its first rows. *)

LEMMA TimesStep ==
    ASSUME NEW a \in Int, NEW c \in Int
    PROVE  a * c \in Int /\ (a + 1) * c = a * c + c /\ (a - 1) * c = a * c - c
OBVIOUS

LEMMA TimesOrder ==
    ASSUME NEW a \in Int, NEW b \in Int, a <= b, NEW c \in Nat
    PROVE  a * c <= b * c
OBVIOUS

LEMMA Quotient ==
    ASSUME NEW a \in Nat, NEW b \in Nat \ {0}
    PROVE  a \div b \in Nat /\ (a \div b) * b <= a /\ a < (a \div b) * b + b
OBVIOUS

FlatTurn(flat, seqs, i) == IF i = 1 THEN seqs[i] ELSE flat[i - 1] \o seqs[i]

LEMMA SameTurn ==
    ASSUME NEW f, NEW g, NEW seqs, NEW i \in Int, i = 1 \/ f[i - 1] = g[i - 1]
    PROVE  FlatTurn(f, seqs, i) = FlatTurn(g, seqs, i)
BY Zenon DEF FlatTurn

\* Whatever satisfies the recursion of FlattenSeq is what it computes.
LEMMA FlattenTurns ==
    ASSUME NEW m \in Nat \ {0}, NEW seqs, Len(seqs) = m,
           NEW g, g = [i \in 1..m |-> FlatTurn(g, seqs, i)]
    PROVE  FlattenSeq(seqs) = g[m]
<1> DEFINE D == 1..m
           Loop(f) == f = [i \in D |-> FlatTurn(f, seqs, i)]
           loop == CHOOSE f : Loop(f)
           T == {i \in D : loop[i] # g[i]}
<1>1. Loop(loop)
    <2>1. Loop(g)
          OBVIOUS
    <2> HIDE DEF Loop
    <2> QED BY <2>1
<1>2. FlattenSeq(seqs) = loop[m]
      BY DEF FlattenSeq, FlatTurn
<1> HIDE DEF loop
<1>3. \A i \in D : loop[i] = FlatTurn(loop, seqs, i) /\ g[i] = FlatTurn(g, seqs, i)
      BY <1>1
<1>4. ASSUME NEW i \in T, \A k \in T : i <= k PROVE FALSE
    <2>1. i \in D /\ i \in Int
          OBVIOUS
    <2>2. i = 1 \/ loop[i - 1] = g[i - 1]
        <3> SUFFICES ASSUME i # 1 PROVE loop[i - 1] = g[i - 1]
            OBVIOUS
        <3>1. i - 1 \in D /\ ~(i <= i - 1)
              BY <2>1
        <3> QED BY <1>4, <3>1
    <2>3. FlatTurn(loop, seqs, i) = FlatTurn(g, seqs, i)
          BY <2>1, <2>2, SameTurn
    <2>4. loop[i] = g[i]
          BY <1>3, <2>1, <2>3
    <2> QED BY <2>4
<1>5. T = {}
    <2>1. T \subseteq Nat
          OBVIOUS
    <2> HIDE DEF T
    <2> QED BY <1>4, <2>1, LeastNumber
<1>6. m \in D
      OBVIOUS
<1> QED BY <1>2, <1>5, <1>6

\* Pieces of s, the i-th of which ends at ends[i], make up its beginning.
Pieces(seqs, s, ends, m) ==
    /\ Len(seqs) = m /\ ends[0] = 0 /\ \A i \in 0..m : ends[i] \in 0..Len(s)
    /\ \A i \in 1..m : ends[i - 1] <= ends[i] /\ seqs[i] = SubSeq(s, ends[i - 1] + 1, ends[i])

LEMMA Flattened ==
    ASSUME NEW S, NEW s \in Seq(S), NEW m \in Nat \ {0}, NEW seqs, NEW ends, Pieces(seqs, s, ends, m)
    PROVE  FlattenSeq(seqs) = SubSeq(s, 1, ends[m])
<1> USE DEF Pieces
<1> DEFINE D == 1..m
           first(i) == SubSeq(s, 1, ends[i])
           g == [i \in D |-> first(i)]
<1>1. ASSUME NEW i \in D, i # 1 PROVE first(i) = first(i - 1) \o seqs[i]
    <2>1. i \in 0..m /\ i - 1 \in 0..m
          OBVIOUS
    <2>2. ends[i - 1] \in 0..Len(s) /\ ends[i] \in 0..Len(s) /\ ends[i - 1] <= ends[i]
          BY <2>1
    <2>3. PICK a \in Int, b \in Int : a = ends[i - 1] /\ b = ends[i]
          BY <2>2
    <2>4. Len(s) \in Nat
          BY LenProperties
    <2>5. a \in 0..Len(s) /\ b \in a..Len(s)
          BY <2>2, <2>3, <2>4
    <2>6. 1 \in 1..Len(s) + 1 /\ a \in (1 - 1)..Len(s)
          BY <2>4, <2>5
    <2>7. SubSeq(s, 1, a) \o SubSeq(s, a + 1, b) = SubSeq(s, 1, b)
          BY <2>5, <2>6, ConcatAdjacentSubSeq
    <2> QED BY <2>3, <2>7
<1>2. first(1) = seqs[1]
    <2>1. seqs[1] = SubSeq(s, ends[1 - 1] + 1, ends[1])
          OBVIOUS
    <2>2. ends[1 - 1] + 1 = 1
          OBVIOUS
    <2> QED BY <2>1, <2>2
<1> HIDE DEF first
<1>3. ASSUME NEW i \in D PROVE first(i) = FlatTurn(g, seqs, i)
    <2>1. CASE i = 1
          BY <1>2, <2>1 DEF FlatTurn
    <2>2. CASE i # 1
        <3>1. i - 1 \in D
              BY <2>2
        <3>2. g[i - 1] = first(i - 1)
              BY <3>1
        <3> HIDE DEF g
        <3> QED BY <1>1, <2>2, <3>2, Zenon DEF FlatTurn
    <2> QED BY <2>1, <2>2
<1>4. g = [i \in D |-> FlatTurn(g, seqs, i)]
    <2>1. [i \in D |-> first(i)] = [i \in D |-> FlatTurn(g, seqs, i)]
        <3> HIDE DEF g
        <3> QED BY <1>3, Zenon
    <2> QED BY <2>1
<1>5. g[m] = first(m)
      OBVIOUS
<1> HIDE DEF g
<1>6. FlattenSeq(seqs) = g[m]
      BY <1>4, FlattenTurns
<1> QED BY <1>5, <1>6 DEF first

\* How many pages there are, and where each one ends.
PageEnd(p, size, total) == Lesser(p * size, total)

LEMMA PageEnds ==
    ASSUME NEW total \in Nat, NEW size \in Nat \ {0}
    PROVE  /\ TotalPages(total, size) \in Nat
           /\ total = 0 <=> TotalPages(total, size) = 0
           /\ PageEnd(0, size, total) = 0
           /\ PageEnd(TotalPages(total, size), size, total) = total
           /\ TotalPages(total, size) * size \in Int
           /\ total <= TotalPages(total, size) * size
           /\ \A p \in Nat : p * size \in Int /\ PageEnd(p, size, total) \in 0..total
           /\ \A p \in 1..TotalPages(total, size) :
                 /\ PageEnd(p - 1, size, total) = (p - 1) * size
                 /\ PageEnd(p - 1, size, total) <= PageEnd(p, size, total)
<1> DEFINE n == TotalPages(total, size)
<1>1. ASSUME NEW p \in Nat PROVE p * size \in Int /\ 0 <= p * size
    <2>1. 0 * size <= p * size
          BY TimesOrder
    <2> QED BY <2>1, TimesStep
<1>2. CASE total = 0
    <2>1. n = 0
          BY <1>2 DEF TotalPages
    <2>2. 0 * size = 0
          OBVIOUS
    <2> HIDE DEF n
    <2>3. \A p \in 1..n : FALSE
          BY <2>1
    <2>4. \A p \in Nat : PageEnd(p, size, total) = 0
          BY <1>1, <1>2 DEF PageEnd, Lesser
    <2> QED BY <1>1, <1>2, <2>1, <2>2, <2>3, <2>4 DEF n
<1>3. CASE total # 0
    <2>1. PICK a \in Nat : a = total + size - 1
          OBVIOUS
    <2>2. n = a \div size
          BY <1>3, <2>1 DEF TotalPages
    <2>3. n \in Nat /\ n * size <= a /\ a < n * size + size
          BY <2>1, <2>2, Quotient
    <2> HIDE DEF n
    <2>4. PICK top \in Int : top = n * size
          BY <1>1, <2>3
    <2>5. total <= top /\ top - size < total
          BY <1>3, <2>1, <2>3, <2>4
    <2>6. n # 0
        <3> SUFFICES ASSUME n = 0 PROVE FALSE
            OBVIOUS
        <3>1. top = 0
              BY <2>4
        <3> QED BY <1>3, <2>5, <3>1
    <2>7. ASSUME NEW p \in 1..n
          PROVE  /\ PageEnd(p - 1, size, total) = (p - 1) * size
                 /\ PageEnd(p - 1, size, total) <= PageEnd(p, size, total)
        <3>1. p - 1 \in Nat /\ p \in Nat /\ p - 1 <= n - 1 /\ n - 1 \in Int
              BY <2>3
        <3>2. (p - 1) * size <= (n - 1) * size
              BY <3>1, TimesOrder
        <3>3. (n - 1) * size = top - size
              BY <2>3, <2>4, TimesStep
        <3>4. PICK x \in Int, y \in Int : x = (p - 1) * size /\ y = p * size
              BY <1>1, <3>1
        <3>5. x = y - size
              BY <3>1, <3>4, TimesStep
        <3>6. x < total
              BY <2>4, <2>5, <3>2, <3>3, <3>4
        <3>7. PageEnd(p - 1, size, total) = x /\ x <= PageEnd(p, size, total)
              BY <3>4, <3>5, <3>6 DEF PageEnd, Lesser
        <3> QED BY <3>4, <3>7
    <2>8. ASSUME NEW p \in Nat PROVE PageEnd(p, size, total) \in 0..total
        <3>1. PICK y \in Int : y = p * size /\ 0 <= y
              BY <1>1
        <3> QED BY <3>1 DEF PageEnd, Lesser
    <2>9. PageEnd(n, size, total) = total
          BY <2>4, <2>5 DEF PageEnd, Lesser
    <2>10. PageEnd(0, size, total) = 0
        <3>1. 0 * size = 0
              OBVIOUS
        <3> QED BY <3>1 DEF PageEnd, Lesser
    <2>11. n * size \in Int /\ total <= n * size
          BY <2>4, <2>5
    <2> QED BY <1>1, <1>3, <2>3, <2>6, <2>7, <2>8, <2>9, <2>10, <2>11 DEF n
<1> QED BY <1>2, <1>3

\* The pages of one order of the rows.
PagesOf(pages, s, size) ==
    \A p \in Nat : pages[p] = {SubSeq(s, (p - 1) * size + 1, PageEnd(p, size, Len(s)))}

LEMMA PageIsPiece ==
    ASSUME NEW S, NEW s \in Seq(S), NEW size \in Nat \ {0}, NEW pages, PagesOf(pages, s, size),
           NEW p \in Nat
    PROVE  /\ pages[p] = {SubSeq(s, (p - 1) * size + 1, PageEnd(p, size, Len(s)))}
           /\ Len(s) \in Nat
BY LenProperties DEF PagesOf

LEMMA PageAfterLast ==
    ASSUME NEW S, NEW s \in Seq(S), NEW size \in Nat \ {0}, NEW pages, PagesOf(pages, s, size)
    PROVE  pages[TotalPages(Len(s), size) + 1] = {<<>>}
<1> DEFINE n == TotalPages(Len(s), size)
<1>1. Len(s) \in Nat
      BY LenProperties
<1>2. /\ n \in Nat /\ n * size \in Int /\ Len(s) <= n * size
      /\ \A p \in Nat : PageEnd(p, size, Len(s)) \in 0..Len(s)
      BY <1>1, PageEnds
<1> HIDE DEF n
<1>3. PICK next \in Nat : next = n + 1
      BY <1>2
<1>4. pages[next] = {SubSeq(s, (next - 1) * size + 1, PageEnd(next, size, Len(s)))}
      BY PageIsPiece
<1>5. PICK x \in Int, y \in Int : x = n * size + 1 /\ y = PageEnd(next, size, Len(s)) /\ y < x
    <2>1. PICK t \in Int, z \in Int : t = n * size /\ z = PageEnd(next, size, Len(s)) /\ z <= Len(s)
          BY <1>1, <1>2
    <2>2. z < t + 1 /\ t + 1 \in Int
          BY <1>1, <1>2, <2>1
    <2> QED BY <2>1, <2>2
<1>6. SubSeq(s, x, y) = <<>>
      BY <1>5, SubSeqEmpty
<1>7. next - 1 = n
      BY <1>2, <1>3
<1>8. pages[next] = {<<>>}
      BY <1>4, <1>5, <1>6, <1>7
<1> QED BY <1>3, <1>8 DEF n

LEMMA PagesArePieces ==
    ASSUME NEW S, NEW s \in Seq(S), NEW size \in Nat \ {0}, NEW pages, PagesOf(pages, s, size),
           NEW n, n = TotalPages(Len(s), size),
           NEW answer, Len(answer) = n, \A p \in 1..n : answer[p] \in pages[p]
    PROVE  Pieces(answer, s, [p \in 0..n |-> PageEnd(p, size, Len(s))], n)
<1> DEFINE ends == [p \in 0..n |-> PageEnd(p, size, Len(s))]
<1>1. Len(s) \in Nat
      BY LenProperties
<1>2. /\ n \in Nat /\ PageEnd(0, size, Len(s)) = 0
      /\ \A p \in Nat : PageEnd(p, size, Len(s)) \in 0..Len(s)
      /\ \A p \in 1..n : /\ PageEnd(p - 1, size, Len(s)) = (p - 1) * size
                         /\ PageEnd(p - 1, size, Len(s)) <= PageEnd(p, size, Len(s))
      BY <1>1, PageEnds
<1>3. ASSUME NEW p \in 0..n PROVE ends[p] = PageEnd(p, size, Len(s)) /\ ends[p] \in 0..Len(s)
      BY <1>2
<1> HIDE DEF ends
<1>4. ends[0] = 0
    <2>1. 0 \in 0..n
          BY <1>2
    <2> QED BY <1>2, <1>3, <2>1
<1>5. ASSUME NEW p \in 1..n
      PROVE  ends[p - 1] <= ends[p] /\ answer[p] = SubSeq(s, ends[p - 1] + 1, ends[p])
    <2>1. p \in Nat /\ p \in 0..n /\ p - 1 \in 0..n
          BY <1>2
    <2>2. answer[p] \in pages[p]
          OBVIOUS
    <2>3. answer[p] = SubSeq(s, (p - 1) * size + 1, PageEnd(p, size, Len(s)))
          BY <2>1, <2>2, PageIsPiece
    <2> QED BY <1>2, <1>3, <2>1, <2>3
<1> QED BY <1>3, <1>4, <1>5 DEF Pieces, ends

LEMMA PagesOfOrder ==
    ASSUME NEW S, NEW s \in Seq(S), ToSet(s) = S, NEW size \in Nat \ {0},
           NEW pages, PagesOf(pages, s, size)
    PROVE  PagesPartition(pages, S, Len(s), size)
<1> DEFINE n == TotalPages(Len(s), size)
           ends == [p \in 0..n |-> PageEnd(p, size, Len(s))]
<1>1. Len(s) \in Nat
      BY LenProperties
<1>2. /\ n \in Nat /\ (Len(s) = 0 <=> n = 0)
      /\ PageEnd(n, size, Len(s)) = Len(s)
      BY <1>1, PageEnds
<1>3. ends[n] = Len(s)
      BY <1>2
<1> HIDE DEF ends
<1>4. ASSUME NEW answer \in [1..n -> UNION {pages[p] : p \in 1..n}],
             \A p \in 1..n : answer[p] \in pages[p]
      PROVE  Len(FlattenSeq(answer)) = Len(s) /\ ToSet(FlattenSeq(answer)) = S
    <2>1. Len(answer) = n
          BY <1>2
    <2>2. CASE n = 0
        <3>1. FlattenSeq(answer) = answer
              BY <2>1, <2>2 DEF FlattenSeq
        <3>2. s = <<>>
              BY <1>2, <2>2, EmptySeq
        <3>3. answer = <<>>
            <4> HIDE DEF n
            <4> QED BY <2>2
        <3> QED BY <3>1, <3>2, <3>3
    <2>3. CASE n # 0
        <3> HIDE DEF n
        <3>1. Pieces(answer, s, ends, n)
              BY <1>4, <2>1, PagesArePieces DEF ends, n
        <3>2. FlattenSeq(answer) = SubSeq(s, 1, ends[n])
              BY <1>2, <2>3, <3>1, Flattened
        <3>3. FlattenSeq(answer) = s
              BY <1>3, <3>2, SubSeqFull
        <3> QED BY <3>3
    <2> QED BY <2>2, <2>3
<1> QED BY <1>4, PageAfterLast DEF PagesPartition

-----------------------------------------------------------------------------
(* A list: its rows have different ids and a date in each column it may be   *)
(* ordered by.                                                               *)

Listable(S, columns) ==
    /\ IsFiniteSet(S)
    /\ \A x \in S : x.id \in Int /\ \A c \in columns : x[c] \in Int
    /\ \A x, y \in S : x.id = y.id => x = y

RowOrder(S, column, desc) == {pair \in S \X S : Before(pair[1], pair[2], column, desc)}

LEMMA RowsAreOrdered ==
    ASSUME NEW S, NEW columns, Listable(S, columns), NEW column \in columns, NEW desc \in BOOLEAN
    PROVE  StrictOrder(S, RowOrder(S, column, desc))
<1>1. ASSUME NEW x \in S, NEW y \in S
      PROVE  <<x, y>> \in RowOrder(S, column, desc) <=> Before(x, y, column, desc)
      BY DEF RowOrder
<1>2. \A x \in S : x.id \in Int /\ x[column] \in Int
      BY DEF Listable
<1>3. \A x \in S : ~ Before(x, x, column, desc)
      BY <1>2 DEF Before
<1>4. ASSUME NEW x \in S, NEW y \in S, NEW z \in S,
             Before(x, y, column, desc), Before(y, z, column, desc)
      PROVE  Before(x, z, column, desc)
      BY <1>2, <1>4 DEF Before
<1>5. ASSUME NEW x \in S, NEW y \in S
      PROVE  x = y \/ Before(x, y, column, desc) \/ Before(y, x, column, desc)
    <2>1. x.id = y.id => x = y
          BY DEF Listable
    <2> QED BY <1>2, <2>1 DEF Before
<1> QED BY <1>1, <1>3, <1>4, <1>5 DEF StrictOrder

LEMMA SortedIsOrder ==
    ASSUME NEW S, NEW column, NEW desc
    PROVE  Sorted(S, column, desc) = InOrder(S, RowOrder(S, column, desc))
<1> DEFINE R == RowOrder(S, column, desc)
<1>1. ASSUME NEW s \in SetToSeqs(S), NEW i \in DOMAIN s, NEW j \in DOMAIN s
      PROVE  <<s[j], s[i]>> \in R <=> Before(s[j], s[i], column, desc)
    <2>1. s \in [1..Cardinality(S) -> S]
          BY DEF SetToSeqs
    <2>2. s[i] \in S /\ s[j] \in S
          BY <2>1
    <2> QED BY <2>2 DEF RowOrder
<1> QED BY <1>1 DEF Sorted, InOrder

\* Its pages hold every one of its rows once.
LEMMA ListIsPaged ==
    ASSUME NEW S, NEW columns, Listable(S, columns), NEW column \in columns, NEW desc \in BOOLEAN,
           NEW size \in PageSizes
    PROVE  PagesPartition([p \in Nat |-> Paged(S, column, desc, p, size)], S, Cardinality(S), size)
<1> DEFINE n == Cardinality(S)
           R == RowOrder(S, column, desc)
           pages == [p \in Nat |-> Paged(S, column, desc, p, size)]
<1>1. IsFiniteSet(S) /\ n \in Nat
      BY FS_CardinalityType DEF Listable
<1>2. StrictOrder(S, R)
      BY RowsAreOrdered
<1> HIDE DEF R
<1>3. PICK s \in [1..n -> S] : InOrder(S, R) = {s} /\ \A x \in S : \E i \in 1..n : s[i] = x
      BY <1>1, <1>2, OneOrder
<1>4. Sorted(S, column, desc) = {s}
      BY <1>3, SortedIsOrder DEF R
<1>5. s \in Seq(S) /\ Len(s) = n
      BY <1>1, <1>3
<1>6. ToSet(s) = S
      BY <1>3, <1>5 DEF ToSet
<1>7. PagesOf(pages, s, size)
    <2> SUFFICES ASSUME NEW p \in Nat
                 PROVE  pages[p] = {SubSeq(s, (p - 1) * size + 1, PageEnd(p, size, Len(s)))}
        BY DEF PagesOf
    <2>1. pages[p] = Paged(S, column, desc, p, size)
          OBVIOUS
    <2>2. Paged(S, column, desc, p, size) =
            {SubSeq(t, (p - 1) * size + 1, PageEnd(p, size, Len(t))) : t \in Sorted(S, column, desc)}
          BY DEF Paged, PageEnd
    <2> QED BY <1>4, <2>1, <2>2
<1>8. size \in Nat \ {0}
      BY PagesHoldRows
<1> HIDE DEF pages
<1>9. PagesPartition(pages, S, Len(s), size)
      BY <1>5, <1>6, <1>7, <1>8, PagesOfOrder
<1> QED BY <1>5, <1>9 DEF pages, n

-----------------------------------------------------------------------------
(* The recovery plan: its scores are numbers, so it orders the tasks. *)

LEMMA DivisionIsWhole ==
    ASSUME NEW a \in Int, NEW b \in Nat \ {0}
    PROVE  a \div b \in Int
OBVIOUS

LEMMA ScoreIsWhole ==
    ASSUME NEW S, IsFiniteSet(S), NEW t, t.due \in Int, t.minutes \in Int
    PROVE  PlanScore(t, S) \in Int
<1>1. Urgency(t) \in Int
      BY DEF Urgency, NoDate
<1>2. ClusterSize(t, S) \in Int
    <2> DEFINE near == {o \in S : o.id # t.id /\ o.due # NoDate /\ Distance(o.due, t.due) <= 72}
    <2>1. IsFiniteSet(near)
          BY FS_Subset
    <2>2. Cardinality(near) \in Nat
          BY <2>1, FS_CardinalityType
    <2> QED BY <2>2 DEF ClusterSize
<1>3. EffortScore(t) \in Int
    <2>1. (t.minutes * 100) \div 999 \in Int
          BY DivisionIsWhole
    <2>2. t.due > 2 => (t.minutes * 2400) \div t.due \in Int
          BY DivisionIsWhole
    <2>3. CASE t.due = NoDate
          BY <2>1, <2>3 DEF EffortScore, NoDate
    <2>4. CASE t.due # NoDate /\ t.due <= 2
          BY <2>4 DEF EffortScore, Lesser
    <2>5. CASE t.due # NoDate /\ ~(t.due <= 2)
        <3>1. EffortScore(t) = Lesser((t.minutes * 2400) \div t.due, 20000)
              BY <2>5 DEF EffortScore
        <3> QED BY <2>2, <2>5, <3>1 DEF Lesser
    <2> QED BY <2>3, <2>4, <2>5
<1>4. Lesser(15 * ClusterSize(t, S), 45) \in Int
      BY <1>2 DEF Lesser
<1> HIDE DEF Urgency, ClusterSize, EffortScore
<1> QED BY <1>1, <1>3, <1>4 DEF PlanScore

Sooner(a, b, S) ==
    \/ PlanScore(a, S) > PlanScore(b, S)
    \/ PlanScore(a, S) = PlanScore(b, S) /\ (a.due < b.due \/ (a.due = b.due /\ a.id < b.id))
PlanOrder(S) == {pair \in S \X S : Sooner(pair[1], pair[2], S)}

Plannable(all) ==
    /\ Listable(all, {"due", "created"})
    /\ \A t \in all : t.minutes \in Int

LEMMA PlanIsOrdered ==
    ASSUME NEW S, Plannable(S)
    PROVE  /\ StrictOrder(S, PlanOrder(S))
           /\ \A x, y \in S : <<x, y>> \in PlanOrder(S) <=> Sooner(x, y, S)
<1>1. \A x, y \in S : <<x, y>> \in PlanOrder(S) <=> Sooner(x, y, S)
      BY DEF PlanOrder
<1>2. /\ IsFiniteSet(S)
      /\ \A x \in S : x.id \in Int /\ x.due \in Int /\ x.minutes \in Int
      /\ \A x, y \in S : x.id = y.id => x = y
      BY DEF Plannable, Listable
<1>3. \A x \in S : PlanScore(x, S) \in Int
      BY <1>2, ScoreIsWhole
<1>4. \A x \in S : ~ Sooner(x, x, S)
      BY <1>2, <1>3 DEF Sooner
<1>5. ASSUME NEW x \in S, NEW y \in S, NEW z \in S, Sooner(x, y, S), Sooner(y, z, S)
      PROVE  Sooner(x, z, S)
      BY <1>2, <1>3, <1>5 DEF Sooner
<1>6. ASSUME NEW x \in S, NEW y \in S PROVE x = y \/ Sooner(x, y, S) \/ Sooner(y, x, S)
      BY <1>2, <1>3 DEF Sooner
<1> QED BY <1>1, <1>4, <1>5, <1>6 DEF StrictOrder

LEMMA PlannableSubset ==
    ASSUME NEW all, Plannable(all), NEW S \in SUBSET all
    PROVE  Plannable(S)
<1>1. IsFiniteSet(S)
      BY FS_Subset DEF Plannable, Listable
<1> QED BY <1>1 DEF Plannable, Listable

\* It lists every task that can be planned once.
InPlan(s, S) == \A i, j \in DOMAIN s : i < j => Sooner(s[i], s[j], S)

LEMMA PlanHoldsSet ==
    ASSUME NEW S, Plannable(S), NEW plan, plan = CHOOSE s \in SetToSeqs(S) : InPlan(s, S)
    PROVE  ToSet(plan) = S /\ Len(plan) = Cardinality(S)
<1> DEFINE n == Cardinality(S)
           R == PlanOrder(S)
<1>1. IsFiniteSet(S) /\ n \in Nat
      BY FS_CardinalityType DEF Plannable, Listable
<1>2. StrictOrder(S, R) /\ \A x, y \in S : <<x, y>> \in R <=> Sooner(x, y, S)
      BY PlanIsOrdered
<1> HIDE DEF R
<1>3. PICK s \in [1..n -> S] :
         /\ InOrder(S, R) = {s}
         /\ \A x \in S : \E i \in 1..n : s[i] = x
         /\ \A i, j \in 1..n : i < j <=> <<s[i], s[j]>> \in R
    <2>1. StrictOrder(S, R)
          BY <1>2
    <2>2. IsFiniteSet(S)
          BY <1>1
    <2> QED BY <2>1, <2>2, OneOrder, Zenon
<1>4. s \in SetToSeqs(S) /\ InPlan(s, S)
    <2>1. s \in SetToSeqs(S)
          BY <1>3 DEF InOrder
    <2>2. ASSUME NEW i \in 1..n, NEW j \in 1..n, i < j PROVE Sooner(s[i], s[j], S)
        <3>1. s[i] \in S /\ s[j] \in S /\ <<s[i], s[j]>> \in R
              BY <1>3, <2>2
        <3> QED BY <1>2, <3>1
    <2>3. DOMAIN s = 1..n
          BY <1>3
    <2> QED BY <2>1, <2>2, <2>3 DEF InPlan
<1>5. PICK t \in SetToSeqs(S) : t = plan /\ InPlan(t, S)
      BY <1>4
<1>6. t \in InOrder(S, R)
    <2>1. t \in [1..n -> S] /\ DOMAIN t = 1..n
          BY DEF SetToSeqs
    <2>2. ASSUME NEW i \in DOMAIN t, NEW j \in DOMAIN t, i < j PROVE <<t[j], t[i]>> \notin R
        <3>1. t[i] \in S /\ t[j] \in S /\ Sooner(t[i], t[j], S)
              BY <1>5, <2>1, <2>2 DEF InPlan
        <3>2. <<t[i], t[j]>> \in R
              BY <1>2, <3>1
        <3> QED BY <1>2, <3>1, <3>2 DEF StrictOrder
    <2> QED BY <2>2 DEF InOrder
<1>7. t = s
      BY <1>3, <1>6
<1>8. s \in Seq(S) /\ Len(s) = n
      BY <1>1, <1>3
<1>9. ToSet(s) = S
      BY <1>3, <1>8 DEF ToSet
<1> QED BY <1>5, <1>7, <1>8, <1>9

LEMMA PlanHoldsAll ==
    ASSUME NEW all, Plannable(all)
    PROVE  LET S == {t \in all : Mine(t) /\ Schedulable(t)}
           IN  ToSet(RecoveryPlan(all)) = S /\ Len(RecoveryPlan(all)) = Cardinality(S)
<1> DEFINE S == {t \in all : Mine(t) /\ Schedulable(t)}
<1>1. RecoveryPlan(all) = CHOOSE s \in SetToSeqs(S) : InPlan(s, S)
      BY DEF RecoveryPlan, InPlan, Sooner
<1>2. Plannable(S)
      BY PlannableSubset
<1> HIDE DEF S
<1>3. ToSet(RecoveryPlan(all)) = S /\ Len(RecoveryPlan(all)) = Cardinality(S)
      BY <1>1, <1>2, PlanHoldsSet
<1> QED BY <1>3 DEF S

-----------------------------------------------------------------------------
(* The tasks of a student: what each screen counts of them. *)

TaskRows(all) ==
    /\ Plannable(all)
    /\ \A t \in all : t.status \in {"TODO", "IN_PROGRESS", "COMPLETED", "CANCELLED"}

LEMMA TwoParts ==
    ASSUME NEW all, IsFiniteSet(all), NEW S \in SUBSET all, NEW T \in SUBSET all, S \cap T = {}
    PROVE  /\ Cardinality(S) \in Nat /\ Cardinality(T) \in Nat
           /\ IsFiniteSet(S \cup T) /\ Cardinality(S \cup T) = Cardinality(S) + Cardinality(T)
<1>1. IsFiniteSet(S) /\ IsFiniteSet(T)
      BY FS_Subset
<1>2. Cardinality(S) \in Nat /\ Cardinality(T) \in Nat
      BY <1>1, FS_CardinalityType
<1>3. IsFiniteSet(S \cup T) /\ Cardinality(S \cup T) = Cardinality(S) + Cardinality(T) - Cardinality({})
      BY <1>1, FS_Union
<1>4. Cardinality({}) = 0
      BY FS_EmptySet
<1> QED BY <1>1, <1>2, <1>3, <1>4

\* Two counts of the task list add up to one of the dashboard.
DueWithin(t, from, to) ==
    /\ from # NoDate => t.due # NoDate /\ t.due >= from
    /\ to # NoDate => t.due # NoDate /\ t.due <= to

StatusCount(status, from, to) ==
    CountTasks([AnyFilter EXCEPT !.status = status, !.from = from, !.to = to])

LEMMA CountsAddUp ==
    ASSUME IsFiniteSet(input.tasks), NEW from, NEW to
    PROVE  Cardinality({t \in input.tasks : Incomplete(t) /\ DueWithin(t, from, to)}) =
             StatusCount("TODO", from, to) + StatusCount("IN_PROGRESS", from, to)
<1> DEFINE all == input.tasks
           filter(status) == [AnyFilter EXCEPT !.status = status, !.from = from, !.to = to]
           part(status) == {t \in all : TaskMatches(t, filter(status))}
           S == {t \in all : Incomplete(t) /\ DueWithin(t, from, to)}
<1>1. ASSUME NEW status \in {"TODO", "IN_PROGRESS"}, NEW t
      PROVE  TaskMatches(t, filter(status)) <=> Mine(t) /\ t.status = status /\ DueWithin(t, from, to)
    <2>1. /\ filter(status).status = status /\ filter(status).overdue = "any"
          /\ filter(status).from = from /\ filter(status).to = to
          BY DEF AnyFilter
    <2> HIDE DEF filter
    <2>2. status # "any"
          OBVIOUS
    <2> QED BY <2>1, <2>2 DEF TaskMatches, DueWithin
<1>2. /\ StatusCount("TODO", from, to) = Cardinality(part("TODO"))
      /\ StatusCount("IN_PROGRESS", from, to) = Cardinality(part("IN_PROGRESS"))
      BY DEF CountTasks, StatusCount
<1> HIDE DEF filter
<1>3. S = part("TODO") \cup part("IN_PROGRESS") /\ part("TODO") \cap part("IN_PROGRESS") = {}
      BY <1>1 DEF Incomplete
<1>4. Cardinality(part("TODO") \cup part("IN_PROGRESS")) = Cardinality(part("TODO")) + Cardinality(part("IN_PROGRESS"))
    <2>1. part("TODO") \in SUBSET all /\ part("IN_PROGRESS") \in SUBSET all
          OBVIOUS
    <2>2. PICK a, b : a = part("TODO") /\ b = part("IN_PROGRESS")
          OBVIOUS
    <2>3. a \in SUBSET all /\ b \in SUBSET all /\ a \cap b = {}
          BY <1>3, <2>1, <2>2
    <2>4. IsFiniteSet(a) /\ IsFiniteSet(b)
          BY <2>3, FS_Subset
    <2>5. Cardinality(a \cup b) = Cardinality(a) + Cardinality(b) - Cardinality(a \cap b)
          BY <2>4, FS_Union
    <2>6. Cardinality(a \cap b) = 0
          BY <2>3, FS_EmptySet
    <2>7. Cardinality(a) \in Nat /\ Cardinality(b) \in Nat
          BY <2>4, FS_CardinalityType
    <2> QED BY <2>2, <2>5, <2>6, <2>7
<1> QED BY <1>2, <1>3, <1>4

\* The screens and the model's property mean the same tasks by overdue.
LEMMA OverdueIsOneSet ==
    ASSUME NEW all, all = input.tasks, TaskRows(all),
           NEW late, late = {t \in all : Mine(t) /\ IsOverdue(t)}
    PROVE  /\ {t \in all : TaskMatches(t, [AnyFilter EXCEPT !.overdue = "yes"])} = late
           /\ {t \in all : TaskMatches(t, [AnyFilter EXCEPT !.overdue = "no"])} = {t \in all : Mine(t)} \ late
           /\ OverdueReminders = late
           /\ {t \in all : Incomplete(t) /\ t.due # NoDate /\ t.due < 0} = late
           /\ {t \in {u \in all : Mine(u) /\ Schedulable(u)} : Urgency(t) = 100} = late
<1>1. \A t \in all : t.due \in Int /\ t.status \in {"TODO", "IN_PROGRESS", "COMPLETED", "CANCELLED"}
      BY DEF TaskRows, Plannable, Listable
<1>2. ASSUME NEW overdue \in {"yes", "no"}, NEW t
      PROVE  TaskMatches(t, [AnyFilter EXCEPT !.overdue = overdue]) <=>
               /\ Mine(t)
               /\ overdue = "yes" => /\ t.due # NoDate /\ t.due < 0
                                     /\ t.status \notin {"COMPLETED", "CANCELLED"}
               /\ overdue = "no" => t.due = NoDate \/ t.due >= 0 \/ t.status \in {"COMPLETED", "CANCELLED"}
    <2> DEFINE f == [AnyFilter EXCEPT !.overdue = overdue]
    <2>1. f.status = "any" /\ f.overdue = overdue /\ f.from = NoDate /\ f.to = NoDate
          BY DEF AnyFilter
    <2> HIDE DEF f
    <2>2. TaskMatches(t, f) <=>
               /\ Mine(t)
               /\ overdue = "yes" => /\ t.due # NoDate /\ t.due < 0
                                     /\ t.status \notin {"COMPLETED", "CANCELLED"}
               /\ overdue = "no" => t.due = NoDate \/ t.due >= 0 \/ t.status \in {"COMPLETED", "CANCELLED"}
          BY <2>1 DEF TaskMatches
    <2> QED BY <2>2 DEF f
<1>3. {t \in all : TaskMatches(t, [AnyFilter EXCEPT !.overdue = "yes"])} = late
      BY <1>1, <1>2 DEF IsOverdue
<1>4. {t \in all : TaskMatches(t, [AnyFilter EXCEPT !.overdue = "no"])} = {t \in all : Mine(t)} \ late
      BY <1>1, <1>2 DEF IsOverdue
<1>5. OverdueReminders = late
      BY <1>1 DEF OverdueReminders, IsOverdue
<1>6. {t \in all : Incomplete(t) /\ t.due # NoDate /\ t.due < 0} = late
      BY <1>1 DEF Incomplete, IsOverdue
<1>7. \A t \in all : Urgency(t) = 100 <=> t.due # NoDate /\ t.due < 0
    <2> SUFFICES ASSUME NEW t \in all PROVE Urgency(t) = 100 <=> t.due # NoDate /\ t.due < 0
        OBVIOUS
    <2>1. t.due \in Int
          BY <1>1
    <2>2. CASE t.due = NoDate
          BY <2>2 DEF Urgency
    <2>3. CASE t.due # NoDate /\ t.due < 0
          BY <2>1, <2>3 DEF Urgency
    <2>4. CASE t.due # NoDate /\ ~(t.due < 0)
          BY <2>1, <2>4 DEF Urgency
    <2> QED BY <2>2, <2>3, <2>4
<1>8. {t \in {u \in all : Mine(u) /\ Schedulable(u)} : Urgency(t) = 100} = late
      BY <1>1, <1>7 DEF Schedulable, IsOverdue
<1> QED BY <1>3, <1>4, <1>5, <1>6, <1>8

LEMMA FirstPage ==
    ASSUME NEW S, IsFiniteSet(S), NEW column, NEW desc, NEW limit \in Nat,
           NEW page \in Paged(S, column, desc, 1, limit)
    PROVE  ToSet(page) \subseteq S /\ Len(page) \in Nat /\ Len(page) <= Cardinality(S)
<1> DEFINE n == Cardinality(S)
<1>1. n \in Nat
      BY FS_CardinalityType
<1>2. PICK s \in Sorted(S, column, desc) :
         page = SubSeq(s, (1 - 1) * limit + 1, Lesser(1 * limit, Len(s)))
      BY DEF Paged
<1>3. s \in [1..n -> S]
      BY DEF Sorted, SetToSeqs
<1> HIDE DEF n
<1>4. Len(s) = n
      BY <1>1, <1>3
<1>5. PICK top \in Nat : top = Lesser(1 * limit, Len(s)) /\ top <= n
      BY <1>1, <1>4 DEF Lesser
<1>6. page = SubSeq(s, 1, top)
    <2>1. (1 - 1) * limit + 1 = 1
          OBVIOUS
    <2> QED BY <1>2, <1>5, <2>1
<1>7. \A i \in 1..top : s[i] \in S
      BY <1>1, <1>3, <1>5
<1>8. page \in Seq(S) /\ Len(page) = IF 1 <= top THEN top - 1 + 1 ELSE 0
      BY <1>6, <1>7, SubSeqProperties
<1>9. Len(page) \in Nat /\ Len(page) <= n
      BY <1>1, <1>5, <1>8
<1>10. ToSet(page) \subseteq S
      BY <1>8 DEF ToSet
<1> QED BY <1>9, <1>10 DEF n

LEMMA OverdueHolds ==
    ASSUME TaskRows(input.tasks)
    PROVE  OverdueAgrees
<1> DEFINE all == input.tasks
           late == {t \in all : Mine(t) /\ IsOverdue(t)}
           open == {t \in all : Incomplete(t)}
           ahead == {t \in all : Incomplete(t) /\ t.due # NoDate /\ t.due >= 0}
           plan == RecoveryPlan(all)
<1>1. IsFiniteSet(all) /\ \A t \in all : t.due \in Int
      BY DEF TaskRows, Plannable, Listable
<1>2. /\ {t \in all : TaskMatches(t, [AnyFilter EXCEPT !.overdue = "yes"])} = late
      /\ {t \in all : TaskMatches(t, [AnyFilter EXCEPT !.overdue = "no"])} = {t \in all : Mine(t)} \ late
      /\ OverdueReminders = late
      /\ {t \in all : Incomplete(t) /\ t.due # NoDate /\ t.due < 0} = late
      /\ {t \in {u \in all : Mine(u) /\ Schedulable(u)} : Urgency(t) = 100} = late
      BY OverdueIsOneSet
<1>3. open = {t \in all : Mine(t) /\ Schedulable(t)}
      BY DEF Incomplete, Schedulable
<1>4. ToSet(plan) = open /\ Len(plan) = Cardinality(open)
    <2>1. Plannable(all)
          BY DEF TaskRows
    <2> QED BY <1>3, <2>1, PlanHoldsAll
<1>5. {t \in ToSet(plan) : Urgency(t) = 100} = late
      BY <1>2, <1>3, <1>4
<1>6. TaskCounts.overdue = Cardinality(late) /\ TaskCounts.incomplete = Cardinality(open)
      BY <1>2 DEF TaskCounts
<1>7. TaskCounts.incomplete = StatusCount("TODO", NoDate, NoDate) + StatusCount("IN_PROGRESS", NoDate, NoDate)
    <2>1. open = {t \in all : Incomplete(t) /\ DueWithin(t, NoDate, NoDate)}
          BY DEF DueWithin
    <2>2. Cardinality({t \in all : Incomplete(t) /\ DueWithin(t, NoDate, NoDate)})
            = StatusCount("TODO", NoDate, NoDate) + StatusCount("IN_PROGRESS", NoDate, NoDate)
          BY <1>1, CountsAddUp
    <2> QED BY <1>6, <2>1, <2>2
<1>8. TaskCounts.within = StatusCount("TODO", 0, 168) + StatusCount("IN_PROGRESS", 0, 168)
    <2>1. \A t \in all : DueWithin(t, 0, 168) <=> t.due \in 0..168
          BY <1>1 DEF DueWithin, NoDate
    <2>2. TaskCounts.within = Cardinality({t \in all : Incomplete(t) /\ DueWithin(t, 0, 168)})
        <3>1. {t \in all : Incomplete(t) /\ t.due \in 0..168} = {t \in all : Incomplete(t) /\ DueWithin(t, 0, 168)}
              BY <2>1
        <3> QED BY <3>1 DEF TaskCounts
    <2>3. Cardinality({t \in all : Incomplete(t) /\ DueWithin(t, 0, 168)})
            = StatusCount("TODO", 0, 168) + StatusCount("IN_PROGRESS", 0, 168)
          BY <1>1, CountsAddUp
    <2> QED BY <2>2, <2>3
<1>9. ASSUME NEW upcoming \in UpcomingDeadlines(2)
      PROVE  /\ ToSet(upcoming) \cap late = {}
             /\ Len(upcoming) <= TaskCounts.incomplete - TaskCounts.overdue
    <2>1. late \subseteq open /\ ahead \subseteq open /\ ahead \cap late = {}
          BY <1>1, <1>2
    <2>2. IsFiniteSet(open) /\ IsFiniteSet(ahead)
        <3>1. open \in SUBSET all /\ ahead \in SUBSET all
              OBVIOUS
        <3> HIDE DEF open, ahead, all
        <3> QED BY <1>1, <3>1, FS_Subset
    <2>3. upcoming \in Paged(ahead, "due", FALSE, 1, 2)
          BY DEF UpcomingDeadlines
    <2> HIDE DEF all, open, ahead, late
    <2>4. ToSet(upcoming) \subseteq ahead /\ Len(upcoming) \in Nat /\ Len(upcoming) <= Cardinality(ahead)
          BY <2>2, <2>3, FirstPage
    <2>5. /\ Cardinality(ahead) \in Nat /\ Cardinality(late) \in Nat
          /\ Cardinality(ahead \cup late) = Cardinality(ahead) + Cardinality(late)
          BY <2>1, <2>2, TwoParts
    <2>6. Cardinality(ahead \cup late) <= Cardinality(open) /\ Cardinality(open) \in Nat
        <3>1. ahead \cup late \in SUBSET open
              BY <2>1
        <3> QED BY <2>2, <3>1, FS_Subset, FS_CardinalityType
    <2>7. Cardinality(ahead) <= Cardinality(open) - Cardinality(late)
          BY <2>5, <2>6
    <2>8. Len(upcoming) <= Cardinality(open) - Cardinality(late)
          BY <2>4, <2>5, <2>6, <2>7
    <2> QED BY <1>6, <2>1, <2>4, <2>8
<1> HIDE DEF plan, late
<1> QED BY <1>2, <1>4, <1>5, <1>6, <1>7, <1>8, <1>9 DEF OverdueAgrees, StatusCount, plan, late

LEMMA ListableSubset ==
    ASSUME NEW all, NEW columns, Listable(all, columns), NEW S \in SUBSET all
    PROVE  Listable(S, columns)
<1>1. IsFiniteSet(S)
      BY FS_Subset DEF Listable
<1> QED BY <1>1 DEF Listable

\* What the tables hold of a list: finitely many rows with a primary key, dates
\* in their columns, a status of the enum.
ListInput ==
    /\ input.kind = "tasks" => TaskRows(input.tasks)
    /\ input.kind = "rows" => Listable(input.rows, {"created"})

(* For any number of rows, any dates and any page size, following the pages  *)
(* of a list of tasks, documents or semesters shows every matching row once  *)
(* and their number is the announced total; and the task list, the           *)
(* dashboard, the reminders, the recovery plan and Task.is_overdue mean the  *)
(* same tasks by overdue (list_tasks and count_tasks, _apply_list_filters,   *)
(* list_by_user and count_by_user, build_recovery_plan, get_task_counts).    *)
THEOREM ListsAreComplete ==
    ASSUME ListInput
    PROVE  ListsAgree
<1>1. ASSUME input.kind = "tasks"
      PROVE  /\ OverdueAgrees
             /\ \A f \in Filters, column \in {"due", "created"}, desc \in BOOLEAN, size \in PageSizes :
                  PagesPartition([p \in Nat |-> ListTasks(f, column, desc, p, size)],
                                 {t \in input.tasks : TaskMatches(t, f)}, CountTasks(f), size)
    <2>1. TaskRows(input.tasks)
          BY <1>1 DEF ListInput
    <2>2. Listable(input.tasks, {"due", "created"})
          BY <2>1 DEF TaskRows, Plannable
    <2>3. ASSUME NEW f \in Filters, NEW column \in {"due", "created"}, NEW desc \in BOOLEAN, NEW size \in PageSizes
          PROVE  PagesPartition([p \in Nat |-> ListTasks(f, column, desc, p, size)],
                                {t \in input.tasks : TaskMatches(t, f)}, CountTasks(f), size)
        <3> DEFINE S == {t \in input.tasks : TaskMatches(t, f)}
        <3>1. Listable(S, {"due", "created"})
            <4>1. S \in SUBSET input.tasks
                  OBVIOUS
            <4> QED BY <2>2, <4>1, ListableSubset
        <3>2. \A p \in Nat : ListTasks(f, column, desc, p, size) = Paged(S, column, desc, p, size)
              BY DEF ListTasks
        <3>3. CountTasks(f) = Cardinality(S)
              BY DEF CountTasks
        <3> HIDE DEF S
        <3>4. PagesPartition([p \in Nat |-> Paged(S, column, desc, p, size)], S, Cardinality(S), size)
              BY <3>1, ListIsPaged
        <3>5. [p \in Nat |-> ListTasks(f, column, desc, p, size)] = [p \in Nat |-> Paged(S, column, desc, p, size)]
              BY <3>2
        <3> QED BY <3>3, <3>4, <3>5 DEF S
    <2> QED BY <2>1, <2>3, OverdueHolds
<1>2. ASSUME input.kind = "rows", NEW f \in Filters, NEW size \in PageSizes
      PROVE  /\ PagesPartition([p \in Nat |-> ListDocuments(f, p, size)],
                               {d \in input.rows : DocumentMatches(d, f)}, CountDocuments(f), size)
             /\ \A desc \in BOOLEAN :
                  PagesPartition([p \in Nat |-> ListSemesters(f, "created", desc, p, size)],
                                 {s \in input.rows : SemesterMatches(s, f)}, CountSemesters(f), size)
    <2> DEFINE D == {d \in input.rows : DocumentMatches(d, f)}
               S == {s \in input.rows : SemesterMatches(s, f)}
    <2>1. Listable(input.rows, {"created"})
          BY <1>2 DEF ListInput
    <2>2. Listable(D, {"created"}) /\ Listable(S, {"created"})
        <3>1. D \in SUBSET input.rows /\ S \in SUBSET input.rows
              OBVIOUS
        <3> HIDE DEF D, S
        <3> QED BY <2>1, <3>1, ListableSubset
    <2>3. CountDocuments(f) = Cardinality(D) /\ CountSemesters(f) = Cardinality(S)
        <3>1. S = {s \in input.rows : s.access = "own" /\ (f.status = "any" \/ s.status = f.status)}
              BY DEF SemesterMatches, Mine
        <3> QED BY <3>1 DEF CountDocuments, CountSemesters
    <2>4. \A p \in Nat : ListDocuments(f, p, size) = Paged(D, "created", TRUE, p, size)
          BY DEF ListDocuments
    <2>5. \A desc, p : ListSemesters(f, "created", desc, p, size) = Paged(S, "created", desc, p, size)
          BY DEF ListSemesters
    <2> HIDE DEF D, S
    <2>6. PagesPartition([p \in Nat |-> Paged(D, "created", TRUE, p, size)], D, Cardinality(D), size)
          BY <2>2, ListIsPaged
    <2>7. ASSUME NEW desc \in BOOLEAN
          PROVE  PagesPartition([p \in Nat |-> ListSemesters(f, "created", desc, p, size)], S, CountSemesters(f), size)
        <3>1. PagesPartition([p \in Nat |-> Paged(S, "created", desc, p, size)], S, Cardinality(S), size)
              BY <2>2, ListIsPaged
        <3>2. [p \in Nat |-> ListSemesters(f, "created", desc, p, size)] = [p \in Nat |-> Paged(S, "created", desc, p, size)]
              BY <2>5
        <3> QED BY <2>3, <3>1, <3>2
    <2>8. [p \in Nat |-> ListDocuments(f, p, size)] = [p \in Nat |-> Paged(D, "created", TRUE, p, size)]
          BY <2>4
    <2> QED BY <2>3, <2>6, <2>7, <2>8 DEF D, S
<1> QED BY <1>1, <1>2 DEF ListsAgree
=============================================================================
