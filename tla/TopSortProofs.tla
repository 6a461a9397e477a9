--------------------------- MODULE TopSortProofs ---------------------------
(***************************************************************************)
(* TopSort puts every job after its dependencies, for every acyclic graph. *)
(*                                                                         *)
(* A dependency that has been visited need not be sorted yet: it might be  *)
(* a job whose visit is in progress.  It is not, because from each job on  *)
(* the stack the next one is a dependency, so that ranks of an acyclic     *)
(* graph fall along the stack.  An unknown dependency is looked up as the  *)
(* first job; that does no harm only because the loop begins with it, so   *)
(* it has been visited whenever a dependency is looked up.                 *)
(***************************************************************************)
EXTENDS TopSort, TLAPS

Ranks(g) == {rank \in [DOMAIN g -> 1..Len(g)] :
                \A i \in DOMAIN g : \A d \in Range(g[i]) \ {Unknown} : rank[d] < rank[i]}

SortTypes == /\ deps \in Graphs
             /\ deps \in Seq(Seq(Nat))
             /\ \A j \in DOMAIN deps : Range(deps[j]) \subseteq DOMAIN deps \cup {Unknown}
             /\ visited \subseteq DOMAIN deps
             /\ stack \in Seq(DOMAIN deps)
             /\ next \in [DOMAIN deps -> Nat]
             /\ \A j \in DOMAIN deps : next[j] \in 1..(Len(deps[j]) + 1)
             /\ outer \in 1..(Len(deps) + 1)
             /\ sorted \in Seq(DOMAIN deps)

\* A visited job is on the stack or sorted, not both, and sorted once; a job
\* that is not visited has not begun its loop.
Visits == /\ visited = Range(stack) \cup Range(sorted)
          /\ Range(stack) \cap Range(sorted) = {}
          /\ IsInjective(sorted)
          /\ \A j \in DOMAIN deps \ visited : next[j] = 1

\* Ranks fall along the stack.
Falls(rank) == \A h, i \in DOMAIN stack : h < i => rank[stack[i]] < rank[stack[h]]

\* The loop has passed what is visited, the first job before all others.
Loop == /\ \A i \in 1..(outer - 1) : i \in visited
        /\ 1 \in visited \/ stack = << >>
        /\ outer > 1 => 1 \in visited

\* The dependencies that a job's loop has passed are sorted, the last one
\* perhaps on the stack above the job.
Passed == \A i \in DOMAIN stack : \A k \in 1..(next[stack[i]] - 1) :
             \/ deps[stack[i]][k] \in Range(sorted) \cup {Unknown}
             \/ i < Len(stack) /\ stack[i + 1] = deps[stack[i]][k]

\* What is sorted comes after its dependencies.
Before == \A i \in DOMAIN sorted : \A d \in Range(deps[sorted[i]]) \ {Unknown} :
             \E h \in 1..(i - 1) : sorted[h] = d

SInv(rank) == /\ SortTypes /\ rank \in Ranks(deps)
              /\ Visits /\ Falls(rank) /\ Loop /\ Passed /\ Before

-----------------------------------------------------------------------------
\* What Append does to a sequence and to its range.
LEMMA AppendFacts ==
    ASSUME NEW S, NEW s \in Seq(S), NEW e \in S
    PROVE  /\ Append(s, e) \in Seq(S)
           /\ Len(Append(s, e)) = Len(s) + 1
           /\ DOMAIN Append(s, e) = 1..(Len(s) + 1)
           /\ \A i \in 1..Len(s) : Append(s, e)[i] = s[i]
           /\ Append(s, e)[Len(s) + 1] = e
           /\ Range(Append(s, e)) = Range(s) \cup {e}
<1>1. /\ Append(s, e) \in Seq(S)
      /\ Len(s) \in Nat /\ DOMAIN s = 1..Len(s)
      /\ Len(Append(s, e)) = Len(s) + 1
      /\ DOMAIN Append(s, e) = 1..(Len(s) + 1)
      /\ \A i \in 1..Len(s) : Append(s, e)[i] = s[i]
      /\ Append(s, e)[Len(s) + 1] = e
  OBVIOUS
<1>2. \A i : i \in 1..(Len(s) + 1) <=> i \in 1..Len(s) \/ i = Len(s) + 1
  BY <1>1
<1> QED BY <1>1, <1>2 DEF Range

\* A stack without its last element.
LEMMA FrontFacts ==
    ASSUME NEW S, NEW s \in Seq(S), s # << >>
    PROVE  /\ SubSeq(s, 1, Len(s) - 1) \in Seq(S)
           /\ Len(SubSeq(s, 1, Len(s) - 1)) = Len(s) - 1
           /\ DOMAIN SubSeq(s, 1, Len(s) - 1) = 1..(Len(s) - 1)
           /\ \A i \in 1..(Len(s) - 1) : SubSeq(s, 1, Len(s) - 1)[i] = s[i]
           /\ Range(s) = Range(SubSeq(s, 1, Len(s) - 1)) \cup {s[Len(s)]}
<1> DEFINE f == SubSeq(s, 1, Len(s) - 1)
<1>1. Len(s) \in Nat \ {0} /\ DOMAIN s = 1..Len(s)
  OBVIOUS
<1>2. /\ f \in Seq(S)
      /\ Len(f) = Len(s) - 1 /\ DOMAIN f = 1..(Len(s) - 1)
      /\ \A i \in 1..(Len(s) - 1) : f[i] = s[i]
  BY <1>1
<1>3. \A i : i \in 1..Len(s) <=> i \in 1..(Len(s) - 1) \/ i = Len(s)
  BY <1>1
<1> HIDE DEF f
<1>4. Range(s) = Range(f) \cup {s[Len(s)]}
  BY <1>1, <1>2, <1>3 DEF Range
<1> QED BY <1>2, <1>4 DEF f

\* Types of the stack and of a rank.
LEMMA Basics ==
    ASSUME NEW rank, SInv(rank)
    PROVE  /\ Len(deps) \in Nat /\ DOMAIN deps = 1..Len(deps)
           /\ stack \in Seq(DOMAIN deps) /\ Len(stack) \in Nat
           /\ DOMAIN stack = 1..Len(stack)
           /\ \A h \in DOMAIN stack : stack[h] \in DOMAIN deps
           /\ stack # << >> => Len(stack) \in DOMAIN stack /\ Top \in DOMAIN deps
           /\ \A j \in DOMAIN deps : rank[j] \in Nat
<1>1. /\ deps \in Seq(Seq(Nat)) /\ stack \in Seq(DOMAIN deps)
  BY DEF SInv, SortTypes
<1>2. Len(deps) \in Nat /\ DOMAIN deps = 1..Len(deps)
  BY <1>1
<1>3. rank \in [DOMAIN deps -> 1..Len(deps)]
  BY DEF SInv, Ranks
<1>4. \A j \in DOMAIN deps : rank[j] \in Nat
  BY <1>2, <1>3
<1>5. ASSUME NEW S, NEW s \in Seq(S)
      PROVE  /\ Len(s) \in Nat /\ DOMAIN s = 1..Len(s)
             /\ \A h \in DOMAIN s : s[h] \in S
             /\ s # << >> => Len(s) \in DOMAIN s
  OBVIOUS
<1> QED BY <1>1, <1>2, <1>4, <1>5 DEF Top

\* Ranks fall along the stack, so no job is on it twice.
LEMMA StackOnce ==
    ASSUME NEW rank, SInv(rank),
           NEW h \in DOMAIN stack, NEW i \in DOMAIN stack, stack[h] = stack[i]
    PROVE  h = i
<1>1. rank[stack[h]] \in Nat /\ h \in Nat /\ i \in Nat
  BY Basics
<1>2. Falls(rank)
  BY DEF SInv
<1> QED BY <1>1, <1>2 DEF Falls

\* A dependency that has been visited is sorted.
LEMMA VisitedIsSorted ==
    ASSUME NEW rank, SInv(rank), stack # << >>,
           NEW d \in visited, rank[d] < rank[Top]
    PROVE  d \in Range(sorted)
<1>1. ASSUME NEW h \in DOMAIN stack, d = stack[h]
      PROVE  FALSE
  <2>1. /\ Len(stack) \in DOMAIN stack /\ h \in Nat /\ Len(stack) \in Nat
        /\ rank[d] \in Nat /\ rank[Top] \in Nat
        /\ h < Len(stack) \/ h = Len(stack)
    BY <1>1, Basics
  <2>2. Falls(rank)
    BY DEF SInv
  <2>3. h < Len(stack) => rank[Top] < rank[d]
    BY <1>1, <2>1, <2>2 DEF Falls, Top
  <2>4. h = Len(stack) => d = Top
    BY <1>1 DEF Top
  <2> QED BY <2>1, <2>3, <2>4
<1> QED BY <1>1 DEF SInv, Visits, Range

\* Before speaks of the graph and of the result only.
LEMMA BeforeKept ==
    ASSUME Before, deps' = deps, sorted' = sorted
    PROVE  Before'
BY Zenon DEF Before

\* A job is pushed on the stack: what the invariant says of the stack and of
\* the sorted jobs stays true when the job was not visited and is the
\* dependency that the job below it has come to, if there is one.
LEMMA PushKeeps ==
    ASSUME NEW rank, SInv(rank), NEW j \in DOMAIN deps \ visited,
           visited' = visited \cup {j}, stack' = Append(stack, j),
           UNCHANGED <<deps, sorted>>,
           next' \in [DOMAIN deps -> Nat], next'[j] = 1,
           \A i \in DOMAIN deps \ visited : next'[i] = next[i],
           stack # << >> => rank[j] < rank[Top]
    PROVE  /\ stack' \in Seq(DOMAIN deps) /\ visited' \subseteq DOMAIN deps
           /\ Visits' /\ Falls(rank)' /\ Before'
<1>1. /\ stack \in Seq(DOMAIN deps) /\ Len(stack) \in Nat
      /\ DOMAIN stack = 1..Len(stack)
      /\ \A i \in DOMAIN deps : rank[i] \in Nat
  BY Basics
<1>2. /\ stack' \in Seq(DOMAIN deps)
      /\ DOMAIN stack' = 1..(Len(stack) + 1)
      /\ \A i \in 1..Len(stack) : stack'[i] = stack[i]
      /\ stack'[Len(stack) + 1] = j
      /\ Range(stack') = Range(stack) \cup {j}
  BY <1>1, AppendFacts
<1>3. visited' \subseteq DOMAIN deps
  BY DEF SInv, SortTypes
<1>4. Visits'
  <2>1. j \notin Range(stack) /\ j \notin Range(sorted)
    BY DEF SInv, Visits
  <2> QED BY <1>2, <2>1 DEF SInv, Visits, IsInjective
<1>5. Falls(rank)'
  <2> SUFFICES ASSUME NEW h \in DOMAIN stack', NEW i \in DOMAIN stack', h < i
               PROVE  rank[stack'[i]] < rank[stack'[h]]
    BY DEF Falls
  <2>1. h \in 1..Len(stack) /\ (i \in 1..Len(stack) \/ i = Len(stack) + 1)
    BY <1>1, <1>2
  <2> Falls(rank)
    BY DEF SInv
  <2>2. CASE i \in 1..Len(stack)
    BY <1>1, <1>2, <2>1, <2>2 DEF Falls
  <2>3. CASE i = Len(stack) + 1
    <3>1. Len(stack) \in DOMAIN stack /\ stack # << >> /\ h \in DOMAIN stack
      BY <1>1, <2>1
    <3>2. rank[j] < rank[Top]
      BY <3>1
    <3>3. h < Len(stack) => rank[Top] < rank[stack[h]]
      BY <3>1 DEF Falls, Top
    <3>4. h < Len(stack) \/ h = Len(stack)
      BY <1>1, <2>1
    <3>5. /\ rank[j] \in Nat /\ rank[Top] \in Nat /\ rank[stack[h]] \in Nat
      BY <3>1, Basics
    <3>6. rank[j] < rank[stack[h]]
      BY <3>2, <3>3, <3>4, <3>5 DEF Top
    <3> QED BY <1>2, <2>1, <2>3, <3>6
  <2> QED BY <2>1, <2>2, <2>3
<1>6. Before'
  <2>1. Before /\ deps' = deps /\ sorted' = sorted
    BY DEF SInv
  <2> QED BY <2>1, BeforeKept
<1> QED BY <1>2, <1>3, <1>4, <1>5, <1>6

-----------------------------------------------------------------------------
\* At first nothing is visited, and the graph is acyclic by assumption.
LEMMA InitSInv ==
    ASSUME SortInit
    PROVE  \E rank \in Ranks(deps) : SInv(rank)
<1>1. IsGraph(deps)
  BY GraphsAssumption DEF SortInit
<1>2. PICK rank \in Ranks(deps) : TRUE
  BY <1>1 DEF IsGraph, Ranks
<1>3. SortTypes
  BY <1>1 DEF SortInit, SortTypes, IsGraph
<1>4. Visits
  BY DEF SortInit, Visits, Range, IsInjective
<1>5. Falls(rank) /\ Loop /\ Passed /\ Before
  BY DEF SortInit, Falls, Loop, Passed, Before
<1> QED BY <1>2, <1>3, <1>4, <1>5 DEF SInv

\* The loop over all jobs visits a job from an empty stack.
LEMMA VisitNextKeeps ==
    ASSUME NEW rank, SInv(rank), VisitNext
    PROVE  SInv(rank)'
<1>1. /\ Len(deps) \in Nat /\ DOMAIN deps = 1..Len(deps)
      /\ outer \in DOMAIN deps /\ outer' = outer + 1
      /\ outer' \in 1..(Len(deps) + 1)
      /\ stack = << >> /\ UNCHANGED <<deps, next, sorted>>
  BY DEF SInv, SortTypes, VisitNext
<1>2. outer > 1 \/ outer = 1
  BY <1>1
<1>3. \A i \in 1..(outer' - 1) : i \in 1..(outer - 1) \/ i = outer
  BY <1>1
<1>4. CASE outer \in visited
  <2>1. UNCHANGED <<visited, stack>>
    BY <1>4 DEF VisitNext, Visit
  <2>2. Loop'
    BY <1>1, <1>2, <1>3, <1>4, <2>1 DEF SInv, Loop
  <2>3. SortTypes'
    BY <1>1, <2>1 DEF SInv, SortTypes
  <2> QED BY <1>1, <2>1, <2>2, <2>3
          DEF SInv, Visits, Falls, Passed, Before
<1>5. CASE outer \notin visited
  <2>1. visited' = visited \cup {outer} /\ stack' = Append(stack, outer)
    BY <1>5 DEF VisitNext, Visit
  <2>2. next \in [DOMAIN deps -> Nat] /\ next[outer] = 1
    BY <1>1, <1>5 DEF SInv, SortTypes, Visits
  <2>3. /\ stack' \in Seq(DOMAIN deps) /\ visited' \subseteq DOMAIN deps
        /\ Visits' /\ Falls(rank)' /\ Before'
    BY <1>1, <1>5, <2>1, <2>2, PushKeeps
  <2>4. Loop'
    BY <1>1, <1>2, <1>3, <2>1 DEF SInv, Loop
  <2>5. Passed'
    <3>1. stack' = <<outer>>
      BY <1>1, <2>1
    <3> QED BY <1>1, <2>2, <3>1 DEF Passed
  <2>6. SortTypes'
    BY <1>1, <2>3 DEF SInv, SortTypes
  <2> QED BY <1>1, <2>3, <2>4, <2>5, <2>6 DEF SInv
<1> QED BY <1>4, <1>5

\* A dependency is passed over when it is sorted or unknown, pushed when not.
LEMMA VisitDepKeeps ==
    ASSUME NEW rank, SInv(rank), VisitDep
    PROVE  SInv(rank)'
<1> DEFINE k == next[Top]
           d == deps[Top][k]
<1>1. /\ stack # << >> /\ Top \in DOMAIN deps /\ Top \in Range(stack)
      /\ Len(stack) \in DOMAIN stack /\ DOMAIN stack = 1..Len(stack)
      /\ Len(stack) \in Nat /\ Len(deps) \in Nat
      /\ DOMAIN deps = 1..Len(deps)
  BY Basics DEF VisitDep, Range, Top
<1>2. /\ UNCHANGED <<deps, outer, sorted>>
      /\ next' = [next EXCEPT ![Top] = k + 1]
      /\ Visit(Index(d)) /\ ~(k > Len(deps[Top]))
  BY DEF VisitDep, DepsVisited
<1>3. /\ next \in [DOMAIN deps -> Nat]
      /\ deps \in Seq(Seq(Nat))
      /\ \A j \in DOMAIN deps : next[j] \in 1..(Len(deps[j]) + 1)
      /\ \A j \in DOMAIN deps : Range(deps[j]) \subseteq DOMAIN deps \cup {Unknown}
  BY DEF SInv, SortTypes
<1>4. /\ deps[Top] \in Seq(Nat) /\ Len(deps[Top]) \in Nat
      /\ k \in 1..Len(deps[Top]) /\ k \in Nat
  <2>1. deps[Top] \in Seq(Nat)
    BY <1>1, <1>3
  <2> QED BY <1>1, <1>2, <1>3, <2>1
<1>5. d \in Range(deps[Top]) /\ d \in DOMAIN deps \cup {Unknown}
  <2>1. k \in DOMAIN deps[Top]
    BY <1>4
  <2>2. d \in Range(deps[Top])
    BY <2>1 DEF Range
  <2> QED BY <1>1, <1>3, <2>2
<1>6. /\ next' \in [DOMAIN deps -> Nat] /\ next'[Top] = k + 1
      /\ \A j \in DOMAIN deps \ {Top} : next'[j] = next[j]
      /\ \A j \in DOMAIN deps : next'[j] \in 1..(Len(deps[j]) + 1)
  BY <1>1, <1>2, <1>3, <1>4
<1>7. Top \in visited
  BY <1>1 DEF SInv, Visits
<1>8. 1 \in visited
  BY <1>1 DEF SInv, Loop
<1>9. \A i \in DOMAIN stack : i # Len(stack) => stack[i] \in DOMAIN deps \ {Top}
  BY <1>1, Basics, StackOnce DEF Top
<1>10. d # Unknown => rank[d] < rank[Top]
  BY <1>1, <1>5 DEF SInv, Ranks
<1>11. CASE Index(d) \in visited
  <2>1. UNCHANGED <<visited, stack>>
    BY <1>2, <1>11 DEF Visit
  <2>2. d \in Range(sorted) \cup {Unknown}
    BY <1>1, <1>10, <1>11, VisitedIsSorted DEF Index
  <2>3. Visits'
    BY <1>2, <1>6, <1>7, <2>1 DEF SInv, Visits
  <2>4. Passed'
    <3> SUFFICES ASSUME NEW i \in DOMAIN stack, NEW n \in 1..(next'[stack[i]] - 1)
                 PROVE  \/ deps[stack[i]][n] \in Range(sorted) \cup {Unknown}
                        \/ i < Len(stack) /\ stack[i + 1] = deps[stack[i]][n]
      BY <1>2, <2>1 DEF Passed
    <3>1. CASE i # Len(stack)
      BY <1>6, <1>9, <3>1 DEF SInv, Passed
    <3>2. CASE i = Len(stack) /\ n = k
      BY <2>2, <3>2 DEF Top
    <3>3. CASE i = Len(stack) /\ n # k
      <4>1. n \in 1..(next[stack[i]] - 1)
        BY <1>4, <1>6, <3>3 DEF Top
      <4> QED BY <4>1 DEF SInv, Passed
    <3> QED BY <3>1, <3>2, <3>3
  <2>5. SortTypes'
    BY <1>2, <1>6, <2>1 DEF SInv, SortTypes
  <2>6. Falls(rank)' /\ Loop' /\ rank \in Ranks(deps')
    BY <1>2, <2>1 DEF SInv, Falls, Loop
  <2>7. Before'
    <3>1. Before /\ deps' = deps /\ sorted' = sorted
      BY <1>2 DEF SInv
    <3> QED BY <3>1, BeforeKept
  <2> QED BY <2>3, <2>4, <2>5, <2>6, <2>7 DEF SInv
<1>12. CASE Index(d) \notin visited
  <2>1. d # Unknown /\ Index(d) = d /\ d \in DOMAIN deps \ visited /\ d # Top
    BY <1>5, <1>7, <1>8, <1>12 DEF Index
  <2>2. visited' = visited \cup {d} /\ stack' = Append(stack, d)
    BY <1>2, <1>12, <2>1 DEF Visit
  <2>3. /\ next'[d] = 1
        /\ \A i \in DOMAIN deps \ visited : next'[i] = next[i]
    BY <1>6, <1>7, <2>1 DEF SInv, Visits
  <2>4. /\ stack' \in Seq(DOMAIN deps) /\ visited' \subseteq DOMAIN deps
        /\ Visits' /\ Falls(rank)' /\ Before'
    BY <1>2, <1>6, <1>10, <2>1, <2>2, <2>3, PushKeeps
  <2>5. /\ DOMAIN stack' = 1..(Len(stack) + 1) /\ Len(stack') = Len(stack) + 1
        /\ \A i \in 1..Len(stack) : stack'[i] = stack[i]
        /\ stack'[Len(stack) + 1] = d
    BY <2>1, <2>2, Basics, AppendFacts
  <2>6. Passed'
    <3> SUFFICES ASSUME NEW i \in DOMAIN stack', NEW n \in 1..(next'[stack'[i]] - 1)
                 PROVE  \/ deps[stack'[i]][n] \in Range(sorted) \cup {Unknown}
                        \/ i < Len(stack') /\ stack'[i + 1] = deps[stack'[i]][n]
      BY <1>2 DEF Passed
    <3>1. CASE i = Len(stack) + 1
      BY <2>3, <2>5, <3>1
    <3>2. CASE i \in 1..Len(stack) /\ i # Len(stack)
      <4>1. i + 1 \in 1..Len(stack) /\ i \in DOMAIN stack /\ i < Len(stack')
        BY <1>1, <2>5, <3>2
      <4>2. n \in 1..(next[stack[i]] - 1)
        BY <1>6, <1>9, <2>5, <3>2, <4>1
      <4>3. \/ deps[stack[i]][n] \in Range(sorted) \cup {Unknown}
            \/ i < Len(stack) /\ stack[i + 1] = deps[stack[i]][n]
        BY <4>1, <4>2 DEF SInv, Passed
      <4> QED BY <2>5, <3>2, <4>1, <4>3
    <3>3. CASE i = Len(stack) /\ n = k
      BY <1>1, <2>5, <3>3 DEF Top
    <3>4. CASE i = Len(stack) /\ n # k
      <4>1. stack'[i] = Top /\ n \in 1..(next[Top] - 1)
        BY <1>1, <1>4, <1>6, <2>5, <3>4 DEF Top
      <4>2. deps[Top][n] \in Range(sorted) \cup {Unknown}
        BY <1>1, <4>1 DEF SInv, Passed, Top
      <4> QED BY <4>1, <4>2
    <3>5. i \in 1..Len(stack) \/ i = Len(stack) + 1
      BY <1>1, <2>5
    <3> QED BY <3>1, <3>2, <3>3, <3>4, <3>5
  <2>7. SortTypes'
    BY <1>2, <1>6, <2>4 DEF SInv, SortTypes
  <2>8. Loop' /\ rank \in Ranks(deps')
    BY <1>2, <1>8, <2>2 DEF SInv, Loop
  <2> QED BY <2>4, <2>6, <2>7, <2>8 DEF SInv
<1> QED BY <1>11, <1>12

\* The job on top is sorted after all its dependencies.
LEMMA VisitReturnKeeps ==
    ASSUME NEW rank, SInv(rank), VisitReturn
    PROVE  SInv(rank)'
<1> DEFINE t == Top
           n == Len(stack)
<1>1. /\ stack # << >> /\ n \in DOMAIN stack /\ n \in Nat \ {0}
      /\ t \in DOMAIN deps /\ stack[n] = t /\ t \in Range(stack)
      /\ DOMAIN stack = 1..n /\ stack \in Seq(DOMAIN deps)
  BY Basics DEF VisitReturn, Range, Top
<1>2. /\ UNCHANGED <<deps, visited, next, outer>>
      /\ sorted' = Append(sorted, t)
      /\ stack' = SubSeq(stack, 1, n - 1)
      /\ next[t] > Len(deps[t])
  BY DEF VisitReturn, DepsVisited
<1>3. /\ stack' \in Seq(DOMAIN deps)
      /\ Len(stack') = n - 1 /\ DOMAIN stack' = 1..(n - 1)
      /\ \A i \in 1..(n - 1) : stack'[i] = stack[i]
      /\ Range(stack) = Range(stack') \cup {t}
  <2>1. /\ stack \in Seq(DOMAIN deps) /\ stack # << >>
        /\ stack' = SubSeq(stack, 1, Len(stack) - 1)
    BY <1>1, <1>2
  <2>2. /\ stack' \in Seq(DOMAIN deps)
        /\ Len(stack') = Len(stack) - 1 /\ DOMAIN stack' = 1..(Len(stack) - 1)
        /\ \A i \in 1..(Len(stack) - 1) : stack'[i] = stack[i]
        /\ Range(stack) = Range(stack') \cup {stack[Len(stack)]}
    BY <2>1, FrontFacts
  <2> QED BY <1>1, <2>2
<1>4. sorted \in Seq(DOMAIN deps) /\ Len(sorted) \in Nat /\ DOMAIN sorted = 1..Len(sorted)
  <2>1. sorted \in Seq(DOMAIN deps)
    BY DEF SInv, SortTypes
  <2> QED BY <2>1
<1>5. /\ sorted' \in Seq(DOMAIN deps)
      /\ DOMAIN sorted' = 1..(Len(sorted) + 1)
      /\ \A i \in 1..Len(sorted) : sorted'[i] = sorted[i]
      /\ sorted'[Len(sorted) + 1] = t
      /\ Range(sorted') = Range(sorted) \cup {t}
  BY <1>1, <1>2, <1>4, AppendFacts
<1>6. \A i \in 1..(n - 1) : i \in DOMAIN stack /\ stack[i] # t
  BY <1>1, StackOnce
<1>7. Visits'
  <2>1. t \notin Range(stack')
    BY <1>3, <1>6 DEF Range
  <2>2. /\ visited = Range(stack) \cup Range(sorted)
        /\ Range(stack) \cap Range(sorted) = {}
        /\ IsInjective(sorted)
        /\ \A j \in DOMAIN deps \ visited : next[j] = 1
    BY DEF SInv, Visits
  <2>3. \A i \in 1..Len(sorted) : sorted[i] # t
    BY <1>1, <1>4, <2>2 DEF Range
  <2>4. IsInjective(sorted')
    <3> SUFFICES ASSUME NEW a \in DOMAIN sorted', NEW b \in DOMAIN sorted',
                        sorted'[a] = sorted'[b]
                 PROVE  a = b
      BY DEF IsInjective
    <3>1. /\ a \in 1..Len(sorted) \/ a = Len(sorted) + 1
          /\ b \in 1..Len(sorted) \/ b = Len(sorted) + 1
      BY <1>4, <1>5
    <3> QED BY <1>4, <1>5, <2>2, <2>3, <3>1 DEF IsInjective
  <2> QED BY <1>2, <1>3, <1>5, <2>1, <2>2, <2>4 DEF Visits
<1>8. Falls(rank)'
  <2>1. Falls(rank) /\ \A i \in DOMAIN stack' : i \in DOMAIN stack /\ stack'[i] = stack[i]
    BY <1>3, <1>6 DEF SInv
  <2> QED BY <2>1 DEF Falls
<1>9. Loop' /\ rank \in Ranks(deps')
  <2>1. 1 \in visited
    BY <1>1 DEF SInv, Loop
  <2> QED BY <1>2, <2>1 DEF SInv, Loop
<1>10. Passed'
  <2> SUFFICES ASSUME NEW i \in DOMAIN stack', NEW m \in 1..(next[stack'[i]] - 1)
               PROVE  \/ deps[stack'[i]][m] \in Range(sorted') \cup {Unknown}
                      \/ i < Len(stack') /\ stack'[i + 1] = deps[stack'[i]][m]
    BY <1>2 DEF Passed
  <2>1. i \in DOMAIN stack /\ stack'[i] = stack[i]
    BY <1>3, <1>6
  <2>2. \/ deps[stack[i]][m] \in Range(sorted) \cup {Unknown}
        \/ i < n /\ stack[i + 1] = deps[stack[i]][m]
    BY <2>1 DEF SInv, Passed
  <2>3. CASE i = n - 1
    BY <1>1, <1>3, <1>5, <2>1, <2>2, <2>3
  <2>4. CASE i # n - 1
    <3>1. i < Len(stack') /\ i + 1 \in 1..(n - 1)
      BY <1>1, <1>3, <2>4
    <3> QED BY <1>3, <1>5, <2>1, <2>2, <3>1
  <2> QED BY <2>3, <2>4
<1>11. SortTypes'
  <2>1. SortTypes
    BY DEF SInv
  <2>2. \A j \in DOMAIN deps' : Range(deps'[j]) \subseteq DOMAIN deps' \cup {Unknown}
    BY <1>2, <2>1 DEF SortTypes
  <2>3. \A j \in DOMAIN deps' : next'[j] \in 1..(Len(deps'[j]) + 1)
    BY <1>2, <2>1 DEF SortTypes
  <2> QED BY <1>2, <1>3, <1>5, <2>1, <2>2, <2>3 DEF SortTypes
<1>12. Before'
  <2> SUFFICES ASSUME NEW i \in DOMAIN sorted',
                      NEW d \in Range(deps[sorted'[i]]) \ {Unknown}
               PROVE  \E h \in 1..(i - 1) : sorted'[h] = d
    BY <1>2, Zenon DEF Before
  <2>1. CASE i \in 1..Len(sorted)
    <3>1. PICK h \in 1..(i - 1) : sorted[h] = d
      BY <1>4, <1>5, <2>1 DEF SInv, Before
    <3> QED BY <1>4, <1>5, <2>1, <3>1
  <2>2. CASE i = Len(sorted) + 1
    <3>1. deps[t] \in Seq(Nat)
      BY <1>1 DEF SInv, SortTypes
    <3>2. PICK m \in 1..Len(deps[t]) : deps[t][m] = d
      BY <1>5, <2>2, <3>1 DEF Range
    <3>3. next[t] \in Nat /\ m \in 1..(next[t] - 1)
      BY <1>1, <1>2, <3>1 DEF SInv, SortTypes
    <3>4. d \in Range(sorted)
      BY <1>1, <3>2, <3>3 DEF SInv, Passed
    <3>5. PICK h \in 1..Len(sorted) : sorted[h] = d
      BY <1>4, <3>4 DEF Range
    <3> QED BY <1>4, <1>5, <2>2, <3>5
  <2> QED BY <1>4, <1>5, <2>1, <2>2
<1> QED BY <1>7, <1>8, <1>9, <1>10, <1>11, <1>12 DEF SInv

-----------------------------------------------------------------------------
SomeRank == \E rank \in Ranks(deps) : SInv(rank)

LEMMA SortKeeps == SortSpec => []SomeRank
<1>1. SortInit => SomeRank
  BY InitSInv DEF SomeRank
<1>2. SomeRank /\ [SortNext]_sortVars => SomeRank'
  <2> SUFFICES ASSUME NEW rank \in Ranks(deps), SInv(rank), [SortNext]_sortVars
               PROVE  SInv(rank)'
    BY DEF SInv, SomeRank
  <2>1. CASE VisitNext
    BY <2>1, VisitNextKeeps
  <2>2. CASE VisitDep
    BY <2>2, VisitDepKeeps
  <2>3. CASE VisitReturn
    BY <2>3, VisitReturnKeeps
  <2>4. CASE UNCHANGED sortVars
    <3>1. /\ deps' = deps /\ visited' = visited /\ stack' = stack
          /\ next' = next /\ outer' = outer /\ sorted' = sorted
      BY <2>4 DEF sortVars
    <3>2. Before'
      <4>1. Before
        BY DEF SInv
      <4> QED BY <3>1, <4>1, BeforeKept
    <3> QED BY <3>1, <3>2 DEF SInv, SortTypes, Visits, Falls, Loop, Passed
  <2> QED BY <2>1, <2>2, <2>3, <2>4 DEF SortNext
<1> QED BY <1>1, <1>2, PTL DEF SortSpec

\* The types of the variables of TopSort, for the modules that use it.
LEMMA SortTyped == SortSpec => []SortTypes
<1>1. SomeRank => SortTypes
  BY DEF SomeRank, SInv
<1> QED BY <1>1, SortKeeps, PTL

\* The result of TopSort holds every job once and after its dependencies, for
\* every acyclic graph, also one with dependencies that are no jobs of it.
THEOREM SortsTopologically == SortSpec => []SortedTopologically
<1>1. SomeRank => SortedTopologically
  <2> SUFFICES ASSUME NEW rank, SInv(rank)
               PROVE  SortedTopologically
    BY DEF SomeRank
  <2>1. IsInjective(sorted) /\ Before
    BY DEF SInv, Visits
  <2>2. SortDone => Range(sorted) = DOMAIN deps
    <3> SUFFICES ASSUME SortDone
                 PROVE  Range(sorted) = DOMAIN deps
      OBVIOUS
    <3>1. DOMAIN deps = 1..Len(deps) /\ Len(deps) \in Nat
      BY Basics
    <3>2. outer \in 1..(Len(deps) + 1) /\ outer > Len(deps) /\ stack = << >>
      BY DEF SortDone, SInv, SortTypes
    <3>3. visited = DOMAIN deps
      <4>1. visited \subseteq DOMAIN deps
        BY DEF SInv, SortTypes
      <4>2. 1..(outer - 1) = DOMAIN deps
        BY <3>1, <3>2
      <4> QED BY <4>1, <4>2 DEF SInv, Loop
    <3>4. Range(stack) = {}
      BY <3>2 DEF Range
    <3> QED BY <3>3, <3>4 DEF SInv, Visits
  <2> QED BY <2>1, <2>2 DEF SortedTopologically, Before
<1> QED BY <1>1, SortKeeps, PTL
=============================================================================
