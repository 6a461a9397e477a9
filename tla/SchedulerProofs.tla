-------------------------- MODULE SchedulerProofs --------------------------
(***************************************************************************)
(* Proofs about the scheduler, for any jobs, builds and workers, any       *)
(* channel capacity and any number of locations kept.                      *)
(*                                                                         *)
(* The invariants the model checker confirms are not inductive one by one: *)
(* that a job is offered once rests on the map accounting for the channel, *)
(* which rests on jobsMu being held during a send, which needs the types.  *)
(* IInv is their conjunction with the range of arg, and is inductive.      *)
(***************************************************************************)
EXTENDS Scheduler, TLAPS

\* A goroutine inside ScheduleJob or OnJobComplete has a job as its argument.
ArgIsJob == \A t \in Threads :
    at[t] \in {"schedule", "push", "complete", "record"} => arg[t] \in Jobs

IInv == /\ TypeOK
        /\ ArgIsJob
        /\ PushHoldsLock
        /\ OfferedOnce
        /\ Accounted
        /\ RecordOnTheWay

-----------------------------------------------------------------------------
(* Lemmas about the channel's buffer and the artifact lists                *)

\* A job sent on the channel joins its elements; if it is new to the buffer,
\* the buffer stays free of duplicates.
LEMMA AppendOnce ==
    ASSUME NEW S, NEW q \in Seq(S), NEW x \in S
    PROVE  /\ Append(q, x) \in Seq(S)
           /\ Len(Append(q, x)) = Len(q) + 1
           /\ Range(Append(q, x)) = Range(q) \cup {x}
           /\ IsInjective(q) /\ x \notin Range(q) => IsInjective(Append(q, x))
<1> DEFINE r == Append(q, x)
<1>1. /\ r \in Seq(S) /\ Len(r) = Len(q) + 1
      /\ \A i \in 1..Len(q) : r[i] = q[i]
      /\ r[Len(q) + 1] = x
      /\ DOMAIN r = 1..(Len(q) + 1) /\ DOMAIN q = 1..Len(q) /\ Len(q) \in Nat
  OBVIOUS
<1>2. Range(r) = Range(q) \cup {x}
  BY <1>1 DEF Range
<1>3. ASSUME IsInjective(q), x \notin Range(q)
      PROVE  IsInjective(r)
  BY <1>1, <1>3 DEF IsInjective, Range
<1> QED BY <1>1, <1>2, <1>3

\* A receive takes the head out of a buffer without duplicates and leaves
\* every other element.
LEMMA TailOnce ==
    ASSUME NEW S, NEW q \in Seq(S), q # << >>
    PROVE  /\ Head(q) \in S /\ Head(q) \in Range(q)
           /\ Tail(q) \in Seq(S)
           /\ Len(Tail(q)) = Len(q) - 1
           /\ Range(q) = Range(Tail(q)) \cup {Head(q)}
           /\ IsInjective(q) => IsInjective(Tail(q)) /\ Head(q) \notin Range(Tail(q))
<1> DEFINE r == Tail(q)
<1>1. /\ Len(q) \in Nat \ {0} /\ DOMAIN q = 1..Len(q)
      /\ Head(q) = q[1] /\ q[1] \in S
      /\ r \in Seq(S) /\ Len(r) = Len(q) - 1 /\ DOMAIN r = 1..(Len(q) - 1)
      /\ \A i \in 1..(Len(q) - 1) : r[i] = q[i + 1]
  OBVIOUS
<1>2. Range(q) = Range(r) \cup {q[1]}
  <2>1. ASSUME NEW i \in 1..Len(q), i # 1
        PROVE  q[i] \in Range(r)
    <3>1. i - 1 \in 1..(Len(q) - 1) /\ r[i - 1] = q[(i - 1) + 1] /\ (i - 1) + 1 = i
      BY <1>1, <2>1
    <3> QED BY <1>1, <3>1 DEF Range
  <2>2. ASSUME NEW i \in 1..(Len(q) - 1)
        PROVE  r[i] \in Range(q)
    <3>1. i + 1 \in 1..Len(q) /\ r[i] = q[i + 1]
      BY <1>1
    <3> QED BY <1>1, <3>1 DEF Range
  <2>3. q[1] \in Range(q)
    BY <1>1 DEF Range
  <2>4. Range(q) \subseteq Range(r) \cup {q[1]}
    BY <1>1, <2>1 DEF Range
  <2>5. Range(r) \subseteq Range(q)
    BY <1>1, <2>2 DEF Range
  <2> QED BY <2>3, <2>4, <2>5
<1>3. ASSUME IsInjective(q)
      PROVE  IsInjective(r) /\ q[1] \notin Range(r)
  BY <1>1, <1>3 DEF IsInjective, Range
<1> QED BY <1>1, <1>2, <1>3 DEF Range

\* A report leaves a list of at most MaxKept workers that is not empty.
LEMMA WithWorkerBounded ==
    ASSUME NEW S, NEW ws \in Seq(S), NEW w \in S, Len(ws) <= MaxKept
    PROVE  /\ WithWorker(ws, w) \in Seq(S)
           /\ Len(WithWorker(ws, w)) <= MaxKept
           /\ WithWorker(ws, w) # << >>
<1> DEFINE longer == Append(ws, w)
<1>1. longer \in Seq(S) /\ Len(longer) = Len(ws) + 1 /\ Len(ws) \in Nat /\ longer # << >>
  OBVIOUS
<1>2. CASE Len(longer) = MaxKept + 1
  <2>1. Tail(longer) \in Seq(S) /\ Len(Tail(longer)) = MaxKept
    BY <1>1, <1>2, MaxKeptAssumption
  <2> QED BY <1>2, <2>1, MaxKeptAssumption DEF WithWorker
<1>3. CASE Len(longer) # MaxKept + 1
  BY <1>1, <1>3, MaxKeptAssumption DEF WithWorker
<1> QED BY <1>2, <1>3

-----------------------------------------------------------------------------
(* The invariant                                                           *)

LEMMA InitIInv == Init => IInv
<1> SUFFICES ASSUME Init PROVE IInv
  OBVIOUS
<1> USE DEF Init
<1>1. TypeOK
  <2>1. queue \in Seq(Jobs) /\ Len(queue) <= Capacity
    BY CapacityAssumption
  <2>2. /\ artifacts \in [Jobs -> Seq(Workers)]
        /\ \A j \in Jobs : Len(artifacts[j]) <= MaxKept
    BY MaxKeptAssumption
  <2> QED BY <2>1, <2>2 DEF TypeOK
<1>2. ArgIsJob /\ PushHoldsLock
  BY NoOwnerAssumption DEF ArgIsJob, PushHoldsLock
<1>3. OfferedOnce /\ Accounted /\ RecordOnTheWay
  BY DEF OfferedOnce, Accounted, RecordOnTheWay, IsInjective, Range
<1> QED BY <1>1, <1>2, <1>3 DEF IInv

\* What a receive and a send do to the types of the channel, and what a
\* report does to the types of the artifact lists.
LEMMA StepTypes == IInv /\ [Next]_vars => TypeOK' /\ ArgIsJob'
<1> SUFFICES ASSUME IInv, [Next]_vars PROVE TypeOK' /\ ArgIsJob'
  OBVIOUS
<1> USE DEF IInv, TypeOK, ArgIsJob, jobVars, callVars
<1>1. ASSUME NEW t \in Threads, NEW j \in Jobs, ScheduleEnter(t, j)
      PROVE  TypeOK' /\ ArgIsJob'
  BY <1>1 DEF ScheduleEnter
<1>2. ASSUME NEW t \in Threads, ScheduleKnown(t)
      PROVE  TypeOK' /\ ArgIsJob'
  BY <1>2 DEF ScheduleKnown, Return
<1>3. ASSUME NEW t \in Threads, ScheduleNew(t)
      PROVE  TypeOK' /\ ArgIsJob'
  BY <1>3 DEF ScheduleNew
<1>4. ASSUME NEW t \in Threads, Push(t)
      PROVE  TypeOK' /\ ArgIsJob'
  <2>1. arg[t] \in Jobs
    BY <1>4 DEF Push
  <2>2. queue' \in Seq(Jobs) /\ Len(queue') <= Capacity
    BY <1>4, <2>1, AppendOnce, CapacityAssumption DEF Push
  <2> QED BY <1>4, <2>1, <2>2 DEF Push, Return
<1>5. ASSUME NEW w \in Workers, NEW j \in Jobs, NEW r \in Outcomes \cup {Nil},
             CompleteEnter(w, j, r)
      PROVE  TypeOK' /\ ArgIsJob'
  BY <1>5 DEF CompleteEnter, Threads
<1>6. ASSUME NEW w \in Workers, CompleteSettle(w)
      PROVE  TypeOK' /\ ArgIsJob'
  <2>1. w \in Threads /\ arg[w] \in Jobs
    BY <1>6 DEF CompleteSettle, Threads
  <2> QED BY <1>6, <2>1 DEF CompleteSettle
<1>7. ASSUME NEW w \in Workers, CompleteRecord(w)
      PROVE  TypeOK' /\ ArgIsJob'
  <2>1. w \in Threads /\ arg[w] \in Jobs
    BY <1>7 DEF CompleteRecord, Threads
  <2>2. /\ WithWorker(artifacts[arg[w]], w) \in Seq(Workers)
        /\ Len(WithWorker(artifacts[arg[w]], w)) <= MaxKept
    BY <2>1, WithWorkerBounded
  <2>3. /\ artifacts' \in [Jobs -> Seq(Workers)]
        /\ \A j \in Jobs : Len(artifacts'[j]) <= MaxKept
    BY <1>7, <2>1, <2>2 DEF CompleteRecord
  <2> QED BY <1>7, <2>1, <2>3 DEF CompleteRecord, Return
<1>8. ASSUME NEW w \in Workers, PickEnter(w) \/ TryPickEnter(w)
      PROVE  TypeOK' /\ ArgIsJob'
  BY <1>8 DEF PickEnter, TryPickEnter, Threads
<1>9. ASSUME NEW w \in Workers, Receive(w)
      PROVE  TypeOK' /\ ArgIsJob'
  <2>1. /\ Head(queue) \in Jobs
        /\ Tail(queue) \in Seq(Jobs) /\ Len(Tail(queue)) = Len(queue) - 1
        /\ Len(queue) \in Nat
    BY <1>9, TailOnce DEF Receive
  <2>2. queue' \in Seq(Jobs) /\ Len(queue') <= Capacity
    BY <1>9, <2>1, CapacityAssumption DEF Receive
  <2> QED BY <1>9, <2>1, <2>2 DEF Receive, Return, Threads
<1>10. ASSUME NEW w \in Workers, TryPickNothing(w) \/ PickCancel(w)
       PROVE  TypeOK' /\ ArgIsJob'
  BY <1>10 DEF TryPickNothing, PickCancel, Return, Threads
<1>11. CASE Stop
  BY <1>11 DEF Stop
<1>12. CASE UNCHANGED vars
  BY <1>12 DEF vars
<1> QED
  BY <1>1, <1>2, <1>3, <1>4, <1>5, <1>6, <1>7, <1>8, <1>9, <1>10, <1>11, <1>12
     DEF Next, ScheduleStep, WorkerStep, Threads

\* A call that neither starts nor ends a send, and changes neither the map nor
\* the lock, keeps the lock with the goroutine that is sending.
LEMMA LockKept ==
    ASSUME IInv, NEW t \in Threads, NEW s,
           at[t] # "push", s # "push",
           jobsMu' = jobsMu, jobs' = jobs,
           at' = [at EXCEPT ![t] = s],
           \A u \in Threads \ {t} : arg'[u] = arg[u]
    PROVE  PushHoldsLock'
<1>1. \A u \in Threads \ {t} : at'[u] = at[u]
  BY DEF IInv, TypeOK
<1>2. at'[t] = s /\ jobsMu # t
  BY DEF IInv, TypeOK, PushHoldsLock
<1>3. \A u \in Threads : at'[u] = "push" <=> jobsMu' = u
  BY <1>1, <1>2 DEF IInv, PushHoldsLock
<1>4. \A u \in Threads : at'[u] = "push" => arg'[u] \in Jobs \ jobs'
  BY <1>1, <1>2 DEF IInv, PushHoldsLock
<1> QED BY <1>3, <1>4 DEF PushHoldsLock

\* A call that returns, and was not sending.
LEMMA LockKeptOnReturn ==
    ASSUME IInv, NEW t \in Threads, at[t] # "push",
           jobsMu' = jobsMu, jobs' = jobs, Return(t)
    PROVE  PushHoldsLock'
<1>1. \A u \in Threads \ {t} : arg'[u] = arg[u]
  BY DEF Return, IInv, TypeOK
<1>2. at' = [at EXCEPT ![t] = "idle"]
  BY DEF Return
<1> QED BY <1>1, <1>2, LockKept

\* The lock: only a send keeps it, and the map cannot change during a send.
LEMMA StepLock == IInv /\ [Next]_vars => PushHoldsLock'
<1> SUFFICES ASSUME IInv, [Next]_vars PROVE PushHoldsLock'
  OBVIOUS
<1>1. ASSUME NEW t \in Threads, NEW j \in Jobs, ScheduleEnter(t, j)
      PROVE  PushHoldsLock'
  <2>1. /\ at[t] # "push" /\ jobsMu' = jobsMu /\ jobs' = jobs
        /\ at' = [at EXCEPT ![t] = "schedule"]
    BY <1>1 DEF ScheduleEnter, jobVars
  <2>2. \A u \in Threads \ {t} : arg'[u] = arg[u]
    BY <1>1 DEF ScheduleEnter, IInv, TypeOK
  <2> QED BY <2>1, <2>2, LockKept
<1>2. ASSUME NEW t \in Threads, ScheduleKnown(t)
      PROVE  PushHoldsLock'
  BY <1>2, LockKeptOnReturn DEF ScheduleKnown, jobVars
<1>3. ASSUME NEW t \in Threads, ScheduleNew(t)
      PROVE  PushHoldsLock'
  <2>1. \A u \in Threads : at[u] # "push"
    BY <1>3, NoOwnerAssumption DEF ScheduleNew, IInv, PushHoldsLock
  <2>2. \A u \in Threads : at'[u] = "push" <=> u = t
    BY <1>3, <2>1 DEF ScheduleNew, IInv, TypeOK
  <2>3. arg'[t] \in Jobs \ jobs'
    BY <1>3 DEF ScheduleNew, jobVars, IInv, ArgIsJob
  <2> QED BY <1>3, <2>2, <2>3 DEF ScheduleNew, PushHoldsLock
<1>4. ASSUME NEW t \in Threads, Push(t)
      PROVE  PushHoldsLock'
  <2>1. \A u \in Threads : at[u] = "push" => u = t
    BY <1>4 DEF Push, IInv, PushHoldsLock
  <2>2. \A u \in Threads : at'[u] # "push"
    BY <1>4, <2>1 DEF Push, Return, IInv, TypeOK
  <2> QED BY <1>4, <2>2, NoOwnerAssumption DEF Push, PushHoldsLock
<1>5. ASSUME NEW w \in Workers, NEW j \in Jobs, NEW r \in Outcomes \cup {Nil},
             CompleteEnter(w, j, r)
      PROVE  PushHoldsLock'
  <2>1. /\ w \in Threads /\ at[w] # "push" /\ jobsMu' = jobsMu /\ jobs' = jobs
        /\ at' = [at EXCEPT ![w] = "complete"]
    BY <1>5 DEF CompleteEnter, jobVars, Threads
  <2>2. \A u \in Threads \ {w} : arg'[u] = arg[u]
    BY <1>5 DEF CompleteEnter, IInv, TypeOK
  <2> QED BY <2>1, <2>2, LockKept
<1>6. ASSUME NEW w \in Workers, CompleteSettle(w)
      PROVE  PushHoldsLock'
  <2>1. \A u \in Threads : at[u] # "push"
    BY <1>6, NoOwnerAssumption DEF CompleteSettle, IInv, PushHoldsLock
  <2>2. \A u \in Threads : at'[u] # "push"
    BY <1>6, <2>1 DEF CompleteSettle, IInv, TypeOK
  <2> QED BY <1>6, <2>2, NoOwnerAssumption DEF CompleteSettle, PushHoldsLock
<1>7. ASSUME NEW w \in Workers, CompleteRecord(w)
      PROVE  PushHoldsLock'
  <2>1. w \in Threads
    BY DEF Threads
  <2> QED BY <1>7, <2>1, LockKeptOnReturn DEF CompleteRecord, jobVars
<1>8. ASSUME NEW w \in Workers, PickEnter(w) \/ TryPickEnter(w)
      PROVE  PushHoldsLock'
  <2>1. /\ w \in Threads /\ at[w] # "push" /\ jobsMu' = jobsMu /\ jobs' = jobs
        /\ arg' = arg
    BY <1>8 DEF PickEnter, TryPickEnter, jobVars, Threads
  <2>2. CASE at' = [at EXCEPT ![w] = "pick"]
    BY <2>1, <2>2, LockKept
  <2>3. CASE at' = [at EXCEPT ![w] = "trypick"]
    BY <2>1, <2>3, LockKept
  <2> QED BY <1>8, <2>2, <2>3 DEF PickEnter, TryPickEnter
<1>9. ASSUME NEW w \in Workers, Receive(w) \/ TryPickNothing(w) \/ PickCancel(w)
      PROVE  PushHoldsLock'
  <2>1. /\ w \in Threads /\ at[w] # "push" /\ jobsMu' = jobsMu /\ jobs' = jobs
        /\ Return(w)
    BY <1>9 DEF Receive, TryPickNothing, PickCancel, jobVars, Threads
  <2> QED BY <2>1, LockKeptOnReturn
<1>10. CASE Stop \/ UNCHANGED vars
  <2>1. UNCHANGED <<at, arg, jobs, jobsMu>>
    BY <1>10 DEF Stop, vars, jobVars, callVars
  <2> QED BY <2>1 DEF IInv, PushHoldsLock
<1> QED
  BY <1>1, <1>2, <1>3, <1>4, <1>5, <1>6, <1>7, <1>8, <1>9, <1>10
     DEF Next, ScheduleStep, WorkerStep, Threads

\* The channel: only Push adds to it, and a job it adds was in no map entry;
\* only a receive takes from it, and remembers what it took.
LEMMA StepQueue == IInv /\ [Next]_vars => OfferedOnce' /\ Accounted'
<1> SUFFICES ASSUME IInv, [Next]_vars PROVE OfferedOnce' /\ Accounted'
  OBVIOUS
<1> USE DEF IInv, OfferedOnce, Accounted
<1>1. ASSUME NEW t \in Threads, Push(t)
      PROVE  OfferedOnce' /\ Accounted'
  <2>1. arg[t] \in Jobs /\ arg[t] \notin jobs /\ queue \in Seq(Jobs)
    BY <1>1 DEF Push, PushHoldsLock, TypeOK
  <2>2. /\ Range(queue') = Range(queue) \cup {arg[t]}
        /\ IsInjective(queue')
    BY <1>1, <2>1, AppendOnce DEF Push
  <2> QED BY <1>1, <2>1, <2>2 DEF Push
<1>2. ASSUME NEW w \in Workers, Receive(w)
      PROVE  OfferedOnce' /\ Accounted'
  <2>1. /\ Range(queue) = Range(queue') \cup {Head(queue)}
        /\ IsInjective(queue') /\ Head(queue) \notin Range(queue')
    BY <1>2, TailOnce DEF Receive, TypeOK
  <2> QED BY <1>2, <2>1 DEF Receive, jobVars
<1>3. ASSUME NEW w \in Workers, CompleteSettle(w)
      PROVE  OfferedOnce' /\ Accounted'
  BY <1>3 DEF CompleteSettle
<1>4. ASSUME UNCHANGED <<queue, handed, jobs, finished>>
      PROVE  OfferedOnce' /\ Accounted'
  BY <1>4
<1>5. \/ \E t \in Threads : Push(t)
      \/ \E w \in Workers : Receive(w) \/ CompleteSettle(w)
      \/ UNCHANGED <<queue, handed, jobs, finished>>
  BY DEF Next, ScheduleStep, WorkerStep, Threads, vars, jobVars, ScheduleEnter,
         ScheduleKnown, ScheduleNew, CompleteEnter, CompleteRecord, PickEnter,
         TryPickEnter, TryPickNothing, PickCancel, Stop
<1> QED BY <1>1, <1>2, <1>3, <1>4, <1>5

\* The artifact lists: the report that closes Finished goes on to the list.
LEMMA StepRecord == IInv /\ [Next]_vars => RecordOnTheWay'
<1> SUFFICES ASSUME IInv, [Next]_vars PROVE RecordOnTheWay'
  OBVIOUS
<1> USE DEF IInv, RecordOnTheWay
<1>1. ASSUME NEW w \in Workers, CompleteSettle(w)
      PROVE  RecordOnTheWay'
  BY <1>1 DEF CompleteSettle, TypeOK, Threads
<1>2. ASSUME NEW w \in Workers, CompleteRecord(w)
      PROVE  RecordOnTheWay'
  <2>1. arg[w] \in Jobs
    BY <1>2 DEF CompleteRecord, ArgIsJob, Threads
  <2>2. WithWorker(artifacts[arg[w]], w) # << >>
    BY <2>1, WithWorkerBounded DEF TypeOK
  <2>3. \A j \in Jobs : artifacts'[j] = << >> => j # arg[w] /\ artifacts[j] = << >>
    BY <1>2, <2>1, <2>2 DEF CompleteRecord, TypeOK
  <2>4. \A v \in Workers : v # w => at'[v] = at[v] /\ arg'[v] = arg[v]
    BY <1>2 DEF CompleteRecord, Return, TypeOK, Threads
  <2>5. ASSUME NEW j \in finished, artifacts'[j] = << >>
        PROVE  \E v \in Workers : v # w /\ at[v] = "record" /\ arg[v] = j
    <3>1. j \in Jobs /\ j # arg[w] /\ artifacts[j] = << >>
      BY <2>3, <2>5 DEF TypeOK
    <3> QED BY <3>1
  <2>6. finished' = finished
    BY <1>2 DEF CompleteRecord, jobVars
  <2> QED BY <2>4, <2>5, <2>6
<1>3. ASSUME UNCHANGED <<finished, artifacts>>,
             \A v \in Workers : at[v] = "record" => at'[v] = at[v] /\ arg'[v] = arg[v]
      PROVE  RecordOnTheWay'
  BY <1>3
<1>4. \/ \E w \in Workers : CompleteSettle(w) \/ CompleteRecord(w)
      \/ /\ UNCHANGED <<finished, artifacts>>
         /\ \A v \in Workers : at[v] = "record" => at'[v] = at[v] /\ arg'[v] = arg[v]
  BY DEF Next, ScheduleStep, WorkerStep, Threads, vars, jobVars, callVars, TypeOK,
         Return, ScheduleEnter, ScheduleKnown, ScheduleNew, Push, CompleteEnter,
         PickEnter, TryPickEnter, Receive, TryPickNothing, PickCancel, Stop
<1> QED BY <1>1, <1>2, <1>3, <1>4

\* For any jobs, builds and workers: types, the lock discipline of a send, no
\* job offered twice, a map that accounts for every job, and no finished job
\* that stays unlocatable without a report on its way.
THEOREM Invariance == Spec => []IInv
<1>1. Init => IInv
  BY InitIInv
<1>2. IInv /\ [Next]_vars => IInv'
  BY StepTypes, StepLock, StepQueue, StepRecord DEF IInv
<1> QED BY <1>1, <1>2, PTL DEF Spec

\* What the runs check of the small instances, for all of them.
THEOREM TypeCorrect == Spec => []TypeOK
BY Invariance, PTL DEF IInv

THEOREM SendHoldsLock == Spec => []PushHoldsLock
BY Invariance, PTL DEF IInv

\* No two PickJob calls return the same job.
THEOREM OfferedAtMostOnce == Spec => []OfferedOnce
BY Invariance, PTL DEF IInv

\* No job disappears from the scheduler's books.
THEOREM EveryJobAccounted == Spec => []Accounted
BY Invariance, PTL DEF IInv

\* The window in which LocateArtifact knows less than the Finished channels
\* is bounded by one report that is still running.
THEOREM LocatableSoon == Spec => []RecordOnTheWay
BY Invariance, PTL DEF IInv

-----------------------------------------------------------------------------
(* Steps                                                                   *)

\* A step either settles one open job or leaves every outcome alone.
LEMMA StepOutcome ==
    ASSUME IInv, [Next]_vars
    PROVE  \/ UNCHANGED <<finished, result>>
           \/ \E j \in Jobs, r \in Outcomes \cup {Nil} :
                  /\ finished' = finished \cup {j}
                  /\ result' = IF j \in finished THEN result ELSE [result EXCEPT ![j] = r]
<1>1. ASSUME NEW w \in Workers, CompleteSettle(w)
      PROVE  \E j \in Jobs, r \in Outcomes \cup {Nil} :
                  /\ finished' = finished \cup {j}
                  /\ result' = IF j \in finished THEN result ELSE [result EXCEPT ![j] = r]
  <2>1. arg[w] \in Jobs /\ res[w] \in Outcomes \cup {Nil}
    BY <1>1 DEF IInv, TypeOK, ArgIsJob, CompleteSettle, Threads
  <2> QED BY <1>1, <2>1 DEF CompleteSettle
<1>2. (\E w \in Workers : CompleteSettle(w)) \/ UNCHANGED <<finished, result>>
  BY DEF Next, ScheduleStep, WorkerStep, vars, jobVars, ScheduleEnter, ScheduleKnown,
         ScheduleNew, Push, CompleteEnter, CompleteRecord, PickEnter, TryPickEnter,
         Receive, TryPickNothing, PickCancel, Stop
<1> QED BY <1>1, <1>2

\* Whoever reports a job later, the result behind Finished stays the first.
THEOREM FirstReportDecides == Spec => FirstResultWins
<1>1. IInv /\ [Next]_vars =>
          [\A j \in finished : j \in finished' /\ result'[j] = result[j]]_vars
  <2> SUFFICES ASSUME IInv, [Next]_vars
               PROVE  \A j \in finished : j \in finished' /\ result'[j] = result[j]
    OBVIOUS
  <2>1. CASE UNCHANGED <<finished, result>>
    BY <2>1
  <2>2. ASSUME NEW k \in Jobs, NEW r \in Outcomes \cup {Nil},
               finished' = finished \cup {k},
               result' = IF k \in finished THEN result ELSE [result EXCEPT ![k] = r]
        PROVE  \A j \in finished : j \in finished' /\ result'[j] = result[j]
    BY <2>2 DEF IInv, TypeOK
  <2> QED BY <2>1, <2>2, StepOutcome
<1> QED BY <1>1, Invariance, PTL DEF Spec, FirstResultWins

-----------------------------------------------------------------------------
(* The scheduler implements JobTable                                       *)

\* A new scheduler is an empty table.
LEMMA InitTable == Init => Table!Init
BY DEF Init, Table!Init, phaseOf, outcomeOf, Range

\* A step that leaves the channel, the received jobs and the outcomes alone is
\* a stutter of the table.
LEMMA StutterTable ==
    ASSUME UNCHANGED <<queue, handed, finished, result>>
    PROVE  UNCHANGED Table!vars
BY DEF Table!vars, phaseOf, outcomeOf, Range

\* Every call, step by step, is an offer, a take, a settlement or a stutter.
LEMMA StepTable == IInv /\ [Next]_vars => [Table!Next]_(Table!vars)
<1> SUFFICES ASSUME IInv, [Next]_vars PROVE [Table!Next]_(Table!vars)
  OBVIOUS
<1> USE DEF IInv
<1>1. ASSUME NEW t \in Threads, Push(t)
      PROVE  Table!Next
  <2> DEFINE j == arg[t]
  <2>1. j \in Jobs /\ j \notin jobs /\ queue \in Seq(Jobs)
    BY <1>1 DEF Push, PushHoldsLock, TypeOK
  <2>2. Range(queue') = Range(queue) \cup {j}
    BY <1>1, <2>1, AppendOnce DEF Push
  <2>3. j \notin Range(queue) /\ j \notin handed /\ j \notin finished
    BY <2>1 DEF Accounted
  <2>4. UNCHANGED <<handed, finished, result>>
    BY <1>1 DEF Push
  <2>5. phaseOf[j] = "absent" /\ outcomeOf[j] = Open
    BY <2>1, <2>3 DEF phaseOf, outcomeOf
  <2>6. phaseOf' = [phaseOf EXCEPT ![j] = "offered"]
    BY <2>1, <2>2, <2>3, <2>4 DEF phaseOf
  <2>7. outcomeOf' = outcomeOf
    BY <2>4 DEF outcomeOf
  <2> QED BY <2>1, <2>5, <2>6, <2>7 DEF Table!Next, Table!Offer
<1>2. ASSUME NEW w \in Workers, Receive(w)
      PROVE  Table!Next
  <2> DEFINE j == Head(queue)
  <2>1. /\ j \in Jobs /\ j \in Range(queue)
        /\ Range(queue) = Range(queue') \cup {j} /\ j \notin Range(queue')
    BY <1>2, TailOnce DEF Receive, TypeOK, OfferedOnce
  <2>2. handed' = handed \cup {j} /\ UNCHANGED <<finished, result>>
    BY <1>2 DEF Receive, jobVars
  <2>3. phaseOf[j] = "offered"
    BY <2>1 DEF phaseOf
  <2>4. phaseOf' = [phaseOf EXCEPT ![j] = "taken"]
    BY <2>1, <2>2 DEF phaseOf
  <2>5. outcomeOf' = outcomeOf
    BY <2>2 DEF outcomeOf
  <2> QED BY <2>1, <2>3, <2>4, <2>5 DEF Table!Next, Table!Take
<1>3. ASSUME NEW w \in Workers, CompleteSettle(w)
      PROVE  [Table!Next]_(Table!vars)
  <2> DEFINE j == arg[w]
             r == res[w]
  <2>1. j \in Jobs /\ r \in Outcomes \cup {Nil}
    BY <1>3 DEF CompleteSettle, TypeOK, ArgIsJob, Threads
  <2>2. UNCHANGED <<queue, handed>> /\ finished' = finished \cup {j}
    BY <1>3 DEF CompleteSettle
  <2>3. phaseOf' = phaseOf
    BY <2>2 DEF phaseOf, Range
  <2>4. CASE j \in finished
    BY <1>3, <2>2, <2>4, StutterTable DEF CompleteSettle
  <2>5. CASE j \notin finished
    <3>1. result' = [result EXCEPT ![j] = r]
      BY <1>3, <2>5 DEF CompleteSettle
    <3>2. outcomeOf' = [outcomeOf EXCEPT ![j] = r] /\ outcomeOf[j] = Open
      BY <2>1, <2>2, <2>5, <3>1 DEF outcomeOf, TypeOK
    <3> QED BY <2>1, <2>3, <3>2 DEF Table!Next, Table!Settle
  <2> QED BY <2>4, <2>5
<1>4. \/ \E t \in Threads : Push(t)
      \/ \E w \in Workers : Receive(w) \/ CompleteSettle(w)
      \/ UNCHANGED <<queue, handed, finished, result>>
  BY DEF Next, ScheduleStep, WorkerStep, Threads, vars, jobVars, ScheduleEnter,
         ScheduleKnown, ScheduleNew, CompleteEnter, CompleteRecord, PickEnter,
         TryPickEnter, TryPickNothing, PickCancel, Stop
<1> QED BY <1>1, <1>2, <1>3, <1>4, StutterTable

\* The mutexes, the channel and the two critical sections of OnJobComplete
\* together behave as the table: offered once, taken once, settled once.
THEOREM SchedulerImplementsJobTable == Spec => ImplementsJobTable
<1>1. Init => Table!Init
  BY InitTable
<1>2. IInv /\ [Next]_vars => [Table!Next]_(Table!vars)
  BY StepTable
<1> QED BY <1>1, <1>2, Invariance, PTL DEF Spec, ImplementsJobTable, Table!Spec
=============================================================================
