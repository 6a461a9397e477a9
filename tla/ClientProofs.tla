---------------------------- MODULE ClientProofs ----------------------------
(***************************************************************************)
(* Proofs about Client.Build for any number of missing files, jobs and     *)
(* places in the status stream.                                            *)
(*                                                                         *)
(* Build counts answers of uploads and not uploads, and a failed upload    *)
(* answers twice.  As many answers without an error as there are files     *)
(* still means that each file is stored: until Build has seen an error,    *)
(* the answers it has received and those before the first error in the     *)
(* channel come from as many goroutines that are over and stored their     *)
(* file, because a failed one sends its error before its nil.  And the     *)
(* listener hears of every job once because a job is unsent, lost, in the  *)
(* stream or heard, and only one of these.  Every job has finished when    *)
(* Build returns nil, because only the end of the stream lets it return,   *)
(* and BuildFinished is sent when the counter is that of all jobs; so all  *)
(* were scheduled, each after its dependencies, and none is unknown.       *)
(***************************************************************************)
EXTENDS Client, TopSortProofs, FiniteSetTheorems

Answers  == {"nil", "error"}
UpPlaces == {"off", "put", "tell nil", "tell error", "ended"}

\* The uploads that are over and stored their file.
Good == {f \in stored : up[f] = "ended"}

\* The next n answers are not errors.
Nils(n) == \A i \in 1..n : errs[i] = "nil"

UploadTypes == /\ up \in [Files -> UpPlaces]
               /\ stored \subseteq Files
               /\ errs \in Seq(Answers)
               /\ got \in Nat

\* Uploads that are not reported yet have not begun; each answer that Build
\* received, or will receive before an error, is that of a stored file; while
\* Build has seen no error, that of a failed upload is in the channel.
Counted == /\ \A f \in Files \ checked : up[f] = "off"
           /\ \A n \in 0..Len(errs) : Nils(n) => got + n <= Cardinality(Good)
           /\ \A f \in Files \ stored :
                 up[f] \in {"tell nil", "ended"} => \E i \in 1..Len(errs) : errs[i] = "error"

Uploads == /\ UploadTypes
           /\ pc # "error" => Counted
           /\ signal # "no" => stored = Files

\* The upload of f may change, and nothing else of what Uploads is about.
LEMMA SameUploads ==
    ASSUME Uploads, UNCHANGED <<checked, up, stored, errs, got>>,
           pc' # "error" => pc # "error",
           signal' # "no" => signal # "no"
    PROVE  Uploads'
<1>1. UploadTypes'
  BY DEF Uploads, UploadTypes
<1>2. Good' = Good /\ \A n : Nils(n)' = Nils(n)
  BY DEF Good, Nils
<1>3. Counted => Counted'
  BY <1>2 DEF Counted
<1> QED BY <1>1, <1>3 DEF Uploads

LEMMA GoodFinite ==
    ASSUME Uploads
    PROVE  /\ Good \subseteq Files /\ IsFiniteSet(Good)
           /\ Cardinality(Good) \in Nat /\ Cardinality(Files) \in Nat
           /\ \A f \in Files \ Good : Cardinality(Good \cup {f}) = Cardinality(Good) + 1
           /\ Cardinality(Good) >= Cardinality(Files) => Good = Files
<1>1. Good \subseteq Files
  BY DEF Uploads, UploadTypes, Good
<1>2. IsFiniteSet(Files) /\ IsFiniteSet(Good)
  BY <1>1, FilesAssumption, FS_Subset
<1>3. Cardinality(Good) \in Nat /\ Cardinality(Files) \in Nat
  BY <1>2, FS_CardinalityType
<1>4. \A f \in Files \ Good : Cardinality(Good \cup {f}) = Cardinality(Good) + 1
  BY <1>2, FS_AddElement
<1>5. Cardinality(Good) >= Cardinality(Files) => Good = Files
  BY <1>1, <1>2, <1>3, FS_Subset
<1> QED BY <1>1, <1>2, <1>3, <1>4, <1>5

\* A goroutine begins, or its PUT is answered.
LEMMA UploadKeeps ==
    ASSUME Uploads, NEW f \in Files,
           \/ CheckFile(f)
           \/ Upload(f)
    PROVE  Uploads'
<1>1. /\ up \in [Files -> UpPlaces]
      /\ stored \subseteq Files
  BY DEF Uploads, UploadTypes
<1>2. CASE CheckFile(f) /\ pc' = "error"
  <2>1. UNCHANGED <<stored, errs, got, signal, up>>
    BY <1>2 DEF CheckFile, Return, netVars
  <2> QED BY <1>2, <2>1 DEF Uploads, UploadTypes
<1>3. CASE CheckFile(f) /\ pc' # "error"
  <2>1. /\ pc = "upload" /\ f \in Files \ checked /\ pc' = pc
        /\ checked' = checked \cup {f} /\ up' = [up EXCEPT ![f] = "put"]
        /\ UNCHANGED <<stored, errs, got, signal>>
    BY <1>3 DEF CheckFile, Return, netVars
  <2>2. Counted /\ up[f] = "off"
    BY <2>1 DEF Uploads, Counted
  <2>3. Good' = Good /\ \A n : Nils(n)' = Nils(n)
    BY <1>1, <2>1, <2>2 DEF Good, Nils
  <2>4. Counted'
    BY <1>1, <2>1, <2>2, <2>3 DEF Counted
  <2> QED BY <1>1, <2>1, <2>4 DEF Uploads, UploadTypes, UpPlaces
<1>4. CASE Upload(f)
  <2>1. /\ up[f] = "put"
        /\ \/ up' = [up EXCEPT ![f] = "tell nil"] /\ stored' = stored \cup {f}
           \/ up' = [up EXCEPT ![f] = "tell error"] /\ UNCHANGED stored
        /\ UNCHANGED <<pc, checked, errs, got, signal>>
    BY <1>4 DEF Upload, netVars
  <2>2. Good' = Good /\ \A n : Nils(n)' = Nils(n)
    BY <1>1, <2>1 DEF Good, Nils
  <2>3. Counted => Counted'
    BY <1>1, <2>1, <2>2 DEF Counted
  <2>4. signal # "no" => stored' = Files
    BY <1>1, <2>1 DEF Uploads
  <2>5. UploadTypes'
    BY <1>1, <2>1 DEF Uploads, UploadTypes, UpPlaces
  <2> QED BY <2>1, <2>3, <2>4, <2>5 DEF Uploads
<1> QED BY <1>2, <1>3, <1>4

\* An answer is put into the channel.
LEMMA TellKeeps ==
    ASSUME Uploads, NEW f \in Files, Tell(f)
    PROVE  Uploads'
<1>1. /\ up \in [Files -> UpPlaces]
      /\ stored \subseteq Files /\ errs \in Seq(Answers) /\ got \in Nat
  BY DEF Uploads, UploadTypes
<1>2. UNCHANGED <<pc, checked, stored, got, signal>>
  BY DEF Tell, netVars
<1>3. PICK e \in Answers :
         /\ errs' = Append(errs, e)
         /\ e \in {"nil", "error"}
         /\ e = "error" => up[f] = "tell error" /\ up' = [up EXCEPT ![f] = "tell nil"]
         /\ e = "nil" => up[f] = "tell nil" /\ up' = [up EXCEPT ![f] = "ended"]
  BY DEF Tell, Answers
<1>4. /\ errs' \in Seq(Answers) /\ Len(errs') = Len(errs) + 1
      /\ \A i \in 1..Len(errs) : errs'[i] = errs[i]
      /\ errs'[Len(errs) + 1] = e
      /\ Len(errs) \in Nat
  <2>1. errs \in Seq(Answers) /\ e \in Answers /\ errs' = Append(errs, e)
    BY <1>1, <1>3
  <2> QED BY <2>1, AppendFacts
<1>5. UploadTypes'
  BY <1>1, <1>2, <1>3, <1>4 DEF UploadTypes, UpPlaces
<1>6. ASSUME Counted
      PROVE  Counted'
  <2>1. \A n \in 0..Len(errs) : Nils(n)' => Nils(n)
    BY <1>4 DEF Nils
  <2>2. (\E i \in 1..Len(errs) : errs[i] = "error") \/ e = "error" =>
           \E i \in 1..Len(errs') : errs'[i] = "error"
    BY <1>4
  <2>3. \A g \in Files \ checked : up'[g] = "off"
    BY <1>1, <1>3, <1>6 DEF Counted
  <2>4. ASSUME NEW g \in Files \ stored, up'[g] \in {"tell nil", "ended"}
        PROVE  \E i \in 1..Len(errs') : errs'[i] = "error"
    <3>1. up[g] \in {"tell nil", "ended"} \/ e = "error"
      BY <1>1, <1>3, <2>4
    <3> QED BY <1>6, <2>2, <3>1 DEF Counted
  <2>5. ASSUME NEW n \in 0..Len(errs'), Nils(n)'
        PROVE  got + n <= Cardinality(Good')
    <3>1. IF e = "nil" /\ f \in stored THEN Good' = Good \cup {f} /\ f \notin Good
                                       ELSE Good' = Good
      BY <1>1, <1>2, <1>3 DEF Good
    <3>2. /\ Cardinality(Good) \in Nat
          /\ e = "nil" /\ f \in stored => Cardinality(Good') = Cardinality(Good) + 1
          /\ ~(e = "nil" /\ f \in stored) => Cardinality(Good') = Cardinality(Good)
      BY <1>1, <3>1, GoodFinite
    <3> n \in Nat /\ Len(errs) \in Nat
      BY <1>4
    <3>3. CASE n <= Len(errs)
      <4>1. n \in 0..Len(errs) /\ Nils(n)
        BY <1>4, <2>1, <2>5, <3>3
      <4>2. got + n <= Cardinality(Good)
        BY <1>6, <4>1 DEF Counted
      <4> QED BY <1>1, <3>2, <4>2
    <3>4. CASE n = Len(errs) + 1
      <4>1. e = "nil" /\ Nils(Len(errs))
        BY <1>4, <2>1, <2>5, <3>4 DEF Nils
      <4>2. f \in stored
        BY <1>3, <1>6, <4>1 DEF Counted, Nils
      <4>3. Len(errs) \in 0..Len(errs)
        OBVIOUS
      <4>4. got + Len(errs) <= Cardinality(Good)
        BY <1>6, <4>1, <4>3 DEF Counted
      <4> QED BY <1>1, <1>4, <3>2, <3>4, <4>1, <4>2, <4>4
    <3> QED BY <1>4, <3>3, <3>4
  <2> QED BY <1>2, <2>3, <2>4, <2>5 DEF Counted
<1> QED BY <1>2, <1>5, <1>6 DEF Uploads

\* An answer is taken out of the channel.
LEMMA CollectKeeps ==
    ASSUME Uploads, Collect
    PROVE  Uploads'
<1>1. /\ errs \in Seq(Answers) /\ got \in Nat /\ errs # << >>
      /\ errs' = Tail(errs) /\ got' = got + 1
      /\ UNCHANGED <<checked, up, stored, signal>>
      /\ pc' = IF Head(errs) = "error" THEN "error" ELSE pc
  BY DEF Collect, Return, Uploads, UploadTypes, netVars
<1>2. /\ errs' \in Seq(Answers) /\ Len(errs') = Len(errs) - 1
      /\ \A i \in 1..Len(errs') : errs'[i] = errs[i + 1]
      /\ Len(errs) \in Nat \ {0} /\ Head(errs) = errs[1]
  BY <1>1
<1>3. UploadTypes'
  BY <1>1, <1>2 DEF Uploads, UploadTypes
<1>4. ASSUME pc' # "error"
      PROVE  Counted'
  <2>1. errs[1] = "nil" /\ Counted
    <3>1. errs[1] \in Answers /\ errs[1] # "error" /\ pc # "error"
      BY <1>1, <1>2, <1>4
    <3> QED BY <3>1 DEF Uploads, Answers
  <2>2. Good' = Good
    BY <1>1 DEF Good
  <2>3. ASSUME NEW n \in 0..Len(errs'), Nils(n)'
        PROVE  got' + n <= Cardinality(Good')
    <3>1. n + 1 \in 0..Len(errs)
      BY <1>2
    <3>2. ASSUME NEW i \in 1..(n + 1)
          PROVE  errs[i] = "nil"
      <4>1. CASE i # 1
        <5>1. i - 1 \in 1..n /\ i - 1 \in 1..Len(errs') /\ (i - 1) + 1 = i
          BY <1>2, <4>1
        <5> QED BY <1>2, <2>3, <5>1 DEF Nils
      <4> QED BY <2>1, <4>1
    <3>3. got + (n + 1) <= Cardinality(Good)
      BY <2>1, <3>1, <3>2 DEF Counted, Nils
    <3> QED BY <1>1, <2>2, <3>3, GoodFinite
  <2>4. ASSUME NEW f \in Files \ stored, up[f] \in {"tell nil", "ended"}
        PROVE  \E i \in 1..Len(errs') : errs'[i] = "error"
    <3>1. PICK i \in 1..Len(errs) : errs[i] = "error"
      BY <2>1, <2>4 DEF Counted
    <3>2. i - 1 \in 1..Len(errs') /\ (i - 1) + 1 = i
      BY <1>2, <2>1, <3>1
    <3> QED BY <1>2, <3>1, <3>2
  <2> QED BY <1>1, <2>1, <2>3, <2>4 DEF Counted
<1> QED BY <1>1, <1>3, <1>4 DEF Uploads

LEMMA InitUploads == ClientInit => Uploads
<1> SUFFICES ASSUME ClientInit PROVE Uploads
  OBVIOUS
<1>1. stored = {} /\ errs = << >> /\ got = 0 /\ up = [f \in Files |-> "off"] /\ signal = "no"
  BY DEF ClientInit
<1>2. UploadTypes
  BY <1>1 DEF UploadTypes, UpPlaces
<1>3. Good = {} /\ Cardinality(Good) = 0
  BY <1>1, FS_EmptySet DEF Good
<1>4. Counted
  BY <1>1, <1>3 DEF Counted
<1> QED BY <1>1, <1>2, <1>4 DEF Uploads

\* Every step keeps the count; with as many answers as files, all are stored.
LEMMA StepUploads == Uploads /\ [ClientNext]_clientVars => Uploads'
<1> SUFFICES ASSUME Uploads, [ClientNext]_clientVars PROVE Uploads'
  OBVIOUS
<1>1. CASE \E f \in Files : CheckFile(f) \/ Upload(f) \/ Tell(f)
  BY <1>1, UploadKeeps, TellKeeps
<1>2. CASE Collect
  BY <1>2, CollectKeeps
<1>3. CASE SignalBuild
  <2>1. /\ pc = "collect" /\ got = Cardinality(Files) /\ pc' = "signal"
        /\ UNCHANGED <<checked, up, stored, errs, got>>
    BY <1>3 DEF SignalBuild, upVars
  <2>2. Counted /\ UploadTypes
    BY <2>1 DEF Uploads
  <2>3. got \in Nat /\ Len(errs) \in Nat
    BY <2>2 DEF UploadTypes
  <2>3a. 0 \in 0..Len(errs) /\ Nils(0) /\ got + 0 = got
    BY <2>3 DEF Nils
  <2>4. got <= Cardinality(Good)
    BY <2>2, <2>3a DEF Counted
  <2>5. stored = Files
    BY <2>1, <2>2, <2>4, GoodFinite DEF Good, UploadTypes
  <2>6. Good' = Good /\ \A n : Nils(n)' = Nils(n)
    BY <2>1 DEF Good, Nils
  <2>7. Counted' /\ UploadTypes'
    BY <2>1, <2>2, <2>6 DEF Counted, UploadTypes
  <2> QED BY <2>1, <2>5, <2>7 DEF Uploads
<1>4. CASE \/ StartBuild \/ AllChecked \/ SignalAnswered \/ listenBuild \/ ListenEOF \/ BreakOff
  <2>1. UNCHANGED <<checked, up, stored, errs, got, signal>> /\ pc # "error"
    BY <1>4 DEF StartBuild, AllChecked, SignalAnswered, listenBuild, ListenEOF, BreakOff,
       upVars, netVars
  <2> QED BY <2>1, SameUploads
<1>5. CASE \/ ServerStep \/ ScheduleJob \/ DepFails \/ \E j \in DOMAIN deps : JobFinishes(j)
  <2>1. UNCHANGED <<pc, checked, up, stored, errs, got>> /\ (signal' # "no" => signal # "no")
    BY <1>5 DEF ServerStep, Sort, StreamEnds, SignalReturns, Updated, GiveUp, DepUnknown,
       DepFails, SignalError, Signalling, ScheduleJob, JobFinishes, upVars, netVars
  <2> QED BY <2>1, SameUploads
<1>6. CASE UNCHANGED clientVars
  BY <1>6, SameUploads DEF clientVars, upVars, netVars
<1> QED BY <1>1, <1>2, <1>3, <1>4, <1>5, <1>6 DEF ClientNext, BuildStep, Chance

-----------------------------------------------------------------------------
(* The updates.                                                            *)

Updates == [job : DOMAIN deps, last : BOOLEAN]

UpdateTypes == /\ heard \in Seq(DOMAIN deps) /\ stream \in Seq(Updates)
               /\ unsent \subseteq DOMAIN deps /\ lost \subseteq DOMAIN deps

InStream == {stream[i].job : i \in 1..Len(stream)}

\* A job has been heard of, is in the stream, is lost or is unsent, and only
\* one of these.
Once == /\ IsInjective(heard)
        /\ \A h, i \in 1..Len(stream) : stream[h].job = stream[i].job => h = i
        /\ Range(heard) \cap InStream = {}
        /\ (Range(heard) \cup InStream) \cap (unsent \cup lost) = {}
        /\ unsent \cap lost = {}

\* None is forgotten, unless a callback of the listener returned an error.
NoneForgotten == pc # "error" =>
    DOMAIN deps = Range(heard) \cup InStream \cup unsent \cup lost

\* The signal is answered without an error when no watcher has to write, and
\* only then does Build listen, to the end of the stream.
Read == /\ signal = "ok" => unsent = {}
        /\ pc \in {"listen", "nil"} => signal = "ok"
        /\ pc = "nil" => stream = << >>

Hears == UpdateTypes /\ Once /\ NoneForgotten /\ Read

LEMMA DepsKept == [ClientNext]_clientVars => deps' = deps
BY DEF ClientNext, BuildStep, ServerStep, StartBuild, CheckFile, AllChecked, Collect,
   SignalBuild, SignalAnswered, listenBuild, ListenEOF, Upload, Tell, Sort, SortNext,
   VisitNext, VisitDep, VisitReturn, Updated, StreamEnds, SignalReturns, GiveUp, DepUnknown,
   DepFails, SignalError, ScheduleJob, JobFinishes, BreakOff, Chance, sortVars, clientVars

\* A step that leaves the updates alone.
LEMMA SameUpdates ==
    ASSUME Hears, deps' = deps, UNCHANGED <<unsent, stream, lost, heard>>,
           pc' # "error" => pc # "error",
           signal' = "ok" => signal = "ok" \/ unsent = {},
           pc' \in {"listen", "nil"} => signal' = "ok",
           pc' = "nil" => pc = "nil" \/ stream = << >>
    PROVE  Hears'
<1>1. UpdateTypes' /\ InStream' = InStream
  BY DEF Hears, UpdateTypes, Updates, InStream
<1>2. Once' /\ NoneForgotten'
  BY <1>1 DEF Hears, Once, NoneForgotten
<1>3. Read'
  BY DEF Hears, Read
<1> QED BY <1>1, <1>2, <1>3 DEF Hears

\* The client takes an update out of the stream.
LEMMA ListenKeeps ==
    ASSUME Hears, deps' = deps, listenBuild
    PROVE  Hears'
<1> DEFINE j == stream[1].job
<1>1. /\ heard \in Seq(DOMAIN deps) /\ stream \in Seq(Updates) /\ stream # << >>
      /\ stream' = Tail(stream) /\ pc = "listen"
      /\ UNCHANGED <<unsent, lost, signal>>
      /\ \/ heard' = Append(heard, j) /\ pc' = pc
         \/ pc' = "error" /\ heard' = heard
  BY DEF listenBuild, Return, Hears, UpdateTypes
<1>2. /\ stream' \in Seq(Updates) /\ Len(stream') = Len(stream) - 1
      /\ \A i \in 1..Len(stream') : stream'[i] = stream[i + 1]
      /\ Len(stream) \in Nat \ {0} /\ stream[1] \in Updates
  BY <1>1
<1>3. j \in DOMAIN deps /\ j \in InStream /\ j \notin Range(heard) /\ j \notin unsent \cup lost
  <2>1. j \in DOMAIN deps /\ 1 \in 1..Len(stream)
    BY <1>2 DEF Updates
  <2>2. j \in InStream
    BY <2>1 DEF InStream
  <2> QED BY <2>1, <2>2 DEF Hears, Once
<1>4. InStream' = InStream \ {j}
  <2>1. ASSUME NEW i \in 1..Len(stream')
        PROVE  stream'[i].job \in InStream \ {j}
    <3>1. i + 1 \in 1..Len(stream) /\ 1 \in 1..Len(stream) /\ i + 1 # 1
      BY <1>2
    <3>2. stream'[i].job = stream[i + 1].job
      BY <1>2
    <3> QED BY <3>1, <3>2 DEF InStream, Hears, Once
  <2>2. ASSUME NEW x \in InStream \ {j}
        PROVE  x \in InStream'
    <3>1. PICK i \in 1..Len(stream) : x = stream[i].job
      BY <2>2 DEF InStream
    <3>2. i - 1 \in 1..Len(stream') /\ (i - 1) + 1 = i
      BY <1>2, <2>2, <3>1
    <3>3. stream'[i - 1] = stream[i]
      BY <1>2, <3>2
    <3> QED BY <3>1, <3>2, <3>3 DEF InStream
  <2> QED BY <2>1, <2>2 DEF InStream
<1>5. ASSUME NEW h \in 1..Len(stream'), NEW i \in 1..Len(stream'),
             stream'[h].job = stream'[i].job
      PROVE  h = i
  <2>1. /\ h + 1 \in 1..Len(stream) /\ i + 1 \in 1..Len(stream)
        /\ stream[h + 1].job = stream[i + 1].job
    BY <1>2, <1>5
  <2>2. h + 1 = i + 1
    BY <2>1 DEF Hears, Once
  <2> QED BY <2>2
<1>6. Read'
  <2>1. stream # << >> /\ pc' # "nil"
    BY <1>1
  <2> QED BY <1>1, <2>1 DEF Hears, Read
<1>7. CASE heard' = Append(heard, j) /\ pc' = pc
  <2>1. /\ heard' \in Seq(DOMAIN deps) /\ Len(heard') = Len(heard) + 1
        /\ DOMAIN heard' = 1..(Len(heard) + 1)
        /\ \A i \in 1..Len(heard) : heard'[i] = heard[i]
        /\ heard'[Len(heard) + 1] = j
        /\ Range(heard') = Range(heard) \cup {j}
    BY <1>1, <1>3, <1>7, AppendFacts
  <2>2. DOMAIN heard = 1..Len(heard) /\ Len(heard) \in Nat
    BY <1>1
  <2>3. \A i \in 1..Len(heard) : heard[i] # j
    BY <1>3, <2>2 DEF Range
  <2>4. IsInjective(heard)
    BY DEF Hears, Once
  <2>5. IsInjective(heard')
    BY <2>1, <2>2, <2>3, <2>4 DEF IsInjective
  <2>6. Once'
    BY <1>1, <1>3, <1>4, <1>5, <2>1, <2>5 DEF Hears, Once
  <2>7. NoneForgotten'
    BY <1>1, <1>3, <1>4, <1>7, <2>1 DEF Hears, NoneForgotten
  <2>8. UpdateTypes'
    BY <1>1, <1>2, <2>1 DEF Hears, UpdateTypes, Updates
  <2> QED BY <1>6, <2>6, <2>7, <2>8 DEF Hears
<1>8. CASE pc' = "error" /\ heard' = heard
  <2>1. Once'
    BY <1>1, <1>4, <1>5, <1>8 DEF Hears, Once
  <2>2. UpdateTypes'
    BY <1>1, <1>2, <1>8 DEF Hears, UpdateTypes, Updates
  <2> QED BY <1>6, <1>8, <2>1, <2>2 DEF Hears, NoneForgotten
<1> QED BY <1>1, <1>7, <1>8

\* A watcher writes its update, in time, too late or in vain, or gives up.
LEMMA UpdatedKeeps ==
    ASSUME Hears, deps' = deps, NEW j \in DOMAIN deps, NEW last \in BOOLEAN,
           Updated(j, last) \/ GiveUp(j)
    PROVE  Hears'
<1>1. /\ heard \in Seq(DOMAIN deps) /\ stream \in Seq(Updates)
      /\ j \in unsent /\ unsent' = unsent \ {j}
      /\ UNCHANGED <<pc, signal, heard>>
      /\ \/ stream' = Append(stream, [job |-> j, last |-> last]) /\ UNCHANGED lost
         \/ lost' = lost \cup {j} /\ UNCHANGED stream
         \/ pc = "error" /\ UNCHANGED <<stream, lost>>
  BY DEF Updated, GiveUp, Hears, UpdateTypes
<1>2. Read'
  BY <1>1 DEF Hears, Read
<1>3. j \notin Range(heard) /\ j \notin InStream /\ j \notin lost
  BY <1>1 DEF Hears, Once
<1>4. CASE stream' = Append(stream, [job |-> j, last |-> last]) /\ UNCHANGED lost
  <2> DEFINE u == [job |-> j, last |-> last]
             n == Len(stream)
  <2>1. u \in Updates /\ u.job = j
    BY DEF Updates
  <2> HIDE DEF u
  <2>2. /\ stream' \in Seq(Updates) /\ Len(stream') = n + 1
        /\ \A i \in 1..n : stream'[i] = stream[i]
        /\ stream'[n + 1] = u
    BY <1>1, <1>4, <2>1, AppendFacts DEF u
  <2>3. n \in Nat
    BY <1>1
  <2>4. InStream' = InStream \cup {j}
    <3>1. \A i \in 1..(n + 1) : i \in 1..n \/ i = n + 1
      BY <2>3
    <3>2. n + 1 \in 1..(n + 1) /\ \A i \in 1..n : i \in 1..(n + 1)
      BY <2>3
    <3> QED BY <2>1, <2>2, <3>1, <3>2 DEF InStream
  <2>5. \A h, i \in 1..Len(stream') : stream'[h].job = stream'[i].job => h = i
    <3>1. \A i \in 1..n : stream'[i].job = stream[i].job /\ stream[i].job # j
      BY <1>3, <2>2 DEF InStream
    <3>2. \A h, i \in 1..n : stream[h].job = stream[i].job => h = i
      BY DEF Hears, Once
    <3>3. \A i \in 1..(n + 1) : i \in 1..n \/ i = n + 1
      BY <2>3
    <3> QED BY <2>1, <2>2, <3>1, <3>2, <3>3
  <2>6. Once'
    BY <1>1, <1>3, <1>4, <2>4, <2>5 DEF Hears, Once
  <2>7. NoneForgotten'
    BY <1>1, <1>4, <2>4 DEF Hears, NoneForgotten
  <2>8. UpdateTypes'
    BY <1>1, <1>4, <2>2 DEF Hears, UpdateTypes, Updates
  <2> QED BY <1>2, <2>6, <2>7, <2>8 DEF Hears
<1>5. CASE lost' = lost \cup {j} /\ UNCHANGED stream
  <2>1. InStream' = InStream
    BY <1>5 DEF InStream
  <2>2. UpdateTypes' /\ Once' /\ NoneForgotten'
    BY <1>1, <1>3, <1>5, <2>1 DEF Hears, UpdateTypes, Updates, Once, NoneForgotten
  <2> QED BY <1>2, <2>2 DEF Hears
<1>6. CASE pc = "error" /\ UNCHANGED <<stream, lost>>
  <2>1. InStream' = InStream
    BY <1>6 DEF InStream
  <2>2. UpdateTypes' /\ Once' /\ NoneForgotten'
    BY <1>1, <1>6, <2>1 DEF Hears, UpdateTypes, Updates, Once, NoneForgotten
  <2> QED BY <1>2, <2>2 DEF Hears
<1> QED BY <1>1, <1>4, <1>5, <1>6

LEMMA InitHears == ClientInit => Hears
<1> SUFFICES ASSUME ClientInit PROVE Hears
  OBVIOUS
<1>1. /\ heard = << >> /\ stream = << >> /\ unsent = DOMAIN deps /\ lost = {}
      /\ pc = "start" /\ signal = "no"
  BY DEF ClientInit
<1>2. UpdateTypes
  BY <1>1 DEF UpdateTypes
<1>3. Range(heard) = {} /\ InStream = {} /\ IsInjective(heard)
  BY <1>1 DEF Range, InStream, IsInjective
<1>4. Len(stream) = 0
  BY <1>1
<1>5. Once
  BY <1>1, <1>3, <1>4 DEF Once
<1>6. NoneForgotten /\ Read
  BY <1>1, <1>3 DEF NoneForgotten, Read
<1> QED BY <1>2, <1>5, <1>6 DEF Hears

LEMMA StepHears == Hears /\ [ClientNext]_clientVars => Hears'
<1> SUFFICES ASSUME Hears, [ClientNext]_clientVars PROVE Hears'
  OBVIOUS
<1>1. deps' = deps
  BY DepsKept
<1>2. CASE listenBuild
  BY <1>1, <1>2, ListenKeeps
<1>3. CASE \E j \in DOMAIN deps, last \in BOOLEAN : Updated(j, last) \/ GiveUp(j)
  BY <1>1, <1>3, UpdatedKeeps
<1>4. CASE \/ StartBuild \/ AllChecked \/ Collect \/ SignalBuild \/ SignalAnswered \/ BreakOff
           \/ \E f \in Files : CheckFile(f) \/ Upload(f) \/ Tell(f)
  <2>1. /\ UNCHANGED <<unsent, stream, lost, heard>>
        /\ pc' # "error" => pc # "error"
        /\ signal' = "ok" => signal = "ok"
        /\ pc' \in {"listen", "nil"} => signal' = "ok"
        /\ pc' = "nil" => pc = "nil"
    BY <1>4 DEF StartBuild, AllChecked, Collect, SignalBuild, SignalAnswered, BreakOff,
       CheckFile, Upload, Tell, Return, netVars, Hears, Read
  <2> QED BY <1>1, <2>1, SameUpdates
<1>5. CASE \/ Sort \/ StreamEnds \/ DepUnknown \/ DepFails \/ ScheduleJob \/ SignalReturns
           \/ \E j \in DOMAIN deps : JobFinishes(j)
  <2>1. /\ UNCHANGED <<unsent, stream, lost, heard, pc>>
        /\ signal' = signal \/ (signal = "asked" /\ (signal' = "ok" => unsent = {}))
    <3>1. CASE DepUnknown \/ DepFails
      BY <3>1 DEF DepUnknown, DepFails, SignalError, Signalling
    <3>2. CASE SignalReturns
      BY <3>2 DEF SignalReturns, Signalling
    <3>3. CASE Sort \/ StreamEnds \/ ScheduleJob \/ \E j \in DOMAIN deps : JobFinishes(j)
      BY <3>3 DEF Sort, StreamEnds, ScheduleJob, JobFinishes, netVars
    <3> QED BY <1>5, <3>1, <3>2, <3>3
  <2> QED BY <1>1, <2>1, SameUpdates DEF Hears, Read
<1>6. CASE ListenEOF
  <2>1. /\ UNCHANGED <<unsent, stream, lost, heard, signal>>
        /\ pc = "listen" /\ pc' = "nil" /\ stream = << >>
    BY <1>6 DEF ListenEOF, Return, netVars
  <2> QED BY <1>1, <2>1, SameUpdates DEF Hears, Read
<1>7. CASE UNCHANGED clientVars
  <2>1. UNCHANGED <<unsent, stream, lost, heard, signal, pc>>
    BY <1>7 DEF clientVars, netVars
  <2> QED BY <1>1, <2>1, SameUpdates DEF Hears, Read
<1> QED BY <1>2, <1>3, <1>4, <1>5, <1>6, <1>7 DEF ClientNext, BuildStep, ServerStep, Chance

-----------------------------------------------------------------------------
(* The jobs.                                                               *)

\* Nothing is scheduled before TopSort is through; what is scheduled has its
\* dependencies finished, what is finished was scheduled, and all of it is when
\* BuildFinished is sent.
Jobs == /\ begun \in 0..Len(sorted)
        /\ begun > 0 => SortDone
        /\ finished \subseteq Pending
        /\ \A i \in 1..begun : Range(deps[sorted[i]]) \subseteq finished
        /\ closing \in {"finished", "closed"} => finished = DOMAIN deps
        /\ pc = "nil" => closing = "closed"

LEMMA SameJobs ==
    ASSUME Jobs, UNCHANGED <<sortVars, jobVars>>,
           closing' \in {"finished", "closed"} =>
               closing \in {"finished", "closed"} \/ finished = DOMAIN deps,
           pc' = "nil" => closing' = "closed"
    PROVE  Jobs'
BY DEF Jobs, SortDone, Pending, sortVars, jobVars

LEMMA StepJobs == SortTypes /\ SortTypes' /\ Jobs /\ [ClientNext]_clientVars => Jobs'
<1> SUFFICES ASSUME SortTypes, SortTypes', Jobs, [ClientNext]_clientVars PROVE Jobs'
  OBVIOUS
<1>1. CASE Sort
  <2>1. ~SortDone /\ UNCHANGED <<begun, finished, closing, pc>>
    BY <1>1 DEF Sort, SortNext, VisitNext, VisitDep, VisitReturn, SortDone, SortTypes,
       netVars, jobVars
  <2>2. deps' = deps
    BY <1>1 DEF Sort, SortNext, VisitNext, VisitDep, VisitReturn
  <2>3. begun = 0 /\ Len(sorted') \in Nat
    BY <2>1 DEF Jobs, SortTypes
  <2>4. Pending = {}
    BY <2>3 DEF Pending
  <2> QED BY <2>1, <2>2, <2>3, <2>4 DEF Jobs, Pending
<1>2. CASE ScheduleJob
  <2>1. /\ SortDone /\ begun < Len(sorted) /\ begun' = begun + 1
        /\ Range(deps[sorted[begun + 1]]) \subseteq finished
        /\ UNCHANGED <<deps, stack, outer, sorted, finished, closing, pc>>
    BY <1>2 DEF ScheduleJob, CanSchedule, Signalling, NextJob, sortVars
  <2>2. begun \in Nat /\ Len(sorted) \in Nat
    BY DEF Jobs, SortTypes
  <2>3. begun' \in 0..Len(sorted') /\ (begun' > 0 => SortDone')
    BY <2>1, <2>2 DEF SortDone
  <2>4. Pending \subseteq Pending'
    BY <2>1, <2>2 DEF Pending
  <2>5. ASSUME NEW i \in 1..begun'
        PROVE  Range(deps[sorted[i]]) \subseteq finished
    <3>1. i \in 1..begun \/ i = begun + 1
      BY <2>1, <2>2
    <3> QED BY <2>1, <3>1 DEF Jobs
  <2> QED BY <2>1, <2>3, <2>4, <2>5 DEF Jobs
<1>3. CASE \E j \in DOMAIN deps : JobFinishes(j)
  <2>1. PICK j \in DOMAIN deps : JobFinishes(j)
    BY <1>3
  <2>2. /\ j \in Pending \ finished /\ finished' = finished \cup {j}
        /\ UNCHANGED <<deps, stack, outer, sorted, begun, closing, pc>>
    BY <2>1 DEF JobFinishes, sortVars
  <2> QED BY <2>2 DEF Jobs, Pending, SortDone
<1>4. CASE \E j \in DOMAIN deps, last \in BOOLEAN : Updated(j, last)
  <2>1. PICK j \in DOMAIN deps, last \in BOOLEAN : Updated(j, last)
    BY <1>4
  <2>2. /\ UNCHANGED <<sortVars, jobVars, pc>>
        /\ closing' = closing \/ (closing # "closed" /\ finished = DOMAIN deps)
    BY <2>1 DEF Updated
  <2> QED BY <2>2, SameJobs DEF Jobs
<1>5. CASE \/ \E j \in DOMAIN deps : GiveUp(j)
           \/ StartBuild \/ AllChecked \/ Collect \/ SignalBuild \/ SignalAnswered \/ BreakOff
           \/ listenBuild \/ ListenEOF \/ StreamEnds \/ DepUnknown \/ DepFails \/ SignalReturns
           \/ \E f \in Files : CheckFile(f) \/ Upload(f) \/ Tell(f)
           \/ UNCHANGED clientVars
  <2>1. /\ UNCHANGED <<sortVars, jobVars>>
        /\ closing' = closing \/ (closing = "finished" /\ closing' = "closed")
        /\ pc' = "nil" => closing' = "closed"
    BY <1>5 DEF GiveUp, StartBuild, AllChecked, Collect, SignalBuild, SignalAnswered, BreakOff,
       listenBuild, ListenEOF, StreamEnds, DepUnknown, DepFails, SignalError, SignalReturns,
       CheckFile, Upload, Tell, Return, netVars, clientVars, Jobs
  <2> QED BY <2>1, SameJobs
<1> QED BY <1>1, <1>2, <1>3, <1>4, <1>5 DEF ClientNext, BuildStep, ServerStep, Chance

\* StartBuild sorts while the client goes on: it sees one run of TopSort.
THEOREM ClientSorts == ClientSpec => SortSpec
<1>1. ClientInit => SortInit
  BY DEF ClientInit
<1>2. [ClientNext]_clientVars => [SortNext]_sortVars
  BY DEF ClientNext, BuildStep, ServerStep, Chance, StartBuild, CheckFile, AllChecked, Collect,
     SignalBuild, SignalAnswered, listenBuild, ListenEOF, BreakOff, Upload, Tell, Sort, Updated,
     GiveUp, StreamEnds, DepUnknown, DepFails, SignalError, ScheduleJob, JobFinishes,
     SignalReturns, clientVars
<1> QED BY <1>1, <1>2, PTL DEF ClientSpec, SortSpec

LEMMA JobsHold == ClientSpec => [](SortTypes /\ Jobs)
<1>1. ClientInit /\ SortTypes => Jobs
  <2> SUFFICES ASSUME ClientInit, SortTypes PROVE Jobs
    OBVIOUS
  <2>1. /\ begun = 0 /\ finished = {} /\ closing = "open" /\ pc = "start"
        /\ Len(sorted) \in Nat
    BY DEF ClientInit, SortTypes
  <2> QED BY <2>1 DEF Jobs
<1>2. ClientSpec => []SortTypes
  BY ClientSorts, SortTyped, PTL
<1> QED BY <1>1, <1>2, StepJobs, PTL DEF ClientSpec

-----------------------------------------------------------------------------
\* A build is signalled only when every missing file is on the coordinator.
\* Build returns nil only when every job has finished and none names an unknown
\* dependency, and the listener was then told once of every job but the lost
\* ones, whose watcher wrote after the end of the stream: for any number of
\* files and jobs, and however SignalBuild fails.
THEOREM BuildHears == ClientSpec => []NilMeansHeard
<1>1. Uploads /\ Hears /\ SortTypes /\ Jobs => NilMeansHeard
  <2> SUFFICES ASSUME Uploads, Hears, SortTypes, Jobs PROVE NilMeansHeard
    OBVIOUS
  <2>1. signal # "no" => stored = Files
    BY DEF Uploads
  <2>2. IsInjective(heard)
    BY DEF Hears, Once
  <2>3. ASSUME pc = "nil"
        PROVE  Range(heard) = DOMAIN deps \ lost
    <3>1. unsent = {} /\ stream = << >>
      BY <2>3 DEF Hears, Read
    <3>2. InStream = {}
      BY <3>1 DEF InStream
    <3>3. DOMAIN deps = Range(heard) \cup lost
      BY <2>3, <3>1, <3>2 DEF Hears, NoneForgotten
    <3>4. Range(heard) \cap lost = {}
      BY DEF Hears, Once
    <3> QED BY <3>3, <3>4
  <2>4. ASSUME pc = "nil"
        PROVE  /\ finished = DOMAIN deps
               /\ \A j \in DOMAIN deps : Unknown \notin Range(deps[j])
    <3>1. finished = DOMAIN deps /\ DOMAIN deps \subseteq Pending
      BY <2>4 DEF Jobs
    <3>2. Unknown \notin DOMAIN deps
      BY DEF SortTypes, Unknown
    <3>3. ASSUME NEW j \in DOMAIN deps
          PROVE  Range(deps[j]) \subseteq DOMAIN deps
      <4>1. PICK i \in 1..begun : j = sorted[i]
        BY <3>1 DEF Pending
      <4> QED BY <3>1, <4>1 DEF Jobs
    <3> QED BY <3>1, <3>2, <3>3
  <2> QED BY <2>1, <2>2, <2>3, <2>4 DEF NilMeansHeard
<1>2. ClientSpec => [](Uploads /\ Hears)
  BY InitUploads, StepUploads, InitHears, StepHears, PTL DEF ClientSpec
<1> QED BY <1>1, <1>2, JobsHold, PTL

\* So the jobs of every build are scheduled in an order that respects their
\* dependencies, whatever the client does meanwhile.
THEOREM BuildsAreSorted == ClientSpec => []SortedTopologically
BY ClientSorts, SortsTopologically, PTL
=============================================================================
