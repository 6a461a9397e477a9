------------------------ MODULE HappensBeforeProofs ------------------------
(***************************************************************************)
(* Proofs about the happens-before machine with one goroutine that waits   *)
(* on a key, as a build is signalled once: any finite number of goroutines *)
(* may call Happen, any number of times.                                   *)
(*                                                                         *)
(* The order follows from the counter's balance, because the counter is    *)
(* never below waiting, and below nothing only while the waiter waits.     *)
(* That the waiter is woken needs the channel: while the counter says a    *)
(* Happen came, one closer, and only one, is on its way to the waiter's    *)
(* channel, or has closed it.  HInv states both, and is inductive.         *)
(***************************************************************************)
EXTENDS HappensBefore, FiniteSetTheorems, TLAPS

\* Goroutines that found a waiter and will close its channel.
Closing == {t \in Happeners : pc[t] \in {"load", "close"}}

PCs == /\ \A t \in Happeners : pc[t] \in {"idle", "add", "load", "close"}
       /\ \A t \in Waiters : pc[t] \in {"idle", "loadwait", "receive", "renew"}

\* The counter and the program counter of the waiter w agree.
CounterOf(w) == /\ was = nothing + (events - Cardinality(Adding))
                                 - (passed + (IF pc[w] = "idle" THEN 0 ELSE 1))
                /\ was >= waiting
                /\ was = waiting => pc[w] \in {"loadwait", "receive"}

\* The channel the waiter w waits on has at most one closer.
ChannelOf(w) ==
    /\ \A t, u \in Closing : t = u
    /\ Closing # {} => /\ pc[w] \in {"loadwait", "receive"}
                       /\ was >= nothing /\ chan \notin closed
    /\ \A t \in Happeners : pc[t] = "close" => seen[t] = chan
    /\ pc[w] \in {"loadwait", "receive"} /\ was >= nothing => Closing # {} \/ chan \in closed
    /\ chan \in closed => pc[w] # "idle" /\ was >= nothing
    /\ pc[w] = "receive" => seen[w] = chan
    /\ pc[w] = "renew" => chan \in closed
    /\ ~panicked

BaseTypes == /\ was \in Int /\ chan \in Nat /\ closed \subseteq 0..chan
             /\ pc \in [Callers -> {"idle", "add", "load", "close",
                                    "loadwait", "receive", "renew"}]
             /\ seen \in [Callers -> 0..chan]
             /\ events \in Nat /\ passed \in Nat /\ panicked \in BOOLEAN

HInv(w) == BaseTypes /\ PCs /\ CounterOf(w) /\ ChannelOf(w)

-----------------------------------------------------------------------------
\* The goroutines between event() and was.Add(1) are finitely many; one more
\* enters, or one leaves.
LEMMA AddingCounts ==
    /\ IsFiniteSet(Adding) /\ Cardinality(Adding) \in Nat
    /\ \A t \in Happeners \ Adding : Cardinality(Adding \cup {t}) = Cardinality(Adding) + 1
    /\ \A t \in Adding : Cardinality(Adding \ {t}) = Cardinality(Adding) - 1
<1>1. IsFiniteSet(Adding)
  BY HBFiniteAssumption, FS_Subset DEF Adding
<1> QED BY <1>1, FS_CardinalityType, FS_AddElement, FS_RemoveElement

LEMMA InitHInv ==
    ASSUME NEW w, Waiters = {w}, HBMInit
    PROVE  HInv(w)
<1> USE DEF HBMInit, Callers, waiting, nothing
<1>1. BaseTypes /\ PCs
  <2>1. 0 \in 0..chan /\ \A t \in Callers : pc[t] = "idle" /\ seen[t] = 0
    OBVIOUS
  <2>2. pc \in [Callers -> {"idle", "add", "load", "close",
                            "loadwait", "receive", "renew"}]
    OBVIOUS
  <2>3. seen \in [Callers -> 0..chan]
    BY <2>1
  <2>4. PCs
    BY <2>1 DEF PCs
  <2>5. was \in Int /\ chan \in Nat /\ events \in Nat /\ passed \in Nat
    OBVIOUS
  <2>6. panicked \in BOOLEAN
    BY Zenon
  <2>7. closed \subseteq 0..chan
    OBVIOUS
  <2>8. BaseTypes
    BY ONLY <2>2, <2>3, <2>5, <2>6, <2>7, Zenon DEF BaseTypes
  <2> QED BY ONLY <2>4, <2>8
<1>2. Adding = {} /\ Closing = {}
  BY DEF Adding, Closing
<1>3. CounterOf(w)
  BY <1>2, FS_EmptySet DEF CounterOf
<1>4. ChannelOf(w)
  BY <1>2 DEF ChannelOf
<1> QED BY <1>1, <1>3, <1>4 DEF HInv

\* One step of a goroutine that calls Happen.
LEMMA HappenKeepsHInv ==
    ASSUME NEW w, Waiters = {w}, HInv(w), NEW t \in Happeners, HappenStep(t)
    PROVE  HInv(w)'
<1> USE HBThreadAssumption DEF HInv, BaseTypes, PCs, Callers, waiting, nothing
<1>0. w \in Callers /\ t \in Callers /\ w # t
  OBVIOUS
<1>1. CASE HappenEvent(t)
  <2>1. Adding' = Adding \cup {t} /\ t \notin Adding /\ Closing' = Closing
    BY <1>0, <1>1 DEF HappenEvent, Adding, Closing
  <2>2. CounterOf(w)'
    BY <1>0, <1>1, <2>1, AddingCounts DEF HappenEvent, CounterOf
  <2>3. ChannelOf(w)'
    BY <1>0, <1>1, <2>1 DEF HappenEvent, ChannelOf
  <2> QED BY <1>0, <1>1, <2>2, <2>3 DEF HappenEvent
<1>2. CASE HappenAdd(t)
  <2>1. Adding' = Adding \ {t} /\ t \in Adding
    BY <1>0, <1>2 DEF HappenAdd, CallReturns, Adding
  <2>2. CounterOf(w)'
    BY <1>0, <1>2, <2>1, AddingCounts DEF HappenAdd, CallReturns, CounterOf
  <2>3. CASE was = waiting
    <3>1. Closing' = Closing \cup {t} /\ Closing = {}
      BY <1>0, <1>2, <2>3 DEF HappenAdd, Closing, ChannelOf
    <3>2. pc[w] \in {"loadwait", "receive"} /\ chan \notin closed /\ pc'[w] = pc[w]
      BY <1>0, <1>2, <2>3 DEF HappenAdd, CounterOf, ChannelOf
    <3>3. ChannelOf(w)'
      BY <1>0, <1>2, <2>3, <3>1, <3>2 DEF HappenAdd, ChannelOf
    <3> QED BY <1>0, <1>2, <2>2, <2>3, <3>3 DEF HappenAdd
  <2>4. CASE was # waiting
    <3>1. Closing' = Closing /\ was >= nothing
      BY <1>0, <1>2, <2>4 DEF HappenAdd, CallReturns, Closing, CounterOf
    <3>2. ChannelOf(w)'
      BY <1>0, <1>2, <2>4, <3>1 DEF HappenAdd, CallReturns, ChannelOf
    <3> QED BY <1>0, <1>2, <2>2, <2>4, <3>2 DEF HappenAdd, CallReturns
  <2> QED BY <2>3, <2>4
<1>3. CASE HappenLoad(t)
  <2>1. Adding' = Adding /\ Closing' = Closing
    BY <1>0, <1>3 DEF HappenLoad, Adding, Closing
  <2>2. CounterOf(w)'
    BY <1>0, <1>3, <2>1 DEF HappenLoad, CounterOf
  <2>3. ChannelOf(w)'
    BY <1>0, <1>3, <2>1 DEF HappenLoad, ChannelOf
  <2> QED BY <1>0, <1>3, <2>2, <2>3 DEF HappenLoad
<1>4. CASE HappenClose(t)
  <2>1. Adding' = Adding /\ Closing = {t} /\ Closing' = {} /\ seen[t] = chan
    BY <1>0, <1>4 DEF HappenClose, CallReturns, Adding, Closing, ChannelOf
  <2>2. CounterOf(w)'
    BY <1>0, <1>4, <2>1 DEF HappenClose, CallReturns, CounterOf
  <2>3. ChannelOf(w)'
    BY <1>0, <1>4, <2>1 DEF HappenClose, CallReturns, ChannelOf
  <2> QED BY <1>0, <1>4, <2>1, <2>2, <2>3 DEF HappenClose, CallReturns
<1> QED BY <1>1, <1>2, <1>3, <1>4 DEF HappenStep

\* One step of the goroutine that calls Before.
LEMMA BeforeKeepsHInv ==
    ASSUME NEW w, Waiters = {w}, HInv(w), BeforeStep(w)
    PROVE  HInv(w)'
<1> USE HBThreadAssumption DEF HInv, BaseTypes, PCs, Callers, waiting, nothing
<1>0. w \in Callers /\ w \notin Happeners
  OBVIOUS
<1>1. ASSUME \A t \in Happeners : pc'[t] = pc[t]
      PROVE  Adding' = Adding /\ Closing' = Closing
  BY <1>1 DEF Adding, Closing
<1>2. CASE BeforeAdd(w)
  <2>1. Adding' = Adding /\ Closing' = Closing
    BY <1>0, <1>1, <1>2 DEF BeforeAdd, CallReturns
  <2>2. was >= nothing /\ Closing = {} /\ chan \notin closed
    BY <1>0, <1>2 DEF BeforeAdd, CounterOf, ChannelOf
  <2>3. CounterOf(w)'
    <3>1. was = nothing + (events - Cardinality(Adding)) - passed /\ Cardinality(Adding) \in Nat
      BY <1>0, <1>2, AddingCounts DEF BeforeAdd, CounterOf
    <3>2. was' = was - 1 /\ events' = events /\ Cardinality(Adding') = Cardinality(Adding)
      BY <1>2, <2>1 DEF BeforeAdd
    <3>3. CASE was - 1 = waiting
      <4>1. pc'[w] = "loadwait" /\ passed' = passed
        BY <1>0, <1>2, <3>3 DEF BeforeAdd
      <4> QED BY <2>2, <3>1, <3>2, <3>3, <4>1 DEF CounterOf, Adding
    <3>4. CASE was - 1 # waiting
      <4>1. pc'[w] = "idle" /\ passed' = passed + 1
        BY <1>0, <1>2, <3>4 DEF BeforeAdd, CallReturns
      <4> QED BY <2>2, <3>1, <3>2, <3>4, <4>1 DEF CounterOf
    <3> QED BY <3>3, <3>4
  <2>4. ChannelOf(w)'
    BY <1>0, <1>2, <2>1, <2>2 DEF BeforeAdd, CallReturns, ChannelOf
  <2> QED BY <1>0, <1>2, <2>3, <2>4 DEF BeforeAdd, CallReturns
<1>3. CASE BeforeLoad(w)
  <2>1. Adding' = Adding /\ Closing' = Closing
    BY <1>0, <1>1, <1>3 DEF BeforeLoad
  <2>2. CounterOf(w)'
    BY <1>0, <1>3, <2>1, AddingCounts DEF BeforeLoad, CounterOf
  <2>3. ChannelOf(w)'
    BY <1>0, <1>3, <2>1 DEF BeforeLoad, ChannelOf
  <2> QED BY <1>0, <1>3, <2>2, <2>3 DEF BeforeLoad
<1>4. CASE BeforeReceive(w)
  <2>1. Adding' = Adding /\ Closing' = Closing /\ chan \in closed /\ Closing = {}
    BY <1>0, <1>1, <1>4 DEF BeforeReceive, ChannelOf
  <2>2. CounterOf(w)'
    BY <1>0, <1>4, <2>1, AddingCounts DEF BeforeReceive, CounterOf, ChannelOf
  <2>3. ChannelOf(w)'
    BY <1>0, <1>4, <2>1 DEF BeforeReceive, ChannelOf
  <2> QED BY <1>0, <1>4, <2>2, <2>3 DEF BeforeReceive
<1>5. CASE BeforeRenew(w)
  <2>1. Adding' = Adding /\ Closing' = Closing /\ Closing = {}
    BY <1>0, <1>1, <1>5 DEF BeforeRenew, CallReturns, ChannelOf
  <2>2. was >= nothing /\ chan' \notin closed'
    BY <1>0, <1>5 DEF BeforeRenew, ChannelOf
  <2>3. CounterOf(w)'
    BY <1>0, <1>5, <2>1, <2>2, AddingCounts DEF BeforeRenew, CallReturns, CounterOf
  <2>4. ChannelOf(w)'
    <3>1. \A t \in Happeners : pc'[t] # "close" /\ pc'[t] # "load"
      BY <2>1 DEF Closing
    <3> QED BY <1>0, <1>5, <2>1, <2>2, <3>1 DEF BeforeRenew, CallReturns, ChannelOf
  <2> QED BY <1>0, <1>5, <2>3, <2>4 DEF BeforeRenew, CallReturns
<1> QED BY <1>2, <1>3, <1>4, <1>5 DEF BeforeStep

\* The invariant, with one waiter.
THEOREM HInvariance ==
    ASSUME NEW w, Waiters = {w}
    PROVE  HBMSpec => []HInv(w)
<1>1. HBMInit => HInv(w)
  BY InitHInv
<1>2. HInv(w) /\ [HBMNext]_hbmVars => HInv(w)'
  <2>1. ASSUME HInv(w), HBMNext PROVE HInv(w)'
    BY <2>1, HappenKeepsHInv, BeforeKeepsHInv DEF HBMNext
  <2>2. ASSUME HInv(w), UNCHANGED hbmVars PROVE HInv(w)'
    BY <2>2 DEF hbmVars, HInv, BaseTypes, PCs, CounterOf, ChannelOf, Adding, Closing
  <2> QED BY <2>1, <2>2
<1> QED BY <1>1, <1>2, PTL DEF HBMSpec

\* With one waiter the counter is one more than the events not yet consumed.
THEOREM CounterBalanced ==
    ASSUME NEW w, Waiters = {w}
    PROVE  HBMSpec => []CounterBalance
<1>1. Cardinality(Passing) = IF pc[w] = "idle" THEN 0 ELSE 1
  <2>1. CASE pc[w] = "idle"
    <3>1. Passing = {}
      BY <2>1 DEF Passing
    <3> QED BY <2>1, <3>1, FS_EmptySet
  <2>2. CASE pc[w] # "idle"
    <3>1. Passing = {w}
      BY <2>2 DEF Passing
    <3> QED BY <2>2, <3>1, FS_Singleton
  <2> QED BY <2>1, <2>2
<1>2. HInv(w) => CounterBalance
  BY <1>1 DEF HInv, CounterOf, CounterBalance
<1> QED BY <1>2, HInvariance, PTL

\* With one waiter the k-th Before returns after the k-th event: SignalBuild
\* never finds the maps of its build missing.
THEOREM BeforeComesAfter ==
    ASSUME NEW w, Waiters = {w}
    PROVE  HBMSpec => []BeforeAfterHappen
<1>1. HInv(w) => BeforeAfterHappen
  BY AddingCounts DEF HInv, BaseTypes, CounterOf, BeforeAfterHappen, waiting, nothing
<1> QED BY <1>1, HInvariance, PTL

\* With one waiter no wake-up is lost.
THEOREM WakeupComes ==
    ASSUME NEW w, Waiters = {w}
    PROVE  HBMSpec => []NoLostWakeup
<1>1. HInv(w) => NoLostWakeup
  BY DEF HInv, ChannelOf, NoLostWakeup, Closing
<1> QED BY <1>1, HInvariance, PTL

\* With one waiter no channel is closed twice.
THEOREM ClosedOnce ==
    ASSUME NEW w, Waiters = {w}
    PROVE  HBMSpec => []NoDoubleClose
<1>1. HInv(w) => NoDoubleClose
  BY DEF HInv, ChannelOf, NoDoubleClose
<1> QED BY <1>1, HInvariance, PTL
=============================================================================
