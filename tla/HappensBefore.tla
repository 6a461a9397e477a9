--------------------------- MODULE HappensBefore ---------------------------
(***************************************************************************)
(* pkg/concurrency/hb.go: the HappenceBeforeMachine that makes SignalBuild *)
(* wait for StartBuild.  Keys share nothing but the map lookups, which     *)
(* create() does under its mutex, so one key is modelled: its counter, its *)
(* channel pointer, and the goroutines that call Happen and Before on it.  *)
(* Every atomic operation and every access to *wait is a step of its own.  *)
(***************************************************************************)
EXTENDS Integers, FiniteSets

CONSTANTS Happeners,     \* goroutines that call Happen
          Waiters,       \* goroutines that call Before
          HappenRounds,  \* how often each of Happeners calls
          BeforeRounds   \* how often each of Waiters calls

ASSUME HBRoundsAssumption == HappenRounds \in Nat /\ BeforeRounds \in Nat
ASSUME HBThreadAssumption == Happeners \cap Waiters = {}
ASSUME HBFiniteAssumption == IsFiniteSet(Happeners)

waiting == 0   \* iota
nothing == 1

Callers == Happeners \cup Waiters

VARIABLES was,      \* the counter of wasMap[key]
          chan,     \* the channel *wait is; channels are numbered as made
          closed,   \* channels that are closed
          pc,       \* pc[t]: where goroutine t is
          seen,     \* seen[t]: the channel t read from *wait
          left,     \* left[t]: calls t has still to make
          events,   \* history: how often event() has run
          passed,   \* history: how often Before has returned
          panicked  \* a channel was closed twice

hbmVars == <<was, chan, closed, pc, seen, left, events, passed, panicked>>

HBMInit == /\ was = nothing
           /\ chan = 0 /\ closed = {}
           /\ pc = [t \in Callers |-> "idle"]
           /\ seen = [t \in Callers |-> 0]
           /\ left = [t \in Callers |-> IF t \in Happeners THEN HappenRounds ELSE BeforeRounds]
           /\ events = 0 /\ passed = 0
           /\ panicked = FALSE

\* Goroutine t returns from its call.
CallReturns(t) == /\ pc'   = [pc   EXCEPT ![t] = "idle"]
                  /\ left' = [left EXCEPT ![t] = @ - 1]

-----------------------------------------------------------------------------
(* Happen                                                                  *)

HappenEvent(t) == /\ pc[t] = "idle" /\ left[t] > 0
                  /\ events' = events + 1
                  /\ pc' = [pc EXCEPT ![t] = "add"]
                  /\ UNCHANGED <<was, chan, closed, seen, left, passed, panicked>>

\* Faults for HappenAdd: every Happen closes the channel; or the test is
\* off by one, so that a waiting Before is overlooked.
HappenAddAlwaysCloses(t) == /\ pc[t] = "add"
                            /\ was' = was + 1
                            /\ pc' = [pc EXCEPT ![t] = "load"]
                            /\ UNCHANGED <<chan, closed, seen, left, events, passed, panicked>>

HappenAddTooLate(t) == /\ pc[t] = "add"
                       /\ was' = was + 1
                       /\ IF was + 1 = nothing + 1
                            THEN pc' = [pc EXCEPT ![t] = "load"] /\ UNCHANGED left
                            ELSE CallReturns(t)
                       /\ UNCHANGED <<chan, closed, seen, events, passed, panicked>>

\* was.Add(1): the result nothing means that a Before is waiting.
HappenAdd(t) == /\ pc[t] = "add"
                /\ was' = was + 1
                /\ IF was + 1 = nothing
                     THEN pc' = [pc EXCEPT ![t] = "load"] /\ UNCHANGED left
                     ELSE CallReturns(t)
                /\ UNCHANGED <<chan, closed, seen, events, passed, panicked>>

HappenLoad(t) == /\ pc[t] = "load"
                 /\ seen' = [seen EXCEPT ![t] = chan]
                 /\ pc' = [pc EXCEPT ![t] = "close"]
                 /\ UNCHANGED <<was, chan, closed, left, events, passed, panicked>>

HappenClose(t) == /\ pc[t] = "close"
                  /\ panicked' = (panicked \/ seen[t] \in closed)
                  /\ closed' = closed \cup {seen[t]}
                  /\ CallReturns(t)
                  /\ UNCHANGED <<was, chan, seen, events, passed>>

-----------------------------------------------------------------------------
(* Before                                                                  *)

\* A fault for BeforeAdd: a Before that waits only when another one waits
\* already.
BeforeAddNoWait(t) == /\ pc[t] = "idle" /\ left[t] > 0
                      /\ was' = was - 1
                      /\ IF was - 1 < waiting
                           THEN /\ pc' = [pc EXCEPT ![t] = "loadwait"]
                                /\ UNCHANGED <<left, passed>>
                           ELSE /\ CallReturns(t)
                                /\ passed' = passed + 1
                      /\ UNCHANGED <<chan, closed, seen, events, panicked>>

\* Another one: a Before that is going to wait resets the counter.
BeforeAddResets(t) == /\ pc[t] = "idle" /\ left[t] > 0
                      /\ IF was - 1 = waiting
                           THEN /\ was' = nothing
                                /\ pc' = [pc EXCEPT ![t] = "loadwait"]
                                /\ UNCHANGED <<left, passed>>
                           ELSE /\ was' = was - 1
                                /\ CallReturns(t)
                                /\ passed' = passed + 1
                      /\ UNCHANGED <<chan, closed, seen, events, panicked>>

\* was.Add(-1): the result waiting means that no Happen is left to consume.
BeforeAdd(t) == /\ pc[t] = "idle" /\ left[t] > 0
                /\ was' = was - 1
                /\ IF was - 1 = waiting
                     THEN /\ pc' = [pc EXCEPT ![t] = "loadwait"]
                          /\ UNCHANGED <<left, passed>>
                     ELSE /\ CallReturns(t)
                          /\ passed' = passed + 1
                /\ UNCHANGED <<chan, closed, seen, events, panicked>>

BeforeLoad(t) == /\ pc[t] = "loadwait"
                 /\ seen' = [seen EXCEPT ![t] = chan]
                 /\ pc' = [pc EXCEPT ![t] = "receive"]
                 /\ UNCHANGED <<was, chan, closed, left, events, passed, panicked>>

BeforeReceive(t) == /\ pc[t] = "receive"
                    /\ seen[t] \in closed
                    /\ pc' = [pc EXCEPT ![t] = "renew"]
                    /\ UNCHANGED <<was, chan, closed, seen, left, events, passed, panicked>>

\* A fault for BeforeRenew: the used channel stays in the map.
BeforeKeepsChannel(t) == /\ pc[t] = "renew"
                         /\ passed' = passed + 1
                         /\ CallReturns(t)
                         /\ UNCHANGED <<was, chan, closed, seen, events, panicked>>

\* (*wait) = make(chan struct{})
BeforeRenew(t) == /\ pc[t] = "renew"
                  /\ chan' = chan + 1
                  /\ passed' = passed + 1
                  /\ CallReturns(t)
                  /\ UNCHANGED <<was, closed, seen, events, panicked>>

-----------------------------------------------------------------------------
HappenStep(t) == HappenEvent(t) \/ HappenAdd(t) \/ HappenLoad(t) \/ HappenClose(t)
BeforeStep(t) == BeforeAdd(t) \/ BeforeLoad(t) \/ BeforeReceive(t) \/ BeforeRenew(t)

HBMNext == \/ \E t \in Happeners : HappenStep(t)
           \/ \E t \in Waiters : BeforeStep(t)

HBMSpec == HBMInit /\ [][HBMNext]_hbmVars

\* Every goroutine runs while it can.
FairHBMSpec == /\ HBMSpec
               /\ \A t \in Happeners : WF_hbmVars(HappenStep(t))
               /\ \A t \in Waiters : WF_hbmVars(BeforeStep(t))

-----------------------------------------------------------------------------
(* Properties                                                              *)

\* The counter is one more than the events announced and not consumed; it is
\* waiting (0) exactly while a Before is ahead of every Happen.
Adding  == {t \in Happeners : pc[t] = "add"}
Passing == {t \in Waiters : pc[t] # "idle"}

CounterBalance == was = nothing + (events - Cardinality(Adding))
                                - (passed + Cardinality(Passing))

\* No lost wake-up: once the counter says that a Happen came, a waiting Before
\* looks at a channel that is closed or about to be closed.
NoLostWakeup ==
    \A t \in Waiters :
        pc[t] \in {"loadwait", "receive"} /\ was >= nothing =>
            \/ chan \in closed
            \/ \E h \in Happeners : pc[h] = "load" \/ (pc[h] = "close" /\ seen[h] = chan)

\* The k-th Before returns only after the k-th event: SignalBuild never finds
\* the maps of its build missing.
BeforeAfterHappen == passed <= events

\* No channel is closed twice, which would panic in the goroutine of Happen.
NoDoubleClose == ~panicked

\* When there are as many Happens as Befores, every Before returns: no close
\* goes to a channel the waiter does not look at.
EveryBeforeReturns == <>(\A t \in Waiters : left[t] = 0)
=============================================================================
