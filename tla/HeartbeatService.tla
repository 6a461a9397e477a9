-------------------------- MODULE HeartbeatService --------------------------
(***************************************************************************)
(* pkg/dist/heartbeat_service.go and the loop of pkg/worker that calls it: *)
(* a worker sends the results of its last batch, the handler reports them  *)
(* to the scheduler one by one, waits for one job, takes as many more as   *)
(* the worker has slots, and answers; the worker runs the whole batch      *)
(* before its next heartbeat.                                              *)
(*                                                                         *)
(* A worker that restarts joins under a new address, so it is another      *)
(* member of Workers.  AddedArtifacts is empty in every request the worker *)
(* sends (downloadArtifacts registers its defer on the empty slice), so    *)
(* the loop over it makes no step.                                         *)
(***************************************************************************)
EXTENDS Scheduler, FiniteSets

CONSTANTS Slots,      \* FreeSlots of every request: runtime.NumCPU()
          MaxDeaths   \* bound on the workers that die or lose their connection

ASSUME SlotsAssumption == Slots \in Nat \ {0}
ASSUME MaxDeathsAssumption == MaxDeaths \in Nat

VARIABLES wpc,     \* wpc[w]: "run" while worker w has the answer, "report",
                   \* "pick" or "fill" in the handler, "off" after Run returned
          batch,   \* batch[w]: JobsToRun
          todo,    \* todo[w]: FinishedJob entries not reported yet
          slots,   \* slots[w]: FreeSlots left in the handler
          dead,    \* workers whose process or connection is gone
          dropped  \* history: jobs received from the channel that no worker has

hbVars == <<wpc, batch, todo, slots, dead, dropped>>

HBInit == /\ wpc     = [w \in Workers |-> "run"]
          /\ batch   = [w \in Workers |-> {}]
          /\ todo    = [w \in Workers |-> {}]
          /\ slots   = [w \in Workers |-> 0]
          /\ dead    = {}
          /\ dropped = {}

\* A fault for Beat: the worker keeps what it was given before.
BeatKeepsBatch(w) ==
    /\ wpc[w] = "run"
    /\ w \notin dead
    /\ \E r \in [batch[w] -> Outcomes] :
           todo' = [todo EXCEPT ![w] = {<<j, r[j]>> : j \in batch[w]}]
    /\ wpc'   = [wpc   EXCEPT ![w] = "report"]
    /\ slots' = [slots EXCEPT ![w] = Slots]
    /\ UNCHANGED <<batch, dead, dropped, vars>>

\* The worker finished its batch, each job with some result, and sends them.
Beat(w) ==
    /\ wpc[w] = "run"
    /\ w \notin dead
    /\ \E r \in [batch[w] -> Outcomes] :
           todo' = [todo EXCEPT ![w] = {<<j, r[j]>> : j \in batch[w]}]
    /\ wpc'   = [wpc   EXCEPT ![w] = "report"]
    /\ batch' = [batch EXCEPT ![w] = {}]
    /\ slots' = [slots EXCEPT ![w] = Slots]
    /\ UNCHANGED <<dead, dropped, vars>>

\* A fault for ReportEnter: the report carries no result.
ReportNil(w) ==
    /\ wpc[w] = "report"
    /\ \E rep \in todo[w] :
           /\ CompleteEnter(w, rep[1], Nil)
           /\ todo' = [todo EXCEPT ![w] = @ \ {rep}]
    /\ UNCHANGED <<wpc, batch, slots, dead, dropped>>

\* for _, job := range req.FinishedJob: the results come in the order in
\* which the worker's goroutines ended, that is, in any order.
ReportEnter(w) ==
    /\ wpc[w] = "report"
    /\ \E rep \in todo[w] :
           /\ CompleteEnter(w, rep[1], rep[2])
           /\ todo' = [todo EXCEPT ![w] = @ \ {rep}]
    /\ UNCHANGED <<wpc, batch, slots, dead, dropped>>

\* Jobs of the request that the handler has not reported yet.
Unreported(w) == {rep[1] : rep \in todo[w]}

ReportSettle(w) ==
    /\ CompleteSettle(w)
    /\ UNCHANGED hbVars

\* OnJobComplete returned: an unknown job makes the handler panic, which
\* aborts the request and ends the worker's Run.
ReportReturn(w) ==
    /\ CompleteRecord(w)
    /\ IF exist[w]
         THEN UNCHANGED <<wpc, todo, dropped>>
         ELSE /\ wpc'  = [wpc  EXCEPT ![w] = "off"]
              /\ todo' = [todo EXCEPT ![w] = {}]
              /\ dropped' = dropped \cup Unreported(w)
    /\ UNCHANGED <<batch, slots, dead>>

PickStart(w) ==
    /\ wpc[w] = "report"
    /\ todo[w] = {}
    /\ PickEnter(w)
    /\ wpc' = [wpc EXCEPT ![w] = "pick"]
    /\ UNCHANGED <<batch, todo, slots, dead, dropped>>

FillStart(w) ==
    /\ wpc[w] = "fill"
    /\ slots[w] > 0
    /\ TryPickEnter(w)
    /\ UNCHANGED hbVars

\* One slot is filled, by PickJob or by TryPickJob.
FillSlot(w) ==
    /\ Receive(w)
    /\ batch' = [batch EXCEPT ![w] = @ \cup {Head(queue)}]
    /\ slots' = [slots EXCEPT ![w] = @ - 1]
    /\ wpc'   = [wpc   EXCEPT ![w] = "fill"]
    /\ UNCHANGED <<todo, dead, dropped>>

\* The four attempts for one slot found the channel empty.
FillNothing(w) ==
    /\ TryPickNothing(w)
    /\ slots' = [slots EXCEPT ![w] = @ - 1]
    /\ UNCHANGED <<wpc, batch, todo, dead, dropped>>

\* The handler answers; what it picked for a dead worker is dropped.
Respond(w) ==
    /\ wpc[w] = "fill"
    /\ slots[w] = 0
    /\ IF w \in dead
         THEN /\ wpc'     = [wpc   EXCEPT ![w] = "off"]
              /\ batch'   = [batch EXCEPT ![w] = {}]
              /\ dropped' = dropped \cup batch[w]
         ELSE /\ wpc' = [wpc EXCEPT ![w] = "run"]
              /\ UNCHANGED <<batch, dropped>>
    /\ UNCHANGED <<todo, slots, dead, vars>>

\* The request's context is done while the handler waits for a job: it
\* returns an error and forgets what it has already picked.
Cancelled(w) ==
    /\ w \in dead
    /\ PickCancel(w)
    /\ wpc'     = [wpc   EXCEPT ![w] = "off"]
    /\ batch'   = [batch EXCEPT ![w] = {}]
    /\ slots'   = [slots EXCEPT ![w] = 0]
    /\ dropped' = dropped \cup batch[w]
    /\ UNCHANGED <<todo, dead>>

\* After Stop the next scheduler call of the handler panics.
HandlerStopped(w) ==
    /\ isStop
    /\ at[w] = "idle"
    /\ wpc[w] = "report" \/ (wpc[w] = "fill" /\ slots[w] > 0)
    /\ wpc'     = [wpc   EXCEPT ![w] = "off"]
    /\ batch'   = [batch EXCEPT ![w] = {}]
    /\ todo'    = [todo  EXCEPT ![w] = {}]
    /\ slots'   = [slots EXCEPT ![w] = 0]
    /\ dropped' = dropped \cup batch[w] \cup Unreported(w)
    /\ UNCHANGED <<dead, vars>>

\* The worker's process dies, with the batch it is running, or its
\* connection breaks while the handler is at work.
Die(w) ==
    /\ wpc[w] # "off"
    /\ w \notin dead
    /\ Cardinality(dead) < MaxDeaths
    /\ dead' = dead \cup {w}
    /\ IF wpc[w] = "run"
         THEN /\ wpc'     = [wpc   EXCEPT ![w] = "off"]
              /\ batch'   = [batch EXCEPT ![w] = {}]
              /\ dropped' = dropped \cup batch[w]
         ELSE UNCHANGED <<wpc, batch, dropped>>
    /\ UNCHANGED <<todo, slots, vars>>

HandlerStep(w) == \/ ReportEnter(w) \/ ReportReturn(w)
                  \/ PickStart(w)   \/ FillStart(w)
                  \/ FillSlot(w)    \/ FillNothing(w)
                  \/ Respond(w)     \/ Cancelled(w)
                  \/ HandlerStopped(w)

HBNext == \E w \in Workers : \/ Beat(w)
                             \/ HandlerStep(w)
                             \/ ReportSettle(w)
                             \/ Die(w)

-----------------------------------------------------------------------------
(* Where a job is after a worker received it                               *)

\* Jobs that worker w, or the handler that serves it, still has to settle.
HeldBy(w) == batch[w] \cup Unreported(w)
                      \cup (IF at[w] = "complete" THEN {arg[w]} ELSE {})
=============================================================================
