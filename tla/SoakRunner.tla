----------------------------- MODULE SoakRunner -----------------------------
(***************************************************************************)
(* The timed soak of state.py (SoakRunner) and the pattern control around  *)
(* it (AppState.activate_pattern).  All of it runs on the event loop, so a *)
(* step is what happens between two suspensions.  A soak is a task that    *)
(* sleeps; the one other suspension is "await self.task" in stop, where a  *)
(* request waits for the task it cancelled.  hub.publish never suspends:   *)
(* its lock is never held across an await.                                 *)
(*                                                                         *)
(* Run k is the k-th row of soak_run and the k-th task: start inserts the  *)
(* row and creates the task without suspending in between.                 *)
(***************************************************************************)
EXTENDS Naturals, Sequences, SequencesExt, FiniteSets

CONSTANTS Handler,    \* requests the loop can have open at once
          MaxRuns,    \* bound: soaks started
          MaxOutages, \* bound: HDMI disconnections the watcher sees
          MaxStops    \* bound: kills and orderly stops of the process

ASSUME SoakBounds == /\ MaxRuns \in Nat /\ MaxOutages \in Nat
                     /\ MaxStops \in Nat

VARIABLES
    status,   \* status[k]: column of soak_run; "none" before the INSERT
    faults,   \* faults[k]: column fault_count
    live,     \* live[k]: the asyncio task of run k
    ended,    \* runs whose task ran its full time (soak_completed recorded)
    outages,  \* outages[k]: disconnections while row k was open (history)
    task,     \* self.task, 0 for None
    runId,    \* self.run_id, 0 for None
    counted,  \* self.faults
    pattern,  \* active_pattern
    pc,       \* pc[h]: what handler h waits for: a run, or 0 when it is free
    op,       \* op[h]: the request of handler h
    waiters,  \* waiters[k]: handlers awaiting task k, in order
    ready,    \* the loop's queue of handlers to resume: one batch per task
    draining, \* a batch is half resumed; nothing else is queued inside it
    crashes, shutdowns,
    overlapped \* a request came while another was waiting (history)

rows == <<status, faults, outages, ended>>
runner == <<task, runId, counted, pattern>>
handlers == <<pc, op, waiters, ready, draining>>
tally == <<crashes, shutdowns, overlapped>>
vars == <<rows, live, runner, handlers, tally>>

Run == 1..MaxRuns
Op == {"soak", "pattern", "stop"}
Created == {k \in Run : status[k] # "none"}
Running == task # 0 /\ live[task] # "done"  \* the property "running"

Init ==
    /\ status = [k \in Run |-> "none"]
    /\ faults = [k \in Run |-> 0]
    /\ live = [k \in Run |-> "none"]
    /\ ended = {}
    /\ outages = [k \in Run |-> 0]
    /\ task = 0 /\ runId = 0 /\ counted = 0
    /\ pattern = "identify"
    /\ pc = [h \in Handler |-> 0]
    /\ op = [h \in Handler |-> "none"]
    /\ waiters = [k \in Run |-> <<>>]
    /\ ready = <<>> /\ draining = FALSE
    /\ crashes = 0 /\ shutdowns = 0 /\ overlapped = FALSE

-----------------------------------------------------------------------------
(* Pieces of the methods, as functions of the state they find.             *)

\* Mutant: stop records every run it ends as completed.
FinishedAsCompleted(result) == IF runId = 0 THEN status
                               ELSE [status EXCEPT ![runId] = "completed"]

\* Mutant: a result the CHECK constraint of soak_run does not know.
FinishedAsStopped(result) == IF runId = 0 THEN status
                             ELSE [status EXCEPT ![runId] = "stopped"]

\* _finish(result): closes the row run_id names, whichever run calls it.
Finished(result) == IF runId = 0 THEN status
                    ELSE [status EXCEPT ![runId] = result]

\* Mutant: start does not reset the fault counter.
ProceedCounting(o, st, t, r) ==
    LET k == Cardinality(Created) + 1
    IN  IF o = "soak"
        THEN /\ status' = [st EXCEPT ![k] = "running"]
             /\ live' = [live EXCEPT ![k] = "running"]
             /\ task' = k /\ runId' = k /\ pattern' = "soak"
             /\ UNCHANGED counted
        ELSE /\ status' = st /\ task' = t /\ runId' = r
             /\ pattern' = IF o = "stop" THEN "identify" ELSE "other"
             /\ UNCHANGED <<live, counted>>

\* What a request does once no soak is in its way; st, t and r are the table,
\* self.task and self.run_id at that moment.  start inserts a row and creates
\* its task; any other request only shows its pattern.
Proceed(o, st, t, r) ==
    LET k == Cardinality(Created) + 1
    IN  IF o = "soak"
        THEN /\ status' = [st EXCEPT ![k] = "running"]
             /\ live' = [live EXCEPT ![k] = "running"]
             /\ task' = k /\ runId' = k /\ counted' = 0
             /\ pattern' = "soak"
        ELSE /\ status' = st /\ task' = t /\ runId' = r
             /\ pattern' = IF o = "stop" THEN "identify" ELSE "other"
             /\ UNCHANGED <<live, counted>>

\* Bound on the soaks started: those of the table and those being requested.
Asked == {h \in Handler : pc[h] # 0 /\ op[h] = "soak"}
Room(o) == o = "soak" => Cardinality(Created) + Cardinality(Asked) < MaxRuns

-----------------------------------------------------------------------------
Waiting == {h \in Handler : pc[h] # 0}
Overlaps == overlapped' = (overlapped \/ Waiting # {})

\* A request that finds no running soak does not suspend.
CallIdle(h, o) ==
    /\ ~draining
    /\ pc[h] = 0 /\ Room(o)
    /\ Overlaps
    /\ ~Running
    /\ Proceed(o, status, IF o = "pattern" THEN task ELSE 0, runId)
    /\ UNCHANGED <<faults, outages, ended, handlers, crashes, shutdowns>>

\* Mutant: the cancelled task is not awaited, and not closed either.
CallBusyNoWait(h, o) ==
    /\ ~draining
    /\ pc[h] = 0 /\ Room(o)
    /\ Overlaps
    /\ Running
    /\ Proceed(o, status, 0, runId)
    /\ UNCHANGED <<faults, outages, ended, handlers, crashes, shutdowns>>

\* A request that finds one cancels its task and awaits it.
CallBusy(h, o) ==
    /\ ~draining
    /\ pc[h] = 0 /\ Room(o)
    /\ Overlaps
    /\ Running
    /\ live' = [live EXCEPT ![task] = "cancelling"]
    /\ pc' = [pc EXCEPT ![h] = task]
    /\ op' = [op EXCEPT ![h] = o]
    /\ waiters' = [waiters EXCEPT ![task] = Append(@, h)]
    /\ UNCHANGED <<rows, runner, ready, draining, crashes, shutdowns>>

\* The cancelled task raises CancelledError; the loop queues those awaiting it.
Cancelled(k) ==
    /\ ~draining
    /\ live[k] = "cancelling"
    /\ live' = [live EXCEPT ![k] = "done"]
    /\ ready' = Append(ready, waiters[k])
    /\ waiters' = [waiters EXCEPT ![k] = <<>>]
    /\ UNCHANGED <<rows, runner, pc, op, draining, tally>>

\* The rest of stop after its await: run_id and task are those of now, not
\* those of the run that was cancelled.
Resume ==
    /\ ready # <<>>
    /\ LET h == Head(Head(ready))
           rest == Tail(Head(ready))
       IN  /\ Proceed(op[h], Finished("interrupted"), 0, 0)
           /\ pc' = [pc EXCEPT ![h] = 0]
           /\ op' = [op EXCEPT ![h] = "none"]
           /\ ready' = IF rest = <<>> THEN Tail(ready)
                       ELSE <<rest>> \o Tail(ready)
           /\ draining' = (rest # <<>>)
    /\ UNCHANGED <<faults, outages, ended, waiters, tally>>

\* Mutant: run_id is kept after the soak.
RunEndsKeepingId(k) ==
    /\ ~draining
    /\ live[k] = "running"
    /\ live' = [live EXCEPT ![k] = "done"]
    /\ status' = Finished("completed")
    /\ ended' = ended \cup {k}
    /\ pattern' = "identify"
    /\ UNCHANGED <<faults, outages, task, runId, counted, handlers, tally>>

\* Mutant: the output is left on the soak pattern.
RunEndsOnSoak(k) ==
    /\ ~draining
    /\ live[k] = "running"
    /\ live' = [live EXCEPT ![k] = "done"]
    /\ status' = Finished("completed")
    /\ runId' = 0
    /\ ended' = ended \cup {k}
    /\ UNCHANGED <<faults, outages, task, counted, pattern, handlers, tally>>

\* The soak's time is over: the end of _run, without suspension.
RunEnds(k) ==
    /\ ~draining
    /\ live[k] = "running"
    /\ live' = [live EXCEPT ![k] = "done"]
    /\ status' = Finished("completed")
    /\ runId' = 0
    /\ ended' = ended \cup {k}
    /\ pattern' = "identify"
    /\ UNCHANGED <<faults, outages, task, counted, handlers, tally>>

\* The watcher finds the output disconnected: note_fault.
Outage ==
    /\ ~draining
    /\ \E k \in Run : status[k] = "running" /\ outages[k] < MaxOutages
    /\ outages' = [k \in Run |-> IF status[k] = "running" THEN outages[k] + 1
                                 ELSE outages[k]]
    /\ counted' = IF Running THEN counted + 1 ELSE counted
    /\ faults' = IF Running /\ runId # 0
                 THEN [faults EXCEPT ![runId] = counted + 1] ELSE faults
    /\ UNCHANGED <<status, ended, live, task, runId, pattern, handlers, tally>>

\* A process that starts has no task and no run, and shows its startup pattern.
Started ==
    /\ live' = [k \in Run |-> IF live[k] = "none" THEN "none" ELSE "done"]
    /\ task' = 0 /\ runId' = 0 /\ counted' = 0
    /\ pattern' = "identify"
    /\ pc' = [h \in Handler |-> 0]
    /\ op' = [h \in Handler |-> "none"]
    /\ waiters' = [k \in Run |-> <<>>]
    /\ ready' = <<>> /\ draining' = FALSE

\* The process dies and is started again; no boot step looks at soak_run.
Crash ==
    /\ crashes + shutdowns < MaxStops
    /\ crashes' = crashes + 1
    /\ Started
    /\ UNCHANGED <<rows, shutdowns, overlapped>>

\* Mutant: the lifespan ends without stop_watcher.
ShutdownAtOnce ==
    /\ crashes + shutdowns < MaxStops
    /\ Waiting = {}
    /\ shutdowns' = shutdowns + 1
    /\ Started
    /\ UNCHANGED <<rows, crashes, overlapped>>

\* The service is stopped in order and started again: the server lets the
\* requests end, then stop_watcher stops the soak.
Shutdown ==
    /\ crashes + shutdowns < MaxStops
    /\ Waiting = {}
    /\ shutdowns' = shutdowns + 1
    /\ status' = IF Running THEN Finished("interrupted") ELSE status
    /\ Started
    /\ UNCHANGED <<faults, outages, ended, crashes, overlapped>>

Call == \E h \in Handler, o \in Op : CallIdle(h, o) \/ CallBusy(h, o)

Next == \/ Call \/ Resume \/ Outage \/ Crash \/ Shutdown
        \/ \E k \in Run : Cancelled(k) \/ RunEnds(k)

Spec == Init /\ [][Next]_vars

\* The loop runs what is ready, and the time of a soak passes.
FairSpec == /\ Spec
            /\ WF_vars(Resume)
            /\ \A k \in Run : WF_vars(Cancelled(k)) /\ WF_vars(RunEnds(k))

-----------------------------------------------------------------------------
(* Properties                                                              *)

\* Every variable has its type.
TypeOK ==
    /\ status \in [Run -> {"none", "running", "completed", "interrupted"}]
    /\ faults \in [Run -> Nat] /\ outages \in [Run -> Nat]
    /\ live \in [Run -> {"none", "running", "cancelling", "done"}]
    /\ ended \subseteq Run
    /\ task \in Run \cup {0} /\ runId \in Run \cup {0} /\ counted \in Nat
    /\ pattern \in {"identify", "soak", "other"}
    /\ pc \in [Handler -> Run \cup {0}]
    /\ op \in [Handler -> Op \cup {"none"}]
    /\ waiters \in [Run -> Seq(Handler)]
    /\ ready \in Seq(Seq(Handler)) /\ draining \in BOOLEAN
    /\ crashes \in Nat /\ shutdowns \in Nat /\ overlapped \in BOOLEAN

\* AC-12, a soak interrupt cannot yield a false Passed: a run is recorded as
\* completed only when its own task slept through the whole duration.
CompletedRanInFull ==
    \A k \in Run : status[k] = "completed" => k \in ended

\* The same, while no request came in during the cancellation of a soak.
CompletedSerially == ~overlapped => CompletedRanInFull

\* Nor does the runner then lose a soak: a task that is still running is the
\* one self.task and self.run_id name, its row is open and the output shows it;
\* and the soak pattern never stays on the output after its soak is over.
LiveRunOwned ==
    ~overlapped =>
        /\ \A k \in Run : live[k] = "running" =>
              task = k /\ runId = k /\ status[k] = "running" /\ pattern = "soak"
        /\ pattern = "soak" => Running \/ ready # <<>>

\* The row of the running soak counts the disconnections that happened during
\* it, and none of an earlier soak.
FaultsOfThisRun ==
    ~overlapped /\ Running => faults[runId] = outages[runId]

\* A row that was closed is never touched again, however requests overlap: no
\* completion or interruption is rewritten and no fault is added to it.
ClosedRunsFrozen ==
    [][\A k \in Run : status[k] \in {"completed", "interrupted"} =>
          status'[k] = status[k] /\ faults'[k] = faults[k]]_vars

\* Every soak that was started is closed one day, as completed or as
\* interrupted ("interruption is logged", AC-12), unless the process was killed
\* or requests overlapped.
EveryRunCloses ==
    \A k \in Run : status[k] = "running"
        ~> status[k] # "running" \/ crashes > 0 \/ overlapped

=============================================================================
