--------------------------- MODULE SoakRunnerProofs ---------------------------
(***************************************************************************)
(* What the table soak_run, the runner and the output say of a soak, for   *)
(* any number of requests at once, of soaks, outages and stops.            *)
(***************************************************************************)
EXTENDS SoakRunner, FiniteSetTheorems, SequenceTheorems, TLAPS

\* The rows of the table are numbered from 1, and every request for a soak that
\* waits will find room for its row.
Booked ==
    /\ IsFiniteSet(Asked)
    /\ \E n \in 0..MaxRuns : Created = 1..n /\ n + Cardinality(Asked) <= MaxRuns
    /\ \A h \in Handler : op[h] = "soak" => pc[h] # 0

\* A task comes with its row; run_id names an open row, if any.
RowsInv ==
    /\ \A k \in Run : live[k] = "none" <=> status[k] = "none"
    /\ \A k \in Run : status[k] = "none" => faults[k] = 0 /\ outages[k] = 0
    /\ task # 0 => status[task] # "none"
    /\ runId # 0 => status[runId] = "running"

\* Somebody waits for the tasks that are being cancelled and for no other, and
\* no batch is empty.
QueueInv ==
    /\ \A k \in Run : live[k] = "cancelling" <=> waiters[k] # <<>>
    /\ \A i \in 1..Len(ready) : ready[i] # <<>>

RunnerInv == TypeOK /\ Booked /\ RowsInv /\ QueueInv

-----------------------------------------------------------------------------
(* The next row.                                                           *)

\* The row that start inserts is the first free one.
LEMMA NextRow ==
    ASSUME TypeOK, Booked
    PROVE  /\ Cardinality(Created) \in Nat /\ Cardinality(Asked) \in Nat
           /\ Created = 1..Cardinality(Created)
           /\ Cardinality(Created) + Cardinality(Asked) <= MaxRuns
PROOF
<1>1. PICK n \in 0..MaxRuns : Created = 1..n /\ n + Cardinality(Asked) <= MaxRuns
  BY DEF Booked
<1>2. n \in Nat /\ Cardinality(Created) = n
  BY <1>1, SoakBounds, FS_Interval
<1>3. Cardinality(Asked) \in Nat
  BY FS_CardinalityType DEF Booked
<1> QED
  BY <1>1, <1>2, <1>3

\* What Proceed leaves, given a table that differs from the one found only in
\* that a row may have been closed.
Closed(st) == /\ st \in [Run -> {"none", "running", "completed", "interrupted"}]
              /\ \A k \in Run : st[k] = "none" <=> status[k] = "none"
              /\ \A k \in Run : st[k] = status[k] \/ k = runId

\* What a handler does once no soak runs keeps the types and the bookings.
LEMMA ProceedsTyped ==
    ASSUME TypeOK, Booked, RowsInv,
           NEW o, NEW st, NEW t \in Run \cup {0}, NEW r \in Run \cup {0},
           Proceed(o, st, t, r), Closed(st),
           t # 0 => status[t] # "none", r # 0 => st[r] = "running",
           o = "soak" => Cardinality(Created) < MaxRuns,
           UNCHANGED <<faults, outages>>
    PROVE  /\ status' \in [Run -> {"none", "running", "completed", "interrupted"}]
           /\ live' \in [Run -> {"none", "running", "cancelling", "done"}]
           /\ task' \in Run \cup {0} /\ runId' \in Run \cup {0} /\ counted' \in Nat
           /\ pattern' \in {"identify", "soak", "other"}
           /\ RowsInv'
           /\ IF o = "soak"
              THEN /\ Created' = 1..(Cardinality(Created) + 1)
                   /\ task' = Cardinality(Created) + 1 /\ runId' = task'
                   /\ status[task'] = "none"
                   /\ live' = [live EXCEPT ![task'] = "running"]
                   /\ status' = [st EXCEPT ![task'] = "running"]
              ELSE Created' = Created /\ live' = live /\ status' = st
PROOF
<1> DEFINE k == Cardinality(Created) + 1
<1>1. /\ Cardinality(Created) \in Nat /\ Created = 1..Cardinality(Created)
      /\ Cardinality(Created) <= MaxRuns /\ MaxRuns \in Nat
  BY NextRow, SoakBounds
<1>2. CASE o = "soak"
  <2>1. k \in Run /\ k \notin Created /\ Created \cup {k} = 1..k
    BY <1>1, <1>2 DEF Run
  <2>2. status[k] = "none" /\ live[k] = "none" /\ faults[k] = 0 /\ outages[k] = 0
    BY <2>1 DEF Created, RowsInv
  <2>3. /\ status' = [st EXCEPT ![k] = "running"]
        /\ live' = [live EXCEPT ![k] = "running"]
        /\ task' = k /\ runId' = k /\ counted' = 0 /\ pattern' = "soak"
    BY <1>2 DEF Proceed
  <2>4. \A j \in Run : status'[j] = IF j = k THEN "running" ELSE st[j]
    BY <2>3, <2>1 DEF Closed
  <2>5. \A j \in Run : live'[j] = IF j = k THEN "running" ELSE live[j]
    BY <2>3, <2>1 DEF TypeOK
  <2>6. Created' = Created \cup {k}
    BY <2>1, <2>4 DEF Created, Closed
  <2>7. RowsInv'
    BY <2>1, <2>3, <2>4, <2>5 DEF RowsInv, Closed, Run
  <2>8. k # 0
    BY <1>1
  <2> HIDE DEF k
  <2>9. /\ status' \in [Run -> {"none", "running", "completed", "interrupted"}]
        /\ live' \in [Run -> {"none", "running", "cancelling", "done"}]
    BY <2>3, <2>1 DEF Closed, TypeOK
  <2>10. Created' = 1..k
    BY <2>1, <2>6
  <2> QED
    BY <1>2, <2>1, <2>2, <2>3, <2>7, <2>9, <2>10 DEF k
<1>3. CASE o # "soak"
  <2>1. /\ status' = st /\ task' = t /\ runId' = r
        /\ pattern' \in {"identify", "other"} /\ live' = live /\ counted' = counted
    BY <1>3 DEF Proceed
  <2>2. Created' = Created
    BY <2>1 DEF Created, Closed
  <2>3. RowsInv'
    BY <2>1 DEF RowsInv, Closed
  <2> QED
    BY <1>3, <2>1, <2>2, <2>3 DEF Closed, TypeOK
<1> QED
  BY <1>2, <1>3

\* A row that run_id names is closed, and no other touched.
LEMMA Finishing ==
    ASSUME TypeOK, RowsInv, NEW result \in {"completed", "interrupted"}
    PROVE  /\ Closed(Finished(result))
           /\ Closed(status)
           /\ runId # 0 => Finished(result)[runId] = result
           /\ runId = 0 => Finished(result) = status
           /\ \A k \in Run : k # runId => Finished(result)[k] = status[k]
PROOF
<1>1. status \in [Run -> {"none", "running", "completed", "interrupted"}]
      /\ runId \in Run \cup {0}
  BY DEF TypeOK
<1>2. CASE runId = 0
  BY <1>1, <1>2 DEF Finished, Closed
<1>3. CASE runId # 0
  <2>1. Finished(result) = [status EXCEPT ![runId] = result] /\ runId \in Run
    BY <1>1, <1>3 DEF Finished
  <2>2. \A k \in Run : Finished(result)[k] = IF k = runId THEN result ELSE status[k]
    BY <1>1, <2>1
  <2>3. Finished(result) \in [Run -> {"none", "running", "completed", "interrupted"}]
    BY <1>1, <2>1
  <2>4. status[runId] = "running"
    BY <1>3 DEF RowsInv
  <2> QED
    BY <1>1, <1>3, <2>1, <2>2, <2>3, <2>4 DEF Closed
<1> QED
  BY <1>2, <1>3

-----------------------------------------------------------------------------
(* The invariant of all behaviours, one lemma per action.                  *)

\* Nothing was asked for and nothing is on its way.
LEMMA RunnerInit == Init => RunnerInv
PROOF
<1> SUFFICES ASSUME Init PROVE RunnerInv
  OBVIOUS
<1>1. Asked = {} /\ Created = {}
  BY DEF Init, Asked, Created
<1>2. IsFiniteSet(Asked) /\ Cardinality(Asked) = 0
  BY <1>1, FS_EmptySet
<1>3. Created = 1..0 /\ 0 \in 0..MaxRuns
  BY <1>1, SoakBounds
<1>4. Booked
  <2>1. 0 + Cardinality(Asked) <= MaxRuns
    BY <1>2, SoakBounds
  <2>2. \E n \in 0..MaxRuns : Created = 1..n /\ n + Cardinality(Asked) <= MaxRuns
    BY <1>3, <2>1
  <2>3. \A h \in Handler : op[h] # "soak"
    BY DEF Init
  <2> QED
    BY <1>2, <2>2, <2>3 DEF Booked
<1>5. \A S : <<>> \in Seq(S)
  BY EmptySeq
<1>6. TypeOK
  BY <1>5 DEF Init, TypeOK, Op
<1> QED
  BY <1>4, <1>6 DEF Init, RunnerInv, RowsInv, QueueInv, Run

\* A request that finds no soak proceeds at once.
LEMMA CallIdleTyped ==
    ASSUME RunnerInv, NEW h \in Handler, NEW o \in Op, CallIdle(h, o)
    PROVE  RunnerInv'
PROOF
<1>1. TypeOK /\ Booked /\ RowsInv /\ QueueInv
  BY DEF RunnerInv
<1> DEFINE t == IF o = "pattern" THEN task ELSE 0
<1>2. t \in Run \cup {0} /\ (t # 0 => status[t] # "none")
  BY <1>1 DEF TypeOK, RowsInv
<1>3. o = "soak" => Cardinality(Created) < MaxRuns
  <2>1. /\ Cardinality(Created) \in Nat /\ Cardinality(Asked) \in Nat
        /\ o = "soak" => Cardinality(Created) + Cardinality(Asked) < MaxRuns
    BY <1>1, NextRow DEF CallIdle, Room
  <2> QED
    BY <2>1, SoakBounds
<1>4. Proceed(o, status, t, runId) /\ UNCHANGED <<faults, outages, ended, handlers>>
  BY DEF CallIdle
<1>5. Closed(status) /\ runId \in Run \cup {0} /\ (runId # 0 => status[runId] = "running")
  BY <1>1, Finishing DEF TypeOK, RowsInv
<1> HIDE DEF t
<1>6. /\ status' \in [Run -> {"none", "running", "completed", "interrupted"}]
      /\ live' \in [Run -> {"none", "running", "cancelling", "done"}]
      /\ task' \in Run \cup {0} /\ runId' \in Run \cup {0} /\ counted' \in Nat
      /\ pattern' \in {"identify", "soak", "other"}
      /\ RowsInv'
      /\ IF o = "soak"
         THEN /\ Created' = 1..(Cardinality(Created) + 1)
              /\ task' = Cardinality(Created) + 1 /\ runId' = task'
              /\ status[task'] = "none"
              /\ live' = [live EXCEPT ![task'] = "running"]
              /\ status' = [status EXCEPT ![task'] = "running"]
         ELSE Created' = Created /\ live' = live /\ status' = status
  BY <1>1, <1>2, <1>3, <1>4, <1>5, ProceedsTyped
<1>7. TypeOK'
  BY <1>1, <1>4, <1>6 DEF TypeOK, CallIdle, handlers, Overlaps
<1>8. Asked' = Asked
  BY <1>4 DEF handlers, Asked
<1>9. Booked'
  <2>1. /\ Cardinality(Created) \in Nat /\ Cardinality(Asked) \in Nat
        /\ Created = 1..Cardinality(Created)
        /\ Cardinality(Created) + Cardinality(Asked) <= MaxRuns
        /\ o = "soak" => Cardinality(Created) + Cardinality(Asked) < MaxRuns
    BY <1>1, NextRow DEF CallIdle, Room
  <2>2. CASE o = "soak"
    <3>1. Created' = 1..(Cardinality(Created) + 1)
      BY <1>6, <2>2
    <3>2. Cardinality(Created) + 1 \in 0..MaxRuns
          /\ Cardinality(Created) + 1 + Cardinality(Asked) <= MaxRuns
      BY <2>1, <2>2, SoakBounds
    <3> QED
      BY <1>1, <1>4, <1>8, <3>1, <3>2 DEF Booked, handlers
  <2>3. CASE o # "soak"
    BY <1>1, <1>4, <1>6, <1>8, <2>3 DEF Booked, handlers
  <2> QED
    BY <2>2, <2>3
<1>10. QueueInv'
  <2>1. waiters' = waiters /\ ready' = ready
    BY <1>4 DEF handlers
  <2>2. \A k \in Run : live'[k] = "cancelling" <=> live[k] = "cancelling"
    <3>1. CASE o = "soak"
      BY <1>1, <1>6, <3>1 DEF TypeOK, RowsInv
    <3>2. CASE o # "soak"
      BY <1>6, <3>2
    <3> QED
      BY <3>1, <3>2
  <2> QED
    BY <1>1, <2>1, <2>2 DEF QueueInv
<1> QED
  BY <1>6, <1>7, <1>9, <1>10 DEF RunnerInv

\* A request that cancels a soak is added to those that wait for it.
LEMMA CallBusyTyped ==
    ASSUME RunnerInv, NEW h \in Handler, NEW o \in Op, CallBusy(h, o)
    PROVE  RunnerInv'
PROOF
<1>1. TypeOK /\ Booked /\ RowsInv /\ QueueInv
  BY DEF RunnerInv
<1>2. task \in Run /\ live[task] # "done" /\ status[task] # "none"
  BY <1>1 DEF CallBusy, Running, TypeOK, RowsInv
<1>3. /\ live' = [live EXCEPT ![task] = "cancelling"]
      /\ pc' = [pc EXCEPT ![h] = task] /\ op' = [op EXCEPT ![h] = o]
      /\ waiters' = [waiters EXCEPT ![task] = Append(@, h)]
      /\ UNCHANGED <<rows, runner, ready, draining, crashes, shutdowns>>
      /\ pc[h] = 0
  BY DEF CallBusy
<1>4. Append(waiters[task], h) \in Seq(Handler) /\ Append(waiters[task], h) # <<>>
  BY <1>1, <1>2, AppendProperties DEF TypeOK
<1>5. TypeOK'
  BY <1>1, <1>2, <1>3, <1>4 DEF TypeOK, CallBusy, Overlaps, rows, runner
<1>6. RowsInv'
  BY <1>1, <1>2, <1>3 DEF RowsInv, TypeOK, rows, runner
<1>7. QueueInv'
  BY <1>1, <1>2, <1>3, <1>4 DEF QueueInv, TypeOK
<1>8. Created' = Created
  BY <1>3 DEF Created, rows
<1>9. /\ \A g \in Handler \ {h} : pc'[g] = pc[g] /\ op'[g] = op[g]
      /\ pc'[h] = task /\ op'[h] = o /\ task # 0
  BY <1>1, <1>2, <1>3 DEF TypeOK, Run
<1>10. /\ Asked' = IF o = "soak" THEN Asked \cup {h} ELSE Asked
       /\ h \notin Asked
  BY <1>3, <1>9 DEF Asked
<1>11. Booked'
  <2>1. IsFiniteSet(Asked')
    BY <1>1, <1>10, FS_AddElement DEF Booked
  <2>2. Cardinality(Asked') = Cardinality(Asked) + (IF o = "soak" THEN 1 ELSE 0)
    <3>1. IsFiniteSet(Asked) /\ Cardinality(Asked) \in Nat
      BY <1>1, NextRow DEF Booked
    <3>2. CASE o = "soak"
      BY <1>10, <3>1, <3>2, FS_AddElement
    <3>3. CASE o # "soak"
      BY <1>10, <3>1, <3>3
    <3> QED
      BY <3>2, <3>3
  <2>3. /\ Cardinality(Created) \in Nat /\ Cardinality(Asked) \in Nat
        /\ Created = 1..Cardinality(Created)
        /\ Cardinality(Created) + Cardinality(Asked) <= MaxRuns
        /\ o = "soak" => Cardinality(Created) + Cardinality(Asked) < MaxRuns
    BY <1>1, NextRow DEF CallBusy, Room
  <2>4. Cardinality(Created) \in 0..MaxRuns
        /\ Cardinality(Created) + Cardinality(Asked') <= MaxRuns
    BY <2>2, <2>3, SoakBounds
  <2>5. \A g \in Handler : op'[g] = "soak" => pc'[g] # 0
    BY <1>1, <1>9 DEF Booked
  <2> QED
    BY <1>8, <2>1, <2>3, <2>4, <2>5 DEF Booked
<1> QED
  BY <1>5, <1>6, <1>7, <1>11 DEF RunnerInv

\* What waited for a cancelled task becomes one batch.
LEMMA CancelledTyped ==
    ASSUME RunnerInv, NEW k \in Run, Cancelled(k)
    PROVE  RunnerInv'
PROOF
<1>1. TypeOK /\ Booked /\ RowsInv /\ QueueInv
  BY DEF RunnerInv
<1>2. /\ live[k] = "cancelling" /\ live' = [live EXCEPT ![k] = "done"]
      /\ ready' = Append(ready, waiters[k])
      /\ waiters' = [waiters EXCEPT ![k] = <<>>]
      /\ UNCHANGED <<rows, runner, pc, op, draining, tally>>
  BY DEF Cancelled
<1>3. waiters[k] # <<>> /\ waiters[k] \in Seq(Handler)
  BY <1>1, <1>2 DEF QueueInv, TypeOK
<1>4. /\ ready' \in Seq(Seq(Handler)) /\ Len(ready') = Len(ready) + 1
      /\ \A i \in 1..Len(ready) : ready'[i] = ready[i]
      /\ ready'[Len(ready) + 1] = waiters[k]
  BY <1>1, <1>2, <1>3, AppendProperties DEF TypeOK
<1>5. Len(ready) \in Nat
  BY <1>1, LenProperties DEF TypeOK
<1>6. ASSUME NEW i \in 1..Len(ready') PROVE ready'[i] # <<>>
  <2>1. i \in 1..Len(ready) \/ i = Len(ready) + 1
    BY <1>4, <1>5
  <2>2. CASE i \in 1..Len(ready)
    BY <1>1, <1>4, <2>2 DEF QueueInv
  <2>3. CASE i = Len(ready) + 1
    BY <1>3, <1>4, <2>3
  <2> QED
    BY <2>1, <2>2, <2>3
<1>7. TypeOK'
  BY <1>1, <1>2, <1>4, EmptySeq DEF TypeOK, rows, runner, tally
<1>8. QueueInv'
  BY <1>1, <1>2, <1>6 DEF QueueInv, TypeOK
<1>9. RowsInv'
  BY <1>1, <1>2 DEF RowsInv, TypeOK, rows, runner
<1>10. Booked'
  BY <1>1, <1>2 DEF Booked, Asked, Created, rows
<1> QED
  BY <1>7, <1>8, <1>9, <1>10 DEF RunnerInv

\* Head and tail of the queue of batches.
LEMMA Batches ==
    ASSUME TypeOK, QueueInv, ready # <<>>,
           NEW rest, rest = Tail(Head(ready)),
           NEW left, left = IF rest = <<>> THEN Tail(ready) ELSE <<rest>> \o Tail(ready)
    PROVE  /\ Head(ready) \in Seq(Handler) /\ Head(ready) # <<>>
           /\ Head(Head(ready)) \in Handler
           /\ left \in Seq(Seq(Handler))
           /\ \A i \in 1..Len(left) : left[i] # <<>>
PROOF
<1>1. /\ ready \in Seq(Seq(Handler)) /\ ready # <<>>
      /\ \A i \in 1..Len(ready) : ready[i] # <<>>
  BY DEF TypeOK, QueueInv
<1>2. /\ Len(ready) \in Nat \ {0} /\ Head(ready) = ready[1]
  BY <1>1, LenProperties, EmptySeq, HeadTailProperties
<1>3. Head(ready) \in Seq(Handler) /\ Head(ready) # <<>>
  BY <1>1, <1>2, ElementOfSeq
<1>4. Head(Head(ready)) \in Handler /\ rest \in Seq(Handler)
  BY <1>3, HeadTailProperties
<1>5. /\ Tail(ready) \in Seq(Seq(Handler)) /\ Len(Tail(ready)) = Len(ready) - 1
      /\ \A i \in 1..Len(Tail(ready)) : Tail(ready)[i] = ready[i + 1]
  BY <1>1, HeadTailProperties
<1>6. \A i \in 1..Len(Tail(ready)) : Tail(ready)[i] # <<>>
  BY <1>1, <1>2, <1>5
<1>7. CASE rest = <<>>
  BY <1>3, <1>4, <1>5, <1>6, <1>7
<1>8. CASE rest # <<>>
  <2>1. /\ <<rest>> \in Seq(Seq(Handler)) /\ Len(<<rest>>) = 1 /\ <<rest>>[1] = rest
    BY <1>4
  <2>2. /\ left = <<rest>> \o Tail(ready)
        /\ left \in Seq(Seq(Handler)) /\ Len(left) = 1 + Len(Tail(ready))
        /\ \A i \in 1..Len(left) : left[i] = IF i <= 1 THEN <<rest>>[i]
                                             ELSE Tail(ready)[i - 1]
    BY <1>5, <1>8, <2>1, ConcatProperties
  <2>3. ASSUME NEW i \in 1..Len(left) PROVE left[i] # <<>>
    <3>1. CASE i = 1
      BY <1>8, <2>1, <2>2, <3>1
    <3>2. CASE i # 1
      <4>1. Len(Tail(ready)) \in Nat /\ Len(left) = 1 + Len(Tail(ready))
        BY <1>5, <2>2, LenProperties
      <4>2. i - 1 \in 1..Len(Tail(ready)) /\ ~(i <= 1)
        BY <3>2, <4>1
      <4>3. left[i] = Tail(ready)[i - 1]
        BY <2>2, <4>2
      <4> QED
        BY <1>6, <4>2, <4>3
    <3> QED
      BY <3>1, <3>2
  <2> QED
    BY <1>3, <1>4, <2>2, <2>3
<1> QED
  BY <1>7, <1>8

\* What is left of stop: the row of run_id is closed, the request proceeds.
LEMMA ResumeTyped ==
    ASSUME RunnerInv, Resume
    PROVE  RunnerInv'
PROOF
<1>1. TypeOK /\ Booked /\ RowsInv /\ QueueInv
  BY DEF RunnerInv
<1> DEFINE h == Head(Head(ready))
           rest == Tail(Head(ready))
           left == IF rest = <<>> THEN Tail(ready) ELSE <<rest>> \o Tail(ready)
           st == Finished("interrupted")
<1>2. /\ Proceed(op[h], st, 0, 0)
      /\ pc' = [pc EXCEPT ![h] = 0] /\ op' = [op EXCEPT ![h] = "none"]
      /\ ready' = left /\ draining' = (rest # <<>>)
      /\ ready # <<>>
      /\ UNCHANGED <<faults, outages, ended, waiters, tally>>
  BY DEF Resume
<1>3. /\ h \in Handler /\ left \in Seq(Seq(Handler))
      /\ \A i \in 1..Len(left) : left[i] # <<>>
  BY <1>1, <1>2, Batches
<1>4. Closed(st)
  BY <1>1, Finishing
<1>5. op[h] = "soak" => h \in Asked
  BY <1>1, <1>3 DEF Booked, Asked
<1>6. /\ Cardinality(Created) \in Nat /\ Cardinality(Asked) \in Nat
      /\ Created = 1..Cardinality(Created)
      /\ Cardinality(Created) + Cardinality(Asked) <= MaxRuns
      /\ IsFiniteSet(Asked)
  BY <1>1, NextRow DEF Booked
<1>7. op[h] = "soak" => Cardinality(Asked) # 0
  BY <1>5, <1>6, FS_EmptySet
<1>8. op[h] = "soak" => Cardinality(Created) < MaxRuns
  BY <1>6, <1>7, SoakBounds
<1> HIDE DEF h, rest, left, st
<1>9. /\ status' \in [Run -> {"none", "running", "completed", "interrupted"}]
      /\ live' \in [Run -> {"none", "running", "cancelling", "done"}]
      /\ task' \in Run \cup {0} /\ runId' \in Run \cup {0} /\ counted' \in Nat
      /\ pattern' \in {"identify", "soak", "other"}
      /\ RowsInv'
      /\ IF op[h] = "soak"
         THEN /\ Created' = 1..(Cardinality(Created) + 1)
              /\ task' = Cardinality(Created) + 1 /\ runId' = task'
              /\ status[task'] = "none"
              /\ live' = [live EXCEPT ![task'] = "running"]
              /\ status' = [st EXCEPT ![task'] = "running"]
         ELSE Created' = Created /\ live' = live /\ status' = st
  BY <1>1, <1>2, <1>4, <1>8, ProceedsTyped
<1>10. TypeOK'
  BY <1>1, <1>2, <1>3, <1>9 DEF TypeOK, tally
<1>11. /\ \A g \in Handler \ {h} : pc'[g] = pc[g] /\ op'[g] = op[g]
       /\ pc'[h] = 0 /\ op'[h] = "none"
  BY <1>1, <1>2, <1>3 DEF TypeOK
<1>12. Asked' = Asked \ {h}
  BY <1>11 DEF Asked
<1>13. Booked'
  <2>1. IsFiniteSet(Asked')
    BY <1>6, <1>12, FS_RemoveElement
  <2>2. \A g \in Handler : op'[g] = "soak" => pc'[g] # 0
    BY <1>1, <1>11 DEF Booked
  <2>3. CASE op[h] = "soak"
    <3>1. Cardinality(Asked') = Cardinality(Asked) - 1
      BY <1>5, <1>6, <1>12, <2>3, FS_RemoveElement
    <3>2. Cardinality(Created) + 1 \in 0..MaxRuns
          /\ Cardinality(Created) + 1 + Cardinality(Asked') <= MaxRuns
      BY <1>6, <1>8, <2>3, <3>1, SoakBounds
    <3>3. Created' = 1..(Cardinality(Created) + 1)
      BY <1>9, <2>3
    <3> QED
      BY <2>1, <2>2, <3>2, <3>3 DEF Booked
  <2>4. CASE op[h] # "soak"
    <3>1. Asked' = Asked /\ Created' = Created
      BY <1>9, <1>12, <2>4 DEF Asked
    <3> QED
      BY <1>1, <2>1, <2>2, <3>1 DEF Booked
  <2> QED
    BY <2>3, <2>4
<1>14. QueueInv'
  <2>1. \A k \in Run : live'[k] = "cancelling" <=> live[k] = "cancelling"
    <3>1. CASE op[h] = "soak"
      BY <1>1, <1>9, <3>1 DEF TypeOK, RowsInv
    <3>2. CASE op[h] # "soak"
      BY <1>9, <3>2
    <3> QED
      BY <3>1, <3>2
  <2> QED
    BY <1>1, <1>2, <1>3, <2>1 DEF QueueInv
<1> QED
  BY <1>9, <1>10, <1>13, <1>14 DEF RunnerInv

\* The end of a soak closes a row and keeps the others.
LEMMA RunEndsTyped ==
    ASSUME RunnerInv, NEW k \in Run, RunEnds(k)
    PROVE  RunnerInv'
PROOF
<1>1. TypeOK /\ Booked /\ RowsInv /\ QueueInv
  BY DEF RunnerInv
<1>2. /\ live[k] = "running" /\ live' = [live EXCEPT ![k] = "done"]
      /\ status' = Finished("completed") /\ runId' = 0
      /\ ended' = ended \cup {k} /\ pattern' = "identify"
      /\ UNCHANGED <<faults, outages, task, counted, handlers, tally>>
  BY DEF RunEnds
<1>3. Closed(status')
  BY <1>1, <1>2, Finishing
<1>4. TypeOK'
  BY <1>1, <1>2, <1>3 DEF TypeOK, Closed, handlers, tally
<1>5. RowsInv'
  BY <1>1, <1>2, <1>3 DEF RowsInv, Closed, TypeOK
<1>6. Created' = Created /\ Asked' = Asked
  BY <1>2, <1>3 DEF Created, Asked, Closed, handlers
<1>7. Booked' /\ QueueInv'
  BY <1>1, <1>2, <1>6 DEF Booked, QueueInv, handlers, TypeOK
<1> QED
  BY <1>4, <1>5, <1>7 DEF RunnerInv

\* A fault is added to the row that run_id names.
LEMMA OutageTyped ==
    ASSUME RunnerInv, Outage
    PROVE  RunnerInv'
PROOF
<1>1. TypeOK /\ Booked /\ RowsInv /\ QueueInv
  BY DEF RunnerInv
<1>2. UNCHANGED <<status, ended, live, task, runId, pattern, handlers, tally>>
  BY DEF Outage
<1>3. /\ outages' \in [Run -> Nat] /\ counted' \in Nat /\ faults' \in [Run -> Nat]
      /\ \A k \in Run : status[k] = "none" => faults'[k] = 0 /\ outages'[k] = 0
  BY <1>1, SMTT(40) DEF Outage, TypeOK, RowsInv
<1>4. TypeOK'
  BY <1>1, <1>2, <1>3 DEF TypeOK, handlers, tally
<1>5. RowsInv'
  BY <1>1, <1>2, <1>3 DEF RowsInv
<1>6. Booked' /\ QueueInv'
  BY <1>1, <1>2 DEF Booked, QueueInv, handlers, Created, Asked
<1> QED
  BY <1>4, <1>5, <1>6 DEF RunnerInv

\* A process that starts has rows and nothing else.
LEMMA StartedTyped ==
    ASSUME RunnerInv, Crash \/ Shutdown
    PROVE  RunnerInv'
PROOF
<1>1. TypeOK /\ Booked /\ RowsInv /\ QueueInv
  BY DEF RunnerInv
<1>2. Started /\ UNCHANGED <<faults, outages, ended, overlapped>>
  BY DEF Crash, Shutdown, rows
<1>3. Closed(status')
  BY <1>1, Finishing DEF Crash, Shutdown, rows
<1>4. /\ live' = [k \in Run |-> IF live[k] = "none" THEN "none" ELSE "done"]
      /\ task' = 0 /\ runId' = 0 /\ counted' = 0 /\ pattern' = "identify"
      /\ pc' = [h \in Handler |-> 0] /\ op' = [h \in Handler |-> "none"]
      /\ waiters' = [k \in Run |-> <<>>]
      /\ ready' = <<>> /\ draining' = FALSE
  BY <1>2 DEF Started
<1>5. crashes' \in Nat /\ shutdowns' \in Nat
  BY <1>1 DEF Crash, Shutdown, TypeOK
<1>6. \A S : <<>> \in Seq(S)
  BY EmptySeq
<1>7. TypeOK'
  BY <1>1, <1>2, <1>3, <1>4, <1>5, <1>6 DEF TypeOK, Closed
<1>8. RowsInv'
  BY <1>1, <1>2, <1>3, <1>4 DEF RowsInv, Closed
<1>9. QueueInv'
  BY <1>4 DEF QueueInv
<1>10. Created' = Created /\ Asked' = {}
  BY <1>3, <1>4 DEF Created, Asked, Closed
<1>11. Booked'
  <2>1. IsFiniteSet({}) /\ Cardinality({}) = 0
    BY FS_EmptySet
  <2>2. /\ Cardinality(Created) \in Nat /\ Cardinality(Asked) \in Nat
        /\ Created = 1..Cardinality(Created)
        /\ Cardinality(Created) + Cardinality(Asked) <= MaxRuns
    BY <1>1, NextRow
  <2>3. Cardinality(Created) \in 0..MaxRuns /\ Cardinality(Created) + 0 <= MaxRuns
    BY <2>2, SoakBounds
  <2> QED
    BY <1>4, <1>10, <2>1, <2>2, <2>3 DEF Booked
<1> QED
  BY <1>7, <1>8, <1>9, <1>11 DEF RunnerInv

\* Every step of the runner keeps its invariant.
LEMMA RunnerStep == RunnerInv /\ [Next]_vars => RunnerInv'
PROOF
<1> SUFFICES ASSUME RunnerInv, [Next]_vars PROVE RunnerInv'
  OBVIOUS
<1>1. CASE Call
  BY <1>1, CallIdleTyped, CallBusyTyped DEF Call
<1>2. CASE Resume
  BY <1>2, ResumeTyped
<1>3. CASE Outage
  BY <1>3, OutageTyped
<1>4. CASE Crash \/ Shutdown
  BY <1>4, StartedTyped
<1>5. CASE \E k \in Run : Cancelled(k) \/ RunEnds(k)
  BY <1>5, CancelledTyped, RunEndsTyped
<1>6. CASE UNCHANGED vars
  BY <1>6 DEF RunnerInv, TypeOK, Booked, RowsInv, QueueInv, Asked, Created,
              vars, rows, runner, handlers, tally
<1> QED
  BY <1>1, <1>2, <1>3, <1>4, <1>5, <1>6 DEF Next

\* The invariant of the runner holds in every reachable state.
LEMMA RunnerInvariant == Spec => []RunnerInv
PROOF
  BY RunnerInit, RunnerStep, PTL DEF Spec

\* No request, outage, kill or stop gives a row, a task or a queue that the
\* code does not have, and a new soak always finds a new row.
THEOREM TypesOfSoaks == Spec => []TypeOK
PROOF
<1>1. RunnerInv => TypeOK
  BY DEF RunnerInv
<1> QED
  BY <1>1, RunnerInvariant, PTL

-----------------------------------------------------------------------------
(* Closed rows.                                                            *)

\* A row that is closed is not the one run_id names, nor a new one; nothing else
\* is ever written.
LEMMA ClosedStep ==
    ASSUME RunnerInv, [Next]_vars, NEW k \in Run,
           status[k] \in {"completed", "interrupted"}
    PROVE  status'[k] = status[k] /\ faults'[k] = faults[k]
PROOF
<1>1. TypeOK /\ Booked /\ RowsInv /\ QueueInv
  BY DEF RunnerInv
<1>2. k # runId /\ status[k] # "none"
  BY <1>1 DEF RowsInv, Run
<1>3. /\ Finished("completed")[k] = status[k]
      /\ Finished("interrupted")[k] = status[k]
  BY <1>1, <1>2, Finishing
<1>4. ASSUME NEW o, NEW st, NEW t, NEW r, Proceed(o, st, t, r), Closed(st),
             o = "soak" => Cardinality(Created) < MaxRuns,
             st[k] = status[k]
      PROVE  status'[k] = status[k]
  <2>1. CASE o = "soak"
    <3>1. status' = [st EXCEPT ![Cardinality(Created) + 1] = "running"]
      BY <1>4, <2>1 DEF Proceed
    <3>2. k # Cardinality(Created) + 1
      <4>1. Created = 1..Cardinality(Created) /\ Cardinality(Created) \in Nat
        BY <1>1, NextRow
      <4>2. k \in Created
        BY <1>2 DEF Created
      <4> QED
        BY <4>1, <4>2
    <3> QED
      BY <1>4, <3>1, <3>2 DEF Closed
  <2>2. CASE o # "soak"
    BY <1>4, <2>2 DEF Proceed
  <2> QED
    BY <2>1, <2>2
<1>5. CASE Call
  <2>1. PICK h \in Handler, o \in Op : CallIdle(h, o) \/ CallBusy(h, o)
    BY <1>5 DEF Call
  <2>2. CASE CallIdle(h, o)
    <3>1. Closed(status)
      BY <1>1, Finishing
    <3>2. Cardinality(Created) \in Nat /\ Cardinality(Asked) \in Nat
          /\ (o = "soak" => Cardinality(Created) + Cardinality(Asked) < MaxRuns)
      BY <1>1, <2>2, NextRow DEF CallIdle, Room
    <3>3. o = "soak" => Cardinality(Created) < MaxRuns
      BY <3>2, SoakBounds
    <3>4. Proceed(o, status, IF o = "pattern" THEN task ELSE 0, runId)
          /\ faults' = faults
      BY <2>2 DEF CallIdle
    <3> QED
      BY <1>4, <3>1, <3>3, <3>4
  <2>3. CASE CallBusy(h, o)
    BY <2>3 DEF CallBusy, rows
  <2> QED
    BY <2>1, <2>2, <2>3
<1>6. CASE Resume
  <2> DEFINE h == Head(Head(ready))
  <2>1. Closed(Finished("interrupted"))
    BY <1>1, Finishing
  <2>2. h \in Handler
    BY <1>1, <1>6, Batches DEF Resume
  <2>3. /\ Cardinality(Created) \in Nat /\ Cardinality(Asked) \in Nat
        /\ Cardinality(Created) + Cardinality(Asked) <= MaxRuns
        /\ IsFiniteSet(Asked)
    BY <1>1, NextRow DEF Booked
  <2>4. op[h] = "soak" => Cardinality(Asked) # 0
    BY <1>1, <2>2, <2>3, FS_EmptySet DEF Booked, Asked
  <2>5. op[h] = "soak" => Cardinality(Created) < MaxRuns
    BY <2>3, <2>4, SoakBounds
  <2>6. Proceed(op[h], Finished("interrupted"), 0, 0) /\ faults' = faults
    BY <1>6 DEF Resume
  <2> HIDE DEF h
  <2> QED
    BY <1>3, <1>4, <2>1, <2>5, <2>6
<1>7. CASE Outage
  BY <1>1, <1>2, <1>7 DEF Outage, TypeOK
<1>8. CASE Crash \/ Shutdown
  BY <1>3, <1>8 DEF Crash, Shutdown, rows
<1>9. CASE \E j \in Run : Cancelled(j) \/ RunEnds(j)
  BY <1>3, <1>9 DEF Cancelled, RunEnds, rows
<1>10. CASE UNCHANGED vars
  BY <1>10 DEF vars, rows
<1> QED
  BY <1>5, <1>6, <1>7, <1>8, <1>9, <1>10 DEF Next

\* AC-12, interruptions are recorded and stay recorded: however requests overlap
\* and whatever is killed, a closed row of soak_run is never written again.
THEOREM ClosedRunsFrozenAlways == Spec => ClosedRunsFrozen
PROOF
<1>1. RunnerInv /\ [Next]_vars =>
        [\A k \in Run : status[k] \in {"completed", "interrupted"} =>
            status'[k] = status[k] /\ faults'[k] = faults[k]]_vars
  BY ClosedStep
<1> QED
  BY <1>1, RunnerInvariant, PTL DEF Spec, ClosedRunsFrozen

-----------------------------------------------------------------------------
(* While no request comes in during a cancellation.                        *)

\* Nobody waits: run_id, if any, names the one task that runs.
Quiet ==
    /\ ready = <<>>
    /\ \A k \in Run : live[k] # "cancelling"
    /\ \A k \in Run : live[k] = "running" => k = runId
    /\ runId # 0 => live[runId] = "running" /\ task = runId /\ pattern = "soak"
    /\ pattern = "soak" => runId # 0

\* One request waits for the task that run_id names, or is to be resumed.
Stopping(h) ==
    /\ runId # 0 /\ task = runId
    /\ \A k \in Run : live[k] # "running"
    /\ \A k \in Run \ {task} : live[k] # "cancelling"
    /\ \/ live[task] = "cancelling" /\ ready = <<>> /\ waiters[task] = <<h>>
       \/ live[task] = "done" /\ ready = <<<<h>>>>

OneByOne ==
    /\ ~draining
    /\ Waiting = {} => Quiet
    /\ Waiting # {} => \E h \in Handler : Waiting = {h} /\ Stopping(h)
    /\ \A k \in Run : status[k] = "completed" => k \in ended
    /\ Running => runId # 0 /\ counted = outages[runId] /\ faults[runId] = counted

Serial == ~overlapped => OneByOne

\* What the runner looks like between requests.
LEMMA QuietRunner ==
    ASSUME RunnerInv, OneByOne, Waiting = {}
    PROVE  /\ Quiet
           /\ Running <=> runId # 0
           /\ ~Running => \A k \in Run : live[k] \notin {"running", "cancelling"}
PROOF
  BY DEF RunnerInv, OneByOne, Quiet, Running, RowsInv, TypeOK, Run

\* The runner after Proceed, when no task runs or is cancelled any more.
LEMMA ProceedsQuiet ==
    ASSUME RunnerInv,
           NEW o, NEW st, NEW t \in Run \cup {0}, Proceed(o, st, t, 0), Closed(st),
           t # 0 => live[t] = "done",
           o = "soak" => Cardinality(Created) < MaxRuns,
           \A k \in Run : live[k] \notin {"running", "cancelling"},
           \A k \in Run : st[k] = "completed" => k \in ended,
           UNCHANGED <<faults, outages, ended>>, ready' = <<>>
    PROVE  /\ Quiet'
           /\ \A k \in Run : status'[k] = "completed" => k \in ended'
           /\ (Running => runId # 0 /\ counted = outages[runId]
                          /\ faults[runId] = counted)'
PROOF
<1>1. TypeOK /\ Booked /\ RowsInv
  BY DEF RunnerInv
<1> DEFINE k == Cardinality(Created) + 1
<1>2. CASE o = "soak"
  <2>1. Created = 1..Cardinality(Created) /\ Cardinality(Created) \in Nat
    BY <1>1, NextRow
  <2>2. k \in Run /\ k \notin Created /\ k # 0
    BY <1>2, <2>1, SoakBounds DEF Run
  <2>3. faults[k] = 0 /\ outages[k] = 0
    BY <1>1, <2>2 DEF Created, RowsInv
  <2>4. /\ status' = [st EXCEPT ![k] = "running"]
        /\ live' = [live EXCEPT ![k] = "running"]
        /\ task' = k /\ runId' = k /\ counted' = 0 /\ pattern' = "soak"
    BY <1>2 DEF Proceed
  <2> HIDE DEF k
  <2>5. \A j \in Run : live'[j] = IF j = k THEN "running" ELSE live[j]
    BY <1>1, <2>4 DEF TypeOK
  <2>6. \A j \in Run : status'[j] = IF j = k THEN "running" ELSE st[j]
    BY <2>4 DEF Closed
  <2> QED
    BY <2>2, <2>3, <2>4, <2>5, <2>6 DEF Quiet, Running
<1>3. CASE o # "soak"
  <2>1. /\ status' = st /\ task' = t /\ runId' = 0
        /\ pattern' \in {"identify", "other"} /\ live' = live
    BY <1>3 DEF Proceed
  <2>2. ~Running'
    BY <1>1, <2>1 DEF Running
  <2> QED
    BY <2>1, <2>2 DEF Quiet
<1> QED
  BY <1>2, <1>3

\* In the beginning nothing waits and nothing runs.
LEMMA SerialInit == Init => Serial
PROOF
  BY DEF Init, Serial, OneByOne, Waiting, Quiet, Running

\* A request that finds no running soak.
LEMMA CallIdleSerial ==
    ASSUME RunnerInv, Serial, NEW h \in Handler, NEW o \in Op, CallIdle(h, o)
    PROVE  Serial'
PROOF
<1> SUFFICES ASSUME ~overlapped' PROVE OneByOne'
  BY DEF Serial
<1>1. TypeOK /\ Booked /\ RowsInv
  BY DEF RunnerInv
<1>2. ~overlapped /\ Waiting = {}
  BY <1>1 DEF CallIdle, Overlaps, TypeOK
<1>3. OneByOne
  BY <1>2 DEF Serial
<1>4. /\ Quiet /\ runId = 0
      /\ \A k \in Run : live[k] \notin {"running", "cancelling"}
  BY <1>2, <1>3, QuietRunner DEF CallIdle
<1> DEFINE t == IF o = "pattern" THEN task ELSE 0
<1>5. /\ Proceed(o, status, t, 0) /\ UNCHANGED <<faults, outages, ended, handlers>>
      /\ ~Running
  BY <1>4 DEF CallIdle
<1>6. t \in Run \cup {0} /\ (t # 0 => live[t] = "done")
  BY <1>1, <1>5 DEF TypeOK, Running
<1>7. o = "soak" => Cardinality(Created) < MaxRuns
  <2>1. /\ Cardinality(Created) \in Nat /\ Cardinality(Asked) \in Nat
        /\ o = "soak" => Cardinality(Created) + Cardinality(Asked) < MaxRuns
    BY <1>1, NextRow DEF CallIdle, Room
  <2> QED
    BY <2>1, SoakBounds
<1>8. Closed(status) /\ \A k \in Run : status[k] = "completed" => k \in ended
  BY <1>1, <1>3, Finishing DEF OneByOne
<1>9. ready' = <<>> /\ Waiting' = {} /\ ~draining'
  BY <1>2, <1>3, <1>4, <1>5 DEF Quiet, handlers, Waiting, OneByOne
<1> HIDE DEF t
<1> QED
  BY <1>4, <1>5, <1>6, <1>7, <1>8, <1>9, ProceedsQuiet DEF OneByOne

\* A request that cancels the running soak and waits.
LEMMA CallBusySerial ==
    ASSUME RunnerInv, Serial, NEW h \in Handler, NEW o \in Op, CallBusy(h, o)
    PROVE  Serial'
PROOF
<1> SUFFICES ASSUME ~overlapped' PROVE OneByOne'
  BY DEF Serial
<1>1. TypeOK /\ Booked /\ RowsInv /\ QueueInv
  BY DEF RunnerInv
<1>2. ~overlapped /\ Waiting = {}
  BY <1>1 DEF CallBusy, Overlaps, TypeOK
<1>3. OneByOne
  BY <1>2 DEF Serial
<1>4. Quiet /\ runId # 0 /\ task = runId /\ task \in Run /\ live[task] = "running"
  BY <1>1, <1>2, <1>3, QuietRunner DEF CallBusy, Quiet, TypeOK
<1>5. waiters[task] = <<>>
  BY <1>1, <1>4 DEF QueueInv
<1>6. /\ live' = [live EXCEPT ![task] = "cancelling"]
      /\ pc' = [pc EXCEPT ![h] = task]
      /\ waiters' = [waiters EXCEPT ![task] = Append(@, h)]
      /\ UNCHANGED <<rows, runner, ready, draining>>
  BY DEF CallBusy
<1>7. Waiting' = {h}
  BY <1>1, <1>2, <1>4, <1>6 DEF Waiting, TypeOK, Run
<1>8. \A k \in Run : live'[k] = IF k = task THEN "cancelling" ELSE live[k]
  BY <1>1, <1>6 DEF TypeOK
<1>9. waiters'[task] = <<h>>
  BY <1>1, <1>4, <1>5, <1>6 DEF TypeOK
<1>10. Stopping(h)'
  BY <1>4, <1>6, <1>8, <1>9 DEF Stopping, Quiet, runner
<1>11. Running /\ counted = outages[runId] /\ faults[runId] = counted
  BY <1>3 DEF OneByOne, CallBusy
<1> QED
  BY <1>3, <1>4, <1>6, <1>7, <1>10, <1>11 DEF OneByOne, rows, runner

\* The end of a cancelled task wakes those who wait for it.
LEMMA CancelledSerial ==
    ASSUME RunnerInv, Serial, NEW k \in Run, Cancelled(k)
    PROVE  Serial'
PROOF
<1> SUFFICES ASSUME ~overlapped' PROVE OneByOne'
  BY DEF Serial
<1>1. TypeOK /\ RowsInv /\ QueueInv
  BY DEF RunnerInv
<1>2. OneByOne
  BY DEF Serial, Cancelled, tally
<1>3. /\ live[k] = "cancelling" /\ live' = [live EXCEPT ![k] = "done"]
      /\ ready' = Append(ready, waiters[k])
      /\ waiters' = [waiters EXCEPT ![k] = <<>>]
      /\ UNCHANGED <<rows, runner, pc, draining>>
  BY DEF Cancelled
<1>4. PICK h \in Handler : Waiting = {h} /\ Stopping(h)
  BY <1>2, <1>3 DEF OneByOne, Quiet
<1>5. k = task /\ ready = <<>> /\ waiters[k] = <<h>>
  BY <1>3, <1>4 DEF Stopping
<1>6. \A j \in Run : live'[j] = IF j = k THEN "done" ELSE live[j]
  BY <1>1, <1>3 DEF TypeOK
<1>7. ready' = <<<<h>>>>
  BY <1>3, <1>5
<1>8. Stopping(h)'
  BY <1>3, <1>4, <1>5, <1>6, <1>7 DEF Stopping, runner
<1>9. Waiting' = {h} /\ ~Running'
  BY <1>3, <1>4, <1>5, <1>6 DEF Waiting, Running, runner
<1> QED
  BY <1>2, <1>3, <1>8, <1>9 DEF OneByOne, rows

\* The one request that waited goes on: run_id is still its soak's.
LEMMA ResumeSerial ==
    ASSUME RunnerInv, Serial, Resume
    PROVE  Serial'
PROOF
<1> SUFFICES ASSUME ~overlapped' PROVE OneByOne'
  BY DEF Serial
<1>1. TypeOK /\ Booked /\ RowsInv /\ QueueInv
  BY DEF RunnerInv
<1>2. OneByOne /\ ready # <<>>
  BY DEF Serial, Resume, tally
<1>3. PICK h \in Handler : Waiting = {h} /\ Stopping(h)
  BY <1>2 DEF OneByOne, Quiet
<1>4. ready = <<<<h>>>> /\ live[task] = "done"
  BY <1>2, <1>3 DEF Stopping
<1>5. Head(Head(ready)) = h /\ Tail(Head(ready)) = <<>> /\ Tail(ready) = <<>>
  BY <1>4
<1> DEFINE st == Finished("interrupted")
<1>6. /\ Proceed(op[h], st, 0, 0)
      /\ pc' = [pc EXCEPT ![h] = 0]
      /\ ready' = <<>> /\ draining' = FALSE
      /\ UNCHANGED <<faults, outages, ended, waiters, tally>>
  BY <1>5 DEF Resume
<1>7. Closed(st) /\ \A k \in Run : st[k] = "completed" => k \in ended
  BY <1>1, <1>2, Finishing DEF OneByOne, RowsInv
<1>8. op[h] = "soak" => Cardinality(Created) < MaxRuns
  <2>1. /\ Cardinality(Created) \in Nat /\ Cardinality(Asked) \in Nat
        /\ Cardinality(Created) + Cardinality(Asked) <= MaxRuns
        /\ IsFiniteSet(Asked)
    BY <1>1, NextRow DEF Booked
  <2>2. op[h] = "soak" => Cardinality(Asked) # 0
    BY <1>1, <2>1, FS_EmptySet DEF Booked, Asked
  <2> QED
    BY <2>1, <2>2, SoakBounds
<1>9. \A k \in Run : live[k] \notin {"running", "cancelling"}
  BY <1>3, <1>4 DEF Stopping
<1>10. Waiting' = {}
  BY <1>1, <1>3, <1>6 DEF Waiting, TypeOK
<1> HIDE DEF st
<1>11. /\ Quiet'
       /\ \A k \in Run : status'[k] = "completed" => k \in ended'
       /\ (Running => runId # 0 /\ counted = outages[runId]
                      /\ faults[runId] = counted)'
  BY <1>6, <1>7, <1>8, <1>9, ProceedsQuiet
<1> QED
  BY <1>6, <1>10, <1>11 DEF OneByOne

\* The soak that ends is the one that run_id names.
LEMMA RunEndsSerial ==
    ASSUME RunnerInv, Serial, NEW k \in Run, RunEnds(k)
    PROVE  Serial'
PROOF
<1> SUFFICES ASSUME ~overlapped' PROVE OneByOne'
  BY DEF Serial
<1>1. TypeOK /\ RowsInv /\ QueueInv
  BY DEF RunnerInv
<1>2. /\ live[k] = "running" /\ live' = [live EXCEPT ![k] = "done"]
      /\ status' = Finished("completed") /\ runId' = 0
      /\ ended' = ended \cup {k} /\ pattern' = "identify"
      /\ UNCHANGED <<faults, outages, task, counted, handlers, tally>>
  BY DEF RunEnds
<1>3. OneByOne
  BY <1>2 DEF Serial, tally
<1>4. Waiting = {} /\ Quiet
  BY <1>2, <1>3 DEF OneByOne, Stopping
<1>5. k = runId /\ task = k
  BY <1>2, <1>4 DEF Quiet, Run
<1>6. \A j \in Run : status'[j] = "completed" => j \in ended'
  BY <1>1, <1>2, <1>3, <1>5, Finishing DEF OneByOne
<1>7. \A j \in Run : live'[j] = IF j = k THEN "done" ELSE live[j]
  BY <1>1, <1>2 DEF TypeOK
<1>8. ~Running' /\ Waiting' = {} /\ ready' = <<>> /\ ~draining'
  BY <1>2, <1>3, <1>4, <1>5, <1>7 DEF Running, Waiting, handlers, Quiet, OneByOne
<1>9. Quiet'
  BY <1>2, <1>4, <1>5, <1>7, <1>8 DEF Quiet
<1> QED
  BY <1>6, <1>8, <1>9 DEF OneByOne

\* One outage is one fault of the running soak.
LEMMA OutageSerial ==
    ASSUME RunnerInv, Serial, Outage
    PROVE  Serial'
PROOF
<1> SUFFICES ASSUME ~overlapped' PROVE OneByOne'
  BY DEF Serial
<1>1. TypeOK /\ RowsInv
  BY DEF RunnerInv
<1>2. UNCHANGED <<status, ended, live, task, runId, pattern, handlers, tally>>
  BY DEF Outage
<1>3. OneByOne
  BY <1>2 DEF Serial, tally
<1>4. ASSUME Running
      PROVE  runId' # 0 /\ counted' = outages'[runId'] /\ faults'[runId'] = counted'
  <2>1. /\ runId \in Run /\ runId # 0 /\ status[runId] = "running"
        /\ counted = outages[runId]
    BY <1>1, <1>3, <1>4 DEF OneByOne, TypeOK, RowsInv
  <2>2. /\ outages'[runId] = outages[runId] + 1 /\ counted' = counted + 1
        /\ faults' = [faults EXCEPT ![runId] = counted + 1]
    BY <1>4, <2>1 DEF Outage
  <2> QED
    BY <1>1, <1>2, <2>1, <2>2 DEF TypeOK
<1>5. Running' = Running
  BY <1>2 DEF Running
<1>6. Waiting' = Waiting /\ (Quiet => Quiet')
      /\ \A h \in Handler : Stopping(h) => Stopping(h)'
  BY <1>2 DEF Waiting, Quiet, Stopping, handlers
<1> QED
  BY <1>2, <1>3, <1>4, <1>5, <1>6 DEF OneByOne, handlers

\* A process that starts is quiet; an orderly stop interrupts, a kill says nothing.
LEMMA StartedSerial ==
    ASSUME RunnerInv, Serial, Crash \/ Shutdown
    PROVE  Serial'
PROOF
<1> SUFFICES ASSUME ~overlapped' PROVE OneByOne'
  BY DEF Serial
<1>1. TypeOK /\ RowsInv
  BY DEF RunnerInv
<1>2. Started /\ UNCHANGED <<faults, outages, ended, overlapped>>
  BY DEF Crash, Shutdown, rows
<1>3. OneByOne
  BY <1>2 DEF Serial
<1>4. \A k \in Run : status'[k] = "completed" => k \in ended'
  BY <1>1, <1>2, <1>3, Finishing DEF OneByOne, Crash, Shutdown, rows, RowsInv
<1>5. /\ Waiting' = {} /\ ~Running' /\ ~draining'
  BY <1>2 DEF Started, Waiting, Running
<1>6. Quiet'
  BY <1>2 DEF Started, Quiet
<1> QED
  BY <1>4, <1>5, <1>6 DEF OneByOne

\* Every step keeps the order of requests that do not overlap.
LEMMA SerialStep == RunnerInv /\ Serial /\ [Next]_vars => Serial'
PROOF
<1> SUFFICES ASSUME RunnerInv, Serial, [Next]_vars PROVE Serial'
  OBVIOUS
<1>1. CASE Call
  BY <1>1, CallIdleSerial, CallBusySerial DEF Call
<1>2. CASE Resume
  BY <1>2, ResumeSerial
<1>3. CASE Outage
  BY <1>3, OutageSerial
<1>4. CASE Crash \/ Shutdown
  BY <1>4, StartedSerial
<1>5. CASE \E k \in Run : Cancelled(k) \/ RunEnds(k)
  BY <1>5, CancelledSerial, RunEndsSerial
<1>6. CASE UNCHANGED vars
  BY <1>6 DEF Serial, OneByOne, Quiet, Stopping, Waiting, Running,
              vars, rows, runner, handlers, tally
<1> QED
  BY <1>1, <1>2, <1>3, <1>4, <1>5, <1>6 DEF Next

\* Both invariants hold in every reachable state.
LEMMA SerialInvariant == Spec => [](RunnerInv /\ Serial)
PROOF
  BY RunnerInvariant, SerialInit, SerialStep, PTL DEF Spec

\* AC-12, no false Passed: as long as no request comes in during a cancellation,
\* a run recorded as completed is one whose task slept through its whole time,
\* for any number of soaks, outages, kills and stops.
THEOREM CompletedSeriallyAlways == Spec => []CompletedSerially
PROOF
<1>1. Serial => CompletedSerially
  BY DEF Serial, OneByOne, CompletedSerially, CompletedRanInFull
<1> QED
  BY <1>1, SerialInvariant, PTL

\* The runner then never loses a soak, and the output never stays on a soak that
\* is over.
THEOREM LiveRunOwnedAlways == Spec => []LiveRunOwned
PROOF
<1>1. RunnerInv /\ Serial => LiveRunOwned
  <2> SUFFICES ASSUME RunnerInv, OneByOne
               PROVE  /\ \A k \in Run : live[k] = "running" =>
                            /\ task = k /\ runId = k /\ status[k] = "running"
                            /\ pattern = "soak"
                      /\ pattern = "soak" => Running \/ ready # <<>>
    BY DEF Serial, LiveRunOwned
  <2>1. TypeOK /\ RowsInv
    BY DEF RunnerInv
  <2>2. CASE Waiting = {}
    BY <2>1, <2>2, QuietRunner DEF Quiet, RowsInv, Run
  <2>3. CASE Waiting # {}
    <3>1. PICK h \in Handler : Stopping(h)
      BY <2>3 DEF OneByOne
    <3> QED
      BY <3>1 DEF Stopping, Running
  <2> QED
    BY <2>2, <2>3
<1> QED
  BY <1>1, SerialInvariant, PTL

\* The fault count of the running soak is the number of its own outages.
THEOREM FaultsOfThisRunAlways == Spec => []FaultsOfThisRun
PROOF
<1>1. Serial => FaultsOfThisRun
  BY DEF Serial, OneByOne, FaultsOfThisRun
<1> QED
  BY <1>1, SerialInvariant, PTL

=============================================================================
