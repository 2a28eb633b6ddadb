------------------------- MODULE SessionStoreProofs -------------------------
(***************************************************************************)
(* Theorems about SessionStore, for every number of sessions, tests,       *)
(* workers, requests in flight, answers, reopenings and crashes.           *)
(***************************************************************************)
EXTENDS SessionStore, FiniteSetTheorems, TLAPS

-----------------------------------------------------------------------------
(* Type correctness needs to know what a request names at each statement.  *)

RequestOK ==
    \A w \in Worker :
        /\ pc[w] \notin {"idle", "project", "reference", "insert", "failed", "refused"}
             => req[w].s \in SessionId
        /\ pc[w] \in {"insert", "retire_event"} => local[w] \in SessionId
        /\ pc[w] \in {"number", "insert_attempt"}
             => req[w].test \in Test /\ req[w].answer \in Result
        /\ pc[w] = "write" /\ req[w].op = "complete"
             => verdict[w] \in CompletedStatus
        /\ pc[w] \in {"project", "reference", "insert"}
             => req[w].op \in {"create", "autostart"}
        /\ pc[w] = "progress" => req[w].op = "complete"

TypeInv == TypeOK /\ RequestOK

\* Every request a client may send is well formed, and all but a creation name
\* a session.
LEMMA RequestsTyped ==
    ASSUME NEW q \in Requests
    PROVE  /\ q \in Request
           /\ q.op \notin {"create", "autostart"} => q.s \in SessionId
<1>1. Used \subseteq SessionId
  BY DEF Used
<1>2. CASE q \in {Req(o, 0, T, "none", "none") :
                    o \in IF Cardinality(Used) + Cardinality(Creating) < MaxSessions
                          THEN {"create", "autostart"} ELSE {},
                    T \in SUBSET Test}
  BY <1>2 DEF Req, Request, LoopOps, PoolOps
<1>3. CASE q \in [op : {"edit_tests"}, s : Used, tests : SUBSET Test,
                  test : {"none"}, answer : {"none"}]
  BY <1>1, <1>3 DEF Request, LoopOps, PoolOps
<1>4. CASE q \in [op : {"edit_other", "delete", "start", "review", "complete"},
                  s : Used, tests : {{}}, test : {"none"}, answer : {"none"}]
  BY <1>1, <1>4 DEF Request, LoopOps, PoolOps
<1>5. CASE q \in [op : {"reopen"}, s : Used, tests : {{}}, test : {"none"},
                  answer : {"none", "blank"}]
  BY <1>1, <1>5 DEF Request, LoopOps, PoolOps
<1>6. CASE q \in {Req("attempt", p[1], {}, p[2], p[3]) : p \in
                    {x \in Used \X Test \X (Result \cup {"unexplained_fail"}) :
                       Answers < MaxAnswers}}
  BY <1>1, <1>6 DEF Req, Request, LoopOps, PoolOps
<1>7. QED
  BY <1>2, <1>3, <1>4, <1>5, <1>6 DEF Requests

-----------------------------------------------------------------------------
(* Types of the values the statements build.                               *)

\* What a worker has read of no session has the columns of a session.
LEMMA NoRowTyped == NoRow \in Row
BY DEF NoRow, Row, Status

\* No request is a request with neutral fields.
LEMMA NoReqTyped == NoReq \in Request
BY DEF NoReq, Req, Request

\* An UPDATE of one column keeps a row a row.
LEMMA UpdateTyped ==
    ASSUME NEW r \in Row
    PROVE  /\ \A x \in Status : [r EXCEPT !.status = x] \in Row
           /\ [r EXCEPT !.deleted = TRUE] \in Row
           /\ \A T \in SUBSET Test : [r EXCEPT !.selected = T] \in Row
           /\ \A x \in Status : [r EXCEPT !.status = x, !.completedAt = TRUE] \in Row
           /\ [r EXCEPT !.status = "in_progress", !.completedAt = FALSE] \in Row
BY DEF Row, Status, ActiveStatus

\* The row create_session inserts.
LEMMA DraftTyped ==
    ASSUME NEW T \in SUBSET Test
    PROVE  [NoRow EXCEPT !.status = "draft", !.selected = T] \in Row
BY DEF NoRow, Row, Status

\* What start, reopen and complete write into a row.
LEMMA StatusWritten ==
    ASSUME NEW r \in Row, NEW x
    PROVE  /\ [r EXCEPT !.status = x].status = x
           /\ [r EXCEPT !.status = x].deleted = r.deleted
           /\ [r EXCEPT !.status = x, !.completedAt = TRUE].status = x
           /\ [r EXCEPT !.status = x, !.completedAt = FALSE].status = x
           /\ [r EXCEPT !.status = x, !.completedAt = FALSE].deleted = r.deleted
BY DEF Row

\* The selection of a row is a set of tests.
LEMMA SelectedTyped ==
    ASSUME NEW r \in Row
    PROVE  r.selected \in SUBSET Test
BY DEF Row

\* References of a day are numbers.
LEMMA SessionIdNat == SessionId \subseteq Nat
BY Bounds DEF SessionId

\* The columns of a request.
LEMMA RequestFields ==
    ASSUME NEW q \in Request
    PROVE  /\ q.tests \in SUBSET Test
           /\ q.answer \in Result \cup {"unexplained_fail", "blank", "none"}
           /\ \A s \in SessionId : [q EXCEPT !.s = s] \in Request
BY DEF Request

-----------------------------------------------------------------------------
\* The empty tables and the idle workers are well typed.
LEMMA TypeInit == Init => TypeInv
BY NoRowTyped, NoReqTyped DEF Init, TypeInv, TypeOK, RequestOK, Statement, EventType, Table

\* A client's request is well typed, and so is the worker that takes it.
LEMMA BeginTyped ==
    ASSUME TypeInv, NEW w \in Worker, Begin(w)
    PROVE  TypeInv'
<1>1. PICK q \in Requests : /\ pc' = [pc EXCEPT ![w] = Entry(q)]
                            /\ req' = [req EXCEPT ![w] = q]
  BY DEF Begin
<1>2. /\ q \in Request
      /\ q.op \notin {"create", "autostart"} => q.s \in SessionId
  BY RequestsTyped
<1>3. /\ Entry(q) \in {"read", "project"}
      /\ Entry(q) = "read" => q.s \in SessionId
      /\ Entry(q) = "project" => q.op \in {"create", "autostart"}
  BY <1>2 DEF Entry
<1>4. TypeOK'
  BY <1>1, <1>2, <1>3 DEF TypeInv, TypeOK, Statement, Begin, db
<1>5. RequestOK'
  BY <1>1, <1>2, <1>3 DEF TypeInv, TypeOK, RequestOK, Begin, db
<1>6. QED
  BY <1>4, <1>5 DEF TypeInv

\* Workers that forget their requests keep the types.
LEMMA ForgetTyped ==
    ASSUME TypeInv, NEW W \in SUBSET Worker, Forget(W), crashes' \in Nat
    PROVE  TypeInv'
BY NoRowTyped, NoReqTyped
   DEF TypeInv, TypeOK, RequestOK, Statement, Forget, db

\* An UPDATE of the session a request names keeps the types.
LEMMA UpdateSessionTyped ==
    ASSUME TypeInv, NEW w \in Worker, req[w].s \in SessionId,
           NEW r \in Row, NEW event \in EventType \cup {"none"},
           NEW to \in {"answer", "ok", "reopen_event"},
           UpdateSession(w, r, event, to)
    PROVE  TypeInv'
<1>1. row' \in [SessionId -> Row] /\ wrote' \in [Worker -> SUBSET Table]
  BY DEF UpdateSession, WriteRow, Wrote, Table, TypeInv, TypeOK
<1>2. missing' \in [SessionId -> [EventType -> Int]]
  BY DEF UpdateSession, WriteRow, EventType, TypeInv, TypeOK
<1>3. pc' = [pc EXCEPT ![w] = to] /\ pc' \in [Worker -> Statement]
  BY DEF UpdateSession, Goto, Statement, TypeInv, TypeOK
<1>4. TypeOK'
  BY <1>1, <1>2, <1>3 DEF UpdateSession, TypeInv, TypeOK
<1>5. RequestOK'
  BY <1>3 DEF UpdateSession, TypeInv, TypeOK, RequestOK
<1> QED
  BY <1>4, <1>5 DEF TypeInv

\* Every statement writes what its column may hold.
LEMMA StepTyped ==
    ASSUME TypeInv, NEW w \in Worker, Step(w)
    PROVE  TypeInv'
<1> USE DEF TypeInv, TypeOK, RequestOK, Statement, Goto, Wrote, WriteRow, EventType,
            Table, db, locals
<1>0. CASE UpsertProject(w)
  BY <1>0 DEF UpsertProject
<1>1. CASE ReadReference(w)
  BY <1>1, SessionIdNat DEF ReadReference
<1>2. CASE InsertSession(w)
  <2>1. /\ local[w] \in SessionId
        /\ [NoRow EXCEPT !.status = "draft", !.selected = req[w].tests] \in Row
        /\ [req[w] EXCEPT !.s = local[w]] \in Request
    BY <1>2, DraftTyped, RequestFields DEF InsertSession
  <2>2. req' = [req EXCEPT ![w] = [req[w] EXCEPT !.s = local[w]]]
    BY <1>2 DEF InsertSession
  <2>3. [req[w] EXCEPT !.s = local[w]].s = local[w]
    BY DEF Request
  <2>4. TypeOK'
    BY <1>2, <2>1, <2>2 DEF InsertSession
  <2>5. RequestOK'
    BY <1>2, <2>1, <2>2, <2>3 DEF InsertSession
  <2>6. QED
    BY <2>4, <2>5
<1>3. CASE InsertCollides(w)
  BY <1>3 DEF InsertCollides
<1>4. CASE ReadSession(w)
  BY <1>4, SelectedTyped DEF ReadSession, Accepts, AfterRead, Visible
<1>5. CASE QueryActive(w)
  BY <1>5 DEF QueryActive, Active
<1>6. CASE RetireOne(w)
  <2>1. PICK v \in victims[w] :
          /\ row' = [row EXCEPT ![v] = [row[v] EXCEPT !.deleted = TRUE]]
          /\ victims' = [victims EXCEPT ![w] = @ \ {v}]
          /\ local' = [local EXCEPT ![w] = v]
    BY <1>6 DEF RetireOne
  <2>2. v \in SessionId /\ v \in Nat
    BY <2>1, SessionIdNat
  <2>3. row' \in [SessionId -> Row]
    BY <2>1, <2>2, UpdateTyped
  <2>4. QED
    BY <1>6, <2>1, <2>2, <2>3 DEF RetireOne
<1>7. CASE RetireEvent(w)
  BY <1>7 DEF RetireEvent, RecordEvent, EventType
<1>8. CASE StartSession(w)
  <2>1. /\ req[w].s \in SessionId /\ [Target(w) EXCEPT !.status = "in_progress"] \in Row
        /\ UpdateSession(w, [Target(w) EXCEPT !.status = "in_progress"], "none", "answer")
    BY <1>8, UpdateTyped DEF StartSession, Target, At, Status, ActiveStatus
  <2> QED
    BY <2>1, UpdateSessionTyped
<1>9. CASE ReopenSession(w)
  <2>1. /\ req[w].s \in SessionId /\ [Target(w) EXCEPT !.status = "in_progress", !.completedAt = FALSE] \in Row
        /\ UpdateSession(w, [Target(w) EXCEPT !.status = "in_progress", !.completedAt = FALSE], "session_reopened", "reopen_event")
    BY <1>9, UpdateTyped DEF ReopenSession, Target, At
  <2> QED
    BY <2>1, UpdateSessionTyped DEF EventType
<1>10. CASE ReopenEvent(w)
  <2>1. req[w].s \in SessionId
    BY <1>10 DEF ReopenEvent
  <2>2. missing' \in [SessionId -> [EventType -> Int]]
    BY <1>10, <2>1 DEF ReopenEvent, RecordEvent, EventType
  <2>3. QED
    BY <1>10, <2>2 DEF ReopenEvent, RecordEvent
<1>11. CASE ReviewSession(w)
  <2>1. /\ req[w].s \in SessionId /\ [Target(w) EXCEPT !.status = "review"] \in Row
        /\ UpdateSession(w, [Target(w) EXCEPT !.status = "review"], "none", "answer")
    BY <1>11, UpdateTyped DEF ReviewSession, Target, At, Status, ActiveStatus
  <2> QED
    BY <2>1, UpdateSessionTyped
<1>12. CASE EditSession(w)
  <2>1. PICK T \in SUBSET Test : UpdateSession(w, [Target(w) EXCEPT !.selected = T],
                                            "none", "answer")
    BY <1>12, SelectedTyped, RequestFields DEF EditSession
  <2>2. req[w].s \in SessionId /\ [Target(w) EXCEPT !.selected = T] \in Row
    BY <1>12, UpdateTyped DEF EditSession, Target, At
  <2> QED
    BY <2>1, <2>2, UpdateSessionTyped
<1>13. CASE DeleteSession(w)
  <2>1. PICK event \in EventType \cup {"none"} :
           UpdateSession(w, [Target(w) EXCEPT !.deleted = TRUE], event, "ok")
    BY <1>13 DEF DeleteSession
  <2>2. req[w].s \in SessionId /\ [Target(w) EXCEPT !.deleted = TRUE] \in Row
    BY <1>13, UpdateTyped DEF DeleteSession, Target, At
  <2> QED
    BY <2>1, <2>2, UpdateSessionTyped
<1>14. CASE NumberAttempt(w)
  BY <1>14 DEF NumberAttempt
<1>15. CASE InsertAttempt(w)
  <2>1. /\ req[w].s \in SessionId /\ req[w].test \in Test
        /\ req[w].answer \in Result
    BY <1>15 DEF InsertAttempt
  <2>2. attempts' \in [SessionId -> [Test -> Seq(Result)]]
    BY <1>15, <2>1 DEF InsertAttempt
  <2>3. QED
    BY <1>15, <2>1, <2>2 DEF InsertAttempt
<1>16. CASE ResumeSession(w)
  <2>1. /\ req[w].s \in SessionId /\ [Target(w) EXCEPT !.status = "in_progress"] \in Row
        /\ UpdateSession(w, [Target(w) EXCEPT !.status = "in_progress"], "none", "ok")
    BY <1>16, UpdateTyped DEF ResumeSession, Target, Status, ActiveStatus
  <2> QED
    BY <2>1, UpdateSessionTyped
<1>17. CASE ReadProgress(w)
  BY <1>17 DEF ReadProgress, Verdict, CompletedStatus
<1>18. CASE CompleteSession(w)
  <2>1. /\ req[w].s \in SessionId /\ [Target(w) EXCEPT !.status = verdict[w], !.completedAt = TRUE] \in Row
        /\ UpdateSession(w, [Target(w) EXCEPT !.status = verdict[w], !.completedAt = TRUE], "none", "answer")
    BY <1>18, UpdateTyped DEF CompleteSession, Target, At, Status
  <2> QED
    BY <2>1, UpdateSessionTyped
<1>19. CASE Answer(w)
  BY <1>19 DEF Answer
<1>20. CASE Reply(w)
  BY <1>20, ForgetTyped DEF Reply
<1>21. QED
  BY <1>0, <1>1, <1>2, <1>3, <1>4, <1>5, <1>6, <1>7, <1>8, <1>9, <1>10, <1>11, <1>12, <1>13, <1>14, <1>15, <1>16, <1>17, <1>18, <1>19, <1>20 DEF Step

\* Every statement finds the request fields it uses filled in, under every
\* interleaving and crash.
LEMMA TypeNext ==
    ASSUME TypeInv, [Next]_vars
    PROVE  TypeInv'
<1>1. CASE Crash
  <2>1. crashes' \in Nat
    BY <1>1 DEF Crash, TypeInv, TypeOK
  <2>2. QED
    BY <1>1, <2>1, ForgetTyped DEF Crash
<1>2. ASSUME NEW w \in Worker, Begin(w) PROVE TypeInv'
  BY <1>2, BeginTyped
<1>3. ASSUME NEW w \in Worker, Step(w) PROVE TypeInv'
  BY <1>3, StepTyped
<1>4. CASE UNCHANGED vars
  BY <1>4 DEF vars, db, locals, TypeInv, TypeOK, RequestOK
<1>5. QED
  BY <1>1, <1>2, <1>3, <1>4 DEF Next

\* Spec => []TypeInv: tables, workers and the statements they are at are well
\* typed in every reachable state (sessions.py and migrations/0001_initial.sql).
THEOREM TypeInvariant == Spec => []TypeInv
BY TypeInit, TypeNext, PTL DEF Spec

\* Every reachable state is well typed: no interleaving or crash makes the store
\* write a row, a result or a status the schema does not allow.
THEOREM TypeCorrect == Spec => []TypeOK
<1>1. TypeInv => TypeOK
  BY DEF TypeInv
<1>2. QED
  BY <1>1, TypeInvariant, PTL

-----------------------------------------------------------------------------
(* A request that overlaps no other knows which session is active at each  *)
(* of its statements.                                                      *)

StartOps == {"start", "autostart", "reopen"}

Solo(w) ==
    /\ pc[w] \in {"query", "retire", "retire_event"} => ~row[req[w].s].deleted
    /\ pc[w] = "query" => req[w].s \notin Active
    /\ pc[w] \in {"retire", "retire_event"}
         => Active \subseteq victims[w] /\ req[w].s \notin victims[w]
    /\ pc[w] = "reopen_event" => Active = {req[w].s}
    /\ At(w, "answer", StartOps) => Active = {req[w].s}
    /\ pc[w] \in {"number", "insert_attempt", "resume"} => req[w].s \in Active
    /\ At(w, "write", {"review"}) => req[w].s \in Active

\* The inductive strengthening of StartAloneWins.
AloneInv ==
    \A w \in Worker : alone[w] /\ pc[w] # "idle" =>
        /\ \A v \in Worker : v # w => pc[v] = "idle"
        /\ Solo(w)

\* Every statement of a request that no other overlaps keeps what it knows
\* about the active session.
LEMMA SoloStep ==
    ASSUME TypeInv, NEW w \in Worker, Solo(w), Step(w), pc'[w] # "idle"
    PROVE  Solo(w)'
<1> USE DEF TypeInv, TypeOK, RequestOK, Goto, Wrote, WriteRow, db, locals, At
<1>0. CASE UpsertProject(w)
  BY <1>0 DEF UpsertProject, Solo, StartOps, Active, ActiveStatus
<1>1. CASE ReadReference(w)
  BY <1>1 DEF ReadReference, Solo, StartOps, Active, ActiveStatus
<1>2. CASE InsertSession(w)
  <2>1. req'[w].op = req[w].op
    BY <1>2 DEF InsertSession, Request
  <2>2. req[w].op \in {"create", "autostart"}
    BY <1>2 DEF InsertSession
  <2>3. pc'[w] = IF req[w].op = "autostart" THEN "read" ELSE "answer"
    BY <1>2 DEF InsertSession
  <2>4. \/ pc'[w] = "read"
        \/ pc'[w] = "answer" /\ req'[w].op \notin StartOps
    BY <2>1, <2>2, <2>3 DEF StartOps
  <2>5. QED
    BY <2>4 DEF Solo
<1>3. CASE InsertCollides(w)
  BY <1>3 DEF InsertCollides, Solo, StartOps, Active, ActiveStatus
<1>4. CASE ReadSession(w)
  BY <1>4 DEF ReadSession, Solo, StartOps, Accepts, AfterRead, Visible, CompletedStatus, Active, ActiveStatus
<1>5. CASE QueryActive(w)
  BY <1>5 DEF QueryActive, Solo, StartOps, Active, ActiveStatus
<1>6. CASE RetireOne(w)
  BY <1>6 DEF RetireOne, Solo, StartOps, Active, ActiveStatus
<1>7. CASE RetireEvent(w)
  BY <1>7 DEF RetireEvent, Solo, StartOps, RecordEvent, Active, ActiveStatus
<1>8. CASE StartSession(w)
  <2>1. Active = {} /\ ~Target(w).deleted
    BY <1>8 DEF StartSession, Solo, Target
  <2>2. Active' = {req[w].s}
    <3> DEFINE r == [Target(w) EXCEPT !.status = "in_progress"]
    <3>1. req[w].s \in SessionId /\ Target(w) \in Row
      BY <1>8 DEF StartSession, Target
    <3>2. row'[req[w].s] = r
      BY <1>8, <3>1 DEF StartSession, UpdateSession
    <3>3. r.status = "in_progress" /\ ~r.deleted
      BY <2>1, <3>1, StatusWritten
    <3>4. \A s \in SessionId : s # req[w].s => row'[s] = row[s]
      BY <1>8 DEF StartSession, UpdateSession
    <3>5. QED
      BY <2>1, <3>1, <3>2, <3>4, <3>3 DEF Active, ActiveStatus
  <2>3. QED
    BY <1>8, <2>2 DEF StartSession, UpdateSession, Solo
<1>9. CASE ReopenSession(w)
  <2>1. Active = {} /\ ~Target(w).deleted
    BY <1>9 DEF ReopenSession, Solo, Target
  <2>2. Active' = {req[w].s}
    <3> DEFINE r == [Target(w) EXCEPT !.status = "in_progress",
                                            !.completedAt = FALSE]
    <3>1. req[w].s \in SessionId /\ Target(w) \in Row
      BY <1>9 DEF ReopenSession, Target
    <3>2. row'[req[w].s] = r
      BY <1>9, <3>1 DEF ReopenSession, UpdateSession
    <3>3. r.status = "in_progress" /\ ~r.deleted
      BY <2>1, <3>1, StatusWritten
    <3>4. \A s \in SessionId : s # req[w].s => row'[s] = row[s]
      BY <1>9 DEF ReopenSession, UpdateSession
    <3>5. QED
      BY <2>1, <3>1, <3>2, <3>4, <3>3, ZenonT(40) DEF Active, ActiveStatus
  <2>3. QED
    BY <1>9, <2>2 DEF ReopenSession, UpdateSession, Solo
<1>10. CASE ReopenEvent(w)
  BY <1>10 DEF ReopenEvent, Solo, StartOps, RecordEvent, Active, ActiveStatus
<1>11. CASE ReviewSession(w)
  BY <1>11 DEF ReviewSession, Solo, StartOps, Active, UpdateSession, Target, ActiveStatus
<1>12. CASE EditSession(w)
  BY <1>12 DEF EditSession, Solo, StartOps, Active, UpdateSession, Target, ActiveStatus
<1>13. CASE DeleteSession(w)
  BY <1>13 DEF DeleteSession, Solo, StartOps, Active, UpdateSession, Target, ActiveStatus
<1>14. CASE NumberAttempt(w)
  BY <1>14 DEF NumberAttempt, Solo, StartOps, Active, ActiveStatus
<1>15. CASE InsertAttempt(w)
  BY <1>15 DEF InsertAttempt, Solo, StartOps, Active, ActiveStatus
<1>16. CASE ResumeSession(w)
  BY <1>16 DEF ResumeSession, Solo, StartOps, Active, UpdateSession, Target, ActiveStatus
<1>17. CASE ReadProgress(w)
  BY <1>17 DEF ReadProgress, Solo, StartOps, Active, ActiveStatus
<1>18. CASE CompleteSession(w)
  BY <1>18 DEF CompleteSession, Solo, StartOps, Active, UpdateSession, Target, ActiveStatus
<1>19. CASE Answer(w)
  BY <1>19 DEF Answer, Solo, StartOps, Active, ActiveStatus
<1>20. CASE Reply(w)
  BY <1>20 DEF Reply, Forget
<1>21. QED
  BY <1>0, <1>1, <1>2, <1>3, <1>4, <1>5, <1>6, <1>7, <1>8, <1>9, <1>10, <1>11, <1>12, <1>13, <1>14, <1>15, <1>16, <1>17, <1>18, <1>19, <1>20 DEF Step

\* A step of one worker leaves the place of the others alone.
LEMMA StepFrame ==
    ASSUME TypeInv, NEW w \in Worker, Step(w)
    PROVE  /\ pc[w] # "idle"
           /\ \A v \in Worker : v # w => pc'[v] = pc[v]
           /\ \A v \in Worker : pc'[v] # "idle" => alone'[v] = alone[v]
           /\ \A v \in Worker : alone'[v] => alone[v]
<1> USE DEF TypeInv, TypeOK, Goto, locals, At
<1>0. CASE UpsertProject(w)
  BY <1>0 DEF UpsertProject
<1>1. CASE ReadReference(w)
  BY <1>1 DEF ReadReference
<1>2. CASE InsertSession(w)
  BY <1>2 DEF InsertSession
<1>3. CASE InsertCollides(w)
  BY <1>3 DEF InsertCollides
<1>4. CASE ReadSession(w)
  BY <1>4 DEF ReadSession
<1>5. CASE QueryActive(w)
  BY <1>5 DEF QueryActive
<1>6. CASE RetireOne(w)
  BY <1>6 DEF RetireOne
<1>7. CASE RetireEvent(w)
  BY <1>7 DEF RetireEvent, RecordEvent
<1>8. CASE StartSession(w)
  BY <1>8 DEF StartSession, UpdateSession
<1>9. CASE ReopenSession(w)
  BY <1>9 DEF ReopenSession, UpdateSession
<1>10. CASE ReopenEvent(w)
  BY <1>10 DEF ReopenEvent, RecordEvent
<1>11. CASE ReviewSession(w)
  BY <1>11 DEF ReviewSession, UpdateSession
<1>12. CASE EditSession(w)
  BY <1>12 DEF EditSession, UpdateSession
<1>13. CASE DeleteSession(w)
  BY <1>13 DEF DeleteSession, UpdateSession
<1>14. CASE NumberAttempt(w)
  BY <1>14 DEF NumberAttempt
<1>15. CASE InsertAttempt(w)
  BY <1>15 DEF InsertAttempt
<1>16. CASE ResumeSession(w)
  BY <1>16 DEF ResumeSession, UpdateSession
<1>17. CASE ReadProgress(w)
  BY <1>17 DEF ReadProgress
<1>18. CASE CompleteSession(w)
  BY <1>18 DEF CompleteSession, UpdateSession
<1>19. CASE Answer(w)
  BY <1>19 DEF Answer
<1>20. CASE Reply(w)
  BY <1>20 DEF Reply, Forget
<1>21. QED
  BY <1>0, <1>1, <1>2, <1>3, <1>4, <1>5, <1>6, <1>7, <1>8, <1>9, <1>10, <1>11, <1>12, <1>13, <1>14, <1>15, <1>16, <1>17, <1>18, <1>19, <1>20 DEF Step

\* A request that knows the active session never makes a second one.
LEMMA SoloKeepsSingle ==
    ASSUME TypeInv, NEW w \in Worker, Solo(w), Step(w), SingleActive
    PROVE  SingleActive'
<1> USE DEF TypeInv, TypeOK, RequestOK, Goto, Wrote, WriteRow, db, locals, At, SingleActive
<1>0. CASE UpsertProject(w)
  BY <1>0 DEF UpsertProject, Active
<1>1. CASE ReadReference(w)
  BY <1>1 DEF ReadReference, Active
<1>2. CASE InsertSession(w)
  <2>1. Active' \subseteq Active
    BY <1>2 DEF InsertSession, Solo, Row, Active, ActiveStatus, NoRow, Exists
  <2>2. QED
    BY <2>1
<1>3. CASE InsertCollides(w)
  BY <1>3 DEF InsertCollides, Active
<1>4. CASE ReadSession(w)
  BY <1>4 DEF ReadSession, Active
<1>5. CASE QueryActive(w)
  BY <1>5 DEF QueryActive, Active
<1>6. CASE RetireOne(w)
  <2>1. Active' \subseteq Active
    BY <1>6 DEF RetireOne, Solo, Row, Active
  <2>2. QED
    BY <2>1
<1>7. CASE RetireEvent(w)
  BY <1>7 DEF RetireEvent, RecordEvent, Active
<1>8. CASE StartSession(w)
  <2>1. Active = {}
    BY <1>8 DEF StartSession, Solo
  <2>2. Active' \subseteq {req[w].s}
    BY <1>8, <2>1 DEF StartSession, UpdateSession, Active
  <2>3. QED
    BY <2>2
<1>9. CASE ReopenSession(w)
  <2>1. Active = {}
    BY <1>9 DEF ReopenSession, Solo
  <2>2. Active' \subseteq {req[w].s}
    BY <1>9, <2>1 DEF ReopenSession, UpdateSession, Active
  <2>3. QED
    BY <2>2
<1>10. CASE ReopenEvent(w)
  BY <1>10 DEF ReopenEvent, RecordEvent, Active
<1>11. CASE ReviewSession(w)
  <2>1. Active' \subseteq Active
    BY <1>11 DEF ReviewSession, UpdateSession, Target, Solo, Row, Active, ActiveStatus
  <2>2. QED
    BY <2>1
<1>12. CASE EditSession(w)
  <2>1. Active' \subseteq Active
    BY <1>12 DEF EditSession, UpdateSession, Target, Solo, Row, Active
  <2>2. QED
    BY <2>1
<1>13. CASE DeleteSession(w)
  <2>1. Active' \subseteq Active
    BY <1>13 DEF DeleteSession, UpdateSession, Target, Solo, Row, Active
  <2>2. QED
    BY <2>1
<1>14. CASE NumberAttempt(w)
  BY <1>14 DEF NumberAttempt, Active
<1>15. CASE InsertAttempt(w)
  BY <1>15 DEF InsertAttempt, Active
<1>16. CASE ResumeSession(w)
  <2>1. Active' \subseteq Active
    BY <1>16 DEF ResumeSession, UpdateSession, Target, Solo, Row, Active, ActiveStatus
  <2>2. QED
    BY <2>1
<1>17. CASE ReadProgress(w)
  BY <1>17 DEF ReadProgress, Active
<1>18. CASE CompleteSession(w)
  <2>1. Active' \subseteq Active
    <3> DEFINE r == [Target(w) EXCEPT !.status = verdict[w], !.completedAt = TRUE]
    <3>1. /\ req[w].s \in SessionId /\ Target(w) \in Row
          /\ verdict[w] \in CompletedStatus
      BY <1>18 DEF CompleteSession, Target
    <3>2. row' = [row EXCEPT ![req[w].s] = r]
      BY <1>18 DEF CompleteSession, UpdateSession
    <3>3. r.status \in CompletedStatus
      BY <3>1, StatusWritten
    <3>4. QED
      BY <3>1, <3>2, <3>3 DEF Active, ActiveStatus, CompletedStatus
  <2>2. QED
    BY <2>1
<1>19. CASE Answer(w)
  BY <1>19 DEF Answer, Active
<1>20. CASE Reply(w)
  BY <1>20 DEF Reply, Forget, Active
<1>21. QED
  BY <1>0, <1>1, <1>2, <1>3, <1>4, <1>5, <1>6, <1>7, <1>8, <1>9, <1>10, <1>11, <1>12, <1>13, <1>14, <1>15, <1>16, <1>17, <1>18, <1>19, <1>20 DEF Step

\* No step takes away what a request that is alone knows.
LEMMA AloneNext ==
    ASSUME TypeInv, AloneInv, [Next]_vars
    PROVE  AloneInv'
<1>1. CASE Crash
  BY <1>1 DEF Crash, Forget, AloneInv
<1>2. ASSUME NEW w \in Worker, Begin(w) PROVE AloneInv'
  <2>1. /\ alone' = [v \in Worker |-> v = w /\ Busy = {}]
        /\ \E q \in Requests : pc' = [pc EXCEPT ![w] = Entry(q)]
    BY <1>2 DEF Begin
  <2>2. SUFFICES ASSUME NEW u \in Worker, alone'[u], pc'[u] # "idle"
                 PROVE  /\ \A v \in Worker : v # u => pc'[v] = "idle"
                        /\ Solo(u)'
    BY DEF AloneInv
  <2>3. u = w /\ \A v \in Worker : pc[v] = "idle"
    BY <2>1, <2>2 DEF Busy
  <2>4. pc'[w] \in {"read", "project"}
    BY <2>1 DEF Entry, TypeInv, TypeOK
  <2>5. QED
    BY <2>1, <2>3, <2>4 DEF Solo, At, TypeInv, TypeOK
<1>3. ASSUME NEW w \in Worker, Step(w) PROVE AloneInv'
  <2>1. /\ pc[w] # "idle"
        /\ \A v \in Worker : v # w => pc'[v] = pc[v]
        /\ \A v \in Worker : alone'[v] => alone[v]
    BY <1>3, StepFrame
  <2>2. SUFFICES ASSUME NEW u \in Worker, alone'[u], pc'[u] # "idle"
                 PROVE  /\ \A v \in Worker : v # u => pc'[v] = "idle"
                        /\ Solo(u)'
    BY DEF AloneInv
  <2>3. u = w
    BY <2>1, <2>2 DEF AloneInv
  <2>4. Solo(w) /\ \A v \in Worker : v # w => pc[v] = "idle"
    BY <2>1, <2>2, <2>3 DEF AloneInv
  <2>5. QED
    BY <1>3, <2>1, <2>2, <2>3, <2>4, SoloStep
<1>4. CASE UNCHANGED vars
  BY <1>4 DEF vars, db, locals, AloneInv, Solo, At, Active
<1>5. QED
  BY <1>1, <1>2, <1>3, <1>4 DEF Next

\* A start or reopen that ran alone leaves its session as the one active
\* session, however many workers there are and whatever raced or crashed
\* before it: the single-active rule is restored by the next session.
THEOREM StartAloneWinsAlways == Spec => []StartAloneWins
<1>1. Init => AloneInv
  BY DEF Init, AloneInv
<1>2. AloneInv => StartAloneWins
  BY DEF AloneInv, Solo, StartAloneWins, StartOps, At
<1>3. QED
  BY <1>1, <1>2, AloneNext, TypeInvariant, PTL DEF Spec

-----------------------------------------------------------------------------
(* One request at a time.                                                  *)

\* With one request in flight every request is alone.
SerialInv ==
    /\ \A w \in Worker : pc[w] # "idle" => alone[w]
    /\ SingleActive

\* With one request in flight, a request begins when no worker is busy.
LEMMA SerialBegin ==
    ASSUME InFlight = 1, TypeOK, NEW w \in Worker, Begin(w)
    PROVE  Busy = {}
<1>1. IsFiniteSet(Busy) /\ Cardinality(Busy) \in Nat
  BY Workers, FS_Subset, FS_CardinalityType DEF Busy
<1>2. Cardinality(Busy) = 0
  BY <1>1 DEF Begin
<1>3. QED
  BY <1>1, <1>2, FS_EmptySet

\* With one request in flight, no step lets a second session become active.
LEMMA SerialNext ==
    ASSUME InFlight = 1, TypeInv, AloneInv, SerialInv, [Next]_vars
    PROVE  SerialInv'
<1>1. CASE Crash
  BY <1>1 DEF Crash, Forget, SerialInv, SingleActive, Active, db
<1>2. ASSUME NEW w \in Worker, Begin(w) PROVE SerialInv'
  <2>1. Busy = {}
    BY <1>2, SerialBegin DEF TypeInv
  <2>2. /\ alone' = [v \in Worker |-> v = w /\ Busy = {}]
        /\ \A v \in Worker : v # w => pc'[v] = pc[v]
        /\ row' = row
    BY <1>2 DEF Begin, db, TypeInv, TypeOK
  <2>3. QED
    BY <2>1, <2>2 DEF Busy, SerialInv, SingleActive, Active
<1>3. ASSUME NEW w \in Worker, Step(w) PROVE SerialInv'
  <2>1. /\ pc[w] # "idle"
        /\ \A v \in Worker : pc'[v] # "idle" => alone'[v] = alone[v]
        /\ \A v \in Worker : v # w => pc'[v] = pc[v]
    BY <1>3, StepFrame
  <2>2. alone[w] /\ Solo(w)
    BY <2>1 DEF SerialInv, AloneInv
  <2>3. SingleActive'
    BY <1>3, <2>2, SoloKeepsSingle DEF SerialInv
  <2>4. QED
    BY <2>1, <2>2, <2>3 DEF SerialInv
<1>4. CASE UNCHANGED vars
  BY <1>4 DEF vars, db, locals, SerialInv, SingleActive, Active
<1>5. QED
  BY <1>1, <1>2, <1>3, <1>4 DEF Next

\* When requests are executed one at a time only one session is ever active,
\* although starting one takes several statements and the process may be
\* killed between any two of them.
THEOREM SingleActiveWhenSerial ==
    ASSUME InFlight = 1
    PROVE  Spec => []SingleActive
<1>1. Init => AloneInv /\ SerialInv
  BY DEF Init, AloneInv, SerialInv, SingleActive, Active, NoRow, ActiveStatus
<1>2. TypeInv /\ AloneInv /\ SerialInv /\ [Next]_vars => AloneInv' /\ SerialInv'
  BY AloneNext, SerialNext
<1>3. SerialInv => SingleActive
  BY DEF SerialInv
<1>4. QED
  BY <1>1, <1>2, <1>3, TypeInvariant, PTL DEF Spec


-----------------------------------------------------------------------------
(* What a request that no other overlaps knows at each of its statements   *)
(* about the session it names.                                             *)

Here(w, S) == Target(w).status \in S /\ ~Target(w).deleted

Known(w) ==
    /\ pc[w] \in {"reference", "insert"} => req[w].tests # {}
    /\ pc[w] \in {"query", "retire", "retire_event"} =>
         \/ req[w].op \in {"start", "autostart"} /\ Here(w, {"draft"})
         \/ req[w].op = "reopen" /\ Here(w, CompletedStatus)
    /\ pc[w] \in {"retire", "retire_event"} => victims[w] \subseteq Active
    /\ pc[w] \in {"number", "insert_attempt"} =>
         Here(w, ActiveStatus) /\ req[w].test \in Target(w).selected
    /\ pc[w] = "resume" => Here(w, {"review"})
    /\ pc[w] = "progress" => Here(w, ActiveStatus)
    /\ pc[w] \in {"number", "insert_attempt", "progress"}
         \/ At(w, "write", {"edit_tests", "edit_other"}) => seen[w] = Target(w)
    /\ pc[w] = "write" =>
         \/ req[w].op = "edit_tests" /\ Here(w, {"draft"}) /\ req[w].tests # {}
         \/ req[w].op \in {"edit_other", "delete"} /\ Here(w, {"draft"})
         \/ req[w].op = "review" /\ Here(w, {"in_progress"})
         \/ /\ req[w].op = "complete" /\ Here(w, ActiveStatus)
            /\ Unanswered(Target(w).selected, attempts[req[w].s]) = {}
            /\ verdict[w] = Verdict(Target(w).selected, attempts[req[w].s])
    /\ pc[w] \in {"reopen_event", "answer"} => Visible(Target(w))

\* Nothing is known of the rows but this: only a completed session, or one
\* that was retired, carries a completion date, and an absent row is empty.
RowsInv ==
    \A s \in SessionId :
        /\ row[s].completedAt /\ ~row[s].deleted
             => row[s].status \in CompletedStatus
        /\ row[s].status = "absent" => ~row[s].deleted /\ row[s].selected = {}

KnownInv ==
    /\ \A w \in Worker : pc[w] # "idle" => Known(w)
    /\ RowsInv
    /\ VerdictEarned

\* What the closing statement of an UPDATE needs: the row is there to be read.
LEMMA UpdatedVisible ==
    ASSUME TypeInv, NEW w \in Worker, req[w].s \in SessionId,
           NEW r \in Row, r.status # "absent", ~r.deleted,
           row' = [row EXCEPT ![req[w].s] = r], req'[w] = req[w],
           pc'[w] \in {"answer", "ok", "reopen_event"}
    PROVE  Known(w)'
BY DEF Known, Target, Visible, At, TypeInv, TypeOK

\* A statement that leaves the row and the answers alone keeps what is known
\* about them.
LEMMA ReadKnown ==
    ASSUME TypeInv, NEW w \in Worker, Known(w), ReadSession(w)
    PROVE  Known(w)'
<1> DEFINE r == row[req[w].s]
<1>1. /\ pc[w] = "read" /\ req[w].s \in SessionId /\ r \in Row
      /\ row' = row /\ attempts' = attempts /\ req' = req
      /\ victims' = victims /\ verdict' = verdict
      /\ seen'[w] = r
      /\ pc'[w] = IF Visible(r) /\ Accepts(req[w], r)
                  THEN AfterRead(req[w].op) ELSE "refused"
  BY DEF ReadSession, Goto, TypeInv, TypeOK, RequestOK, db
<1>2. Target(w)' = r /\ Target(w) = r
  BY <1>1 DEF Target
<1>3. CASE ~(Visible(r) /\ Accepts(req[w], r))
  <2>1. pc'[w] = "refused"
    BY <1>1, <1>3
  <2> QED
    BY <2>1 DEF Known, At
<1>4. CASE Visible(r) /\ Accepts(req[w], r)
  <2>1. pc'[w] = AfterRead(req[w].op) /\ ~r.deleted
    BY <1>1, <1>4 DEF Visible
  <2> HIDE DEF r
  <2>2. CASE req[w].op \in {"start", "autostart"}
    <3>1. r.status = "draft" /\ pc'[w] = "query"
      BY <1>4, <2>1, <2>2 DEF Accepts, AfterRead
    <3> QED
      BY <1>1, <1>2, <2>1, <2>2, <3>1 DEF Known, Here, At
  <2>3. CASE req[w].op = "reopen"
    <3>1. r.status \in CompletedStatus /\ pc'[w] = "query"
      BY <1>4, <2>1, <2>3 DEF Accepts, AfterRead
    <3> QED
      BY <1>1, <1>2, <2>1, <2>3, <3>1 DEF Known, Here, At
  <2>4. CASE req[w].op = "attempt"
    <3>1. /\ r.status \in ActiveStatus /\ req[w].test \in r.selected
          /\ pc'[w] = "number"
      BY <1>4, <2>1, <2>4 DEF Accepts, AfterRead
    <3> QED
      BY <1>1, <1>2, <2>1, <2>4, <3>1 DEF Known, Here, At
  <2>5. CASE req[w].op = "complete"
    <3>1. r.status \in ActiveStatus /\ pc'[w] = "progress"
      BY <1>4, <2>1, <2>5 DEF Accepts, AfterRead
    <3> QED
      BY <1>1, <1>2, <2>1, <2>5, <3>1 DEF Known, Here, At
  <2>6. CASE req[w].op = "review"
    <3>1. r.status = "in_progress" /\ pc'[w] = "write"
      BY <1>4, <2>1, <2>6 DEF Accepts, AfterRead
    <3> QED
      BY <1>1, <1>2, <2>1, <2>6, <3>1 DEF Known, Here, At
  <2>7. CASE req[w].op \in {"edit_tests", "edit_other", "delete"}
    <3>1. r.status = "draft" /\ pc'[w] = "write"
      BY <1>4, <2>1, <2>7 DEF Accepts, AfterRead
    <3>2. req[w].op = "edit_tests" => req[w].tests # {}
      BY <1>4 DEF Accepts
    <3> QED
      BY <1>1, <1>2, <2>1, <2>7, <3>1, <3>2 DEF Known, Here, At
  <2>8. CASE req[w].op \in {"create", "none"}
    BY <1>4, <2>8 DEF Accepts
  <2>9. req[w].op \in LoopOps \cup PoolOps \cup {"none"}
    BY DEF TypeInv, TypeOK, Request
  <2> QED
    BY <2>2, <2>3, <2>4, <2>5, <2>6, <2>7, <2>8, <2>9 DEF LoopOps, PoolOps
<1> QED
  BY <1>3, <1>4

\* Every statement of a request that no other overlaps keeps what it knows.
LEMMA KnownStep ==
    ASSUME TypeInv, NEW w \in Worker, Solo(w), Known(w), RowsInv, Step(w),
           pc'[w] # "idle"
    PROVE  Known(w)'
<1> USE DEF TypeInv, TypeOK, RequestOK, Goto, Wrote, WriteRow, db, locals
<1>0. CASE UpsertProject(w)
  BY <1>0 DEF UpsertProject, Known, At
<1>1. CASE ReadReference(w)
  BY <1>1 DEF ReadReference, Known, At
<1>2. CASE InsertSession(w)
  <2> DEFINE r == [NoRow EXCEPT !.status = "draft", !.selected = req[w].tests]
  <2>1. /\ local[w] \in SessionId /\ r \in Row
        /\ r.status = "draft" /\ ~r.deleted
    BY <1>2, DraftTyped, RequestFields DEF InsertSession, NoRow
  <2>2. /\ row' = [row EXCEPT ![local[w]] = r]
        /\ req'[w] = [req[w] EXCEPT !.s = local[w]]
        /\ pc'[w] = IF req[w].op = "autostart" THEN "read" ELSE "answer"
    BY <1>2 DEF InsertSession
  <2>3. req'[w].s = local[w] /\ req'[w].op = req[w].op
    BY <2>2 DEF Request
  <2>4. Target(w)' = r
    BY <2>1, <2>2, <2>3 DEF Target
  <2> HIDE DEF r
  <2> QED
    BY <2>1, <2>2, <2>3, <2>4 DEF Known, Here, Visible, At
<1>3. CASE InsertCollides(w)
  BY <1>3 DEF InsertCollides, Known, At
<1>4. CASE ReadSession(w)
  BY <1>4, ReadKnown
<1>5. CASE QueryActive(w)
  <2>1. Target(w)' = Target(w) /\ Active' = Active /\ victims'[w] = Active
        /\ pc'[w] = "retire" /\ req'[w] = req[w] /\ pc[w] = "query"
    BY <1>5 DEF QueryActive, Target, Active
  <2> QED
    BY <2>1 DEF Known, Here, At
<1>6. CASE RetireOne(w)
  <2>1. PICK v \in victims[w] :
          /\ row' = [row EXCEPT ![v] = [row[v] EXCEPT !.deleted = TRUE]]
          /\ victims' = [victims EXCEPT ![w] = @ \ {v}]
    BY <1>6 DEF RetireOne
  <2>2. /\ pc[w] = "retire" /\ pc'[w] = "retire_event" /\ req' = req
        /\ req[w].s \notin victims[w] /\ req[w].s \in SessionId
        /\ victims[w] \subseteq Active
    BY <1>6 DEF RetireOne, Solo, Known
  <2>3. Target(w)' = Target(w)
    BY <2>1, <2>2 DEF Target
  <2>4. victims'[w] \subseteq Active'
    BY <2>1, <2>2 DEF Active
  <2> QED
    BY <2>2, <2>3, <2>4 DEF Known, Here, At
<1>7. CASE RetireEvent(w)
  <2>1. Target(w)' = Target(w) /\ Active' = Active /\ victims' = victims
        /\ pc'[w] = "retire" /\ req' = req /\ pc[w] = "retire_event"
    BY <1>7 DEF RetireEvent, RecordEvent, Target, Active
  <2> QED
    BY <2>1 DEF Known, Here, At
<1>8. CASE StartSession(w)
  <2>1. req[w].s \in SessionId /\ Target(w) \in Row /\ ~Target(w).deleted
    BY <1>8 DEF StartSession, At, Known, Here, Target
  <2>2. [Target(w) EXCEPT !.status = "in_progress"] \in Row
    BY <2>1, UpdateTyped DEF Status, ActiveStatus
  <2> DEFINE r == [Target(w) EXCEPT !.status = "in_progress"]
  <2>3. r.status # "absent" /\ ~r.deleted
    BY <2>1, StatusWritten DEF Row
  <2>4. /\ row' = [row EXCEPT ![req[w].s] = r] /\ req'[w] = req[w]
        /\ pc'[w] = "answer"
    BY <1>8 DEF StartSession, UpdateSession
  <2> HIDE DEF r
  <2>5. r \in Row
    BY <2>2 DEF r
  <2> QED
    BY <2>1, <2>3, <2>4, <2>5, UpdatedVisible
<1>9. CASE ReopenSession(w)
  <2>1. req[w].s \in SessionId /\ Target(w) \in Row /\ ~Target(w).deleted
    BY <1>9 DEF ReopenSession, At, Known, Here, Target
  <2>2. [Target(w) EXCEPT !.status = "in_progress", !.completedAt = FALSE] \in Row
    BY <2>1, UpdateTyped
  <2> DEFINE r == [Target(w) EXCEPT !.status = "in_progress", !.completedAt = FALSE]
  <2>3. r.status # "absent" /\ ~r.deleted
    BY <2>1, StatusWritten DEF Row
  <2>4. /\ row' = [row EXCEPT ![req[w].s] = r] /\ req'[w] = req[w]
        /\ pc'[w] = "reopen_event"
    BY <1>9 DEF ReopenSession, UpdateSession
  <2> HIDE DEF r
  <2>5. r \in Row
    BY <2>2 DEF r
  <2> QED
    BY <2>1, <2>3, <2>4, <2>5, UpdatedVisible
<1>10. CASE ReopenEvent(w)
  <2>1. Target(w)' = Target(w) /\ pc'[w] = "answer" /\ pc[w] = "reopen_event"
    BY <1>10 DEF ReopenEvent, RecordEvent, Target
  <2> QED
    BY <2>1 DEF Known, At
<1>11. CASE ReviewSession(w)
  <2>1. req[w].s \in SessionId /\ Target(w) \in Row /\ ~Target(w).deleted
    BY <1>11 DEF ReviewSession, At, Known, Here, Target
  <2>2. [Target(w) EXCEPT !.status = "review"] \in Row
    BY <2>1, UpdateTyped DEF Status, ActiveStatus
  <2> DEFINE r == [Target(w) EXCEPT !.status = "review"]
  <2>3. r.status # "absent" /\ ~r.deleted
    BY <2>1, StatusWritten DEF Row
  <2>4. /\ row' = [row EXCEPT ![req[w].s] = r] /\ req'[w] = req[w]
        /\ pc'[w] = "answer"
    BY <1>11 DEF ReviewSession, UpdateSession
  <2> HIDE DEF r
  <2>5. r \in Row
    BY <2>2 DEF r
  <2> QED
    BY <2>1, <2>3, <2>4, <2>5, UpdatedVisible
<1>12. CASE EditSession(w)
  <2>1. /\ req[w].s \in SessionId /\ Target(w) \in Row
        /\ ~Target(w).deleted /\ Target(w).status = "draft"
    BY <1>12 DEF EditSession, At, Known, Here, Target
  <2>2. PICK T \in SUBSET Test :
          row' = [row EXCEPT ![req[w].s] = [Target(w) EXCEPT !.selected = T]]
    BY <1>12, RequestFields, SelectedTyped DEF EditSession, UpdateSession
  <2>3. /\ [Target(w) EXCEPT !.selected = T] \in Row
        /\ [Target(w) EXCEPT !.selected = T].status = "draft"
        /\ ~[Target(w) EXCEPT !.selected = T].deleted
    BY <2>1, UpdateTyped DEF Row
  <2> QED
    BY <1>12, <2>1, <2>2, <2>3, UpdatedVisible DEF EditSession, UpdateSession
<1>13. CASE DeleteSession(w)
  BY <1>13 DEF DeleteSession, UpdateSession, Known, At
<1>14. CASE NumberAttempt(w)
  <2>1. /\ Target(w)' = Target(w) /\ pc[w] = "number"
        /\ pc'[w] = "insert_attempt" /\ req' = req
        /\ seen' = seen
    BY <1>14 DEF NumberAttempt, Target
  <2> QED
    BY <2>1 DEF Known, Here, At
<1>15. CASE InsertAttempt(w)
  <2>1. Target(w)' = Target(w) /\ pc[w] = "insert_attempt"
        /\ pc'[w] = IF seen[w].status = "review" THEN "resume" ELSE "ok"
    BY <1>15 DEF InsertAttempt, Target
  <2>2. seen[w].status = "review" => Here(w, {"review"})
    BY <2>1 DEF Known, Here
  <2> QED
    BY <2>1, <2>2 DEF Known, Here, At
<1>16. CASE ResumeSession(w)
  BY <1>16 DEF ResumeSession, UpdateSession, Known, At
<1>17. CASE ReadProgress(w)
  <2> DEFINE T == seen[w].selected
             a == attempts[req[w].s]
  <2>1. /\ pc[w] = "progress" /\ seen[w] = Target(w) /\ Here(w, ActiveStatus)
        /\ req[w].op = "complete"
    BY <1>17 DEF ReadProgress, Known
  <2>2. /\ Target(w)' = Target(w) /\ attempts' = attempts /\ req' = req
        /\ verdict'[w] = Verdict(T, a)
        /\ pc'[w] = IF Unanswered(T, a) = {} THEN "write" ELSE "refused"
    BY <1>17 DEF ReadProgress, Target
  <2>3. CASE Unanswered(T, a) = {}
    <3>1. Unanswered(Target(w).selected, a) = {}
          /\ verdict'[w] = Verdict(Target(w).selected, a)
      BY <2>1, <2>2, <2>3
    <3>2. /\ (Unanswered(Target(w).selected, attempts[req[w].s]) = {})'
          /\ (verdict[w] = Verdict(Target(w).selected, attempts[req[w].s]))'
      BY <2>2, <3>1 DEF Unanswered, Verdict, Failed
    <3>3. Here(w, ActiveStatus)'
      BY <2>1, <2>2 DEF Here
    <3> QED
      BY <2>1, <2>2, <2>3, <3>2, <3>3 DEF Known, At
  <2>4. CASE Unanswered(T, a) # {}
    BY <2>1, <2>2, <2>4 DEF Known, At
  <2> QED
    BY <2>3, <2>4
<1>18. CASE CompleteSession(w)
  <2>1. /\ req[w].s \in SessionId /\ Target(w) \in Row /\ ~Target(w).deleted
        /\ verdict[w] \in CompletedStatus
    BY <1>18 DEF CompleteSession, At, Known, Here, Target
  <2>2. [Target(w) EXCEPT !.status = verdict[w], !.completedAt = TRUE] \in Row
    BY <2>1, UpdateTyped DEF Status
  <2>3. ~[Target(w) EXCEPT !.status = verdict[w], !.completedAt = TRUE].deleted
    BY <2>1 DEF Row
  <2>4. "absent" \notin CompletedStatus
    BY DEF CompletedStatus
  <2> DEFINE r == [Target(w) EXCEPT !.status = verdict[w], !.completedAt = TRUE]
  <2>5. r.status # "absent" /\ ~r.deleted
    BY <2>1, <2>3, <2>4, StatusWritten DEF Row
  <2>6. /\ row' = [row EXCEPT ![req[w].s] = r] /\ req'[w] = req[w]
        /\ pc'[w] = "answer"
    BY <1>18 DEF CompleteSession, UpdateSession
  <2> HIDE DEF r
  <2>7. r \in Row
    BY <2>2 DEF r
  <2> QED
    BY <2>1, <2>5, <2>6, <2>7, UpdatedVisible
<1>19. CASE Answer(w)
  <2>1. pc'[w] = "ok"
    BY <1>19 DEF Answer, Known
  <2> QED
    BY <2>1 DEF Known, At
<1>20. CASE Reply(w)
  BY <1>20 DEF Reply, Forget
<1>21. QED
  BY <1>0, <1>1, <1>2, <1>3, <1>4, <1>5, <1>6, <1>7, <1>8, <1>9, <1>10, <1>11, <1>12, <1>13, <1>14, <1>15, <1>16, <1>17, <1>18, <1>19, <1>20 DEF Step

-----------------------------------------------------------------------------
(* What the rows say while one request runs at a time.                     *)

\* Writing one row keeps the promises of the others.
LEMMA RowWritten ==
    ASSUME TypeOK, RowsInv, VerdictEarned, NEW s \in SessionId, NEW r,
           row' = [row EXCEPT ![s] = r], attempts' = attempts,
           r.completedAt /\ ~r.deleted => r.status \in CompletedStatus,
           r.status # "absent",
           r.status \in CompletedStatus =>
              /\ Unanswered(r.selected, attempts[s]) = {}
              /\ r.status = Verdict(r.selected, attempts[s])
    PROVE  RowsInv' /\ VerdictEarned'
<1>1. row'[s] = r /\ \A u \in SessionId : u # s => row'[u] = row[u]
  BY DEF TypeOK
<1>2. RowsInv'
  BY <1>1 DEF RowsInv
<1>3. ASSUME NEW u \in SessionId, row'[u].status \in CompletedStatus
      PROVE  /\ Unanswered(row'[u].selected, attempts[u]) = {}
             /\ row'[u].status = Verdict(row'[u].selected, attempts[u])
  <2>1. CASE u = s
    BY <1>1, <1>3, <2>1
  <2>2. CASE u # s
    BY <1>1, <1>3, <2>2 DEF VerdictEarned
  <2> QED
    BY <2>1, <2>2
<1>4. VerdictEarned'
  <2> SUFFICES ASSUME NEW u \in SessionId, row'[u].status \in CompletedStatus
               PROVE  /\ Unanswered(row'[u].selected, attempts'[u]) = {}
                      /\ row'[u].status = Verdict(row'[u].selected, attempts'[u])
    BY DEF VerdictEarned, Unanswered, Verdict, Failed
  <2> QED
    BY <1>3
<1> QED
  BY <1>2, <1>4

\* Who leaves rows and answers alone keeps the verdicts earned.
LEMMA RowsKept ==
    ASSUME RowsInv, VerdictEarned, row' = row, attempts' = attempts
    PROVE  RowsInv' /\ VerdictEarned'
BY DEF RowsInv, VerdictEarned, Unanswered, Verdict, Failed

\* A request that no other overlaps completes a session only with the verdict
\* its answers give, answers and edits none that is completed, and reopens
\* before it changes anything.
LEMMA RowsStep ==
    ASSUME TypeInv, NEW w \in Worker, Solo(w), Known(w), RowsInv, VerdictEarned,
           Step(w)
    PROVE  RowsInv' /\ VerdictEarned'
<1> USE DEF Goto, Wrote, WriteRow, db, locals
<1>1. CASE \/ UpsertProject(w) \/ ReadReference(w) \/ InsertCollides(w) \/ ReadSession(w)
           \/ QueryActive(w) \/ RetireEvent(w) \/ ReopenEvent(w)
           \/ NumberAttempt(w) \/ ReadProgress(w) \/ Answer(w) \/ Reply(w)
  <2>1. row' = row /\ attempts' = attempts
    BY <1>1 DEF UpsertProject, ReadReference, InsertCollides, ReadSession,
       QueryActive,
       RetireEvent, ReopenEvent, RecordEvent, NumberAttempt, ReadProgress,
       Answer, Reply, Forget
  <2> QED
    BY <2>1, RowsKept
<1>2. CASE InsertSession(w)
  <2> DEFINE r == [NoRow EXCEPT !.status = "draft", !.selected = req[w].tests]
  <2>1. /\ r.status = "draft" /\ ~r.completedAt
        /\ local[w] \in SessionId /\ TypeOK
        /\ row' = [row EXCEPT ![local[w]] = r] /\ attempts' = attempts
    BY <1>2 DEF InsertSession, NoRow, TypeInv, RequestOK
  <2> HIDE DEF r
  <2> QED
    BY <2>1, RowWritten DEF CompletedStatus
<1>3. CASE RetireOne(w)
  <2>1. PICK v \in victims[w] :
          row' = [row EXCEPT ![v] = [row[v] EXCEPT !.deleted = TRUE]]
    BY <1>3 DEF RetireOne
  <2> DEFINE r == [row[v] EXCEPT !.deleted = TRUE]
  <2>2. v \in Active /\ v \in SessionId /\ row[v] \in Row /\ TypeOK
    BY <1>3 DEF RetireOne, Known, Active, TypeInv, TypeOK
  <2>3. r.deleted /\ r.status \in ActiveStatus
    BY <2>2 DEF Row, Active
  <2>4. row' = [row EXCEPT ![v] = r] /\ attempts' = attempts
    BY <1>3, <2>1 DEF RetireOne
  <2> HIDE DEF r
  <2> QED
    BY <2>2, <2>3, <2>4, RowWritten DEF ActiveStatus, CompletedStatus
<1>4. CASE \/ StartSession(w) \/ ReviewSession(w) \/ ResumeSession(w)
  <2>1. PICK x \in ActiveStatus :
          row' = [row EXCEPT ![req[w].s] = [Target(w) EXCEPT !.status = x]]
    BY <1>4 DEF StartSession, ReviewSession, ResumeSession, UpdateSession,
       ActiveStatus
  <2> DEFINE r == [Target(w) EXCEPT !.status = x]
  <2>2. /\ req[w].s \in SessionId /\ Target(w) \in Row /\ TypeOK
        /\ Target(w).status \notin CompletedStatus /\ ~Target(w).deleted
    BY <1>4 DEF StartSession, ReviewSession, ResumeSession, At, Known, Here,
       CompletedStatus, TypeInv, TypeOK, RequestOK, Target
  <2>3. ~Target(w).completedAt
    BY <2>2 DEF RowsInv, Target
  <2>4. r.status = x /\ ~r.completedAt
    BY <2>2, <2>3 DEF Row
  <2>5. row' = [row EXCEPT ![req[w].s] = r] /\ attempts' = attempts
    BY <1>4, <2>1 DEF StartSession, ReviewSession, ResumeSession, UpdateSession
  <2> HIDE DEF r
  <2> QED
    BY <2>1, <2>2, <2>4, <2>5, RowWritten DEF ActiveStatus, CompletedStatus
<1>5. CASE ReopenSession(w)
  <2> DEFINE r == [Target(w) EXCEPT !.status = "in_progress",
                                    !.completedAt = FALSE]
  <2>1. /\ req[w].s \in SessionId /\ Target(w) \in Row /\ TypeOK
    BY <1>5 DEF ReopenSession, At, TypeInv, TypeOK, RequestOK, Target
  <2>2. r.status = "in_progress" /\ ~r.completedAt
    BY <2>1 DEF Row
  <2>3. row' = [row EXCEPT ![req[w].s] = r] /\ attempts' = attempts
    BY <1>5 DEF ReopenSession, UpdateSession
  <2> HIDE DEF r
  <2> QED
    BY <2>1, <2>2, <2>3, RowWritten DEF CompletedStatus
<1>6. CASE EditSession(w)
  <2>1. PICK T :
          row' = [row EXCEPT ![req[w].s] = [Target(w) EXCEPT !.selected = T]]
    BY <1>6 DEF EditSession, UpdateSession
  <2> DEFINE r == [Target(w) EXCEPT !.selected = T]
  <2>2. /\ req[w].s \in SessionId /\ Target(w) \in Row /\ TypeOK
        /\ Target(w).status = "draft" /\ ~Target(w).deleted
    BY <1>6 DEF EditSession, At, Known, Here, TypeInv, TypeOK, RequestOK, Target
  <2>3. ~Target(w).completedAt
    BY <2>2 DEF RowsInv, Target, CompletedStatus
  <2>4. r.status = "draft" /\ ~r.completedAt
    BY <2>2, <2>3 DEF Row
  <2>5. row' = [row EXCEPT ![req[w].s] = r] /\ attempts' = attempts
    BY <1>6, <2>1 DEF EditSession, UpdateSession
  <2> HIDE DEF r
  <2> QED
    BY <2>2, <2>4, <2>5, RowWritten DEF CompletedStatus
<1>7. CASE DeleteSession(w)
  <2> DEFINE r == [Target(w) EXCEPT !.deleted = TRUE]
  <2>1. /\ req[w].s \in SessionId /\ Target(w) \in Row /\ TypeOK
        /\ Target(w).status = "draft"
    BY <1>7 DEF DeleteSession, At, Known, Here, TypeInv, TypeOK, RequestOK,
       Target
  <2>2. r.status = "draft" /\ r.deleted
    BY <2>1 DEF Row
  <2>3. row' = [row EXCEPT ![req[w].s] = r] /\ attempts' = attempts
    BY <1>7 DEF DeleteSession, UpdateSession
  <2> HIDE DEF r
  <2> QED
    BY <2>1, <2>2, <2>3, RowWritten DEF CompletedStatus
<1>8. CASE InsertAttempt(w)
  <2>1. /\ req[w].s \in SessionId /\ row' = row
        /\ row[req[w].s].status \notin CompletedStatus
        /\ \A u \in SessionId : u # req[w].s => attempts'[u] = attempts[u]
    BY <1>8 DEF InsertAttempt, Known, Here, Target, ActiveStatus,
       CompletedStatus, TypeInv, TypeOK, RequestOK
  <2>2. VerdictEarned'
    <3> SUFFICES ASSUME NEW u \in SessionId, row'[u].status \in CompletedStatus
                 PROVE  /\ Unanswered(row'[u].selected, attempts'[u]) = {}
                        /\ row'[u].status
                              = Verdict(row'[u].selected, attempts'[u])
      BY DEF VerdictEarned, Unanswered, Verdict, Failed
    <3> QED
      BY <2>1 DEF VerdictEarned
  <2> QED
    BY <2>1, <2>2 DEF RowsInv
<1>9. CASE CompleteSession(w)
  <2> DEFINE r == [Target(w) EXCEPT !.status = verdict[w], !.completedAt = TRUE]
  <2>1. /\ req[w].s \in SessionId /\ Target(w) \in Row /\ TypeOK
        /\ Unanswered(Target(w).selected, attempts[req[w].s]) = {}
        /\ verdict[w] = Verdict(Target(w).selected, attempts[req[w].s])
        /\ verdict[w] \in CompletedStatus
    BY <1>9 DEF CompleteSession, At, Known, TypeInv, TypeOK, RequestOK, Target
  <2>2. r.status = verdict[w] /\ r.selected = Target(w).selected
    BY <2>1 DEF Row
  <2>3. row' = [row EXCEPT ![req[w].s] = r] /\ attempts' = attempts
    BY <1>9 DEF CompleteSession, UpdateSession
  <2> HIDE DEF r
  <2> QED
    BY <2>1, <2>2, <2>3, RowWritten DEF CompletedStatus
<1> QED
  BY <1>1, <1>2, <1>3, <1>4, <1>5, <1>6, <1>7, <1>8, <1>9 DEF Step

\* With one request in flight, the request at work knows what it needs at each
\* statement, from its first one on and whatever is killed.
LEMMA KnownNext ==
    ASSUME InFlight = 1, TypeInv, AloneInv, SerialInv, KnownInv, [Next]_vars
    PROVE  KnownInv'
<1>1. RowsInv /\ VerdictEarned
  BY DEF KnownInv
<1>2. CASE Crash
  <2>1. row' = row /\ attempts' = attempts
    BY <1>2 DEF Crash, Forget, db
  <2>2. \A w \in Worker : pc'[w] = "idle"
    BY <1>2 DEF Crash, Forget
  <2> QED
    BY <1>1, <2>1, <2>2, RowsKept DEF KnownInv
<1>3. ASSUME NEW w \in Worker, Begin(w) PROVE KnownInv'
  <2>1. row' = row /\ attempts' = attempts
    BY <1>3 DEF Begin, db
  <2>2. PICK q \in Requests : /\ pc' = [pc EXCEPT ![w] = Entry(q)]
                              /\ req' = [req EXCEPT ![w] = q]
    BY <1>3 DEF Begin
  <2>3. \A v \in Worker : v # w => pc[v] = "idle" /\ pc'[v] = "idle"
    BY <1>3, <2>2, SerialBegin DEF Busy, TypeInv, TypeOK
  <2>4. pc'[w] \in {"read", "project"}
    BY <2>2 DEF Entry, TypeInv, TypeOK
  <2>5. Known(w)'
    BY <2>4 DEF Known, At
  <2> QED
    BY <1>1, <2>1, <2>3, <2>5, RowsKept DEF KnownInv
<1>4. ASSUME NEW w \in Worker, Step(w) PROVE KnownInv'
  <2>1. /\ pc[w] # "idle"
        /\ \A v \in Worker : v # w => pc'[v] = pc[v]
    BY <1>4, StepFrame
  <2>2. Solo(w) /\ Known(w) /\ \A v \in Worker : v # w => pc'[v] = "idle"
    BY <2>1 DEF SerialInv, AloneInv, KnownInv
  <2>3. RowsInv' /\ VerdictEarned'
    BY <1>1, <1>4, <2>2, RowsStep
  <2>4. pc'[w] # "idle" => Known(w)'
    BY <1>1, <1>4, <2>2, KnownStep
  <2> QED
    BY <2>2, <2>3, <2>4 DEF KnownInv
<1>5. CASE UNCHANGED vars
  <2>1. row' = row /\ attempts' = attempts
    BY <1>5 DEF vars, db
  <2>2. \A w \in Worker : Known(w) => Known(w)'
    BY <1>5 DEF vars, db, locals, Known, Here, Target, At, Active, Visible,
                Unanswered, Verdict, Failed
  <2>3. pc' = pc
    BY <1>5 DEF vars
  <2> QED
    BY <1>1, <2>1, <2>2, <2>3, RowsKept DEF KnownInv
<1>6. QED
  BY <1>2, <1>3, <1>4, <1>5 DEF Next

\* Types, who is alone, and what that request knows.
SerialStore == TypeInv /\ AloneInv /\ SerialInv /\ KnownInv

\* With one request in flight the whole invariant holds in every reachable state.
LEMMA SerialStoreAlways ==
    ASSUME InFlight = 1
    PROVE  Spec => []SerialStore
<1>1. Init => SerialStore
  <2> SUFFICES ASSUME Init PROVE SerialStore
    OBVIOUS
  <2>1. AloneInv /\ SerialInv
    BY DEF Init, AloneInv, SerialInv, SingleActive, Active, NoRow, ActiveStatus
  <2>2. KnownInv
    BY DEF Init, KnownInv, RowsInv, VerdictEarned, NoRow,
           CompletedStatus
  <2> QED
    BY <2>1, <2>2, TypeInit DEF SerialStore
<1>2. SerialStore /\ [Next]_vars => TypeInv'
  BY TypeNext DEF SerialStore
<1>3. SerialStore /\ [Next]_vars => SerialStore'
  BY <1>2, AloneNext, SerialNext, KnownNext DEF SerialStore
<1>4. QED
  BY <1>1, <1>3, PTL DEF Spec

\* While requests are executed one at a time, a completed session has an answer
\* for every test it selects and the status its latest answers give (FR-37),
\* for any number of sessions, tests, answers and process kills.
THEOREM VerdictEarnedWhenSerial ==
    ASSUME InFlight = 1
    PROVE  Spec => []VerdictEarned
<1>1. SerialStore => VerdictEarned
  BY DEF SerialStore, KnownInv
<1>2. QED
  BY <1>1, SerialStoreAlways, PTL

\* While requests are executed one at a time, no session with a completion date
\* is back in an active status (FR-25): only reopen leads there, and clears it.
THEOREM CompletedReadOnlyWhenSerial ==
    ASSUME InFlight = 1
    PROVE  Spec => []CompletedReadOnly
<1>1. SerialStore => CompletedReadOnly
  BY DEF SerialStore, KnownInv, RowsInv, CompletedReadOnly, Active,
         ActiveStatus, CompletedStatus
<1>2. QED
  BY <1>1, SerialStoreAlways, PTL

-----------------------------------------------------------------------------
(* The store implements the session lifecycle.                             *)

\* What a client sees of a row, given whether a retest is about to put it back
\* to work.
Seen(r, resuming) ==
    IF r.deleted THEN IF r.status = "draft" THEN "discarded" ELSE "retired"
    ELSE IF resuming THEN "in_progress" ELSE r.status

Phases == [s \in SessionId |-> PhaseOf(s)]
Selections == [s \in SessionId |-> row[s].selected]
Resuming(s) == \E w \in Worker : pc[w] = "resume" /\ req[w].s = s

\* The phase of a session is what its row and a reopening of it show.
LEMMA PhaseSeen ==
    ASSUME NEW s
    PROVE  PhaseOf(s) = Seen(row[s], Resuming(s))
BY DEF PhaseOf, Seen, Resuming

\* The same after a step.
LEMMA PhaseSeenNext ==
    ASSUME NEW s
    PROVE  PhaseOf(s)' = Seen(row'[s], Resuming(s)')
BY DEF PhaseOf, Seen, Resuming

\* A statement that changes no row, no answer and no retest is invisible.
LEMMA Invisible ==
    ASSUME row' = row, attempts' = attempts,
           \A s \in SessionId : Resuming(s)' = Resuming(s)
    PROVE  UNCHANGED Lifecycle!vars
<1>1. \A s \in SessionId : PhaseOf(s)' = PhaseOf(s)
  BY PhaseSeen, PhaseSeenNext
<1>2. Phases' = Phases
  BY <1>1 DEF Phases
<1>3. Selections' = Selections
  BY DEF Selections
<1>4. QED
  BY <1>2, <1>3 DEF Lifecycle!vars, Phases, Selections

\* Writing a row that is not about to be put back to work is a change of that
\* session alone.
LEMMA VisibleWrite ==
    ASSUME TypeOK, NEW s \in SessionId, NEW r,
           row' = [row EXCEPT ![s] = r],
           \A u \in SessionId : ~Resuming(u) /\ ~Resuming(u)'
    PROVE  /\ Phases' = [Phases EXCEPT ![s] = Seen(r, FALSE)]
           /\ Selections' = [Selections EXCEPT ![s] = r.selected]
           /\ \A u \in SessionId : Phases[u] = Seen(row[u], FALSE)
<1>1. row'[s] = r /\ \A u \in SessionId : u # s => row'[u] = row[u]
  BY DEF TypeOK
<1>2. \A u \in SessionId : PhaseOf(u) = Seen(row[u], FALSE)
  BY PhaseSeen DEF Seen
<1>3. \A u \in SessionId : PhaseOf(u)' = Seen(row'[u], FALSE)
  BY PhaseSeenNext DEF Seen
<1>4. Phases' = [Phases EXCEPT ![s] = Seen(r, FALSE)]
  BY <1>1, <1>2, <1>3 DEF Phases
<1>5. Selections' = [Selections EXCEPT ![s] = r.selected]
  <2>1. Selections' = [u \in SessionId |-> row'[u].selected]
    BY DEF Selections
  <2>2. \A u \in SessionId : row'[u].selected
                               = IF u = s THEN r.selected ELSE row[u].selected
    BY <1>1
  <2> QED
    BY <2>1, <2>2 DEF Selections
<1>6. QED
  BY <1>2, <1>4, <1>5 DEF Phases

\* The moves of the lifecycle, spelled out over the rows.
LEMMA MoveMapped ==
    ASSUME NEW s \in SessionId, NEW from, NEW to,
           Phases[s] \in from, Phases' = [Phases EXCEPT ![s] = to],
           Selections' = Selections, attempts' = attempts
    PROVE  Lifecycle!Move(s, from, to)
BY DEF Lifecycle!Move, Phases, Selections
\* The state machine's constants are the store's.
LEMMA SameWords ==
    /\ Lifecycle!ActivePhase = ActiveStatus
    /\ Lifecycle!CompletedPhase = CompletedStatus
    /\ Lifecycle!Result = Result
    /\ \A T, a : Lifecycle!Unanswered(T, a) = Unanswered(T, a)
    /\ \A T, a : Lifecycle!Verdict(T, a) = Verdict(T, a)
<1>1. /\ Lifecycle!ActivePhase = ActiveStatus
      /\ Lifecycle!CompletedPhase = CompletedStatus
      /\ Lifecycle!Result = Result
  BY DEF Lifecycle!ActivePhase, Lifecycle!CompletedPhase, Lifecycle!Result,
         ActiveStatus, CompletedStatus, Result
<1>2. \A T, a : Lifecycle!Unanswered(T, a) = Unanswered(T, a)
  BY DEF Lifecycle!Unanswered, Unanswered
<1>3. \A T, a : Lifecycle!Failed(T, a) = Failed(T, a)
  BY DEF Lifecycle!Failed, Failed, Lifecycle!Last, Last
<1>4. \A T, a : Lifecycle!Verdict(T, a) = Verdict(T, a)
  BY <1>3 DEF Lifecycle!Verdict, Verdict
<1>5. QED
  BY <1>1, <1>2, <1>4

\* An UPDATE of columns other than the selection is a move of that session.
LEMMA UpdateMapped ==
    ASSUME TypeOK, NEW s \in SessionId, NEW r,
           row' = [row EXCEPT ![s] = r], attempts' = attempts,
           \A u \in SessionId : ~Resuming(u) /\ ~Resuming(u)',
           r.selected = row[s].selected,
           NEW from, Seen(row[s], FALSE) \in from
    PROVE  Lifecycle!Move(s, from, Seen(r, FALSE))
<1>1. /\ Phases' = [Phases EXCEPT ![s] = Seen(r, FALSE)]
      /\ Selections' = [Selections EXCEPT ![s] = r.selected]
      /\ \A u \in SessionId : Phases[u] = Seen(row[u], FALSE)
  BY VisibleWrite
<1>2. Selections' = Selections
  BY <1>1 DEF Selections
<1>3. QED
  BY <1>1, <1>2, MoveMapped

\* Every statement of a request that no other overlaps is one operation of the
\* lifecycle on one session, or none.
LEMMA StepMapped ==
    ASSUME TypeInv, RowsInv, NEW w \in Worker, Solo(w), Known(w), Step(w),
           \A v \in Worker : v # w => pc[v] = "idle"
    PROVE  Lifecycle!Next \/ UNCHANGED Lifecycle!vars
<1> USE DEF Goto, Wrote, WriteRow, db, locals
<1>1. /\ \A s \in SessionId : Resuming(s) <=> pc[w] = "resume" /\ req[w].s = s
      /\ \A s \in SessionId :
            Resuming(s)' <=> pc'[w] = "resume" /\ req'[w].s = s
      /\ TypeOK /\ pc[w] # "idle"
  BY StepFrame DEF Resuming, TypeInv
<1>2. ASSUME pc[w] # "resume", pc'[w] # "resume"
      PROVE  \A s \in SessionId : ~Resuming(s) /\ ~Resuming(s)'
  BY <1>1, <1>2
<1>3. ASSUME row' = row, attempts' = attempts, pc[w] # "resume",
             pc'[w] # "resume"
      PROVE  UNCHANGED Lifecycle!vars
  <2>1. \A s \in SessionId : Resuming(s)' = Resuming(s)
    BY <1>2, <1>3 DEF Resuming
  <2> QED
    BY <1>3, <2>1, Invisible
<1>4. CASE \/ UpsertProject(w) \/ ReadReference(w) \/ InsertCollides(w) \/ ReadSession(w)
           \/ QueryActive(w) \/ RetireEvent(w) \/ ReopenEvent(w)
           \/ NumberAttempt(w) \/ ReadProgress(w) \/ Answer(w) \/ Reply(w)
  <2>1. row' = row /\ attempts' = attempts
    BY <1>4 DEF UpsertProject, ReadReference, InsertCollides, ReadSession,
       QueryActive,
       RetireEvent, ReopenEvent, RecordEvent, NumberAttempt, ReadProgress,
       Answer, Reply, Forget
  <2>2. pc[w] # "resume" /\ pc'[w] # "resume"
    BY <1>4 DEF UpsertProject, ReadReference, InsertCollides, ReadSession,
       QueryActive,
       RetireEvent, ReopenEvent, RecordEvent, NumberAttempt, ReadProgress,
       Answer, Reply, Forget, AfterRead, TypeInv, TypeOK
  <2> QED
    BY <1>3, <2>1, <2>2
<1>5. CASE InsertSession(w)
  <2>0. PICK s, T, r : /\ s = local[w] /\ T = req[w].tests
                       /\ r = [NoRow EXCEPT !.status = "draft", !.selected = T]
    OBVIOUS
  <2>1. /\ r.status = "draft" /\ ~r.deleted /\ r.selected = T
        /\ s \in SessionId /\ row' = [row EXCEPT ![s] = r]
        /\ attempts' = attempts /\ row[s].status = "absent"
        /\ pc[w] = "insert" /\ pc'[w] # "resume"
    BY <1>5, <2>0 DEF InsertSession, NoRow, TypeInv, TypeOK, RequestOK, Exists
  <2>2. T \in SUBSET Test /\ T # {}
    BY <2>0, <2>1, RequestFields DEF Known, TypeInv, TypeOK
  <2>3. ~row[s].deleted
    BY <2>1 DEF RowsInv
  <2>4. /\ Phases' = [Phases EXCEPT ![s] = Seen(r, FALSE)]
        /\ Selections' = [Selections EXCEPT ![s] = r.selected]
        /\ Phases[s] = Seen(row[s], FALSE)
    BY <1>1, <1>2, <2>1, VisibleWrite
  <2>5. Seen(r, FALSE) = "draft" /\ Seen(row[s], FALSE) = "absent"
    BY <2>1, <2>3 DEF Seen
  <2>6. Lifecycle!Create(s, T)
    BY <2>1, <2>2, <2>4, <2>5 DEF Lifecycle!Create, Phases, Selections
  <2>7. \E U \in SUBSET Test : Lifecycle!Create(s, U) \/ Lifecycle!Edit(s, U)
    BY <2>2, <2>6
  <2> QED
    BY <2>1, <2>7 DEF Lifecycle!Next
<1>6. CASE RetireOne(w)
  <2>1. PICK v \in victims[w] :
          row' = [row EXCEPT ![v] = [row[v] EXCEPT !.deleted = TRUE]]
    BY <1>6 DEF RetireOne
  <2> DEFINE r == [row[v] EXCEPT !.deleted = TRUE]
  <2>2. /\ v \in SessionId /\ row[v] \in Row /\ pc[w] = "retire"
        /\ row[v].status \in ActiveStatus /\ ~row[v].deleted
        /\ pc'[w] = "retire_event" /\ attempts' = attempts
    BY <1>6 DEF RetireOne, Known, Active, TypeInv, TypeOK
  <2>3. r.deleted /\ r.status = row[v].status /\ r.selected = row[v].selected
    BY <2>2 DEF Row
  <2>4. row' = [row EXCEPT ![v] = r]
    BY <2>1
  <2> HIDE DEF r
  <2>5. Seen(r, FALSE) = "retired" /\ Seen(row[v], FALSE) \in ActiveStatus
    BY <2>2, <2>3 DEF Seen, ActiveStatus
  <2>6. Lifecycle!Move(v, ActiveStatus, Seen(r, FALSE))
    BY <1>1, <1>2, <2>2, <2>3, <2>4, <2>5, UpdateMapped
  <2>7. Lifecycle!Retire(v)
    BY <2>5, <2>6, SameWords DEF Lifecycle!Retire
  <2> QED
    BY <2>2, <2>7 DEF Lifecycle!Next
<1>7. CASE StartSession(w) \/ ReopenSession(w)
  <2> DEFINE s == req[w].s
  <2>1. PICK r : /\ row' = [row EXCEPT ![s] = r]
                 /\ r.status = "in_progress" /\ r.deleted = row[s].deleted
                 /\ r.selected = row[s].selected
    <3>1. s \in SessionId /\ row[s] \in Row
      BY <1>7 DEF StartSession, ReopenSession, At, TypeInv, TypeOK, RequestOK
    <3>2. CASE StartSession(w)
      <4> DEFINE r == [row[s] EXCEPT !.status = "in_progress"]
      <4>1. r.status = "in_progress" /\ r.deleted = row[s].deleted
            /\ r.selected = row[s].selected
        BY <3>1 DEF Row
      <4> QED
        BY <3>2, <4>1 DEF StartSession, UpdateSession, Target
    <3>3. CASE ReopenSession(w)
      <4> DEFINE r == [row[s] EXCEPT !.status = "in_progress",
                                     !.completedAt = FALSE]
      <4>1. r.status = "in_progress" /\ r.deleted = row[s].deleted
            /\ r.selected = row[s].selected
        BY <3>1 DEF Row
      <4> QED
        BY <3>3, <4>1 DEF ReopenSession, UpdateSession, Target
    <3> QED
      BY <1>7, <3>2, <3>3
  <2>2. /\ s \in SessionId /\ pc[w] = "retire" /\ pc'[w] # "resume"
        /\ attempts' = attempts /\ Active = {} /\ ~row[s].deleted
    BY <1>7 DEF StartSession, ReopenSession, UpdateSession, At, Solo, TypeInv,
       TypeOK, RequestOK
  <2>3. \A u \in SessionId : Phases[u] = Seen(row[u], FALSE)
    BY <1>1, <1>2, <2>1, <2>2, VisibleWrite
  <2>4. Lifecycle!Active = {}
    <3>1. \A u \in SessionId : Phases[u] \notin ActiveStatus
      BY <2>2, <2>3 DEF Seen, Active, ActiveStatus
    <3> QED
      BY <3>1, SameWords DEF Lifecycle!Active, Phases
  <2>5. Seen(r, FALSE) = "in_progress"
    BY <2>1, <2>2 DEF Seen
  <2> HIDE DEF s
  <2>6. ASSUME NEW from, Seen(row[s], FALSE) \in from
        PROVE  Lifecycle!Move(s, from, "in_progress")
    BY <1>1, <1>2, <2>1, <2>2, <2>5, <2>6, UpdateMapped
  <2>7. CASE StartSession(w)
    <3>1. Seen(row[s], FALSE) \in {"draft"}
      BY <2>2, <2>7 DEF StartSession, At, Known, Here, Seen, Target,
         CompletedStatus, s
    <3> QED
      BY <2>2, <2>4, <2>6, <3>1 DEF Lifecycle!Next, Lifecycle!Start
  <2>8. CASE ReopenSession(w)
    <3>1. Seen(row[s], FALSE) \in CompletedStatus
      BY <2>2, <2>8 DEF ReopenSession, At, Known, Here, Seen, Target, s
    <3> QED
      BY <2>2, <2>4, <2>6, <3>1, SameWords DEF Lifecycle!Next, Lifecycle!Reopen
  <2> QED
    BY <1>7, <2>7, <2>8
<1>8. CASE ReviewSession(w)
  <2> DEFINE s == req[w].s
             r == [row[s] EXCEPT !.status = "review"]
  <2>1. /\ s \in SessionId /\ row[s] \in Row /\ row' = [row EXCEPT ![s] = r]
        /\ attempts' = attempts /\ pc[w] = "write" /\ pc'[w] = "answer"
        /\ row[s].status = "in_progress" /\ ~row[s].deleted
    BY <1>8 DEF ReviewSession, At, UpdateSession, Target, Known, Here, TypeInv,
       TypeOK, RequestOK
  <2>2. r.status = "review" /\ ~r.deleted /\ r.selected = row[s].selected
    BY <2>1 DEF Row
  <2> HIDE DEF r, s
  <2>3. Seen(r, FALSE) = "review" /\ Seen(row[s], FALSE) \in {"in_progress"}
    BY <2>1, <2>2 DEF Seen
  <2>4. Lifecycle!Move(s, {"in_progress"}, Seen(r, FALSE))
    BY <1>1, <1>2, <2>1, <2>2, <2>3, UpdateMapped
  <2> QED
    BY <2>1, <2>3, <2>4 DEF Lifecycle!Next, Lifecycle!Review
<1>9. CASE DeleteSession(w)
  <2> DEFINE s == req[w].s
             r == [row[s] EXCEPT !.deleted = TRUE]
  <2>1. /\ s \in SessionId /\ row[s] \in Row /\ row' = [row EXCEPT ![s] = r]
        /\ attempts' = attempts /\ pc[w] = "write" /\ pc'[w] = "ok"
        /\ row[s].status = "draft" /\ ~row[s].deleted
    BY <1>9 DEF DeleteSession, At, UpdateSession, Target, Known, Here, TypeInv,
       TypeOK, RequestOK
  <2>2. r.status = "draft" /\ r.deleted /\ r.selected = row[s].selected
    BY <2>1 DEF Row
  <2> HIDE DEF r, s
  <2>3. Seen(r, FALSE) = "discarded" /\ Seen(row[s], FALSE) \in {"draft"}
    BY <2>1, <2>2 DEF Seen
  <2>4. Lifecycle!Move(s, {"draft"}, Seen(r, FALSE))
    BY <1>1, <1>2, <2>1, <2>2, <2>3, UpdateMapped
  <2> QED
    BY <2>1, <2>3, <2>4 DEF Lifecycle!Next, Lifecycle!Discard
<1>10. CASE EditSession(w)
  <2> DEFINE s == req[w].s
  <2>1. PICK T \in SUBSET Test :
          /\ row' = [row EXCEPT ![s] = [row[s] EXCEPT !.selected = T]]
          /\ T # {} \/ T = row[s].selected
    <3>1. req[w].tests \in SUBSET Test /\ row[s].selected \in SUBSET Test
      BY <1>10, RequestFields, SelectedTyped DEF EditSession, At, TypeInv,
         TypeOK, RequestOK
    <3>2. /\ req[w].op = "edit_tests" => req[w].tests # {}
          /\ req[w].op # "edit_tests" => seen[w].selected = row[s].selected
      BY <1>10 DEF EditSession, At, Known, Target
    <3> QED
      BY <1>10, <3>1, <3>2 DEF EditSession, UpdateSession, Target
  <2> DEFINE r == [row[s] EXCEPT !.selected = T]
  <2>2. /\ s \in SessionId /\ row[s] \in Row /\ row' = [row EXCEPT ![s] = r]
        /\ attempts' = attempts /\ pc[w] = "write" /\ pc'[w] = "answer"
        /\ row[s].status = "draft" /\ ~row[s].deleted
    BY <1>10, <2>1 DEF EditSession, At, UpdateSession, Target, Known, Here,
       TypeInv, TypeOK, RequestOK
  <2>3. r.status = "draft" /\ ~r.deleted /\ r.selected = T
    BY <2>2 DEF Row
  <2> HIDE DEF r, s
  <2>4. /\ Phases' = [Phases EXCEPT ![s] = Seen(r, FALSE)]
        /\ Selections' = [Selections EXCEPT ![s] = T]
        /\ Phases[s] = Seen(row[s], FALSE)
    BY <1>1, <1>2, <2>2, <2>3, VisibleWrite
  <2>5. Seen(r, FALSE) = "draft" /\ Seen(row[s], FALSE) = "draft"
    BY <2>2, <2>3 DEF Seen
  <2>6. Phases' = Phases
    BY <2>4, <2>5 DEF Phases
  <2>7. CASE T # {}
    <3>1. Lifecycle!Edit(s, T)
      BY <2>2, <2>4, <2>5, <2>6, <2>7 DEF Lifecycle!Edit, Phases, Selections
    <3> QED
      BY <2>2, <3>1 DEF Lifecycle!Next
  <2>8. CASE T = row[s].selected
    <3>1. Selections' = Selections
      BY <2>2, <2>4, <2>8 DEF Selections
    <3> QED
      BY <2>2, <2>6, <3>1 DEF Lifecycle!vars, Phases, Selections
  <2> QED
    BY <2>1, <2>7, <2>8
<1>11. CASE InsertAttempt(w)
  <2>0. PICK s, x, a : s = req[w].s /\ x = req[w].test /\ a = req[w].answer
    OBVIOUS
  <2>1. /\ s \in SessionId /\ x \in Test /\ a \in Result /\ row' = row
        /\ req' = req /\ pc[w] = "insert_attempt" /\ seen[w] = row[s]
        /\ attempts' = [attempts EXCEPT ![s][x] = Append(@, a)]
        /\ pc'[w] = IF row[s].status = "review" THEN "resume" ELSE "ok"
        /\ row[s].status \in ActiveStatus /\ ~row[s].deleted
        /\ x \in row[s].selected
    BY <1>11, <2>0 DEF InsertAttempt, Known, Here, Target, TypeInv, TypeOK, RequestOK
  <2>2. \A u \in SessionId : /\ PhaseOf(u) = Seen(row[u], FALSE)
                             /\ u # s => PhaseOf(u)' = Seen(row[u], FALSE)
    BY <1>1, <2>0, <2>1, PhaseSeen, PhaseSeenNext DEF Seen
  <2>3. PhaseOf(s)' = "in_progress"
    BY <1>1, <2>0, <2>1, PhaseSeenNext DEF Seen, ActiveStatus
  <2>4. Phases' = [Phases EXCEPT ![s] = "in_progress"]
    BY <2>1, <2>2, <2>3 DEF Phases
  <2>5. Phases[s] \in ActiveStatus
    BY <2>1, <2>2 DEF Phases, Seen
  <2>6. Selections' = Selections /\ Selections[s] = row[s].selected
    BY <2>1 DEF Selections
  <2>7. Lifecycle!Record(s, x, a)
    BY <2>1, <2>4, <2>5, <2>6, SameWords DEF Lifecycle!Record, Phases, Selections
  <2> QED
    BY <2>1, <2>7, SameWords DEF Lifecycle!Next
<1>12. CASE ResumeSession(w)
  <2>0. PICK s, r : /\ s = req[w].s
                    /\ r = [row[s] EXCEPT !.status = "in_progress"]
    OBVIOUS
  <2>1. /\ s \in SessionId /\ row[s] \in Row /\ row' = [row EXCEPT ![s] = r]
        /\ attempts' = attempts /\ pc[w] = "resume" /\ pc'[w] = "ok"
        /\ ~row[s].deleted /\ req' = req
    BY <1>12, <2>0 DEF ResumeSession, UpdateSession, Target, Known, Here, TypeInv,
       TypeOK, RequestOK
  <2>2. r.status = "in_progress" /\ ~r.deleted /\ r.selected = row[s].selected
    BY <2>0, <2>1 DEF Row
  <2>3. row'[s] = r /\ \A u \in SessionId : u # s => row'[u] = row[u]
    BY <2>1 DEF TypeInv, TypeOK
  <2>4. PhaseOf(s) = "in_progress" /\ PhaseOf(s)' = "in_progress"
    BY <1>1, <2>0, <2>1, <2>2, <2>3, PhaseSeen, PhaseSeenNext DEF Seen
  <2>5. \A u \in SessionId : u # s => PhaseOf(u)' = PhaseOf(u)
    BY <1>1, <2>0, <2>1, <2>3, PhaseSeen, PhaseSeenNext DEF Seen
  <2>6. Phases' = Phases
    BY <2>4, <2>5 DEF Phases
  <2>7. Selections' = Selections
    BY <2>2, <2>3 DEF Selections
  <2> QED
    BY <2>1, <2>6, <2>7 DEF Lifecycle!vars, Phases, Selections
<1>13. CASE CompleteSession(w)
  <2> DEFINE s == req[w].s
             r == [row[s] EXCEPT !.status = verdict[w], !.completedAt = TRUE]
  <2>1. /\ s \in SessionId /\ row[s] \in Row /\ row' = [row EXCEPT ![s] = r]
        /\ attempts' = attempts /\ pc[w] = "write" /\ pc'[w] = "answer"
        /\ row[s].status \in ActiveStatus /\ ~row[s].deleted
        /\ Unanswered(row[s].selected, attempts[s]) = {}
        /\ verdict[w] = Verdict(row[s].selected, attempts[s])
    BY <1>13 DEF CompleteSession, At, UpdateSession, Target, Known, Here,
       TypeInv, TypeOK, RequestOK
  <2>2. r.status = verdict[w] /\ ~r.deleted /\ r.selected = row[s].selected
    BY <2>1 DEF Row
  <2> HIDE DEF r, s
  <2>3. Seen(r, FALSE) = verdict[w] /\ Seen(row[s], FALSE) \in ActiveStatus
    BY <2>1, <2>2 DEF Seen
  <2>4. Lifecycle!Move(s, ActiveStatus, Seen(r, FALSE))
    BY <1>1, <1>2, <2>1, <2>2, <2>3, UpdateMapped
  <2>5. Selections[s] = row[s].selected
    BY <2>1 DEF Selections
  <2>6. Lifecycle!Complete(s)
    BY <2>1, <2>3, <2>4, <2>5, SameWords DEF Lifecycle!Complete, Selections
  <2> QED
    BY <2>1, <2>6 DEF Lifecycle!Next
<1> QED
  BY <1>4, <1>5, <1>6, <1>7, <1>8, <1>9, <1>10, <1>11, <1>12, <1>13 DEF Step


\* A process kill takes a retest that was about to put its session back to work
\* out of the picture: to the client the session is in review again.
LEMMA CrashMapped ==
    ASSUME TypeInv, AloneInv, SerialInv, KnownInv, Crash
    PROVE  Lifecycle!Next \/ UNCHANGED Lifecycle!vars
<1>1. /\ row' = row /\ attempts' = attempts
      /\ \A w \in Worker : pc'[w] = "idle"
  BY DEF Crash, Forget, db
<1>2. \A s \in SessionId : ~Resuming(s)'
  BY <1>1 DEF Resuming
<1>3. CASE \A s \in SessionId : ~Resuming(s)
  <2>1. \A s \in SessionId : Resuming(s)' = Resuming(s)
    BY <1>2, <1>3 DEF Resuming
  <2> QED
    BY <1>1, <2>1, Invisible
<1>4. CASE \E s \in SessionId : Resuming(s)
  <2>1. PICK s \in SessionId, w \in Worker : pc[w] = "resume" /\ req[w].s = s
    BY <1>4 DEF Resuming
  <2>2. /\ row[s].status = "review" /\ ~row[s].deleted
        /\ \A v \in Worker : v # w => pc[v] = "idle"
    BY <2>1 DEF SerialInv, AloneInv, KnownInv, Known, Here, Target
  <2>3. /\ Resuming(s)
        /\ \A u \in SessionId : u # s => ~Resuming(u)
    BY <2>1, <2>2 DEF Resuming
  <2>4. PhaseOf(s) = "in_progress" /\ PhaseOf(s)' = "review"
    BY <1>1, <1>2, <2>2, <2>3, PhaseSeen, PhaseSeenNext DEF Seen
  <2>5. \A u \in SessionId : u # s => PhaseOf(u)' = PhaseOf(u)
    BY <1>1, <1>2, <2>3, PhaseSeen, PhaseSeenNext DEF Seen
  <2>6. Phases' = [Phases EXCEPT ![s] = "review"] /\ Phases[s] = "in_progress"
    BY <2>4, <2>5 DEF Phases
  <2>7. Selections' = Selections
    BY <1>1 DEF Selections
  <2>8. Lifecycle!Move(s, {"in_progress"}, "review")
    BY <1>1, <2>6, <2>7 DEF Lifecycle!Move, Phases, Selections
  <2>9. Lifecycle!Review(s)
    BY <2>8 DEF Lifecycle!Review
  <2> QED
    BY <2>9 DEF Lifecycle!Next
<1> QED
  BY <1>3, <1>4

\* While requests are executed one at a time the statements of sessions.py
\* implement the session lifecycle, in which every operation is one indivisible
\* step, for any number of sessions, tests and kills between two statements.
THEOREM ImplementsLifecycleWhenSerial ==
    ASSUME InFlight = 1
    PROVE  Spec => ImplementsLifecycle
<1>1. Init => Lifecycle!Init
  <2> SUFFICES ASSUME Init PROVE Lifecycle!Init
    OBVIOUS
  <2>1. \A s \in SessionId : row[s] = NoRow /\ ~Resuming(s)
    BY DEF Init, Resuming
  <2>2. \A s \in SessionId : PhaseOf(s) = "absent" /\ row[s].selected = {}
    BY <2>1, PhaseSeen DEF Seen, NoRow
  <2> QED
    BY <2>2 DEF Init, Lifecycle!Init
<1>2. SerialStore /\ [Next]_vars => [Lifecycle!Next]_Lifecycle!vars
  <2> SUFFICES ASSUME SerialStore, [Next]_vars
               PROVE  Lifecycle!Next \/ UNCHANGED Lifecycle!vars
    OBVIOUS
  <2>1. /\ TypeInv /\ AloneInv /\ SerialInv /\ KnownInv /\ RowsInv
    BY DEF SerialStore, KnownInv
  <2>2. CASE Crash
    BY <2>1, <2>2, CrashMapped
  <2>3. ASSUME NEW w \in Worker, Begin(w)
        PROVE  Lifecycle!Next \/ UNCHANGED Lifecycle!vars
    <3>1. row' = row /\ attempts' = attempts
      BY <2>3 DEF Begin, db
    <3>2. PICK q \in Requests : pc' = [pc EXCEPT ![w] = Entry(q)]
      BY <2>3 DEF Begin
    <3>3. \A v \in Worker : pc[v] # "resume" /\ pc'[v] # "resume"
      BY <2>1, <2>3, <3>2, SerialBegin DEF Busy, Entry, TypeInv, TypeOK
    <3>4. \A s \in SessionId : Resuming(s)' = Resuming(s)
      BY <3>3 DEF Resuming
    <3> QED
      BY <3>1, <3>4, Invisible
  <2>4. ASSUME NEW w \in Worker, Step(w)
        PROVE  Lifecycle!Next \/ UNCHANGED Lifecycle!vars
    <3>1. pc[w] # "idle"
      BY <2>1, <2>4, StepFrame
    <3>2. Solo(w) /\ Known(w) /\ \A v \in Worker : v # w => pc[v] = "idle"
      BY <2>1, <3>1 DEF SerialInv, AloneInv, KnownInv
    <3> QED
      BY <2>1, <2>4, <3>2, StepMapped
  <2>5. CASE UNCHANGED vars
    <3>1. \A s \in SessionId : Resuming(s)' = Resuming(s)
      BY <2>5 DEF vars, locals, Resuming
    <3> QED
      BY <2>5, <3>1, Invisible DEF vars, db
  <2> QED
    BY <2>2, <2>3, <2>4, <2>5 DEF Next
<1>3. QED
  BY <1>1, <1>2, SerialStoreAlways, PTL DEF Spec, ImplementsLifecycle,
     Lifecycle!Spec

-----------------------------------------------------------------------------
(* Answering and completing, under every interleaving.                     *)

\* A worker executes what its kind executes, and what complete has derived
\* still is what the answers say when it is stored.
LoopInv ==
    \A w \in Worker :
        /\ pc[w] # "idle" => CanRun(w, req[w].op)
        /\ pc[w] \in {"number", "insert_attempt"} => req[w].op = "attempt"
        /\ At(w, "write", {"complete"}) =>
             /\ Unanswered(seen[w].selected, attempts[req[w].s]) = {}
             /\ verdict[w] = Verdict(seen[w].selected, attempts[req[w].s])

\* A statement leaves the locals of the other workers alone, and only one of
\* them changes answers.
LEMMA LocalsFrame ==
    ASSUME TypeInv, NEW w \in Worker, Step(w)
    PROVE  /\ \A v \in Worker : v # w => /\ seen'[v] = seen[v]
                                         /\ verdict'[v] = verdict[v]
                                         /\ req'[v] = req[v]
           /\ pc'[w] # "idle" => req'[w].op = req[w].op
           /\ InsertAttempt(w) \/ attempts' = attempts
<1> USE DEF TypeInv, TypeOK, locals, db
<1>0. CASE UpsertProject(w)
  BY <1>0 DEF UpsertProject
<1>1. CASE ReadReference(w)
  BY <1>1 DEF ReadReference
<1>2. CASE InsertSession(w)
  <2>1. req'[w].op = req[w].op
    BY <1>2 DEF InsertSession, Request
  <2> QED
    BY <1>2, <2>1 DEF InsertSession
<1>3. CASE InsertCollides(w)
  BY <1>3 DEF InsertCollides
<1>4. CASE ReadSession(w)
  BY <1>4 DEF ReadSession
<1>5. CASE QueryActive(w)
  BY <1>5 DEF QueryActive
<1>6. CASE RetireOne(w)
  BY <1>6 DEF RetireOne
<1>7. CASE RetireEvent(w)
  BY <1>7 DEF RetireEvent, RecordEvent
<1>8. CASE StartSession(w)
  BY <1>8 DEF StartSession, UpdateSession
<1>9. CASE ReopenSession(w)
  BY <1>9 DEF ReopenSession, UpdateSession
<1>10. CASE ReopenEvent(w)
  BY <1>10 DEF ReopenEvent, RecordEvent
<1>11. CASE ReviewSession(w)
  BY <1>11 DEF ReviewSession, UpdateSession
<1>12. CASE EditSession(w)
  BY <1>12 DEF EditSession, UpdateSession
<1>13. CASE DeleteSession(w)
  BY <1>13 DEF DeleteSession, UpdateSession
<1>14. CASE NumberAttempt(w)
  BY <1>14 DEF NumberAttempt
<1>15. CASE InsertAttempt(w)
  BY <1>15 DEF InsertAttempt
<1>16. CASE ResumeSession(w)
  BY <1>16 DEF ResumeSession, UpdateSession
<1>17. CASE ReadProgress(w)
  BY <1>17 DEF ReadProgress
<1>18. CASE CompleteSession(w)
  BY <1>18 DEF CompleteSession, UpdateSession
<1>19. CASE Answer(w)
  BY <1>19 DEF Answer
<1>20. CASE Reply(w)
  BY <1>20 DEF Reply, Forget
<1>21. QED
  BY <1>0, <1>1, <1>2, <1>3, <1>4, <1>5, <1>6, <1>7, <1>8, <1>9, <1>10, <1>11, <1>12, <1>13, <1>14, <1>15, <1>16, <1>17, <1>18, <1>19, <1>20 DEF Step

\* The answers a loop handler has read do not change while it runs: whoever
\* records one is on the loop as well.
LEMMA LoopStep ==
    ASSUME TypeInv, LoopInv, NEW w \in Worker, Step(w)
    PROVE  LoopInv'
<1>1. /\ pc[w] # "idle" /\ CanRun(w, req[w].op)
      /\ \A v \in Worker : v # w => pc'[v] = pc[v]
  BY StepFrame DEF LoopInv
<1>2. /\ \A v \in Worker : v # w => /\ seen'[v] = seen[v]
                                    /\ verdict'[v] = verdict[v]
                                    /\ req'[v] = req[v]
      /\ pc'[w] # "idle" => req'[w].op = req[w].op
      /\ InsertAttempt(w) \/ attempts' = attempts
  BY LocalsFrame
<1>3. ASSUME NEW v \in Worker, v # w, At(v, "write", {"complete"})'
      PROVE  /\ Unanswered(seen'[v].selected, attempts'[req'[v].s]) = {}
             /\ verdict'[v] = Verdict(seen'[v].selected, attempts'[req'[v].s])
  <2>1. At(v, "write", {"complete"}) /\ CanRun(v, req[v].op)
    BY <1>1, <1>2, <1>3 DEF At, LoopInv
  <2>2. v \in Loop
    BY <2>1 DEF At, CanRun, LoopOps, PoolOps
  <2>3. ~InsertAttempt(w)
    <3> SUFFICES ASSUME InsertAttempt(w) PROVE FALSE
      OBVIOUS
    <3>1. req[w].op = "attempt"
      BY DEF InsertAttempt, LoopInv
    <3>2. w \in Loop
      BY <1>1, <3>1 DEF CanRun, LoopOps, PoolOps
    <3> QED
      BY <1>3, <2>2, <3>2, Workers
  <2> QED
    BY <1>2, <1>3, <2>1, <2>3 DEF LoopInv
<1>4. pc'[w] \in {"number", "insert_attempt"} => req'[w].op = "attempt"
  <2>1. CASE pc[w] \in {"number", "insert_attempt"}
    BY <1>2, <2>1 DEF LoopInv
  <2>2. CASE ReadSession(w)
    BY <2>2 DEF ReadSession, Goto, AfterRead, TypeInv, TypeOK
  <2>3. CASE pc[w] \notin {"number", "insert_attempt"} /\ ~ReadSession(w)
    <3>1. pc'[w] \notin {"number", "insert_attempt"}
      BY <2>3 DEF Step, UpsertProject, ReadReference, InsertSession, InsertCollides,
         QueryActive, RetireOne, RetireEvent, StartSession, ReopenSession,
         ReopenEvent, ReviewSession, EditSession, DeleteSession, NumberAttempt,
         InsertAttempt, ResumeSession, ReadProgress, CompleteSession, Answer,
         Reply, UpdateSession, Goto, Forget, At, TypeInv, TypeOK
    <3> QED
      BY <3>1
  <2> QED
    BY <2>1, <2>2, <2>3
<1>5. ASSUME At(w, "write", {"complete"})'
      PROVE  /\ Unanswered(seen'[w].selected, attempts'[req'[w].s]) = {}
             /\ verdict'[w] = Verdict(seen'[w].selected, attempts'[req'[w].s])
  <2>1. pc'[w] = "write" /\ req'[w].op = "complete" /\ req[w].op = "complete"
    BY <1>2, <1>5 DEF At
  <2>2. ReadProgress(w)
    <3>1. ~ReadSession(w)
      BY <2>1 DEF ReadSession, Goto, AfterRead, TypeInv, TypeOK
    <3> QED
      BY <2>1, <3>1 DEF Step, UpsertProject, ReadReference, InsertSession, InsertCollides,
         QueryActive, RetireOne, RetireEvent, StartSession, ReopenSession,
         ReopenEvent, ReviewSession, EditSession, DeleteSession, NumberAttempt,
         InsertAttempt, ResumeSession, CompleteSession, Answer,
         Reply, UpdateSession, Goto, Forget, At, TypeInv, TypeOK
  <2>3. /\ verdict'[w] = Verdict(seen[w].selected, attempts[req[w].s])
        /\ seen' = seen /\ attempts' = attempts /\ req' = req
        /\ pc'[w] = IF Unanswered(seen[w].selected, attempts[req[w].s]) = {}
                    THEN "write" ELSE "refused"
    BY <2>2 DEF ReadProgress, Goto, db, TypeInv, TypeOK
  <2> QED
    BY <2>1, <2>3
<1>6. ASSUME NEW v \in Worker, pc'[v] # "idle" PROVE CanRun(v, req'[v].op)
  BY <1>1, <1>2, <1>6 DEF LoopInv
<1>7. ASSUME NEW v \in Worker, pc'[v] \in {"number", "insert_attempt"}
      PROVE  req'[v].op = "attempt"
  BY <1>1, <1>2, <1>4, <1>7 DEF LoopInv
<1>8. ASSUME NEW v \in Worker, At(v, "write", {"complete"})'
      PROVE  /\ (Unanswered(seen[v].selected, attempts[req[v].s]) = {})'
             /\ (verdict[v] = Verdict(seen[v].selected, attempts[req[v].s]))'
  <2>1. /\ Unanswered(seen'[v].selected, attempts'[req'[v].s]) = {}
        /\ verdict'[v] = Verdict(seen'[v].selected, attempts'[req'[v].s])
    BY <1>3, <1>5, <1>8
  <2> QED
    BY <2>1 DEF Unanswered, Verdict, Failed
<1> QED
  BY <1>6, <1>7, <1>8 DEF LoopInv, CanRun

\* No step takes away what the loop's completion knows.
LEMMA LoopNext == TypeInv /\ LoopInv /\ [Next]_vars => LoopInv'
<1> SUFFICES ASSUME TypeInv, LoopInv, [Next]_vars PROVE LoopInv'
  OBVIOUS
<1>1. CASE Crash
  BY <1>1 DEF Crash, Forget, LoopInv, At
<1>2. ASSUME NEW w \in Worker, Begin(w) PROVE LoopInv'
  <2>1. PICK q \in Requests : /\ q.op \in Ops /\ CanRun(w, q.op)
                              /\ pc' = [pc EXCEPT ![w] = Entry(q)]
                              /\ req' = [req EXCEPT ![w] = q]
    BY <1>2 DEF Begin
  <2>2. /\ pc'[w] \in {"read", "project"} /\ req'[w] = q
        /\ \A v \in Worker : v # w => pc'[v] = pc[v] /\ req'[v] = req[v]
        /\ seen' = seen /\ verdict' = verdict /\ attempts' = attempts
    BY <1>2, <2>1 DEF Begin, Entry, db, TypeInv, TypeOK
  <2>3. ASSUME NEW v \in Worker, At(v, "write", {"complete"})'
        PROVE  /\ v # w /\ At(v, "write", {"complete"})
               /\ Unanswered(seen[v].selected, attempts[req[v].s]) = {}
               /\ verdict[v] = Verdict(seen[v].selected, attempts[req[v].s])
    BY <2>2, <2>3 DEF LoopInv, At
  <2>4. ASSUME NEW v \in Worker, At(v, "write", {"complete"})'
        PROVE  /\ (Unanswered(seen[v].selected, attempts[req[v].s]) = {})'
               /\ (verdict[v] = Verdict(seen[v].selected, attempts[req[v].s]))'
    BY <2>2, <2>3, <2>4 DEF Unanswered, Verdict, Failed
  <2>5. ASSUME NEW v \in Worker
        PROVE  /\ pc'[v] # "idle" => CanRun(v, req'[v].op)
               /\ pc'[v] \in {"number", "insert_attempt"}
                    => req'[v].op = "attempt"
    BY <2>1, <2>2 DEF LoopInv
  <2> QED
    BY <2>4, <2>5 DEF LoopInv, CanRun
<1>3. ASSUME NEW w \in Worker, Step(w) PROVE LoopInv'
  BY <1>3, LoopStep
<1>4. CASE UNCHANGED vars
  BY <1>4 DEF vars, db, locals, LoopInv, At, CanRun, Unanswered, Verdict, Failed
<1> QED
  BY <1>1, <1>2, <1>3, <1>4 DEF Next

\* Whatever overlaps, the status that complete stores is the one the answers
\* recorded at that moment give for the tests it read: answering and completing
\* both run on the one event loop (sessions.py complete, FR-37).
THEOREM EarnedAtCompletionAlways == Spec => EarnedAtCompletion
<1>1. Init => LoopInv
  BY DEF Init, LoopInv, At
<1>2. TypeInv /\ LoopInv /\ Next =>
        \A w \in Worker : CompleteSession(w) =>
          /\ Unanswered(seen[w].selected, attempts[req[w].s]) = {}
          /\ row'[req[w].s].status =
                 Verdict(seen[w].selected, attempts[req[w].s])
  <2> SUFFICES ASSUME TypeInv, LoopInv, NEW w \in Worker, CompleteSession(w)
               PROVE  /\ Unanswered(seen[w].selected, attempts[req[w].s]) = {}
                      /\ row'[req[w].s].status =
                             Verdict(seen[w].selected, attempts[req[w].s])
    OBVIOUS
  <2>1. /\ req[w].s \in SessionId /\ Target(w) \in Row
        /\ At(w, "write", {"complete"})
    BY DEF CompleteSession, At, Target, TypeInv, TypeOK, RequestOK
  <2>2. row'[req[w].s] = [Target(w) EXCEPT !.status = verdict[w],
                                           !.completedAt = TRUE]
    BY <2>1 DEF CompleteSession, UpdateSession, WriteRow, TypeInv, TypeOK
  <2>3. row'[req[w].s].status = verdict[w]
    BY <2>1, <2>2, StatusWritten
  <2> QED
    BY <2>1, <2>3 DEF LoopInv
<1>3. QED
  BY <1>1, <1>2, LoopNext, TypeInvariant, PTL DEF Spec, EarnedAtCompletion

-----------------------------------------------------------------------------
(* Which changes of history are without their event.                       *)

\* Worker w is about to record event e of session s.
Calls(w, s, e) ==
    \/ e = "session_abandoned" /\ pc[w] = "retire_event" /\ local[w] = s
    \/ e = "session_reopened" /\ pc[w] = "reopen_event" /\ req[w].s = s
Pending(s, e) == {w \in Worker : Calls(w, s, e)}

\* What is missing covers, session by session, what is about to be recorded:
\* an event that is recorded is one that was missing.
AuditInv ==
    /\ Cardinality(Busy) <= InFlight
    /\ IsFiniteSet(Unrecorded)
    /\ HistoryAudited
    /\ \A s \in SessionId, e \in EventType : Cardinality(Pending(s, e)) <= missing[s][e]

\* A DELETE removes a draft, which has no history.
DeletesDraft(w) == At(w, "write", {"delete"}) => Target(w).status = "draft"

\* The elements of Unrecorded.
LEMMA UnrecordedElements ==
    ASSUME NEW x
    PROVE  x \in Unrecorded <=>
             \E s \in SessionId, e \in EventType :
                 \E n \in 1 .. missing[s][e] : x = <<s, e, n>>
<1> DEFINE part(s, e) == {s} \X {e} \X (1 .. missing[s][e])
<1>1. x \in Unrecorded <=> \E s \in SessionId, e \in EventType : x \in part(s, e)
  <2> DEFINE parts == {part(s, e) : s \in SessionId, e \in EventType}
  <2>1. Unrecorded = UNION parts
    BY DEF Unrecorded
  <2>2. \A p : p \in parts <=> \E s \in SessionId, e \in EventType : p = part(s, e)
    <3> HIDE DEF part
    <3> QED OBVIOUS
  <2> HIDE DEF parts, part
  <2> QED
    BY <2>1, <2>2
<1>2. ASSUME NEW s \in SessionId, NEW e \in EventType
      PROVE  x \in part(s, e) <=> \E n \in 1 .. missing[s][e] : x = <<s, e, n>>
  <2> DEFINE N == 1 .. missing[s][e]
  <2> HIDE DEF N
  <2>1. x \in {s} \X {e} \X N => \E n \in N : x = <<s, e, n>>
    OBVIOUS
  <2>2. (\E n \in N : x = <<s, e, n>>) => x \in {s} \X {e} \X N
    OBVIOUS
  <2> QED
    BY <2>1, <2>2 DEF N
<1> QED
  BY <1>1, <1>2

\* A change that calls for an event adds one element.
LEMMA ChangeCounts ==
    ASSUME TypeInv, IsFiniteSet(Unrecorded), NEW k \in SessionId, NEW e \in EventType,
           missing[k][e] >= 0, missing' = [missing EXCEPT ![k][e] = @ + 1]
    PROVE  /\ IsFiniteSet(Unrecorded')
           /\ Cardinality(Unrecorded') <= Cardinality(Unrecorded) + 1
<1> DEFINE x == <<k, e, missing[k][e] + 1>>
<1>1. missing \in [SessionId -> [EventType -> Int]]
  BY DEF TypeInv, TypeOK
<1>2. \A s \in SessionId, d \in EventType :
         missing'[s][d] = IF s = k /\ d = e THEN missing[k][e] + 1 ELSE missing[s][d]
  BY <1>1
<1>3. Unrecorded' \subseteq Unrecorded \cup {x}
  <2> SUFFICES ASSUME NEW y \in Unrecorded', y # x PROVE y \in Unrecorded
    OBVIOUS
  <2>1. PICK s \in SessionId, d \in EventType :
           \E n \in 1 .. missing'[s][d] : y = <<s, d, n>>
    BY DEF Unrecorded
  <2>2. PICK n \in 1 .. missing'[s][d] : y = <<s, d, n>>
    BY <2>1
  <2>3. missing[s][d] \in Int /\ missing[k][e] \in Int
    BY <1>1
  <2>4. n \in 1 .. missing[s][d]
    BY <1>2, <2>2, <2>3
  <2> QED
    BY <2>2, <2>4, UnrecordedElements
<1>4. /\ IsFiniteSet(Unrecorded \cup {x})
      /\ Cardinality(Unrecorded \cup {x}) =
           IF x \in Unrecorded THEN Cardinality(Unrecorded) ELSE Cardinality(Unrecorded) + 1
  BY FS_AddElement
<1>5. /\ IsFiniteSet(Unrecorded')
      /\ Cardinality(Unrecorded') <= Cardinality(Unrecorded \cup {x})
  BY <1>3, <1>4, FS_Subset
<1>6. /\ Cardinality(Unrecorded) \in Nat /\ Cardinality(Unrecorded') \in Nat
      /\ Cardinality(Unrecorded \cup {x}) \in Nat
  BY <1>4, <1>5, FS_CardinalityType
<1> QED
  BY <1>4, <1>5, <1>6

\* An event that was missing and is recorded takes one element away.
LEMMA RecordCounts ==
    ASSUME TypeInv, IsFiniteSet(Unrecorded), NEW k \in SessionId, NEW e \in EventType,
           missing[k][e] >= 1, missing' = [missing EXCEPT ![k][e] = @ - 1]
    PROVE  /\ IsFiniteSet(Unrecorded')
           /\ Cardinality(Unrecorded') <= Cardinality(Unrecorded) - 1
<1> DEFINE x == <<k, e, missing[k][e]>>
<1>1. missing \in [SessionId -> [EventType -> Int]]
  BY DEF TypeInv, TypeOK
<1>2. \A s \in SessionId, d \in EventType :
         missing'[s][d] = IF s = k /\ d = e THEN missing[k][e] - 1 ELSE missing[s][d]
  BY <1>1
<1>3. x \in Unrecorded
  <2>1. missing[k][e] \in 1 .. missing[k][e]
    BY <1>1
  <2> QED
    BY <2>1, UnrecordedElements
<1>4. Unrecorded' \subseteq Unrecorded \ {x}
  <2> SUFFICES ASSUME NEW y \in Unrecorded' PROVE y \in Unrecorded /\ y # x
    OBVIOUS
  <2>1. PICK s \in SessionId, d \in EventType :
           \E n \in 1 .. missing'[s][d] : y = <<s, d, n>>
    BY DEF Unrecorded
  <2>2. PICK n \in 1 .. missing'[s][d] : y = <<s, d, n>>
    BY <2>1
  <2>3. missing[s][d] \in Int /\ missing[k][e] \in Int
    BY <1>1
  <2>4. n \in 1 .. missing[s][d] /\ (s = k /\ d = e => n < missing[k][e])
    BY <1>2, <2>2, <2>3
  <2>5. y # x
    BY <2>2, <2>3, <2>4
  <2> QED
    BY <2>2, <2>4, <2>5, UnrecordedElements
<1>5. /\ IsFiniteSet(Unrecorded \ {x})
      /\ Cardinality(Unrecorded \ {x}) = Cardinality(Unrecorded) - 1
  BY <1>3, FS_RemoveElement
<1>6. /\ IsFiniteSet(Unrecorded')
      /\ Cardinality(Unrecorded') <= Cardinality(Unrecorded \ {x})
  BY <1>4, <1>5, FS_Subset
<1> QED
  BY <1>5, <1>6

\* A statement leaves the audit trail and what is about to be recorded alone,
\* or makes a change on the way to its event, or records that event.
LEMMA AuditStep ==
    ASSUME TypeInv, NEW w \in Worker, Step(w), DeletesDraft(w)
    PROVE  /\ \A v \in Worker : v # w =>
                 \A s \in SessionId, e \in EventType : Calls(v, s, e)' <=> Calls(v, s, e)
           /\ \/ /\ missing' = missing
                 /\ \A s \in SessionId, e \in EventType : ~Calls(w, s, e) /\ ~Calls(w, s, e)'
              \/ \E k \in SessionId, d \in EventType :
                    /\ missing' = [missing EXCEPT ![k][d] = @ + 1]
                    /\ \A s \in SessionId, e \in EventType :
                          ~Calls(w, s, e) /\ (Calls(w, s, e)' <=> s = k /\ e = d)
              \/ \E k \in SessionId, d \in EventType :
                    /\ missing' = [missing EXCEPT ![k][d] = @ - 1]
                    /\ \A s \in SessionId, e \in EventType :
                          (Calls(w, s, e) <=> s = k /\ e = d) /\ ~Calls(w, s, e)'
<1>a. \A v \in Worker : v # w => pc'[v] = pc[v] /\ req'[v] = req[v] /\ local'[v] = local[v]
  <2>1. \A v \in Worker : v # w => local'[v] = local[v]
    BY DEF Step, UpsertProject, ReadReference, InsertSession, InsertCollides,
       ReadSession, QueryActive, RetireOne, RetireEvent, StartSession,
       ReopenSession, ReopenEvent, ReviewSession, EditSession, DeleteSession,
       NumberAttempt, InsertAttempt, ResumeSession, ReadProgress,
       CompleteSession, Answer, Reply, UpdateSession, RecordEvent, Forget,
       locals, TypeInv, TypeOK
  <2> QED
    BY <2>1, StepFrame, LocalsFrame
<1>b. \A v \in Worker : v # w =>
         \A s \in SessionId, e \in EventType : Calls(v, s, e)' <=> Calls(v, s, e)
  BY <1>a DEF Calls
<1>c. /\ pc \in [Worker -> Statement] /\ local \in [Worker -> Nat]
      /\ victims \in [Worker -> SUBSET SessionId]
  BY DEF TypeInv, TypeOK
<1>1. CASE RetireOne(w)
  <2>1. PICK k \in victims[w] :
           /\ missing' = [missing EXCEPT ![k]["session_abandoned"] = @ + 1]
           /\ local' = [local EXCEPT ![w] = k]
           /\ pc[w] = "retire" /\ pc' = [pc EXCEPT ![w] = "retire_event"]
    BY <1>1 DEF RetireOne, WriteRow, Goto
  <2>2. k \in SessionId /\ "session_abandoned" \in EventType
    BY <1>c, <2>1 DEF EventType
  <2>3. \A s \in SessionId, e \in EventType :
           ~Calls(w, s, e) /\ (Calls(w, s, e)' <=> s = k /\ e = "session_abandoned")
    BY <1>c, <2>1 DEF Calls
  <2> QED
    BY <1>b, <2>1, <2>2, <2>3
<1>2. CASE ReopenSession(w)
  <2> DEFINE k == req[w].s
  <2>1. /\ missing' = [missing EXCEPT ![k]["session_reopened"] = @ + 1]
        /\ req'[w] = req[w] /\ k \in SessionId
        /\ pc[w] = "retire" /\ pc' = [pc EXCEPT ![w] = "reopen_event"]
    BY <1>2 DEF ReopenSession, UpdateSession, WriteRow, Goto, At, TypeInv, RequestOK
  <2>2. "session_reopened" \in EventType
    BY DEF EventType
  <2>3. \A s \in SessionId, e \in EventType :
           ~Calls(w, s, e) /\ (Calls(w, s, e)' <=> s = k /\ e = "session_reopened")
    BY <1>c, <2>1 DEF Calls
  <2> HIDE DEF k
  <2> QED
    BY <1>b, <2>1, <2>2, <2>3
<1>3. CASE RetireEvent(w)
  <2> DEFINE k == local[w]
  <2>1. /\ missing' = [missing EXCEPT ![k]["session_abandoned"] = @ - 1]
        /\ k \in SessionId
        /\ pc[w] = "retire_event" /\ pc' = [pc EXCEPT ![w] = "retire"]
    BY <1>3 DEF RetireEvent, RecordEvent, Goto, TypeInv, RequestOK
  <2>2. "session_abandoned" \in EventType
    BY DEF EventType
  <2>3. \A s \in SessionId, e \in EventType :
           (Calls(w, s, e) <=> s = k /\ e = "session_abandoned") /\ ~Calls(w, s, e)'
    BY <1>c, <2>1 DEF Calls
  <2> HIDE DEF k
  <2>4. /\ k \in SessionId
        /\ missing' = [missing EXCEPT ![k]["session_abandoned"] = @ - 1]
    BY <2>1
  <2>5. \E j \in SessionId, d \in EventType :
           /\ missing' = [missing EXCEPT ![j][d] = @ - 1]
           /\ \A s \in SessionId, e \in EventType :
                 (Calls(w, s, e) <=> s = j /\ e = d) /\ ~Calls(w, s, e)'
    BY <2>2, <2>3, <2>4
  <2> QED
    BY <1>b, <2>5
<1>4. CASE ReopenEvent(w)
  <2> DEFINE k == req[w].s
  <2>1. /\ missing' = [missing EXCEPT ![k]["session_reopened"] = @ - 1]
        /\ k \in SessionId
        /\ pc[w] = "reopen_event" /\ pc' = [pc EXCEPT ![w] = "answer"]
    BY <1>4 DEF ReopenEvent, RecordEvent, Goto, TypeInv, RequestOK
  <2>2. "session_reopened" \in EventType
    BY DEF EventType
  <2>3. \A s \in SessionId, e \in EventType :
           (Calls(w, s, e) <=> s = k /\ e = "session_reopened") /\ ~Calls(w, s, e)'
    BY <1>c, <2>1 DEF Calls
  <2> HIDE DEF k
  <2>4. /\ k \in SessionId
        /\ missing' = [missing EXCEPT ![k]["session_reopened"] = @ - 1]
    BY <2>1
  <2>5. \E j \in SessionId, d \in EventType :
           /\ missing' = [missing EXCEPT ![j][d] = @ - 1]
           /\ \A s \in SessionId, e \in EventType :
                 (Calls(w, s, e) <=> s = j /\ e = d) /\ ~Calls(w, s, e)'
    BY <2>2, <2>3, <2>4
  <2> QED
    BY <1>b, <2>5
<1>5. CASE ~RetireOne(w) /\ ~ReopenSession(w) /\ ~RetireEvent(w) /\ ~ReopenEvent(w)
  <2>1. missing' = missing
    BY <1>5 DEF Step, UpsertProject, ReadReference, InsertSession, InsertCollides,
       ReadSession, QueryActive, StartSession, ReviewSession, EditSession,
       DeleteSession, DeletesDraft, NumberAttempt, InsertAttempt, ResumeSession,
       ReadProgress, CompleteSession, Answer, Reply, UpdateSession, WriteRow,
       Forget, db
  <2>2. /\ pc[w] \notin {"retire_event", "reopen_event"}
        /\ pc'[w] \notin {"retire_event", "reopen_event"}
    BY <1>5, <1>c DEF Step, UpsertProject, ReadReference, InsertSession,
       InsertCollides, ReadSession, AfterRead, QueryActive, StartSession,
       ReviewSession, EditSession, DeleteSession, NumberAttempt, InsertAttempt,
       ResumeSession, ReadProgress, CompleteSession, Answer, Reply,
       UpdateSession, Forget, Goto, At
  <2> QED
    BY <1>b, <2>1, <2>2 DEF Calls
<1> QED
  BY <1>1, <1>2, <1>3, <1>4, <1>5

\* The workers about to record are those about to record some event.
LEMMA RecordingCalls ==
    ASSUME TypeInv, NEW w \in Worker
    PROVE  w \in Recording <=> \E s \in SessionId, e \in EventType : Calls(w, s, e)
BY DEF Recording, Calls, EventType, TypeInv, RequestOK

\* Every kill takes one event at most from each request it cuts short.
LEMMA CrashAudited ==
    ASSUME TypeInv, Crash, AuditInv
    PROVE  AuditInv'
<1>1. /\ missing' = missing /\ crashes' = crashes + 1
      /\ \A w \in Worker : pc'[w] = "idle"
  BY DEF Crash, Forget, db
<1>2. Busy' = {} /\ Recording' = {} /\ \A s \in SessionId, e \in EventType : Pending(s, e)' = {}
  BY <1>1 DEF Busy, Recording, Pending, Calls
<1>3. Unrecorded' = Unrecorded
  BY <1>1 DEF Unrecorded
<1>4. IsFiniteSet(Busy) /\ IsFiniteSet(Recording) /\ Cardinality(Recording) <= Cardinality(Busy)
  <2>1. IsFiniteSet(Busy)
    BY Workers, FS_Subset DEF Busy
  <2>2. Recording \subseteq Busy
    BY DEF Recording, Busy
  <2> QED
    BY <2>1, <2>2, FS_Subset
<1>5. /\ Cardinality(Recording) \in Nat /\ Cardinality(Busy) \in Nat
      /\ Cardinality(Unrecorded) \in Nat
      /\ InFlight \in Nat /\ crashes \in Nat /\ crashes * InFlight \in Nat
  BY <1>4, Bounds, FS_CardinalityType DEF AuditInv, TypeInv, TypeOK
<1>6. Cardinality(Unrecorded) <= crashes * InFlight + InFlight
  BY <1>4, <1>5 DEF AuditInv, HistoryAudited
<1>7. crashes * InFlight + InFlight = (crashes + 1) * InFlight
  BY <1>5
<1>8. Cardinality({}) = 0
  BY FS_EmptySet
<1>9. HistoryAudited'
  BY <1>1, <1>2, <1>3, <1>5, <1>6, <1>7, <1>8 DEF HistoryAudited
<1>10. \A s \in SessionId, e \in EventType : Cardinality(Pending(s, e)') <= missing'[s][e]
  <2> SUFFICES ASSUME NEW s \in SessionId, NEW e \in EventType PROVE 0 <= missing[s][e]
    BY <1>1, <1>2, <1>8
  <2>1. Cardinality(Pending(s, e)) \in Nat
    BY Workers, FS_Subset, FS_CardinalityType DEF Pending
  <2>2. missing[s][e] \in Int
    BY DEF TypeInv, TypeOK
  <2> QED
    BY <2>1, <2>2 DEF AuditInv
<1> QED
  BY <1>2, <1>3, <1>5, <1>8, <1>9, <1>10 DEF AuditInv

Leaves(w) == /\ missing' = missing
             /\ \A s \in SessionId, e \in EventType : ~Calls(w, s, e) /\ ~Calls(w, s, e)'
Misses(w, k, d) == /\ missing' = [missing EXCEPT ![k][d] = @ + 1]
                   /\ \A s \in SessionId, e \in EventType :
                         ~Calls(w, s, e) /\ (Calls(w, s, e)' <=> s = k /\ e = d)
Records(w, k, d) == /\ missing' = [missing EXCEPT ![k][d] = @ - 1]
                    /\ \A s \in SessionId, e \in EventType :
                          (Calls(w, s, e) <=> s = k /\ e = d) /\ ~Calls(w, s, e)'

\* The three kinds of statement, by name.
LEMMA AuditKinds ==
    ASSUME TypeInv, NEW w \in Worker, Step(w), DeletesDraft(w)
    PROVE  \/ Leaves(w)
           \/ \E k \in SessionId, d \in EventType : Misses(w, k, d)
           \/ \E k \in SessionId, d \in EventType : Records(w, k, d)
BY AuditStep, Zenon DEF Leaves, Misses, Records

\* A statement keeps the audit.
LEMMA StepAudited ==
    ASSUME TypeInv, AuditInv, NEW w \in Worker, Step(w), DeletesDraft(w)
    PROVE  AuditInv'
<1>a. /\ IsFiniteSet(Worker) /\ IsFiniteSet(Recording)
      /\ \A s \in SessionId, e \in EventType : IsFiniteSet(Pending(s, e))
      /\ \A s \in SessionId, e \in EventType : Cardinality(Pending(s, e)) \in Nat
  BY Workers, FS_Subset, FS_CardinalityType DEF Recording, Pending
<1>b. /\ Cardinality(Recording) \in Nat /\ Cardinality(Unrecorded) \in Nat
      /\ crashes * InFlight \in Nat
      /\ \A s \in SessionId, e \in EventType : missing[s][e] \in Int
  BY <1>a, Bounds, FS_CardinalityType DEF AuditInv, TypeInv, TypeOK
<1>c. crashes' = crashes
  BY DEF Step, UpsertProject, ReadReference, InsertSession, InsertCollides,
     ReadSession, QueryActive, RetireOne, RetireEvent, StartSession,
     ReopenSession, ReopenEvent, ReviewSession, EditSession, DeleteSession,
     NumberAttempt, InsertAttempt, ResumeSession, ReadProgress,
     CompleteSession, Answer, Reply, UpdateSession, RecordEvent
<1>d. Cardinality(Busy') <= InFlight
  <2>1. IsFiniteSet(Busy) /\ Busy' \subseteq Busy
    BY <1>a, StepFrame, FS_Subset DEF Busy
  <2>2. Cardinality(Busy') \in Nat /\ Cardinality(Busy') <= Cardinality(Busy)
    BY <2>1, FS_Subset, FS_CardinalityType
  <2>3. Cardinality(Busy) \in Nat /\ InFlight \in Nat
    BY <2>1, Bounds, FS_CardinalityType
  <2> QED
    BY <2>2, <2>3 DEF AuditInv
<1>e. \A v \in Worker : v # w =>
         \A s \in SessionId, e \in EventType : Calls(v, s, e)' <=> Calls(v, s, e)
  BY AuditStep
<1>f. TypeInv'
  BY StepTyped
<1>g. \A v \in Worker : v # w => (v \in Recording' <=> v \in Recording)
  BY StepFrame DEF Recording
<1>h. \A v \in Worker :
         v \in Recording' <=> \E s \in SessionId, e \in EventType : Calls(v, s, e)'
  BY <1>f DEF Recording, Calls, EventType, TypeInv, RequestOK
<1>1. ASSUME Leaves(w) PROVE AuditInv'
  <2> USE <1>1 DEF Leaves
  <2>1. Unrecorded' = Unrecorded
    BY <1>1 DEF Unrecorded
  <2>2. \A s \in SessionId, e \in EventType : Pending(s, e)' = Pending(s, e)
    BY <1>1, <1>e DEF Pending
  <2>3. Recording' = Recording
    <3>1. w \notin Recording /\ w \notin Recording'
      BY <1>1, <1>h, RecordingCalls
    <3> QED
      BY <1>g, <3>1 DEF Recording
  <2> QED
    BY <1>1, <1>c, <1>d, <2>1, <2>2, <2>3 DEF AuditInv, HistoryAudited
<1>2. ASSUME NEW k \in SessionId, NEW d \in EventType, Misses(w, k, d)
      PROVE  AuditInv'
  <2> USE <1>2 DEF Misses
  <2>1. missing[k][d] >= 0
    BY <1>a, <1>b DEF AuditInv
  <2>2. /\ IsFiniteSet(Unrecorded')
        /\ Cardinality(Unrecorded') <= Cardinality(Unrecorded) + 1
    BY <1>2, <2>1, ChangeCounts DEF AuditInv
  <2>3. w \notin Recording /\ Recording' = Recording \cup {w}
    <3>1. w \notin Recording /\ w \in Recording'
      BY <1>2, <1>h, RecordingCalls
    <3> QED
      BY <1>g, <3>1 DEF Recording
  <2>4. Cardinality(Recording') = Cardinality(Recording) + 1
    BY <1>a, <2>3, FS_AddElement
  <2>5. Cardinality(Unrecorded') \in Nat
    BY <2>2, FS_CardinalityType
  <2>6. HistoryAudited'
    BY <1>b, <1>c, <2>2, <2>4, <2>5 DEF AuditInv, HistoryAudited
  <2>7. ASSUME NEW s \in SessionId, NEW e \in EventType
        PROVE  Cardinality(Pending(s, e)') <= missing'[s][e]
    <3>1. missing'[s][e] = IF s = k /\ e = d THEN missing[s][e] + 1 ELSE missing[s][e]
      BY <1>2 DEF TypeInv, TypeOK
    <3>2. CASE s = k /\ e = d
      <4>1. Pending(s, e)' = Pending(s, e) \cup {w} /\ w \notin Pending(s, e)
        BY <1>2, <1>e, <3>2 DEF Pending
      <4>2. Cardinality(Pending(s, e)') = Cardinality(Pending(s, e)) + 1
        BY <1>a, <4>1, FS_AddElement
      <4> QED
        BY <1>a, <1>b, <3>1, <3>2, <4>2 DEF AuditInv
    <3>3. CASE ~(s = k /\ e = d)
      <4>1. Pending(s, e)' = Pending(s, e)
        BY <1>2, <1>e, <3>3 DEF Pending
      <4> QED
        BY <3>1, <3>3, <4>1 DEF AuditInv
    <3> QED
      BY <3>2, <3>3
  <2> QED
    BY <1>d, <2>2, <2>6, <2>7 DEF AuditInv
<1>3. ASSUME NEW k \in SessionId, NEW d \in EventType, Records(w, k, d)
      PROVE  AuditInv'
  <2> USE <1>3 DEF Records
  <2>1. w \in Pending(k, d)
    BY <1>3 DEF Pending
  <2>2. \A s \in SessionId, e \in EventType :
           Pending(s, e)' = IF s = k /\ e = d THEN Pending(s, e) \ {w} ELSE Pending(s, e)
    BY <1>3, <1>e DEF Pending
  <2>3. Cardinality(Pending(k, d)') = Cardinality(Pending(k, d)) - 1
    BY <1>a, <2>1, <2>2, FS_RemoveElement
  <2>4. missing[k][d] >= 1
    <3>1. Cardinality(Pending(k, d)') \in Nat
      BY <1>a, <2>2, FS_RemoveElement, FS_CardinalityType
    <3> QED
      BY <1>a, <1>b, <2>3, <3>1 DEF AuditInv
  <2>5. /\ IsFiniteSet(Unrecorded')
        /\ Cardinality(Unrecorded') <= Cardinality(Unrecorded) - 1
    BY <1>3, <2>4, RecordCounts DEF AuditInv
  <2>6. w \in Recording /\ Recording' = Recording \ {w}
    <3>1. w \in Recording /\ w \notin Recording'
      BY <1>3, <1>h, RecordingCalls
    <3> QED
      BY <1>g, <3>1 DEF Recording
  <2>7. Cardinality(Recording') = Cardinality(Recording) - 1
    BY <1>a, <2>6, FS_RemoveElement
  <2>8. Cardinality(Unrecorded') \in Nat
    BY <2>5, FS_CardinalityType
  <2>9. HistoryAudited'
    BY <1>b, <1>c, <2>5, <2>7, <2>8 DEF AuditInv, HistoryAudited
  <2>10. ASSUME NEW s \in SessionId, NEW e \in EventType
         PROVE  Cardinality(Pending(s, e)') <= missing'[s][e]
    <3>1. missing'[s][e] = IF s = k /\ e = d THEN missing[s][e] - 1 ELSE missing[s][e]
      BY <1>3 DEF TypeInv, TypeOK
    <3>2. CASE s = k /\ e = d
      BY <1>a, <1>b, <2>3, <3>1, <3>2 DEF AuditInv
    <3>3. CASE ~(s = k /\ e = d)
      <4>1. Pending(s, e)' = Pending(s, e)
        BY <2>2, <3>3
      <4> QED
        BY <3>1, <3>3, <4>1 DEF AuditInv
    <3> QED
      BY <3>2, <3>3
  <2> QED
    BY <1>d, <2>5, <2>9, <2>10 DEF AuditInv
<1> QED
  BY <1>1, <1>2, <1>3, AuditKinds, Zenon

\* No step but a kill leaves an event missing that no worker will record.
LEMMA AuditNext ==
    ASSUME TypeInv, AuditInv, [Next]_vars,
           \A w \in Worker : pc[w] # "idle" => DeletesDraft(w)
    PROVE  AuditInv'
<1>1. CASE Crash
  BY <1>1, CrashAudited
<1>2. ASSUME NEW w \in Worker, Begin(w) PROVE AuditInv'
  <2>1. PICK q \in Requests : pc' = [pc EXCEPT ![w] = Entry(q)]
    BY <1>2 DEF Begin
  <2>2. /\ pc[w] = "idle" /\ Cardinality(Busy) < InFlight
        /\ \A v \in Worker : v # w => pc'[v] = pc[v] /\ req'[v] = req[v]
        /\ missing' = missing /\ local' = local /\ crashes' = crashes
    BY <1>2 DEF Begin, db, TypeInv, TypeOK
  <2>3. pc'[w] \in {"read", "project"}
    BY <2>1 DEF Entry, TypeInv, TypeOK
  <2>4. /\ Recording' = Recording /\ Unrecorded' = Unrecorded
        /\ \A s \in SessionId, e \in EventType : Pending(s, e)' = Pending(s, e)
    BY <2>2, <2>3 DEF Recording, Unrecorded, Pending, Calls
  <2>5. Busy' \subseteq Busy \cup {w}
    BY <2>2 DEF Busy
  <2>6. IsFiniteSet(Busy)
    BY Workers, FS_Subset DEF Busy
  <2>7. /\ IsFiniteSet(Busy \cup {w})
        /\ Cardinality(Busy \cup {w}) =
             IF w \in Busy THEN Cardinality(Busy) ELSE Cardinality(Busy) + 1
    BY <2>6, FS_AddElement
  <2>8. /\ Cardinality(Busy') <= Cardinality(Busy \cup {w})
        /\ Cardinality(Busy') \in Nat /\ Cardinality(Busy \cup {w}) \in Nat
        /\ Cardinality(Busy) \in Nat /\ InFlight \in Nat
    BY <2>5, <2>6, <2>7, Bounds, FS_Subset, FS_CardinalityType
  <2>9. Cardinality(Busy') <= InFlight
    BY <2>2, <2>7, <2>8
  <2> QED
    BY <2>2, <2>4, <2>9 DEF AuditInv, HistoryAudited
<1>3. ASSUME NEW w \in Worker, Step(w) PROVE AuditInv'
  BY <1>3, StepFrame, StepAudited
<1>4. CASE UNCHANGED vars
  BY <1>4 DEF vars, db, locals, AuditInv, HistoryAudited, Recording, Unrecorded,
              Pending, Calls, Busy
<1> QED
  BY <1>1, <1>2, <1>3, <1>4 DEF Next

\* At the start nothing is missing.
LEMMA AuditInit == Init => AuditInv
<1> SUFFICES ASSUME Init PROVE AuditInv
  OBVIOUS
<1>1. /\ Busy = {} /\ Recording = {}
      /\ \A s \in SessionId, e \in EventType : Pending(s, e) = {}
  BY DEF Init, Busy, Recording, Pending, Calls
<1>2. \A s \in SessionId, e \in EventType : missing[s][e] = 0
  BY DEF Init
<1>3. Unrecorded = {}
  <2> SUFFICES ASSUME NEW x \in Unrecorded PROVE FALSE
    OBVIOUS
  <2>1. PICK s \in SessionId, e \in EventType : \E n \in 1 .. missing[s][e] : x = <<s, e, n>>
    BY UnrecordedElements
  <2> QED
    BY <1>2, <2>1
<1>4. crashes * InFlight = 0 /\ InFlight \in Nat
  BY Bounds DEF Init
<1>5. IsFiniteSet({}) /\ Cardinality({}) = 0
  BY FS_EmptySet
<1>6. HistoryAudited
  BY <1>1, <1>3, <1>4, <1>5 DEF HistoryAudited
<1>7. \A s \in SessionId, e \in EventType : Cardinality(Pending(s, e)) <= missing[s][e]
  BY <1>1, <1>2, <1>5
<1> QED
  BY <1>1, <1>3, <1>4, <1>5, <1>6, <1>7 DEF AuditInv

\* Requests that do not delete remain so, whatever overlaps.
NoDelete == \A w \in Worker : pc[w] # "idle" => req[w].op # "delete"

LEMMA NoDeleteNext ==
    ASSUME "delete" \notin Ops, TypeInv, NoDelete, [Next]_vars
    PROVE  NoDelete'
<1>1. CASE Crash
  BY <1>1 DEF Crash, Forget, NoDelete
<1>2. ASSUME NEW w \in Worker, Begin(w) PROVE NoDelete'
  <2>1. PICK q \in Requests : q.op \in Ops /\ req' = [req EXCEPT ![w] = q]
    BY <1>2 DEF Begin
  <2>2. /\ \A v \in Worker : v # w => pc'[v] = pc[v] /\ req'[v] = req[v]
        /\ req'[w].op # "delete"
    BY <1>2, <2>1 DEF Begin, TypeInv, TypeOK
  <2> QED
    BY <2>2 DEF NoDelete
<1>3. ASSUME NEW w \in Worker, Step(w) PROVE NoDelete'
  <2>1. /\ pc[w] # "idle"
        /\ \A v \in Worker : v # w => pc'[v] = pc[v]
    BY <1>3, StepFrame
  <2>2. /\ \A v \in Worker : v # w => req'[v] = req[v]
        /\ pc'[w] # "idle" => req'[w].op = req[w].op
    BY <1>3, LocalsFrame
  <2> QED
    BY <2>1, <2>2 DEF NoDelete
<1>4. CASE UNCHANGED vars
  BY <1>4 DEF vars, locals, NoDelete
<1> QED
  BY <1>1, <1>2, <1>3, <1>4 DEF Next

\* Every retirement and every reopening is audited through any number of kills,
\* each of which takes one event at most from every request in flight: if no
\* client deletes drafts, whatever overlaps; with deletions, if requests come
\* one at a time (sessions.py:202 deletes a row that was started since it was
\* read, and records nothing).
THEOREM HistoryAuditedAlways ==
    ASSUME "delete" \notin Ops \/ InFlight = 1
    PROVE  Spec => []HistoryAudited
<1>1. AuditInv => HistoryAudited
  BY DEF AuditInv
<1>2. CASE "delete" \notin Ops
  <2>1. Init => AuditInv /\ NoDelete
    BY AuditInit DEF Init, NoDelete
  <2>2. NoDelete => \A w \in Worker : pc[w] # "idle" => DeletesDraft(w)
    BY DEF NoDelete, DeletesDraft, At
  <2>3. TypeInv /\ (AuditInv /\ NoDelete) /\ [Next]_vars => (AuditInv /\ NoDelete)'
    BY <1>2, <2>2, AuditNext, NoDeleteNext
  <2> QED
    BY <1>1, <2>1, <2>3, TypeInvariant, PTL DEF Spec
<1>3. CASE InFlight = 1
  <2>1. Spec => []SerialStore
    BY <1>3, SerialStoreAlways
  <2>2. SerialStore => \A w \in Worker : pc[w] # "idle" => DeletesDraft(w)
    BY DEF SerialStore, KnownInv, Known, Here, DeletesDraft, At
  <2>3. SerialStore /\ AuditInv /\ [Next]_vars => AuditInv'
    BY <2>2, AuditNext DEF SerialStore
  <2> QED
    BY <1>1, <2>1, <2>3, AuditInit, PTL DEF Spec
<1> QED
  BY <1>2, <1>3

-----------------------------------------------------------------------------
(* What a refused request has written, under every interleaving.           *)

Allowed(w) == IF req[w].op \in {"create", "autostart"} THEN {"project"} ELSE {}

\* Another request took the session of w over.
Taken(w) ==
    /\ req[w].s \in SessionId /\ Exists(req[w].s)
    /\ \/ Target(w).deleted /\ req[w].op # "delete"
       \/ Target(w).status # "draft" /\ req[w].op = "autostart"

\* Statements after which a request may still be refused for what it asks.
Refusable(w) ==
    \/ pc[w] \in {"project", "reference", "insert", "progress", "failed"}
    \/ pc[w] = "read" /\ req[w].op # "autostart"

Clean(w) ==
    /\ pc[w] = "idle" => wrote[w] = {}
    /\ Refusable(w) => wrote[w] \subseteq Allowed(w)
    /\ pc[w] = "refused" => wrote[w] \subseteq Allowed(w) \/ Taken(w)
    /\ pc[w] \notin {"idle", "project", "reference", "insert", "failed", "refused"}
         => Exists(req[w].s)
    /\ pc[w] \in {"answer", "reopen_event"} => req[w].op # "delete"

CleanInv == \A w \in Worker : Clean(w)

\* A session that was deleted stays so, and one that left the draft status does
\* not return to it.
LEMMA RowsOnward ==
    ASSUME TypeInv, NEW w \in Worker, Step(w), Clean(w), NEW s \in SessionId, Exists(s)
    PROVE  /\ row'[s].status # "absent"
           /\ row[s].deleted => row'[s].deleted
           /\ row[s].status # "draft" => row'[s].status # "draft"
<1>a. /\ row \in [SessionId -> Row] /\ victims \in [Worker -> SUBSET SessionId]
  BY DEF TypeInv, TypeOK
<1>b. row[s] \in Row /\ row[s].status # "absent"
  BY <1>a DEF Exists
<1>1. CASE InsertSession(w)
  <2>1. row'[s] = row[s]
    BY <1>1, <1>a DEF InsertSession, WriteRow, Exists
  <2> QED
    BY <1>b, <2>1
<1>2. CASE RetireOne(w)
  <2>1. PICK k \in victims[w] : row' = [row EXCEPT ![k] = [row[k] EXCEPT !.deleted = TRUE]]
    BY <1>2 DEF RetireOne, WriteRow
  <2>2. row'[s] = row[s] \/ row'[s] = [row[s] EXCEPT !.deleted = TRUE]
    BY <1>a, <2>1
  <2> QED
    BY <1>b, <2>2 DEF Row
<1>3. CASE EditSession(w)
  <2>1. PICK T : row' = [row EXCEPT ![req[w].s] = [Target(w) EXCEPT !.selected = T]]
    BY <1>3 DEF EditSession, UpdateSession, WriteRow
  <2>2. row'[s] = row[s] \/ row'[s] = [row[s] EXCEPT !.selected = T]
    BY <1>a, <2>1 DEF Target
  <2> QED
    BY <1>b, <2>2 DEF Row
<1>4. CASE DeleteSession(w)
  <2>1. row' = [row EXCEPT ![req[w].s] = [Target(w) EXCEPT !.deleted = TRUE]]
    BY <1>4 DEF DeleteSession, UpdateSession, WriteRow
  <2>2. row'[s] = row[s] \/ row'[s] = [row[s] EXCEPT !.deleted = TRUE]
    BY <1>a, <2>1 DEF Target
  <2> QED
    BY <1>b, <2>2 DEF Row
<1>5. CASE StartSession(w) \/ ResumeSession(w)
  <2>1. row' = [row EXCEPT ![req[w].s] = [Target(w) EXCEPT !.status = "in_progress"]]
    BY <1>5 DEF StartSession, ResumeSession, UpdateSession, WriteRow
  <2>2. row'[s] = row[s] \/ row'[s] = [row[s] EXCEPT !.status = "in_progress"]
    BY <1>a, <2>1 DEF Target
  <2> QED
    BY <1>b, <2>2 DEF Row
<1>6. CASE ReviewSession(w)
  <2>1. row' = [row EXCEPT ![req[w].s] = [Target(w) EXCEPT !.status = "review"]]
    BY <1>6 DEF ReviewSession, UpdateSession, WriteRow
  <2>2. row'[s] = row[s] \/ row'[s] = [row[s] EXCEPT !.status = "review"]
    BY <1>a, <2>1 DEF Target
  <2> QED
    BY <1>b, <2>2 DEF Row
<1>7. CASE ReopenSession(w)
  <2>1. row' = [row EXCEPT ![req[w].s] =
                   [Target(w) EXCEPT !.status = "in_progress", !.completedAt = FALSE]]
    BY <1>7 DEF ReopenSession, UpdateSession, WriteRow
  <2>2. \/ row'[s] = row[s]
        \/ row'[s] = [row[s] EXCEPT !.status = "in_progress", !.completedAt = FALSE]
    BY <1>a, <2>1 DEF Target
  <2> QED
    BY <1>b, <2>2 DEF Row
<1>8. CASE CompleteSession(w)
  <2>1. /\ row' = [row EXCEPT ![req[w].s] =
                      [Target(w) EXCEPT !.status = verdict[w], !.completedAt = TRUE]]
        /\ verdict[w] \in CompletedStatus
    BY <1>8 DEF CompleteSession, UpdateSession, WriteRow, At, TypeInv, RequestOK
  <2>2. \/ row'[s] = row[s]
        \/ row'[s] = [row[s] EXCEPT !.status = verdict[w], !.completedAt = TRUE]
    BY <1>a, <2>1 DEF Target
  <2>3. \/ row'[s] = row[s]
        \/ row'[s].status = verdict[w] /\ row'[s].deleted = row[s].deleted
    BY <1>b, <2>2 DEF Row
  <2>4. verdict[w] \notin {"absent", "draft"}
    BY <2>1 DEF CompletedStatus
  <2> QED
    BY <1>b, <2>3, <2>4
<1>9. CASE row' = row
  BY <1>9, <1>b
<1> QED
  BY <1>1, <1>2, <1>3, <1>4, <1>5, <1>6, <1>7, <1>8, <1>9 DEF Step, UpsertProject,
     ReadReference, InsertCollides, ReadSession, QueryActive, RetireEvent,
     ReopenEvent, RecordEvent, NumberAttempt, InsertAttempt, ReadProgress,
     Answer, Reply, Forget, db

\* A statement leaves what the others know of their own writes alone.
LEMMA OthersClean ==
    ASSUME TypeInv, CleanInv, NEW w \in Worker, Step(w), NEW v \in Worker, v # w
    PROVE  Clean(v)'
<1>1. pc'[v] = pc[v] /\ req'[v] = req[v] /\ Clean(v)
  BY StepFrame, LocalsFrame DEF CleanInv
<1>2. wrote'[v] = wrote[v]
  BY DEF Step, UpsertProject, ReadReference, InsertSession, InsertCollides,
     ReadSession, QueryActive, RetireOne, RetireEvent, StartSession,
     ReopenSession, ReopenEvent, ReviewSession, EditSession, DeleteSession,
     NumberAttempt, InsertAttempt, ResumeSession, ReadProgress, CompleteSession,
     Answer, Reply, UpdateSession, RecordEvent, WriteRow, Wrote, Forget, locals,
     TypeInv, TypeOK
<1>3. Allowed(v)' = Allowed(v) /\ (Refusable(v)' <=> Refusable(v))
  BY <1>1 DEF Allowed, Refusable
<1>4. Taken(v) => Taken(v)'
  BY <1>1, RowsOnward DEF CleanInv, Taken, Target, Exists
<1>5. pc[v] \notin {"idle", "project", "reference", "insert", "failed", "refused"}
         => Exists(req[v].s)'
  BY <1>1, RowsOnward DEF CleanInv, Clean, Exists, TypeInv, RequestOK
<1> QED
  BY <1>1, <1>2, <1>3, <1>4, <1>5 DEF Clean

\* A worker's own statement keeps what it knows of its writes: whoever may still
\* be refused for what he asks has written nothing yet but his project.
LEMMA OwnClean ==
    ASSUME TypeInv, NEW w \in Worker, Clean(w), Step(w)
    PROVE  Clean(w)'
<1> USE DEF Goto, db, locals
<1>a. /\ row \in [SessionId -> Row] /\ pc \in [Worker -> Statement]
      /\ req \in [Worker -> Request] /\ wrote \in [Worker -> SUBSET Table]
      /\ local \in [Worker -> Nat] /\ RequestOK
  BY DEF TypeInv, TypeOK
<1>1. CASE UpsertProject(w)
  <2>1. /\ pc[w] = "project" /\ pc'[w] \in {"refused", "reference"}
        /\ req' = req /\ wrote'[w] = wrote[w] \cup {"project"}
    BY <1>1, <1>a DEF UpsertProject, Wrote
  <2>2. Allowed(w) = {"project"} /\ wrote[w] \subseteq Allowed(w)
    BY <1>a, <2>1 DEF Allowed, RequestOK, Clean, Refusable
  <2>3. Allowed(w)' = Allowed(w) /\ wrote'[w] \subseteq Allowed(w)'
    BY <2>1, <2>2 DEF Allowed
  <2> QED
    BY <2>1, <2>3 DEF Clean, Refusable
<1>2. CASE ReadReference(w) \/ InsertCollides(w)
  <2>1. /\ pc[w] \in {"reference", "insert"} /\ pc'[w] \in {"insert", "failed"}
        /\ req' = req /\ wrote' = wrote
    BY <1>2, <1>a DEF ReadReference, InsertCollides
  <2>2. Allowed(w)' = Allowed(w) /\ wrote[w] \subseteq Allowed(w)
    BY <2>1 DEF Allowed, Clean, Refusable
  <2> QED
    BY <2>1, <2>2 DEF Clean, Refusable
<1>3. CASE InsertSession(w)
  <2>1. /\ local[w] \in SessionId /\ req[w].op \in {"create", "autostart"}
        /\ row' = [row EXCEPT ![local[w]] = [NoRow EXCEPT !.status = "draft",
                                                          !.selected = req[w].tests]]
        /\ req' = [req EXCEPT ![w].s = local[w]]
        /\ pc'[w] = IF req[w].op = "autostart" THEN "read" ELSE "answer"
    BY <1>3, <1>a DEF InsertSession, WriteRow, RequestOK
  <2>2. req'[w].s = local[w] /\ req'[w].op = req[w].op
    BY <1>a, <2>1 DEF Request
  <2>3. Exists(req[w].s)'
    BY <1>a, <2>1, <2>2 DEF Exists, NoRow
  <2> QED
    BY <2>1, <2>2, <2>3 DEF Clean, Refusable
<1>4. CASE ReadSession(w)
  <2>1. /\ pc[w] = "read" /\ row' = row /\ req' = req /\ wrote' = wrote
        /\ pc'[w] = IF Visible(Target(w)) /\ Accepts(req[w], Target(w))
                    THEN AfterRead(req[w].op) ELSE "refused"
    BY <1>4, <1>a DEF ReadSession, Target
  <2>2. /\ Exists(req[w].s) /\ req[w].s \in SessionId
        /\ req[w].op # "autostart" => wrote[w] \subseteq Allowed(w)
    BY <1>a, <2>1 DEF Clean, Refusable, RequestOK
  <2>3. /\ Exists(req[w].s)' /\ (Allowed(w)' = Allowed(w)) /\ (Taken(w)' <=> Taken(w))
    BY <2>1, <2>2 DEF Exists, Allowed, Taken, Target
  <2>4. CASE pc'[w] = "refused"
    <3>1. \/ ~Visible(Target(w)) \/ ~Accepts(req[w], Target(w))
      BY <2>1, <2>4 DEF AfterRead
    <3>2. req[w].op = "autostart" => Taken(w)
      BY <2>2, <3>1 DEF Visible, Accepts, Taken, Exists, Target
    <3> QED
      BY <2>1, <2>2, <2>3, <2>4, <3>2 DEF Clean, Refusable
  <2>5. CASE pc'[w] # "refused"
    <3>1. /\ pc'[w] \in {"query", "number", "progress", "write"}
          /\ pc'[w] = "progress" => req[w].op # "autostart"
      BY <2>1, <2>5 DEF AfterRead
    <3> QED
      BY <2>1, <2>2, <2>3, <3>1 DEF Clean, Refusable
  <2> QED
    BY <2>4, <2>5
<1>5. CASE ReadProgress(w)
  <2>1. /\ pc[w] = "progress" /\ pc'[w] \in {"write", "refused"}
        /\ row' = row /\ req' = req /\ wrote' = wrote
    BY <1>5, <1>a DEF ReadProgress
  <2>2. Exists(req[w].s) /\ wrote[w] \subseteq Allowed(w)
    BY <2>1 DEF Clean, Refusable
  <2>3. Exists(req[w].s)' /\ Allowed(w)' = Allowed(w)
    BY <2>1, <2>2 DEF Exists, Allowed
  <2> QED
    BY <2>1, <2>2, <2>3 DEF Clean, Refusable
<1>6. CASE Answer(w)
  <2>1. /\ pc[w] = "answer" /\ row' = row /\ req' = req
        /\ pc'[w] = IF Visible(Target(w)) THEN "ok" ELSE "refused"
    BY <1>6, <1>a DEF Answer
  <2>2. Exists(req[w].s) /\ req[w].s \in SessionId /\ req[w].op # "delete"
    BY <1>a, <2>1 DEF Clean, RequestOK
  <2>3. ~Visible(Target(w)) => Taken(w)
    BY <2>2 DEF Visible, Taken, Exists, Target
  <2>4. Exists(req[w].s)' /\ (Taken(w)' <=> Taken(w))
    BY <2>1, <2>2 DEF Exists, Taken, Target
  <2> QED
    BY <2>1, <2>3, <2>4 DEF Clean, Refusable
<1>7. CASE Reply(w)
  BY <1>7 DEF Reply, Forget, Clean, Refusable
<1>8. CASE \/ QueryActive(w) \/ RetireOne(w) \/ RetireEvent(w) \/ StartSession(w)
           \/ ReopenSession(w) \/ ReopenEvent(w) \/ ReviewSession(w)
           \/ EditSession(w) \/ DeleteSession(w) \/ NumberAttempt(w)
           \/ InsertAttempt(w) \/ ResumeSession(w) \/ CompleteSession(w)
  <2>1. /\ pc[w] \in {"query", "retire", "retire_event", "reopen_event", "write",
                      "number", "insert_attempt", "resume"}
        /\ pc'[w] \in {"retire", "retire_event", "reopen_event", "answer", "ok",
                       "insert_attempt", "resume"}
        /\ req' = req
    BY <1>8, <1>a DEF QueryActive, RetireOne, RetireEvent, StartSession, ReopenSession,
       ReopenEvent, ReviewSession, EditSession, DeleteSession, NumberAttempt,
       InsertAttempt, ResumeSession, CompleteSession, UpdateSession, RecordEvent, At
  <2>2. Exists(req[w].s) /\ req[w].s \in SessionId
    BY <1>a, <2>1 DEF Clean, RequestOK
  <2>3. Exists(req[w].s)'
    BY <2>1, <2>2, RowsOnward DEF Exists
  <2>4. pc'[w] \in {"answer", "reopen_event"} => req[w].op # "delete"
    BY <1>8, <1>a DEF QueryActive, RetireOne, RetireEvent, StartSession, ReopenSession,
       ReopenEvent, ReviewSession, EditSession, DeleteSession, NumberAttempt,
       InsertAttempt, ResumeSession, CompleteSession, UpdateSession, RecordEvent,
       At, Clean
  <2> QED
    BY <2>1, <2>3, <2>4 DEF Clean, Refusable
<1> QED
  BY <1>1, <1>2, <1>3, <1>4, <1>5, <1>6, <1>7, <1>8 DEF Step

\* Every worker knows what it has written, from its first statement on.
LEMMA CleanNext == TypeInv /\ CleanInv /\ [Next]_vars => CleanInv'
<1> SUFFICES ASSUME TypeInv, CleanInv, [Next]_vars PROVE CleanInv'
  OBVIOUS
<1>1. CASE Crash
  BY <1>1 DEF Crash, Forget, CleanInv, Clean, Refusable
<1>2. ASSUME NEW w \in Worker, Begin(w) PROVE CleanInv'
  <2>1. PICK q \in Requests : /\ pc' = [pc EXCEPT ![w] = Entry(q)]
                              /\ req' = [req EXCEPT ![w] = q]
    BY <1>2 DEF Begin
  <2>2. /\ pc[w] = "idle" /\ row' = row /\ wrote' = wrote
        /\ pc'[w] = Entry(q) /\ req'[w] = q
        /\ \A v \in Worker : v # w => pc'[v] = pc[v] /\ req'[v] = req[v]
    BY <1>2, <2>1 DEF Begin, db, TypeInv, TypeOK
  <2>3. wrote[w] = {}
    BY <2>2 DEF CleanInv, Clean
  <2>4. CASE q.op \in {"create", "autostart"}
    BY <2>2, <2>3, <2>4 DEF Entry, CleanInv, Clean, Refusable, Allowed, Taken,
       Exists, Target
  <2>5. CASE q.op \notin {"create", "autostart"}
    <3>1. q.s \in Used
      BY <2>5 DEF Requests, Req
    <3>2. Exists(req[w].s)'
      BY <2>2, <3>1 DEF Used, Exists
    <3>3. Clean(w)'
      BY <2>2, <2>3, <2>5, <3>2 DEF Entry, Clean, Refusable
    <3> QED
      BY <2>2, <3>3 DEF CleanInv, Clean, Refusable, Allowed, Taken, Exists, Target
  <2> QED
    BY <2>4, <2>5
<1>3. ASSUME NEW w \in Worker, Step(w) PROVE CleanInv'
  BY <1>3, OwnClean, OthersClean DEF CleanInv
<1>4. CASE UNCHANGED vars
  BY <1>4 DEF vars, db, locals, CleanInv, Clean, Refusable, Allowed, Taken,
     Exists, Target
<1> QED
  BY <1>1, <1>2, <1>3, <1>4 DEF Next

\* A request answered with an error has changed nothing but the project of a
\* creation, whatever overlaps and is killed, although every statement commits
\* on its own: unless another request deleted or retired its session meanwhile,
\* or started the one it had created.
THEOREM RefusedChangesNothingAlways == Spec => []RefusedChangesNothing
<1>1. Init => CleanInv
  BY DEF Init, CleanInv, Clean, Refusable
<1>2. CleanInv => RefusedChangesNothing
  BY DEF CleanInv, Clean, Refusable, Allowed, Taken, Target, RefusedChangesNothing
<1> QED
  BY <1>1, <1>2, CleanNext, TypeInvariant, PTL DEF Spec

=============================================================================
