---------------------------- MODULE SessionStore ----------------------------
(***************************************************************************)
(* sessions.py as it runs: every request is a sequence of SQL statements,  *)
(* and db.execute commits each of them on its own.  A statement is one     *)
(* step; requests of different workers interleave between statements.      *)
(*                                                                         *)
(* A worker executes one request at a time.  The event loop runs the async *)
(* handlers (start, attempt, complete): SessionStore never awaits, so two  *)
(* of them never overlap.  The plain "def" handlers run in the thread pool *)
(* and overlap with the loop and with each other.                          *)
(***************************************************************************)
EXTENDS Integers, Sequences, SequencesExt, FiniteSets

CONSTANTS
    MaxSessions,  \* bound: sessions created, all on one day
    Test,         \* keys of the test_definition table
    Loop, Pool,   \* workers: the event loop, the threads of the pool
    InFlight,     \* bound: requests being executed at once
    Ops,          \* the operations the clients of this instance call
    MaxAnswers,   \* bound: answers recorded in all
    MaxCrashes    \* bound: process kills

Worker == Loop \cup Pool
SessionId == 1..MaxSessions  \* the NNN of TL-yyyymmdd-NNN
Table == {"project", "session", "test_attempt", "system_event"}

Result == {"pass", "fail"}
ActiveStatus == {"in_progress", "review"}
CompletedStatus == {"completed_passed", "completed_failed"}
Status == {"draft"} \cup ActiveStatus \cup CompletedStatus

LoopOps == {"start", "attempt", "complete"}
PoolOps == {"create", "autostart", "edit_tests", "edit_other", "delete",
            "review", "reopen"}

\* Up to 999 the references sort by text as they do by number: the NNN has three
\* digits.  Past it the highest text stays TL-...-999 and every creation of that
\* day collides; that day is outside the specification.
ASSUME Bounds == /\ MaxSessions \in 0..999 /\ InFlight \in Nat
                 /\ MaxAnswers \in Nat /\ MaxCrashes \in Nat
\* There is one event loop.
ASSUME Workers == /\ IsFiniteSet(Worker) /\ Loop \cap Pool = {}
                  /\ \A u, v \in Loop : u = v
ASSUME Operations == Ops \subseteq LoopOps \cup PoolOps

VARIABLES
    row,       \* row[s]: the session table; status "absent" before INSERT
    attempts,  \* attempts[s][t]: results of test_attempt by attempt_number
    missing,   \* missing[s][e]: changes of s that call for a system_event row of
               \* type e, less the rows of that type it has
    pc,        \* pc[w]: the statement worker w executes next
    req,       \* req[w]: the request it executes
    seen,      \* seen[w]: the session row it read
    victims,   \* victims[w]: rows of abandon_active it has not retired yet
    local,     \* local[w]: number read by next_reference or MAX(...)
    verdict,   \* verdict[w]: status derived by complete
    wrote,     \* wrote[w]: the tables the request has changed (history)
    alone,     \* alone[w]: no other request overlapped so far (history)
    crashes

db == <<row, attempts, missing>>
locals == <<req, seen, victims, local, verdict, wrote, alone>>
vars == <<db, pc, locals, crashes>>

EventType == {"session_abandoned", "session_reopened"}
NoRow == [status |-> "absent", deleted |-> FALSE, selected |-> {},
          completedAt |-> FALSE]
Row == [status : Status \cup {"absent"}, deleted : BOOLEAN,
        selected : SUBSET Test, completedAt : BOOLEAN]
\* tests: the selection of create and edit_tests; test and answer: of attempt.
\* The answer "blank" is a reopening whose reason is only white space.
Request == [op : LoopOps \cup PoolOps \cup {"none"}, s : SessionId \cup {0},
            tests : SUBSET Test, test : Test \cup {"none"},
            answer : Result \cup {"unexplained_fail", "blank", "none"}]
Req(o, s, T, t, a) == [op |-> o, s |-> s, tests |-> T, test |-> t, answer |-> a]
NoReq == Req("none", 0, {}, "none", "none")

Exists(s) == row[s].status # "absent"
Visible(r) == r.status # "absent" /\ ~r.deleted
Active == {s \in SessionId : row[s].status \in ActiveStatus /\ ~row[s].deleted}
Used == {s \in SessionId : Exists(s)}
Answers == MapThenSumSet(LAMBDA p : Len(attempts[p[1]][p[2]]), SessionId \X Test)

-----------------------------------------------------------------------------
Init ==
    /\ row = [s \in SessionId |-> NoRow]
    /\ attempts = [s \in SessionId |-> [t \in Test |-> <<>>]]
    /\ missing = [s \in SessionId |-> [e \in EventType |-> 0]]
    /\ pc = [w \in Worker |-> "idle"]
    /\ req = [w \in Worker |-> NoReq]
    /\ seen = [w \in Worker |-> NoRow]
    /\ victims = [w \in Worker |-> {}]
    /\ local = [w \in Worker |-> 0]
    /\ verdict = [w \in Worker |-> "none"]
    /\ wrote = [w \in Worker |-> {}]
    /\ alone = [w \in Worker |-> FALSE]
    /\ crashes = 0

Busy == {w \in Worker : pc[w] # "idle"}
Creating == {w \in Worker : pc[w] \in {"project", "reference", "insert"}}


\* Mutant: the handler that records an answer becomes a plain "def" handler.
CanRunAttemptInPool(w, op) == \/ op \in LoopOps \ {"attempt"} /\ w \in Loop
                              \/ op \in PoolOps \cup {"attempt"} /\ w \in Pool

CanRun(w, op) == \/ op \in LoopOps /\ w \in Loop
                 \/ op \in PoolOps /\ w \in Pool

\* Requests a client may send: any session that exists, known tests only (an
\* unknown key is refused like an empty selection).
Requests ==
    {Req(o, 0, T, "none", "none") :
        o \in IF Cardinality(Used) + Cardinality(Creating) < MaxSessions
              THEN {"create", "autostart"} ELSE {},
        T \in SUBSET Test}
    \cup
    [op : {"edit_tests"}, s : Used, tests : SUBSET Test,
     test : {"none"}, answer : {"none"}]
    \cup
    [op : {"edit_other", "delete", "start", "review", "complete"}, s : Used,
     tests : {{}}, test : {"none"}, answer : {"none"}]
    \cup
    [op : {"reopen"}, s : Used, tests : {{}}, test : {"none"},
     answer : {"none", "blank"}]
    \cup
    {Req("attempt", p[1], {}, p[2], p[3]) : p \in
        {q \in Used \X Test \X (Result \cup {"unexplained_fail"}) :
            Answers < MaxAnswers}}

\* The statement a request executes first.
Entry(q) == IF q.op \in {"create", "autostart"} THEN "project" ELSE "read"

Begin(w) ==
    /\ pc[w] = "idle"
    /\ Cardinality(Busy) < InFlight
    /\ \E q \in Requests :
         /\ q.op \in Ops /\ CanRun(w, q.op)
         /\ pc' = [pc EXCEPT ![w] = Entry(q)]
         /\ req' = [req EXCEPT ![w] = q]
    /\ alone' = [v \in Worker |-> v = w /\ Busy = {}]
    /\ UNCHANGED <<db, seen, victims, local, verdict, wrote, crashes>>

-----------------------------------------------------------------------------
(* Steps.  Goto names the statement worker w executes next; WriteRow is an *)
(* UPDATE or INSERT of one session row, and event the audit event that     *)
(* such a change calls for.                                                *)

Goto(w, to) == pc' = [pc EXCEPT ![w] = to]
At(w, statement, ops) == pc[w] = statement /\ req[w].op \in ops
Wrote(w, table) == wrote' = [wrote EXCEPT ![w] = @ \cup {table}]
WriteRow(w, s, r, event) ==
    /\ row' = [row EXCEPT ![s] = r]
    /\ missing' = IF event = "none" THEN missing
                  ELSE [missing EXCEPT ![s][event] = @ + 1]
    /\ Wrote(w, "session")

\* The route stores the project before create_session looks at the selection:
\* a creation that is refused leaves its project behind.
UpsertProject(w) ==
    /\ pc[w] = "project"
    /\ Wrote(w, "project")
    /\ Goto(w, IF req[w].tests = {} THEN "refused" ELSE "reference")
    /\ UNCHANGED <<db, req, seen, victims, local, verdict, alone, crashes>>

\* next_reference: one past the highest reference, deleted rows included.
ReadReference(w) ==
    /\ pc[w] = "reference"
    /\ Max(Used \cup {0}) + 1 \in SessionId
    /\ local' = [local EXCEPT ![w] = Max(Used \cup {0}) + 1]
    /\ Goto(w, "insert")
    /\ UNCHANGED <<db, req, seen, victims, verdict, wrote, alone, crashes>>

InsertSession(w) ==
    /\ pc[w] = "insert"
    /\ ~Exists(local[w])
    /\ WriteRow(w, local[w], [NoRow EXCEPT !.status = "draft",
                                           !.selected = req[w].tests], "none")
    /\ req' = [req EXCEPT ![w].s = local[w]]
    /\ Goto(w, IF req[w].op = "autostart" THEN "read" ELSE "answer")
    /\ UNCHANGED <<attempts, seen, victims, local, verdict, alone, crashes>>


\* The primary key refuses a reference another request took: HTTP 500.
InsertCollides(w) ==
    /\ pc[w] = "insert"
    /\ Exists(local[w])
    /\ Goto(w, "failed")
    /\ UNCHANGED <<db, locals, crashes>>

\* What an operation demands of the row its get_session returned.
Accepts(q, r) ==
    CASE q.op \in {"start", "autostart", "delete", "edit_other"} -> r.status = "draft"
      [] q.op = "edit_tests" -> r.status = "draft" /\ q.tests # {}
      [] q.op = "attempt" -> /\ r.status \in ActiveStatus
                             /\ q.test \in r.selected
                             /\ q.answer \in Result
      [] q.op = "review" -> r.status = "in_progress"
      [] q.op = "complete" -> r.status \in ActiveStatus
      [] q.op = "reopen" -> r.status \in CompletedStatus /\ q.answer # "blank"
      [] OTHER -> FALSE

\* Mutant: reopening forgets to retire the session that is active now.
AfterReadReopenDirect(op) ==
    CASE op \in {"start", "autostart"} -> "query"
      [] op = "reopen" -> "retire"
      [] op = "attempt" -> "number"
      [] op = "complete" -> "progress"
      [] OTHER -> "write"

AfterRead(op) ==
    CASE op \in {"start", "autostart", "reopen"} -> "query"
      [] op = "attempt" -> "number"
      [] op = "complete" -> "progress"
      [] OTHER -> "write"

ReadSession(w) ==
    /\ pc[w] = "read"
    /\ LET r == row[req[w].s]
       IN  /\ seen' = [seen EXCEPT ![w] = r]
           /\ Goto(w, IF Visible(r) /\ Accepts(req[w], r)
                      THEN AfterRead(req[w].op) ELSE "refused")
    /\ UNCHANGED <<db, req, victims, local, verdict, wrote, alone, crashes>>

-----------------------------------------------------------------------------
(* abandon_active: the active rows are read once, then each is retired and *)
(* recorded as abandoned, in two statements.                               *)


\* Mutant: only in_progress rows are retired, as in current_session_id.
QueryInProgress(w) ==
    /\ pc[w] = "query"
    /\ victims' = [victims EXCEPT ![w] =
                     {s \in Active : row[s].status = "in_progress"}]
    /\ Goto(w, "retire")
    /\ UNCHANGED <<db, req, seen, local, verdict, wrote, alone, crashes>>

QueryActive(w) ==
    /\ pc[w] = "query"
    /\ victims' = [victims EXCEPT ![w] = Active]
    /\ Goto(w, "retire")
    /\ UNCHANGED <<db, req, seen, local, verdict, wrote, alone, crashes>>

RetireOne(w) ==
    /\ pc[w] = "retire"
    /\ \E v \in victims[w] :
         /\ WriteRow(w, v, [row[v] EXCEPT !.deleted = TRUE], "session_abandoned")
         /\ victims' = [victims EXCEPT ![w] = @ \ {v}]
         /\ local' = [local EXCEPT ![w] = v]
    /\ Goto(w, "retire_event")
    /\ UNCHANGED <<attempts, req, seen, verdict, alone, crashes>>

RecordEvent(w, s, e) ==
    /\ missing' = [missing EXCEPT ![s][e] = @ - 1]
    /\ Wrote(w, "system_event")
    /\ UNCHANGED <<row, attempts, req, seen, victims, local, verdict, alone, crashes>>


\* Mutant: the audit event names the new session, not the retired one.
RetireEventOfStarter(w) ==
    /\ pc[w] = "retire_event"
    /\ RecordEvent(w, req[w].s, "session_abandoned")
    /\ Goto(w, "retire")

RetireEvent(w) ==
    /\ pc[w] = "retire_event"
    /\ RecordEvent(w, local[w], "session_abandoned")
    /\ Goto(w, "retire")

-----------------------------------------------------------------------------
(* The statement that changes the session row: UPDATE ... WHERE id = ?,    *)
(* whatever the row has become since it was read.                          *)

UpdateSession(w, r, event, next) ==
    /\ WriteRow(w, req[w].s, r, event)
    /\ Goto(w, next)
    /\ UNCHANGED <<attempts, req, seen, victims, local, verdict, alone, crashes>>

Target(w) == row[req[w].s]

StartSession(w) ==
    /\ At(w, "retire", {"start", "autostart"})
    /\ victims[w] = {}
    /\ UpdateSession(w, [Target(w) EXCEPT !.status = "in_progress"],
                     "none", "answer")

\* Mutant: the completion date of a reopened session stays.
ReopenKeepingDate(w) ==
    /\ At(w, "retire", {"reopen"})
    /\ victims[w] = {}
    /\ UpdateSession(w, [Target(w) EXCEPT !.status = "in_progress"],
                     "session_reopened", "reopen_event")

\* Mutant: reopening leaves no event.
ReopenSilently(w) ==
    /\ At(w, "retire", {"reopen"})
    /\ victims[w] = {}
    /\ UpdateSession(w, [Target(w) EXCEPT !.status = "in_progress",
                                          !.completedAt = FALSE],
                     "session_reopened", "answer")

\* Mutant: the guard is asked once more before the UPDATE.
ReopenRechecked(w) ==
    /\ At(w, "retire", {"reopen"})
    /\ victims[w] = {}
    /\ IF Target(w).status \in CompletedStatus
       THEN UpdateSession(w, [Target(w) EXCEPT !.status = "in_progress",
                                               !.completedAt = FALSE],
                          "session_reopened", "reopen_event")
       ELSE Goto(w, "refused") /\ UNCHANGED <<db, locals, crashes>>

ReopenSession(w) ==
    /\ At(w, "retire", {"reopen"})
    /\ victims[w] = {}
    /\ UpdateSession(w, [Target(w) EXCEPT !.status = "in_progress",
                                          !.completedAt = FALSE],
                     "session_reopened", "reopen_event")

ReopenEvent(w) ==
    /\ pc[w] = "reopen_event"
    /\ RecordEvent(w, req[w].s, "session_reopened")
    /\ Goto(w, "answer")

ReviewSession(w) ==
    /\ At(w, "write", {"review"})
    /\ UpdateSession(w, [Target(w) EXCEPT !.status = "review"], "none", "answer")

\* A PATCH without selected_tests writes back the selection it read.
EditSession(w) ==
    /\ At(w, "write", {"edit_tests", "edit_other"})
    /\ UpdateSession(w,
         [Target(w) EXCEPT !.selected = IF req[w].op = "edit_tests"
                                        THEN req[w].tests ELSE seen[w].selected],
         "none", "answer")


\* A draft has no history; a session that was started after it was read as a
\* draft has, and is removed all the same.
DeleteSession(w) ==
    /\ At(w, "write", {"delete"})
    /\ UpdateSession(w, [Target(w) EXCEPT !.deleted = TRUE],
         IF Target(w).status = "draft" THEN "none" ELSE "session_abandoned", "ok")

-----------------------------------------------------------------------------
(* record_attempt                                                          *)

NumberAttempt(w) ==
    /\ pc[w] = "number"
    /\ local' = [local EXCEPT ![w] = Len(attempts[req[w].s][req[w].test]) + 1]
    /\ Goto(w, "insert_attempt")
    /\ UNCHANGED <<db, req, seen, victims, verdict, wrote, alone, crashes>>

\* UNIQUE (session_id, test_key, attempt_number): a taken number is an error.
InsertAttempt(w) ==
    /\ pc[w] = "insert_attempt"
    /\ local[w] = Len(attempts[req[w].s][req[w].test]) + 1
    /\ attempts' = [attempts EXCEPT ![req[w].s][req[w].test] =
                                        Append(@, req[w].answer)]
    /\ Wrote(w, "test_attempt")
    /\ Goto(w, IF seen[w].status = "review" THEN "resume" ELSE "ok")
    /\ UNCHANGED <<row, missing, req, seen, victims, local, verdict, alone, crashes>>

ResumeSession(w) ==
    /\ pc[w] = "resume"
    /\ UpdateSession(w, [Target(w) EXCEPT !.status = "in_progress"], "none", "ok")

-----------------------------------------------------------------------------
(* progress and complete: the outcome is derived from the latest answer of *)
(* every test the row selected when it was read.                           *)

Unanswered(T, a) == {t \in T : a[t] = <<>>}

\* Mutant: the first answer of a test decides, not the latest.
FailedAtFirst(T, a) == {t \in T : a[t] # <<>> /\ Head(a[t]) = "fail"}

Failed(T, a) == {t \in T : a[t] # <<>> /\ Last(a[t]) = "fail"}
\* Mutant: a status the CHECK constraint of the session table does not know.
VerdictUnknown(T, a) == IF Failed(T, a) = {} THEN "completed" ELSE "completed_failed"

Verdict(T, a) == IF Failed(T, a) = {} THEN "completed_passed"
                                      ELSE "completed_failed"

\* Mutant: completion does not ask whether every test was answered.
ReadProgressUnasked(w) ==
    /\ pc[w] = "progress"
    /\ verdict' = [verdict EXCEPT ![w] = Verdict(seen[w].selected, attempts[req[w].s])]
    /\ Goto(w, "write")
    /\ UNCHANGED <<db, req, seen, victims, local, wrote, alone, crashes>>

ReadProgress(w) ==
    /\ pc[w] = "progress"
    /\ LET T == seen[w].selected
           a == attempts[req[w].s]
       IN  /\ verdict' = [verdict EXCEPT ![w] = Verdict(T, a)]
           /\ Goto(w, IF Unanswered(T, a) = {} THEN "write" ELSE "refused")
    /\ UNCHANGED <<db, req, seen, victims, local, wrote, alone, crashes>>

CompleteSession(w) ==
    /\ At(w, "write", {"complete"})
    /\ UpdateSession(w, [Target(w) EXCEPT !.status = verdict[w],
                                          !.completedAt = TRUE], "none", "answer")

-----------------------------------------------------------------------------
\* The closing get_session: a row deleted meanwhile answers "not found".
Answer(w) ==
    /\ pc[w] = "answer"
    /\ Goto(w, IF Visible(Target(w)) THEN "ok" ELSE "refused")
    /\ UNCHANGED <<db, locals, crashes>>

Forget(W) ==
    /\ pc' = [w \in Worker |-> IF w \in W THEN "idle" ELSE pc[w]]
    /\ req' = [w \in Worker |-> IF w \in W THEN NoReq ELSE req[w]]
    /\ seen' = [w \in Worker |-> IF w \in W THEN NoRow ELSE seen[w]]
    /\ victims' = [w \in Worker |-> IF w \in W THEN {} ELSE victims[w]]
    /\ local' = [w \in Worker |-> IF w \in W THEN 0 ELSE local[w]]
    /\ verdict' = [w \in Worker |-> IF w \in W THEN "none" ELSE verdict[w]]
    /\ wrote' = [w \in Worker |-> IF w \in W THEN {} ELSE wrote[w]]
    /\ alone' = [w \in Worker |-> w \notin W /\ alone[w]]
    /\ UNCHANGED db

\* The HTTP response leaves: 200, 4xx for a SessionError, 500 for any other.
Reply(w) == /\ pc[w] \in {"ok", "refused", "failed"}
            /\ Forget({w})
            /\ UNCHANGED crashes

\* The process dies between two statements; what was committed stays.
Crash == /\ Busy # {}
         /\ crashes < MaxCrashes
         /\ crashes' = crashes + 1
         /\ Forget(Worker)

Step(w) ==
    \/ UpsertProject(w) \/ ReadReference(w) \/ InsertSession(w) \/ InsertCollides(w)
    \/ ReadSession(w) \/ QueryActive(w) \/ RetireOne(w) \/ RetireEvent(w)
    \/ StartSession(w) \/ ReopenSession(w) \/ ReopenEvent(w)
    \/ ReviewSession(w) \/ EditSession(w) \/ DeleteSession(w)
    \/ NumberAttempt(w) \/ InsertAttempt(w) \/ ResumeSession(w)
    \/ ReadProgress(w) \/ CompleteSession(w)
    \/ Answer(w) \/ Reply(w)

Next == Crash \/ \E w \in Worker : Begin(w) \/ Step(w)

Spec == Init /\ [][Next]_vars

-----------------------------------------------------------------------------
(* Properties                                                              *)

Statement == {"idle", "project", "reference", "insert", "read", "query", "retire",
    "retire_event", "reopen_event", "write", "number", "insert_attempt",
    "resume", "progress", "answer", "ok", "refused", "failed"}

\* Every variable has its type: rows are rows of the schema, the audit trail
\* counts, and every worker is at a statement of the code.
TypeOK ==
    /\ row \in [SessionId -> Row]
    /\ attempts \in [SessionId -> [Test -> Seq(Result)]]
    /\ missing \in [SessionId -> [EventType -> Int]]
    /\ pc \in [Worker -> Statement]
    /\ req \in [Worker -> Request]
    /\ seen \in [Worker -> Row]
    /\ victims \in [Worker -> SUBSET SessionId]
    /\ local \in [Worker -> Nat]
    /\ verdict \in [Worker -> CompletedStatus \cup {"none"}]
    /\ wrote \in [Worker -> SUBSET Table]
    /\ alone \in [Worker -> BOOLEAN]
    /\ crashes \in Nat

\* Only one session can be worked at a time: two sessions that are in progress
\* or in review are the same session (docstring of abandon_active).
SingleActive == \A s1, s2 \in Active : s1 = s2

\* FR-37 as a state: a completed session has an answer for every test it
\* selects, and its status is what the latest answers say.
VerdictEarned ==
    \A s \in SessionId : row[s].status \in CompletedStatus =>
        /\ Unanswered(row[s].selected, attempts[s]) = {}
        /\ row[s].status = Verdict(row[s].selected, attempts[s])

\* FR-37 as a step, which holds under every interleaving because answering and
\* completing both run on the event loop: the status that complete stores is
\* the one the answers recorded at that moment give for the tests it read.
EarnedAtCompletion ==
    [][\A w \in Worker : CompleteSession(w) =>
          /\ Unanswered(seen[w].selected, attempts[req[w].s]) = {}
          /\ row'[req[w].s].status =
                 Verdict(seen[w].selected, attempts[req[w].s])]_vars

\* A completed session is read-only (FR-25): a session that carries a
\* completion date is not back in an active status, as only reopen, which
\* clears the date, leads there.
CompletedReadOnly ==
    \A s \in Active : ~row[s].completedAt

\* The changes of history that have no event, one element each.
Unrecorded == UNION {{s} \X {e} \X (1 .. missing[s][e]) :
                        s \in SessionId, e \in EventType}
Recording == {w \in Worker : pc[w] \in {"retire_event", "reopen_event"}}

\* Every change of history is audited: each retirement of a session has a
\* session_abandoned event of its own (docstring of abandon_active) and each
\* reopening a session_reopened event (FR-25).  Apart from those a worker is
\* about to record, at most one per request that a process kill cut short is
\* missing.
HistoryAudited ==
    Cardinality(Unrecorded) <= crashes * InFlight + Cardinality(Recording)

\* A request answered with an error has changed nothing, apart from the project
\* that a creation stores first; unless another request took its session over
\* before it was done: retired or deleted it, or started the one it created.
RefusedChangesNothing ==
    \A w \in Worker : pc[w] \in {"refused", "failed"} =>
        \/ wrote[w] \subseteq
             IF req[w].op \in {"create", "autostart"} THEN {"project"} ELSE {}
        \/ row[req[w].s].deleted /\ req[w].op # "delete"
        \/ row[req[w].s].status # "draft" /\ req[w].op = "autostart"

\* A start or reopen that no other request overlapped leaves its session as
\* the one active session, whatever races or crashes happened before it: the
\* next session repairs a broken single-active rule.
StartAloneWins ==
    \A w \in Worker :
        /\ At(w, "answer", {"start", "autostart", "reopen"})
        /\ alone[w]
        => Active = {req[w].s}

-----------------------------------------------------------------------------
\* The state a client sees.  A deleted draft is discarded, any other deleted
\* session is retired; a retest has left review as soon as it is recorded.
PhaseOf(s) ==
    CASE row[s].deleted /\ row[s].status = "draft" -> "discarded"
      [] row[s].deleted /\ row[s].status # "draft" -> "retired"
      [] ~row[s].deleted /\ \E w \in Worker : pc[w] = "resume" /\ req[w].s = s
            -> "in_progress"
      [] OTHER -> row[s].status

Lifecycle == INSTANCE SessionLifecycle WITH
    Session <- SessionId,
    phase <- [s \in SessionId |-> PhaseOf(s)],
    selected <- [s \in SessionId |-> row[s].selected],
    answers <- attempts

\* While one request runs at a time the store implements the abstract session
\* lifecycle, crashes between its statements included.
ImplementsLifecycle == Lifecycle!Spec

=============================================================================
