-------------------------- MODULE SessionLifecycle --------------------------
(***************************************************************************)
(* What the session store promises its callers: the guided commissioning   *)
(* state machine of sessions.py, every operation one indivisible step.     *)
(*                                                                         *)
(*   absent -> draft -> in_progress <-> review -> completed_passed/failed  *)
(*               |            |           |               |                *)
(*           discarded     retired     retired      (reopen) in_progress   *)
(*                                                                         *)
(* A session row is never removed: deleting a draft leaves it "discarded"  *)
(* and superseding a session leaves it "retired" (deleted = 1 in both      *)
(* cases).  SessionStore is the statement-by-statement specification that  *)
(* is checked against this one.                                            *)
(***************************************************************************)
EXTENDS Naturals, Sequences, SequencesExt

CONSTANTS Session,  \* the references a session can get
          Test      \* the keys of the test_definition table

VARIABLES phase,    \* phase[s]: where session s is in its life
          selected, \* selected[s]: the tests session s asks for
          answers   \* answers[s][t]: results given to test t, oldest first

vars == <<phase, selected, answers>>

Result == {"pass", "fail"}
ActivePhase == {"in_progress", "review"}
CompletedPhase == {"completed_passed", "completed_failed"}
Phase == {"absent", "draft", "discarded", "retired"}
           \cup ActivePhase \cup CompletedPhase

Active == {s \in Session : phase[s] \in ActivePhase}

-----------------------------------------------------------------------------
(* The outcome is derived from the latest answer of every selected test.   *)

Unanswered(T, a) == {t \in T : a[t] = <<>>}
Failed(T, a) == {t \in T : a[t] # <<>> /\ Last(a[t]) = "fail"}
Verdict(T, a) == IF Failed(T, a) = {} THEN "completed_passed"
                                      ELSE "completed_failed"

Init == /\ phase = [s \in Session |-> "absent"]
        /\ selected = [s \in Session |-> {}]
        /\ answers = [s \in Session |-> [t \in Test |-> <<>>]]

Create(s, T) ==
    /\ phase[s] = "absent"
    /\ T # {}
    /\ phase' = [phase EXCEPT ![s] = "draft"]
    /\ selected' = [selected EXCEPT ![s] = T]
    /\ UNCHANGED answers

Edit(s, T) ==
    /\ phase[s] = "draft"
    /\ T # {}
    /\ selected' = [selected EXCEPT ![s] = T]
    /\ UNCHANGED <<phase, answers>>

Move(s, from, to) ==
    /\ phase[s] \in from
    /\ phase' = [phase EXCEPT ![s] = to]
    /\ UNCHANGED <<selected, answers>>

Discard(s) == Move(s, {"draft"}, "discarded")

\* A new or a reopened session supersedes the active one before it starts.
Retire(s) == Move(s, ActivePhase, "retired")

Start(s) == Active = {} /\ Move(s, {"draft"}, "in_progress")

Record(s, t, r) ==
    /\ phase[s] \in ActivePhase
    /\ t \in selected[s]
    /\ answers' = [answers EXCEPT ![s][t] = Append(@, r)]
    /\ phase' = [phase EXCEPT ![s] = "in_progress"]  \* a retest leaves review
    /\ UNCHANGED selected

Review(s) == Move(s, {"in_progress"}, "review")

Complete(s) ==
    /\ Unanswered(selected[s], answers[s]) = {}
    /\ Move(s, ActivePhase, Verdict(selected[s], answers[s]))

Reopen(s) == Active = {} /\ Move(s, CompletedPhase, "in_progress")

Next == \E s \in Session :
    \/ \E T \in SUBSET Test : Create(s, T) \/ Edit(s, T)
    \/ Discard(s) \/ Retire(s) \/ Start(s)
    \/ \E t \in Test, r \in Result : Record(s, t, r)
    \/ Review(s) \/ Complete(s) \/ Reopen(s)

Spec == Init /\ [][Next]_vars

-----------------------------------------------------------------------------
TypeOK == /\ phase \in [Session -> Phase]
          /\ selected \in [Session -> SUBSET Test]
          /\ answers \in [Session -> [Test -> Seq(Result)]]

\* At most one session is worked at a time (the single-active rule).
SingleActive == \A s1, s2 \in Active : s1 = s2

\* A completed session answered every selected test, and it says "passed"
\* exactly when the latest answer of each of them is a pass (FR-37).
VerdictEarned == \A s \in Session : phase[s] \in CompletedPhase =>
    /\ Unanswered(selected[s], answers[s]) = {}
    /\ phase[s] = Verdict(selected[s], answers[s])

\* A completed session is read-only: while it stays completed its selection,
\* its answers and its verdict do not change, and it leaves that state only by
\* being reopened (FR-25).
CompletedFrozen == [][\A s \in Session : phase[s] \in CompletedPhase =>
    /\ answers'[s] = answers[s]
    /\ selected'[s] = selected[s]
    /\ phase'[s] \in {phase[s], "in_progress"}]_vars

=============================================================================
