------------------------------ MODULE RoomPanel ------------------------------
(***************************************************************************)
(* A room panel that drives the guided test: the OpenAVC script            *)
(* room_commissioning_example.py, the device state its driver polls from   *)
(* /status, and the part of the appliance they reach, the current-session  *)
(* aliases.                                                                *)
(*                                                                         *)
(* Every button press runs a coroutine of the script.  The coroutines      *)
(* overlap where they sleep (the settle delays) and while a report is      *)
(* rendered; a call itself is answered long before a settle delay ends, or *)
(* it is lost.  Tests are numbered in the order of TEST_SEQUENCE; 0 is the *)
(* empty next_test of a finished session, and pattern 0 the report screen. *)
(***************************************************************************)
EXTENDS Naturals, FiniteSetsExt

CONSTANTS
    Press,       \* presses the script handles at once
    Impatient,   \* buttons pressed before the last press was dealt with
    NTests,      \* length of TEST_SEQUENCE
    MaxSessions, \* bound: sessions begun
    MaxReports,  \* bound: report revisions of one session
    MaxLost,     \* bound: calls that are lost
    MaxPhone     \* bound: interventions from the phone

ASSUME PanelBounds == /\ NTests \in Nat \ {0} /\ MaxSessions \in Nat
                      /\ MaxReports \in Nat /\ MaxLost \in Nat /\ MaxPhone \in Nat

VARIABLES
    status,   \* status[k]: the k-th session on the appliance
    answered, \* answered[k]: tests with an attempt
    reports,  \* reports[k]: revisions generated
    pattern,  \* what the output shows
    polled,   \* the driver's next_test and session_status
    label,    \* var.tl_path_label: the session its path was begun as, or 0
    text,     \* the three labels _show sets
    pc,       \* pc[p]: what the coroutine of press p waits for
    target,   \* target[p]: the session whose report is being rendered
    number,   \* number[p]: the revision it will have
    calm,     \* calm[p]: nothing else has happened since press p (history)
    lost,     \* calls lost so far
    touched,  \* touched[k]: interventions from the phone (history)
    failed,   \* sessions of which a rendering has failed (history)
    overtaken \* a path was started beside a rendering, and no step opened since
              \* the rendering ended (history)

appliance == <<status, answered, reports, pattern>>
job == <<target, number>>
history == <<touched, failed, overtaken>>
vars == <<appliance, polled, label, text, pc, job, calm, lost, history>>

Test == 1..NTests
Session == 1..MaxSessions
Identify == 1

Of(S) == {k \in Session : status[k] \in S}
Absent == Of({"absent"})
Active == Of({"in_progress", "review"})

\* _resolve_current: the session a current-session alias works on.
Current == IF Active = {} THEN 0 ELSE Max(Active)
CurrentOrCompleted ==
    IF Current # 0 THEN Current ELSE Max(Of({"completed"}) \cup {0})

\* Mutant: the next test is counted from the last one answered.
NextPastLast(k) == IF k # 0 THEN Max(answered[k] \cup {0}) + 1 ELSE 0

\* /status: progress of the session in progress, else of the last completed.
NextTest(k) == IF k # 0 /\ answered[k] # Test THEN Min(Test \ answered[k]) ELSE 0
InProgress == Max(Of({"in_progress"}) \cup {0})
Reported == IF InProgress # 0 THEN InProgress ELSE Max(Of({"completed"}) \cup {0})
Status == [next |-> NextTest(InProgress),
           status |-> IF Reported = 0 THEN "none" ELSE status[Reported]]

Init ==
    /\ status = [k \in Session |-> "absent"]
    /\ answered = [k \in Session |-> {}]
    /\ reports = [k \in Session |-> 0]
    /\ pattern = Identify
    /\ polled = [next |-> 0, status |-> "none"]
    /\ label = 0
    /\ text = [kind |-> "none", test |-> 0, of |-> 0]
    /\ pc = [p \in Press |-> "idle"]
    /\ target = [p \in Press |-> 0]
    /\ number = [p \in Press |-> 0]
    /\ calm = [p \in Press |-> FALSE]
    /\ lost = 0
    /\ touched = [k \in Session |-> 0]
    /\ failed = {}
    /\ overtaken = FALSE

-----------------------------------------------------------------------------
(* Calls.                                                                  *)

Lost == /\ lost < MaxLost
        /\ lost' = lost + 1
        /\ calm' = [p \in Press |-> FALSE]

Delivered == UNCHANGED <<lost, calm>>

\* POST /sessions with autostart: what was active is retired.
BeginSession(k) ==
    status' = [s \in Session |-> IF s = k THEN "in_progress"
                                 ELSE IF s \in Active THEN "retired" ELSE status[s]]

\* POST /current-session/tests/{t}/attempts; an answer resumes a review.
RecordAttempt(t) ==
    IF Current = 0 THEN UNCHANGED <<status, answered>>
    ELSE /\ answered' = [answered EXCEPT ![Current] = @ \cup {t}]
         /\ status' = [status EXCEPT ![Current] = "in_progress"]

\* POST /current-session/complete: 409 while a test is unanswered; otherwise
\* the reply carries the new status and the output falls back to Identify.
CompleteSession ==
    IF Current # 0 /\ NextTest(Current) = 0
    THEN /\ status' = [status EXCEPT ![Current] = "completed"]
         /\ polled' = [polled EXCEPT !.status = "completed"]
         /\ pattern' = Identify
    ELSE UNCHANGED <<status, polled, pattern>>

-----------------------------------------------------------------------------
(* Buttons.                                                                *)

AllIdle == \A p \in Press : pc[p] = "idle"
Rendering == {p \in Press : pc[p] = "rendering"}
Goto(p, to) == pc' = [pc EXCEPT ![p] = to]
Pressed(p, button) == pc[p] = "idle" /\ (AllIdle \/ button \in Impatient)
Starts(p) == calm' = [q \in Press |-> q = p /\ AllIdle]

\* _start_path up to its first delay; the labels are set whatever came back.
PressStart(p) ==
    /\ Pressed(p, "start")
    /\ Absent # {}
    /\ \/ /\ BeginSession(Min(Absent))
          /\ polled' = [polled EXCEPT !.status = "in_progress"]
          /\ label' = Min(Absent)
          /\ overtaken' = (overtaken \/ Rendering # {})
          /\ Starts(p) /\ UNCHANGED lost
       \/ Lost /\ label' = 0 /\ UNCHANGED <<status, polled, overtaken>>
    /\ Goto(p, "refresh")
    /\ UNCHANGED <<answered, reports, pattern, text, job, touched, failed>>

\* PASS, or FAIL with a note: the test is the one polled last.
PressAnswer(p) ==
    /\ Pressed(p, "answer")
    /\ polled.next # 0
    /\ \/ RecordAttempt(polled.next) /\ Starts(p) /\ UNCHANGED lost
       \/ Lost /\ UNCHANGED <<status, answered>>
    /\ Goto(p, "refresh")
    /\ UNCHANGED <<reports, pattern, polled, label, text, job, history>>

PressComplete(p) ==
    /\ Pressed(p, "complete")
    /\ \/ CompleteSession /\ Starts(p) /\ UNCHANGED lost
       \/ Lost /\ UNCHANGED <<status, polled, pattern>>
    /\ Goto(p, "refresh_result")
    /\ UNCHANGED <<answered, reports, label, text, job, history>>

-----------------------------------------------------------------------------
(* The rest of a coroutine.                                                *)

\* Mutant: the script goes on without asking for the status.
RefreshSkipped(p) ==
    /\ pc[p] \in {"refresh", "refresh_result"}
    /\ Delivered /\ UNCHANGED polled
    /\ Goto(p, IF pc[p] = "refresh" THEN "settle" ELSE "settle_result")
    /\ UNCHANGED <<appliance, label, text, job, history>>

\* _sync: the status lands within the settle delay, or not at all.
Refresh(p) ==
    /\ pc[p] \in {"refresh", "refresh_result"}
    /\ \/ polled' = Status /\ Delivered
       \/ Lost /\ UNCHANGED polled
    /\ Goto(p, IF pc[p] = "refresh" THEN "settle" ELSE "settle_result")
    /\ UNCHANGED <<appliance, label, text, job, history>>

\* _open_step with a test left.
OpenStep(p) ==
    /\ pc[p] = "settle"
    /\ polled.next # 0
    /\ \/ pattern' = polled.next /\ Delivered
       \/ Lost /\ UNCHANGED pattern
    /\ text' = [kind |-> "step", test |-> polled.next, of |-> label]
    /\ overtaken' = (overtaken /\ Rendering # {})
    /\ Goto(p, "idle")
    /\ UNCHANGED <<status, answered, reports, polled, label, job, touched, failed>>

\* Mutant: the last step does not finish the session.
AutoFinishWaits(p) ==
    /\ pc[p] = "settle"
    /\ polled.next = 0
    /\ Goto(p, "idle")
    /\ UNCHANGED <<appliance, polled, label, text, job, calm, lost, history>>

\* _open_step with none left, then _finish_session up to its delay.
AutoFinish(p) ==
    /\ pc[p] = "settle"
    /\ polled.next = 0
    /\ \/ CompleteSession /\ Delivered
       \/ Lost /\ UNCHANGED <<status, polled, pattern>>
    /\ Goto(p, "refresh_result")
    /\ UNCHANGED <<answered, reports, label, text, job, history>>

Show(kind) == text' = [kind |-> kind, test |-> 0, of |-> label]

\* Mutant: completion is taken for granted.
ShowBlockedNever(p) ==
    /\ pc[p] = "settle_result"
    /\ polled.status # "completed"
    /\ Show("complete") /\ Goto(p, "idle")
    /\ UNCHANGED <<appliance, polled, label, job, calm, lost, history>>

ShowBlocked(p) ==
    /\ pc[p] = "settle_result"
    /\ polled.status # "completed"
    /\ Show("blocked") /\ Goto(p, "idle")
    /\ UNCHANGED <<appliance, polled, label, job, calm, lost, history>>

\* generate_report: rendering takes seconds, for a revision that is counted
\* before; a session that is not completed is refused (409).  The script
\* announces TEST COMPLETE whatever the answer.
GenerateReport(p) ==
    /\ pc[p] = "settle_result"
    /\ polled.status = "completed"
    /\ LET k == CurrentOrCompleted
       IN  \/ /\ k # 0 /\ status[k] = "completed" /\ reports[k] < MaxReports
              /\ target' = [target EXCEPT ![p] = k]
              /\ number' = [number EXCEPT ![p] = reports[k] + 1]
              /\ Goto(p, "rendering")
              /\ Delivered /\ UNCHANGED text
           \/ /\ k = 0 \/ status[k] # "completed"
              /\ Show("complete") /\ Goto(p, "idle")
              /\ Delivered /\ UNCHANGED job
           \/ /\ Lost
              /\ Show("complete") /\ Goto(p, "idle")
              /\ UNCHANGED job
    /\ UNCHANGED <<appliance, polled, label, history>>

\* The answer to a report request, with or without a report.
RenderEnds(p) ==
    /\ pc[p] = "rendering"
    /\ Show("complete") /\ Goto(p, "idle")
    /\ target' = [target EXCEPT ![p] = 0]
    /\ number' = [number EXCEPT ![p] = 0]
    /\ UNCHANGED <<status, answered, polled, label, calm, lost, touched, overtaken>>

\* The report row is written and the output turns to the report screen,
\* whatever it shows by now.
Rendered(p) ==
    /\ RenderEnds(p)
    /\ reports[target[p]] < number[p]
    /\ reports' = [reports EXCEPT ![target[p]] = number[p]]
    /\ pattern' = 0
    /\ UNCHANGED failed

\* Another rendering of the session has taken the revision meanwhile: the row is
\* refused (UNIQUE), 500, and the output stays.
RenderCollides(p) ==
    /\ RenderEnds(p)
    /\ reports[target[p]] >= number[p]
    /\ UNCHANGED <<reports, pattern, failed>>

\* The renderer fails, or a file cannot be written.
RenderFails(p) ==
    /\ RenderEnds(p)
    /\ failed' = failed \cup {target[p]}
    /\ UNCHANGED <<reports, pattern>>

-----------------------------------------------------------------------------
Poll == /\ polled' = Status
        /\ UNCHANGED <<appliance, label, text, pc, job, calm, lost, history>>

\* The engineer's phone works on the same session.
Phone(k) ==
    /\ touched[k] < MaxPhone
    /\ touched' = [touched EXCEPT ![k] = @ + 1]
    /\ calm' = [p \in Press |-> FALSE]
    /\ UNCHANGED <<reports, pattern, polled, label, text, pc, job, lost, failed,
                   overtaken>>

PhoneReview(k) == /\ status[k] = "in_progress"
                  /\ status' = [status EXCEPT ![k] = "review"]
                  /\ Phone(k) /\ UNCHANGED answered

PhoneAnswer(k) == /\ k = Current
                  /\ \E t \in Test : RecordAttempt(t)
                  /\ Phone(k)

Continue(p) == \/ Refresh(p) \/ OpenStep(p) \/ AutoFinish(p)
               \/ ShowBlocked(p) \/ GenerateReport(p)
               \/ Rendered(p) \/ RenderCollides(p) \/ RenderFails(p)

Next == \/ \E p \in Press : PressStart(p) \/ PressAnswer(p) \/ PressComplete(p)
        \/ \E p \in Press : Continue(p)
        \/ Poll
        \/ \E k \in Session : PhoneReview(k) \/ PhoneAnswer(k)

Spec == Init /\ [][Next]_vars

\* A coroutine of the script goes on when its delay or its call is over.
FairSpec == Spec /\ \A p \in Press : WF_vars(Continue(p))

-----------------------------------------------------------------------------
(* Properties                                                              *)

\* Every variable has its type.
TypeOK ==
    /\ status \in [Session -> {"absent", "in_progress", "review",
                               "completed", "retired"}]
    /\ answered \in [Session -> SUBSET Test]
    /\ reports \in [Session -> 0..MaxReports]
    /\ pattern \in Test \cup {0}
    /\ polled \in [next : Test \cup {0}, status : {"none", "in_progress",
                                                  "completed"}]
    /\ label \in Session \cup {0}
    /\ text \in [kind : {"none", "step", "complete", "blocked"},
                 test : Test \cup {0}, of : Session \cup {0}]
    /\ pc \in [Press -> {"idle", "refresh", "settle", "refresh_result",
                         "settle_result", "rendering"}]
    /\ target \in [Press -> Session \cup {0}]
    /\ number \in [Press -> 0..MaxReports]
    /\ calm \in [Press -> BOOLEAN]
    /\ lost \in 0..MaxLost /\ touched \in [Session -> 0..MaxPhone]
    /\ failed \in SUBSET Session /\ overtaken \in BOOLEAN

TrueOfThePath == text.of # 0 /\ status[text.of] = "completed"

\* While no call was lost and the phone kept out, TEST COMPLETE on the panel
\* is true of the path the panel names, however often buttons are pressed and
\* paths are started.  Only a path that is started while a report is rendered
\* gets it unearned, until its next step opens.
CompleteMeansTested ==
    /\ text.kind = "complete"
    /\ lost = 0 /\ \A k \in Session : touched[k] = 0
    /\ ~overtaken
    => TrueOfThePath

\* The same of every path: "pressing a 'start path' button is always safe"
\* (docs/api-openavc-integration.md).
StartAlwaysSafe ==
    /\ text.kind = "complete"
    /\ lost = 0 /\ \A k \in Session : touched[k] = 0
    => TrueOfThePath

\* The same with the phone in use: TEST COMPLETE is never the status of another
\* session (comment in /status: no "latching onto an unrelated stale session").
CompleteNeverStale ==
    text.kind = "complete" /\ lost = 0 => TrueOfThePath

\* Panel, output and session get back in step: a press the operator lets finish
\* shows the test that is next, on both, whatever was lost, doubled or done on
\* the phone before; and an operator who waits for each step to open only ever
\* answers the test the output shows (no call lost, phone not used in this
\* session, path not started beside a rendering, whose report screen covers it).
PanelInStep ==
    [][\A p \in Press :
          /\ OpenStep(p) /\ calm[p] /\ lost' = lost =>
                pattern' = Status.next /\ text'.test = Status.next
          /\ PressAnswer(p) /\ AllIdle /\ lost' = 0
                /\ Current # 0 /\ touched[Current] = 0 /\ ~overtaken
                => pattern = polled.next]_vars

\* A session the panel has answered in full is completed and reported without
\* another press, two renderings of it at once included, unless a call is lost,
\* a rendering of it fails, the phone steps in or a new path is started first.
AnsweredIsReported ==
    \A k \in Session :
        status[k] \in {"in_progress", "completed"} /\ answered[k] = Test
            ~> \/ reports[k] > 0 \/ lost > 0 \/ k \in failed
               \/ \E s \in Session : touched[s] > 0
               \/ \E s \in Session : s > k /\ status[s] # "absent"

=============================================================================
