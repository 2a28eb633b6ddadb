----------------------------- MODULE GuidedTest -----------------------------
(***************************************************************************)
(* The guided test page of the phone (GuidedTest.tsx) with the handlers it *)
(* calls: pattern activation, record_attempt, upload_evidence and          *)
(* store_photo (evidence.py).                                              *)
(*                                                                         *)
(* Opening a step sends its pattern and does not wait: several activations *)
(* can be under way and arrive in any order.  A press of PASS or FAIL is a *)
(* chain of awaited calls (the attempt, each photo, the session again),    *)
(* during which Previous and Next keep working, and so do the tab bar and  *)
(* the resume link (App.tsx, Home.tsx), which take the page down and mount *)
(* a new one that knows nothing of the press.  One phone is modelled;      *)
(* whatever else answers the same session is in RoomPanel and SessionStore.*)
(***************************************************************************)
EXTENDS Naturals, Sequences, SequencesExt

CONSTANTS Photo,       \* pictures in the phone
          Steps,       \* number of selected tests
          Soak,        \* those whose pattern is the soak
          MaxDeeds,    \* bound: presses, photos attached, moves between pages
          MaxFaults    \* bound: lost calls, failing writes, kills, reloads

ASSUME GuidedBounds == /\ Steps \in Nat \ {0}
                       /\ MaxDeeds \in Nat /\ MaxFaults \in Nat

Step == 1..Steps

ASSUME SoakTests == Soak \subseteq Step

Loading == 0
Review == Steps + 1

VARIABLES
    shown,     \* the page: a step (index), Review, or Loading, which is also
               \* for a phone that is on another page
    known,     \* steps the page's copy of the session has as answered
    photos,    \* photos attached to the shown step
    work,      \* presses being dealt with: those of the page, of a page that
               \* was left, and calls at the server nobody waits for any more
    acts,      \* activations under way, in the order they were sent
    pattern,   \* the step whose pattern is on the output, 0 for another
    attempts,  \* table test_attempt, with the photos of the press (history)
    originals, derivatives, rows,  \* evidence as <<attempt, photo>>: the two
               \* files and the table row
    finished,  \* attempts after which the page moved on (history)
    deeds, faults,
    doubtful,  \* steps of a press whose call failed, or whose page was left or
               \* reloaded before the press was over (history)
    failed,    \* files whose derivative could not be made (history)
    disturbed  \* an activation was lost, overtaken or undone (history)

output == <<acts, pattern, disturbed>>
evidence == <<originals, derivatives, rows>>
vars == <<shown, known, photos, work, output, attempts, evidence, finished,
          deeds, faults, doubtful, failed>>

\* The page has a press of its own; busy is the state of the mounted page.
Busy == \E x \in work : x.from = "page"
Answered == {attempts[k].step : k \in 1..Len(attempts)}

Init ==
    /\ shown = Loading /\ known = {} /\ photos = <<>>
    /\ work = {}
    /\ acts = <<>> /\ pattern = 0
    /\ attempts = <<>> /\ originals = {} /\ derivatives = {} /\ rows = {}
    /\ finished = {}
    /\ deeds = 0 /\ faults = 0
    /\ doubtful = {} /\ failed = {} /\ disturbed = FALSE

-----------------------------------------------------------------------------
(* The page                                                                *)

Deed == deeds < MaxDeeds /\ deeds' = deeds + 1

Activate(s) == /\ acts' = Append(acts, [step |-> s, overtaken |-> FALSE])
               /\ disturbed' = (disturbed /\ acts # <<>>)
               /\ UNCHANGED pattern

\* Mutant: the effect does not depend on the step, only on the session.
ShowOnce(s) ==
    /\ shown' = s
    /\ IF s \in Step /\ shown = Loading THEN Activate(s) /\ photos' = <<>>
       ELSE UNCHANGED <<output, photos>>

\* setIndex and the effect on the key of the step: a step that was not on the
\* page sends its pattern and clears note and photos.
Show(s) ==
    /\ shown' = s
    /\ IF s \in Step /\ s # shown THEN Activate(s) /\ photos' = <<>>
       ELSE UNCHANGED <<output, photos>>

Unanswered == Step \ Answered
First(S) == CHOOSE s \in S : \A t \in S : s <= t

\* The page loads and opens the step it was asked for, by the link or by what
\* the browser remembers of it, or else the first open one or the last.
Load ==
    /\ shown = Loading
    /\ known' = Answered
    /\ \E s \in Step : Show(s)
    /\ UNCHANGED <<work, attempts, evidence, finished, deeds, faults, doubtful,
                   failed>>

\* Previous and Next, busy or not.
Move ==
    /\ shown \in Step /\ Deed
    /\ \E s \in Step \cap {shown - 1, shown + 1} : Show(s)
    /\ UNCHANGED <<known, work, attempts, evidence, finished, faults, doubtful,
                   failed>>

\* A page is taken down: its presses go on, for a page that is not there.
LeaveBehind(W) ==
    {[x EXCEPT !.from = IF @ = "page" THEN "left" ELSE @] : x \in W}

\* The steps in doubt when the presses W are left behind or given up.
InDoubt(W) == doubtful \cup {x.step : x \in {y \in W : y.from = "page"}}

\* The tab bar takes the page down, busy or not, and the resume link of Home
\* mounts a new one.
Leave ==
    /\ shown \in Step /\ Deed
    /\ shown' = Loading /\ known' = {} /\ photos' = <<>>
    /\ work' = LeaveBehind(work) /\ doubtful' = InDoubt(work)
    /\ UNCHANGED <<output, attempts, evidence, finished, faults, failed>>

\* From the review back to a step: the page is mounted anew.
GoTo ==
    /\ shown = Review /\ Deed
    /\ shown' = Loading /\ known' = {} /\ photos' = <<>>
    /\ UNCHANGED <<work, output, attempts, evidence, finished, faults,
                   doubtful, failed>>

\* addFiles; the same picture may be chosen twice.
Attach(p) ==
    /\ shown \in Step /\ Deed
    /\ photos' = Append(photos, p)
    /\ UNCHANGED <<shown, known, work, output, attempts, evidence, finished,
                   faults, doubtful, failed>>

NewPress == [id |-> deeds, step |-> shown, knew |-> shown \in known,
             all |-> photos, left |-> photos, attempt |-> 0,
             stage |-> "record", from |-> "page"]

\* Mutant: the buttons are not disabled while a press is dealt with.
PressAnyTime ==
    /\ shown \in Step /\ Deed
    /\ work' = work \cup {NewPress}
    /\ UNCHANGED <<shown, known, photos, output, attempts, evidence, finished,
                   faults, doubtful, failed>>

\* record: PASS, or FAIL with a note.
Press ==
    /\ shown \in Step /\ Deed
    /\ ~Busy
    /\ work' = work \cup {NewPress}
    /\ UNCHANGED <<shown, known, photos, output, attempts, evidence, finished,
                   faults, doubtful, failed>>

-----------------------------------------------------------------------------
(* The chain of calls of a press x, one step per effect at the server.     *)

\* A call is answered.  The next one goes out if somebody waits for it.
Answer(x, y) == work' = (work \ {x}) \cup (IF x.from # "gone" THEN {y} ELSE {})

\* Mutant: the photos are not awaited.
RecordAttemptOnly(x) ==
    /\ x.stage = "record"
    /\ attempts' = Append(attempts, [step |-> x.step, photos |-> x.all,
                                     blind |-> x.step \in Answered /\ ~x.knew])
    /\ Answer(x, [x EXCEPT !.attempt = Len(attempts) + 1, !.stage = "load"])
    /\ UNCHANGED <<shown, known, photos, output, evidence, finished, deeds,
                   faults, doubtful, failed>>

\* Mutant: the answer's attempt id is not used.
RecordAttemptNoId(x) ==
    /\ x.stage = "record"
    /\ attempts' = Append(attempts, [step |-> x.step, photos |-> x.all,
                                     blind |-> x.step \in Answered /\ ~x.knew])
    /\ Answer(x, [x EXCEPT !.stage = IF x.left = <<>> THEN "load" ELSE "original"])
    /\ UNCHANGED <<shown, known, photos, output, evidence, finished, deeds,
                   faults, doubtful, failed>>

\* record_attempt; "blind" when the step was answered and the page said it
\* was not.
RecordAttempt(x) ==
    /\ x.stage = "record"
    /\ attempts' = Append(attempts, [step |-> x.step, photos |-> x.all,
                                     blind |-> x.step \in Answered /\ ~x.knew])
    /\ Answer(x, [x EXCEPT !.attempt = Len(attempts) + 1,
                           !.stage = IF x.left = <<>> THEN "load" ELSE "original"])
    /\ UNCHANGED <<shown, known, photos, output, evidence, finished, deeds,
                   faults, doubtful, failed>>

\* store_photo names both files by the attempt and the digest of the picture.
File(x) == <<x.attempt, Head(x.left)>>

Within(x, stage) == work' = (work \ {x}) \cup {[x EXCEPT !.stage = stage]}

WriteOriginal(x) ==
    /\ x.stage = "original"
    /\ originals' = originals \cup {File(x)}
    /\ Within(x, "derivative")
    /\ UNCHANGED <<shown, known, photos, output, attempts, derivatives, rows,
                   finished, deeds, faults, doubtful, failed>>

WriteDerivative(x) ==
    /\ x.stage = "derivative"
    /\ derivatives' = derivatives \cup {File(x)}
    /\ Within(x, "row")
    /\ UNCHANGED <<shown, known, photos, output, attempts, originals, rows,
                   finished, deeds, faults, doubtful, failed>>

InsertRow(x) ==
    /\ x.stage = "row"
    /\ rows' = rows \cup {File(x)}
    /\ Answer(x, [x EXCEPT !.left = Tail(@),
                           !.stage = IF Len(x.left) = 1 THEN "load" ELSE "original"])
    /\ UNCHANGED <<shown, known, photos, output, attempts, originals,
                   derivatives, finished, deeds, faults, doubtful, failed>>

\* The session is loaded again and the page moves on: to the first open step,
\* or to the review.
MoveOn(x) ==
    /\ x.stage = "load" /\ x.from = "page"
    /\ known' = Answered
    /\ Show(First(Unanswered \cup {Review}))
    /\ finished' = finished \cup {x.attempt}
    /\ work' = work \ {x}
    /\ UNCHANGED <<attempts, evidence, deeds, faults, doubtful, failed>>

\* A press of a page that was left: what it sets goes nowhere, but with no step
\* open it still navigates to the review, which takes the present page down.
MoveAway(x) ==
    /\ x.stage = "load" /\ x.from = "left"
    /\ IF Unanswered = {}
       THEN /\ shown' = Review
            /\ work' = LeaveBehind(work \ {x}) /\ doubtful' = InDoubt(work)
       ELSE /\ work' = work \ {x}
            /\ UNCHANGED <<shown, doubtful>>
    /\ finished' = finished \cup {x.attempt}
    /\ UNCHANGED <<known, photos, output, attempts, evidence, deeds, faults,
                   failed>>

-----------------------------------------------------------------------------
(* Activations, and what goes wrong                                        *)

\* An activation reaches the backend: the pattern is that of the last to come.
Deliver(i) ==
    /\ pattern' = acts[i].step
    /\ disturbed' = (disturbed \/ acts[i].overtaken)
    /\ acts' = [j \in 1..Len(acts) - 1 |->
                  IF j < i THEN [acts[j] EXCEPT !.overtaken = TRUE] ELSE acts[j + 1]]
    /\ UNCHANGED <<shown, known, photos, work, attempts, evidence, finished,
                   deeds, faults, doubtful, failed>>

\* The soak of a step is over and falls back to the identify pattern.
SoakEnds ==
    /\ pattern \in Soak
    /\ pattern' = 0 /\ disturbed' = TRUE
    /\ UNCHANGED <<shown, known, photos, work, acts, attempts, evidence,
                   finished, deeds, faults, doubtful, failed>>

Fault == faults < MaxFaults /\ faults' = faults + 1

LoseActivation(i) ==
    /\ Fault
    /\ acts' = RemoveAt(acts, i)
    /\ disturbed' = TRUE
    /\ UNCHANGED <<shown, known, photos, work, pattern, attempts, evidence,
                   finished, deeds, doubtful, failed>>

\* A call that is at the server, where it may still be carried out.
Unawaited(x) == [x EXCEPT !.from = "gone"]

\* A call or its answer is lost, the session, the upload or a write is refused:
\* the page shows the error and keeps step, note and photos.
CallFails(x) ==
    /\ Fault
    /\ \/ work' = work \ {x}
       \/ /\ x.stage # "load"
          /\ work' = (work \ {x}) \cup {Unawaited(x)}
    /\ doubtful' = doubtful \cup {x.step}
    /\ UNCHANGED <<shown, known, photos, output, attempts, evidence, finished,
                   deeds, failed>>

\* The derivative cannot be made (no image, disk full): the original goes.
DerivativeFails(x) ==
    /\ x.stage = "derivative"
    /\ Fault
    /\ originals' = originals \ {File(x)}
    /\ work' = work \ {x}
    /\ doubtful' = doubtful \cup {x.step}
    /\ failed' = failed \cup {File(x)}
    /\ UNCHANGED <<shown, known, photos, output, attempts, derivatives, rows,
                   finished, deeds>>

\* The backend is killed and comes up with its startup pattern.
Kill ==
    /\ Fault
    /\ work' = {} /\ doubtful' = InDoubt(work)
    /\ pattern' = 0 /\ disturbed' = TRUE
    /\ UNCHANGED <<shown, known, photos, acts, attempts, evidence, finished,
                   deeds, failed>>

\* The browser reloads the page; a call under way may still be carried out.
Reload ==
    /\ Fault
    /\ shown \in Step
    /\ shown' = Loading /\ known' = {} /\ photos' = <<>>
    /\ work' = {Unawaited(x) : x \in {y \in work : y.stage # "load"}}
    /\ doubtful' = InDoubt(work)
    /\ UNCHANGED <<output, attempts, evidence, finished, deeds, failed>>

Chain(x) == \/ RecordAttempt(x) \/ WriteOriginal(x) \/ WriteDerivative(x)
            \/ InsertRow(x) \/ MoveOn(x) \/ MoveAway(x)

Next == \/ Load \/ Move \/ GoTo \/ Leave \/ Press \/ SoakEnds \/ Kill \/ Reload
        \/ \E p \in Photo : Attach(p)
        \/ \E x \in work : Chain(x) \/ CallFails(x) \/ DerivativeFails(x)
        \/ \E i \in 1..Len(acts) : Deliver(i) \/ LoseActivation(i)

Spec == Init /\ [][Next]_vars

\* An activation that is not lost arrives; engineer and presses owe nothing.
FairSpec == /\ Spec
            /\ WF_vars(\E i \in 1..Len(acts) : Deliver(i))

-----------------------------------------------------------------------------
(* Properties                                                              *)

\* Every variable has its type.
TypeOK ==
    /\ shown \in 0..Review /\ known \subseteq Step /\ photos \in Seq(Photo)
    /\ \A x \in work :
          x \in [id : Nat, step : Step, knew : BOOLEAN,
                 all : Seq(Photo), left : Seq(Photo), attempt : Nat,
                 stage : {"record", "original", "derivative", "row", "load"},
                 from : {"page", "left", "gone"}]
    /\ acts \in Seq([step : Step, overtaken : BOOLEAN])
    /\ pattern \in Step \cup {0}
    /\ attempts \in Seq([step : Step, photos : Seq(Photo), blind : BOOLEAN])
    /\ \A e \in originals \cup derivatives \cup rows \cup failed :
          e \in (1..Len(attempts)) \X Photo
    /\ finished \subseteq 1..Len(attempts)
    /\ deeds \in Nat /\ faults \in Nat
    /\ doubtful \subseteq Step /\ disturbed \in BOOLEAN

\* FR-26, the pattern of a step comes with the step: it is on the output in the
\* end, whatever presses and moves overlap, unless the engineer has moved on or
\* an activation was lost, overtaken by a later one, or undone by a restart or
\* the end of its soak.
PatternComesWithStep ==
    \A s \in Step : shown = s ~> shown # s \/ pattern = s \/ disturbed

\* A second answer of a step is a retest the engineer knows of (FR-24): the page
\* showed the previous result when it was pressed.  The only steps that may be
\* answered twice unseen are those of a press whose call failed or whose page
\* was left or reloaded before the press was over: busy and the load before the
\* next step protect every other, whatever happened elsewhere.
NoBlindRetest ==
    \A k \in 1..Len(attempts) : attempts[k].blind => attempts[k].step \in doubtful

Twice(seq, p) == \E i, j \in 1..Len(seq) : i # j /\ seq[i] = p /\ seq[j] = p

\* Evidence is what was attached: when the page moves on from a press, each of
\* its photos has its row; and through kills and failing writes a row has both
\* files, unless one picture was attached twice and its second copy failed.
EvidenceIsWhole ==
    /\ \A k \in finished : LET ps == attempts[k].photos IN
          \A i \in 1..Len(ps) : <<k, ps[i]>> \in rows
    /\ \A e \in rows :
          \/ e \in originals /\ e \in derivatives
          \/ e \in failed /\ Twice(attempts[e[1]].photos, e[2])

=============================================================================
