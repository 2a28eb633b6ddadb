--------------------------- MODULE RoomPanelProofs ---------------------------
(***************************************************************************)
(* The room panel for any number of presses, tests, sessions and reports:  *)
(* its types, what TEST COMPLETE on the panel means, and that panel and    *)
(* output show the test that is next.                                      *)
(***************************************************************************)
EXTENDS RoomPanel, WellFoundedInduction, TLAPS

\* One session is active, and what is rendered is the report of a session.
SoloInv == \A j, k \in Active : j = k
ReportsInv == \A p \in Press : pc[p] = "rendering" => target[p] \in Session

TypeInv == TypeOK /\ SoloInv /\ ReportsInv

\* While a report is rendered nothing is active but a path that was started beside it.
RenderInv == Rendering # {} => Active = {} \/ overtaken

\* Nothing was lost and the phone kept out.
Quiet == lost = 0 /\ \A k \in Session : touched[k] = 0

\* What the panel names is the last session begun.
PathOK ==
    /\ \A k \in Session : status[k] = "absent" <=> k > label
    /\ \A k \in Session : k < label => status[k] \in {"completed", "retired"}
    /\ label # 0 => status[label] \in {"in_progress", "completed"}

\* Whoever takes it for completed is right.
Done(k) == k # 0 /\ status[k] = "completed"
DoneOK ==
    /\ polled.status = "completed" => Done(label)
    /\ Rendering # {} => Done(label) \/ overtaken
    /\ text.kind = "complete" => Done(text.of) \/ overtaken

PathInv == TypeInv /\ RenderInv /\ (Quiet => PathOK /\ DoneOK)

\* A press with which nothing has interfered is the only one, and what it asked
\* for is still true.
CalmInv == \A p \in Press : calm[p] /\ pc[p] # "idle" =>
    /\ \A q \in Press : pc[q] # "idle" => q = p
    /\ pc[p] = "settle" => polled = Status

\* While no call was lost and the phone kept out of the session that is active:
\* none but an answer on its way can make what was polled wrong, and none but a
\* step on its way what the output shows, or a report beside which it was started.
Fresh == lost = 0 /\ Current # 0 /\ touched[Current] = 0
StepOK ==
    /\ status[Current] = "in_progress"
    /\ (\A p \in Press : pc[p] # "refresh") => polled.next = NextTest(Current)
    /\ (\A p \in Press : pc[p] \notin {"refresh", "settle"}) =>
          pattern = polled.next \/ NextTest(Current) = 0 \/ overtaken
StepInv == TypeInv /\ RenderInv /\ (Fresh => StepOK)

-----------------------------------------------------------------------------
(* First and last.                                                         *)

\* A set of naturals with a member has a first one.
LEMMA FirstOf ==
    ASSUME NEW S \in SUBSET Nat, S # {}
    PROVE  Min(S) \in S /\ \A t \in S : Min(S) <= t
PROOF
<1> DEFINE R == OpToRel(<, Nat)
<1>1. IsWellFoundedOn(R, Nat)
    BY NatLessThanWellFounded
<1>2. PICK x \in S : \A y \in S : <<y, x>> \notin R
    <2> HIDE DEF R
    <2> QED
        BY <1>1, WFMin
<1>3. \A y \in S : ~(y < x)
    BY <1>2 DEF OpToRel
<1>4. \A y \in S : x <= y
    BY <1>3
<1> QED
    BY <1>4 DEF Min

\* And a last one, when they are bounded.
LEMMA LastOf ==
    ASSUME NEW n \in Nat, NEW S \in SUBSET (0..n), S # {}
    PROVE  Max(S) \in S /\ \A t \in S : Max(S) >= t
PROOF
<1>1. PICK T : T = {n - s : s \in S}
    OBVIOUS
<1>2. T \in SUBSET Nat /\ T # {}
    <2>1. \A s \in S : s \in 0..n /\ n - s \in Nat
        OBVIOUS
    <2> QED
        BY <1>1, <2>1
<1>3. PICK m \in T : \A t \in T : m <= t
    BY <1>2, FirstOf
<1>4. PICK x \in S : m = n - x
    BY <1>1, <1>3
<1>5. \A y \in S : x >= y
    <2> SUFFICES ASSUME NEW y \in S PROVE x >= y
        OBVIOUS
    <2>1. n - y \in T /\ x \in 0..n /\ y \in 0..n
        BY <1>1
    <2>2. m <= n - y
        BY <1>3, <2>1
    <2> QED
        BY <1>4, <2>1, <2>2
<1> QED
    BY <1>5 DEF Max

-----------------------------------------------------------------------------
(* The appliance.                                                          *)

\* The bounds, and what sessions and tests are.
LEMMA Bounds ==
    /\ NTests \in Nat /\ NTests >= 1 /\ MaxSessions \in Nat /\ MaxReports \in Nat
    /\ MaxLost \in Nat /\ MaxPhone \in Nat
    /\ Test \in SUBSET Nat /\ 0 \notin Test /\ Identify \in Test
    /\ Session \in SUBSET Nat /\ 0 \notin Session
    /\ Session \cup {0} = 0..MaxSessions
PROOF
    BY PanelBounds DEF Test, Session, Identify

\* The session an alias works on is the one that is active.
LEMMA CurrentIs ==
    ASSUME TypeInv
    PROVE  /\ Current \in Session \cup {0}
           /\ Current = 0 <=> Active = {}
           /\ \A k \in Active : k = Current /\ k # 0
           /\ Current # 0 => /\ Current \in Session /\ Current \in Active
                             /\ status[Current] \in {"in_progress", "review"}
PROOF
<1>1. Active \subseteq Session
    BY DEF Active, Of
<1>2. CASE Active = {}
    BY <1>2 DEF Current
<1>3. ASSUME NEW c \in Active PROVE Current = c
    <2>1. Active = {c}
        BY <1>3 DEF TypeInv, SoloInv
    <2>2. Max({c}) = c
        <3>1. c \in Nat /\ c >= c
            BY <1>1, Bounds
        <3> QED
            BY <3>1 DEF Max
    <2> QED
        BY <2>1, <2>2 DEF Current
<1>4. \A k \in Active : k \in Session /\ k # 0 /\ status[k] \in {"in_progress", "review"}
    BY Bounds DEF Active, Of
<1> QED
    BY <1>2, <1>3, <1>4

\* What /status says of the tests of a session.
LEMMA NextIs ==
    ASSUME TypeInv, NEW k \in Session
    PROVE  /\ NextTest(k) \in Test \cup {0}
           /\ NextTest(k) = 0 <=> answered[k] = Test
PROOF
<1>1. answered[k] \subseteq Test /\ k # 0
    BY Bounds DEF TypeInv, TypeOK
<1>2. CASE answered[k] = Test
    BY <1>2 DEF NextTest
<1>3. CASE answered[k] # Test
    <2>1. Test \ answered[k] \in SUBSET Nat /\ Test \ answered[k] # {}
        BY <1>1, <1>3, Bounds
    <2>2. Min(Test \ answered[k]) \in Test
        BY <2>1, FirstOf
    <2> QED
        BY <1>1, <1>3, <2>2, Bounds DEF NextTest
<1> QED
    BY <1>2, <1>3

\* Which session it says it of.
LEMMA ReportedIs ==
    ASSUME TypeInv
    PROVE  /\ InProgress \in Session \cup {0}
           /\ InProgress # 0 => status[InProgress] = "in_progress"
           /\ \A k \in Session : status[k] = "in_progress" => InProgress = k
           /\ Reported \in Session \cup {0}
           /\ InProgress # 0 => Reported = InProgress
           /\ InProgress = 0 /\ Reported # 0 => status[Reported] = "completed"
           /\ InProgress = 0 => \A k \in Session : status[k] = "completed" => k <= Reported
PROOF
<1>1. ASSUME NEW st
      PROVE  /\ Max(Of({st}) \cup {0}) \in Of({st}) \cup {0}
             /\ \A t \in Of({st}) \cup {0} : Max(Of({st}) \cup {0}) >= t
    <2>1. Of({st}) \cup {0} \in SUBSET (0..MaxSessions) /\ Of({st}) \cup {0} # {}
        BY Bounds DEF Of
    <2> QED
        BY <2>1, Bounds, LastOf
<1>2. /\ InProgress \in Of({"in_progress"}) \cup {0}
      /\ \A t \in Of({"in_progress"}) \cup {0} : InProgress >= t
    BY <1>1 DEF InProgress
<1>3. InProgress # 0 => status[InProgress] = "in_progress" /\ InProgress \in Session
    BY <1>2 DEF Of
<1>4. ASSUME NEW k \in Session, status[k] = "in_progress" PROVE InProgress = k
    <2>1. k \in Active /\ k > 0 /\ k \in Of({"in_progress"})
        BY <1>4, Bounds DEF Active, Of
    <2>2. InProgress >= k /\ k \in Nat
        BY <1>2, <2>1, Bounds
    <2>3. InProgress \in Active
        BY <1>3, <2>1, <2>2 DEF Active, Of
    <2> QED
        BY <2>1, <2>3 DEF TypeInv, SoloInv
<1>5. CASE InProgress # 0
    BY <1>3, <1>4, <1>5 DEF Reported
<1>6. CASE InProgress = 0
    <2>1. Reported = Max(Of({"completed"}) \cup {0})
        BY <1>6 DEF Reported
    <2>2. /\ Reported \in Of({"completed"}) \cup {0}
          /\ \A t \in Of({"completed"}) \cup {0} : Reported >= t
        BY <1>1, <2>1
    <2>3. Reported \in Session \cup {0} /\ (Reported # 0 => status[Reported] = "completed")
        BY <2>2 DEF Of
    <2>4. \A k \in Session : status[k] = "completed" => k <= Reported
        <3> SUFFICES ASSUME NEW k \in Session, status[k] = "completed" PROVE k <= Reported
            OBVIOUS
        <3>1. k \in Of({"completed"}) /\ k \in Nat /\ Reported \in Nat
            BY <2>3, Bounds DEF Of
        <3> QED
            BY <2>2, <3>1
    <2> QED
        BY <1>4, <1>6, <2>3, <2>4
<1> QED
    BY <1>5, <1>6

\* The answer of /status.
LEMMA StatusTyped ==
    ASSUME TypeInv
    PROVE  /\ Status \in [next : Test \cup {0}, status : {"none", "in_progress", "completed"}]
           /\ Status.next = NextTest(InProgress)
           /\ Status.status = IF Reported = 0 THEN "none" ELSE status[Reported]
           /\ Current # 0 /\ status[Current] = "in_progress" =>
                 Status.next = NextTest(Current)
PROOF
<1>1. NextTest(InProgress) \in Test \cup {0}
    <2>1. CASE InProgress = 0
        BY <2>1 DEF NextTest
    <2>2. CASE InProgress \in Session
        BY <2>2, NextIs
    <2> QED
        BY <2>1, <2>2, ReportedIs
<1>2. Reported = 0 \/ status[Reported] \in {"in_progress", "completed"}
    BY ReportedIs
<1>3. Current # 0 /\ status[Current] = "in_progress" => InProgress = Current
    BY CurrentIs, ReportedIs
<1> QED
    BY <1>1, <1>2, <1>3 DEF Status

\* A new session retires the one that was active.
LEMMA BeginGoes ==
    ASSUME TypeInv, Absent # {}, NEW k, k = Min(Absent), BeginSession(k)
    PROVE  /\ k \in Session /\ status[k] = "absent"
           /\ \A s \in Session : status[s] = "absent" => k <= s
           /\ status' \in [Session -> {"absent", "in_progress", "review",
                                       "completed", "retired"}]
           /\ \A s \in Session :
                 status'[s] = IF s = k THEN "in_progress"
                              ELSE IF s \in Active THEN "retired" ELSE status[s]
           /\ Active' = {k}
PROOF
<1>1. Absent \in SUBSET Nat
    BY Bounds DEF Absent, Of
<1>2. k \in Absent /\ \A s \in Absent : k <= s
    BY <1>1, FirstOf
<1>3. k \in Session /\ status[k] = "absent" /\ \A s \in Session : status[s] = "absent" => k <= s
    BY <1>2 DEF Absent, Of
<1>4. \A s \in Session : status'[s] = IF s = k THEN "in_progress"
                                      ELSE IF s \in Active THEN "retired" ELSE status[s]
    BY DEF BeginSession
<1>5. Active' = {k}
    BY <1>3, <1>4 DEF Active, Of
<1>6. status' \in [Session -> {"absent", "in_progress", "review",
                               "completed", "retired"}]
    BY DEF BeginSession, TypeInv, TypeOK
<1> QED
    BY <1>3, <1>4, <1>5, <1>6

\* An answer goes to the session that is active, which is in progress then.
LEMMA RecordGoes ==
    ASSUME TypeInv, NEW t \in Test, RecordAttempt(t)
    PROVE  /\ status' \in [Session -> {"absent", "in_progress", "review",
                                       "completed", "retired"}]
           /\ answered' \in [Session -> SUBSET Test]
           /\ Active' = Active
           /\ \A k \in Session : status'[k] = IF k = Current THEN "in_progress" ELSE status[k]
PROOF
<1>1. CASE Current = 0
    BY <1>1, CurrentIs, Bounds DEF RecordAttempt, TypeInv, TypeOK, Active, Of
<1>2. CASE Current # 0
    <2>1. Current \in Session /\ Current \in Active
        BY <1>2, CurrentIs
    <2>2. /\ answered' = [answered EXCEPT ![Current] = answered[Current] \cup {t}]
          /\ status' = [status EXCEPT ![Current] = "in_progress"]
        BY <1>2 DEF RecordAttempt
    <2>3. \A k \in Session : status'[k] = IF k = Current THEN "in_progress" ELSE status[k]
        BY <2>2 DEF TypeInv, TypeOK
    <2>4. Active' = Active
        BY <2>1, <2>3 DEF Active, Of
    <2> QED
        BY <2>1, <2>2, <2>3, <2>4 DEF TypeInv, TypeOK
<1> QED
    BY <1>1, <1>2

\* A session is completed when every test of it is answered; else nothing is.
LEMMA CompleteGoes ==
    ASSUME TypeInv, CompleteSession
    PROVE  \/ /\ Current # 0 /\ NextTest(Current) = 0
              /\ status' = [status EXCEPT ![Current] = "completed"]
              /\ polled' = [polled EXCEPT !.status = "completed"]
              /\ pattern' = Identify
              /\ status' \in [Session -> {"absent", "in_progress", "review",
                                          "completed", "retired"}]
              /\ Active' = {}
           \/ /\ Current = 0 \/ NextTest(Current) # 0
              /\ UNCHANGED <<status, polled, pattern>> /\ Active' = Active
PROOF
<1>1. CASE Current # 0 /\ NextTest(Current) = 0
    <2>1. /\ status' = [status EXCEPT ![Current] = "completed"]
          /\ polled' = [polled EXCEPT !.status = "completed"]
          /\ pattern' = Identify
        BY <1>1 DEF CompleteSession
    <2>2. Current \in Session /\ \A k \in Active : k = Current
        BY <1>1, CurrentIs
    <2>3. \A k \in Session : status'[k] = IF k = Current THEN "completed" ELSE status[k]
        BY <2>1 DEF TypeInv, TypeOK
    <2>4. Active' = {}
        BY <2>2, <2>3 DEF Active, Of
    <2>5. status' \in [Session -> {"absent", "in_progress", "review",
                                   "completed", "retired"}]
        BY <2>1 DEF TypeInv, TypeOK
    <2> QED
        BY <1>1, <2>1, <2>4, <2>5
<1>2. CASE ~(Current # 0 /\ NextTest(Current) = 0)
    BY <1>2 DEF CompleteSession, Active, Of
<1> QED
    BY <1>1, <1>2

\* Nothing changes for anybody else.
LEMMA StatusSame ==
    ASSUME UNCHANGED <<status, answered>>
    PROVE  /\ Status' = Status /\ Current' = Current /\ Active' = Active
           /\ \A k : NextTest(k)' = NextTest(k)
PROOF
    BY DEF Status, Reported, InProgress, NextTest, Current, Active, Of


-----------------------------------------------------------------------------
(* Types.                                                                  *)

\* The types of what the appliance keeps.
SessionsTyped ==
    /\ status \in [Session -> {"absent", "in_progress", "review",
                               "completed", "retired"}]
    /\ answered \in [Session -> SUBSET Test]
    /\ SoloInv

\* A coroutine that goes on short of a rendering needs no session.
LEMMA RenderingKept ==
    ASSUME TypeInv, NEW p \in Press, NEW to, to # "rendering",
           Goto(p, to), UNCHANGED target
    PROVE  ReportsInv'
PROOF
<1>1. \A q \in Press : pc'[q] = IF q = p THEN to ELSE pc[q]
    BY DEF Goto, TypeInv, TypeOK
<1> QED
    BY <1>1 DEF ReportsInv, TypeInv

\* The stage a coroutine comes to is a stage.
LEMMA GotoTyped ==
    ASSUME TypeInv, NEW p \in Press, NEW to \in {"idle", "refresh", "settle",
               "refresh_result", "settle_result", "rendering"}, Goto(p, to)
    PROVE  /\ pc' \in [Press -> {"idle", "refresh", "settle", "refresh_result",
                                 "settle_result", "rendering"}]
           /\ \A q \in Press : pc'[q] = IF q = p THEN to ELSE pc[q]
PROOF
    BY DEF Goto, TypeInv, TypeOK

\* So are the history variables of a call.
LEMMA CallTyped ==
    ASSUME TypeInv
    PROVE  /\ Lost => lost' \in 0..MaxLost /\ lost' # 0 /\ lost' # lost
                      /\ calm' \in [Press -> BOOLEAN]
                      /\ \A q \in Press : ~calm'[q]
           /\ Delivered => lost' \in 0..MaxLost /\ calm' \in [Press -> BOOLEAN]
           /\ \A p : Starts(p) => calm' \in [Press -> BOOLEAN]
PROOF
<1>1. lost \in 0..MaxLost /\ MaxLost \in Nat /\ calm \in [Press -> BOOLEAN]
    BY Bounds DEF TypeInv, TypeOK
<1>2. ASSUME Lost
      PROVE  /\ lost' \in 0..MaxLost /\ lost' # 0 /\ lost' # lost
             /\ calm' \in [Press -> BOOLEAN]
             /\ \A q \in Press : ~calm'[q]
    BY <1>1, <1>2 DEF Lost
<1>3. ASSUME Delivered PROVE lost' \in 0..MaxLost /\ calm' \in [Press -> BOOLEAN]
    BY <1>1, <1>3 DEF Delivered
<1>4. ASSUME NEW p, Starts(p) PROVE calm' \in [Press -> BOOLEAN]
    <2>1. \A q \in Press : (q = p /\ AllIdle) \in BOOLEAN
        BY DEF AllIdle
    <2> QED
        BY <1>4, <2>1 DEF Starts
<1> QED
    BY <1>2, <1>3, <1>4

\* A press is handled from the beginning.
LEMMA PressTyped ==
    ASSUME TypeInv, NEW p \in Press,
           PressStart(p) \/ PressAnswer(p) \/ PressComplete(p)
    PROVE  TypeInv'
PROOF
<1>1. CASE PressStart(p)
    <2>1. Absent # {} /\ Goto(p, "refresh") /\ pc[p] = "idle"
          /\ UNCHANGED <<answered, reports, pattern, text, job, touched, failed>>
        BY <1>1 DEF PressStart, Pressed
    <2>2. /\ status' \in [Session -> {"absent", "in_progress", "review",
                                      "completed", "retired"}]
          /\ SoloInv' /\ label' \in Session \cup {0} /\ overtaken' \in BOOLEAN
          /\ polled' \in [next : Test \cup {0}, status : {"none", "in_progress",
                                                         "completed"}]
          /\ lost' \in 0..MaxLost /\ calm' \in [Press -> BOOLEAN]
        <3>1. CASE Lost /\ label' = 0 /\ UNCHANGED <<status, polled, overtaken>>
            <4>1. Active' = Active
                BY <3>1 DEF Active, Of
            <4> QED
                BY <3>1, <4>1, CallTyped DEF TypeInv, TypeOK, SoloInv
        <3>2. CASE /\ BeginSession(Min(Absent))
                   /\ polled' = [polled EXCEPT !.status = "in_progress"]
                   /\ label' = Min(Absent)
                   /\ overtaken' = (overtaken \/ Rendering # {})
                   /\ Starts(p) /\ UNCHANGED lost
            <4>1. PICK k : k = Min(Absent)
                OBVIOUS
            <4>2. /\ k \in Session /\ Active' = {k}
                  /\ status' \in [Session -> {"absent", "in_progress", "review",
                                              "completed", "retired"}]
                BY <2>1, <3>2, <4>1, BeginGoes
            <4>3. polled' \in [next : Test \cup {0}, status : {"none", "in_progress",
                                                             "completed"}]
                BY <3>2 DEF TypeInv, TypeOK
            <4> QED
                BY <3>2, <4>1, <4>2, <4>3, CallTyped DEF TypeInv, TypeOK, SoloInv
        <3> QED
            BY <1>1, <3>1, <3>2 DEF PressStart
    <2>3. ReportsInv'
        BY <2>1, RenderingKept DEF job
    <2>4. pc' \in [Press -> {"idle", "refresh", "settle", "refresh_result",
                             "settle_result", "rendering"}]
        BY <2>1, GotoTyped
    <2>5. TypeOK'
        BY <2>1, <2>2, <2>4 DEF TypeInv, TypeOK, job, history
    <2> QED
        BY <2>2, <2>3, <2>5 DEF TypeInv
<1>2. CASE PressAnswer(p)
    <2>1. /\ polled.next # 0 /\ Goto(p, "refresh") /\ pc[p] = "idle"
          /\ UNCHANGED <<reports, pattern, polled, label, text, job, history>>
        BY <1>2 DEF PressAnswer, Pressed
    <2>2. /\ SessionsTyped' /\ lost' \in 0..MaxLost /\ calm' \in [Press -> BOOLEAN]
        <3>1. CASE Lost /\ UNCHANGED <<status, answered>>
            <4>1. Active' = Active
                BY <3>1 DEF Active, Of
            <4> QED
                BY <3>1, <4>1, CallTyped DEF TypeInv, TypeOK, SoloInv, SessionsTyped
        <3>2. CASE RecordAttempt(polled.next) /\ Starts(p) /\ UNCHANGED lost
            <4>1. polled.next \in Test
                BY <2>1 DEF TypeInv, TypeOK
            <4>2. /\ status' \in [Session -> {"absent", "in_progress", "review",
                                              "completed", "retired"}]
                  /\ answered' \in [Session -> SUBSET Test] /\ Active' = Active
                BY <3>2, <4>1, RecordGoes
            <4> QED
                BY <3>2, <4>2, CallTyped DEF TypeInv, TypeOK, SoloInv, SessionsTyped
        <3> QED
            BY <1>2, <3>1, <3>2 DEF PressAnswer
    <2>3. ReportsInv'
        BY <2>1, RenderingKept DEF job
    <2>4. pc' \in [Press -> {"idle", "refresh", "settle", "refresh_result",
                             "settle_result", "rendering"}]
        BY <2>1, GotoTyped
    <2>5. TypeOK'
        BY <2>1, <2>2, <2>4 DEF TypeInv, TypeOK, SessionsTyped, job, history
    <2> QED
        BY <2>2, <2>3, <2>5 DEF TypeInv, SessionsTyped
<1>3. CASE PressComplete(p)
    <2>1. /\ Goto(p, "refresh_result") /\ pc[p] = "idle"
          /\ UNCHANGED <<answered, reports, label, text, job, history>>
        BY <1>3 DEF PressComplete, Pressed
    <2>2. /\ SessionsTyped' /\ lost' \in 0..MaxLost /\ calm' \in [Press -> BOOLEAN]
          /\ polled' \in [next : Test \cup {0}, status : {"none", "in_progress",
                                                         "completed"}]
          /\ pattern' \in Test \cup {0}
        <3>1. CASE Lost /\ UNCHANGED <<status, polled, pattern>>
            <4>1. Active' = Active
                BY <3>1 DEF Active, Of
            <4> QED
                BY <2>1, <3>1, <4>1, CallTyped DEF TypeInv, TypeOK, SoloInv, SessionsTyped
        <3>2. CASE CompleteSession /\ Starts(p) /\ UNCHANGED lost
            <4>1. SessionsTyped'
                BY <2>1, <3>2, CompleteGoes DEF TypeInv, TypeOK, SoloInv, SessionsTyped
            <4>2. /\ polled' = polled \/ polled' = [polled EXCEPT !.status = "completed"]
                  /\ pattern' = pattern \/ pattern' = Identify
                BY <3>2, CompleteGoes
            <4> QED
                BY <3>2, <4>1, <4>2, Bounds, CallTyped DEF TypeInv, TypeOK
        <3> QED
            BY <1>3, <3>1, <3>2 DEF PressComplete
    <2>3. ReportsInv'
        BY <2>1, RenderingKept DEF job
    <2>4. pc' \in [Press -> {"idle", "refresh", "settle", "refresh_result",
                             "settle_result", "rendering"}]
        BY <2>1, GotoTyped
    <2>5. TypeOK'
        BY <2>1, <2>2, <2>4 DEF TypeInv, TypeOK, SessionsTyped, job, history
    <2> QED
        BY <2>2, <2>3, <2>5 DEF TypeInv, SessionsTyped
<1> QED
    BY <1>1, <1>2, <1>3

\* And to its end: the status it asks for, the step it opens, what it shows.
LEMMA GoesOnTyped ==
    ASSUME TypeInv, NEW p \in Press, \/ Refresh(p) \/ OpenStep(p)
                                     \/ AutoFinish(p) \/ ShowBlocked(p)
    PROVE  TypeInv'
PROOF
<1>1. CASE Refresh(p)
    <2>1. PICK to \in {"settle", "settle_result"} : Goto(p, to)
        BY <1>1 DEF Refresh
    <2>2. /\ pc[p] # "rendering"
          /\ UNCHANGED <<status, answered, reports, pattern, label, text, job, history>>
        BY <1>1 DEF Refresh, appliance
    <2>3. polled' = Status \/ polled' = polled
        BY <1>1 DEF Refresh
    <2>4. lost' \in 0..MaxLost /\ calm' \in [Press -> BOOLEAN]
        BY <1>1, CallTyped DEF Refresh
    <2>5. ReportsInv'
        BY <2>1, <2>2, RenderingKept DEF job
    <2>6. pc' \in [Press -> {"idle", "refresh", "settle", "refresh_result",
                             "settle_result", "rendering"}]
        BY <2>1, GotoTyped
    <2>7. TypeOK'
        BY <2>2, <2>3, <2>4, <2>6, StatusTyped DEF TypeInv, TypeOK, job, history
    <2>8. SoloInv'
        BY <2>2 DEF TypeInv, SoloInv, Active, Of
    <2> QED
        BY <2>5, <2>7, <2>8 DEF TypeInv
<1>2. CASE OpenStep(p)
    <2>1. /\ Goto(p, "idle") /\ pc[p] # "rendering" /\ polled.next # 0
          /\ UNCHANGED <<status, answered, reports, polled, label, job, touched, failed>>
          /\ overtaken' = (overtaken /\ Rendering # {})
          /\ pattern' = pattern \/ pattern' = polled.next
          /\ text' = [kind |-> "step", test |-> polled.next, of |-> label]
        BY <1>2 DEF OpenStep
    <2>2. lost' \in 0..MaxLost /\ calm' \in [Press -> BOOLEAN]
        BY <1>2, CallTyped DEF OpenStep
    <2>3. ReportsInv'
        BY <2>1, RenderingKept DEF job
    <2>4. pc' \in [Press -> {"idle", "refresh", "settle", "refresh_result",
                             "settle_result", "rendering"}]
        BY <2>1, GotoTyped
    <2>5. TypeOK'
        BY <2>1, <2>2, <2>4 DEF TypeInv, TypeOK, job, history
    <2>6. SoloInv'
        BY <2>1 DEF TypeInv, SoloInv, Active, Of
    <2> QED
        BY <2>3, <2>5, <2>6 DEF TypeInv
<1>3. CASE AutoFinish(p)
    <2>1. /\ Goto(p, "refresh_result") /\ pc[p] # "rendering"
          /\ UNCHANGED <<answered, reports, label, text, job, history>>
        BY <1>3 DEF AutoFinish
    <2>2. lost' \in 0..MaxLost /\ calm' \in [Press -> BOOLEAN]
        BY <1>3, CallTyped DEF AutoFinish
    <2>3. SessionsTyped'
        <3>1. CASE CompleteSession
            BY <2>1, <3>1, CompleteGoes DEF TypeInv, TypeOK, SoloInv, SessionsTyped
        <3>2. CASE UNCHANGED status
            BY <2>1, <3>2 DEF TypeInv, TypeOK, SoloInv, SessionsTyped, Active, Of
        <3> QED
            BY <1>3, <3>1, <3>2 DEF AutoFinish
    <2>4. /\ polled' = polled \/ polled' = [polled EXCEPT !.status = "completed"]
          /\ pattern' = pattern \/ pattern' = Identify
        BY <1>3, CompleteGoes DEF AutoFinish
    <2>5. ReportsInv'
        BY <2>1, RenderingKept DEF job
    <2>6. pc' \in [Press -> {"idle", "refresh", "settle", "refresh_result",
                             "settle_result", "rendering"}]
        BY <2>1, GotoTyped
    <2>7. TypeOK'
        BY <2>1, <2>2, <2>3, <2>4, <2>6, Bounds DEF TypeInv, TypeOK, SessionsTyped, job, history
    <2> QED
        BY <2>3, <2>5, <2>7 DEF TypeInv, SessionsTyped
<1>4. CASE ShowBlocked(p)
    <2>1. /\ Goto(p, "idle") /\ pc[p] # "rendering"
          /\ UNCHANGED <<status, answered, reports, pattern, polled, label, job,
                         calm, lost, history>>
          /\ text' = [kind |-> "blocked", test |-> 0, of |-> label]
        BY <1>4 DEF ShowBlocked, Show, appliance
    <2>2. ReportsInv'
        BY <2>1, RenderingKept DEF job
    <2>3. pc' \in [Press -> {"idle", "refresh", "settle", "refresh_result",
                             "settle_result", "rendering"}]
        BY <2>1, GotoTyped
    <2>4. TypeOK'
        BY <2>1, <2>3 DEF TypeInv, TypeOK, job, history
    <2>5. SoloInv'
        BY <2>1 DEF TypeInv, SoloInv, Active, Of
    <2> QED
        BY <2>2, <2>4, <2>5 DEF TypeInv
<1> QED
    BY <1>1, <1>2, <1>3, <1>4


\* A report that is to be rendered is one of a session; one that is rendered has
\* the revision that was counted for it.
LEMMA RenderTyped ==
    ASSUME TypeInv, NEW p \in Press,
           GenerateReport(p) \/ Rendered(p) \/ RenderCollides(p) \/ RenderFails(p)
    PROVE  TypeInv'
PROOF
<1>1. CASE GenerateReport(p)
    <2>1. UNCHANGED <<status, answered, reports, pattern, polled, label, history>>
        BY <1>1 DEF GenerateReport, appliance
    <2>2. lost' \in 0..MaxLost /\ calm' \in [Press -> BOOLEAN]
        BY <1>1, CallTyped DEF GenerateReport
    <2>3. SoloInv'
        BY <2>1 DEF TypeInv, SoloInv, Active, Of
    <2>4. CASE Show("complete") /\ Goto(p, "idle") /\ UNCHANGED job
        <3>1. ReportsInv'
            BY <2>4, RenderingKept DEF job
        <3>2. pc' \in [Press -> {"idle", "refresh", "settle", "refresh_result",
                                 "settle_result", "rendering"}]
            BY <2>4, GotoTyped
        <3>3. TypeOK'
            BY <2>1, <2>2, <2>4, <3>2 DEF TypeInv, TypeOK, Show, job, history
        <3> QED
            BY <2>3, <3>1, <3>3 DEF TypeInv
    <2>5. ASSUME NEW k \in Session, reports[k] < MaxReports,
                 target' = [target EXCEPT ![p] = k],
                 number' = [number EXCEPT ![p] = reports[k] + 1],
                 Goto(p, "rendering"), UNCHANGED text
          PROVE  TypeInv'
        <3>1. /\ pc' \in [Press -> {"idle", "refresh", "settle", "refresh_result",
                                    "settle_result", "rendering"}]
              /\ \A q \in Press : pc'[q] = IF q = p THEN "rendering" ELSE pc[q]
            BY <2>5, GotoTyped
        <3>2. \A q \in Press : target'[q] = IF q = p THEN k ELSE target[q]
            BY <2>5 DEF TypeInv, TypeOK
        <3>3. ReportsInv'
            BY <3>1, <3>2 DEF TypeInv, ReportsInv
        <3>4. reports[k] + 1 \in 0..MaxReports
            BY <2>5, Bounds DEF TypeInv, TypeOK
        <3>5. TypeOK'
            BY <2>1, <2>2, <2>5, <3>1, <3>4 DEF TypeInv, TypeOK, history
        <3> QED
            BY <2>3, <3>3, <3>5 DEF TypeInv
    <2> QED
        <3>1. CurrentOrCompleted \in Session \cup {0}
            <4>1. /\ Of({"completed"}) \cup {0} \in SUBSET (0..MaxSessions)
                  /\ Of({"completed"}) \cup {0} # {}
                BY Bounds DEF Of
            <4>2. Max(Of({"completed"}) \cup {0}) \in Session \cup {0}
                BY <4>1, Bounds, LastOf DEF Of
            <4> QED
                BY <4>2, CurrentIs DEF CurrentOrCompleted
        <3>2. PICK k : k = CurrentOrCompleted
            OBVIOUS
        <3>3. \/ Show("complete") /\ Goto(p, "idle") /\ UNCHANGED job
              \/ /\ k # 0 /\ reports[k] < MaxReports
                 /\ target' = [target EXCEPT ![p] = k]
                 /\ number' = [number EXCEPT ![p] = reports[k] + 1]
                 /\ Goto(p, "rendering") /\ UNCHANGED text
            BY <1>1, <3>2 DEF GenerateReport
        <3> QED
            BY <2>4, <2>5, <3>1, <3>2, <3>3
<1>2. CASE Rendered(p) \/ RenderCollides(p) \/ RenderFails(p)
    <2>1. /\ pc[p] = "rendering" /\ Goto(p, "idle")
          /\ target' = [target EXCEPT ![p] = 0] /\ number' = [number EXCEPT ![p] = 0]
          /\ text' = [kind |-> "complete", test |-> 0, of |-> label]
          /\ UNCHANGED <<status, answered, polled, label, calm, lost, touched, overtaken>>
        BY <1>2 DEF Rendered, RenderCollides, RenderFails, RenderEnds, Show
    <2>2. target[p] \in Session /\ number[p] \in 0..MaxReports
        BY <2>1 DEF TypeInv, TypeOK, ReportsInv
    <2>3. /\ reports' \in [Session -> 0..MaxReports]
          /\ pattern' \in Test \cup {0}
          /\ failed' \in SUBSET Session
        BY <1>2, <2>2 DEF Rendered, RenderCollides, RenderFails, TypeInv, TypeOK
    <2>4. /\ pc' \in [Press -> {"idle", "refresh", "settle", "refresh_result",
                                "settle_result", "rendering"}]
          /\ \A q \in Press : pc'[q] = IF q = p THEN "idle" ELSE pc[q]
        BY <2>1, GotoTyped
    <2>5. \A q \in Press : target'[q] = IF q = p THEN 0 ELSE target[q]
        BY <2>1 DEF TypeInv, TypeOK
    <2>6. ReportsInv'
        BY <2>4, <2>5 DEF TypeInv, ReportsInv
    <2>7. 0 \in 0..MaxReports
        BY Bounds
    <2>8. TypeOK'
        BY <2>1, <2>3, <2>4, <2>7 DEF TypeInv, TypeOK
    <2>9. SoloInv'
        BY <2>1 DEF TypeInv, SoloInv, Active, Of
    <2> QED
        BY <2>6, <2>8, <2>9 DEF TypeInv
<1> QED
    BY <1>1, <1>2

\* The phone, and the poll.
LEMMA OutsideTyped ==
    ASSUME TypeInv, Poll \/ \E k \in Session : PhoneReview(k) \/ PhoneAnswer(k)
    PROVE  TypeInv'
PROOF
<1>1. CASE Poll
    <2>1. /\ polled' = Status
          /\ UNCHANGED <<status, answered, reports, pattern, label, text, pc, job,
                         calm, lost, history>>
        BY <1>1 DEF Poll, appliance
    <2>2. TypeOK'
        BY <2>1, StatusTyped DEF TypeInv, TypeOK, job, history
    <2> QED
        BY <2>1, <2>2 DEF TypeInv, SoloInv, Active, Of, ReportsInv, job
<1>2. ASSUME NEW k \in Session, PhoneReview(k) \/ PhoneAnswer(k) PROVE TypeInv'
    <2>1. /\ Phone(k) /\ touched[k] < MaxPhone
          /\ touched' = [touched EXCEPT ![k] = touched[k] + 1]
          /\ calm' = [p \in Press |-> FALSE]
          /\ UNCHANGED <<reports, pattern, polled, label, text, pc, job, lost, failed,
                         overtaken>>
        BY <1>2 DEF PhoneReview, PhoneAnswer, Phone
    <2>2. SessionsTyped'
        <3>1. CASE PhoneReview(k)
            <4>1. /\ status[k] = "in_progress" /\ status' = [status EXCEPT ![k] = "review"]
                  /\ UNCHANGED answered
                BY <3>1 DEF PhoneReview
            <4>2. \A s \in Session : status'[s] = IF s = k THEN "review" ELSE status[s]
                BY <4>1 DEF TypeInv, TypeOK
            <4>3. Active' = Active
                BY <4>1, <4>2 DEF Active, Of
            <4> QED
                BY <4>1, <4>3 DEF TypeInv, TypeOK, SoloInv, SessionsTyped
        <3>2. CASE PhoneAnswer(k)
            <4>1. PICK t \in Test : RecordAttempt(t)
                BY <3>2 DEF PhoneAnswer
            <4> QED
                BY <4>1, RecordGoes DEF TypeInv, SoloInv, SessionsTyped
        <3> QED
            BY <1>2, <3>1, <3>2
    <2>3. touched' \in [Session -> 0..MaxPhone]
        <3>1. touched[k] + 1 \in 0..MaxPhone
            BY <2>1, Bounds DEF TypeInv, TypeOK
        <3> QED
            BY <2>1, <3>1 DEF TypeInv, TypeOK
    <2>4. ReportsInv'
        BY <2>1 DEF TypeInv, ReportsInv, job
    <2>5. TypeOK'
        BY <2>1, <2>2, <2>3 DEF TypeInv, TypeOK, SessionsTyped, job, history
    <2> QED
        BY <2>2, <2>4, <2>5 DEF TypeInv, SessionsTyped
<1> QED
    BY <1>1, <1>2

\* In the beginning no session is there and no button pressed.
LEMMA TypeInit == Init => TypeInv
PROOF
<1> SUFFICES ASSUME Init PROVE TypeInv
    OBVIOUS
<1>3. ReportsInv
    BY DEF Init, ReportsInv
<1>4. SoloInv
    BY DEF Init, SoloInv, Active, Of
<1>5. 0 \in 0..MaxReports /\ 0 \in 0..MaxLost /\ 0 \in 0..MaxPhone
    BY Bounds
<1>6. TypeOK
    BY <1>5, Bounds DEF Init, TypeOK
<1> QED
    BY <1>3, <1>4, <1>6 DEF TypeInv

\* No step gives a variable a value it may not have.
LEMMA TypeStep == TypeInv /\ [Next]_vars => TypeInv'
PROOF
<1> SUFFICES ASSUME TypeInv, [Next]_vars PROVE TypeInv'
    OBVIOUS
<1>1. ASSUME NEW p \in Press, PressStart(p) \/ PressAnswer(p) \/ PressComplete(p)
      PROVE  TypeInv'
    BY <1>1, PressTyped
<1>2. ASSUME NEW p \in Press, Continue(p) PROVE TypeInv'
    BY <1>2, GoesOnTyped, RenderTyped DEF Continue
<1>3. CASE Poll \/ \E k \in Session : PhoneReview(k) \/ PhoneAnswer(k)
    BY <1>3, OutsideTyped
<1>4. CASE UNCHANGED vars
    BY <1>4 DEF vars, appliance, job, history, TypeInv, TypeOK, SoloInv, Active, Of, ReportsInv
<1> QED
    BY <1>1, <1>2, <1>3, <1>4 DEF Next

\* No press, call, poll or intervention gives the appliance, the driver or the
\* script a value the code has not; and no session has more revisions than were
\* numbered, although renderings overlap.
THEOREM TypesOfPanel == Spec => []TypeOK
PROOF
<1>1. TypeInv => TypeOK
    BY DEF TypeInv
<1> QED
    BY <1>1, TypeInit, TypeStep, PTL DEF Spec


-----------------------------------------------------------------------------
(* TEST COMPLETE.                                                          *)

\* What starts, ends and answers do to the rendering of reports.
LEMMA RenderStep ==
    ASSUME TypeInv, RenderInv, [Next]_vars
    PROVE  RenderInv'
PROOF
<1>1. ASSUME Active' \subseteq Active, Rendering # {} /\ overtaken => overtaken',
             \A q \in Press : pc'[q] = "rendering" => pc[q] = "rendering"
      PROVE  RenderInv'
    BY <1>1 DEF RenderInv, Rendering
<1>2. ASSUME UNCHANGED status PROVE Active' \subseteq Active
    BY <1>2 DEF Active, Of
<1>3. ASSUME NEW p \in Press, PressStart(p) PROVE RenderInv'
    <2>1. Goto(p, "refresh")
        BY <1>3 DEF PressStart
    <2>2. \A q \in Press : pc'[q] = "rendering" => pc[q] = "rendering"
        BY <2>1, GotoTyped
    <2>3. CASE overtaken' = (overtaken \/ Rendering # {})
        BY <2>2, <2>3 DEF RenderInv, Rendering
    <2>4. CASE UNCHANGED <<status, overtaken>>
        BY <1>1, <1>2, <2>2, <2>4
    <2> QED
        BY <1>3, <2>3, <2>4 DEF PressStart
<1>4. ASSUME NEW p \in Press, PressAnswer(p) PROVE RenderInv'
    <2>1. Goto(p, "refresh") /\ polled.next \in Test
        BY <1>4 DEF PressAnswer, TypeInv, TypeOK
    <2>2. Active' \subseteq Active
        BY <1>2, <1>4, <2>1, RecordGoes DEF PressAnswer
    <2>3. \A q \in Press : pc'[q] = "rendering" => pc[q] = "rendering"
        BY <2>1, GotoTyped
    <2> QED
        BY <1>1, <1>4, <2>2, <2>3 DEF PressAnswer, history
<1>5. ASSUME NEW p \in Press, PressComplete(p) \/ AutoFinish(p) PROVE RenderInv'
    <2>1. Goto(p, "refresh_result")
        BY <1>5 DEF PressComplete, AutoFinish
    <2>2. Active' \subseteq Active
        BY <1>2, <1>5, CompleteGoes DEF PressComplete, AutoFinish
    <2>3. \A q \in Press : pc'[q] = "rendering" => pc[q] = "rendering"
        BY <2>1, GotoTyped
    <2> QED
        BY <1>1, <1>5, <2>2, <2>3 DEF PressComplete, AutoFinish, history
<1>6. ASSUME NEW p \in Press, \/ Refresh(p) \/ OpenStep(p) \/ ShowBlocked(p)
                                \/ Rendered(p) \/ RenderCollides(p) \/ RenderFails(p)
      PROVE  RenderInv'
    <2>1. PICK to \in {"settle", "settle_result", "idle"} : Goto(p, to)
        BY <1>6 DEF Refresh, OpenStep, ShowBlocked, Rendered, RenderCollides, RenderFails,
                    RenderEnds
    <2>2. UNCHANGED status
        BY <1>6 DEF Refresh, OpenStep, ShowBlocked, Rendered, RenderCollides, RenderFails,
                    RenderEnds, appliance
    <2>4. Rendering # {} /\ overtaken => overtaken'
        BY <1>6, Zenon DEF Refresh, OpenStep, ShowBlocked, Rendered, RenderCollides,
                           RenderFails, RenderEnds, history
    <2>3. \A q \in Press : pc'[q] = "rendering" => pc[q] = "rendering"
        BY <2>1, GotoTyped
    <2> QED
        BY <1>1, <1>2, <2>2, <2>3, <2>4
<1>7. ASSUME NEW p \in Press, GenerateReport(p) PROVE RenderInv'
    <2>1. UNCHANGED <<status, overtaken>>
        BY <1>7 DEF GenerateReport, appliance, history
    <2>2. CASE Goto(p, "idle")
        <3>1. \A q \in Press : pc'[q] = "rendering" => pc[q] = "rendering"
            BY <2>2, GotoTyped
        <3> QED
            BY <1>1, <1>2, <2>1, <3>1
    <2>3. CASE status[CurrentOrCompleted] = "completed"
        <3>1. Current = 0
            BY <2>3, CurrentIs DEF CurrentOrCompleted
        <3>2. Active' = {}
            BY <1>2, <2>1, <3>1, CurrentIs
        <3> QED
            BY <3>2 DEF RenderInv
    <2> QED
        BY <1>7, <2>2, <2>3 DEF GenerateReport
<1>8. CASE Poll
    BY <1>1, <1>2, <1>8 DEF Poll, appliance, history
<1>9. ASSUME NEW k \in Session, PhoneReview(k) \/ PhoneAnswer(k) PROVE RenderInv'
    <2>1. UNCHANGED <<pc, overtaken>>
        BY <1>9 DEF PhoneReview, PhoneAnswer, Phone
    <2>2. CASE PhoneReview(k)
        <3>1. status[k] = "in_progress" /\ status' = [status EXCEPT ![k] = "review"]
            BY <2>2 DEF PhoneReview
        <3>2. \A s \in Session : status'[s] = IF s = k THEN "review" ELSE status[s]
            BY <3>1 DEF TypeInv, TypeOK
        <3>3. Active' \subseteq Active
            BY <3>1, <3>2 DEF Active, Of
        <3> QED
            BY <1>1, <2>1, <3>3
    <2>3. CASE PhoneAnswer(k)
        <3>1. Active' \subseteq Active
            BY <2>3, RecordGoes DEF PhoneAnswer
        <3> QED
            BY <1>1, <2>1, <3>1
    <2> QED
        BY <1>9, <2>2, <2>3
<1>10. CASE UNCHANGED vars
    BY <1>1, <1>2, <1>10 DEF vars, appliance, history
<1> QED
    BY <1>3, <1>4, <1>5, <1>6, <1>7, <1>8, <1>9, <1>10 DEF Next, Continue

\* The session the aliases work on is the one the panel names.
LEMMA QuietCurrent ==
    ASSUME TypeInv, PathOK
    PROVE  /\ Current # 0 => Current = label /\ status[label] = "in_progress"
           /\ Status.status = "completed" => Done(label)
           /\ label \in Session \cup {0} /\ label \in Nat
           /\ \A k \in Session : k \in Active => k = label
PROOF
<1>1. label \in Session \cup {0} /\ label \in Nat
    BY Bounds DEF TypeInv, TypeOK
<1>2. ASSUME NEW k \in Session, status[k] \in {"in_progress", "review"}
      PROVE  k = label /\ status[k] = "in_progress"
    <2>1. k \in Nat /\ k # 0
        BY Bounds
    <2>2. ~(k > label) /\ ~(k < label)
        BY <1>2 DEF PathOK
    <2>3. k = label
        BY <1>1, <2>1, <2>2
    <2> QED
        BY <1>2, <2>1, <2>3 DEF PathOK
<1>3. Current # 0 => Current = label /\ status[label] = "in_progress"
    BY <1>2, CurrentIs
<1>4. ASSUME Status.status = "completed" PROVE Done(label)
    <2>1. Reported # 0 /\ status[Reported] = "completed"
        BY <1>4, StatusTyped
    <2>2. InProgress = 0 /\ Reported \in Session
        BY <2>1, ReportedIs
    <2>3. Reported \in Nat /\ ~(Reported > label)
        BY <2>1, <2>2, Bounds DEF PathOK
    <2>4. CASE Reported < label
        <3>1. label # 0 /\ label \in Session
            BY <1>1, <2>3, <2>4
        <3>2. status[label] \in {"in_progress", "completed"}
            BY <3>1 DEF PathOK
        <3>3. status[label] # "in_progress"
            BY <2>2, <3>1, ReportedIs
        <3> QED
            BY <3>1, <3>2, <3>3 DEF Done
    <2>5. CASE Reported = label
        BY <2>1, <2>5 DEF Done
    <2> QED
        BY <1>1, <2>3, <2>4, <2>5
<1> QED
    BY <1>1, <1>2, <1>3, <1>4 DEF Active, Of

\* As long as every session keeps its status.
LEMMA PathKept ==
    ASSUME TypeInv, PathOK, \A k \in Session : status'[k] = status[k], label' = label
    PROVE  PathOK' /\ \A k \in Session \cup {0} : Done(k) => Done(k)'
PROOF
<1>1. label \in Session \cup {0}
    BY DEF TypeInv, TypeOK
<1> QED
    BY <1>1 DEF PathOK, Done

\* A completion is one of the session the panel names.
LEMMA PathComplete ==
    ASSUME TypeInv, PathOK, DoneOK, CompleteSession, UNCHANGED <<label, text, overtaken>>,
           \A q \in Press : pc'[q] = "rendering" => pc[q] = "rendering"
    PROVE  PathOK' /\ DoneOK'
PROOF
<1>1. label \in Session \cup {0} /\ text.of \in Session \cup {0}
    BY DEF TypeInv, TypeOK
<1>2. CASE /\ Current # 0 /\ status' = [status EXCEPT ![Current] = "completed"]
    <2>1. Current = label /\ label \in Session /\ label # 0
        BY <1>2, CurrentIs, QuietCurrent
    <2>2. \A k \in Session : status'[k] = IF k = label THEN "completed" ELSE status[k]
        BY <1>2, <2>1 DEF TypeInv, TypeOK
    <2>3. Done(label)' /\ \A k \in Session \cup {0} : Done(k) => Done(k)'
        BY <2>1, <2>2 DEF Done
    <2>4. PathOK'
        <3>1. ~(label > label) /\ ~(label < label) /\ status[label] # "absent"
            BY <1>2, <2>1, QuietCurrent
        <3> QED
            BY <2>1, <2>2, <3>1 DEF PathOK
    <2>5. text.kind = "complete" => Done(text.of)' \/ overtaken
        BY <1>1, <2>3 DEF DoneOK
    <2> QED
        BY <2>3, <2>4, <2>5 DEF DoneOK, Done
<1>3. CASE UNCHANGED <<status, polled>>
    <2>1. PathOK' /\ \A k \in Session \cup {0} : Done(k) => Done(k)'
        BY <1>3, PathKept
    <2> QED
        BY <1>1, <1>3, <2>1 DEF DoneOK, Done, Rendering
<1> QED
    BY <1>2, <1>3, CompleteGoes

\* The session that starts follows the one the panel named.
LEMMA PathBegins ==
    ASSUME TypeInv, PathOK, DoneOK, Absent # {}, NEW k, k = Min(Absent),
           BeginSession(k), polled' = [polled EXCEPT !.status = "in_progress"],
           label' = k, UNCHANGED text, overtaken' = (overtaken \/ Rendering # {}),
           \A q \in Press : pc'[q] = "rendering" => pc[q] = "rendering"
    PROVE  PathOK' /\ DoneOK'
PROOF
<1>1. /\ k \in Session /\ status[k] = "absent"
      /\ \A s \in Session : status[s] = "absent" => k <= s
      /\ \A s \in Session :
            status'[s] = IF s = k THEN "in_progress"
                         ELSE IF s \in Active THEN "retired" ELSE status[s]
    BY BeginGoes
<1>2. k \in Nat /\ k # 0 /\ k > label /\ label \in Nat /\ label \in Session \cup {0}
    BY <1>1, Bounds, QuietCurrent DEF PathOK
<1>3. ASSUME NEW s \in Session, s > k PROVE status'[s] = "absent"
    <2>1. s \in Nat /\ s # k /\ s > label
        BY <1>2, <1>3, Bounds
    <2>2. status[s] = "absent"
        BY <2>1 DEF PathOK
    <2> QED
        BY <1>1, <2>1, <2>2 DEF Active, Of
<1>4. ASSUME NEW s \in Session, s < k PROVE status'[s] \in {"completed", "retired"}
    <2>1. s \in Nat /\ s # k /\ ~(k <= s)
        BY <1>2, <1>4, Bounds
    <2>2. status[s] # "absent" /\ ~(s > label)
        BY <1>1, <2>1 DEF PathOK
    <2>3. CASE s \in Active
        BY <1>1, <2>1, <2>3
    <2>4. CASE s \notin Active
        <3>1. status'[s] = status[s] /\ status[s] # "in_progress"
            BY <1>1, <2>1, <2>4 DEF Active, Of
        <3>2. s < label \/ s = label
            BY <1>2, <2>1, <2>2
        <3>3. s # 0
            BY Bounds
        <3> QED
            BY <3>1, <3>2, <3>3 DEF PathOK
    <2> QED
        BY <2>3, <2>4
<1>5. status'[k] = "in_progress"
    BY <1>1
<1>6. \A s \in Session : s > k \/ s < k \/ s = k
    BY <1>2, Bounds
<1>7. PathOK'
    <2>1. ASSUME NEW s \in Session PROVE status'[s] = "absent" <=> s > k
        <3>1. s \in Nat
            BY Bounds
        <3> QED
            BY <1>2, <1>3, <1>4, <1>5, <1>6, <3>1
    <2> QED
        BY <1>4, <1>5, <2>1 DEF PathOK
<1>8. text.of \in Session \cup {0} /\ polled'.status = "in_progress"
    BY DEF TypeInv, TypeOK
<1>9. Done(text.of) => Done(text.of)'
    <2> SUFFICES ASSUME Done(text.of) PROVE Done(text.of)'
        OBVIOUS
    <2>1. text.of \in Session /\ status[text.of] = "completed"
        BY <1>8 DEF Done
    <2>2. text.of # k /\ text.of \notin Active
        BY <1>1, <2>1 DEF Active, Of
    <2>3. status'[text.of] = "completed"
        BY <1>1, <2>1, <2>2
    <2>4. text.of # 0 /\ text' = text
        BY <2>1, Bounds
    <2> QED
        BY <2>3, <2>4 DEF Done
<1> QED
    BY <1>7, <1>8, <1>9 DEF DoneOK, Rendering

\* Calls are not found again once lost, and the phone does not undo what it did.
LEMMA QuietBefore ==
    ASSUME TypeInv, [Next]_vars, Quiet'
    PROVE  /\ Quiet /\ ~Lost
           /\ \A k \in Session : ~PhoneReview(k) /\ ~PhoneAnswer(k)
PROOF
<1>1. ~Lost
    BY CallTyped DEF Quiet
<1>2. \A k \in Session : ~PhoneReview(k) /\ ~PhoneAnswer(k)
    <2> SUFFICES ASSUME NEW k \in Session, Phone(k) PROVE FALSE
        BY DEF PhoneReview, PhoneAnswer
    <2>1. touched[k] \in Nat /\ touched'[k] = touched[k] + 1
        BY Bounds DEF Phone, TypeInv, TypeOK
    <2>2. touched'[k] = 0
        BY DEF Quiet
    <2> QED
        BY <2>1, <2>2
<1>3. UNCHANGED <<lost, touched>>
    <2>1. ASSUME NEW p \in Press, PressStart(p) \/ PressAnswer(p) \/ PressComplete(p)
          PROVE  UNCHANGED <<lost, touched>>
        BY <1>1, <2>1 DEF PressStart, PressAnswer, PressComplete, history
    <2>2. ASSUME NEW p \in Press, Continue(p) PROVE UNCHANGED <<lost, touched>>
        BY <1>1, <2>2 DEF Continue, Refresh, OpenStep, AutoFinish, ShowBlocked,
                          GenerateReport, Rendered, RenderCollides, RenderFails, RenderEnds,
                          Delivered, history
    <2>3. CASE Poll \/ UNCHANGED vars
        BY <2>3 DEF Poll, vars, history
    <2> QED
        BY <1>2, <2>1, <2>2, <2>3 DEF Next
<1> QED
    BY <1>1, <1>2, <1>3 DEF Quiet

\* Whoever takes the session for completed is right after every step.
LEMMA PathStep ==
    ASSUME PathInv, [Next]_vars, Quiet'
    PROVE  PathOK' /\ DoneOK'
PROOF
<1>q. /\ TypeInv /\ PathOK /\ DoneOK /\ ~Lost
      /\ \A k \in Session : ~PhoneReview(k) /\ ~PhoneAnswer(k)
    BY QuietBefore DEF PathInv
<1>t. label \in Session \cup {0} /\ text.of \in Session \cup {0}
    BY <1>q DEF TypeInv, TypeOK
<1>1. ASSUME UNCHANGED <<status, label>>,
             polled' = polled \/ polled' = Status,
             \A q \in Press : pc'[q] = "rendering" => pc[q] = "rendering" \/ Done(label),
             \/ text' = text /\ overtaken' = overtaken
             \/ text'.kind # "complete" /\ (Rendering # {} /\ overtaken => overtaken')
             \/ text'.of = label /\ (Done(label) \/ overtaken) /\ overtaken' = overtaken
      PROVE  PathOK' /\ DoneOK'
    <2>1. PathOK' /\ \A k \in Session \cup {0} : Done(k) => Done(k)'
        BY <1>1, <1>q, PathKept
    <2>2. polled'.status = "completed" => Done(label)
        BY <1>1, <1>q, QuietCurrent DEF DoneOK
    <2>3. (\E p \in Press : pc'[p] = "rendering") => Done(label) \/ overtaken'
        BY <1>1, <1>q DEF DoneOK, Rendering
    <2>4. text'.kind = "complete" =>
             (Done(text'.of) /\ text'.of \in Session \cup {0}) \/ overtaken'
        BY <1>1, <1>q, <1>t DEF DoneOK
    <2>5. text'.kind = "complete" =>
             (text'.of # 0 /\ status'[text'.of] = "completed") \/ overtaken'
        BY <1>1, <2>4 DEF Done
    <2>6. Done(label) => Done(label)'
        BY <1>1 DEF Done
    <2> QED
        BY <1>1, <2>1, <2>2, <2>3, <2>5, <2>6 DEF DoneOK, Done, Rendering
<1>2. ASSUME NEW p \in Press, PressStart(p) PROVE PathOK' /\ DoneOK'
    <2>1. Goto(p, "refresh") /\ Absent # {} /\ UNCHANGED text
        BY <1>2 DEF PressStart
    <2>2. \A q \in Press : pc'[q] = "rendering" => pc[q] = "rendering"
        BY <1>q, <2>1, GotoTyped
    <2>3. PICK k : k = Min(Absent)
        OBVIOUS
    <2>4. /\ BeginSession(k) /\ polled' = [polled EXCEPT !.status = "in_progress"]
          /\ label' = k /\ overtaken' = (overtaken \/ Rendering # {})
        BY <1>q, <1>2, <2>3 DEF PressStart
    <2> QED
        BY <1>q, <2>1, <2>2, <2>3, <2>4, PathBegins
<1>3. ASSUME NEW p \in Press, PressAnswer(p) PROVE PathOK' /\ DoneOK'
    <2>1. /\ Goto(p, "refresh") /\ polled.next \in Test /\ RecordAttempt(polled.next)
          /\ UNCHANGED <<polled, label, text, overtaken>>
        BY <1>q, <1>3 DEF PressAnswer, TypeInv, TypeOK, history
    <2>2. \A k \in Session : status'[k] = IF k = Current THEN "in_progress" ELSE status[k]
        BY <1>q, <2>1, RecordGoes
    <2>3. \A k \in Session : status'[k] = status[k]
        <3>1. \A k \in Session : k # 0
            BY Bounds
        <3> QED
            BY <1>q, <2>2, <3>1, QuietCurrent
    <2>4. PathOK' /\ \A k \in Session \cup {0} : Done(k) => Done(k)'
        BY <1>q, <2>1, <2>3, PathKept
    <2>5. \A q \in Press : pc'[q] = "rendering" => pc[q] = "rendering"
        BY <1>q, <2>1, GotoTyped
    <2>6. (Done(label) => Done(label)') /\ (Done(text.of) => Done(text.of)')
        BY <1>t, <2>1, <2>4 DEF Done
    <2> QED
        BY <1>q, <2>1, <2>4, <2>5, <2>6 DEF DoneOK, Rendering
<1>4. ASSUME NEW p \in Press, PressComplete(p) \/ AutoFinish(p) PROVE PathOK' /\ DoneOK'
    <2>1. Goto(p, "refresh_result") /\ CompleteSession /\ UNCHANGED <<label, text, overtaken>>
        BY <1>q, <1>4 DEF PressComplete, AutoFinish, history
    <2>2. \A q \in Press : pc'[q] = "rendering" => pc[q] = "rendering"
        BY <1>q, <2>1, GotoTyped
    <2> QED
        BY <1>q, <2>1, <2>2, PathComplete
<1>5. ASSUME NEW p \in Press, Refresh(p) \/ OpenStep(p) \/ ShowBlocked(p)
      PROVE  PathOK' /\ DoneOK'
    <2>1. PICK to \in {"settle", "settle_result", "idle"} : Goto(p, to)
        BY <1>5 DEF Refresh, OpenStep, ShowBlocked
    <2>2. UNCHANGED <<status, label>> /\ (polled' = polled \/ polled' = Status)
        BY <1>5 DEF Refresh, OpenStep, ShowBlocked, appliance
    <2>3. \/ text' = text /\ overtaken' = overtaken
          \/ text'.kind # "complete" /\ (Rendering # {} /\ overtaken => overtaken')
        <3>1. CASE Refresh(p)
            BY <3>1 DEF Refresh, history
        <3>2. CASE OpenStep(p)
            BY <3>2, Zenon DEF OpenStep
        <3>3. CASE ShowBlocked(p)
            BY <3>3 DEF ShowBlocked, Show, history
        <3> QED
            BY <1>5, <3>1, <3>2, <3>3
    <2>4. \A q \in Press : pc'[q] = "rendering" => pc[q] = "rendering"
        BY <1>q, <2>1, GotoTyped
    <2> QED
        BY <1>1, <2>2, <2>3, <2>4
<1>6. ASSUME NEW p \in Press, GenerateReport(p) PROVE PathOK' /\ DoneOK'
    <2>1. UNCHANGED <<status, label, polled, overtaken>> /\ Done(label)
        BY <1>q, <1>6 DEF GenerateReport, appliance, DoneOK, history
    <2>2. text' = text \/ text'.of = label
        BY <1>6 DEF GenerateReport, Show
    <2> QED
        BY <1>1, <2>1, <2>2
<1>7. ASSUME NEW p \in Press, Rendered(p) \/ RenderCollides(p) \/ RenderFails(p)
      PROVE  PathOK' /\ DoneOK'
    <2>1. RenderEnds(p)
        BY <1>7 DEF Rendered, RenderCollides, RenderFails
    <2>2. /\ UNCHANGED <<status, label, polled, overtaken>> /\ Goto(p, "idle")
          /\ Done(label) \/ overtaken
        BY <1>q, <2>1 DEF RenderEnds, DoneOK, Rendering
    <2>3. text'.of = label
        BY <2>1 DEF RenderEnds, Show
    <2>4. \A q \in Press : pc'[q] = "rendering" => pc[q] = "rendering"
        BY <1>q, <2>2, GotoTyped
    <2> QED
        BY <1>1, <2>2, <2>3, <2>4
<1>8. CASE Poll
    BY <1>1, <1>8 DEF Poll, appliance, history
<1>9. CASE UNCHANGED vars
    BY <1>1, <1>9 DEF vars, appliance, history
<1> QED
    BY <1>q, <1>2, <1>3, <1>4, <1>5, <1>6, <1>7, <1>8, <1>9 DEF Next, Continue

\* Before the first press the panel shows no path.
LEMMA PathInit == Init => PathInv
PROOF
<1> SUFFICES ASSUME Init PROVE PathInv
    OBVIOUS
<1>1. TypeInv
    BY TypeInit
<1>2. RenderInv
    BY DEF Init, RenderInv, Rendering
<1>3. \A k \in Session : k \in Nat /\ k > 0 /\ ~(k < 0)
    BY Bounds
<1>4. PathOK
    BY <1>3 DEF Init, PathOK
<1>5. DoneOK
    BY DEF Init, DoneOK, Rendering
<1> QED
    BY <1>1, <1>2, <1>4, <1>5 DEF PathInv

\* TEST COMPLETE is true of the path the panel names, for any number of presses
\* that overlap, of tests and of sessions, and whatever buttons overlap: as long
\* as no call was lost and the phone was not used.  A path that was started while
\* a report was rendered is the one exception, until its next step opens.
THEOREM CompleteMeansTestedAlways == Spec => []CompleteMeansTested
PROOF
<1>1. Init => PathInv
    BY PathInit
<1>2. PathInv /\ [Next]_vars => PathInv'
    <2> SUFFICES ASSUME PathInv, [Next]_vars PROVE PathInv'
        OBVIOUS
    <2>1. TypeInv' /\ RenderInv'
        BY TypeStep, RenderStep DEF PathInv
    <2> QED
        BY <2>1, PathStep DEF PathInv
<1>3. PathInv => CompleteMeansTested
    BY DEF PathInv, Quiet, DoneOK, Done, CompleteMeansTested, TrueOfThePath
<1> QED
    BY <1>1, <1>2, <1>3, PTL DEF Spec


-----------------------------------------------------------------------------
(* Panel, output and session in step.                                      *)

\* A press that begins, and one that goes on.
LEMMA PressBegins ==
    ASSUME TypeInv, NEW p \in Press,
           PressStart(p) \/ PressAnswer(p) \/ PressComplete(p)
    PROVE  /\ pc[p] = "idle"
           /\ \E to \in {"refresh", "refresh_result"} :
                 \A q \in Press : pc'[q] = IF q = p THEN to ELSE pc[q]
           /\ \A q \in Press : calm'[q] => q = p /\ AllIdle
PROOF
<1>1. PICK to \in {"refresh", "refresh_result"} : Goto(p, to)
    BY DEF PressStart, PressAnswer, PressComplete
<1>2. \A q \in Press : pc'[q] = IF q = p THEN to ELSE pc[q]
    BY <1>1, GotoTyped
<1>3. Lost \/ Starts(p)
    BY DEF PressStart, PressAnswer, PressComplete
<1>4. \A q \in Press : calm'[q] => q = p /\ AllIdle
    BY <1>3, CallTyped DEF Starts
<1> QED
    BY <1>2, <1>4 DEF PressStart, PressAnswer, PressComplete, Pressed

\* It disturbs no other press, and keeps the tests and the phone's part as they are.
LEMMA ContinueGoes ==
    ASSUME TypeInv, NEW p \in Press, Continue(p)
    PROVE  /\ pc[p] # "idle"
           /\ \A q \in Press : q # p => pc'[q] = pc[q]
           /\ \A q \in Press : calm'[q] => calm[q]
           /\ UNCHANGED <<answered, touched>>
           /\ ~Lost => lost' = lost
PROOF
<1>1. PICK to \in {"idle", "refresh", "settle", "refresh_result",
                   "settle_result", "rendering"} : Goto(p, to)
    BY DEF Continue, Refresh, OpenStep, AutoFinish, ShowBlocked, GenerateReport, Rendered,
           RenderCollides, RenderFails, RenderEnds
<1>2. \A q \in Press : q # p => pc'[q] = pc[q]
    BY <1>1, GotoTyped
<1>3. Lost \/ Delivered \/ UNCHANGED <<calm, lost>>
    BY DEF Continue, Refresh, OpenStep, AutoFinish, ShowBlocked, GenerateReport, Rendered,
           RenderCollides, RenderFails, RenderEnds
<1>4. \A q \in Press : calm'[q] => calm[q]
    BY <1>3, CallTyped DEF Delivered
<1>5. UNCHANGED <<answered, touched>>
    BY DEF Continue, Refresh, OpenStep, AutoFinish, ShowBlocked, GenerateReport, Rendered,
           RenderCollides, RenderFails, RenderEnds, appliance, history
<1>6. pc[p] # "idle"
    BY DEF Continue, Refresh, OpenStep, AutoFinish, ShowBlocked, GenerateReport, Rendered,
           RenderCollides, RenderFails, RenderEnds
<1> QED
    BY <1>2, <1>3, <1>4, <1>5, <1>6 DEF Delivered

\* Nothing that interferes with a press leaves it calm.
LEMMA CalmStep ==
    ASSUME TypeInv, CalmInv, [Next]_vars
    PROVE  CalmInv'
PROOF
<1>1. ASSUME NEW p \in Press, PressStart(p) \/ PressAnswer(p) \/ PressComplete(p)
      PROVE  CalmInv'
    BY <1>1, PressBegins DEF CalmInv, AllIdle
<1>2. ASSUME NEW p \in Press, Continue(p) PROVE CalmInv'
    <2> SUFFICES ASSUME NEW q \in Press, calm'[q], pc'[q] # "idle"
                 PROVE  /\ \A r \in Press : pc'[r] # "idle" => r = q
                        /\ pc'[q] = "settle" => polled' = Status'
        BY DEF CalmInv
    <2>1. /\ pc[p] # "idle" /\ calm[q]
          /\ \A r \in Press : r # p => pc'[r] = pc[r]
        BY <1>2, ContinueGoes
    <2>2. q = p
        BY <2>1 DEF CalmInv
    <2>3. \A r \in Press : pc'[r] # "idle" => r = q
        BY <2>1, <2>2 DEF CalmInv
    <2>4. ASSUME pc'[q] = "settle" PROVE polled' = Status'
        <3>1. CASE Refresh(p)
            <4>1. polled' = Status \/ Lost
                BY <3>1 DEF Refresh
            <4>2. ~Lost
                BY CallTyped
            <4>3. UNCHANGED <<status, answered>>
                BY <3>1 DEF Refresh, appliance
            <4> QED
                BY <4>1, <4>2, <4>3, StatusSame
        <3>2. CASE \/ OpenStep(p) \/ AutoFinish(p) \/ ShowBlocked(p)
                   \/ GenerateReport(p) \/ Rendered(p)
                   \/ RenderCollides(p) \/ RenderFails(p)
            <4>1. PICK to \in {"idle", "refresh_result", "rendering"} : Goto(p, to)
                BY <3>2 DEF OpenStep, AutoFinish, ShowBlocked, GenerateReport, Rendered,
                            RenderCollides, RenderFails, RenderEnds
            <4>2. pc'[p] = to
                BY <4>1, GotoTyped
            <4> QED
                BY <2>2, <2>4, <4>1, <4>2
        <3> QED
            BY <1>2, <3>1, <3>2 DEF Continue
    <2> QED
        BY <2>3, <2>4
<1>3. CASE Poll
    <2>1. Status' = Status /\ polled' = Status /\ UNCHANGED <<pc, calm>>
        BY <1>3, StatusSame DEF Poll, appliance
    <2> QED
        BY <2>1 DEF CalmInv
<1>4. ASSUME NEW k \in Session, PhoneReview(k) \/ PhoneAnswer(k) PROVE CalmInv'
    BY <1>4 DEF PhoneReview, PhoneAnswer, Phone, CalmInv
<1>5. CASE UNCHANGED vars
    <2>1. Status' = Status /\ UNCHANGED <<polled, pc, calm>>
        BY <1>5, StatusSame DEF vars, appliance
    <2> QED
        BY <2>1 DEF CalmInv
<1> QED
    BY <1>1, <1>2, <1>3, <1>4, <1>5 DEF Next

\* The same session is active as long as the same ones are.
LEMMA CurrentSame ==
    ASSUME Active' = Active
    PROVE  Current' = Current
PROOF
    BY DEF Current

\* What the script polls and the output shows fall behind the session only while
\* the coroutine that makes them catch up is on its way.
LEMMA StepStep ==
    ASSUME StepInv, [Next]_vars, TypeInv', Fresh'
    PROVE  StepOK'
PROOF
<1>q. TypeInv /\ RenderInv /\ (Fresh => StepOK) /\ lost' = 0 /\ Current' # 0
    BY DEF StepInv, Fresh
<1>l. ~Lost
    BY <1>q, CallTyped
<1>1. ASSUME NEW p \in Press, PressStart(p) PROVE StepOK'
    <2>1. Absent # {} /\ Goto(p, "refresh")
        BY <1>1 DEF PressStart
    <2>2. pc'[p] = "refresh"
        BY <1>q, <2>1, GotoTyped
    <2>3. PICK k : k = Min(Absent)
        OBVIOUS
    <2>4. BeginSession(k)
        BY <1>l, <1>1, <2>3 DEF PressStart
    <2>5. k \in Session /\ Active' = {k} /\ status'[k] = "in_progress"
        BY <1>q, <2>1, <2>3, <2>4, BeginGoes
    <2>6. Max({k}) = k
        <3>1. k \in Nat /\ k >= k
            BY <2>5, Bounds
        <3> QED
            BY <3>1 DEF Max
    <2>7. Current' = k
        BY <2>5, <2>6 DEF Current
    <2>8. status'[Current'] = "in_progress"
        BY <2>5, <2>7
    <2> QED
        BY <2>2, <2>8 DEF StepOK
<1>2. ASSUME NEW p \in Press, PressAnswer(p) PROVE StepOK'
    <2>1. /\ Goto(p, "refresh") /\ polled.next # 0 /\ polled.next \in Test
          /\ RecordAttempt(polled.next) /\ UNCHANGED polled
        BY <1>l, <1>q, <1>2 DEF PressAnswer, TypeInv, TypeOK
    <2>2. pc'[p] = "refresh"
        BY <1>q, <2>1, GotoTyped
    <2>3. Current' = Current
        BY <1>q, <2>1, RecordGoes, CurrentSame
    <2>4. Current \in Session
        BY <1>q, <2>3, CurrentIs
    <2>5. status'[Current] = "in_progress"
        BY <1>q, <2>1, <2>4, RecordGoes
    <2>6. status'[Current'] = "in_progress"
        BY <2>3, <2>5
    <2> QED
        BY <2>1, <2>2, <2>6 DEF StepOK
<1>3. ASSUME UNCHANGED <<status, answered, touched>>, lost' = lost
      PROVE  /\ Current' = Current /\ NextTest(Current)' = NextTest(Current)
             /\ Current # 0 /\ StepOK
             /\ status'[Current'] = "in_progress"
             /\ Status.next = NextTest(Current)
    <2>1. Current' = Current
        BY <1>3, StatusSame
    <2>2. NextTest(Current)' = NextTest(Current)
        BY <1>3, <2>1 DEF NextTest
    <2>3. Fresh
        BY <1>3, <2>1 DEF Fresh
    <2>4. status'[Current'] = "in_progress" /\ status[Current] = "in_progress" /\ Current # 0
        BY <1>3, <1>q, <2>1, <2>3 DEF StepOK
    <2> QED
        BY <1>q, <2>1, <2>2, <2>3, <2>4, StatusTyped
<1>4. ASSUME UNCHANGED <<status, answered, touched, polled, pattern>>, lost' = lost,
             UNCHANGED overtaken,
             \A q \in Press : pc[q] = "refresh" => pc'[q] = "refresh",
             \A q \in Press : pc[q] = "settle" => pc'[q] = "settle"
      PROVE  StepOK'
    <2>1. /\ NextTest(Current)' = NextTest(Current)
          /\ StepOK /\ status'[Current'] = "in_progress"
        BY <1>3, <1>4
    <2>3. (\A q \in Press : pc'[q] # "refresh") => polled'.next = NextTest(Current)'
        BY <1>4, <2>1 DEF StepOK
    <2>4. (\A q \in Press : pc'[q] \notin {"refresh", "settle"}) =>
              pattern' = polled'.next \/ NextTest(Current)' = 0 \/ overtaken'
        BY <1>4, <2>1 DEF StepOK
    <2> QED
        BY <2>1, <2>3, <2>4 DEF StepOK
<1>5. ASSUME NEW p \in Press, PressComplete(p) PROVE StepOK'
    <2>1. /\ Goto(p, "refresh_result") /\ CompleteSession /\ pc[p] = "idle"
          /\ lost' = lost /\ UNCHANGED <<answered, touched, overtaken>>
        BY <1>l, <1>5 DEF PressComplete, Pressed, history
    <2>2. \A q \in Press : pc'[q] = IF q = p THEN "refresh_result" ELSE pc[q]
        BY <1>q, <2>1, GotoTyped
    <2>3. UNCHANGED <<status, polled, pattern>>
        BY <1>q, <2>1, CompleteGoes DEF Current
    <2> QED
        BY <1>4, <2>1, <2>2, <2>3
<1>6. ASSUME NEW p \in Press, AutoFinish(p) PROVE StepOK'
    <2>1. /\ pc[p] = "settle" /\ polled.next = 0 /\ CompleteSession
          /\ Goto(p, "refresh_result")
          /\ lost' = lost /\ UNCHANGED <<answered, touched, overtaken>>
        BY <1>l, <1>6 DEF AutoFinish, Delivered, history
    <2>2. UNCHANGED <<status, polled, pattern>> /\ (Current = 0 \/ NextTest(Current) # 0)
        BY <1>q, <2>1, CompleteGoes DEF Current
    <2>3. /\ NextTest(Current)' = NextTest(Current) /\ NextTest(Current) # 0
          /\ StepOK /\ status'[Current'] = "in_progress"
        BY <1>3, <2>1, <2>2
    <2>4. \A q \in Press : pc'[q] = IF q = p THEN "refresh_result" ELSE pc[q]
        BY <1>q, <2>1, GotoTyped
    <2>5. (\A q \in Press : pc'[q] # "refresh") => polled'.next = NextTest(Current)'
        BY <2>1, <2>2, <2>3, <2>4 DEF StepOK
    <2> QED
        BY <2>1, <2>2, <2>3, <2>4, <2>5 DEF StepOK
<1>7. ASSUME NEW p \in Press, Refresh(p) PROVE StepOK'
    <2>1. /\ UNCHANGED <<status, answered, touched, pattern>> /\ lost' = lost
          /\ polled' = Status /\ pc[p] \in {"refresh", "refresh_result"}
          /\ Goto(p, IF pc[p] = "refresh" THEN "settle" ELSE "settle_result")
        BY <1>l, <1>7 DEF Refresh, Delivered, appliance, history
    <2>o. UNCHANGED overtaken
        BY <1>7 DEF Refresh, history
    <2>2. /\ NextTest(Current)' = NextTest(Current) /\ StepOK
          /\ status'[Current'] = "in_progress" /\ polled'.next = NextTest(Current)'
        BY <1>3, <2>1
    <2>3. PICK to \in {"settle", "settle_result"} : Goto(p, to) /\ (pc[p] = "refresh" => to = "settle")
        BY <2>1
    <2>4. \A q \in Press : pc'[q] = IF q = p THEN to ELSE pc[q]
        BY <1>q, <2>3, GotoTyped
    <2>5. ASSUME \A q \in Press : pc'[q] \notin {"refresh", "settle"}
          PROVE  pattern' = polled'.next \/ NextTest(Current)' = 0 \/ overtaken'
        <3>1. \A q \in Press : pc[q] \notin {"refresh", "settle"}
            BY <2>1, <2>3, <2>4, <2>5
        <3> QED
            BY <2>1, <2>2, <2>o, <3>1 DEF StepOK
    <2> QED
        BY <2>2, <2>5 DEF StepOK
<1>8. CASE Poll
    <2>1. /\ UNCHANGED <<status, answered, touched, pattern, pc, overtaken>>
          /\ polled' = Status /\ lost' = lost
        BY <1>8 DEF Poll, appliance, history
    <2>2. /\ NextTest(Current)' = NextTest(Current) /\ StepOK
          /\ status'[Current'] = "in_progress" /\ polled'.next = NextTest(Current)'
        BY <1>3, <2>1
    <2>3. (\A q \in Press : pc'[q] \notin {"refresh", "settle"}) =>
              pattern' = polled'.next \/ NextTest(Current)' = 0 \/ overtaken'
        BY <2>1, <2>2 DEF StepOK
    <2> QED
        BY <2>2, <2>3 DEF StepOK
<1>9. ASSUME NEW p \in Press, OpenStep(p) PROVE StepOK'
    <2>1. /\ UNCHANGED <<status, answered, touched, polled>> /\ lost' = lost
          /\ pc[p] = "settle" /\ pattern' = polled.next /\ Goto(p, "idle")
        BY <1>l, <1>9 DEF OpenStep, Delivered
    <2>2. /\ NextTest(Current)' = NextTest(Current) /\ StepOK
          /\ status'[Current'] = "in_progress"
        BY <1>3, <2>1
    <2>3. \A q \in Press : pc'[q] = IF q = p THEN "idle" ELSE pc[q]
        BY <1>q, <2>1, GotoTyped
    <2>5. (\A q \in Press : pc'[q] # "refresh") => polled'.next = NextTest(Current)'
        BY <2>1, <2>2, <2>3 DEF StepOK
    <2> QED
        BY <2>1, <2>2, <2>5 DEF StepOK
<1>10. ASSUME NEW p \in Press, ShowBlocked(p) \/ GenerateReport(p) PROVE StepOK'
    <2>1. /\ UNCHANGED <<status, answered, touched, polled, pattern>> /\ lost' = lost
          /\ pc[p] = "settle_result" /\ UNCHANGED overtaken
        BY <1>l, <1>10 DEF ShowBlocked, GenerateReport, Delivered, appliance, history
    <2>2. PICK to \in {"idle", "rendering"} : Goto(p, to)
        BY <1>10 DEF ShowBlocked, GenerateReport
    <2>3. \A q \in Press : pc'[q] = IF q = p THEN to ELSE pc[q]
        BY <1>q, <2>2, GotoTyped
    <2> QED
        BY <1>4, <2>1, <2>2, <2>3
<1>11. ASSUME NEW p \in Press, Rendered(p) \/ RenderCollides(p) \/ RenderFails(p)
       PROVE  StepOK'
    <2>1. RenderEnds(p)
        BY <1>11 DEF Rendered, RenderCollides, RenderFails
    <2>2. /\ UNCHANGED <<status, answered, polled, touched, overtaken>> /\ lost' = lost
          /\ pc[p] = "rendering" /\ Goto(p, "idle")
        BY <2>1 DEF RenderEnds
    <2>3. /\ NextTest(Current)' = NextTest(Current) /\ Current' = Current
          /\ StepOK /\ status'[Current'] = "in_progress"
        BY <1>3, <2>2
    <2>4. overtaken
        BY <1>q, <2>2, <2>3 DEF RenderInv, Rendering, Current
    <2>5. \A q \in Press : pc'[q] = IF q = p THEN "idle" ELSE pc[q]
        BY <1>q, <2>2, GotoTyped
    <2>6. (\A q \in Press : pc'[q] # "refresh") => polled'.next = NextTest(Current)'
        BY <2>2, <2>3, <2>5 DEF StepOK
    <2> QED
        BY <2>2, <2>3, <2>4, <2>6 DEF StepOK
<1>12. ASSUME NEW k \in Session, PhoneReview(k) \/ PhoneAnswer(k) PROVE StepOK'
    <2>1. Current' = Current /\ k = Current
        <3>1. CASE PhoneReview(k)
            <4>1. status[k] = "in_progress" /\ status' = [status EXCEPT ![k] = "review"]
                BY <3>1 DEF PhoneReview
            <4>2. \A s \in Session : status'[s] = IF s = k THEN "review" ELSE status[s]
                BY <1>q, <4>1 DEF TypeInv, TypeOK
            <4>3. Active' = Active /\ k \in Active
                BY <4>1, <4>2 DEF Active, Of
            <4> QED
                BY <1>q, <4>3, CurrentIs, CurrentSame
        <3>2. CASE PhoneAnswer(k)
            BY <1>q, <3>2, RecordGoes, CurrentSame DEF PhoneAnswer
        <3> QED
            BY <1>12, <3>1, <3>2
    <2>2. touched[k] \in Nat /\ touched'[k] = touched[k] + 1
        BY <1>q, <1>12, Bounds DEF PhoneReview, PhoneAnswer, Phone, TypeInv, TypeOK
    <2>3. touched'[k] = 0
        BY <2>1 DEF Fresh
    <2> QED
        BY <2>2, <2>3
<1>13. CASE UNCHANGED vars
    BY <1>4, <1>13 DEF vars, appliance, history
<1> QED
    BY <1>1, <1>2, <1>5, <1>6, <1>7, <1>8, <1>9, <1>10, <1>11, <1>12, <1>13
       DEF Next, Continue

\* Before the first press nothing is active.
LEMMA StepInit == Init => StepInv /\ CalmInv
PROOF
<1> SUFFICES ASSUME Init PROVE StepInv /\ CalmInv
    OBVIOUS
<1>1. TypeInv /\ RenderInv
    BY PathInit DEF PathInv
<1>2. Current = 0
    BY DEF Init, Current, Active, Of
<1> QED
    BY <1>1, <1>2 DEF Init, StepInv, CalmInv, Fresh

\* What the operator sees after a press, and answers with the next.
InStep(p) ==
    /\ OpenStep(p) /\ calm[p] /\ lost' = lost =>
          pattern' = Status.next /\ text'.test = Status.next
    /\ PressAnswer(p) /\ AllIdle /\ lost' = 0 /\ Current # 0 /\ touched[Current] = 0
          /\ ~overtaken => pattern = polled.next

\* It is so in every state the invariants allow.
LEMMA InStepNow ==
    ASSUME StepInv, CalmInv, NEW p \in Press
    PROVE  InStep(p)
PROOF
<1>q. TypeInv /\ (Fresh => StepOK)
    BY DEF StepInv
<1>1. ASSUME OpenStep(p), calm[p], lost' = lost
      PROVE  pattern' = Status.next /\ text'.test = Status.next
    <2>1. ~Lost
        BY <1>q, <1>1, CallTyped
    <2>2. polled = Status
        BY <1>1 DEF CalmInv, OpenStep
    <2> QED
        BY <1>1, <2>1, <2>2 DEF OpenStep
<1>2. ASSUME PressAnswer(p), AllIdle, lost' = 0, Current # 0, touched[Current] = 0,
             ~overtaken
      PROVE  pattern = polled.next
    <2>1. ~Lost
        BY <1>q, <1>2, CallTyped
    <2>2. lost = 0 /\ polled.next # 0
        BY <1>2, <2>1 DEF PressAnswer
    <2>3. StepOK
        BY <1>q, <1>2, <2>2 DEF Fresh
    <2>4. polled.next = NextTest(Current) /\ (pattern = polled.next \/ NextTest(Current) = 0)
        BY <1>2, <2>3 DEF StepOK, AllIdle
    <2> QED
        BY <2>2, <2>4
<1> QED
    BY <1>1, <1>2 DEF InStep

\* For any number of presses, tests and sessions: a press that is let finish shows
\* the test that is next on panel and output, and an operator who waits for each
\* step to open answers the test that is shown, whatever buttons overlapped before,
\* unless the path was started beside a rendering whose screen covers its first step.
THEOREM PanelInStepAlways == Spec => PanelInStep
PROOF
<1>1. Init => StepInv /\ CalmInv
    BY StepInit
<1>2. (StepInv /\ CalmInv) /\ [Next]_vars => (StepInv /\ CalmInv)'
    <2> SUFFICES ASSUME StepInv, CalmInv, [Next]_vars PROVE StepInv' /\ CalmInv'
        OBVIOUS
    <2>1. TypeInv' /\ RenderInv' /\ CalmInv'
        BY TypeStep, RenderStep, CalmStep DEF StepInv
    <2> QED
        BY <2>1, StepStep DEF StepInv
<1>3. (StepInv /\ CalmInv) /\ [Next]_vars => [\A p \in Press : InStep(p)]_vars
    BY InStepNow
<1>4. PanelInStep <=> [][\A p \in Press : InStep(p)]_vars
    <2>1. (\A p \in Press : InStep(p)) <=>
              \A p \in Press :
                 /\ OpenStep(p) /\ calm[p] /\ lost' = lost =>
                       pattern' = Status.next /\ text'.test = Status.next
                 /\ PressAnswer(p) /\ AllIdle /\ lost' = 0
                       /\ Current # 0 /\ touched[Current] = 0 /\ ~overtaken
                       => pattern = polled.next
        BY DEF InStep
    <2> QED
        BY <2>1, PTL DEF PanelInStep
<1> QED
    BY <1>1, <1>2, <1>3, <1>4, PTL DEF Spec

=============================================================================
