---------------------------- MODULE ReportArchive ----------------------------
(***************************************************************************)
(* Report generation (reports.py), the report table and the files it names,*)
(* and the "GET YOUR REPORT" screen of the kiosk.                          *)
(*                                                                         *)
(* A request runs generate_report in a thread and then, on the event loop, *)
(* turns the output to the report screen.  Every job is one request; the   *)
(* content of a file is the job that wrote it.  Files are named after the  *)
(* session and the day, not after the revision.                            *)
(***************************************************************************)
EXTENDS Naturals, Sequences, SequencesExt, FiniteSets

CONSTANTS
    Session,   \* sessions that exist
    MaxJobs,   \* bound: report requests
    MaxDays,   \* bound: calendar days
    MaxReopens, \* bound: changes of a session between completed and active
    MaxKills   \* bound: process kills

ASSUME ArchiveBounds ==
    /\ Session # {} /\ MaxDays \in Nat \ {0}
    /\ MaxJobs \in Nat /\ MaxReopens \in Nat /\ MaxKills \in Nat

Job == 1..MaxJobs
Day == 1..MaxDays

VARIABLES
    completed, \* completed[s]: the session is in a completed status
    reopens,   \* changes of status so far
    kills,     \* process kills so far
    today,
    pc,        \* pc[j]: where job j is
    sess,      \* sess[j]: the session it reports on
    rev,       \* rev[j]: the revision it read
    day,       \* day[j]: the date in its file names
    rows,      \* the report table, in order of id: the jobs that inserted
    json, pdf, \* json[s][d]: job that wrote the file of session s, day d
    pattern,   \* active pattern: the report screen, or a test pattern
    kiosk,     \* what the kiosk has: pattern, row named, row behind the QR,
               \* and whether only one report and its own image were shown
    load       \* load[j]: the image request of the screen that job j opened

archive == <<rows, json, pdf>>
jobs == <<sess, rev, day>>
world == <<completed, reopens, kills, today>>
screen == <<pattern, kiosk, load>>
vars == <<world, pc, jobs, archive, screen>>

NoFile == 0
Idle == 0 - 1    \* no image on its way
Asked == 0       \* the server has not answered yet; n > 0: the code of row n

Init ==
    /\ completed = [s \in Session |-> TRUE]
    /\ reopens = 0 /\ kills = 0
    /\ today = 1
    /\ pc = [j \in Job |-> "unused"]
    /\ sess = [j \in Job |-> CHOOSE s \in Session : TRUE]
    /\ rev = [j \in Job |-> 0]
    /\ day = [j \in Job |-> 1]
    /\ rows = <<>>
    /\ json = [s \in Session |-> [d \in Day |-> NoFile]]
    /\ pdf = json
    /\ pattern = "test"
    /\ kiosk = [pattern |-> "test", row |-> 0, qr |-> 0, calm |-> TRUE]
    /\ load = [j \in Job |-> Idle]

RowsOf(s) == {i \in DOMAIN rows : sess[rows[i]] = s}
Revisions(s) == {rev[rows[i]] : i \in RowsOf(s)}
Goto(j, to) == pc' = [pc EXCEPT ![j] = to]

-----------------------------------------------------------------------------
(* generate_report                                                         *)

Request(j) ==
    /\ pc[j] = "unused"
    /\ \A i \in Job : i < j => pc[i] # "unused"
    /\ \E s \in Session : sess' = [sess EXCEPT ![j] = s]
    /\ Goto(j, "build")
    /\ UNCHANGED <<world, rev, day, archive, screen>>

\* build_report_data: only completed sessions are reported.
Build(j) ==
    /\ pc[j] = "build"
    /\ Goto(j, IF completed[sess[j]] THEN "number" ELSE "refused")
    /\ UNCHANGED <<world, jobs, archive, screen>>

\* Mutant: the revision is counted over all sessions.
NumberGlobally(j) ==
    /\ pc[j] = "number"
    /\ rev' = [rev EXCEPT ![j] = Len(rows) + 1]
    /\ day' = [day EXCEPT ![j] = today]
    /\ Goto(j, "write")
    /\ UNCHANGED <<world, sess, archive, screen>>

Number(j) ==
    /\ pc[j] = "number"
    /\ rev' = [rev EXCEPT ![j] = Max(Revisions(sess[j]) \cup {0}) + 1]
    /\ day' = [day EXCEPT ![j] = today]
    /\ Goto(j, "write")
    /\ UNCHANGED <<world, sess, archive, screen>>

\* The JSON export and its checksum file, before anything can fail.
WriteJson(j) ==
    /\ pc[j] = "write"
    /\ json' = [json EXCEPT ![sess[j]][day[j]] = j]
    /\ Goto(j, "render")
    /\ UNCHANGED <<world, jobs, rows, pdf, screen>>

\* Mutant: a PDF that exists already is kept.
RenderOnce(j) ==
    /\ pc[j] = "render"
    /\ pdf' = [pdf EXCEPT ![sess[j]][day[j]] = IF @ = NoFile THEN j ELSE @]
    /\ Goto(j, "insert")
    /\ UNCHANGED <<world, jobs, rows, json, screen>>

Render(j) ==
    /\ pc[j] = "render"
    /\ pdf' = [pdf EXCEPT ![sess[j]][day[j]] = j]
    /\ Goto(j, "insert")
    /\ UNCHANGED <<world, jobs, rows, json, screen>>

\* Chromium fails, is missing or takes longer than its timeout; it may have
\* written the PDF.
RenderFails(j) ==
    /\ pc[j] = "render"
    /\ pdf' \in {pdf, [pdf EXCEPT ![sess[j]][day[j]] = j]}
    /\ Goto(j, "failed")
    /\ UNCHANGED <<world, jobs, rows, json, screen>>

\* Mutant: the table has no UNIQUE (session_id, revision).
InsertUnchecked(j) ==
    /\ pc[j] = "insert"
    /\ rows' = Append(rows, j) /\ Goto(j, "inserted")
    /\ UNCHANGED <<world, jobs, json, pdf, screen>>

\* UNIQUE (session_id, revision): the slower of two jobs with one revision
\* fails after it has written its files.
Insert(j) ==
    /\ pc[j] = "insert"
    /\ IF rev[j] \in Revisions(sess[j])
       THEN Goto(j, "failed") /\ UNCHANGED rows
       ELSE rows' = Append(rows, j) /\ Goto(j, "inserted")
    /\ UNCHANGED <<world, jobs, json, pdf, screen>>

-----------------------------------------------------------------------------
(* The report screen.                                                      *)

Calm == \A j \in Job : load[j] = Idle
Named(p) == IF p = "report" THEN Len(rows) ELSE kiosk.row

\* Mutant: the bitmap of the last report is not dropped, and not loaded again.
FrameKeepingQr(p, j) ==
    /\ kiosk' = [pattern |-> p, row |-> Named(p), qr |-> kiosk.qr,
                 calm |-> kiosk.pattern # p /\ Calm]
    /\ load' = IF p = "report" /\ kiosk.qr = 0
               THEN [load EXCEPT ![j] = Asked] ELSE load

\* applyPatternState and onPatternChange: the bitmap is dropped and loaded
\* when the pattern changes to the report screen; an image that is still on
\* its way is not cancelled.
Frame(p, j) ==
    LET opens == p = "report" /\ kiosk.pattern # p
    IN  /\ kiosk' = [pattern |-> p, row |-> Named(p),
                     qr |-> IF opens THEN 0 ELSE kiosk.qr,
                     calm |-> kiosk.pattern # p /\ Calm]
        /\ load' = IF opens THEN [load EXCEPT ![j] = Asked] ELSE load

\* create_report, back on the event loop: activate_pattern("report").
ShowReport(j) ==
    /\ pc[j] = "inserted"
    /\ pattern' = "report"
    /\ Frame("report", j)
    /\ Goto(j, "done")
    /\ UNCHANGED <<world, jobs, archive>>

\* Anything else that activates a pattern.
ShowTest ==
    /\ pattern = "report"
    /\ pattern' = "test"
    /\ Frame("test", 1)
    /\ UNCHANGED <<world, pc, jobs, archive>>

\* reports/latest/qr.svg answers: the newest report at that moment.
ServeQr(j) ==
    /\ load[j] = Asked
    /\ load' = [load EXCEPT ![j] = Len(rows)]
    /\ UNCHANGED <<world, pc, jobs, archive, pattern, kiosk>>

\* The image has loaded: assigned, whatever is shown by now.
QrLoaded(j) ==
    /\ load[j] > Asked
    /\ kiosk' = [kiosk EXCEPT !.qr = load[j]]
    /\ load' = [load EXCEPT ![j] = Idle]
    /\ UNCHANGED <<world, pc, jobs, archive, pattern>>

-----------------------------------------------------------------------------
\* A session is completed, or reopened, by its other handlers.
ChangeStatus(s) ==
    /\ reopens < MaxReopens
    /\ reopens' = reopens + 1
    /\ completed' = [completed EXCEPT ![s] = ~@]
    /\ UNCHANGED <<kills, today, pc, jobs, archive, screen>>

\* The process is killed; it boots with its startup pattern, which the kiosk
\* gets when it reconnects.  Files and rows stay as they are.
Kill ==
    /\ kills < MaxKills
    /\ kills' = kills + 1
    /\ pc' = [j \in Job |-> CASE pc[j] \in {"render", "insert"} -> "failed"
                             [] pc[j] = "inserted" -> "done"
                             [] pc[j] \in {"build", "number", "write"} -> "refused"
                             [] OTHER -> pc[j]]
    /\ pattern' = "test"
    /\ Frame("test", 1)
    /\ UNCHANGED <<completed, reopens, today, jobs, archive>>

Midnight ==
    /\ today < MaxDays
    /\ today' = today + 1
    /\ UNCHANGED <<completed, reopens, kills, pc, jobs, archive, screen>>

Generate(j) == \/ Build(j) \/ Number(j) \/ WriteJson(j)
               \/ Render(j) \/ RenderFails(j) \/ Insert(j) \/ ShowReport(j)

Next == \/ \E j \in Job : \/ Request(j) \/ Generate(j)
                          \/ ServeQr(j) \/ QrLoaded(j)
        \/ ShowTest \/ Midnight \/ Kill
        \/ \E s \in Session : ChangeStatus(s)

Spec == Init /\ [][Next]_vars

-----------------------------------------------------------------------------
(* Properties                                                              *)

\* Every variable has its type, and the report table its primary key and its
\* UNIQUE (session_id, revision).
TypeOK ==
    /\ completed \in [Session -> BOOLEAN]
    /\ reopens \in 0..MaxReopens /\ kills \in 0..MaxKills /\ today \in Nat
    /\ pc \in [Job -> {"unused", "build", "number", "write", "render", "insert",
                       "inserted", "done", "refused", "failed"}]
    /\ sess \in [Job -> Session] /\ rev \in [Job -> Nat] /\ day \in [Job -> Nat]
    /\ rows \in Seq(Job)
    /\ \A i, k \in DOMAIN rows :
          sess[rows[i]] = sess[rows[k]] /\ rev[rows[i]] = rev[rows[k]] => i = k
    /\ json \in [Session -> [Day -> Job \cup {NoFile}]]
    /\ pdf \in [Session -> [Day -> Job \cup {NoFile}]]
    /\ pattern \in {"test", "report"}
    /\ kiosk \in [pattern : {"test", "report"}, row : Nat, qr : Nat,
                  calm : BOOLEAN]
    /\ load \in [Job -> Nat \cup {Idle}]

\* The revisions of a session are 1, 2, 3, ... in the order of the rows,
\* whatever overlaps or fails.
RevisionsContiguous ==
    \A i \in DOMAIN rows :
        rev[rows[i]] = Cardinality({k \in RowsOf(sess[rows[i]]) : k <= i})

\* The last report of a session on a day is what its files hold, checksum and
\* PDF alike, however many revisions and days there were: unless another
\* generation for that session and day is writing, or failed.
Disturbs(i, j) ==
    /\ i # j /\ sess[i] = sess[j] /\ day[i] = day[j]
    /\ pc[i] \in {"render", "insert", "failed"}
LastOfDay(j) ==
    \A i \in DOMAIN rows : sess[rows[i]] = sess[j] /\ day[rows[i]] = day[j]
        => rev[rows[i]] <= rev[j]
LastOfDayIntact ==
    \A j \in Job :
        /\ j \in Range(rows) /\ LastOfDay(j)
        /\ ~\E i \in Job : Disturbs(i, j)
        => json[sess[j]][day[j]] = j /\ pdf[sess[j]][day[j]] = j

\* The code on the report screen is at least as new as the report it names, as
\* long as the screen came up for one report and no image asked for by an
\* earlier one was still on its way (routes.py create_report, patterns.js).
FreshCodeOnNewScreen ==
    kiosk.calm /\ kiosk.pattern = "report" /\ kiosk.qr # 0 => kiosk.qr >= kiosk.row

=============================================================================
