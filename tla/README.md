# A formal model of the commissioning test source

The repository is the software of a small appliance that feeds an HDMI test
picture into a room's signal path and guides an engineer through the checks of
that path: a FastAPI backend with an SQLite database
(`src/backend/tl_commissioning_source`, `B/` below), a browser page that draws
the picture on the HDMI output (`B/kiosk`), a web control UI for a phone
(`src/frontend`), and a driver and script that let a room controller drive the
test from a wall panel (`src/integrations/openavc`).

This directory holds TLA+ modules for the parts where order, overlap and
failure decide whether a result can be trusted, the TLC configurations that
check them on small instances, and proofs that hold for instances of any size.

    tlc -workers 2 -config store_serial.cfg MCSessionStore.tla    # a run
    tlapm SessionStoreProofs.tla                                  # the proofs

`PROJECT.json` lists the components, the runs, the source lines each definition
stands for, the deliberate bugs ("mutants") each property was seen to catch,
the disagreements found, and the hazards of the code with the properties that
watch them.

## 1. Inventory

How the program executes matters more than anything else here. There is one
process. `async def` handlers run on its event loop and are atomic between two
`await`s. Plain `def` handlers run in a thread pool and overlap with the loop
and with each other. `Database.execute` (`B/db.py:70`) commits every statement
by itself, so there are no transactions that span two statements. The command
line is a second process on the same database and configuration file.

| Component | State | Operations | Reached from | What makes it correct |
|---|---|---|---|---|
| Session store (`B/sessions.py`) | tables session, test_attempt, system_event | create, update_draft, delete_draft, start, record_attempt, enter_review, complete, reopen | REST handlers on the loop and in the pool, CLI | one active session; a verdict that the latest answers justify; completed sessions read-only; retirements and reopenings audited; a refused request changes nothing but, for a creation, the project |
| Soak runner and pattern control (`B/state.py`) | active pattern, the asyncio task, run id, fault counter, table soak_run | activate_pattern, start, stop, the end of a run, note_fault | pattern handlers, complete, the watcher | a run is recorded as what it was; every run is closed; a live task is the one that would be stopped |
| Status and current-session aliases (`B/api/routes.py:60-101, 478-532`) | none of their own | /status, current-session attempts, complete, report | room controllers | alias and status speak of the same session |
| OpenAVC driver and panel script | polled device state, panel labels | the buttons, the poll | the operator | the panel, the output and the session agree; TEST COMPLETE is true |
| Reports (`B/reports.py`) | table report, the PDF, JSON and checksum files | generate_report, downloads | REST, script, CLI | revisions without gaps; the files are those of a whole report; the code on the screen leads to the report it names |
| Kiosk page (`B/kiosk/patterns.js`) | pattern state, QR bitmaps | frames from the event socket, image loads | event hub | shows what the backend says |
| Event hub (`B/events.py`) | a queue of 200 per subscriber | subscribe, publish (drops the oldest), events socket | everything that changes state | the last pattern arrives; kiosk_connected is true of a connected kiosk |
| Display and audio (`B/display.py`, `B/audio.py`), watcher (`B/state.py:284-313`) | the kind that answered last, last connection state | list, set mode, set sink, poll | handlers, watcher, /status and /health in the pool | simulated hardware is not shown as real; a setting goes to the hardware that advertised it; each lasting outage is noticed and told |
| Database boot (`B/db.py:42-67`) | schema_migrations | migrate | boot, CLI | a schema is applied once; the service comes up again |
| Configuration (`B/config.py`) | one dictionary shared by all threads, one YAML file, one row of table appliance | load, set, set_pin, import, save, setup | handlers on the loop and in the pool, CLI with a copy of its own | the file is always whole; what was acknowledged is kept |
| Tokens (`B/auth.py`) | table auth_token | issue, check | every control request | an expired token is refused |
| Evidence (`B/evidence.py`) | two files per photo, table evidence | upload | the phone | a row has both files; what was attached is recorded |
| Web UI (`src/frontend`) | page state | guided test, review, setup | the engineer | no step is answered twice unseen; the step's pattern comes to the output |
| CLI, packaging, deployment, public release | none at run time | | | |

Interactions: handlers call the store and the soak runner directly; the watcher
calls the soak runner and the store; `complete` turns the output back to
Identify; a report turns it to the report screen; every change is published to
the hub, from which the kiosk and the web UI take it; the panel script sees
the appliance only through polled `/status` answers.

The behaviours that are hard: statements of several requests interleaving
(store); the one real suspension in the soak runner, `await self.task` in
`stop`; coroutines of the panel that sleep while the session moves on; report
rendering that takes seconds; a process kill anywhere; calls that get lost;
attributes that loop and threads share (`kind`, the configuration dictionary);
one temporary file for all saves; page calls that are sent and not awaited, and
pages that are left while they wait.

## 2. Modules

| Module | What it is |
|---|---|
| `SessionLifecycle` | abstract: the guided state machine of `sessions.py`, one indivisible step per operation |
| `SessionStore` | `sessions.py` one SQL statement per step, with the workers that execute requests and kills of the process |
| `MCSessionStore` | symmetry of tests and pool threads for the runs of the store |
| `SessionStoreProofs` | theorems about the store |
| `SoakRunner` | soak runner and pattern control, one step per stretch of code between two suspensions |
| `SoakRunnerProofs` | theorems about rows, tasks and faults of soak runs |
| `RoomPanel` | panel script, polled state, current-session aliases, the phone beside them |
| `RoomPanelProofs` | theorems about TEST COMPLETE and the test shown |
| `ReportArchive` | report requests, files, table, and the report screen of the kiosk |
| `ReportArchiveProofs` | theorems about revisions, files and the code on the screen |
| `EventHub` | queues of the subscribers, event sockets, the pages that connect again |
| `EventHubProofs` | theorems about the kiosk's health check and the way of a pattern to it |
| `OutputBackends` | display and audio backends that probe on every call, their settings, the connection watcher |
| `OutputBackendsProofs` | theorems about labels, settings and the event log of the outputs |
| `Provisioning` | configuration file and dictionary, setup and import, command line, migration, boot |
| `ProvisioningProofs` | theorems about the file and about what was acknowledged |
| `GuidedTest` | the phone's test page, its calls, evidence files |
| `GuidedTestProofs` | theorems about retests and evidence |

### SessionStore and SessionLifecycle

`row` and `attempts` are the tables session and test_attempt, cut to what the
rules speak of: status, deleted, the selected tests, whether `completed_at` is
set; results by attempt number. Of system_event the two types that record a
change of history are kept as `missing`: for each session and type, the changes
that call for an event less the events there are. A worker's `pc` names the
statement it executes next, `seen` the row its `get_session` returned, `victims`
the rows `abandon_active` still has to retire, `wrote` the tables its request has
changed so far. Writes are UPDATEs by id, so they hit whatever the row has become
since it was read; that is the source of all the races below. `CanRun` keeps the
division of the handlers: start, attempt and complete on the loop (never
overlapping each other), the rest in the pool, `autostart` being a creation that
starts its session in the pool.

A creation stores its project first, in a statement that is committed before the
session may be refused ("project"); the rows of table project are not kept, as no
guard reads them, and neither is a duplicate row that two creations of one new
project may leave. The reference TL-yyyymmdd-NNN is its number; `MaxSessions`
bounds a day. Two creations may read the same highest reference; the primary key
then refuses the second (`InsertCollides`, HTTP 500). References sort as text: past
999 a day every further creation reads 999 and collides, so the module ends there.
Notes, captions, people and captured hardware state are left out: no guard reads
them, except the note of a failed attempt and the reason of a reopening, which are
the answers `unexplained_fail` and `blank`.

`Lifecycle` maps the tables to the abstract phases: a deleted draft is
discarded, any other deleted session retired, a retest has left review as soon
as its attempt is recorded. The abstract specification has no history of the
statements in between, and lets only one session be active.

### SoakRunner

`status` and `faults` are columns of soak_run, `live` the state of each asyncio
task, `task` and `runId` the two attributes of the runner. A request either
finds no running soak and finishes at once, or cancels the task and waits.
`ready` is the loop's own queue: awakened requests of one task run in one
batch, in the order in which they began to wait, and nothing that comes from
outside runs inside the batch (`draining`). `Resume` is the rest of `stop` and
of the request after its `await`; it works on `runId` and `task` as they are
then. `ended`, `outages` and `overlapped` are history;
the last one is true once a request came in while another was waiting, which is
where the promises of the runner end. `Crash` is a kill and the boot after it;
`Shutdown` is the orderly end of the lifespan, which waits for the requests and
stops the soak (`stop_watcher`). `MaxStops` bounds both together.

### RoomPanel

Each press of a button is a coroutine with a `pc`: a call, the settle delay, the
next step. Calls are answered within the delay or lost. `polled` is what the
driver keeps of `/status`, `text` the label the panel shows together with the
session it was meant for. The appliance side is the lifecycle, one call at a
time, with the two different notions of "current session" the code has:
`Current` for the aliases (`in_progress` or `review`) and `InProgress` for
`/status`. `Impatient` names the buttons that may be pressed before the last
press was dealt with; the run has all three of them in it. A rendering takes the
number of its revision when it begins (`number`) and ends as a report or fails:
by a collision with another rendering of its session, which took the number
first, or for reasons of its own; `failed` remembers that, and the script
goes on as if there were a report. `overtaken` remembers a path that was started
while a report was rendered, until a step of it opens after the rendering's end.
Room preparation and the failure note are left out.

### ReportArchive

A job is one report request: `Build` (the completed check), `Number`
(MAX(revision)+1 and the day of the file names), `WriteJson`, `Render` or
`RenderFails`, `Insert` (UNIQUE (session_id, revision)), `ShowReport`. The
content of a file is the job that wrote it. Files are named by project, room,
path, day and session, not by revision. `kiosk` is the page: the pattern, the
row named on the screen, the row behind the QR bitmap, and whether it came up
for one report with no older image on its way (`calm`, history). `load[j]` is
the image request that the screen of job j made. A frame reaches the kiosk in
the step that publishes it; `EventHub` has the way it takes.

### EventHub

`publish` and the start of `events_ws` do not suspend where it matters (nothing
awaits while it holds the hub's lock, so taking it never does), hence a change of
pattern with its frames is one step, and so are the flag, the subscription and
the snapshot of a new socket. A pattern is the number of its activation, so that
"older" means something; every other event is 0. `queue` is the subscriber's
queue, `wire` what was sent and not received, `conn` the page's view of its
socket and `owner` the server's: they differ between a cut and the moment the
handler notices it, in which the page may have connected again. `since` and
`overlapped` are history: how many other events followed the active pattern, and
whether two kiosk sockets were open at once. Control pages are in the model for
their queues and for `kiosk_connected`, which they must not touch; they ask
`/status` after an event and every 15 seconds, so nothing is claimed of what
they show.

### OutputBackends

`backend` is the configured backend of each device, `kind` the attribute of the
auto backend, which the loop and all pool threads share. An operation of the
loop (a turn of the watcher, a mode or sink request) is not suspended, but the
pool's `/status` and `/health` run beside it, so a step ends at the probe, at
the assignment of `kind` and at its use. `Probe` is the answer of the server at
that moment, with the fallback; "real" is xrandr or pactl. `task[w].src` is who
answered worker w's probe. `last` is `_last_output_connected`; `told`, `lost`,
`silent` (what the last written event says; whether a write failed, or a watcher
began, since), `crossed` and `shaken` (another worker was busy with the device, its
server came or went meanwhile) are history. The first turn of a watcher writes no
event: it only remembers the connection it finds, so that what changed while the
service was down is told by nobody.

### Provisioning

`mem` is the dictionary of the service; the command line has `task["cli"].own`.
Request n writes n to the keys it sets, so "later" means something. `path` and
`tmp` are inodes: a thread that has the temporary file open goes on writing to
the inode after another thread's `os.replace` has made it the configuration
file. Two documents over each other may leave the tail of the longer one
("garbled"). An import builds a new dictionary and swaps it in (`Merge`,
`Swap`) and may bring any value: key "start" stands for the settings a start of the
service depends on, the port of `server.port` first, and `unfit` for the imports
whose value no start survives. The service reads the file twice when it starts, in
`cmd_serve` and in `lifespan`, which is one step here; `cmd_init` reads it again
after its save (`LoadAgain`). `schema` counts the statements of the script that took effect,
`versioned` is the row of schema_migrations. `Check`, `Script` and `Version` are
executed by the boot and by `cmd_init`, at once if it so happens; so are
`Select`, `InsertRow` and `UpdateRows` of the appliance row. `Kill` stops the
service, the command line, or both. `acked`, `named`, `overlapped`, `beside`
and `cut` are history.

### GuidedTest

`shown` is the page, `known` the steps its copy of the session has as answered,
`acts` the activations on their way, which arrive in any order. A press is an
element of `work` that goes through its calls: the attempt, and per photo the
original, the derivative and the row, then the session again. `busy` is state of
the mounted page and disables the answer buttons only, so `Move` changes step and
photos under a press, and `Leave` (the tab bar, and the resume link back) mounts a
page that is not busy. A press keeps the photos it had when it began, as the
closure does, and says who waits for it (`from`): the page, the closure of a page
that was left, which makes its calls to the end and, with no step open, still
navigates to the review (`MoveAway`), or nobody, after a reload or a lost
connection. `Loading` is also the phone on another page. The end of a soak step
puts the identify pattern on the output (`SoakEnds`). `doubtful` are the steps of
presses whose end no page saw, `failed` the files whose derivative failed (history).

## 3. Runs

Passing runs:

| Run | Instance | Question and result |
|---|---|---|
| `store_serial` | 2 sessions, 2 tests, 1 request at a time, 3 answers, 1 kill | the store implements the lifecycle through kills; one active session; verdict earned; completed sessions read-only |
| `store_races` | 2 sessions, 1 test, 2 answers, loop and 2 pool threads, 2 requests in flight (create, start, attempt, complete, reopen), 1 kill | what survives the races: a start that ran alone leaves exactly its session active; an audit event is lost only by a killed request; a refused request has changed nothing but a project; the verdict stored is the one the answers give when it is stored |
| `soak` | 3 requests at once, 3 runs, 1 outage each, 1 kill or orderly stop | while no request comes in during a cancellation: rows, owners and faults are right, and every run is closed; whatever overlaps: closed rows are frozen |
| `panel` | 2 presses at once, 2 tests, 2 sessions, 2 report revisions, 1 lost call, 1 intervention of the phone per session, every button pressed at any time | the panel gets back in step, answers the test shown, announces only true completions but for a path started beside a rendering, and reports a session that is answered in full unless a rendering of it fails |
| `reports` | 3 requests, 2 sessions, 2 days, 1 change of status, 1 kill | revisions without gaps, files of the last report of a day intact, fresh code on a fresh screen |
| `hub` | a kiosk and a control page, 3 sockets, queues of 2, 3 patterns, 2 breaks or kills | the active pattern is on its way to the kiosk or shown, never after a newer one; `kiosk_connected` is wrong only after two kiosk sockets overlapped; the kiosk shows the active pattern in the end |
| `output` | loop and 1 pool thread, display backend auto or real, audio auto, 2 changes of servers or cable, 1 failing write, 1 restart | labels and settings are those of the backend that listed, unless another probe and a coming or going server fall together; the event log tells the connection unless a write failed or the service was started since; outages that last are noticed |
| `provisioning` | loop, 2 pool threads and the command line, 2 requests, 2 kills, a script of 2 statements | file whole and settings kept as long as requests do not overlap; the service comes up again unless a kill hit the script, two saves garbled the file or an import brought a setting no start survives |
| `guided` | 2 steps, the second a soak, 4 presses, photos or moves between pages in all, 1 fault | only a step whose press failed or was left is answered twice unseen, photos are recorded with their press and rows have files, the pattern of the step comes |

Runs that end in a counterexample, each against a sentence of the repository:

| Run | Shows |
|---|---|
| `soak_false_completed` | a soak started while another request still awaits the cancelled one is orphaned by it; at its end the orphan completes the row of a third soak that is still running, against AC-12 |
| `panel_false_complete` | with the session in review on the phone, `/status` falls back to an older completed session and an empty next test; the panel completes, reads the other session's status and shows TEST COMPLETE |
| `panel_unsafe_start` | a path is started while the report of the last one is rendered: the script of the last one then writes TEST COMPLETE beside the name of the new path, whose test has only begun, against "pressing a 'start path' button is always safe" (`docs/api-openavc-integration.md`) |

Rules that the model also breaks and that have no run of their own. They are
read off the models; the conditions under which the checked properties hold
name them.

Store (two requests in flight; each is found by adding the property to a run
with InFlight = 2):

* a start on the loop and an autostart in the pool both read the active rows
  before either marks its own: two active sessions (`SingleActive`), against
  "Only one session can be worked at a time" (`sessions.py:207`);
* a PATCH that read the draft before the session was started writes its
  selection into the completed session, which then passes with an unanswered
  test (`VerdictEarned`, `sessions.py:185`, against FR-37);
* a review request that read `in_progress` writes `review` over a session
  completed meanwhile (`sessions.py:360`); a DELETE that read a draft deletes it
  after it was started, without an event (`sessions.py:202`);
* a kill between two statements loses the event of a retirement or a reopening
  (`sessions.py:220, 396`), which `HistoryAudited` bounds by one per killed
  request; two creations that read one highest reference collide, and so does every one
  after the 999th of a day.

Soak, panel, reports: a soak whose cancellation overlaps the start of another,
or that a kill ends, stays `running` in the table; an earlier revision of a day
keeps its row, while its files and its checksum are those of the later one; a
second report while the report screen is up changes the session named there and
keeps the old QR code (`patterns.js:47` against the comment at 99-100); a report
whose rendering fails is announced by the panel all the same
(`room_commissioning_example.py:102`).

Outputs, configuration, phone:

* a pool thread's probe between the loop's listing and its reading of `kind`
  labels simulated outputs as xrandr when the X server comes up just then
  (`display.py:196`), against the docstring at `display.py:180-182`; a mode may
  be set on the other backend than the one that advertised it (`display.py:204`);
* an outage, or its end, while the service is down is in no event: the first turn
  of the watcher only remembers what it finds (`state.py:289`);
* a power cut inside the first migration leaves a schema without its version,
  and the service never boots again (`db.py:61`), against
  "The appliance recovers from power loss by itself"
  (`docs/operator-guide.md`); so does a configuration file garbled by two saves
  through one temporary file (`config.py:178`);
* an import is not held against the schema: a `server.port` that `int()` refuses is
  saved with answer 200, and stops every later start (`config.py:195`,
  `cli.py:41`, against `config.schema.json:39`);
* a setting made while an import merges is lost, one made by the command line
  is overwritten by the next save of the service; two first setups at once
  leave two appliance rows, which every later setup fails on;
* a photo attached while a press is dealt with is not uploaded, and is dropped
  when the page moves on; an answer whose photo failed leaves the step open, and
  pressing again records a retest; an engineer who leaves the page by the tab bar
  while a press is under way and comes back may find its step open and answer it
  again (`App.tsx:63`, `GuidedTest.tsx:25`); one picture attached twice loses its original
  when its second copy fails (`evidence.py:99`).

### Bounds

Two sessions are what the single-active rule needs, and one retired by another
is the longest dependency between rows. Two tests separate "all answered" from
"some"; "latest" differs from "first" after two answers, three (of all sessions
together) leave a retest after both tests were answered. The races have one test
and two answers: one that a completion read, and one recorded before it writes.
A race needs two requests; three at once are not checked by the runs; the
theorems about starts that ran alone, about the stored verdict and about the
audit events are what holds for any number. One kill is enough because a kill
forgets all workers and the tables afterwards are an initial situation of the
same kind;
one per run keeps the audit bound sharp. Three handlers and three runs let one
request orphan a soak and another start the run whose row it closes. Three
report requests allow two that share a revision and one that follows them.
Clients send only requests about sessions that exist; unknown ids are refused
by the same read and would add nothing. The hub's queue holds 2 instead of 200: full,
a pattern at its head, and room are the cases. Three sockets let a kiosk connect
while an old socket of its own is still open and the control page has one.
The output run has one pool thread: two workers make every overlap of `kind`,
and the theorems hold for any number; both configured kinds of display are
initial states. Two changes let a server come and go under one operation. The
two requests of the provisioning run overlap in every way two threads, or a
thread and the command line, can; a third would add no kind of overlap to the
one temporary file. Two kills let the boot after an interrupted boot be
interrupted. The guided run has room for two answers, the way back
from the review and a retest; for a press that is left, the page mounted anew and
a press on it, with a photo; and for a picture attached twice. A fifth deed was run
once: it took too long for a regular run and showed nothing new. The one
fault is any of a lost activation, a failing call, a kill or a reload.
Deadlock is checked except in the reports, hub, provisioning and guided runs,
where requests, activations and presses are used up and the system stops.

### Fairness

No fairness for clients and kills. The store is checked for safety only: each of
its requests is a bounded number of statements and waits for no other.
`SoakRunner!FairSpec`: the loop resumes what is ready, delivers a
cancellation, and time passes, so that a soak ends. `RoomPanel!FairSpec`: a
coroutine goes on when its delay or its call is over. `EventHub!FairSpec`: pages
try again 1.5 or 2 seconds after a close and read what arrives, the server's task
per socket sends, and the pings of the WebSocket server find a dead socket. Liveness of the panel is
stated with its escapes (a lost call, the phone, a new path), none of which is
assumed away. `OutputBackends!FairSpec`: what the loop has begun goes on, and the
timer of the watcher is served among any number of requests, which is a strong
fairness of `Watch` as each request disables it for a while; nothing is assumed
of pool threads. `Provisioning!FairSpec`: systemd starts the service again
(`Restart=always`), and what runs goes on running. `GuidedTest!FairSpec`: an
activation that is not lost arrives; engineer and presses owe nothing.

## 4. Proofs

Checked by TLAPS. Each theorem holds for every value of the constants: any
number of sessions, workers, presses, requests, faults and kills, where the runs
of section 3 take two or three. The only hypotheses are the assumptions of the
modules (that bounds are numbers, that the pool is finite and has neither the
event loop nor the command line in it, that there is one event loop) and those
named here. No property is inductive by itself; what makes it so is the
invariant named with it, whose conjuncts are commented where they are defined.

### SessionStoreProofs

* `TypeCorrect`: []TypeOK. That a write names a session, stores a verdict or an
  answer of the schema depends on what the request has read. `RequestOK` says
  what each statement knows of its request; `TypeInv == TypeOK /\ RequestOK`.
* `StartAloneWinsAlways`: a start or reopen that no other request overlapped
  leaves exactly its session active. The hypothesis must say nothing of the
  past, which may have broken the rule; `AloneInv` says of a request that is
  alone that the others are idle and what it knows at each statement (`Solo`):
  at "retire" all active rows are among its victims and its own is not.
* `HistoryAuditedAlways`: a kill costs each request in flight one audit event at
  most, and nothing else costs any; each retirement and each reopening counts, a
  second one of a session too. `AuditInv` says that what is missing of a session
  covers what is about to be recorded for it (`Pending`), so an event that is
  written is one that was missing; `StepAudited` that every step adds a missing
  event only together with a worker that will record it, and a kill forgets no
  more of those than there are busy requests.
  Hypothesis: no DELETE requests, whatever overlaps, or one request in flight.
  It is needed: a DELETE that read a draft may delete it after it was started
  (section 3), and `NoDelete`, that no draft is ever deleted or retired, is what
  the other statements rely on.
* `RefusedChangesNothingAlways`: a request answered with an error has changed
  nothing but the project of a creation, for any overlap, unless another request
  took its session over meanwhile (`Taken`). `CleanInv` says for the statements
  after which a request may still be refused what it can have written.
* `EarnedAtCompletionAlways`: whatever overlaps, `complete` stores the verdict
  the answers give at that moment. `LoopInv`: workers execute what their kind
  executes, and attempts and completions are both of the loop, of which there is
  one. This is the theorem that would fail if either became a plain `def`.
* With one request in flight (InFlight = 1), through every kill between two
  statements: `SingleActiveWhenSerial`, `VerdictEarnedWhenSerial`,
  `CompletedReadOnlyWhenSerial`. Every request is then alone (`SerialInv`), and
  `Known(w)` says at each statement what a lone request knows of the row it
  read: its status, that it is not deleted, that the answers counted are those
  stored, whether it has written. `RowsInv` says what is true of rows nobody
  works on.
  `SerialStore == TypeInv /\ AloneInv /\ SerialInv /\ KnownInv`.
* `ImplementsLifecycleWhenSerial`: with one request in flight `SessionStore`
  implements `SessionLifecycle`. Each statement is shown to be invisible
  (`Invisible`), or a write of one row that the abstract specification allows
  (`VisibleWrite`, `UpdateMapped`); `StepMapped` puts the statements together,
  `CrashMapped` shows that a kill maps to a stutter, or to the return from review
  for which a retest was recorded.

### SoakRunnerProofs

`RunnerInv == TypeOK /\ Booked /\ RowsInv /\ QueueInv`: a task comes with its
row and the runner's `runId` names an open row or none (`RowsInv`), every request
that waits will find room for its row (`Booked`), and somebody waits for exactly
the tasks that are being cancelled (`QueueInv`).

* `TypesOfSoaks`, and `ClosedRunsFrozenAlways`: a closed run keeps its status and
  its faults, whatever requests overlap.
* `CompletedSeriallyAlways`, `LiveRunOwnedAlways`, `FaultsOfThisRunAlways`: as long
  as no request came in while another was waiting, a completed run ran its full
  time, a live task is the one that would be cancelled with the row that would
  be closed, and the faults of a run are the outages that fell into it. `Serial`
  says that unless `overlapped`, either nobody waits and at most one task lives,
  which is the runner's (`Quiet`), or one request waits for the one task it
  cancelled (`Stopping`). The condition is the property's own, and the
  counterexample of `soak_false_completed` shows that it is needed.

### RoomPanelProofs

* `TypesOfPanel`, for a finite number of coroutines. Revisions are bounded only
  because each rendering on its way is counted (`ReportsInv`), and a rendering
  is of a session that exists; one session is active (`SoloInv`).
* `CompleteMeansTestedAlways`: without lost calls and without the phone, TEST
  COMPLETE is true of the path the panel names, but for a path that was started
  beside a rendering, until its next step opens. Unless so overtaken, nothing is
  active while a report is rendered (`RenderInv`), the label names the last session
  begun (`PathOK`), and whoever takes it for completed, the polled status, a
  rendering or the label, is right (`DoneOK`).
* `PanelInStepAlways`: a press that is let finish shows the test that is next, and
  a patient operator answers the test shown. `CalmInv`: a press that nothing
  interfered with is the only one, and what it polled still holds. `StepOK`: only
  an answer on its way makes the polled test wrong, and only a step on its way
  the output.

Both hold for any set of `Impatient` buttons; the exception of a path started
beside a rendering is the properties' own, and the counterexample of
`panel_unsafe_start` shows that it is needed.

### ReportArchiveProofs

* `TypesOfReports` and `RevisionsContiguousAlways`: the revisions of a session are
  1, 2, 3, ... in the order of their rows. `FiledInv`: the rows are those of the
  jobs that were inserted. `CountInv`: a numbered job is at most one
  above the rows of its session, so UNIQUE lets it in only as the next.
* `LastOfDayIntactAlways`: the files of the last report of a session and day are
  its own, unless another request is at work on them or failed after it wrote.
  `JsonInv` and `PdfInv` say of each file a job wrote that its last writer is that
  job, is at work or failed, or is filed with no lower revision.
* `FreshCodeAlways`: a report screen that came up for one report with no older
  image on its way shows no code older than the report it names (`ScreenInv`).

### EventHubProofs

* `KioskReportedAlways`: the health check is right about a kiosk that did not
  overlap with another. What a closing kiosk socket leaves depends on the others
  that are open: `SeveralOverlap` adds that two open kiosk sockets are always
  remembered by `overlapped`.
* `TypesOfHub`: among others, no queue exceeds its maximum, which a plain append
  would not keep.
* `ActivePatternAlways`: a kiosk with a socket has the active pattern on its
  screen, on the wire or in its queue until as many other events came since as a
  queue holds, and never an older one behind a newer. Screen, wire and queue of a
  kiosk are one line of messages (`Line`); `Ready` says that the line has nothing
  newer than the active pattern, is in order, and ends in it but for what came
  since. Lemmas show what dropping the oldest, appending, sending and receiving
  do to such a line; `Held` and `Clean` say that sockets belong to pages and that
  a free one is empty.

### OutputBackendsProofs

* `TypesOfOutputs`.
* `KindIsOfTheAnswerAlways`: another worker may assign `kind` between a worker's
  assignment and its use. Three facts close it. `CrossInv`: two workers busy with
  a device know of each other. `AnswerInv`: the answer an auto backend's worker
  holds is still its server's, unless the server changed meanwhile. `KindInv`:
  from the assignment to the use `kind` is that of the answer, unless another
  worker was there and the server changed. So two workers whose answers differ
  (`AnswersDiffer`) are crossed and shaken, and an assignment by the one spoils
  only what the property excepts.
* `LogTellsAlways`: the event log tells the connection the watcher knows, unless a
  write failed or the service was started since the last event; inductive with the
  types.

### ProvisioningProofs

* `TypesOfProvisioning`: also that a save always finds an inode for its temporary
  file, since fewer are held open than there are (by counting workers).
* `FileIsWholeAlways`: without overlap the file is at every step, and after every
  kill, a whole document whose salt and hash are of one PIN. `FileInv`: one
  worker is at work, the temporary file is its own, and salt and hash are apart
  in the dictionary only between its two assignments.
* `AcknowledgedIsKeptAlways`: without overlap, and without a service that saved
  over settings of the command line, what was acknowledged is in the file and in
  the one appliance row. `KeptState` says what file, dictionary and row keep,
  `KeptWorker` what the document of the one worker at work has of it at each step.

### GuidedTestProofs

* `TypesOfGuidedTest`, with `ChainInv`: what each press still has to upload is the
  rest of what it began with, the photos before have their rows, and no two
  presses add evidence to one attempt.
* `NoBlindRetestAlways`: a step is answered again only by an engineer whose page
  showed the result, but for the steps of a press whose call failed or whose page
  was left or reloaded before it was over. `OnePress`: the page deals with one
  press at a time; a press that is not the page's own is in doubt; an answer the
  page does not know of is that of its own press or in doubt.
* `EvidenceIsWholeAlways`: a press that finished has recorded its attempt and all
  its photos, and every evidence row has both files, unless one picture was
  attached twice and its second derivative failed (`FinishedWhole`, `RowsWhole`). Both rest on
  `ChainInv`, which follows each photo through original, derivative and row.

### Only model-checked

`AnsweredIsReported`, `EveryRunCloses`, `ShownInTheEnd`,
`WatcherNotices`, `ServiceComesUp` and `PatternComesWithStep` are liveness under
fairness, which is beyond the prover, as ENABLED is. Every invariant and action
property of a passing run is stated by a theorem; those of the store that need
InFlight = 1, and those that carry their own condition, are false beyond it, as
section 3 lists.

## 5. Not modelled, and the plan

Left out for good:

* drawing and audio synthesis, HTML and PDF content, parameter ranges of
  patterns, static files, packaging, deployment, the export of the public
  repository: they keep no state that a step could spoil;
* the rows of table project: no rule about sessions reads them; that a creation
  writes one before it may be refused is in `SessionStore`;
* access tokens: a row with an expiry; nothing else changes or reads it but
  the check of a request;
* parsing of xrandr and pactl output, preferred connector and sink: functions
  of one answer;
* captions and deletion of evidence, diagnostics, health details: written or
  read once, no other state depends on them.

Composition that is still open: `SoakRunner` and `OutputBackends` with
`SessionLifecycle`, so that faults and `soak_completed` are booked on a session
(they are booked on the one in progress at that moment, `state.py:315, 427`, so
`soak_completed` may speak of a visit that did not start the soak);
`RoomPanel` with `ReportArchive`, for which report the screen shows.

Theorems to prove next: what remains true of the store when requests overlap, as
a weaker abstract specification that it implements for any InFlight (an active
session replaced late, a row written back); that a kill leaves `SoakRunner` at most
one row `running` for ever, per kill and per overlap.
