--------------------------- MODULE OutputBackends ---------------------------
(***************************************************************************)
(* The display and audio outputs: display.py and audio.py with their       *)
(* re-probing "auto" backends, and what state.py does with the answers     *)
(* (output_state, set_mode, set_audio_sink, the connection watcher).       *)
(*                                                                         *)
(* The event loop runs one operation at a time to its end: the watcher,    *)
(* the mode and sink requests, pattern_state.  Synchronous endpoints       *)
(* (/status, /health) run in pool threads and cross it at any point: they  *)
(* share the backend objects and so the attribute kind.  A step ends where *)
(* another thread can come in between: the probe, the assignment of kind,  *)
(* the read of kind.  "real" stands for xrandr and for pactl.              *)
(***************************************************************************)
EXTENDS Naturals

CONSTANTS Pool,          \* pool threads
          DisplayBackends, AudioBackends, \* the configurations considered
          MaxChanges,    \* bound: a server or the cable comes or goes
          MaxFailures,   \* bound: event writes that fail
          MaxRestarts    \* bound: restarts of the service

ASSUME OutputBounds == /\ DisplayBackends \cup AudioBackends
                               \subseteq {"auto", "real", "mock"}
                       /\ MaxChanges \in Nat /\ MaxFailures \in Nat
                       /\ MaxRestarts \in Nat

Device == {"display", "audio"}
Backends == [display : DisplayBackends, audio : AudioBackends]
Worker == {"loop"} \cup Pool

VARIABLES
    backend,   \* hardware.display_backend and hardware.audio_backend
    server,    \* server[d]: X, resp. a sound server with a sink, answers
    plugged,   \* the HDMI cable is in
    kind,      \* kind[d] of the auto backend
    task,      \* task[w]: the operation of worker w and its next step
    last,      \* _last_output_connected: yes, no or unknown
    told,      \* the connection as the event log tells it (history)
    lost,      \* an event write failed since the last connection event
    silent,    \* a watcher began since that event, and wrote none (history)
    changes, failures, restarts,
    shaken     \* devices whose server came or went during an operation

environment == <<backend, server, plugged, changes>>
log == <<told, lost, silent>>
watcher == <<last, log>>
vars == <<environment, kind, task, watcher, failures, restarts, shaken>>

\* An operation: read, watch or set, on one device; who answered its probe; and
\* whether another worker was busy with the device meanwhile (history).
Idle == [step |-> "idle", op |-> "read", device |-> "display",
         src |-> "none", connected |-> FALSE, crossed |-> FALSE]
Busy(d) == {w \in Worker : task[w].step # "idle" /\ task[w].device = d}
Goto(w, step) == task' = [task EXCEPT ![w] = IF step = "idle" THEN Idle
                                             ELSE [@ EXCEPT !.step = step]]

Init ==
    /\ backend \in Backends
    /\ server \in [Device -> BOOLEAN] /\ plugged \in BOOLEAN
    /\ kind = [d \in Device |-> "mock"]
    /\ task = [w \in Worker |-> Idle]
    /\ last = "unknown" /\ told = "unknown" /\ lost = FALSE /\ silent = FALSE
    /\ changes = 0 /\ failures = 0 /\ restarts = 0
    /\ shaken = {}

-----------------------------------------------------------------------------
(* What a probe answers at the moment it reaches the server.               *)

RealAnswer(d) == [src |-> "real",
                  connected |-> IF d = "display" THEN plugged ELSE TRUE]

\* Mutant: the mock keeps the kind of the interface class.
MockAnswerUnknown == [src |-> "unknown", connected |-> TRUE]

MockAnswer == [src |-> "mock", connected |-> TRUE]

\* A failing probe falls back to the mock in an auto backend; a backend that
\* is configured as real raises, which output_state turns into no outputs.
Probe(d) == IF backend[d] # "mock" /\ server[d] THEN RealAnswer(d)
            ELSE IF backend[d] = "real" THEN [src |-> "error", connected |-> FALSE]
            ELSE MockAnswer

\* What the attribute kind says, and the backend a setting is sent to.
Kind(d) == IF backend[d] = "auto" THEN kind[d] ELSE backend[d]

\* Where an operation goes on once its outputs are listed.
AfterListing(w) == IF task[w].op = "read" THEN "label"
                   ELSE IF task[w].op = "watch" THEN "compare" ELSE "find"

-----------------------------------------------------------------------------
(* Operations                                                              *)

Begin(w, o, d) ==
    /\ task[w].step = "idle"
    /\ task' = [v \in Worker |->
          IF v = w THEN [Idle EXCEPT !.step = "probe", !.op = o, !.device = d,
                                     !.crossed = Busy(d) # {}]
          ELSE IF v \in Busy(d) THEN [task[v] EXCEPT !.crossed = TRUE]
          ELSE task[v]]
    /\ shaken' = IF Busy(d) = {} THEN shaken \ {d} ELSE shaken
    /\ UNCHANGED <<environment, kind, watcher, failures, restarts>>

\* output_state and audio_state, from a request or from pattern_state.
Read(w) == \E d \in Device : Begin(w, "read", d)
\* One turn of _watch_output.
Watch == Begin("loop", "watch", "display")
\* POST /output/mode and POST /audio/sink.
Set == \E d \in Device : Begin("loop", "set", d)

\* The subprocess of list_outputs or list_sinks.  Only an auto backend has a
\* kind to assign; an error ends a read or a setting, not the watcher.
List(w) ==
    /\ task[w].step = "probe"
    /\ LET d == task[w].device
           a == Probe(d)
           step == IF backend[d] = "auto" THEN "kind"
                   ELSE IF a.src = "error" /\ task[w].op # "watch" THEN "idle"
                   ELSE AfterListing(w)
       IN  task' = [task EXCEPT ![w] =
                      IF step = "idle" THEN Idle
                      ELSE [@ EXCEPT !.step = step, !.src = a.src,
                                     !.connected = a.connected]]
    /\ UNCHANGED <<environment, kind, watcher, failures, restarts, shaken>>

\* Mutant: the fallback to the mock does not say so.
AssignKindWhenReal(w) ==
    /\ task[w].step = "kind"
    /\ kind' = IF task[w].src = "real" THEN [kind EXCEPT ![task[w].device] = "real"]
               ELSE kind
    /\ Goto(w, AfterListing(w))
    /\ UNCHANGED <<environment, watcher, failures, restarts, shaken>>

\* self.kind = ..., on the object all threads share.
AssignKind(w) ==
    /\ task[w].step = "kind"
    /\ kind' = [kind EXCEPT ![task[w].device] = task[w].src]
    /\ Goto(w, AfterListing(w))
    /\ UNCHANGED <<environment, watcher, failures, restarts, shaken>>

\* The answer is sent with the kind of this moment.
Label(w) ==
    /\ task[w].step = "label"
    /\ Goto(w, "idle")
    /\ UNCHANGED <<environment, kind, watcher, failures, restarts, shaken>>

\* find_mode, and the check for a known sink: 422 when it is not listed.
Find(w) ==
    /\ task[w].step = "find"
    /\ \/ Goto(w, "idle")
       \/ task[w].connected /\ Goto(w, "apply")
    /\ UNCHANGED <<environment, kind, watcher, failures, restarts, shaken>>

\* set_mode and set_default_sink go to the backend kind names now; either may
\* refuse (502), and the real one does when its server is gone.
Apply(w) ==
    /\ task[w].step = "apply"
    /\ \/ Goto(w, "idle")
       \/ /\ Kind(task[w].device) = "real" => server[task[w].device]
          /\ Goto(w, "event")
    /\ UNCHANGED <<environment, kind, watcher, failures, restarts, shaken>>

\* A write of the event log; it may fail (disk full, database locked).
WriteFails == failures < MaxFailures /\ failures' = failures + 1

\* record_event, then the outputs are listed again for the reply.
RecordSetting(w) ==
    /\ task[w].step = "event"
    /\ \/ /\ task' = [task EXCEPT ![w].step = "probe", ![w].op = "read"]
          /\ UNCHANGED failures
       \/ WriteFails /\ Goto(w, "idle")
    /\ UNCHANGED <<environment, kind, watcher, restarts, shaken>>

AsState(connected) == IF connected THEN "yes" ELSE "no"

\* Mutant: only disconnections are compared.
CompareLosses ==
    /\ task["loop"].step = "compare"
    /\ LET now == AsState(task["loop"].connected)
       IN  IF last = "unknown" \/ now = "no"
           THEN /\ last' = now
                /\ silent' = IF last = "unknown" THEN TRUE ELSE silent
                /\ Goto("loop", IF last \in {"unknown", now} THEN "idle" ELSE "log")
           ELSE UNCHANGED <<last, silent>> /\ Goto("loop", "idle")
    /\ UNCHANGED <<environment, kind, told, lost, failures, restarts, shaken>>

\* The first turn of a watcher only remembers what it sees, and writes nothing
\* even when the log says otherwise; a later one goes on to the log when it
\* sees a change, which it has remembered by then.
Compare ==
    /\ task["loop"].step = "compare"
    /\ LET now == AsState(task["loop"].connected)
       IN  /\ last' = now
           /\ silent' = IF last = "unknown" THEN TRUE ELSE silent
           /\ Goto("loop", IF last \in {"unknown", now} THEN "idle" ELSE "log")
    /\ UNCHANGED <<environment, kind, told, lost, failures, restarts, shaken>>

\* Mutant: reconnections are not recorded.
LogLosses ==
    /\ task["loop"].step = "log"
    /\ \/ /\ told' = IF last = "no" THEN last ELSE told
          /\ lost' = FALSE /\ silent' = FALSE /\ UNCHANGED failures
       \/ WriteFails /\ lost' = TRUE /\ UNCHANGED <<told, silent>>
    /\ Goto("loop", "idle")
    /\ UNCHANGED <<environment, kind, last, restarts, shaken>>

\* note_fault and record_event; when either fails the watcher only sleeps.
Log ==
    /\ task["loop"].step = "log"
    /\ \/ told' = last /\ lost' = FALSE /\ silent' = FALSE /\ UNCHANGED failures
       \/ WriteFails /\ lost' = TRUE /\ UNCHANGED <<told, silent>>
    /\ Goto("loop", "idle")
    /\ UNCHANGED <<environment, kind, last, restarts, shaken>>

-----------------------------------------------------------------------------
(* The environment, and the service started again.                         *)

Change == changes < MaxChanges /\ changes' = changes + 1

\* X or the sound server comes or goes.
ServerChanges(d) ==
    /\ Change
    /\ server' = [server EXCEPT ![d] = ~@]
    /\ shaken' = IF Busy(d) # {} THEN shaken \cup {d} ELSE shaken
    /\ UNCHANGED <<backend, plugged, kind, task, watcher, failures, restarts>>

\* The HDMI cable is pulled out or put back.
CableChanges ==
    /\ Change
    /\ plugged' = ~plugged
    /\ UNCHANGED <<backend, server, kind, task, watcher, failures, restarts, shaken>>

\* A new AppState knows nothing of the connection; the event log stays.
Restart ==
    /\ restarts < MaxRestarts
    /\ restarts' = restarts + 1
    /\ kind' = [d \in Device |-> "mock"]
    /\ task' = [w \in Worker |-> Idle]
    /\ last' = "unknown"
    /\ shaken' = {}
    /\ UNCHANGED <<environment, log, failures>>

Step(w) == \/ List(w) \/ AssignKind(w) \/ Label(w)
           \/ Find(w) \/ Apply(w) \/ RecordSetting(w)

Next == \/ \E w \in Worker : Read(w) \/ Step(w)
        \/ Watch \/ Compare \/ Log \/ Set
        \/ \E d \in Device : ServerChanges(d)
        \/ CableChanges \/ Restart

Spec == Init /\ [][Next]_vars

\* What the loop has begun goes on; the timer of the watcher is served however
\* many requests the loop has, which is why its fairness is the strong one.
FairSpec == /\ Spec
            /\ WF_vars(Step("loop")) /\ WF_vars(Compare) /\ WF_vars(Log)
            /\ SF_vars(Watch)

-----------------------------------------------------------------------------
(* Properties                                                              *)

\* Every variable has its type.
TypeOK ==
    /\ backend \in Backends
    /\ server \in [Device -> BOOLEAN] /\ plugged \in BOOLEAN
    /\ kind \in [Device -> {"mock", "real"}]
    /\ task \in [Worker -> [step : {"idle", "probe", "kind", "label", "find",
                                   "apply", "event", "compare", "log"},
                           op : {"read", "watch", "set"}, device : Device,
                           src : {"none", "real", "mock", "error"},
                           connected : BOOLEAN, crossed : BOOLEAN]]
    /\ last \in {"yes", "no", "unknown"} /\ told \in {"yes", "no", "unknown"}
    /\ lost \in BOOLEAN /\ silent \in BOOLEAN
    /\ changes \in Nat /\ failures \in Nat /\ restarts \in Nat
    /\ shaken \subseteq Device

\* The kind an answer is labelled with, and the backend a setting is sent to,
\* are those of the backend that listed the outputs: simulated hardware is not
\* presented as real (display.py, AutoDisplayBackend) and a mode is set on the
\* hardware that advertised it (FR-12).  It takes both another thread on the
\* same device and a server that comes or goes meanwhile to break it.
KindIsOfTheAnswer ==
    \A w \in Worker : LET t == task[w] IN
        t.step \in {"label", "apply"} =>
            Kind(t.device) = t.src \/ (t.crossed /\ t.device \in shaken)

\* The event log tells the connection the watcher knows (AC-11), unless the
\* last event was lost to a failing write, or a watcher began since the last
\* event that was written: state.py writes none on a first turn, so what came or
\* went across a restart is in no log until the next change seen.
LogTellsConnection ==
    task["loop"].step # "log" /\ last # "unknown" => told = last \/ lost \/ silent

\* An outage or a recovery that lasts is noticed, whatever requests, failing
\* writes and restarts come in between; and it is told too, unless a write
\* failed or the watcher that noticed it had only just begun.
WatcherNotices ==
    \A b \in BOOLEAN :
        Probe("display").connected = b
            ~> \/ Probe("display").connected # b
               \/ last = AsState(b) /\ (told = last \/ lost \/ silent)

=============================================================================
