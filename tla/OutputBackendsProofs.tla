------------------------ MODULE OutputBackendsProofs ------------------------
(***************************************************************************)
(* What holds of the outputs for any number of pool threads, changes,      *)
(* failing writes and restarts: types, the labels and settings, the log.   *)
(***************************************************************************)
EXTENDS OutputBackends, TLAPS

\* The outputs of worker w are listed and not yet dealt with.
Listed == {"kind", "label", "find", "apply", "compare"}
Used == {"label", "find", "apply"}

\* Who would answer an auto backend's probe now.
Server(d) == IF server[d] THEN "real" ELSE "mock"

\* Two workers that are busy with a device know of each other.
CrossInv ==
    \A v, w \in Worker :
        /\ v # w /\ task[v].step # "idle" /\ task[w].step # "idle"
        /\ task[v].device = task[w].device
        => task[v].crossed

\* What a worker that has listed the outputs knows of its answer: a configured
\* backend has no kind to assign and listed itself; the answer of an auto
\* backend is still the one its server gives, unless the server changed.
AnswerOK(t) ==
    /\ t.step = "kind" => backend[t.device] = "auto"
    /\ t.step \in Used /\ backend[t.device] # "auto" => t.src = backend[t.device]
    /\ t.step \in Listed /\ backend[t.device] = "auto" =>
          /\ t.src \in {"real", "mock"}
          /\ t.src = Server(t.device) \/ t.device \in shaken

AnswerInv == \A w \in Worker : AnswerOK(task[w])

\* The kind is that of the answer from its assignment to its use, unless
\* another worker assigned it meanwhile and the server changed.
KindOK(t) ==
    t.step \in Used /\ backend[t.device] = "auto" =>
        kind[t.device] = t.src \/ (t.crossed /\ t.device \in shaken)

KindInv == \A w \in Worker : KindOK(task[w])

Inv == TypeOK /\ CrossInv /\ AnswerInv /\ KindInv

Tasks == [step : {"idle", "probe", "kind", "label", "find",
                  "apply", "event", "compare", "log"},
          op : {"read", "watch", "set"}, device : Device,
          src : {"none", "real", "mock", "error"},
          connected : BOOLEAN, crossed : BOOLEAN]

-----------------------------------------------------------------------------
\* An idle task is well typed.
LEMMA IdleTyped == Idle \in Tasks
  BY DEF Idle, Tasks, Device

\* After a listing a request labels or searches, the watcher compares.
LEMMA NextStepTyped ==
  ASSUME TypeOK, NEW w \in Worker
  PROVE  /\ AfterListing(w) \in {"label", "compare", "find"}
         /\ AfterListing(w) = "compare" <=> task[w].op = "watch"
  BY DEF TypeOK, AfterListing

\* A probe answers as the module says, whatever the configuration.
LEMMA ProbeTyped ==
  ASSUME TypeOK, NEW d \in Device
  PROVE  /\ Probe(d) \in [src : {"real", "mock", "error"}, connected : BOOLEAN]
         /\ backend[d] = "auto" => Probe(d).src = Server(d)
         /\ backend[d] # "auto" /\ Probe(d).src # "error" =>
               Probe(d).src = backend[d]
         /\ Probe(d).src = "error" => backend[d] = "real"
  <1>1. backend[d] \in {"auto", "real", "mock"}
    BY OutputBounds DEF TypeOK, Backends, Device
  <1>2. server[d] \in BOOLEAN /\ plugged \in BOOLEAN
    BY DEF TypeOK
  <1>3. RealAnswer(d) \in [src : {"real", "mock", "error"}, connected : BOOLEAN]
        /\ RealAnswer(d).src = "real"
    BY <1>2 DEF RealAnswer
  <1>4. MockAnswer \in [src : {"real", "mock", "error"}, connected : BOOLEAN]
        /\ MockAnswer.src = "mock"
    BY DEF MockAnswer
  <1> QED
    BY <1>1, <1>2, <1>3, <1>4 DEF Probe, Server

-----------------------------------------------------------------------------
\* Goto changes one worker: it is idle, or keeps all but its step.
LEMMA GotoChanges ==
  ASSUME TypeOK, NEW w \in Worker, NEW s, Goto(w, s)
  PROVE  /\ \A v \in Worker : v # w => task'[v] = task[v]
         /\ s = "idle" => task'[w] = Idle
         /\ s # "idle" => task'[w] = [task[w] EXCEPT !.step = s]
         /\ s \in {"idle", "label", "find", "apply", "event", "compare", "log"}
               => task' \in [Worker -> Tasks]
  <1>1. task \in [Worker -> Tasks]
    BY DEF TypeOK, Tasks
  <1>2. task' = [task EXCEPT ![w] = IF s = "idle" THEN Idle
                                    ELSE [task[w] EXCEPT !.step = s]]
    BY DEF Goto
  <1>3. s \in {"idle", "label", "find", "apply", "event", "compare", "log"}
           => task' \in [Worker -> Tasks]
    BY <1>1, <1>2, IdleTyped DEF Tasks
  <1> QED
    BY <1>1, <1>2, <1>3

\* A worker goes on with what it does: the others keep their tasks, and its own
\* ends or stays on its device.
GoesOn(w) ==
    /\ task[w].step # "idle"
    /\ \A v \in Worker : v # w => task'[v] = task[v]
    /\ \/ task'[w] = Idle
       \/ /\ task'[w].device = task[w].device
          /\ task'[w].crossed = task[w].crossed

\* Begin gives w a new task and marks the tasks busy with the same device.
LEMMA BeginChanges ==
  ASSUME TypeOK, NEW w \in Worker, NEW o \in {"read", "watch", "set"},
         NEW d \in Device, Begin(w, o, d)
  PROVE  /\ task' \in [Worker -> Tasks]
         /\ task[w].step = "idle"
         /\ task'[w].step = "probe" /\ task'[w].device = d
         /\ task'[w].crossed = (Busy(d) # {})
         /\ \A v \in Worker : v # w =>
               /\ v \in Busy(d) => task'[v] = [task[v] EXCEPT !.crossed = TRUE]
               /\ v \notin Busy(d) => task'[v] = task[v]
  <1>1. task \in [Worker -> Tasks]
    BY DEF TypeOK, Tasks
  <1>2. task' = [v \in Worker |->
          IF v = w THEN [Idle EXCEPT !.step = "probe", !.op = o, !.device = d,
                                     !.crossed = Busy(d) # {}]
          ELSE IF v \in Busy(d) THEN [task[v] EXCEPT !.crossed = TRUE]
          ELSE task[v]]
    BY DEF Begin
  <1>3. [Idle EXCEPT !.step = "probe", !.op = o, !.device = d,
                     !.crossed = Busy(d) # {}] \in Tasks
    BY DEF Idle, Tasks
  <1>4. \A v \in Worker : [task[v] EXCEPT !.crossed = TRUE] \in Tasks
    BY <1>1 DEF Tasks
  <1>5. task' \in [Worker -> Tasks]
    BY <1>1, <1>2, <1>3, <1>4
  <1>6. task'[w] = [Idle EXCEPT !.step = "probe", !.op = o, !.device = d,
                                !.crossed = Busy(d) # {}]
    BY <1>2
  <1>7. \A v \in Worker : v # w =>
               /\ v \in Busy(d) => task'[v] = [task[v] EXCEPT !.crossed = TRUE]
               /\ v \notin Busy(d) => task'[v] = task[v]
    BY <1>2
  <1> QED
    BY <1>5, <1>6, <1>7 DEF Begin, Idle

\* A listing ends the task on an error nobody handles, or takes its answer on.
LEMMA ListChanges ==
  ASSUME TypeOK, NEW w \in Worker, List(w)
  PROVE  /\ task' \in [Worker -> Tasks]
         /\ GoesOn(w)
         /\ \/ task'[w] = Idle
            \/ /\ task'[w].src = Probe(task[w].device).src
               /\ task'[w].step = IF backend[task[w].device] = "auto" THEN "kind"
                                  ELSE AfterListing(w)
               /\ Probe(task[w].device).src = "error" => task[w].op = "watch"
  <1> DEFINE d == task[w].device
             a == Probe(d)
             step == IF backend[d] = "auto" THEN "kind"
                     ELSE IF a.src = "error" /\ task[w].op # "watch" THEN "idle"
                     ELSE AfterListing(w)
             new == IF step = "idle" THEN Idle
                    ELSE [task[w] EXCEPT !.step = step, !.src = a.src,
                                         !.connected = a.connected]
  <1>1. task \in [Worker -> Tasks]
    BY DEF TypeOK, Tasks
  <1>2. d \in Device
    BY <1>1 DEF Tasks
  <1>3. task' = [task EXCEPT ![w] = new]
    BY DEF List
  <1>4. step \in {"kind", "idle", "label", "compare", "find"}
    BY NextStepTyped
  <1>5. a \in [src : {"real", "mock", "error"}, connected : BOOLEAN]
    BY <1>2, ProbeTyped
  <1>6. new \in Tasks
    <2>1. \A s \in {"kind", "label", "compare", "find"},
             c \in [src : {"real", "mock", "error"}, connected : BOOLEAN] :
            [task[w] EXCEPT !.step = s, !.src = c.src,
                            !.connected = c.connected] \in Tasks
      BY <1>1 DEF Tasks
    <2> HIDE DEF step, a
    <2>2. CASE step = "idle"
      BY <2>2, IdleTyped
    <2>3. CASE step # "idle"
      BY <2>1, <2>3, <1>4, <1>5
    <2> QED
      BY <2>2, <2>3
  <1>7. task' \in [Worker -> Tasks] /\ task'[w] = new
        /\ \A v \in Worker : v # w => task'[v] = task[v]
    BY <1>1, <1>3, <1>6
  <1>8. new = Idle \/ (new.device = d /\ new.crossed = task[w].crossed)
    BY <1>1 DEF Tasks
  <1>9. \/ new = Idle
        \/ /\ new.src = a.src
           /\ new.step = IF backend[d] = "auto" THEN "kind" ELSE AfterListing(w)
           /\ a.src = "error" => task[w].op = "watch"
    <2>1. CASE step = "idle"
      BY <2>1
    <2>2. CASE step # "idle"
      <3>1. new.src = a.src /\ new.step = step
        BY <1>1, <2>2 DEF Tasks
      <3>2. a.src = "error" => backend[d] = "real"
        BY <1>2, ProbeTyped
      <3> QED
        BY <2>2, <3>1, <3>2
    <2> QED
      BY <2>1, <2>2
  <1>10. task[w].step # "idle"
    BY DEF List
  <1> QED
    BY <1>7, <1>8, <1>9, <1>10 DEF GoesOn

\* What a worker does after its probe; "event" is the one step that starts anew.
LEMMA LaterChanges ==
  ASSUME TypeOK, NEW w \in Worker,
         \/ AssignKind(w) \/ Label(w) \/ Find(w) \/ Apply(w) \/ RecordSetting(w)
         \/ w = "loop" /\ (Compare \/ Log)
  PROVE  /\ task' \in [Worker -> Tasks]
         /\ GoesOn(w)
         /\ task'[w].src \in {task[w].src, "none"}
         /\ task'[w].step \in Used \cup {"compare"} =>
               /\ task[w].step \in {"kind", "find"}
               /\ task'[w].src = task[w].src
               /\ task'[w].device = task[w].device
         /\ task'[w].step \notin {"kind"}
  <1>1. task \in [Worker -> Tasks]
    BY DEF TypeOK, Tasks
  <1>2. ASSUME NEW s \in {"idle", "label", "find", "apply", "event", "compare", "log"},
               Goto(w, s), task[w].step # "idle",
               s \in Used \cup {"compare"} => task[w].step \in {"kind", "find"}
        PROVE  /\ task' \in [Worker -> Tasks]
               /\ GoesOn(w)
               /\ task'[w].src \in {task[w].src, "none"}
               /\ task'[w].step \in Used \cup {"compare"} =>
                     /\ task[w].step \in {"kind", "find"}
                     /\ task'[w].src = task[w].src
                     /\ task'[w].device = task[w].device
               /\ task'[w].step \notin {"kind"}
    <2>1. CASE s = "idle"
      <3>1. task'[w] = Idle /\ task' \in [Worker -> Tasks]
            /\ \A v \in Worker : v # w => task'[v] = task[v]
        BY <1>2, <2>1, GotoChanges
      <3> QED
        BY <3>1, <1>2 DEF GoesOn, Idle, Used
    <2>2. CASE s # "idle"
      <3>1. task'[w] = [task[w] EXCEPT !.step = s] /\ task' \in [Worker -> Tasks]
            /\ \A v \in Worker : v # w => task'[v] = task[v]
        BY <1>2, <2>2, GotoChanges
      <3>2. /\ task'[w].step = s /\ task'[w].src = task[w].src
            /\ task'[w].device = task[w].device
            /\ task'[w].crossed = task[w].crossed
        BY <1>1, <3>1 DEF Tasks
      <3> QED
        BY <3>1, <3>2, <1>2 DEF GoesOn
    <2> QED
      BY <2>1, <2>2
  <1>3. CASE AssignKind(w)
    BY <1>2, <1>3, NextStepTyped DEF AssignKind
  <1>4. CASE Label(w)
    BY <1>2, <1>4 DEF Label, Used
  <1>5. CASE Find(w)
    <2>1. Goto(w, "idle") \/ Goto(w, "apply")
      BY <1>5 DEF Find
    <2>2. task[w].step = "find"
      BY <1>5 DEF Find
    <2> QED
      BY <1>2, <2>1, <2>2 DEF Used
  <1>6. CASE Apply(w)
    <2>1. Goto(w, "idle") \/ Goto(w, "event")
      BY <1>6 DEF Apply
    <2>2. task[w].step = "apply"
      BY <1>6 DEF Apply
    <2> QED
      BY <1>2, <2>1, <2>2 DEF Used
  <1>7. CASE RecordSetting(w)
    <2>1. CASE Goto(w, "idle")
      BY <1>2, <1>7, <2>1 DEF RecordSetting, Used
    <2>2. CASE task' = [task EXCEPT ![w].step = "probe", ![w].op = "read"]
      <3>1. task' = [task EXCEPT ![w] =
                       [task[w] EXCEPT !.step = "probe", !.op = "read"]]
        BY <1>1, <2>2
      <3>2. [task[w] EXCEPT !.step = "probe", !.op = "read"] \in Tasks
        BY <1>1 DEF Tasks
      <3>3. /\ task' \in [Worker -> Tasks]
            /\ task'[w] = [task[w] EXCEPT !.step = "probe", !.op = "read"]
            /\ \A v \in Worker : v # w => task'[v] = task[v]
        BY <1>1, <3>1, <3>2
      <3>4. /\ task'[w].step = "probe" /\ task'[w].src = task[w].src
            /\ task'[w].device = task[w].device
            /\ task'[w].crossed = task[w].crossed
        BY <1>1, <3>3 DEF Tasks
      <3>5. task[w].step = "event"
        BY <1>7 DEF RecordSetting
      <3> QED
        BY <3>3, <3>4, <3>5 DEF GoesOn, Used
    <2> QED
      BY <1>7, <2>1, <2>2 DEF RecordSetting
  <1>8. CASE w = "loop" /\ Compare
    <2>1. Goto(w, "idle") \/ Goto(w, "log")
      BY <1>8 DEF Compare
    <2>2. task[w].step = "compare"
      BY <1>8 DEF Compare
    <2> QED
      BY <1>2, <2>1, <2>2 DEF Used
  <1>9. CASE w = "loop" /\ Log
    <2>1. Goto(w, "idle") /\ task[w].step = "log"
      BY <1>9 DEF Log
    <2> QED
      BY <1>2, <2>1 DEF Used
  <1> QED
    BY <1>3, <1>4, <1>5, <1>6, <1>7, <1>8, <1>9

-----------------------------------------------------------------------------
\* The steps of the workers, as the proofs split them.
Later(w) == \/ AssignKind(w) \/ Label(w) \/ Find(w) \/ Apply(w) \/ RecordSetting(w)
            \/ w = "loop" /\ (Compare \/ Log)

\* The disjuncts of Next, with Read, Watch and Set as the Begin they are.
LEMMA Split ==
  ASSUME [Next]_vars
  PROVE  \/ \E w \in Worker, o \in {"read", "watch", "set"}, d \in Device :
               Begin(w, o, d)
         \/ \E w \in Worker : List(w) \/ Later(w)
         \/ \E d \in Device : ServerChanges(d)
         \/ CableChanges
         \/ Restart
         \/ UNCHANGED vars
  <1>1. "loop" \in Worker /\ "display" \in Device
    BY DEF Worker, Device
  <1>2. CASE \E w \in Worker : Read(w) \/ Step(w)
    BY <1>2 DEF Read, Step, Later
  <1>3. CASE Watch
    BY <1>1, <1>3 DEF Watch
  <1>4. CASE Compare \/ Log
    BY <1>1, <1>4 DEF Later
  <1>5. CASE Set
    BY <1>1, <1>5 DEF Set
  <1> QED
    BY <1>2, <1>3, <1>4, <1>5 DEF Next

-----------------------------------------------------------------------------
(* The invariant, one lemma per conjunct.                                  *)

\* All workers are idle at first.
LEMMA InvInit == Init => Inv
  <1> SUFFICES ASSUME Init PROVE Inv
    OBVIOUS
  <1>1. task = [w \in Worker |-> Idle] /\ Idle.step = "idle"
    BY DEF Init, Idle
  <1>2. task \in [Worker -> Tasks]
    BY <1>1, IdleTyped
  <1>3. TypeOK
    BY <1>2 DEF Init, TypeOK, Tasks, Device
  <1>4. CrossInv /\ AnswerInv /\ KindInv
    BY <1>1 DEF CrossInv, AnswerInv, AnswerOK, KindInv, KindOK, Listed, Used
  <1> QED
    BY <1>3, <1>4 DEF Inv

\* Every step keeps the types, as the tasks it leaves are typed.
LEMMA TypeStep == Inv /\ [Next]_vars => TypeOK'
  <1> SUFFICES ASSUME Inv, [Next]_vars PROVE TypeOK'
    OBVIOUS
  <1>0. TypeOK
    BY DEF Inv
  <1>1. ASSUME NEW w \in Worker, NEW o \in {"read", "watch", "set"},
               NEW d \in Device, Begin(w, o, d)
        PROVE  TypeOK'
    <2>1. task' \in [Worker -> Tasks]
      BY <1>0, <1>1, BeginChanges
    <2> QED
      BY <1>0, <1>1, <2>1 DEF Begin, TypeOK, Tasks, environment, watcher, log
  <1>2. ASSUME NEW w \in Worker, List(w)
        PROVE  TypeOK'
    <2>1. task' \in [Worker -> Tasks]
      BY <1>0, <1>2, ListChanges
    <2> QED
      BY <1>0, <1>2, <2>1 DEF List, TypeOK, Tasks, environment, watcher, log
  <1>3. ASSUME NEW w \in Worker, Later(w)
        PROVE  TypeOK'
    <2>1. task' \in [Worker -> Tasks]
      BY <1>0, <1>3, LaterChanges DEF Later
    <2>2. CASE AssignKind(w)
      <3>1. task[w].device \in Device /\ task[w].step = "kind"
        BY <1>0, <2>2 DEF TypeOK, AssignKind
      <3>2. backend[task[w].device] = "auto" /\ task[w].src \in {"real", "mock"}
        BY <3>1 DEF Inv, AnswerInv, AnswerOK, Listed
      <3>3. kind' = [kind EXCEPT ![task[w].device] = task[w].src]
        BY <2>2 DEF AssignKind
      <3>4. kind' \in [Device -> {"mock", "real"}]
        BY <1>0, <3>1, <3>2, <3>3 DEF TypeOK
      <3> QED
        BY <1>0, <2>1, <2>2, <3>4 DEF AssignKind, TypeOK, Tasks, environment, watcher, log
    <2>3. CASE Label(w) \/ Find(w) \/ Apply(w)
      BY <1>0, <2>1, <2>3
         DEF Label, Find, Apply, TypeOK, Tasks, environment, watcher, log
    <2>4. CASE RecordSetting(w)
      BY <1>0, <2>1, <2>4
         DEF RecordSetting, WriteFails, TypeOK, Tasks, environment, watcher, log
    <2>5. CASE Compare
      BY <1>0, <2>1, <2>5 DEF Compare, AsState, TypeOK, Tasks, environment
    <2>6. CASE Log
      <3>1. told' \in {"yes", "no", "unknown"}
        BY <1>0, <2>6 DEF Log, TypeOK
      <3>2. lost' \in BOOLEAN
        BY <2>6 DEF Log
      <3>3. failures' \in Nat
        BY <1>0, <2>6 DEF Log, WriteFails, TypeOK
      <3> QED
        BY <1>0, <2>1, <2>6, <3>1, <3>2, <3>3 DEF Log, TypeOK, Tasks, environment
    <2> QED
      BY <1>3, <2>2, <2>3, <2>4, <2>5, <2>6 DEF Later
  <1>4. ASSUME NEW d \in Device, ServerChanges(d)
        PROVE  TypeOK'
    BY <1>0, <1>4 DEF ServerChanges, Change, TypeOK, watcher, log
  <1>5. CASE CableChanges
    BY <1>0, <1>5 DEF CableChanges, Change, TypeOK, watcher, log
  <1>6. CASE Restart
    <2>1. task' \in [Worker -> Tasks]
      BY <1>6, IdleTyped DEF Restart
    <2>2. kind' \in [Device -> {"mock", "real"}]
      BY <1>6 DEF Restart
    <2>3. restarts' \in Nat
      BY <1>0, <1>6 DEF Restart, TypeOK
    <2> QED
      BY <1>0, <1>6, <2>1, <2>2, <2>3 DEF Restart, TypeOK, Tasks, environment, log
  <1>7. CASE UNCHANGED vars
    BY <1>0, <1>7 DEF vars, environment, watcher, log, TypeOK
  <1> QED
    BY <1>1, <1>2, <1>3, <1>4, <1>5, <1>6, <1>7, Split

\* A worker that begins is crossed by those it finds, and crosses them.
LEMMA CrossStep == Inv /\ [Next]_vars => CrossInv'
  <1> SUFFICES ASSUME Inv, [Next]_vars PROVE CrossInv'
    OBVIOUS
  <1>0. TypeOK /\ CrossInv
    BY DEF Inv
  <1>1. ASSUME NEW w \in Worker, NEW o \in {"read", "watch", "set"},
               NEW d \in Device, Begin(w, o, d)
        PROVE  CrossInv'
    <2> SUFFICES ASSUME NEW v \in Worker, NEW u \in Worker, v # u,
                        task'[v].step # "idle", task'[u].step # "idle",
                        task'[v].device = task'[u].device
                 PROVE  task'[v].crossed
      BY DEF CrossInv
    <2>1. /\ task'[w].step = "probe" /\ task'[w].device = d
          /\ task'[w].crossed = (Busy(d) # {})
      BY <1>0, <1>1, BeginChanges
    <2>2. ASSUME NEW x \in Worker, x # w
          PROVE  /\ x \in Busy(d) => task'[x] = [task[x] EXCEPT !.crossed = TRUE]
                 /\ x \notin Busy(d) => task'[x] = task[x]
      BY <1>0, <1>1, <2>2, BeginChanges
    <2>3. ASSUME NEW x \in Worker, x # w
          PROVE  /\ task'[x].step = task[x].step
                 /\ task'[x].device = task[x].device
                 /\ task[x].crossed => task'[x].crossed
                 /\ x \in Busy(d) => task'[x].crossed
      <3>1. task[x] \in Tasks
        BY <1>0 DEF TypeOK, Tasks
      <3> QED
        BY <2>2, <2>3, <3>1 DEF Tasks
    <2>4. CASE v = w
      BY <2>1, <2>3, <2>4 DEF Busy
    <2>5. CASE u = w
      BY <2>1, <2>3, <2>5 DEF Busy
    <2>6. CASE v # w /\ u # w
      BY <1>0, <2>3, <2>6 DEF CrossInv
    <2> QED
      BY <2>4, <2>5, <2>6
  <1>2. ASSUME NEW w \in Worker, GoesOn(w)
        PROVE  CrossInv'
    BY <1>0, <1>2 DEF GoesOn, CrossInv, Idle
  <1>3. ASSUME NEW w \in Worker, List(w) \/ Later(w)
        PROVE  CrossInv'
    <2>1. GoesOn(w)
      BY <1>0, <1>3, ListChanges, LaterChanges DEF Later
    <2> QED
      BY <1>2, <2>1
  <1>4. CASE \E d \in Device : ServerChanges(d)
    BY <1>0, <1>4 DEF ServerChanges, CrossInv
  <1>5. CASE CableChanges
    BY <1>0, <1>5 DEF CableChanges, CrossInv
  <1>6. CASE Restart
    BY <1>6 DEF Restart, CrossInv, Idle
  <1>7. CASE UNCHANGED vars
    BY <1>0, <1>7 DEF vars, CrossInv
  <1> QED
    BY <1>1, <1>3, <1>4, <1>5, <1>6, <1>7, Split

\* A worker that is at work keeps its device shaken: only one that begins alone
\* on a device clears it.
LEMMA BeginKeeps ==
  ASSUME TypeOK, NEW w \in Worker, NEW o \in {"read", "watch", "set"},
         NEW d \in Device, Begin(w, o, d),
         NEW v \in Worker, v # w
  PROVE  /\ task'[v].step = task[v].step /\ task'[v].src = task[v].src
         /\ task'[v].device = task[v].device
         /\ task[v].crossed => task'[v].crossed
         /\ task[v].step # "idle" /\ task[v].device \in shaken
               => task[v].device \in shaken'
  <1>1. task[v] \in Tasks
    BY DEF TypeOK, Tasks
  <1>2. /\ v \in Busy(d) => task'[v] = [task[v] EXCEPT !.crossed = TRUE]
        /\ v \notin Busy(d) => task'[v] = task[v]
    BY BeginChanges
  <1>3. task[v].step # "idle" /\ task[v].device = d => Busy(d) # {}
    BY DEF Busy
  <1>4. shaken' = IF Busy(d) = {} THEN shaken \ {d} ELSE shaken
    BY DEF Begin
  <1>5. task[v].step # "idle" /\ task[v].device \in shaken
               => task[v].device \in shaken'
    BY <1>3, <1>4
  <1>6. /\ task'[v].step = task[v].step /\ task'[v].src = task[v].src
        /\ task'[v].device = task[v].device
        /\ task[v].crossed => task'[v].crossed
    BY <1>1, <1>2 DEF Tasks
  <1> QED
    BY <1>5, <1>6

\* An answer stays that of its server, as a change during an operation is
\* remembered.
LEMMA AnswerStep == Inv /\ [Next]_vars => AnswerInv'
  <1> SUFFICES ASSUME Inv, [Next]_vars PROVE AnswerInv'
    OBVIOUS
  <1>0. TypeOK /\ AnswerInv
    BY DEF Inv
  <1>1. ASSUME NEW w \in Worker, NEW o \in {"read", "watch", "set"},
               NEW d \in Device, Begin(w, o, d)
        PROVE  AnswerInv'
    <2> SUFFICES ASSUME NEW v \in Worker PROVE AnswerOK(task[v])'
      BY DEF AnswerInv
    <2>1. CASE v = w
      <3>1. task'[w].step = "probe"
        BY <1>0, <1>1, BeginChanges
      <3> QED
        BY <2>1, <3>1 DEF AnswerOK, Listed, Used
    <2>2. CASE v # w
      <3>1. AnswerOK(task[v])
        BY <1>0 DEF AnswerInv
      <3>2. backend' = backend /\ server' = server
        BY <1>1 DEF Begin, environment
      <3>3. /\ task'[v].step = task[v].step /\ task'[v].src = task[v].src
            /\ task'[v].device = task[v].device
            /\ task[v].step # "idle" /\ task[v].device \in shaken
                  => task[v].device \in shaken'
        BY <1>0, <1>1, <2>2, BeginKeeps
      <3> QED
        BY <3>1, <3>2, <3>3 DEF AnswerOK, Server, Listed, Used
    <2> QED
      BY <2>1, <2>2
  <1>2. ASSUME NEW w \in Worker, List(w) \/ Later(w)
        PROVE  AnswerInv'
    <2> SUFFICES ASSUME NEW v \in Worker PROVE AnswerOK(task[v])'
      BY DEF AnswerInv
    <2>1. AnswerOK(task[v])
      BY <1>0 DEF AnswerInv
    <2>2. backend' = backend /\ server' = server /\ shaken' = shaken
      BY <1>2 DEF List, Later, AssignKind, Label, Find, Apply, RecordSetting,
                  Compare, Log, environment
    <2>3. GoesOn(w)
      BY <1>0, <1>2, ListChanges, LaterChanges DEF Later
    <2>4. CASE v # w
      BY <2>1, <2>2, <2>3, <2>4 DEF GoesOn, AnswerOK, Server
    <2>5. CASE v = w /\ List(w)
      <3>1. task[w].device \in Device
        BY <1>0 DEF TypeOK
      <3>2. \/ task'[w] = Idle
            \/ /\ task'[w].src = Probe(task[w].device).src
               /\ task'[w].step = IF backend[task[w].device] = "auto" THEN "kind"
                                  ELSE AfterListing(w)
               /\ Probe(task[w].device).src = "error" => task[w].op = "watch"
        BY <1>0, <2>5, ListChanges
      <3>3. CASE task'[w] = Idle
        BY <2>5, <3>3 DEF Idle, AnswerOK, Listed, Used
      <3>4. CASE task'[w] # Idle
        <4>1. task'[w].device = task[w].device
          BY <2>3, <3>4 DEF GoesOn
        <4>2. CASE backend[task[w].device] = "auto"
          <5>1. task'[w].step = "kind" /\ task'[w].src = Server(task[w].device)
            BY <1>0, <3>1, <3>2, <3>4, <4>2, ProbeTyped
          <5> QED
            BY <2>2, <2>5, <4>1, <4>2, <5>1 DEF AnswerOK, Server, Used
        <4>3. CASE backend[task[w].device] # "auto"
          <5>1. task'[w].step = AfterListing(w)
            BY <3>2, <3>4, <4>3
          <5>2. task'[w].step \in Used => task'[w].src = backend[task[w].device]
            BY <1>0, <3>1, <3>2, <3>4, <4>3, <5>1, NextStepTyped, ProbeTyped DEF Used
          <5>3. task'[w].step # "kind"
            BY <1>0, <5>1, NextStepTyped
          <5> QED
            BY <2>2, <2>5, <4>1, <4>3, <5>2, <5>3 DEF AnswerOK
        <4> QED
          BY <4>2, <4>3
      <3> QED
        BY <3>3, <3>4
    <2>6. CASE v = w /\ Later(w)
      <3>1. /\ task'[w].step \in Used \cup {"compare"} =>
                  /\ task[w].step \in {"kind", "find"}
                  /\ task'[w].src = task[w].src
                  /\ task'[w].device = task[w].device
            /\ task'[w].step # "kind"
        BY <1>0, <2>6, LaterChanges DEF Later
      <3> QED
        BY <2>1, <2>2, <2>6, <3>1 DEF AnswerOK, Server, Listed, Used
    <2> QED
      BY <1>2, <2>4, <2>5, <2>6
  <1>3. ASSUME NEW d \in Device, ServerChanges(d)
        PROVE  AnswerInv'
    <2> SUFFICES ASSUME NEW v \in Worker PROVE AnswerOK(task[v])'
      BY DEF AnswerInv
    <2>1. AnswerOK(task[v])
      BY <1>0 DEF AnswerInv
    <2>2. /\ task' = task /\ backend' = backend /\ shaken \subseteq shaken'
          /\ Busy(d) # {} => d \in shaken'
      BY <1>3 DEF ServerChanges
    <2>3. \A e \in Device : e # d => server'[e] = server[e]
      BY <1>0, <1>3 DEF ServerChanges, TypeOK
    <2>4. task[v].step \in Listed /\ task[v].device = d => Busy(d) # {}
      BY DEF Busy, Listed
    <2>5. task[v].device \in Device
      BY <1>0 DEF TypeOK
    <2> QED
      BY <2>1, <2>2, <2>3, <2>4, <2>5 DEF AnswerOK, Server
  <1>4. CASE CableChanges
    BY <1>0, <1>4 DEF CableChanges, AnswerInv, AnswerOK, Server
  <1>5. CASE Restart
    BY <1>5 DEF Restart, AnswerInv, AnswerOK, Idle, Listed, Used
  <1>6. CASE UNCHANGED vars
    BY <1>0, <1>6 DEF vars, environment, AnswerInv, AnswerOK, Server
  <1> QED
    BY <1>1, <1>2, <1>3, <1>4, <1>5, <1>6, Split

\* Two workers with an answer of one auto backend that differ have seen its
\* server change, and know of each other.
LEMMA AnswersDiffer ==
  ASSUME Inv, NEW v \in Worker, NEW w \in Worker, v # w,
         task[v].step \in Listed, task[w].step \in Listed,
         task[v].device = task[w].device, backend[task[w].device] = "auto",
         task[v].src # task[w].src
  PROVE  task[v].crossed /\ task[v].device \in shaken
  <1>1. AnswerOK(task[v]) /\ AnswerOK(task[w])
    BY DEF Inv, AnswerInv
  <1>2. task[v].device \in shaken
    BY <1>1 DEF AnswerOK
  <1>3. task[v].crossed
    BY DEF Inv, CrossInv, Listed
  <1> QED
    BY <1>2, <1>3

\* The kind is assigned by the worker itself, or by another one with the same
\* answer, or by one it is crossed with on a shaken device.
LEMMA KindStep == Inv /\ [Next]_vars => KindInv'
  <1> SUFFICES ASSUME Inv, [Next]_vars PROVE KindInv'
    OBVIOUS
  <1>0. TypeOK /\ KindInv
    BY DEF Inv
  <1>1. ASSUME NEW w \in Worker, NEW o \in {"read", "watch", "set"},
               NEW d \in Device, Begin(w, o, d)
        PROVE  KindInv'
    <2> SUFFICES ASSUME NEW v \in Worker PROVE KindOK(task[v])'
      BY DEF KindInv
    <2>1. CASE v = w
      <3>1. task'[w].step = "probe"
        BY <1>0, <1>1, BeginChanges
      <3> QED
        BY <2>1, <3>1 DEF KindOK, Used
    <2>2. CASE v # w
      <3>1. KindOK(task[v])
        BY <1>0 DEF KindInv
      <3>2. backend' = backend /\ kind' = kind
        BY <1>1 DEF Begin, environment
      <3>3. /\ task'[v].step = task[v].step /\ task'[v].src = task[v].src
            /\ task'[v].device = task[v].device
            /\ task[v].crossed => task'[v].crossed
            /\ task[v].step # "idle" /\ task[v].device \in shaken
                  => task[v].device \in shaken'
        BY <1>0, <1>1, <2>2, BeginKeeps
      <3> QED
        BY <3>1, <3>2, <3>3 DEF KindOK, Used
    <2> QED
      BY <2>1, <2>2
  <1>2. ASSUME NEW w \in Worker, List(w)
        PROVE  KindInv'
    <2> SUFFICES ASSUME NEW v \in Worker PROVE KindOK(task[v])'
      BY DEF KindInv
    <2>1. KindOK(task[v])
      BY <1>0 DEF KindInv
    <2>2. backend' = backend /\ kind' = kind /\ shaken' = shaken
      BY <1>2 DEF List, environment
    <2>3. GoesOn(w)
      BY <1>0, <1>2, ListChanges
    <2>4. CASE v # w
      BY <2>1, <2>2, <2>3, <2>4 DEF GoesOn, KindOK
    <2>5. CASE v = w
      <3>1. \/ task'[w] = Idle
            \/ /\ task'[w].device = task[w].device
               /\ backend[task[w].device] = "auto" => task'[w].step = "kind"
        BY <1>0, <1>2, <2>3, ListChanges DEF GoesOn
      <3> QED
        BY <2>2, <2>5, <3>1 DEF KindOK, Idle, Used
    <2> QED
      BY <2>4, <2>5
  <1>3. ASSUME NEW w \in Worker, AssignKind(w)
        PROVE  KindInv'
    <2> SUFFICES ASSUME NEW v \in Worker PROVE KindOK(task[v])'
      BY DEF KindInv
    <2>1. KindOK(task[v])
      BY <1>0 DEF KindInv
    <2>2. /\ backend' = backend /\ shaken' = shaken
          /\ kind' = [kind EXCEPT ![task[w].device] = task[w].src]
          /\ task[w].step = "kind"
      BY <1>3 DEF AssignKind, environment
    <2>3. task[w].device \in Device /\ kind \in [Device -> {"mock", "real"}]
          /\ task[v].device \in Device
      BY <1>0 DEF TypeOK
    <2>4. GoesOn(w)
      BY <1>0, <1>3, LaterChanges
    <2>5. CASE v = w
      <3>1. task'[w].step \in Used =>
               task'[w].src = task[w].src /\ task'[w].device = task[w].device
        BY <1>0, <1>3, LaterChanges
      <3> QED
        BY <2>2, <2>3, <2>5, <3>1 DEF KindOK
    <2>6. CASE v # w
      <3>1. task'[v] = task[v]
        BY <2>4, <2>6 DEF GoesOn
      <3>2. CASE task[v].device # task[w].device
        BY <2>1, <2>2, <2>3, <3>1, <3>2 DEF KindOK
      <3>3. CASE task[v].device = task[w].device
        <4> SUFFICES ASSUME task[v].step \in Used, backend[task[v].device] = "auto"
                     PROVE  kind'[task[v].device] = task[v].src
                            \/ (task[v].crossed /\ task[v].device \in shaken)
          BY <2>2, <3>1 DEF KindOK
        <4>1. kind'[task[v].device] = task[w].src
          BY <2>2, <2>3, <3>3
        <4>2. task[v].src # task[w].src
                 => task[v].crossed /\ task[v].device \in shaken
          BY <2>2, <2>6, <3>3, AnswersDiffer DEF Listed, Used
        <4> QED
          BY <4>1, <4>2
      <3> QED
        BY <3>2, <3>3
    <2> QED
      BY <2>5, <2>6
  <1>4. ASSUME NEW w \in Worker, Later(w), ~AssignKind(w)
        PROVE  KindInv'
    <2> SUFFICES ASSUME NEW v \in Worker PROVE KindOK(task[v])'
      BY DEF KindInv
    <2>1. KindOK(task[v])
      BY <1>0 DEF KindInv
    <2>2. backend' = backend /\ kind' = kind /\ shaken' = shaken
      BY <1>4 DEF Later, Label, Find, Apply, RecordSetting, Compare, Log,
                  environment
    <2>3. GoesOn(w)
      BY <1>0, <1>4, LaterChanges DEF Later
    <2>4. CASE v # w
      BY <2>1, <2>2, <2>3, <2>4 DEF GoesOn, KindOK
    <2>5. CASE v = w
      <3>1. /\ task'[w].step \in Used =>
                  /\ task[w].step \in {"kind", "find"}
                  /\ task'[w].src = task[w].src
                  /\ task'[w].device = task[w].device
        BY <1>0, <1>4, LaterChanges DEF Later
      <3>2. task[w].step # "kind"
        BY <1>4 DEF Later, Label, Find, Apply, RecordSetting, Compare, Log
      <3>3. task'[w].step \in Used => task'[w].crossed = task[w].crossed
        BY <2>3 DEF GoesOn, Idle, Used
      <3> QED
        BY <2>1, <2>2, <2>5, <3>1, <3>2, <3>3 DEF KindOK, Used
    <2> QED
      BY <2>4, <2>5
  <1>5. CASE \E d \in Device : ServerChanges(d)
    BY <1>0, <1>5 DEF ServerChanges, KindInv, KindOK
  <1>6. CASE CableChanges
    BY <1>0, <1>6 DEF CableChanges, KindInv, KindOK
  <1>7. CASE Restart
    BY <1>7 DEF Restart, KindInv, KindOK, Idle, Used
  <1>8. CASE UNCHANGED vars
    BY <1>0, <1>8 DEF vars, environment, KindInv, KindOK
  <1>9. ASSUME NEW w \in Worker, Later(w)
        PROVE  KindInv'
    BY <1>3, <1>4, <1>9
  <1> QED
    BY <1>1, <1>2, <1>5, <1>6, <1>7, <1>8, <1>9, Split

\* The invariant that the theorems on types and labels rest on.
LEMMA OutputInvariant == Spec => []Inv
  <1>1. Inv /\ [Next]_vars => Inv'
    BY TypeStep, CrossStep, AnswerStep, KindStep DEF Inv
  <1> QED
    BY <1>1, InvInit, PTL DEF Spec

-----------------------------------------------------------------------------
\* No probe, fallback, failing write or restart gives a kind, a source or a
\* step that the code does not have.
THEOREM TypesOfOutputs == Spec => []TypeOK
  <1>1. Inv => TypeOK
    BY DEF Inv
  <1> QED
    BY <1>1, OutputInvariant, PTL

\* display.py, AutoDisplayBackend, and FR-12: however many threads probe, an
\* answer is labelled with the backend that gave it, and a setting goes to the
\* backend that advertised it, unless another worker was busy with the device
\* and its server came or went meanwhile.
THEOREM KindIsOfTheAnswerAlways == Spec => []KindIsOfTheAnswer
  <1>1. Inv => KindIsOfTheAnswer
    <2> SUFFICES ASSUME Inv, NEW w \in Worker, task[w].step \in {"label", "apply"}
                 PROVE  \/ Kind(task[w].device) = task[w].src
                        \/ task[w].crossed /\ task[w].device \in shaken
      BY DEF KindIsOfTheAnswer
    <2>1. AnswerOK(task[w]) /\ KindOK(task[w])
      BY DEF Inv, AnswerInv, KindInv
    <2> QED
      BY <2>1 DEF AnswerOK, KindOK, Kind, Used
  <1> QED
    BY <1>1, OutputInvariant, PTL

-----------------------------------------------------------------------------
\* The log follows the watcher's memory: what Compare remembers, Log tells or
\* loses in the same turn.
LEMMA LogStep == TypeOK /\ LogTellsConnection /\ [Next]_vars => LogTellsConnection'
  <1> SUFFICES ASSUME TypeOK, LogTellsConnection, [Next]_vars
               PROVE  LogTellsConnection'
    OBVIOUS
  <1>0. "loop" \in Worker /\ task["loop"] \in Tasks
    BY DEF Worker, TypeOK, Tasks
  <1>1. ASSUME UNCHANGED watcher,
               task["loop"].step = "log" => task'["loop"].step = "log"
        PROVE  LogTellsConnection'
    BY <1>1 DEF LogTellsConnection, watcher, log
  <1>2. ASSUME NEW w \in Worker, NEW o \in {"read", "watch", "set"},
               NEW d \in Device, Begin(w, o, d)
        PROVE  LogTellsConnection'
    <2>1. w = "loop" => task["loop"].step # "log"
      BY <1>2 DEF Begin
    <2>2. w # "loop" => task'["loop"].step = task["loop"].step
      BY <1>0, <1>2, BeginKeeps
    <2> QED
      BY <1>1, <1>2, <2>1, <2>2 DEF Begin
  <1>3. ASSUME NEW w \in Worker, \/ List(w) \/ AssignKind(w) \/ Label(w)
                                 \/ Find(w) \/ Apply(w) \/ RecordSetting(w)
        PROVE  LogTellsConnection'
    <2>1. task[w].step # "log" /\ UNCHANGED watcher
      BY <1>3 DEF List, AssignKind, Label, Find, Apply, RecordSetting
    <2>2. GoesOn(w)
      BY <1>3, ListChanges, LaterChanges
    <2>3. w # "loop" => task'["loop"] = task["loop"]
      BY <1>0, <2>2 DEF GoesOn
    <2> QED
      BY <1>1, <2>1, <2>3
  <1>4. CASE Compare
    <2> DEFINE now == AsState(task["loop"].connected)
    <2>1. /\ last' = now /\ lost' = lost /\ told' = told
          /\ silent' = IF last = "unknown" THEN TRUE ELSE silent
          /\ task["loop"].step = "compare"
      BY <1>4 DEF Compare
    <2>2. CASE last = "unknown"
      BY <2>1, <2>2 DEF LogTellsConnection
    <2>3. CASE last # "unknown" /\ last = now
      BY <2>1, <2>3 DEF LogTellsConnection
    <2>4. CASE last \notin {"unknown", now}
      <3>1. Goto("loop", "log")
        BY <1>4, <2>4 DEF Compare
      <3>2. task'["loop"] = [task["loop"] EXCEPT !.step = "log"]
        BY <1>0, <3>1, GotoChanges
      <3>3. task'["loop"].step = "log"
        BY <1>0, <3>2 DEF Tasks
      <3> QED
        BY <3>3 DEF LogTellsConnection
    <2> QED
      BY <2>2, <2>3, <2>4
  <1>5. CASE Log
    BY <1>5 DEF Log, LogTellsConnection
  <1>6. CASE \E d \in Device : ServerChanges(d)
    BY <1>1, <1>6 DEF ServerChanges
  <1>7. CASE CableChanges
    BY <1>1, <1>7 DEF CableChanges
  <1>8. CASE Restart
    BY <1>8 DEF Restart, LogTellsConnection
  <1>9. CASE UNCHANGED vars
    BY <1>1, <1>9 DEF vars
  <1> QED
    BY <1>2, <1>3, <1>4, <1>5, <1>6, <1>7, <1>8, <1>9, Split DEF Later

\* AC-11: from the first event a watcher writes, the event log tells the
\* connection it knows, for any number of changes, failing writes and restarts,
\* unless the last write failed.  What changed across a restart is in no log:
\* the first turn of a watcher writes nothing (state.py), which silent says.
THEOREM LogTellsAlways == Spec => []LogTellsConnection
  <1>1. Init => LogTellsConnection
    BY DEF Init, LogTellsConnection
  <1> QED
    BY <1>1, LogStep, TypesOfOutputs, PTL DEF Spec

=============================================================================
