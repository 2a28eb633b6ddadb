-------------------------- MODULE ProvisioningProofs --------------------------
(***************************************************************************)
(* The configuration file and the appliance row, for any number of pool    *)
(* threads, requests, kills and statements of the migration script.        *)
(***************************************************************************)
EXTENDS Provisioning, FiniteSetTheorems, WellFoundedInduction, TLAPS

StepName == {"idle", "load", "set", "hash", "merge", "swap", "open", "dump",
             "replace", "again", "check", "script", "version", "select",
             "insert", "update", "reply"}
OpName == {"none", "boot", "setup", "branding", "import", "init"}
Task == [step : StepName, op : OpName, n : 0..MaxRequests, own : Doc,
         inode : Inode \cup {0}, at : Nat]
Content == [kind : {"empty", "doc", "garbled"}, doc : Doc]

\* The types, in groups that different actions touch.
ServiceOK == up \in BOOLEAN /\ mem \in Doc
TaskOK == task \in [Worker -> Task]
FilesOK == /\ path \in Inode \cup {0} /\ tmp \in Inode \cup {0}
           /\ data \in [Inode -> Content]
RowsOK == /\ rows \subseteq 0..MaxRequests
          /\ schema \in 0..Statements /\ versioned \in BOOLEAN
HistoryOK == /\ asked \in 0..MaxRequests /\ unfit \subseteq 1..MaxRequests /\ kills \in 0..MaxKills
             /\ acked \in Doc /\ named \in 0..MaxRequests
             /\ overlapped \in BOOLEAN /\ beside \in {"no", "ahead", "lost"}
             /\ cut \in BOOLEAN

RequestOp == {"setup", "branding", "import", "init"}
Saving == {"set", "open", "dump", "replace"}
At(w, steps) == task[w].step \in steps

\* What a step knows of its request, whatever overlaps: who executes which, and
\* which values it counts and writes with.
OpsAt(w) ==
    /\ At(w, {"set", "open", "dump", "replace", "reply"})
         => task[w].op \in RequestOp
    /\ At(w, {"hash"}) => w \in Service /\ task[w].op = "setup"
    /\ At(w, {"merge", "swap"}) => w \in Service /\ task[w].op = "import"
    /\ At(w, {"load", "check", "script", "version"})
         => \/ w = "loop" /\ task[w].op = "boot"
            \/ w = "cli" /\ task[w].op = "init"
            \/ w = "cli" /\ task[w].op = "import" /\ At(w, {"load"})
    /\ At(w, {"again"}) => w = "cli" /\ task[w].op = "init"
    /\ At(w, {"select", "insert", "update"}) => task[w].op \in {"setup", "init"}
    /\ At(w, {"script"}) => task[w].at \in 1..Statements
    /\ At(w, {"insert", "update"}) => task[w].at \in 0..MaxRequests
    /\ task[w].op = "setup" => w \in Service
    /\ task[w].op = "init" => w = "cli"
OpsInv == \A w \in Worker : OpsAt(w)

TypeInv == TypeOK /\ OpsInv

\* As long as nothing overlapped one worker is at work, the temporary file is
\* its own, and salt and hash are apart in the dictionary only while it is
\* between the two.
Pair(doc) == doc["salt"] = doc["hash"]
FileState ==
    /\ \A v, w \in Busy : v = w
    /\ (\A w \in Worker : ~At(w, {"hash"})) => Pair(mem)
    /\ tmp # 0 => tmp # path
    /\ path # 0 => data[path].kind = "doc" /\ Pair(data[path].doc)
FileWorker(w) ==
    /\ At(w, {"swap"}) \/ (w = "cli" /\ At(w, Saving)) => Pair(task[w].own)
    /\ At(w, {"hash"}) => mem["salt"] = task[w].n
    /\ At(w, {"dump"}) =>
          tmp # 0 /\ task[w].inode = tmp /\ data[tmp].kind = "empty"
    /\ At(w, {"replace"}) =>
          tmp # 0 /\ data[tmp].kind = "doc" /\ Pair(data[tmp].doc)
FileInv == ~overlapped => FileState /\ \A w \in Worker : FileWorker(w)

\* As long as nothing overlapped and no command's save was lost: what was
\* acknowledged is in the file and, unless a command is ahead, in the dictionary;
\* the last request has the highest number, and what it saves has its keys.
Kept(doc) == \A k \in Key : doc[k] >= acked[k]
Sets(doc, w) == \A k \in KeysOf(task[w].op) : doc[k] = task[w].n
Working(w) == task[w].step # "idle"
Saved(w) == \/ At(w, {"select", "insert", "update", "reply"})
            \/ w = "cli" /\ At(w, {"again", "check", "script", "version"})
FileKept == (\A k \in Key : acked[k] <= asked) /\ Kept(OnDisk.doc)
MemKept == (up \/ At("loop", {"check", "script", "version"})) /\ beside = "no"
             => Kept(mem)
RowKept == /\ named <= asked
           /\ \E r \in 0..MaxRequests : rows \subseteq {r}
           /\ named # 0 => \E r \in rows : r >= named
KeptState == FileKept /\ MemKept /\ RowKept
KeptWorker(w) ==
    /\ Working(w) /\ task[w].op # "boot" => task[w].n = asked
    /\ Working(w) /\ w \in Service /\ task[w].op \in RequestOp => up
    /\ w = "cli" /\ Saved(w) /\ up => beside # "no"
    /\ At(w, {"swap"}) => Sets(task[w].own, w) /\ (beside = "no" => Kept(task[w].own))
    /\ w = "cli" /\ At(w, Saving) => Kept(task[w].own)
    /\ At(w, {"hash"}) => \A k \in KeysOf("setup") \ {"hash"} : mem[k] = task[w].n
    /\ At(w, {"open", "dump", "replace"}) \/ Saved(w) => Sets(Config(w), w)
    /\ At(w, {"replace"}) => /\ Sets(data[tmp].doc, w)
                             /\ w = "cli" \/ beside = "no" => Kept(data[tmp].doc)
    /\ Saved(w) => Sets(OnDisk.doc, w)
    /\ At(w, {"insert"}) => rows = {}
    /\ At(w, {"insert", "update"}) => task[w].at = task[w].n
    /\ At(w, {"reply"}) /\ task[w].op \in {"setup", "init"} => rows = {task[w].n}
KeptInv ==
    ~overlapped /\ beside # "lost" => KeptState /\ \A w \in Worker : KeptWorker(w)

-----------------------------------------------------------------------------
(* Types.                                                                  *)

\* The types are the types of the groups.
LEMMA TypeParts ==
    TypeOK <=> ServiceOK /\ TaskOK /\ FilesOK /\ RowsOK /\ HistoryOK
BY DEF TypeOK, ServiceOK, TaskOK, FilesOK, RowsOK, HistoryOK, Task, StepName,
       OpName, Content

\* Setting keys gives a document.
LEMMA KeysTyped ==
    ASSUME NEW d \in Doc, NEW op, NEW n \in 0..MaxRequests
    PROVE  WithKeys(d, op, n) \in Doc
BY DEF WithKeys, Doc

\* The initial document, an idle worker and an absent file have their types.
LEMMA DefaultsTyped == Defaults \in Doc /\ Idle \in Task /\ Empty \in Content
<1>1. 0 \in 0..MaxRequests
  BY ProvisioningBounds
<1>2. Defaults \in Doc
  BY <1>1 DEF Defaults, Doc
<1> QED
  BY <1>1, <1>2 DEF Idle, Task, StepName, OpName, Empty, Holds, Content

\* What a worker reads as its configuration is a document, and so is the file.
LEMMA ConfigTyped ==
    ASSUME TypeOK, NEW w \in Worker
    PROVE  Config(w) \in Doc /\ OnDisk \in Content /\ OnDisk.doc \in Doc
<1>1. task[w].own \in Doc
  BY TypeParts DEF TaskOK, Task
<1>2. OnDisk \in Content
  BY TypeParts, DefaultsTyped DEF OnDisk, FilesOK
<1> QED
  BY <1>1, <1>2, TypeParts DEF Config, ServiceOK, Content

-----------------------------------------------------------------------------
(* What a step makes of its worker.                                        *)

Others(w) == \A v \in Worker \ {w} : task'[v] = task[v]
Comes(w, st) == /\ task'[w].step = st /\ task'[w].op = task[w].op
                /\ task'[w].n = task[w].n
SameOwn(w) == task'[w].own = task[w].own
SameAt(w) == task'[w].at = task[w].at
SameInode(w) == task'[w].inode = task[w].inode

\* It goes on.
LEMMA Goes ==
    ASSUME TaskOK, NEW w \in Worker, NEW st \in StepName, task' = Go(w, st)
    PROVE  /\ TaskOK' /\ Comes(w, st) /\ Others(w)
           /\ SameOwn(w) /\ SameAt(w) /\ SameInode(w)
<1>1. task[w] \in Task
  BY DEF TaskOK
<1>2. PICK t : t = [task[w] EXCEPT !.step = st]
  OBVIOUS
<1>3. t \in Task /\ t.step = st /\ t.op = task[w].op /\ t.n = task[w].n
      /\ t.own = task[w].own /\ t.at = task[w].at /\ t.inode = task[w].inode
  BY <1>1, <1>2 DEF Task
<1>4. task' = [task EXCEPT ![w] = t]
  BY <1>2 DEF Go
<1> QED
  BY <1>3, <1>4 DEF TaskOK, Comes, Others, SameOwn, SameAt, SameInode

\* It goes on with another document.
LEMMA GoesOwn ==
    ASSUME TaskOK, NEW w \in Worker, NEW st \in StepName, NEW d \in Doc,
           task' = [task EXCEPT ![w].step = st, ![w].own = d]
    PROVE  /\ TaskOK' /\ Comes(w, st) /\ Others(w)
           /\ task'[w].own = d /\ SameAt(w) /\ SameInode(w)
<1>1. task[w] \in Task
  BY DEF TaskOK
<1>2. PICK t : t = [task[w] EXCEPT !.step = st, !.own = d]
  OBVIOUS
<1>3. t \in Task /\ t.step = st /\ t.op = task[w].op /\ t.n = task[w].n
      /\ t.own = d /\ t.at = task[w].at /\ t.inode = task[w].inode
  BY <1>1, <1>2 DEF Task
<1>4. task' = [task EXCEPT ![w] = t]
  BY <1>1, <1>2 DEF TaskOK, Task
<1> QED
  BY <1>3, <1>4 DEF TaskOK, Comes, Others, SameAt, SameInode

\* It goes on with another number.
LEMMA GoesAt ==
    ASSUME TaskOK, NEW w \in Worker, NEW st \in StepName, NEW a \in Nat,
           task' = [task EXCEPT ![w].step = st, ![w].at = a]
    PROVE  /\ TaskOK' /\ Comes(w, st) /\ Others(w)
           /\ SameOwn(w) /\ task'[w].at = a /\ SameInode(w)
<1>1. task[w] \in Task
  BY DEF TaskOK
<1>2. PICK t : t = [task[w] EXCEPT !.step = st, !.at = a]
  OBVIOUS
<1>3. t \in Task /\ t.step = st /\ t.op = task[w].op /\ t.n = task[w].n
      /\ t.own = task[w].own /\ t.at = a /\ t.inode = task[w].inode
  BY <1>1, <1>2 DEF Task
<1>4. task' = [task EXCEPT ![w] = t]
  BY <1>1, <1>2 DEF TaskOK, Task
<1> QED
  BY <1>3, <1>4 DEF TaskOK, Comes, Others, SameOwn, SameInode

\* It goes on with a file.
LEMMA GoesInode ==
    ASSUME TaskOK, NEW w \in Worker, NEW st \in StepName, NEW i \in Inode \cup {0},
           task' = [task EXCEPT ![w].step = st, ![w].inode = i]
    PROVE  /\ TaskOK' /\ Comes(w, st) /\ Others(w)
           /\ SameOwn(w) /\ SameAt(w) /\ task'[w].inode = i
<1>1. task[w] \in Task
  BY DEF TaskOK
<1>2. PICK t : t = [task[w] EXCEPT !.step = st, !.inode = i]
  OBVIOUS
<1>3. t \in Task /\ t.step = st /\ t.op = task[w].op /\ t.n = task[w].n
      /\ t.own = task[w].own /\ t.at = task[w].at /\ t.inode = i
  BY <1>1, <1>2 DEF Task
<1>4. task' = [task EXCEPT ![w] = t]
  BY <1>1, <1>2 DEF TaskOK, Task
<1> QED
  BY <1>3, <1>4 DEF TaskOK, Comes, Others, SameOwn, SameAt

\* It ends.
LEMMA Ends ==
    ASSUME TaskOK, NEW w \in Worker, task' = End(w)
    PROVE  TaskOK' /\ task'[w] = Idle /\ Others(w)
BY DefaultsTyped DEF TaskOK, End, Others

-----------------------------------------------------------------------------
(* No step writes what its variable may not hold.                          *)

\* Who the workers are.
LEMMA WhoIsWho ==
    /\ "loop" \in Worker /\ "cli" \in Worker /\ "loop" \in Service
    /\ "cli" \notin Service /\ Service \subseteq Worker
    /\ \A w \in Worker : w # "cli" => w \in Service
BY Workers DEF Worker, Service

\* The types after a step of worker w.
LEMMA Typed ==
    ASSUME TypeInv, NEW w \in Worker, TaskOK', Others(w), OpsAt(w)',
           ServiceOK', FilesOK', RowsOK', HistoryOK'
    PROVE  TypeInv'
<1>1. TypeOK'
  BY TypeParts, PTL
<1>2. \A v \in Worker \ {w} : OpsAt(v)'
  <2> TAKE v \in Worker \ {w}
  <2>1. OpsAt(v) /\ task'[v] = task[v]
    BY DEF TypeInv, OpsInv, Others
  <2> QED
    BY <2>1 DEF OpsAt, At
<1> QED
  BY <1>1, <1>2 DEF TypeInv, OpsInv

\* The variables an action leaves alone keep their types.
LEMMA Untouched ==
    ASSUME TypeInv
    PROVE  /\ UNCHANGED <<up, mem>> => ServiceOK'
           /\ UNCHANGED files => FilesOK'
           /\ UNCHANGED database => RowsOK'
           /\ UNCHANGED <<counters, history>> => HistoryOK'
<1>1. ServiceOK /\ FilesOK /\ RowsOK /\ HistoryOK
  BY TypeParts DEF TypeInv
<1> QED
  BY <1>1 DEF ServiceOK, FilesOK, RowsOK, HistoryOK, files, database, counters,
              history

\* The service starts.
LEMMA BootTyped ==
    ASSUME TypeInv, Boot
    PROVE  TypeInv' /\ Others("loop") /\ task'["loop"].step = "load"
           /\ task'["loop"].op = "boot"
<1>1. TypeOK /\ TaskOK /\ HistoryOK /\ "loop" \in Worker
  BY TypeParts, WhoIsWho DEF TypeInv
<1>2. PICK t : t = [Idle EXCEPT !.step = "load", !.op = "boot"]
  OBVIOUS
<1>3. t \in Task /\ t.step = "load" /\ t.op = "boot"
  BY <1>2, DefaultsTyped DEF Idle, Task, StepName, OpName
<1>4. task' = [task EXCEPT !["loop"] = t]
  BY <1>2 DEF Boot
<1>5. TaskOK' /\ Others("loop") /\ task'["loop"] = t
  BY <1>1, <1>3, <1>4 DEF TaskOK, Others
<1>6. OpsAt("loop")'
  BY <1>3, <1>5 DEF OpsAt, At
<1>7. HistoryOK'
  BY <1>1 DEF Boot, HistoryOK, counters
<1>8. ServiceOK' /\ FilesOK' /\ RowsOK'
  BY Untouched DEF Boot
<1> QED
  BY <1>1, <1>3, <1>5, <1>6, <1>7, <1>8, Typed

\* A request or a command begins.
LEMMA RequestTyped ==
    ASSUME TypeInv, NEW r \in Runs, Request(r[1], r[2])
    PROVE  /\ TypeInv' /\ r[2] \in Worker /\ Others(r[2])
           /\ task'[r[2]].op = r[1] /\ task'[r[2]].n = asked + 1
           /\ task'[r[2]].step = IF r[2] = "cli" THEN "load"
                                 ELSE IF r[1] = "import" THEN "merge" ELSE "set"
           /\ task'[r[2]].own = Defaults
<1>1. PICK op, w : op = r[1] /\ w = r[2]
  OBVIOUS
<1>2. /\ w \in Worker /\ op \in RequestOp
      /\ w = "cli" => op \in {"init", "import"}
      /\ w # "cli" => w \in Service /\ op # "init"
  BY <1>1, WhoIsWho DEF Runs, RequestOp, Service, Worker
<1>3. TypeOK /\ TaskOK /\ HistoryOK
  BY TypeParts DEF TypeInv
<1>4. asked + 1 \in 0..MaxRequests
  BY <1>1, <1>3, ProvisioningBounds DEF Request, HistoryOK
<1>5. PICK st : st = IF w = "cli" THEN "load"
                     ELSE IF op = "import" THEN "merge" ELSE "set"
  OBVIOUS
<1>6. PICK t : t = [Idle EXCEPT !.op = op, !.n = asked + 1, !.step = st]
  OBVIOUS
<1>7. t \in Task /\ t.step = st /\ t.op = op /\ t.n = asked + 1 /\ t.own = Defaults
  BY <1>2, <1>4, <1>5, <1>6, DefaultsTyped DEF Idle, Task, StepName, OpName, RequestOp
<1>8. task' = [task EXCEPT ![w] = t]
  BY <1>1, <1>5, <1>6 DEF Request
<1>9. TaskOK' /\ Others(w) /\ task'[w] = t
  BY <1>2, <1>3, <1>7, <1>8 DEF TaskOK, Others
<1>10. OpsAt(w)'
  <2>1. /\ st \in {"load", "merge", "set"}
        /\ st = "load" => w = "cli"
        /\ st = "merge" => w \in Service /\ op = "import"
    BY <1>2, <1>5
  <2>2. /\ op = "setup" => w \in Service
        /\ op = "init" => w = "cli"
    BY <1>2
  <2>3. w = "cli" => op = "init" \/ op = "import"
    BY <1>2
  <2> QED
    BY <1>2, <1>7, <1>9, <2>1, <2>2, <2>3 DEF OpsAt, At
<1>11. HistoryOK'
  <2>1. asked + 1 \in 1..MaxRequests
    BY <1>3, <1>4 DEF HistoryOK
  <2>2. unfit' \subseteq 1..MaxRequests
    BY <1>1, <1>3, <2>1 DEF Request, HistoryOK
  <2> QED
    BY <1>1, <1>3, <1>4, <2>2 DEF Request, HistoryOK
<1>12. ServiceOK' /\ FilesOK' /\ RowsOK'
  BY <1>1, Untouched DEF Request
<1>13. TypeInv'
  BY <1>2, <1>9, <1>10, <1>11, <1>12, Typed
<1> QED
  BY <1>1, <1>2, <1>5, <1>7, <1>9, <1>13

\* Which keys an operation sets.
LEMMA Operations ==
    /\ \A op \in {"setup", "init"} : KeysOf(op) = Key \ {"start"}
    /\ KeysOf("branding") = {"brand"}
    /\ KeysOf("import") = {"brand", "id", "start"}
BY DEF KeysOf

\* What an operation does after its save.
LEMMA AfterSaves ==
    ASSUME NEW w
    PROVE  /\ task[w].op = "setup" => AfterSave(w) = "select"
           /\ task[w].op = "init" => AfterSave(w) = "again"
           /\ task[w].op \notin {"setup", "init"} => AfterSave(w) = "reply"
BY DEF AfterSave

\* A file is loaded, or ends the process.
LEMMA LoadTyped ==
    ASSUME TypeInv, NEW w \in Worker, Load(w)
    PROVE  /\ TypeInv' /\ Others(w)
           /\ \/ task'[w] = Idle /\ UNCHANGED <<mem, beside>>
              \/ /\ w = "loop" /\ mem' = OnDisk.doc /\ Comes(w, "check")
                 /\ SameOwn(w) /\ SameInode(w)
              \/ /\ w = "cli" /\ UNCHANGED <<mem, beside>> /\ Comes(w, "set")
                 /\ task'[w].own = OnDisk.doc /\ SameInode(w)
<1>1. /\ TaskOK /\ OpsAt(w) /\ ServiceOK /\ HistoryOK /\ OnDisk.doc \in Doc
      /\ At(w, {"load"})
  BY TypeParts, ConfigTyped DEF TypeInv, OpsInv, Load, At
<1>2. w \in {"loop", "cli"}
  BY <1>1 DEF OpsAt, At
<1>3. FilesOK' /\ RowsOK'
  BY Untouched DEF Load
<1>4. HistoryOK'
  BY <1>1 DEF Load, HistoryOK, counters
<1>5. CASE Fails(w)
  <2>1. task' = End(w) /\ UNCHANGED <<up, mem, beside>>
    BY <1>5 DEF Load
  <2>2. TaskOK' /\ task'[w] = Idle /\ Others(w)
    BY <1>1, <2>1, Ends
  <2>3. OpsAt(w)'
    BY <2>2 DEF OpsAt, At, Idle
  <2>4. TypeInv'
    BY <1>3, <1>4, <2>1, <2>2, <2>3, Untouched, Typed
  <2> QED
    BY <1>5, <2>1, <2>2, <2>4
<1>6. CASE ~Fails(w) /\ w = "loop"
  <2>1. task' = Go(w, "check") /\ mem' = OnDisk.doc /\ up' = up
    BY <1>6 DEF Load
  <2>2. /\ TaskOK' /\ Comes(w, "check") /\ Others(w) /\ SameOwn(w)
        /\ SameAt(w) /\ SameInode(w)
    BY <1>1, <2>1, Goes DEF StepName
  <2>3. OpsAt(w)'
    BY <1>1, <1>6, <2>2, WhoIsWho DEF OpsAt, At, Comes
  <2>4. ServiceOK'
    BY <1>1, <2>1 DEF ServiceOK
  <2>5. TypeInv'
    BY <1>3, <1>4, <2>2, <2>3, <2>4, Typed
  <2> QED
    BY <1>6, <2>1, <2>2, <2>5
<1>7. CASE ~Fails(w) /\ w = "cli"
  <2>1. /\ task' = [task EXCEPT ![w].step = "set", ![w].own = OnDisk.doc]
        /\ UNCHANGED <<up, mem, beside>>
    BY <1>7, WhoIsWho DEF Load
  <2>2. /\ TaskOK' /\ Comes(w, "set") /\ Others(w) /\ task'[w].own = OnDisk.doc
        /\ SameAt(w) /\ SameInode(w)
    BY <1>1, <2>1, GoesOwn DEF StepName
  <2>3. OpsAt(w)'
    BY <1>1, <1>7, <2>2 DEF OpsAt, At, Comes, RequestOp
  <2>4. TypeInv'
    BY <1>3, <1>4, <2>1, <2>2, <2>3, Untouched, Typed
  <2> QED
    BY <1>7, <2>1, <2>2, <2>4
<1> QED
  BY <1>2, <1>5, <1>6, <1>7

\* Keys are set, in the service's dictionary or in the command's own.
LEMMA SetKeysTyped ==
    ASSUME TypeInv, NEW w \in Worker, SetKeys(w)
    PROVE  LET new == WithKeys(Config(w), task[w].op, task[w].n) IN
           /\ TypeInv' /\ Others(w) /\ SameInode(w) /\ new \in Doc
           /\ \/ /\ w = "cli" /\ mem' = mem /\ Comes(w, "open")
                 /\ task'[w].own = new
              \/ /\ w \in Service /\ task[w].op = "setup" /\ Comes(w, "hash")
                 /\ SameOwn(w) /\ mem' = [new EXCEPT !["hash"] = mem.hash]
              \/ /\ w \in Service /\ task[w].op # "setup" /\ Comes(w, "open")
                 /\ SameOwn(w) /\ mem' = new
<1>1. PICK new : new = WithKeys(Config(w), task[w].op, task[w].n)
  OBVIOUS
<1>2. /\ TaskOK /\ OpsAt(w) /\ ServiceOK /\ At(w, {"set"})
      /\ new \in Doc
  <2>1. task[w].n \in 0..MaxRequests
    BY TypeParts DEF TypeInv, TaskOK, Task
  <2>2. new \in Doc
    BY <1>1, <2>1, ConfigTyped, KeysTyped DEF TypeInv
  <2> QED
    BY <2>2, TypeParts DEF TypeInv, OpsInv, SetKeys, At
<1>3. FilesOK' /\ RowsOK' /\ HistoryOK'
  BY Untouched DEF SetKeys
<1>4. CASE w = "cli"
  <2>1. /\ task' = [task EXCEPT ![w].step = "open", ![w].own = new]
        /\ UNCHANGED <<up, mem>>
    BY <1>1, <1>4 DEF SetKeys
  <2>2. /\ TaskOK' /\ Comes(w, "open") /\ Others(w) /\ task'[w].own = new
        /\ SameAt(w) /\ SameInode(w)
    BY <1>2, <2>1, GoesOwn DEF StepName
  <2>3. OpsAt(w)'
    BY <1>2, <2>2 DEF OpsAt, At, Comes
  <2>4. TypeInv'
    BY <1>3, <2>1, <2>2, <2>3, Untouched, Typed
  <2> QED
    BY <1>1, <1>2, <1>4, <2>1, <2>2, <2>4
<1>5. CASE w # "cli" /\ task[w].op = "setup"
  <2>1. task' = Go(w, "hash") /\ up' = up /\ mem' = [new EXCEPT !["hash"] = mem.hash]
    BY <1>1, <1>5 DEF SetKeys
  <2>2. /\ TaskOK' /\ Comes(w, "hash") /\ Others(w) /\ SameOwn(w)
        /\ SameAt(w) /\ SameInode(w)
    BY <1>2, <2>1, Goes DEF StepName
  <2>3. OpsAt(w)'
    BY <1>2, <1>5, <2>2, WhoIsWho DEF OpsAt, At, Comes
  <2>4. ServiceOK'
    BY <1>2, <2>1 DEF ServiceOK, Doc, Key
  <2>5. TypeInv'
    BY <1>3, <2>2, <2>3, <2>4, Typed
  <2> QED
    BY <1>1, <1>2, <1>5, <2>1, <2>2, <2>5, WhoIsWho
<1>6. CASE w # "cli" /\ task[w].op # "setup"
  <2>1. task' = Go(w, "open") /\ up' = up /\ mem' = new
    BY <1>1, <1>6 DEF SetKeys
  <2>2. /\ TaskOK' /\ Comes(w, "open") /\ Others(w) /\ SameOwn(w)
        /\ SameAt(w) /\ SameInode(w)
    BY <1>2, <2>1, Goes DEF StepName
  <2>3. OpsAt(w)'
    BY <1>2, <2>2 DEF OpsAt, At, Comes
  <2>4. ServiceOK'
    BY <1>2, <2>1 DEF ServiceOK
  <2>5. TypeInv'
    BY <1>3, <2>2, <2>3, <2>4, Typed
  <2> QED
    BY <1>1, <1>2, <1>6, <2>1, <2>2, <2>5, WhoIsWho
<1> QED
  BY <1>4, <1>5, <1>6

\* The hash of the new PIN.
LEMMA SetHashTyped ==
    ASSUME TypeInv, NEW w \in Worker, SetHash(w)
    PROVE  /\ TypeInv' /\ Others(w) /\ Comes(w, "open") /\ SameOwn(w) /\ SameInode(w)
           /\ w \in Service /\ mem' = [mem EXCEPT !["hash"] = task[w].n]
<1>1. /\ TaskOK /\ OpsAt(w) /\ ServiceOK /\ At(w, {"hash"})
      /\ task[w].n \in 0..MaxRequests
  BY TypeParts DEF TypeInv, OpsInv, SetHash, At, TaskOK, Task
<1>2. /\ TaskOK' /\ Comes(w, "open") /\ Others(w) /\ SameOwn(w)
      /\ SameAt(w) /\ SameInode(w)
  BY <1>1, Goes DEF StepName, SetHash
<1>3. mem' \in Doc
  BY <1>1 DEF SetHash, ServiceOK, Doc, Key
<1>4. ServiceOK' /\ FilesOK' /\ RowsOK' /\ HistoryOK'
  BY <1>1, <1>3, Untouched DEF SetHash, ServiceOK
<1>5. OpsAt(w)'
  BY <1>1, <1>2 DEF OpsAt, At, Comes, RequestOp
<1>6. TypeInv'
  BY <1>2, <1>4, <1>5, Typed
<1> QED
  BY <1>1, <1>2, <1>6 DEF SetHash, OpsAt, At

\* An import merges its settings into a copy of the dictionary ...
LEMMA MergeTyped ==
    ASSUME TypeInv, NEW w \in Worker, Merge(w)
    PROVE  /\ TypeInv' /\ Others(w) /\ Comes(w, "swap") /\ SameInode(w)
           /\ w \in Service /\ task[w].op = "import"
           /\ task'[w].own = WithKeys(mem, "import", task[w].n)
<1>1. /\ TaskOK /\ OpsAt(w) /\ ServiceOK /\ At(w, {"merge"})
      /\ task[w].n \in 0..MaxRequests
  BY TypeParts DEF TypeInv, OpsInv, Merge, At, TaskOK, Task
<1>2. PICK d \in Doc : d = WithKeys(mem, "import", task[w].n)
  BY <1>1, KeysTyped DEF ServiceOK
<1>3. task' = [task EXCEPT ![w].step = "swap", ![w].own = d]
  BY <1>2 DEF Merge
<1>4. /\ TaskOK' /\ Comes(w, "swap") /\ Others(w) /\ task'[w].own = d
      /\ SameAt(w) /\ SameInode(w)
  BY <1>1, <1>3, GoesOwn DEF StepName
<1>5. ServiceOK' /\ FilesOK' /\ RowsOK' /\ HistoryOK'
  BY Untouched DEF Merge
<1>6. OpsAt(w)'
  BY <1>1, <1>4 DEF OpsAt, At, Comes
<1>7. TypeInv'
  BY <1>4, <1>5, <1>6, Typed
<1> QED
  BY <1>1, <1>2, <1>4, <1>7 DEF OpsAt, At

\* ... and the copy takes the dictionary's place.
LEMMA SwapTyped ==
    ASSUME TypeInv, NEW w \in Worker, Swap(w)
    PROVE  /\ TypeInv' /\ Others(w) /\ Comes(w, "open") /\ SameOwn(w) /\ SameInode(w)
           /\ w \in Service /\ task[w].op = "import" /\ mem' = task[w].own
<1>1. /\ TaskOK /\ OpsAt(w) /\ ServiceOK /\ At(w, {"swap"})
      /\ task[w].own \in Doc
  BY TypeParts DEF TypeInv, OpsInv, Swap, At, TaskOK, Task
<1>2. /\ TaskOK' /\ Comes(w, "open") /\ Others(w) /\ SameOwn(w)
      /\ SameAt(w) /\ SameInode(w)
  BY <1>1, Goes DEF StepName, Swap
<1>3. ServiceOK' /\ FilesOK' /\ RowsOK' /\ HistoryOK'
  BY <1>1, Untouched DEF Swap, ServiceOK
<1>4. OpsAt(w)'
  BY <1>1, <1>2 DEF OpsAt, At, Comes, RequestOp
<1>5. TypeInv'
  BY <1>2, <1>3, <1>4, Typed
<1> QED
  BY <1>1, <1>2, <1>5 DEF Swap, OpsAt, At

\* There are finitely many workers.
LEMMA WorkersFinite == IsFiniteSet(Worker) /\ Cardinality(Worker) \in Nat
<1>1. IsFiniteSet({"loop"}) /\ IsFiniteSet({"cli"})
  BY FS_Singleton
<1>2. IsFiniteSet(Service)
  BY <1>1, Workers, FS_Union DEF Service
<1>3. IsFiniteSet(Worker)
  BY <1>1, <1>2, FS_Union DEF Worker
<1> QED
  BY <1>3, FS_CardinalityType

\* A new temporary file finds an inode: besides the configuration file at most
\* one is in use per worker.
LEMMA InodeFree ==
    ASSUME TypeOK, tmp = 0
    PROVE  Unused # {} /\ Unused \subseteq Inode
<1> DEFINE used == {task[w].inode : w \in Worker}
           c == Cardinality(Worker)
<1>1. IsFiniteSet(Worker) /\ c \in Nat
  BY WorkersFinite
<1>2. IsFiniteSet(used) /\ Cardinality(used) <= c /\ Cardinality(used) \in Nat
  <2>1. PICK f : f = [w \in Worker |-> task[w].inode]
    OBVIOUS
  <2>2. f \in Surjection(Worker, used)
    BY <2>1 DEF Surjection
  <2> HIDE DEF used
  <2> QED
    BY <1>1, <2>2, FS_Surjection, FS_CardinalityType
<1>3. IsFiniteSet(used \cup {path}) /\ Cardinality(used \cup {path}) <= c + 1
      /\ Cardinality(used \cup {path}) \in Nat
  <2> HIDE DEF used, c
  <2>1. IsFiniteSet(used \cup {path})
    BY <1>2, FS_AddElement
  <2>2. /\ Cardinality(used \cup {path}) \in Nat
        /\ \/ Cardinality(used \cup {path}) = Cardinality(used)
           \/ Cardinality(used \cup {path}) = Cardinality(used) + 1
    BY <1>2, <2>1, FS_AddElement, FS_CardinalityType
  <2> QED
    BY <1>1, <1>2, <2>1, <2>2
<1>4. IsFiniteSet(Inode) /\ Cardinality(Inode) = c + 2
  <2>1. c + 2 \in Nat /\ Inode = 1..(c + 2)
    BY <1>1 DEF Inode
  <2>2. 1 \in Int /\ c + 2 \in Int
    BY <2>1
  <2> QED
    BY <1>1, <2>1, <2>2, FS_Interval
<1>5. ASSUME Unused = {} PROVE FALSE
  <2>1. Inode \subseteq used \cup {path}
    <3> SUFFICES ASSUME NEW i \in Inode PROVE i \in used \cup {path}
      OBVIOUS
    <3>1. i \in {path, tmp} \cup used
      BY <1>5 DEF Unused
    <3>2. i # tmp
      BY <1>1 DEF Inode
    <3> QED
      BY <3>1, <3>2
  <2>2. Cardinality(Inode) <= Cardinality(used \cup {path})
    BY <1>3, <2>1, FS_Subset
  <2> QED
    BY <1>1, <1>3, <1>4, <2>2
<1> QED
  BY <1>5 DEF Unused

\* The lowest of some inodes is one of them.
LEMMA LowestIn ==
    ASSUME NEW S \in SUBSET Inode, S # {}
    PROVE  Lowest(S) \in S
<1> DEFINE R == OpToRel(<, Nat)
<1>1. IsWellFoundedOn(R, Nat)
  BY NatLessThanWellFounded
<1>2. S \subseteq Nat
  BY WorkersFinite DEF Inode
<1>3. PICK x \in S : \A y \in S : <<y, x>> \notin R
  <2> HIDE DEF R
  <2> QED
    BY <1>1, <1>2, WFMin
<1>4. \A y \in S : ~(y < x)
  BY <1>2, <1>3 DEF OpToRel
<1>5. \A y \in S : x <= y
  BY <1>2, <1>4
<1> QED
  BY <1>5 DEF Lowest

\* The temporary file is opened: truncated, or a new one.
LEMMA OpenTyped ==
    ASSUME TypeInv, NEW w \in Worker, Open(w)
    PROVE  /\ TypeInv' /\ Others(w) /\ Comes(w, "dump") /\ SameOwn(w)
           /\ tmp' \in Inode /\ task'[w].inode = tmp'
           /\ tmp # 0 => tmp' = tmp
           /\ tmp = 0 => tmp' # path
           /\ data' = [data EXCEPT ![tmp'] = Empty]
<1>1. /\ TaskOK /\ OpsAt(w) /\ FilesOK /\ At(w, {"open"})
  BY TypeParts DEF TypeInv, OpsInv, Open, At
<1>3. PICK i : i = IF tmp = 0 THEN Lowest(Unused) ELSE tmp
  OBVIOUS
<1>4. tmp = 0 => i \in Unused /\ Unused \subseteq Inode
  BY <1>3, InodeFree, LowestIn DEF TypeInv
<1>5. i \in Inode /\ (tmp # 0 => i = tmp) /\ (tmp = 0 => i # path)
  BY <1>1, <1>3, <1>4 DEF FilesOK, Unused
<1>6. /\ tmp' = i /\ data' = [data EXCEPT ![i] = Empty] /\ path' = path
      /\ task' = [task EXCEPT ![w].step = "dump", ![w].inode = i]
  BY <1>3 DEF Open
<1>7. /\ TaskOK' /\ Comes(w, "dump") /\ Others(w) /\ SameOwn(w)
      /\ SameAt(w) /\ task'[w].inode = i
  BY <1>1, <1>5, <1>6, GoesInode DEF StepName
<1>8. FilesOK'
  BY <1>1, <1>5, <1>6, DefaultsTyped DEF FilesOK
<1>9. ServiceOK' /\ RowsOK' /\ HistoryOK'
  BY Untouched DEF Open
<1>10. OpsAt(w)'
  BY <1>1, <1>7 DEF OpsAt, At, Comes
<1>11. TypeInv'
  BY <1>7, <1>8, <1>9, <1>10, Typed
<1> QED
  BY <1>5, <1>6, <1>7, <1>11

\* The document is written.
LEMMA DumpTyped ==
    ASSUME TypeInv, NEW w \in Worker, Dump(w)
    PROVE  /\ TypeInv' /\ Others(w) /\ Comes(w, "replace") /\ SameOwn(w)
           /\ SameInode(w) /\ Holds("doc", Config(w)) \in Content
           /\ \E content \in Content :
                 /\ data' = [data EXCEPT ![task[w].inode] = content]
                 /\ data[task[w].inode].kind = "empty"
                      => content = Holds("doc", Config(w))
<1>1. /\ TaskOK /\ OpsAt(w) /\ FilesOK /\ At(w, {"dump"})
  BY TypeParts DEF TypeInv, OpsInv, Dump, At
<1>2. Holds("doc", Config(w)) \in Content /\ Holds("garbled", Defaults) \in Content
  BY ConfigTyped, DefaultsTyped DEF TypeInv, Holds, Content
<1>3. PICK content \in Content :
         /\ data' = [data EXCEPT ![task[w].inode] = content]
         /\ data[task[w].inode].kind = "empty" => content = Holds("doc", Config(w))
  BY <1>2 DEF Dump
<1>4. /\ TaskOK' /\ Comes(w, "replace") /\ Others(w) /\ SameOwn(w)
      /\ SameAt(w) /\ SameInode(w)
  BY <1>1, Goes DEF StepName, Dump
<1>5. FilesOK'
  BY <1>1, <1>3 DEF FilesOK, Dump
<1>6. ServiceOK' /\ RowsOK' /\ HistoryOK'
  BY Untouched DEF Dump
<1>7. OpsAt(w)'
  BY <1>1, <1>4 DEF OpsAt, At, Comes
<1>8. TypeInv'
  BY <1>4, <1>5, <1>6, <1>7, Typed
<1> QED
  BY <1>2, <1>3, <1>4, <1>8

\* The temporary file takes the place of the configuration file, if it is there.
LEMMA ReplaceTyped ==
    ASSUME TypeInv, NEW w \in Worker, Replace(w)
    PROVE  /\ TypeInv' /\ Others(w)
           /\ \/ tmp = 0 /\ task'[w] = Idle /\ UNCHANGED <<path, tmp, data, beside>>
              \/ /\ tmp # 0 /\ path' = tmp /\ tmp' = 0
                 /\ \A i \in Inode : i # path => data'[i] = data[i]
                 /\ Comes(w, AfterSave(w)) /\ SameOwn(w)
                 /\ task[w].op \in RequestOp
                 /\ w = "cli" /\ up /\ beside = "no" => beside' = "ahead"
                 /\ w # "cli" /\ beside = "ahead" => beside' = "lost"
                 /\ ~(w = "cli" /\ up /\ beside = "no")
                      /\ ~(w # "cli" /\ beside = "ahead") => beside' = beside
<1>1. /\ TaskOK /\ OpsAt(w) /\ FilesOK /\ HistoryOK /\ At(w, {"replace"})
  BY TypeParts DEF TypeInv, OpsInv, Replace, At
<1>2. task[w].op \in RequestOp
  BY <1>1 DEF OpsAt, At
<1>3. ServiceOK' /\ RowsOK'
  BY Untouched DEF Replace
<1>4. CASE tmp = 0
  <2>1. task' = End(w) /\ UNCHANGED <<path, tmp, data, beside>>
    BY <1>4 DEF Replace
  <2>2. TaskOK' /\ task'[w] = Idle /\ Others(w)
    BY <1>1, <2>1, Ends
  <2>3. OpsAt(w)'
    BY <2>2 DEF OpsAt, At, Idle
  <2>4. FilesOK' /\ HistoryOK'
    BY <1>1, <2>1 DEF Replace, FilesOK, HistoryOK, counters
  <2>5. TypeInv'
    BY <1>3, <2>2, <2>3, <2>4, Typed
  <2> QED
    BY <1>4, <2>1, <2>2, <2>5
<1>5. CASE tmp # 0
  <2>1. /\ path' = tmp /\ tmp' = 0
        /\ data' = [i \in Inode |-> IF i = path /\ \A v \in Worker \ {w} :
                                             task[v].inode # i
                                    THEN Empty ELSE data[i]]
        /\ task' = [task EXCEPT ![w].step = AfterSave(w), ![w].inode = 0]
    BY <1>5 DEF Replace
  <2>2. AfterSave(w) \in {"select", "again", "reply"}
    BY AfterSaves
  <2>3. /\ TaskOK' /\ Comes(w, AfterSave(w)) /\ Others(w) /\ SameOwn(w)
        /\ SameAt(w) /\ task'[w].inode = 0
    <3>1. PICK st \in StepName : st = AfterSave(w)
      BY <2>2 DEF StepName
    <3> QED
      BY <1>1, <2>1, <3>1, GoesInode
  <2>4. OpsAt(w)'
    <3>1. CASE task[w].op = "setup"
      BY <1>1, <2>3, <3>1, AfterSaves DEF OpsAt, At, Comes
    <3>2. CASE task[w].op = "init"
      <4> QED
        BY <1>1, <2>3, <3>2, AfterSaves DEF OpsAt, At, Comes
    <3>3. CASE task[w].op \notin {"setup", "init"}
      BY <1>1, <1>2, <2>3, <3>3, AfterSaves DEF OpsAt, At, Comes
    <3> QED
      BY <3>1, <3>2, <3>3
  <2>5. FilesOK'
    BY <1>1, <2>1, DefaultsTyped DEF FilesOK
  <2>6. /\ w = "cli" /\ up /\ beside = "no" => beside' = "ahead"
        /\ w # "cli" /\ beside = "ahead" => beside' = "lost"
        /\ ~(w = "cli" /\ up /\ beside = "no") /\ ~(w # "cli" /\ beside = "ahead")
             => beside' = beside
    BY <1>5 DEF Replace
  <2>7. HistoryOK'
    BY <1>1, <2>6 DEF Replace, HistoryOK, counters
  <2>8. TypeInv'
    BY <1>3, <2>3, <2>4, <2>5, <2>7, Typed
  <2>9. \A i \in Inode : i # path => data'[i] = data[i]
    BY <2>1
  <2> QED
    BY <1>2, <1>5, <2>1, <2>3, <2>6, <2>8, <2>9
<1> QED
  BY <1>4, <1>5

\* A command loads the file anew.
LEMMA LoadAgainTyped ==
    ASSUME TypeInv, NEW w \in Worker, LoadAgain(w)
    PROVE  /\ TypeInv' /\ Others(w) /\ At(w, {"again"}) /\ w = "cli"
           /\ task[w].op = "init"
           /\ UNCHANGED <<up, mem, files, database, counters, history>>
           /\ \/ task'[w] = Idle
              \/ Comes(w, "check") /\ task'[w].own = OnDisk.doc
<1>1. /\ TaskOK /\ OpsAt(w) /\ OnDisk.doc \in Doc /\ At(w, {"again"})
  BY TypeParts, ConfigTyped DEF TypeInv, OpsInv, LoadAgain, At
<1>2. w = "cli" /\ task[w].op = "init"
  BY <1>1 DEF OpsAt
<1>3. ServiceOK' /\ FilesOK' /\ RowsOK' /\ HistoryOK'
  BY Untouched DEF LoadAgain
<1>4. UNCHANGED <<up, mem, files, database, counters, history>>
  BY DEF LoadAgain
<1>5. CASE task' = End(w)
  <2>1. TaskOK' /\ task'[w] = Idle /\ Others(w)
    BY <1>1, <1>5, Ends
  <2>2. OpsAt(w)'
    BY <2>1 DEF OpsAt, At, Idle
  <2>3. TypeInv'
    BY <1>3, <2>1, <2>2, Typed
  <2> QED
    BY <1>1, <1>2, <1>4, <2>1, <2>3
<1>6. CASE task' = [task EXCEPT ![w].step = "check", ![w].own = OnDisk.doc]
  <2>1. /\ TaskOK' /\ Comes(w, "check") /\ Others(w) /\ task'[w].own = OnDisk.doc
    BY <1>1, <1>6, GoesOwn DEF StepName
  <2>2. OpsAt(w)'
    BY <1>2, <2>1 DEF OpsAt, At, Comes
  <2>3. TypeInv'
    BY <1>3, <2>1, <2>2, Typed
  <2> QED
    BY <1>1, <1>2, <1>4, <2>1, <2>3
<1> QED
  BY <1>5, <1>6 DEF LoadAgain

\* After a migration the service is up and the command syncs its row.
LEMMA MigratedTyped ==
    ASSUME TypeInv, NEW w \in Worker, Migrated(w), FilesOK', RowsOK', HistoryOK',
           mem' = mem, At(w, {"check", "version"})
    PROVE  /\ TypeInv' /\ Others(w)
           /\ \/ w = "loop" /\ task'[w] = Idle /\ up'
              \/ /\ w = "cli" /\ task[w].op = "init" /\ Comes(w, "select")
                 /\ SameOwn(w) /\ up' = up
<1>1. TaskOK /\ OpsAt(w) /\ ServiceOK
  BY TypeParts DEF TypeInv, OpsInv
<1>2. w = "loop" \/ (w = "cli" /\ task[w].op = "init")
  BY <1>1 DEF OpsAt, At
<1>3. ServiceOK' /\ (w = "loop" => up') /\ (w # "loop" => up' = up)
  BY <1>1 DEF Migrated, ServiceOK
<1>4. CASE w = "loop"
  <2>1. TaskOK' /\ task'[w] = Idle /\ Others(w)
    BY <1>1, <1>4, Ends DEF Migrated
  <2>2. OpsAt(w)'
    BY <2>1 DEF OpsAt, At, Idle
  <2>3. TypeInv'
    BY <1>3, <2>1, <2>2, Typed
  <2> QED
    BY <1>3, <1>4, <2>1, <2>3
<1>5. CASE w # "loop"
  <2>1. TaskOK' /\ Comes(w, "select") /\ Others(w) /\ SameOwn(w) /\ SameAt(w)
    BY <1>1, <1>5, Goes DEF Migrated, StepName
  <2>2. OpsAt(w)'
    BY <1>1, <1>2, <1>5, <2>1 DEF OpsAt, At, Comes
  <2>3. TypeInv'
    BY <1>3, <2>1, <2>2, Typed
  <2> QED
    BY <1>2, <1>3, <1>5, <2>1, <2>3
<1> QED
  BY <1>4, <1>5

\* The migration: what has been applied, a statement, the version.
LEMMA MigrateTyped ==
    ASSUME TypeInv, NEW w \in Worker, Migrate(w)
    PROVE  /\ TypeInv' /\ Others(w) /\ At(w, {"check", "script", "version"})
           /\ UNCHANGED <<mem, files, rows, counters, history>>
           /\ \/ task'[w] = Idle /\ (up' = up \/ w = "loop")
              \/ /\ w = "cli" /\ Comes(w, "select") /\ SameOwn(w) /\ up' = up
                 /\ task[w].op = "init"
              \/ /\ task'[w].step \in {"script", "version"} /\ SameOwn(w) /\ up' = up
                 /\ task'[w].op = task[w].op /\ task'[w].n = task[w].n
<1>1. /\ TaskOK /\ OpsAt(w) /\ RowsOK
      /\ At(w, {"check", "script", "version"})
  BY TypeParts DEF TypeInv, OpsInv, Migrate, Check, Script, Version, At
<1>2. /\ UNCHANGED <<mem, files, rows, counters, history>>
      /\ FilesOK' /\ HistoryOK'
  <2>1. UNCHANGED <<mem, files, rows, counters, history>>
    BY DEF Migrate, Check, Script, Version, database
  <2> QED
    BY <2>1, Untouched
<1>3. CASE Check(w) /\ versioned
  <2>1. Migrated(w) /\ UNCHANGED database
    BY <1>3 DEF Check
  <2>2. RowsOK'
    BY <2>1, Untouched
  <2>3. At(w, {"check", "version"})
    BY <1>3 DEF Check, At
  <2> QED
    BY <1>1, <1>2, <2>1, <2>2, <2>3, MigratedTyped
<1>4. CASE Check(w) /\ ~versioned
  <2>1. /\ task' = [task EXCEPT ![w].step = "script", ![w].at = 1]
        /\ UNCHANGED <<up, database>> /\ At(w, {"check"})
    BY <1>4 DEF Check, At
  <2>2. /\ TaskOK' /\ Comes(w, "script") /\ Others(w) /\ SameOwn(w)
        /\ task'[w].at = 1
    BY <1>1, <2>1, GoesAt DEF StepName
  <2>3. 1 \in 1..Statements
    BY ProvisioningBounds
  <2>4. OpsAt(w)'
    BY <1>1, <2>1, <2>2, <2>3 DEF OpsAt, At, Comes
  <2>5. ServiceOK' /\ RowsOK'
    BY <1>2, <2>1, Untouched
  <2>6. TypeInv'
    BY <1>2, <2>2, <2>4, <2>5, Typed
  <2> QED
    BY <1>1, <1>2, <2>1, <2>2, <2>6 DEF Comes
<1>5. CASE Script(w)
  <2>1. PICK k : k = task[w].at
    OBVIOUS
  <2>2. /\ k \in 1..Statements /\ k \in Nat /\ k + 1 \in Nat
        /\ At(w, {"script"}) /\ UNCHANGED <<up, versioned>>
    BY <1>1, <1>5, <2>1, ProvisioningBounds DEF Script, OpsAt, At
  <2>3. ServiceOK'
    BY <1>2, <2>2, Untouched
  <2>4. CASE schema >= k
    <3>1. task' = End(w) /\ UNCHANGED database
      BY <1>2, <1>5, <2>1, <2>2, <2>4 DEF Script, database
    <3>2. TaskOK' /\ task'[w] = Idle /\ Others(w) /\ RowsOK'
      BY <1>1, <3>1, Ends, Untouched
    <3>3. OpsAt(w)'
      BY <3>2 DEF OpsAt, At, Idle
    <3>4. TypeInv'
      BY <1>2, <2>3, <3>2, <3>3, Typed
    <3> QED
      BY <1>1, <1>2, <2>2, <3>2, <3>4
  <2>5. CASE ~(schema >= k) /\ k = Statements
    <3>1. task' = Go(w, "version") /\ schema' = k
      BY <1>5, <2>1, <2>5 DEF Script
    <3>2. TaskOK' /\ Comes(w, "version") /\ Others(w) /\ SameOwn(w) /\ SameAt(w)
      BY <1>1, <3>1, Goes DEF StepName
    <3>3. RowsOK'
      BY <1>1, <1>2, <2>2, <3>1, ProvisioningBounds DEF RowsOK
    <3>4. OpsAt(w)'
      BY <1>1, <2>2, <3>2 DEF OpsAt, At, Comes
    <3>5. TypeInv'
      BY <1>2, <2>3, <3>2, <3>3, <3>4, Typed
    <3> QED
      BY <1>1, <1>2, <2>2, <3>2, <3>5 DEF Comes
  <2>6. CASE ~(schema >= k) /\ k # Statements
    <3>1. task' = [task EXCEPT ![w].at = k + 1] /\ schema' = k
      BY <1>5, <2>1, <2>6 DEF Script
    <3>2. task[w].step = "script" /\ task[w] \in Task
      BY <1>1, <2>2 DEF At, TaskOK
    <3>3. task' = [task EXCEPT ![w].step = "script", ![w].at = k + 1]
      BY <1>1, <3>1, <3>2 DEF TaskOK, Task
    <3>4. /\ TaskOK' /\ Comes(w, "script") /\ Others(w) /\ SameOwn(w)
          /\ task'[w].at = k + 1
      BY <1>1, <2>2, <3>3, GoesAt DEF StepName
    <3>5. RowsOK' /\ k + 1 \in 1..Statements
      BY <1>1, <1>2, <2>2, <2>6, <3>1, ProvisioningBounds DEF RowsOK
    <3>6. OpsAt(w)'
      BY <1>1, <2>2, <3>4, <3>5 DEF OpsAt, At, Comes
    <3>7. TypeInv'
      BY <1>2, <2>3, <3>4, <3>5, <3>6, Typed
    <3> QED
      BY <1>1, <1>2, <2>2, <3>4, <3>7 DEF Comes
  <2> QED
    BY <2>4, <2>5, <2>6
<1>6. CASE Version(w)
  <2>1. Migrated(w) /\ versioned' = TRUE /\ schema' = schema /\ At(w, {"check", "version"})
    BY <1>6 DEF Version, At
  <2>2. RowsOK'
    BY <1>1, <1>2, <2>1 DEF RowsOK
  <2> QED
    BY <1>1, <1>2, <2>1, <2>2, MigratedTyped
<1> QED
  BY <1>3, <1>4, <1>5, <1>6 DEF Migrate

\* The row of table appliance.
LEMMA SyncTyped ==
    ASSUME TypeInv, NEW w \in Worker, Sync(w)
    PROVE  /\ TypeInv' /\ Others(w) /\ At(w, {"select", "insert", "update"})
           /\ UNCHANGED <<up, mem, files, counters, history>>
           /\ task[w].op \in {"setup", "init"}
           /\ \/ task'[w] = Idle /\ rows' = rows
              \/ /\ At(w, {"select"}) /\ SameOwn(w) /\ rows' = rows
                 /\ Comes(w, IF rows = {} THEN "insert" ELSE "update")
                 /\ task'[w].at = Config(w)["id"]
              \/ /\ At(w, {"insert"}) /\ SameOwn(w) /\ Comes(w, "reply")
                 /\ rows' = rows \cup {task[w].at}
              \/ /\ At(w, {"update"}) /\ SameOwn(w) /\ Comes(w, "reply")
                 /\ rows' = {task[w].at}
<1>1. /\ TaskOK /\ OpsAt(w) /\ RowsOK
      /\ At(w, {"select", "insert", "update"})
  BY TypeParts DEF TypeInv, OpsInv, Sync, Select, InsertRow, UpdateRows, At
<1>2. task[w].op \in {"setup", "init"}
  BY <1>1 DEF OpsAt, At
<1>3. /\ UNCHANGED <<up, mem, files, counters, history>>
      /\ ServiceOK' /\ FilesOK' /\ HistoryOK'
  BY Untouched DEF Sync, Select, InsertRow, UpdateRows
<1>4. CASE Select(w)
  <2>1. PICK st, a : /\ st = IF rows = {} THEN "insert" ELSE "update"
                     /\ a = Config(w)["id"]
    OBVIOUS
  <2>2. a \in 0..MaxRequests /\ a \in Nat /\ st \in {"insert", "update"}
    BY <2>1, ConfigTyped, ProvisioningBounds DEF TypeInv, Doc, Key
  <2>3. task' = [task EXCEPT ![w].step = st, ![w].at = a] /\ UNCHANGED database
        /\ At(w, {"select"})
    BY <1>4, <2>1 DEF Select, At
  <2>4. /\ TaskOK' /\ Comes(w, st) /\ Others(w) /\ SameOwn(w) /\ task'[w].at = a
    BY <1>1, <2>2, <2>3, GoesAt DEF StepName
  <2>5. OpsAt(w)'
    BY <1>1, <1>2, <2>2, <2>3, <2>4 DEF OpsAt, At, Comes
  <2>6. RowsOK'
    BY <2>3, Untouched
  <2>7. TypeInv'
    BY <1>3, <2>4, <2>5, <2>6, Typed
  <2> QED
    BY <1>1, <1>2, <1>3, <2>1, <2>3, <2>4, <2>7 DEF database
<1>5. CASE InsertRow(w) \/ UpdateRows(w)
  <2>1. /\ At(w, {"insert", "update"}) /\ UNCHANGED <<schema, versioned>>
        /\ task[w].at \in 0..MaxRequests
    BY <1>1, <1>5 DEF InsertRow, UpdateRows, OpsAt, At
  <2>2. CASE task' = End(w) /\ rows' = rows
    <3>1. TaskOK' /\ task'[w] = Idle /\ Others(w)
      BY <1>1, <2>2, Ends
    <3>2. OpsAt(w)' /\ RowsOK'
      BY <1>1, <2>1, <2>2, <3>1 DEF OpsAt, At, Idle, RowsOK
    <3>3. TypeInv'
      BY <1>3, <3>1, <3>2, Typed
    <3> QED
      BY <1>1, <1>2, <1>3, <2>2, <3>1, <3>3
  <2>3. CASE /\ task' = Go(w, "reply")
             /\ \/ At(w, {"insert"}) /\ rows' = rows \cup {task[w].at}
                \/ At(w, {"update"}) /\ rows' = {task[w].at}
    <3>1. TaskOK' /\ Comes(w, "reply") /\ Others(w) /\ SameOwn(w) /\ SameAt(w)
      BY <1>1, <2>3, Goes DEF StepName
    <3>2. OpsAt(w)'
      BY <1>1, <1>2, <3>1 DEF OpsAt, At, Comes, RequestOp
    <3>3. RowsOK'
      BY <1>1, <2>1, <2>3 DEF RowsOK
    <3>4. TypeInv'
      BY <1>3, <3>1, <3>2, <3>3, Typed
    <3> QED
      BY <1>1, <1>2, <1>3, <2>3, <3>1, <3>4
  <2> QED
    BY <1>5, <2>2, <2>3 DEF InsertRow, UpdateRows, At
<1> QED
  BY <1>4, <1>5 DEF Sync

\* The reply.
LEMMA ReplyTyped ==
    ASSUME TypeInv, NEW w \in Worker, Reply(w)
    PROVE  /\ TypeInv' /\ Others(w) /\ task'[w] = Idle /\ At(w, {"reply"})
           /\ task[w].op \in RequestOp
<1>1. /\ TaskOK /\ OpsAt(w) /\ HistoryOK /\ At(w, {"reply"})
      /\ task[w].n \in 0..MaxRequests
  BY TypeParts DEF TypeInv, OpsInv, Reply, At, TaskOK, Task
<1>2. TaskOK' /\ task'[w] = Idle /\ Others(w)
  BY <1>1, Ends DEF Reply
<1>3. OpsAt(w)'
  BY <1>2 DEF OpsAt, At, Idle
<1>4. acked' \in Doc
  BY <1>1, KeysTyped DEF Reply, HistoryOK
<1>5. named' \in 0..MaxRequests
  BY <1>1 DEF Reply, HistoryOK
<1>6. HistoryOK'
  BY <1>1, <1>4, <1>5 DEF Reply, HistoryOK, counters
<1>7. ServiceOK' /\ FilesOK' /\ RowsOK'
  BY Untouched DEF Reply
<1>8. TypeInv'
  BY <1>2, <1>3, <1>6, <1>7, Typed
<1> QED
  BY <1>1, <1>2, <1>8 DEF OpsAt, At

\* A kill.
LEMMA KillTyped ==
    ASSUME TypeInv, NEW W, Kill(W)
    PROVE  TypeInv'
<1>1. TypeOK /\ OpsInv /\ ServiceOK /\ TaskOK /\ HistoryOK
  BY TypeParts DEF TypeInv
<1>2. TaskOK'
  BY <1>1, DefaultsTyped DEF Kill, TaskOK
<1>3. ServiceOK'
  BY <1>1, DefaultsTyped DEF Kill, ServiceOK
<1>4. cut' \in BOOLEAN
  BY <1>1 DEF Kill, HistoryOK
<1>5. kills' \in 0..MaxKills
  BY <1>1, ProvisioningBounds DEF Kill, HistoryOK
<1>6. HistoryOK'
  BY <1>1, <1>4, <1>5 DEF Kill, HistoryOK
<1>7. FilesOK' /\ RowsOK'
  BY Untouched DEF Kill
<1>8. TypeOK'
  BY <1>2, <1>3, <1>6, <1>7, TypeParts, PTL
<1>9. \A v \in Worker : OpsAt(v)'
  <2> TAKE v \in Worker
  <2>1. task'[v] = Idle \/ task'[v] = task[v]
    BY DEF Kill
  <2>2. CASE task'[v] = Idle
    BY <2>2 DEF OpsAt, At, Idle
  <2>3. CASE task'[v] = task[v]
    BY <1>1, <2>3 DEF OpsInv, OpsAt, At
  <2> QED
    BY <2>1, <2>2, <2>3
<1> QED
  BY <1>8, <1>9 DEF TypeInv, OpsInv

\* Types and operations of every reachable state.
LEMMA TypeInvariant == Spec => []TypeInv
<1>1. Init => TypeInv
  <2> SUFFICES ASSUME Init PROVE TypeInv
    OBVIOUS
  <2>1. 0 \in 0..MaxRequests /\ 0 \in 0..MaxKills /\ 0 \in 0..Statements
    BY ProvisioningBounds
  <2>2. ServiceOK /\ TaskOK /\ FilesOK /\ RowsOK /\ HistoryOK
    BY <2>1, DefaultsTyped
       DEF Init, ServiceOK, TaskOK, FilesOK, RowsOK, HistoryOK
  <2>3. \A w \in Worker : task[w] = Idle
    BY DEF Init
  <2>4. OpsInv
    BY <2>3 DEF OpsInv, OpsAt, At, Idle
  <2> QED
    BY <2>2, <2>4, TypeParts DEF TypeInv
<1>2. TypeInv /\ [Next]_vars => TypeInv'
  <2> SUFFICES ASSUME TypeInv, [Next]_vars PROVE TypeInv'
    OBVIOUS
  <2>1. ASSUME UNCHANGED vars PROVE TypeInv'
    BY <2>1 DEF vars, files, database, counters, history, TypeInv, TypeOK, OpsInv,
                OpsAt, At
  <2>2. ASSUME NEW w \in Worker, Step(w) PROVE TypeInv'
    <3>1. CASE Change(w)
      BY <3>1, SetKeysTyped, SetHashTyped, MergeTyped, SwapTyped DEF Change
    <3>2. CASE Save(w)
      BY <3>2, OpenTyped, DumpTyped, ReplaceTyped DEF Save
    <3> QED
      BY <2>2, <3>1, <3>2, LoadTyped, LoadAgainTyped, MigrateTyped, SyncTyped, ReplyTyped DEF Step
  <2> QED
    BY <2>1, <2>2, BootTyped, RequestTyped, KillTyped DEF Next
<1> QED
  BY <1>1, <1>2, PTL DEF Spec

\* Whatever requests, commands, boots and kills overlap, dictionary, file, rows
\* and schema keep their types; a file is always found for the temporary file.
THEOREM TypesOfProvisioning == Spec => []TypeOK
<1>1. TypeInv => TypeOK
  BY DEF TypeInv
<1> QED
  BY <1>1, TypeInvariant, PTL

-----------------------------------------------------------------------------
(* The file is whole.                                                      *)

\* Who is at work without overlap is alone, and so it is after its step.
LEMMA Alone ==
    ASSUME FileInv, ~overlapped, NEW w \in Worker, Working(w), Others(w)
    PROVE  /\ \A v \in Worker \ {w} : task[v].step = "idle" /\ task'[v].step = "idle"
           /\ \A u, v \in Busy' : u = v
           /\ FileState /\ FileWorker(w)
           /\ ~At(w, {"hash"}) => Pair(mem)
<1>1. FileState /\ FileWorker(w)
  BY DEF FileInv
<1>2. \A v \in Worker \ {w} : task[v].step = "idle"
  BY <1>1 DEF FileState, Busy, Working
<1>3. \A v \in Worker \ {w} : task'[v].step = "idle"
  BY <1>2 DEF Others
<1>4. \A u \in Busy' : u = w
  BY <1>3 DEF Busy
<1>5. ~At(w, {"hash"}) => Pair(mem)
  BY <1>1, <1>2 DEF FileState, At
<1> QED
  BY <1>1, <1>2, <1>3, <1>4, <1>5

\* After a step of w only w has something to show for it.
LEMMA FileGoes ==
    ASSUME FileInv, overlapped' = overlapped, NEW w \in Worker, Working(w), Others(w),
           ~overlapped => /\ ~At(w, {"hash"})' => Pair(mem')
                          /\ tmp' # 0 => tmp' # path'
                          /\ path' # 0 => data'[path'].kind = "doc" /\ Pair(data'[path'].doc)
                          /\ FileWorker(w)'
    PROVE  FileInv'
<1> SUFFICES ASSUME ~overlapped
             PROVE  FileState' /\ \A v \in Worker : FileWorker(v)'
  BY DEF FileInv
<1>1. /\ \A v \in Worker \ {w} : task'[v].step = "idle"
      /\ \A u, v \in Busy' : u = v
  BY Alone
<1>2. \A v \in Worker : FileWorker(v)'
  <2> TAKE v \in Worker
  <2>1. CASE v = w
    BY <2>1
  <2>2. CASE v # w
    <3>1. task'[v].step = "idle"
      BY <1>1, <2>2
    <3> QED
      BY <3>1 DEF FileWorker, At, Saving
  <2> QED
    BY <2>1, <2>2
<1>3. FileState'
  BY <1>1 DEF FileState
<1> QED
  BY <1>2, <1>3

\* A step that leaves files and dictionary alone, and after which w is neither
\* saving nor between salt and hash.
LEMMA FileIdle ==
    ASSUME FileInv, overlapped' = overlapped, NEW w \in Worker, Working(w), Others(w),
           UNCHANGED <<mem, files>>, ~At(w, {"hash"}),
           task'[w].step \in {"idle", "check", "script", "version", "select", "insert",
                              "update", "reply"}
    PROVE  FileInv'
<1>1. /\ path' = path /\ tmp' = tmp /\ data' = data
  BY DEF files
<1>2. ~overlapped => FileState /\ Pair(mem)
  BY Alone
<1>3. FileWorker(w)'
  BY DEF FileWorker, At, Saving
<1> QED
  BY <1>1, <1>2, <1>3, FileGoes DEF FileState

\* Setting keys keeps salt and hash of one PIN together.
LEMMA KeysPair ==
    ASSUME NEW d \in Doc, NEW op \in RequestOp, NEW n
    PROVE  /\ Pair(d) => Pair(WithKeys(d, op, n))
           /\ op = "setup" => \A k \in Key \ {"start"} : WithKeys(d, op, n)[k] = n
<1>1. CASE op \in {"setup", "init"}
  BY <1>1, Operations DEF WithKeys, Pair, Key
<1>2. CASE op \in {"branding", "import"}
  BY <1>2, Operations DEF WithKeys, Pair, Key
<1> QED
  BY <1>1, <1>2 DEF RequestOp

\* What is on disk is of one PIN.
LEMMA DiskPair ==
    ASSUME FileState
    PROVE  Pair(OnDisk.doc) /\ Pair(Defaults)
<1>1. Pair(Defaults)
  BY DEF Pair, Defaults, Key
<1>2. Empty.doc = Defaults
  BY DEF Empty, Holds
<1> QED
  BY <1>1, <1>2 DEF OnDisk, FileState

\* What a worker saves is of one PIN.
LEMMA ConfigPair ==
    ASSUME FileInv, ~overlapped, NEW w \in Worker, At(w, Saving), Others(w)
    PROVE  Pair(Config(w))
<1>1. Working(w) /\ ~At(w, {"hash"})
  BY DEF At, Saving, Working
<1>2. FileWorker(w) /\ Pair(mem)
  BY <1>1, Alone
<1> QED
  BY <1>2 DEF Config, FileWorker

\* A load keeps the file whole: it only reads.
LEMMA LoadFile ==
    ASSUME TypeInv, FileInv, NEW w \in Worker, Load(w)
    PROVE  FileInv'
<1>1. /\ Working(w) /\ Others(w) /\ overlapped' = overlapped /\ UNCHANGED files
      /\ ~At(w, {"hash"})
  BY LoadTyped DEF Load, Working, At
<1>2. path' = path /\ tmp' = tmp /\ data' = data
  BY <1>1 DEF files
<1>3. CASE task'[w] = Idle /\ mem' = mem
  BY <1>1, <1>3, FileIdle DEF Idle
<1>4. CASE w = "loop" /\ mem' = OnDisk.doc /\ Comes(w, "check")
  <2>1. ~overlapped => FileState /\ Pair(mem')
    BY <1>1, <1>4, Alone, DiskPair
  <2>2. FileWorker(w)'
    BY <1>4 DEF FileWorker, At, Comes, Saving
  <2> QED
    BY <1>1, <1>2, <2>1, <2>2, FileGoes DEF FileState
<1>5. CASE w = "cli" /\ mem' = mem /\ Comes(w, "set") /\ task'[w].own = OnDisk.doc
  <2>1. ~overlapped => FileState /\ Pair(mem') /\ Pair(task'[w].own)
    BY <1>1, <1>5, Alone, DiskPair
  <2>2. Pair(task'[w].own) => FileWorker(w)'
    BY <1>5 DEF FileWorker, At, Comes, Saving
  <2> QED
    BY <1>1, <1>2, <2>1, <2>2, FileGoes DEF FileState
<1> QED
  BY <1>3, <1>4, <1>5, LoadTyped

\* So does a command that loads anew.
LEMMA LoadAgainFile ==
    ASSUME TypeInv, FileInv, NEW w \in Worker, LoadAgain(w)
    PROVE  FileInv'
<1>1. /\ Working(w) /\ Others(w) /\ overlapped' = overlapped /\ ~At(w, {"hash"})
      /\ UNCHANGED <<mem, files>> /\ task'[w].step \in {"idle", "check"}
  BY LoadAgainTyped DEF Working, At, history, Comes, Idle
<1> QED
  BY <1>1, FileIdle

\* A change of the dictionary keeps salt and hash of one PIN, or is between them.
LEMMA ChangeFile ==
    ASSUME TypeInv, FileInv, NEW w \in Worker, Change(w)
    PROVE  FileInv'
<1>1. /\ Working(w) /\ Others(w) /\ overlapped' = overlapped /\ UNCHANGED files
      /\ OpsAt(w) /\ TypeOK
  <2>1. Others(w)
    BY SetKeysTyped, SetHashTyped, MergeTyped, SwapTyped DEF Change
  <2> QED
    BY <2>1 DEF Change, SetKeys, SetHash, Merge, Swap, Working, history, TypeInv, OpsInv
<1>2. /\ path' = path /\ tmp' = tmp /\ data' = data
      /\ ~overlapped => FileState
  BY <1>1, Alone DEF files
<1>3. CASE SetKeys(w)
  <2>1. PICK new : new = WithKeys(Config(w), task[w].op, task[w].n)
    OBVIOUS
  <2>2. At(w, {"set"}) /\ At(w, Saving) /\ ~At(w, {"hash"})
    BY <1>3 DEF SetKeys, At, Saving
  <2>3. task[w].op \in RequestOp
    BY <1>1, <2>2 DEF OpsAt, At
  <2>4. Config(w) \in Doc
    BY <1>1, ConfigTyped
  <2>5. ~overlapped => Pair(new) /\ Pair(mem)
    BY <1>1, <2>1, <2>2, <2>3, <2>4, Alone, ConfigPair, KeysPair
  <2>6. task[w].op = "setup" => \A k \in Key \ {"start"} : new[k] = task[w].n
    BY <2>1, <2>3, <2>4, KeysPair
  <2>7. CASE w = "cli" /\ mem' = mem /\ Comes(w, "open") /\ task'[w].own = new
    <3>1. Pair(new) => FileWorker(w)'
      BY <2>7 DEF FileWorker, At, Comes, Saving
    <3> QED
      BY <1>1, <1>2, <2>5, <2>7, <3>1, FileGoes DEF FileState
  <2>8. CASE /\ w \in Service /\ task[w].op = "setup" /\ Comes(w, "hash")
             /\ mem' = [new EXCEPT !["hash"] = mem.hash]
    <3>1. new \in Doc
      BY <1>3, <2>1, SetKeysTyped
    <3>2. mem'["salt"] = task'[w].n
      BY <2>6, <2>8, <3>1 DEF Comes, Doc, Key
    <3>3. FileWorker(w)' /\ At(w, {"hash"})'
      BY <2>8, <3>2, WhoIsWho DEF FileWorker, At, Comes, Saving
    <3> QED
      BY <1>1, <1>2, <3>3, FileGoes DEF FileState
  <2>9. CASE w \in Service /\ Comes(w, "open") /\ mem' = new
    <3>1. FileWorker(w)'
      BY <2>9, WhoIsWho DEF FileWorker, At, Comes, Saving
    <3> QED
      BY <1>1, <1>2, <2>5, <2>9, <3>1, FileGoes DEF FileState
  <2> QED
    BY <1>3, <2>1, <2>7, <2>8, <2>9, SetKeysTyped
<1>4. CASE SetHash(w)
  <2>1. /\ Comes(w, "open") /\ w \in Service /\ mem' = [mem EXCEPT !["hash"] = task[w].n]
        /\ At(w, {"hash"})
    BY <1>4, SetHashTyped DEF SetHash, At
  <2>2. mem \in Doc
    BY <1>1, TypeParts DEF ServiceOK
  <2>3. ~overlapped => Pair(mem')
    <3> SUFFICES ASSUME ~overlapped PROVE Pair(mem')
      OBVIOUS
    <3>1. mem["salt"] = task[w].n
      BY <2>1 DEF FileInv, FileWorker
    <3> QED
      BY <2>1, <2>2, <3>1 DEF Pair, Doc, Key
  <2>4. FileWorker(w)'
    BY <2>1, WhoIsWho DEF FileWorker, At, Comes, Saving
  <2> QED
    BY <1>1, <1>2, <2>3, <2>4, FileGoes DEF FileState
<1>5. CASE Merge(w)
  <2>1. /\ Comes(w, "swap") /\ w \in Service /\ mem' = mem /\ mem \in Doc
        /\ task'[w].own = WithKeys(mem, "import", task[w].n) /\ ~At(w, {"hash"})
    BY <1>1, <1>5, MergeTyped, TypeParts DEF Merge, At, ServiceOK
  <2>2. ~overlapped => Pair(mem) /\ Pair(task'[w].own)
    BY <1>1, <2>1, Alone, KeysPair DEF RequestOp
  <2>3. Pair(task'[w].own) => FileWorker(w)'
    BY <2>1 DEF FileWorker, At, Comes, Saving
  <2> QED
    BY <1>1, <1>2, <2>1, <2>2, <2>3, FileGoes DEF FileState
<1>6. CASE Swap(w)
  <2>1. /\ Comes(w, "open") /\ w \in Service /\ mem' = task[w].own /\ At(w, {"swap"})
    BY <1>6, SwapTyped DEF Swap, At
  <2>2. ~overlapped => Pair(mem')
    BY <2>1 DEF FileInv, FileWorker
  <2>3. FileWorker(w)'
    BY <2>1, WhoIsWho DEF FileWorker, At, Comes, Saving
  <2> QED
    BY <1>1, <1>2, <2>2, <2>3, FileGoes DEF FileState
<1> QED
  BY <1>3, <1>4, <1>5, <1>6 DEF Change

\* A save puts a whole document in place, of one PIN.
LEMMA SaveFile ==
    ASSUME TypeInv, FileInv, NEW w \in Worker, Save(w)
    PROVE  FileInv'
<1>1. /\ Working(w) /\ Others(w) /\ overlapped' = overlapped /\ mem' = mem
      /\ At(w, {"open", "dump", "replace"}) /\ ~At(w, {"hash"}) /\ At(w, Saving)
      /\ TypeOK /\ FilesOK
  <2>1. Others(w)
    BY OpenTyped, DumpTyped, ReplaceTyped DEF Save
  <2>2. TypeOK /\ FilesOK
    BY TypeParts DEF TypeInv
  <2> QED
    BY <2>1, <2>2 DEF Save, Open, Dump, Replace, Working, At, Saving, history
<1>2. ~overlapped => FileState /\ FileWorker(w) /\ Pair(mem) /\ Pair(Config(w))
  BY <1>1, Alone, ConfigPair
<1>3. 0 \notin Inode
  BY WorkersFinite DEF Inode
<1>4. CASE Open(w)
  <2>1. /\ Comes(w, "dump") /\ SameOwn(w) /\ path' = path
        /\ tmp' \in Inode /\ task'[w].inode = tmp'
        /\ tmp # 0 => tmp' = tmp
        /\ tmp = 0 => tmp' # path
        /\ data' = [data EXCEPT ![tmp'] = Empty]
    BY <1>4, OpenTyped DEF Open
  <2>2. ~overlapped => tmp' # path'
    BY <1>2, <2>1 DEF FileState
  <2>3. data'[tmp'].kind = "empty"
    BY <1>1, <2>1 DEF FilesOK, Empty, Holds
  <2>4. ~overlapped /\ path' # 0 => data'[path'] = data[path]
    BY <1>1, <2>1, <2>2 DEF FilesOK
  <2>5. ~overlapped /\ w = "cli" => Pair(task'[w].own)
    BY <1>1, <1>2, <2>1 DEF FileWorker, SameOwn
  <2>6. ~overlapped => FileWorker(w)'
    BY <1>3, <2>1, <2>3, <2>5 DEF FileWorker, At, Comes, Saving
  <2> QED
    BY <1>1, <1>2, <2>1, <2>2, <2>4, <2>6, FileGoes DEF FileState
<1>5. CASE Dump(w)
  <2>1. PICK content \in Content :
           /\ data' = [data EXCEPT ![task[w].inode] = content]
           /\ data[task[w].inode].kind = "empty" => content = Holds("doc", Config(w))
    BY <1>5, DumpTyped
  <2>2. Comes(w, "replace") /\ SameOwn(w) /\ path' = path /\ tmp' = tmp /\ At(w, {"dump"})
    BY <1>5, DumpTyped DEF Dump, At
  <2>3. ~overlapped => tmp # 0 /\ tmp # path /\ content = Holds("doc", Config(w))
                       /\ data' = [data EXCEPT ![tmp] = content]
    BY <1>2, <2>1, <2>2 DEF FileWorker, FileState
  <2>4. ~overlapped => data'[tmp].kind = "doc" /\ Pair(data'[tmp].doc)
    BY <1>1, <1>2, <2>3 DEF FilesOK, Holds
  <2>5. ~overlapped /\ path' # 0 => data'[path'] = data[path]
    BY <1>1, <2>2, <2>3 DEF FilesOK
  <2>6. ~overlapped /\ w = "cli" => Pair(task'[w].own)
    BY <1>1, <1>2, <2>2 DEF FileWorker, SameOwn
  <2>7. ~overlapped => FileWorker(w)'
    BY <2>2, <2>3, <2>4, <2>6 DEF FileWorker, At, Comes, Saving
  <2> QED
    BY <1>1, <1>2, <2>2, <2>3, <2>5, <2>7, FileGoes DEF FileState
<1>6. CASE Replace(w)
  <2>1. CASE tmp = 0
    <3>1. task'[w] = Idle /\ UNCHANGED <<path, tmp, data>>
      BY <1>6, <2>1, ReplaceTyped
    <3> QED
      BY <1>1, <3>1, FileIdle DEF files, Idle
  <2>2. CASE tmp # 0
    <3>1. /\ path' = tmp /\ tmp' = 0
          /\ \A i \in Inode : i # path => data'[i] = data[i]
          /\ Comes(w, AfterSave(w))
      BY <1>6, <2>2, ReplaceTyped
    <3>2. ~overlapped => tmp # path /\ data[tmp].kind = "doc" /\ Pair(data[tmp].doc)
      <4>1. At(w, {"replace"})
        BY <1>6 DEF Replace, At
      <4> QED
        BY <1>2, <2>2, <4>1 DEF FileState, FileWorker
    <3>3. ~overlapped => data'[path'] = data[tmp]
      BY <1>1, <2>2, <3>1, <3>2 DEF FilesOK
    <3>4. FileWorker(w)'
      <4>1. task'[w].step \in {"select", "again", "reply"}
        BY <3>1, AfterSaves DEF Comes
      <4> QED
        BY <4>1 DEF FileWorker, At, Saving
    <3> QED
      BY <1>1, <1>2, <3>1, <3>2, <3>3, <3>4, FileGoes
  <2> QED
    BY <2>1, <2>2
<1> QED
  BY <1>4, <1>5, <1>6 DEF Save

\* A request, a command or a boot that begins alone.
LEMMA BeginFile ==
    ASSUME TypeInv, FileInv, NEW w \in Worker, Others(w), UNCHANGED <<mem, files>>,
           overlapped' = (overlapped \/ Busy # {}),
           task'[w].step \in {"load", "merge"} \/ (w # "cli" /\ task'[w].step = "set")
    PROVE  FileInv'
<1> SUFFICES ASSUME ~overlapped, Busy = {}
             PROVE  FileState' /\ \A v \in Worker : FileWorker(v)'
  BY DEF FileInv
<1>1. path' = path /\ tmp' = tmp /\ data' = data /\ mem' = mem
  BY DEF files
<1>2. \A v \in Worker \ {w} : task'[v].step = "idle"
  BY DEF Busy, Others
<1>3. FileState /\ \A v \in Worker : ~At(v, {"hash"})
  BY DEF FileInv, Busy, At
<1>4. \A u \in Busy' : u = w
  BY <1>2 DEF Busy
<1>5. FileState'
  BY <1>1, <1>3, <1>4 DEF FileState
<1>6. \A v \in Worker : FileWorker(v)'
  <2> TAKE v \in Worker
  <2>1. CASE v = w
    BY <2>1 DEF FileWorker, At, Saving
  <2>2. CASE v # w
    <3>1. task'[v].step = "idle"
      BY <1>2, <2>2
    <3> QED
      BY <3>1 DEF FileWorker, At, Saving
  <2> QED
    BY <2>1, <2>2
<1> QED
  BY <1>5, <1>6

\* A kill: who was between salt and hash takes the dictionary along.
LEMMA KillFile ==
    ASSUME TypeInv, FileInv, NEW W \in {Service, {"cli"}, Worker}, Kill(W)
    PROVE  FileInv'
<1> SUFFICES ASSUME ~overlapped
             PROVE  FileState' /\ \A v \in Worker : FileWorker(v)'
  BY DEF Kill, FileInv
<1>1. path' = path /\ tmp' = tmp /\ data' = data
  BY DEF Kill, files
<1>2. \A v \in Worker : task'[v] = IF v \in W THEN Idle ELSE task[v]
  BY DEF Kill
<1>3. FileState /\ \A v \in Worker : FileWorker(v) /\ OpsAt(v)
  BY DEF FileInv, TypeInv, OpsInv
<1>4. Pair(Defaults)
  BY <1>3, DiskPair
<1>5. CASE "loop" \in W
  <2>1. mem' = Defaults /\ Service \subseteq W
    BY <1>5, WhoIsWho DEF Kill
  <2>2. \A v \in Worker : FileWorker(v)'
    <3> TAKE v \in Worker
    <3>1. CASE v \in W
      <4>1. task'[v].step = "idle"
        BY <1>2, <3>1 DEF Idle
      <4> QED
        BY <4>1 DEF FileWorker, At, Saving
    <3>2. CASE v \notin W
      <4>1. task'[v] = task[v] /\ ~At(v, {"hash"})
        BY <1>2, <1>3, <2>1, <3>2 DEF OpsAt
      <4> QED
        BY <1>1, <1>3, <4>1 DEF FileWorker, At, Saving
    <3> QED
      BY <3>1, <3>2
  <2>3. Busy' \subseteq Busy
    BY <1>2 DEF Busy, Idle
  <2> QED
    BY <1>1, <1>3, <1>4, <2>1, <2>2, <2>3 DEF FileState
<1>6. CASE "loop" \notin W
  <2>1. mem' = mem /\ W = {"cli"}
    BY <1>6, WhoIsWho DEF Kill
  <2>2. \A v \in Worker : ~At(v, {"hash"})' => ~At(v, {"hash"})
    <3> SUFFICES ASSUME NEW v \in Worker, At(v, {"hash"}) PROVE At(v, {"hash"})'
      OBVIOUS
    <3>1. v \notin W
      BY <1>3, <2>1, WhoIsWho DEF OpsAt
    <3> QED
      BY <1>2, <3>1 DEF At
  <2>3. \A v \in Worker : FileWorker(v)'
    <3> TAKE v \in Worker
    <3>1. CASE v \in W
      <4>1. task'[v].step = "idle"
        BY <1>2, <3>1 DEF Idle
      <4> QED
        BY <4>1 DEF FileWorker, At, Saving
    <3>2. CASE v \notin W
      BY <1>1, <1>2, <1>3, <2>1, <3>2 DEF FileWorker, At, Saving
    <3> QED
      BY <3>1, <3>2
  <2>4. Busy' \subseteq Busy
    BY <1>2 DEF Busy, Idle
  <2> QED
    BY <1>1, <1>3, <2>1, <2>2, <2>3, <2>4 DEF FileState
<1> QED
  BY <1>5, <1>6

\* No step damages the file.
LEMMA FileStep == TypeInv /\ FileInv /\ [Next]_vars => FileInv'
<1> SUFFICES ASSUME TypeInv, FileInv, [Next]_vars PROVE FileInv'
  OBVIOUS
<1>1. CASE Boot
  BY <1>1, BootTyped, BeginFile, WhoIsWho DEF Boot
<1>2. ASSUME NEW r \in Runs, Request(r[1], r[2]) PROVE FileInv'
  <2>1. PICK op, w : op = r[1] /\ w = r[2]
    OBVIOUS
  <2>2. /\ w \in Worker /\ Others(w)
        /\ task'[w].step = IF w = "cli" THEN "load"
                           ELSE IF op = "import" THEN "merge" ELSE "set"
    BY <1>2, <2>1, RequestTyped
  <2>3. task'[w].step \in {"load", "merge"} \/ (w # "cli" /\ task'[w].step = "set")
    BY <2>2
  <2>4. UNCHANGED <<mem, files>> /\ overlapped' = (overlapped \/ Busy # {})
    BY <1>2 DEF Request
  <2> QED
    BY <2>2, <2>3, <2>4, BeginFile
<1>3. ASSUME NEW w \in Worker, Migrate(w) \/ Sync(w) \/ Reply(w) PROVE FileInv'
  <2>1. /\ Others(w) /\ Working(w) /\ ~At(w, {"hash"}) /\ UNCHANGED <<mem, files>>
        /\ overlapped' = overlapped
    <3>1. CASE Migrate(w)
      BY <3>1, MigrateTyped DEF At, Working, history
    <3>2. CASE Sync(w)
      BY <3>2, SyncTyped DEF At, Working, history
    <3>3. CASE Reply(w)
      BY <3>3, ReplyTyped DEF At, Working, Reply
    <3> QED
      BY <1>3, <3>1, <3>2, <3>3
  <2>2. task'[w].step \in {"idle", "check", "script", "version", "select", "insert",
                           "update", "reply"}
    <3>1. CASE Migrate(w)
      BY <3>1, MigrateTyped DEF Comes, Idle
    <3>2. CASE Sync(w)
      BY <3>2, SyncTyped DEF Comes, Idle
    <3>3. CASE Reply(w)
      BY <3>3, ReplyTyped DEF Idle
    <3> QED
      BY <1>3, <3>1, <3>2, <3>3
  <2> QED
    BY <2>1, <2>2, FileIdle
<1>4. CASE UNCHANGED vars
  BY <1>4 DEF vars, files, database, counters, history, FileInv, FileState, FileWorker,
              At, Busy
<1> QED
  BY <1>1, <1>2, <1>3, <1>4, LoadFile, LoadAgainFile, ChangeFile, SaveFile, KillFile DEF Next, Step

\* The invariant of the file holds in every reachable state.
LEMMA FileInvariant == Spec => [](TypeInv /\ FileInv)
<1>1. Init => FileInv
  <2> SUFFICES ASSUME Init PROVE FileInv
    OBVIOUS
  <2>1. \A w \in Worker : task[w].step = "idle"
    BY DEF Init, Idle
  <2>2. Pair(mem) /\ tmp = 0 /\ path = 0 /\ Busy = {}
    BY <2>1 DEF Init, Pair, Defaults, Key, Busy
  <2> QED
    BY <2>1, <2>2 DEF FileInv, FileState, FileWorker, At, Saving
<1> QED
  BY <1>1, TypeInvariant, FileStep, PTL DEF Spec

\* Wherever a process is killed, the configuration file is a whole document
\* whose salt and hash belong to one PIN, as long as requests and processes do
\* not overlap (Config.save, set_pin), for any number of requests and kills.
THEOREM FileIsWholeAlways == Spec => []FileIsWhole
<1>1. FileInv => FileIsWhole
  BY DEF FileInv, FileState, FileIsWhole, OnDisk, Pair
<1> QED
  BY <1>1, FileInvariant, PTL

-----------------------------------------------------------------------------
(* What was acknowledged is kept.                                          *)

\* Setting keys: which keys have the number of the request, which stay, and
\* that a request at least as late as all acknowledged ones loses nothing.
LEMMA KeysKept ==
    ASSUME TypeOK, NEW d \in Doc, NEW op \in RequestOp, NEW n \in 0..MaxRequests
    PROVE  /\ KeysOf(op) \subseteq Key
           /\ \A k \in KeysOf(op) : WithKeys(d, op, n)[k] = n
           /\ \A k \in Key \ KeysOf(op) : WithKeys(d, op, n)[k] = d[k]
           /\ Kept(d) /\ (\A k \in Key : acked[k] <= n) => Kept(WithKeys(d, op, n))
<1>1. KeysOf(op) \subseteq Key
  BY Operations DEF RequestOp, Key
<1>2. \A k \in Key : WithKeys(d, op, n)[k] = IF k \in KeysOf(op) THEN n ELSE d[k]
  BY DEF WithKeys
<1>3. \A k \in Key : acked[k] \in 0..MaxRequests
  BY DEF TypeOK, Doc
<1> QED
  BY <1>1, <1>2, <1>3 DEF Kept

\* What a step of w may use, and that afterwards only w is at work.
LEMMA Before ==
    ASSUME TypeInv, FileInv, KeptInv, ~overlapped, beside # "lost",
           NEW w \in Worker, Working(w), Others(w)
    PROVE  /\ FileState /\ FileWorker(w) /\ OpsAt(w)
           /\ FileKept /\ MemKept /\ RowKept /\ KeptWorker(w)
           /\ \A v \in Worker \ {w} : task[v].step = "idle" /\ task'[v].step = "idle"
           /\ task[w].n \in 0..MaxRequests
           /\ task[w].op # "boot" => \A k \in Key : acked[k] <= task[w].n
           /\ TypeOK /\ mem \in Doc /\ task[w].own \in Doc /\ acked \in Doc
           /\ beside \in {"no", "ahead"}
<1>1. TypeOK /\ OpsAt(w) /\ TaskOK /\ ServiceOK /\ HistoryOK
  BY TypeParts DEF TypeInv, OpsInv
<1>2. FileKept /\ MemKept /\ RowKept /\ KeptWorker(w)
  BY DEF KeptInv, KeptState
<1>3. task[w].op # "boot" => \A k \in Key : acked[k] <= task[w].n
  BY <1>2 DEF FileKept, KeptWorker
<1>4. task[w] \in Task
  BY <1>1 DEF TaskOK
<1> QED
  BY <1>1, <1>2, <1>3, <1>4, Alone DEF Task, ServiceOK, HistoryOK

\* After a step only its worker has something to show for it.
LEMMA KeptGoes ==
    ASSUME FileInv, ~overlapped, NEW w \in Worker, Working(w), Others(w),
           KeptState', KeptWorker(w)'
    PROVE  KeptInv'
<1>1. \A v \in Worker \ {w} : task'[v].step = "idle"
  BY Alone
<1>2. ASSUME NEW v \in Worker \ {w} PROVE KeptWorker(v)'
  <2>1. task'[v].step = "idle"
    BY <1>1
  <2> QED
    BY <2>1 DEF KeptWorker, Working, At, Saved, Saving
<1> QED
  BY <1>2 DEF KeptInv

\* What stays kept when files, history and rows stay.
LEMMA KeptSame ==
    /\ FileKept /\ UNCHANGED <<path, data, acked, asked>> => FileKept'
    /\ RowKept /\ UNCHANGED <<rows, named, asked>> => RowKept'
BY DEF FileKept, RowKept, Kept, OnDisk

\* The dictionary stays kept when it stays, and the service does not come up.
LEMMA MemSame ==
    ASSUME MemKept, NEW w \in Worker, Others(w), UNCHANGED <<mem, beside, acked, up>>,
           w = "loop" => At(w, {"check", "script", "version"})
                         \/ task'[w].step \notin {"check", "script", "version"}
    PROVE  MemKept'
<1>1. At("loop", {"check", "script", "version"})'
        => At("loop", {"check", "script", "version"})
  BY WhoIsWho DEF At, Others
<1> QED
  BY <1>1 DEF MemKept, Kept

\* A load: the file has what was acknowledged, so has what was read.
LEMMA LoadKept ==
    ASSUME TypeInv, FileInv, KeptInv, ~overlapped, beside # "lost",
           NEW w \in Worker, Load(w)
    PROVE  KeptInv'
<1>1. /\ Working(w) /\ Others(w) /\ UNCHANGED <<up, path, data, rows, acked, named, asked>>
      /\ w # "loop" => beside' = beside
  BY LoadTyped DEF Load, Working, files, database, counters
<1>2. /\ FileState /\ FileKept /\ MemKept /\ RowKept /\ KeptWorker(w) /\ OpsAt(w)
      /\ At(w, {"load"})
  BY <1>1, Before DEF Load, At
<1>3. FileKept' /\ RowKept'
  BY <1>1, <1>2, KeptSame
<1>4. CASE task'[w] = Idle /\ UNCHANGED <<mem, beside>>
  <2>1. MemKept'
    BY <1>1, <1>2, <1>4, MemSame DEF Idle
  <2>2. KeptWorker(w)'
    BY <1>4 DEF Idle, KeptWorker, Working, At, Saved, Saving
  <2> QED
    BY <1>1, <1>3, <2>1, <2>2, KeptGoes DEF KeptState
<1>5. CASE w = "loop" /\ mem' = OnDisk.doc /\ Comes(w, "check")
  <2>1. MemKept'
    BY <1>1, <1>2, <1>5 DEF MemKept, FileKept, Kept
  <2>2. task[w].op = "boot"
    BY <1>2, <1>5 DEF OpsAt, At
  <2>3. KeptWorker(w)'
    BY <1>5, <2>2 DEF KeptWorker, Working, At, Saved, Saving, Comes, RequestOp
  <2> QED
    BY <1>1, <1>3, <2>1, <2>3, KeptGoes DEF KeptState
<1>6. CASE w = "cli" /\ mem' = mem /\ Comes(w, "set") /\ task'[w].own = OnDisk.doc
  <2>1. MemKept'
    BY <1>1, <1>2, <1>6, MemSame
  <2>2. task'[w].op # "boot" => task'[w].n = asked'
    BY <1>1, <1>2, <1>6 DEF KeptWorker, Working, Comes
  <2>3. Kept(task[w].own)'
    BY <1>1, <1>2, <1>6 DEF FileKept, Kept
  <2>4. KeptWorker(w)'
    BY <1>6, <2>2, <2>3, WhoIsWho DEF KeptWorker, Working, At, Saved, Saving, Comes
  <2> QED
    BY <1>1, <1>3, <2>1, <2>4, KeptGoes DEF KeptState
<1> QED
  BY <1>4, <1>5, <1>6, LoadTyped

\* A change of the dictionary: only request keys are written, and with the
\* number of the latest request.
LEMMA ChangeKept ==
    ASSUME TypeInv, FileInv, KeptInv, ~overlapped, beside # "lost",
           NEW w \in Worker, Change(w)
    PROVE  KeptInv'
<1>1. /\ Working(w) /\ Others(w) /\ UNCHANGED <<up, path, data, tmp, rows, acked, named>>
      /\ UNCHANGED <<asked, beside>> /\ At(w, {"set", "hash", "merge", "swap"})
  <2>1. Others(w)
    BY SetKeysTyped, SetHashTyped, MergeTyped, SwapTyped DEF Change
  <2> QED
    BY <2>1 DEF Change, SetKeys, SetHash, Merge, Swap, Working, files, database, counters,
                history, At
<1>2. /\ FileKept /\ MemKept /\ RowKept /\ KeptWorker(w) /\ OpsAt(w)
      /\ task[w].op # "boot" => \A k \in Key : acked[k] <= task[w].n
      /\ TypeOK /\ mem \in Doc /\ task[w].own \in Doc /\ acked \in Doc
      /\ task[w].n \in 0..MaxRequests
  BY <1>1, Before
<1>3. FileKept' /\ RowKept'
  BY <1>1, <1>2, KeptSame
<1>4. /\ task[w].op \in RequestOp /\ task[w].op # "boot"
      /\ \A k \in Key : acked[k] <= task[w].n
      /\ w # "cli" => w \in Service
  BY <1>1, <1>2, WhoIsWho DEF OpsAt, At, RequestOp
<1>5. /\ task[w].n = asked
      /\ w # "cli" => up
  BY <1>1, <1>2, <1>4 DEF KeptWorker
<1>6. w # "cli" /\ beside = "no" => Kept(mem)
  BY <1>2, <1>5 DEF MemKept
<1>7. (beside = "no" => Kept(mem')) => MemKept'
  BY <1>1 DEF MemKept, Kept
<1>8. CASE SetKeys(w)
  <2>1. PICK new : new = WithKeys(Config(w), task[w].op, task[w].n)
    OBVIOUS
  <2>2. /\ At(w, {"set"}) /\ At(w, Saving)
        /\ Config(w) \in Doc
    BY <1>2, <1>8, ConfigTyped DEF SetKeys, At, Saving
  <2>3. /\ \A k \in KeysOf(task[w].op) : new[k] = task[w].n
        /\ Kept(Config(w)) => Kept(new)
    BY <1>2, <1>4, <2>1, <2>2, KeysKept
  <2>4. CASE w = "cli" /\ mem' = mem /\ Comes(w, "open") /\ task'[w].own = new
    <3>1. Kept(new)
      BY <1>2, <2>2, <2>3, <2>4 DEF KeptWorker, Config
    <3>2. MemKept'
      BY <1>1, <1>2, <2>4, MemSame
    <3>3. Kept(task[w].own)' /\ Sets(Config(w), w)'
      BY <1>1, <2>3, <2>4, <3>1 DEF Kept, Sets, Config, Comes
    <3>4. KeptWorker(w)'
      BY <1>1, <1>5, <2>4, <3>3, WhoIsWho
         DEF KeptWorker, Working, At, Saved, Saving, Comes
    <3> QED
      BY <1>1, <1>3, <3>2, <3>4, KeptGoes DEF KeptState
  <2>5. CASE /\ w \in Service /\ task[w].op = "setup" /\ Comes(w, "hash")
             /\ mem' = [new EXCEPT !["hash"] = mem.hash]
    <3>1. new \in Doc
      BY <1>8, <2>1, SetKeysTyped
    <3>2. KeysOf("setup") \subseteq Key
      BY Operations
    <3>3. \A k \in KeysOf("setup") \ {"hash"} : mem'[k] = task[w].n
      BY <2>3, <2>5, <3>1, <3>2 DEF Doc
    <3>4. /\ mem'["hash"] = mem["hash"]
          /\ \A k \in Key \ {"hash"} : mem'[k] = new[k]
      BY <2>5, <3>1 DEF Doc, Key
    <3>5. beside = "no" => Kept(mem')
      <4> SUFFICES ASSUME beside = "no", NEW k \in Key PROVE mem'[k] >= acked[k]
        BY DEF Kept
      <4>1. Kept(mem) /\ Kept(new)
        BY <1>6, <2>3, <2>5, WhoIsWho DEF Config
      <4> QED
        BY <3>4, <4>1 DEF Kept
    <3>6. KeptWorker(w)'
      BY <1>1, <1>5, <2>5, <3>3, WhoIsWho
         DEF KeptWorker, Working, At, Saved, Saving, Comes
    <3> QED
      BY <1>1, <1>3, <1>7, <3>5, <3>6, KeptGoes DEF KeptState
  <2>6. CASE w \in Service /\ Comes(w, "open") /\ mem' = new
    <3>1. beside = "no" => Kept(mem')
      BY <1>6, <2>3, <2>6, WhoIsWho DEF Config
    <3>2. Sets(Config(w), w)'
      BY <2>3, <2>6, WhoIsWho DEF Sets, Config, Comes
    <3>3. KeptWorker(w)'
      BY <1>1, <1>5, <2>6, <3>2, WhoIsWho
         DEF KeptWorker, Working, At, Saved, Saving, Comes
    <3> QED
      BY <1>1, <1>3, <1>7, <3>1, <3>3, KeptGoes DEF KeptState
  <2> QED
    BY <1>8, <2>1, <2>4, <2>5, <2>6, SetKeysTyped
<1>9. CASE SetHash(w)
  <2>1. /\ Comes(w, "open") /\ w \in Service /\ mem' = [mem EXCEPT !["hash"] = task[w].n]
        /\ At(w, {"hash"}) /\ task[w].op = "setup"
        /\ KeysOf("setup") = Key \ {"start"}
    BY <1>2, <1>9, SetHashTyped, Operations DEF SetHash, At, OpsAt
  <2>2. \A k \in KeysOf("setup") : mem'[k] = task[w].n
    BY <1>2, <2>1 DEF KeptWorker, Doc
  <2>3. beside = "no" => Kept(mem')
    <3> SUFFICES ASSUME beside = "no", NEW k \in Key PROVE mem'[k] >= acked[k]
      BY DEF Kept
    <3>1. CASE k = "start"
      <4>1. mem'[k] = mem[k]
        BY <1>2, <2>1, <3>1 DEF Doc
      <4> QED
        BY <1>6, <2>1, <4>1, WhoIsWho DEF Kept
    <3>2. CASE k # "start"
      <4>1. acked[k] \in 0..MaxRequests
        BY <1>2 DEF Doc
      <4> QED
        BY <1>2, <1>4, <2>1, <2>2, <3>2, <4>1
    <3> QED
      BY <3>1, <3>2
  <2>4. Sets(Config(w), w)'
    BY <2>1, <2>2, WhoIsWho DEF Sets, Config, Comes
  <2>5. KeptWorker(w)'
    BY <1>1, <1>5, <2>1, <2>4, WhoIsWho
       DEF KeptWorker, Working, At, Saved, Saving, Comes
  <2> QED
    BY <1>1, <1>3, <1>7, <2>3, <2>5, KeptGoes DEF KeptState
<1>10. CASE Merge(w)
  <2>1. PICK new : new = WithKeys(mem, "import", task[w].n)
    OBVIOUS
  <2>2. /\ Comes(w, "swap") /\ w \in Service /\ mem' = mem /\ task[w].op = "import"
        /\ task'[w].own = new
    BY <1>10, <2>1, MergeTyped DEF Merge
  <2>3. /\ \A k \in KeysOf("import") : new[k] = task[w].n
        /\ Kept(mem) => Kept(new)
    BY <1>2, <1>4, <2>1, KeysKept DEF RequestOp
  <2>4. MemKept'
    BY <1>2, <2>2, <1>1, MemSame DEF Comes
  <2>5. Sets(task[w].own, w)' /\ (beside' = "no" => Kept(task[w].own)')
    BY <1>1, <1>6, <2>2, <2>3, WhoIsWho DEF Sets, Kept, Comes
  <2>6. KeptWorker(w)'
    BY <1>1, <1>5, <2>2, <2>5, WhoIsWho
       DEF KeptWorker, Working, At, Saved, Saving, Comes
  <2> QED
    BY <1>1, <1>3, <2>4, <2>6, KeptGoes DEF KeptState
<1>11. CASE Swap(w)
  <2>1. /\ Comes(w, "open") /\ w \in Service /\ mem' = task[w].own /\ At(w, {"swap"})
    BY <1>11, SwapTyped DEF Swap, At
  <2>2. Sets(task[w].own, w) /\ (beside = "no" => Kept(mem'))
    BY <1>2, <2>1 DEF KeptWorker
  <2>3. Sets(Config(w), w)'
    BY <2>1, <2>2, WhoIsWho DEF Sets, Config, Comes
  <2>4. KeptWorker(w)'
    BY <1>1, <1>5, <2>1, <2>3, WhoIsWho
       DEF KeptWorker, Working, At, Saved, Saving, Comes
  <2> QED
    BY <1>1, <1>3, <1>7, <2>2, <2>4, KeptGoes DEF KeptState
<1> QED
  BY <1>8, <1>9, <1>10, <1>11 DEF Change

\* A save: what it puts in place has what was acknowledged, and the keys of its
\* request.
LEMMA SaveKept ==
    ASSUME TypeInv, FileInv, KeptInv, ~overlapped, beside' # "lost",
           NEW w \in Worker, Save(w)
    PROVE  KeptInv'
<1>1. /\ Working(w) /\ Others(w) /\ UNCHANGED <<up, mem, rows, acked, named, asked>>
      /\ At(w, {"open", "dump", "replace"}) /\ At(w, Saving)
      /\ ~Replace(w) => beside' = beside
      /\ beside # "lost"
  BY OpenTyped, DumpTyped, ReplaceTyped
     DEF Save, Open, Dump, Replace, Working, database, counters, history, At, Saving
<1>2. /\ FileKept /\ MemKept /\ RowKept /\ KeptWorker(w) /\ OpsAt(w)
      /\ FileState /\ FileWorker(w) /\ beside \in {"no", "ahead"}
  BY <1>1, Before
<1>3. /\ task[w].op \in RequestOp /\ task[w].op # "boot" /\ RowKept'
      /\ w # "cli" => w \in Service
      /\ FilesOK
  BY <1>1, <1>2, KeptSame, WhoIsWho, TypeParts
     DEF OpsAt, At, RequestOp, TypeInv
<1>4. /\ task[w].n = asked
      /\ w # "cli" => up
      /\ w = "cli" => Kept(task[w].own)
      /\ Sets(Config(w), w)
      /\ w # "cli" /\ beside = "no" => Kept(mem)
  BY <1>1, <1>2, <1>3 DEF KeptWorker, MemKept, At
<1>5. 0 \notin Inode
  BY WorkersFinite DEF Inode
<1>6. ASSUME Comes(w, task'[w].step), SameOwn(w) PROVE Sets(Config(w), w)'
  BY <1>1, <1>4, <1>6 DEF Sets, Config, Comes, SameOwn
<1>7. CASE Open(w)
  <2>1. /\ Comes(w, "dump") /\ SameOwn(w) /\ path' = path
        /\ tmp' \in Inode
        /\ tmp # 0 => tmp' = tmp
        /\ tmp = 0 => tmp' # path
        /\ data' = [data EXCEPT ![tmp'] = Empty]
        /\ beside' = beside
    BY <1>7, OpenTyped DEF Open, history
  <2>2. tmp' # path
    BY <1>2, <2>1 DEF FileState
  <2>3. OnDisk' = OnDisk
    BY <1>3, <2>1, <2>2 DEF OnDisk, FilesOK
  <2>4. FileKept'
    BY <1>1, <1>2, <2>3 DEF FileKept, Kept
  <2>5. MemKept'
    BY <1>1, <1>2, <2>1, MemSame DEF Comes
  <2>6. Sets(Config(w), w)' /\ (w = "cli" => Kept(task[w].own)')
    BY <1>1, <1>4, <1>6, <2>1 DEF Comes, SameOwn, Kept
  <2>7. KeptWorker(w)'
    BY <1>1, <1>4, <2>1, <2>6, WhoIsWho DEF KeptWorker, Working, At, Saved, Comes
  <2> QED
    BY <1>1, <1>3, <2>4, <2>5, <2>7, KeptGoes DEF KeptState
<1>8. CASE Dump(w)
  <2>1. PICK content \in Content :
           /\ data' = [data EXCEPT ![task[w].inode] = content]
           /\ data[task[w].inode].kind = "empty" => content = Holds("doc", Config(w))
    BY <1>8, DumpTyped
  <2>2. /\ Comes(w, "replace") /\ SameOwn(w) /\ path' = path /\ tmp' = tmp
        /\ At(w, {"dump"}) /\ beside' = beside
    BY <1>8, DumpTyped DEF Dump, At, history
  <2>3. tmp # 0 /\ tmp # path /\ data' = [data EXCEPT ![tmp] = Holds("doc", Config(w))]
    BY <1>2, <2>1, <2>2 DEF FileWorker, FileState
  <2>4. OnDisk' = OnDisk /\ data'[tmp'].doc = Config(w)
    BY <1>3, <2>2, <2>3 DEF OnDisk, FilesOK, Holds
  <2>5. FileKept'
    BY <1>1, <1>2, <2>4 DEF FileKept, Kept
  <2>6. MemKept'
    BY <1>1, <1>2, <2>2, MemSame DEF Comes
  <2>7. Sets(Config(w), w)' /\ (w = "cli" => Kept(task[w].own)')
    BY <1>1, <1>4, <1>6, <2>2 DEF Comes, SameOwn, Kept
  <2>8. Sets(data[tmp].doc, w)'
    BY <1>4, <2>2, <2>4 DEF Sets, Comes
  <2>9. w = "cli" \/ beside' = "no" => Kept(data[tmp].doc)'
    BY <1>1, <1>4, <2>2, <2>4 DEF Kept, Config
  <2>10. KeptWorker(w)'
    BY <1>1, <1>4, <2>2, <2>7, <2>8, <2>9, WhoIsWho DEF KeptWorker, Working, At, Saved, Comes
  <2> QED
    BY <1>1, <1>3, <2>5, <2>6, <2>10, KeptGoes DEF KeptState
<1>9. CASE Replace(w)
  <2>1. At(w, {"replace"}) /\ tmp # 0 /\ tmp # path
    BY <1>2, <1>9 DEF Replace, At, FileWorker, FileState
  <2>2. /\ path' = tmp /\ tmp' = 0
        /\ \A i \in Inode : i # path => data'[i] = data[i]
        /\ Comes(w, AfterSave(w)) /\ SameOwn(w)
        /\ w = "cli" /\ up /\ beside = "no" => beside' = "ahead"
        /\ w # "cli" /\ beside = "ahead" => beside' = "lost"
        /\ ~(w = "cli" /\ up /\ beside = "no")
             /\ ~(w # "cli" /\ beside = "ahead") => beside' = beside
    BY <1>9, <2>1, ReplaceTyped
  <2>3. w # "cli" => beside = "no" /\ beside' = "no"
    BY <1>2, <2>2
  <2>4. OnDisk'.doc = data[tmp].doc
    BY <1>3, <2>1, <2>2 DEF OnDisk, FilesOK
  <2>5. Sets(data[tmp].doc, w) /\ Kept(data[tmp].doc)
    BY <1>2, <2>1, <2>3 DEF KeptWorker
  <2>6. FileKept'
    BY <1>1, <1>2, <2>4, <2>5 DEF FileKept, Kept
  <2>7. MemKept'
    <3>1. CASE w = "cli"
      <4>1. task'["loop"].step = "idle"
        BY <1>1, <3>1, Alone, WhoIsWho
      <4>2. up' => beside' # "no"
        BY <1>1, <1>2, <2>2, <3>1
      <4> QED
        BY <4>1, <4>2 DEF MemKept, At
    <3>2. CASE w # "cli"
      BY <1>1, <1>4, <2>3, <3>2 DEF MemKept, Kept
    <3> QED
      BY <3>1, <3>2
  <2>8. Sets(Config(w), w)' /\ Sets(OnDisk.doc, w)'
    BY <1>6, <2>2, <2>4, <2>5 DEF Sets, Comes
  <2>9. /\ task'[w].step \in {"select", "again", "reply"}
        /\ task'[w].step = "reply" => task'[w].op \notin {"setup", "init"}
    BY <2>2, AfterSaves DEF Comes
  <2>10. w = "cli" /\ up' => beside' # "no"
    BY <1>1, <1>2, <2>2
  <2>11. task'[w].n = asked' /\ (w \in Service => up')
    BY <1>1, <1>4, <2>2, WhoIsWho DEF Comes
  <2>12. KeptWorker(w)'
    BY <2>8, <2>9, <2>10, <2>11 DEF KeptWorker, Working, At, Saved, Saving
  <2> QED
    BY <1>1, <1>3, <2>6, <2>7, <2>12, KeptGoes DEF KeptState
<1> QED
  BY <1>7, <1>8, <1>9 DEF Save

\* A command that loads anew reads what it saved.
LEMMA LoadAgainKept ==
    ASSUME TypeInv, FileInv, KeptInv, ~overlapped, beside # "lost",
           NEW w \in Worker, LoadAgain(w)
    PROVE  KeptInv'
<1>1. /\ Working(w) /\ Others(w) /\ UNCHANGED <<up, mem, path, data, rows, acked, named>>
      /\ UNCHANGED <<asked, beside>> /\ At(w, {"again"}) /\ w = "cli"
  BY LoadAgainTyped DEF Working, At, files, database, counters, history
<1>2. FileKept /\ MemKept /\ RowKept /\ KeptWorker(w)
  BY <1>1, Before
<1>3. FileKept' /\ RowKept' /\ MemKept'
  BY <1>1, <1>2, KeptSame, MemSame, WhoIsWho
<1>4. CASE task'[w] = Idle
  <2>1. KeptWorker(w)'
    BY <1>4 DEF Idle, KeptWorker, Working, At, Saved, Saving
  <2> QED
    BY <1>1, <1>3, <2>1, KeptGoes DEF KeptState
<1>5. CASE Comes(w, "check") /\ task'[w].own = OnDisk.doc
  <2>1. Saved(w) /\ Sets(OnDisk.doc, w)
    BY <1>1, <1>2 DEF Saved, At, KeptWorker
  <2>2. Sets(Config(w), w)' /\ Sets(OnDisk.doc, w)'
    BY <1>1, <1>5, <2>1 DEF Sets, Config, Comes, OnDisk
  <2>3. /\ task'[w].op # "boot" => task'[w].n = asked'
        /\ up' => beside' # "no"
    BY <1>1, <1>2, <1>5, <2>1 DEF KeptWorker, Comes, Working
  <2>4. KeptWorker(w)'
    BY <1>1, <1>5, <2>2, <2>3, WhoIsWho
       DEF KeptWorker, Working, At, Saved, Saving, Comes
  <2> QED
    BY <1>1, <1>3, <2>4, KeptGoes DEF KeptState
<1> QED
  BY <1>4, <1>5, LoadAgainTyped

\* The migration touches neither files nor rows.
LEMMA MigrateKept ==
    ASSUME TypeInv, FileInv, KeptInv, ~overlapped, beside # "lost",
           NEW w \in Worker, Migrate(w)
    PROVE  KeptInv'
<1>1. /\ Working(w) /\ Others(w) /\ UNCHANGED <<mem, path, data, rows, acked, named>>
      /\ UNCHANGED <<asked, beside>> /\ At(w, {"check", "script", "version"})
  BY MigrateTyped DEF Working, At, files, counters, history
<1>2. FileKept /\ MemKept /\ RowKept /\ KeptWorker(w) /\ OpsAt(w)
  BY <1>1, Before
<1>3. FileKept' /\ RowKept'
  BY <1>1, <1>2, KeptSame
<1>4. w \in {"loop", "cli"} /\ (w = "loop" => task[w].op = "boot")
  BY <1>1, <1>2 DEF OpsAt, At
<1>5. MemKept'
  <2>1. At("loop", {"check", "script", "version"})'
          => At("loop", {"check", "script", "version"})
    BY <1>1, WhoIsWho DEF At, Others
  <2>2. up' = up \/ At("loop", {"check", "script", "version"})
    BY <1>1, MigrateTyped
  <2> QED
    BY <1>1, <1>2, <2>1, <2>2 DEF MemKept, Kept
<1>6. CASE task'[w] = Idle
  <2>1. KeptWorker(w)'
    BY <1>6 DEF Idle, KeptWorker, Working, At, Saved, Saving
  <2> QED
    BY <1>1, <1>3, <1>5, <2>1, KeptGoes DEF KeptState
<1>7. CASE /\ task'[w].step \in {"select", "script", "version"} /\ SameOwn(w) /\ up' = up
           /\ task'[w].op = task[w].op /\ task'[w].n = task[w].n
           /\ task'[w].step = "select" => w = "cli"
  <2>1. CASE w = "loop"
    <3>1. task'[w].op = "boot"
      BY <1>4, <1>7, <2>1
    <3>2. KeptWorker(w)'
      BY <1>7, <2>1, <3>1, WhoIsWho DEF KeptWorker, Working, At, Saved, Saving, RequestOp
    <3> QED
      BY <1>1, <1>3, <1>5, <3>2, KeptGoes DEF KeptState
  <2>2. CASE w = "cli"
    <3>1. Saved(w) /\ Sets(Config(w), w) /\ Sets(OnDisk.doc, w)
      BY <1>1, <1>2, <2>2 DEF Saved, At, KeptWorker
    <3>2. Sets(Config(w), w)' /\ Sets(OnDisk.doc, w)'
      BY <1>1, <1>7, <3>1 DEF Sets, Config, SameOwn, OnDisk
    <3>3. /\ task'[w].op # "boot" => task'[w].n = asked'
          /\ up' => beside' # "no"
      BY <1>1, <1>2, <1>7, <2>2, <3>1 DEF KeptWorker
    <3>4. KeptWorker(w)'
      BY <1>7, <2>2, <3>2, <3>3, WhoIsWho DEF KeptWorker, Working, At, Saved, Saving
    <3> QED
      BY <1>1, <1>3, <1>5, <3>4, KeptGoes DEF KeptState
  <2> QED
    BY <1>4, <2>1, <2>2
<1> QED
  BY <1>6, <1>7, MigrateTyped DEF Comes

\* The row gets the id of the request.
LEMMA SyncKept ==
    ASSUME TypeInv, FileInv, KeptInv, ~overlapped, beside # "lost",
           NEW w \in Worker, Sync(w)
    PROVE  KeptInv'
<1>1. /\ Working(w) /\ Others(w) /\ UNCHANGED <<up, mem, path, data, acked, named>>
      /\ UNCHANGED <<asked, beside>> /\ At(w, {"select", "insert", "update"})
      /\ task[w].op \in {"setup", "init"}
  BY SyncTyped DEF Working, At, files, counters, history
<1>2. /\ FileKept /\ MemKept /\ RowKept /\ KeptWorker(w) /\ OpsAt(w)
      /\ task[w].n \in 0..MaxRequests /\ TypeOK
  BY <1>1, Before
<1>3. FileKept'
  BY <1>1, <1>2, KeptSame
<1>4. MemKept'
  <2>1. At("loop", {"check", "script", "version"})'
          => At("loop", {"check", "script", "version"})
    BY <1>1, SyncTyped, WhoIsWho DEF At, Others, Comes, Idle
  <2> QED
    BY <1>1, <1>2, <2>1 DEF MemKept, Kept
<1>5. CASE task'[w] = Idle /\ rows' = rows
  <2>1. KeptWorker(w)'
    BY <1>5 DEF Idle, KeptWorker, Working, At, Saved, Saving
  <2> QED
    BY <1>1, <1>2, <1>3, <1>4, <1>5, <2>1, KeptGoes, KeptSame DEF KeptState
<1>6. /\ Sets(Config(w), w) /\ Sets(OnDisk.doc, w) /\ task[w].n = asked
      /\ w \in Service => up
      /\ w = "cli" /\ up => beside # "no"
      /\ At(w, {"insert"}) => rows = {}
      /\ At(w, {"insert", "update"}) => task[w].at = task[w].n
  BY <1>1, <1>2 DEF KeptWorker, Saved, At, RequestOp
<1>7. ASSUME SameOwn(w), task'[w].op = task[w].op, task'[w].n = task[w].n
      PROVE  Sets(Config(w), w)' /\ Sets(OnDisk.doc, w)'
  BY <1>1, <1>6, <1>7 DEF Sets, Config, SameOwn, OnDisk
<1>8. CASE /\ At(w, {"select"}) /\ SameOwn(w) /\ rows' = rows
           /\ Comes(w, IF rows = {} THEN "insert" ELSE "update")
           /\ task'[w].at = Config(w)["id"]
  <2>1. Config(w)["id"] = task[w].n
    <3>1. "id" \in KeysOf(task[w].op)
      BY <1>1, Operations DEF Key
    <3> QED
      BY <1>6, <3>1 DEF Sets, Key
  <2>2. /\ task'[w].step \in {"insert", "update"}
        /\ task'[w].step = "insert" => rows' = {}
        /\ task'[w].op = task[w].op /\ task'[w].n = task[w].n
    BY <1>8 DEF Comes
  <2>3. KeptWorker(w)'
    BY <1>1, <1>6, <1>7, <1>8, <2>1, <2>2 DEF KeptWorker, Working, At, Saved, Saving
  <2> QED
    BY <1>1, <1>2, <1>3, <1>4, <1>8, <2>3, KeptGoes, KeptSame DEF KeptState
<1>9. CASE SameOwn(w) /\ Comes(w, "reply") /\ rows' = {task[w].n}
  <2>1. RowKept'
    BY <1>1, <1>2, <1>6, <1>9 DEF RowKept, TypeOK
  <2>2. KeptWorker(w)'
    BY <1>1, <1>6, <1>7, <1>9 DEF KeptWorker, Working, At, Saved, Saving, Comes
  <2> QED
    BY <1>1, <1>3, <1>4, <2>1, <2>2, KeptGoes DEF KeptState
<1>10. CASE SameOwn(w) /\ Comes(w, "reply")
            /\ \/ At(w, {"insert"}) /\ rows' = rows \cup {task[w].at}
               \/ At(w, {"update"}) /\ rows' = {task[w].at}
  <2>1. rows' = {task[w].n}
    BY <1>6, <1>10 DEF At
  <2> QED
    BY <1>9, <1>10, <2>1
<1> QED
  BY <1>5, <1>8, <1>10, SyncTyped

\* The reply: what it acknowledges is in file, dictionary and row.
LEMMA ReplyKept ==
    ASSUME TypeInv, FileInv, KeptInv, ~overlapped, beside # "lost",
           NEW w \in Worker, Reply(w)
    PROVE  KeptInv'
<1>1. /\ Working(w) /\ Others(w) /\ UNCHANGED <<up, mem, path, data, rows, asked, beside>>
      /\ At(w, {"reply"}) /\ task'[w] = Idle /\ task[w].op \in RequestOp
  BY ReplyTyped DEF Reply, Working, At, files, database, counters
<1>2. /\ FileKept /\ MemKept /\ RowKept /\ KeptWorker(w)
      /\ task[w].n \in 0..MaxRequests /\ TypeOK /\ acked \in Doc
  BY <1>1, Before
<1>3. PICK op, n : op = task[w].op /\ n = task[w].n
  OBVIOUS
<1>4. /\ acked' = WithKeys(acked, op, n)
      /\ named' = IF op \in {"setup", "init"} THEN n ELSE named
  BY <1>3 DEF Reply
<1>5. /\ \A k \in KeysOf(op) : acked'[k] = n
      /\ \A k \in Key \ KeysOf(op) : acked'[k] = acked[k]
      /\ \A k \in Key : acked[k] \in 0..MaxRequests
  BY <1>1, <1>2, <1>3, <1>4, KeysKept DEF Doc
<1>6. /\ Sets(Config(w), w) /\ Sets(OnDisk.doc, w) /\ n = asked
      /\ w = "cli" /\ up => beside # "no"
      /\ op \in {"setup", "init"} => rows = {n}
  BY <1>1, <1>2, <1>3 DEF KeptWorker, Saved, At, RequestOp
<1>7. FileKept'
  <2>1. OnDisk' = OnDisk
    BY <1>1 DEF OnDisk
  <2>2. \A k \in KeysOf(op) : OnDisk.doc[k] = n
    BY <1>3, <1>6 DEF Sets
  <2>3. \A k \in Key : acked'[k] <= asked' /\ OnDisk'.doc[k] >= acked'[k]
    BY <1>1, <1>2, <1>3, <1>5, <1>6, <2>1, <2>2 DEF FileKept, Kept
  <2> QED
    BY <2>3 DEF FileKept, Kept
<1>8. MemKept'
  <2>1. CASE w = "cli"
    <3>1. task'["loop"].step = "idle"
      BY <1>1, <2>1, Alone, WhoIsWho
    <3> QED
      BY <1>1, <1>6, <2>1, <3>1 DEF MemKept, At
  <2>2. CASE w # "cli"
    <3>1. \A k \in KeysOf(op) : mem[k] = n
      BY <1>3, <1>6, <2>2 DEF Sets, Config
    <3>2. up
      BY <1>1, <1>2, <2>2, WhoIsWho DEF KeptWorker
    <3>3. beside = "no" => Kept(mem)
      BY <1>2, <3>2 DEF MemKept
    <3>4. beside = "no" => \A k \in Key : mem[k] >= acked'[k]
      BY <1>2, <1>3, <1>5, <3>1, <3>3 DEF Kept
    <3> QED
      BY <1>1, <3>4 DEF MemKept, Kept
  <2> QED
    BY <2>1, <2>2
<1>9. RowKept'
  <2>1. CASE op \in {"setup", "init"}
    BY <1>1, <1>2, <1>3, <1>4, <1>6, <2>1 DEF RowKept
  <2>2. CASE op \notin {"setup", "init"}
    BY <1>1, <1>2, <1>4, <2>2 DEF RowKept
  <2> QED
    BY <2>1, <2>2
<1>10. KeptWorker(w)'
  BY <1>1 DEF Idle, KeptWorker, Working, At, Saved, Saving
<1> QED
  BY <1>1, <1>7, <1>8, <1>9, <1>10, KeptGoes DEF KeptState

\* A boot, a request or a command that begins alone: a request has the highest
\* number so far.
LEMMA BeginKept ==
    ASSUME TypeInv, FileInv, KeptInv, ~overlapped', beside # "lost",
           NEW w \in Worker, Others(w), UNCHANGED <<up, mem, files, database, acked>>,
           UNCHANGED <<named, beside>>, asked' \in Nat,
           overlapped' = (overlapped \/ Busy # {}), asked' >= asked,
           \/ w = "cli" /\ task'[w].step = "load"
           \/ w = "loop" /\ task'[w].step = "load" /\ task'[w].op = "boot"
           \/ w \in Service /\ up /\ task'[w].step \in {"merge", "set"},
           task'[w].op # "boot" => task'[w].n = asked'
    PROVE  KeptInv'
<1>1. ~overlapped /\ Busy = {}
  BY DEF TypeInv, TypeOK
<1>2. /\ path' = path /\ tmp' = tmp /\ data' = data /\ rows' = rows
      /\ FileKept /\ MemKept /\ RowKept /\ TypeOK
  BY <1>1 DEF files, database, KeptInv, KeptState, TypeInv
<1>3. \A v \in Worker : ~At(v, {"check", "script", "version"})
  BY <1>1 DEF Busy, At
<1>4. FileKept'
  <2>1. \A k \in Key : acked[k] \in Nat
    BY <1>2 DEF TypeOK, Doc
  <2>2. \A k \in Key : acked'[k] <= asked'
    BY <1>2, <2>1 DEF FileKept, TypeOK
  <2> QED
    BY <1>2, <2>2 DEF FileKept, Kept, OnDisk
<1>5. MemKept'
  <2>1. ~At("loop", {"check", "script", "version"})'
    BY <1>3, WhoIsWho DEF At, Others
  <2> QED
    BY <1>2, <2>1 DEF MemKept, Kept
<1>6. RowKept'
  BY <1>2 DEF RowKept, TypeOK
<1>7. KeptWorker(w)'
  BY WhoIsWho DEF KeptWorker, Working, At, Saved, Saving, RequestOp
<1>8. ASSUME NEW v \in Worker, v # w PROVE KeptWorker(v)'
  <2>1. task'[v].step = "idle"
    BY <1>1, <1>8 DEF Busy, Others
  <2> QED
    BY <2>1 DEF KeptWorker, Working, At, Saved, Saving
<1> QED
  BY <1>4, <1>5, <1>6, <1>7, <1>8 DEF KeptInv, KeptState

\* A kill takes the dictionary of the service along, never the file.
LEMMA KillKept ==
    ASSUME TypeInv, FileInv, KeptInv, ~overlapped, beside # "lost",
           NEW W \in {Service, {"cli"}, Worker}, Kill(W)
    PROVE  KeptInv'
<1>1. /\ path' = path /\ tmp' = tmp /\ data' = data /\ rows' = rows
      /\ UNCHANGED <<acked, named, asked, beside>>
      /\ \A v \in Worker : task'[v] = IF v \in W THEN Idle ELSE task[v]
      /\ FileKept /\ MemKept /\ RowKept
      /\ \A v \in Worker : KeptWorker(v)
  BY DEF Kill, files, database, KeptInv, KeptState
<1>2. FileKept' /\ RowKept'
  BY <1>1, KeptSame
<1>3. ASSUME NEW v \in Worker, v \in W PROVE KeptWorker(v)'
  <2>1. task'[v].step = "idle"
    BY <1>1, <1>3 DEF Idle
  <2> QED
    BY <2>1 DEF KeptWorker, Working, At, Saved, Saving
<1>4. CASE "loop" \in W
  <2>1. ~up' /\ Service \subseteq W
    BY <1>4, WhoIsWho DEF Kill
  <2>2. task'["loop"].step = "idle"
    BY <1>1, <1>4, WhoIsWho DEF Idle
  <2>3. MemKept'
    BY <2>1, <2>2 DEF MemKept, At
  <2>4. ASSUME NEW v \in Worker, v \notin W PROVE KeptWorker(v)'
    <3>1. v = "cli" /\ task'[v] = task[v] /\ KeptWorker(v) /\ v \notin Service
      BY <1>1, <2>1, <2>4, WhoIsWho
    <3>2. Config(v)' = Config(v) /\ OnDisk' = OnDisk
      BY <1>1, <3>1 DEF Config, OnDisk
    <3> QED
      BY <1>1, <2>1, <3>1, <3>2 DEF KeptWorker, OpsAt, Working, At, Saved, Sets, Kept,
                                   TypeInv, OpsInv
  <2> QED
    BY <1>2, <1>3, <2>3, <2>4 DEF KeptInv, KeptState
<1>5. CASE "loop" \notin W
  <2>1. mem' = mem /\ up' = up /\ W = {"cli"}
    BY <1>5, WhoIsWho DEF Kill, TypeInv, TypeOK
  <2>2. MemKept'
    BY <1>1, <1>5, <2>1, WhoIsWho DEF MemKept, At, Kept
  <2>3. ASSUME NEW v \in Worker, v \notin W PROVE KeptWorker(v)'
    <3>1. task'[v] = task[v] /\ KeptWorker(v)
      BY <1>1, <2>3
    <3>2. Config(v)' = Config(v) /\ OnDisk' = OnDisk
      BY <1>1, <2>1, <3>1 DEF Config, OnDisk
    <3> QED
      BY <1>1, <2>1, <3>1, <3>2 DEF KeptWorker, Working, At, Saved, Sets, Kept
  <2> QED
    BY <1>2, <1>3, <2>2, <2>3 DEF KeptInv, KeptState
<1> QED
  BY <1>4, <1>5

\* No step loses what was acknowledged.
LEMMA KeptStep == TypeInv /\ FileInv /\ KeptInv /\ [Next]_vars => KeptInv'
<1> SUFFICES ASSUME TypeInv, FileInv, KeptInv, [Next]_vars, ~overlapped',
                    beside' # "lost"
             PROVE  KeptInv'
  BY DEF KeptInv
<1>1. CASE Boot
  <2>1. /\ Others("loop") /\ task'["loop"].step = "load" /\ task'["loop"].op = "boot"
        /\ asked' = asked /\ asked \in Nat /\ asked >= asked
    BY <1>1, BootTyped DEF Boot, TypeInv, TypeOK, counters
  <2>2. /\ UNCHANGED <<up, mem, files, database, acked, named, beside>>
        /\ overlapped' = (overlapped \/ Busy # {})
    BY <1>1 DEF Boot
  <2> QED
    BY <2>1, <2>2, BeginKept, WhoIsWho
<1>2. ASSUME NEW r \in Runs, Request(r[1], r[2]) PROVE KeptInv'
  <2>1. PICK op, w : op = r[1] /\ w = r[2]
    OBVIOUS
  <2>2. /\ w \in Worker /\ Others(w)
        /\ task'[w].n = asked + 1 /\ (w \in Service => up)
        /\ task'[w].step = IF w = "cli" THEN "load"
                           ELSE IF op = "import" THEN "merge" ELSE "set"
    BY <1>2, <2>1, RequestTyped DEF Request
  <2>3. /\ asked' = asked + 1 /\ asked' \in Nat /\ asked' >= asked
    BY <1>2 DEF Request, TypeInv, TypeOK
  <2>4. \/ w = "cli" /\ task'[w].step = "load"
        \/ w \in Service /\ up /\ task'[w].step \in {"merge", "set"}
    BY <2>2, WhoIsWho
  <2>5. /\ UNCHANGED <<up, mem, files, database, acked, named, beside>>
        /\ overlapped' = (overlapped \/ Busy # {})
    BY <1>2 DEF Request
  <2> QED
    BY <2>2, <2>3, <2>4, <2>5, BeginKept
<1>3. ASSUME NEW w \in Worker, Step(w) PROVE KeptInv'
  <2>1. ~overlapped
    BY <1>3 DEF Step, Load, LoadAgain, Migrate, Check, Script, Version, Change, SetKeys, SetHash, Merge,
                Swap, Save, Open, Dump, Replace, Sync, Select, InsertRow, UpdateRows,
                Reply, history
  <2>2. beside # "lost" \/ Save(w)
    <3>1. CASE Load(w)
      BY <3>1 DEF Load
    <3>2. CASE LoadAgain(w) \/ Migrate(w) \/ Change(w) \/ Sync(w)
      BY <3>2 DEF LoadAgain, Migrate, Check, Script, Version, Change, SetKeys, SetHash, Merge,
                  Swap, Sync, Select, InsertRow, UpdateRows, history
    <3>3. CASE Reply(w)
      BY <3>3 DEF Reply
    <3> QED
      BY <1>3, <3>1, <3>2, <3>3 DEF Step
  <2> QED
    BY <1>3, <2>1, <2>2, LoadKept, LoadAgainKept, MigrateKept, ChangeKept, SaveKept, SyncKept,
       ReplyKept DEF Step
<1>4. ASSUME NEW W \in {Service, {"cli"}, Worker}, Kill(W) PROVE KeptInv'
  BY <1>4, KillKept DEF Kill
<1>5. CASE UNCHANGED vars
  BY <1>5 DEF vars, files, database, counters, history, KeptInv, KeptState, FileKept,
              MemKept, RowKept, Kept, OnDisk, At, KeptWorker, Working, Saved, Sets,
              Config
<1> QED
  BY <1>1, <1>2, <1>3, <1>4, <1>5 DEF Next

\* A setting that was acknowledged is in the file, and the one row of table
\* appliance has an acknowledged or later id, through any number of kills and
\* restarts; unless requests overlapped, or a command changed the file beside a
\* service that then saved its own copy over it (Config.save, run_setup, cmd_init).
THEOREM AcknowledgedIsKeptAlways == Spec => []AcknowledgedIsKept
<1>1. Init => KeptInv
  <2> SUFFICES ASSUME Init PROVE KeptInv
    OBVIOUS
  <2>1. \A w \in Worker : task[w].step = "idle"
    BY DEF Init, Idle
  <2>2. OnDisk.doc = Defaults /\ Kept(Defaults) /\ mem = Defaults
    BY DEF Init, OnDisk, Empty, Holds, Kept, Defaults
  <2>3. FileKept /\ MemKept
    BY <2>2 DEF Init, FileKept, MemKept, Defaults
  <2>4. RowKept
    BY ProvisioningBounds DEF Init, RowKept
  <2>5. \A w \in Worker : KeptWorker(w)
    BY <2>1 DEF KeptWorker, Working, At, Saved, Saving
  <2> QED
    BY <2>3, <2>4, <2>5 DEF KeptInv, KeptState
<1>2. Spec => []KeptInv
  BY <1>1, FileInvariant, KeptStep, PTL DEF Spec
<1>3. KeptInv => AcknowledgedIsKept
  <2> SUFFICES ASSUME KeptInv, ~overlapped, beside # "lost"
               PROVE  /\ \A k \in Key : OnDisk.doc[k] >= acked[k]
                      /\ named # 0 => \E r \in rows : rows = {r} /\ r >= named
    BY DEF AcknowledgedIsKept
  <2> QED
    BY DEF KeptInv, KeptState, FileKept, RowKept, Kept
<1> QED
  BY <1>2, <1>3, PTL

=============================================================================
