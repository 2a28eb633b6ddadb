---------------------------- MODULE Provisioning ----------------------------
(***************************************************************************)
(* How the appliance gets and keeps its configuration and its schema:      *)
(* config.py (one dictionary, one YAML file), the setup, branding and      *)
(* import handlers of routes.py, cmd_init and cmd_import_config of cli.py, *)
(* and the migration of db.py that both processes run when they start.     *)
(*                                                                         *)
(* The service is the loop and its pool threads, which share one           *)
(* dictionary; the command line is a process with a copy of its own.  Every *)
(* system call and every SQL statement is a step.  Request n writes n to   *)
(* the keys it sets.  Key "start" stands for the settings the service      *)
(* starts with, server.port first; it is unfit when a start raises on it.  *)
(* A file name is an inode, as os.replace moves the inode another thread   *)
(* may be writing to.                                                      *)
(***************************************************************************)
EXTENDS Naturals, FiniteSets

CONSTANTS Pool,         \* pool threads of the service
          MaxRequests,  \* bound: requests and commands
          MaxKills,     \* bound: kills of a process
          Statements    \* bound: statements of the migration script

ASSUME ProvisioningBounds == /\ MaxRequests \in Nat /\ MaxKills \in Nat
                             /\ Statements \in Nat \ {0}

\* The pool is finite and has neither the loop nor the command line in it.
ASSUME Workers == IsFiniteSet(Pool) /\ Pool \cap {"loop", "cli"} = {}

Service == {"loop"} \cup Pool
Worker == Service \cup {"cli"}
Key == {"salt", "hash", "brand", "id", "start"}
Doc == [Key -> 0..MaxRequests]
Defaults == [k \in Key |-> 0]
Inode == 1..Cardinality(Worker) + 2

\* What a request is called, who executes it, and the keys it sets.
Runs == {<<"setup", w>> : w \in Pool} \cup {<<"branding", w>> : w \in Service}
        \cup {<<"import", "loop">>, <<"init", "cli">>, <<"import", "cli">>}
KeysOf(op) == CASE op \in {"setup", "init"} -> Key \ {"start"}
                [] op = "branding" -> {"brand"}
                [] op = "import" -> {"brand", "id", "start"}

VARIABLES
    up,        \* the service has booted
    mem,       \* Config.data of the service
    task,      \* task[w]: the request worker w executes and its next step
    path, tmp, \* inodes of config.yaml and config.tmp, 0 when absent
    data,      \* data[i]: what inode i holds
    rows,      \* ids in table appliance
    schema,    \* statements of 0001_initial.sql that took effect
    versioned, \* its version is in schema_migrations
    asked, kills,
    unfit,     \* the imports with settings no start survives
    acked,     \* acked[k]: the last acknowledged request that set k (history)
    named,     \* the last acknowledged setup or init (history)
    overlapped,\* two processes or requests were at work at once (history)
    beside,    \* a command saved while the service was up: ahead of its copy,
               \* or lost to it (history)
    cut        \* a kill hit the migration (history)

files == <<path, tmp, data>>
database == <<rows, schema, versioned>>
history == <<acked, named, overlapped, beside, cut>>
counters == <<asked, unfit, kills>>
vars == <<up, mem, task, files, database, counters, history>>

Idle == [step |-> "idle", op |-> "none", n |-> 0, own |-> Defaults,
         inode |-> 0, at |-> 0]
Busy == {w \in Worker : task[w].step # "idle"}
Go(w, step) == [task EXCEPT ![w].step = step]
End(w) == [task EXCEPT ![w] = Idle]

Holds(kind, doc) == [kind |-> kind, doc |-> doc]
Empty == Holds("empty", Defaults)
OnDisk == IF path = 0 THEN Empty ELSE data[path]  \* what a load would read

Init ==
    /\ up = FALSE /\ mem = Defaults
    /\ task = [w \in Worker |-> Idle]
    /\ path = 0 /\ tmp = 0 /\ data = [i \in Inode |-> Empty]
    /\ rows = {} /\ schema = 0 /\ versioned = FALSE
    /\ asked = 0 /\ unfit = {} /\ kills = 0
    /\ acked = Defaults /\ named = 0
    /\ overlapped = FALSE /\ beside = "no" /\ cut = FALSE

\* The configuration worker w reads and writes.
Config(w) == IF w = "cli" THEN task[w].own ELSE mem
WithKeys(doc, op, n) == [k \in Key |-> IF k \in KeysOf(op) THEN n ELSE doc[k]]

-----------------------------------------------------------------------------
(* Starting: the service, a request, a command                             *)

\* systemd starts the service, again and again while it fails.
Boot ==
    /\ ~up /\ task["loop"].step = "idle"
    /\ task' = [task EXCEPT !["loop"] = [Idle EXCEPT !.step = "load",
                                                     !.op = "boot"]]
    /\ overlapped' = (overlapped \/ Busy # {})
    /\ UNCHANGED <<up, mem, files, database, counters, acked, named, beside, cut>>

\* run_setup, update_branding and upload_logo, import_config; cmd_init and
\* cmd_import_config, which load the file first.  An import may bring any
\* values: neither the handler nor import_public looks at the schema.
Request(op, w) ==
    /\ asked < MaxRequests
    /\ w \in Service => up
    /\ task[w].step = "idle"
    /\ asked' = asked + 1
    /\ \/ UNCHANGED unfit
       \/ op = "import" /\ unfit' = unfit \cup {asked + 1}
    /\ task' = [task EXCEPT ![w] = [Idle EXCEPT
                   !.op = op, !.n = asked + 1,
                   !.step = IF w = "cli" THEN "load"
                            ELSE IF op = "import" THEN "merge" ELSE "set"]]
    /\ overlapped' = (overlapped \/ Busy # {})
    /\ UNCHANGED <<up, mem, files, database, kills, acked, named, beside, cut>>

\* Mutant: an empty file is not read as no settings.
LoadNone(w) ==
    /\ task[w].step = "load"
    /\ LET doc == IF OnDisk.kind = "empty" THEN <<>> ELSE OnDisk.doc
       IN  IF w = "loop"
           THEN mem' = doc /\ task' = Go(w, "check")
           ELSE UNCHANGED mem /\ task' = [task EXCEPT ![w].step = "set",
                                                      ![w].own = doc]
    /\ UNCHANGED <<up, files, database, counters, history>>

\* load_config ends the process on a file that is no YAML mapping; the service
\* also ends on an unfit setting, as on int(port) in cmd_serve.
Fails(w) == \/ OnDisk.kind = "garbled"
            \/ w = "loop" /\ OnDisk.doc["start"] \in unfit

\* Defaults under what the file says.  (The service loads twice, in cmd_serve
\* and in lifespan: one step here.)
Load(w) ==
    /\ task[w].step = "load"
    /\ \/ Fails(w) /\ task' = End(w) /\ UNCHANGED <<mem, beside>>
       \/ /\ ~Fails(w) /\ w = "loop"
          /\ mem' = OnDisk.doc /\ task' = Go(w, "check")
          /\ beside' = IF beside = "ahead" THEN "no" ELSE beside
       \/ /\ ~Fails(w) /\ w = "cli"
          /\ task' = [task EXCEPT ![w].step = "set", ![w].own = OnDisk.doc]
          /\ UNCHANGED <<mem, beside>>
    /\ UNCHANGED <<up, files, database, counters, acked, named, overlapped, cut>>

-----------------------------------------------------------------------------
(* Changing the dictionary                                                 *)

\* Mutant: the settings are saved before the hash of the new PIN is set.
SetAllButHash(w) ==
    /\ task[w].step = "set"
    /\ mem' = IF w = "cli" THEN mem
              ELSE [WithKeys(mem, task[w].op, task[w].n) EXCEPT !["hash"] = mem.hash]
    /\ task' = [task EXCEPT ![w].step = "open", ![w].own = IF w = "cli"
                   THEN WithKeys(@, task[w].op, task[w].n) ELSE @]
    /\ UNCHANGED <<up, files, database, counters, history>>

\* Config.set, key by key.  set_pin sets the salt and the hash apart: another
\* thread can save, or check a PIN, with one and not the other.
SetKeys(w) ==
    /\ task[w].step = "set"
    /\ LET new == WithKeys(Config(w), task[w].op, task[w].n)
       IN  IF w = "cli"
           THEN UNCHANGED mem /\ task' = [task EXCEPT ![w].step = "open",
                                                      ![w].own = new]
           ELSE IF task[w].op = "setup"
           THEN mem' = [new EXCEPT !["hash"] = mem.hash] /\ task' = Go(w, "hash")
           ELSE mem' = new /\ task' = Go(w, "open")
    /\ UNCHANGED <<up, files, database, counters, history>>

SetHash(w) ==
    /\ task[w].step = "hash"
    /\ mem' = [mem EXCEPT !["hash"] = task[w].n]
    /\ task' = Go(w, "open")
    /\ UNCHANGED <<up, files, database, counters, history>>

\* import_public: _deep_merge builds a new dictionary from a copy ...
Merge(w) ==
    /\ task[w].step = "merge"
    /\ task' = [task EXCEPT ![w].step = "swap",
                            ![w].own = WithKeys(mem, "import", task[w].n)]
    /\ UNCHANGED <<up, mem, files, database, counters, history>>

\* Mutant: the merged dictionary is never installed.
SwapForgotten(w) ==
    /\ task[w].step = "swap"
    /\ task' = Go(w, "open")
    /\ UNCHANGED <<up, mem, files, database, counters, history>>

\* ... which then takes the place of the one other threads have changed since.
Swap(w) ==
    /\ task[w].step = "swap"
    /\ mem' = task[w].own
    /\ task' = Go(w, "open")
    /\ UNCHANGED <<up, files, database, counters, history>>

-----------------------------------------------------------------------------
(* Config.save                                                             *)

Unused == {i \in Inode : i \notin {path, tmp} \cup {task[w].inode : w \in Worker}}
Lowest(S) == CHOOSE i \in S : \A j \in S : i <= j

\* open(tmp, "w") truncates the temporary file of another save, if there is one.
Open(w) ==
    /\ task[w].step = "open"
    /\ LET i == IF tmp = 0 THEN Lowest(Unused) ELSE tmp
       IN  /\ tmp' = i
           /\ data' = [data EXCEPT ![i] = Empty]
           /\ task' = [task EXCEPT ![w].step = "dump", ![w].inode = i]
    /\ UNCHANGED <<up, mem, path, database, counters, history>>

\* safe_dump and the end of "with": over what another save wrote to the same
\* inode, a shorter document leaves a tail of the longer one.
Dump(w) ==
    /\ task[w].step = "dump"
    /\ LET i == task[w].inode
           whole == Holds("doc", Config(w))
       IN  \E content \in {whole} \cup
                 (IF data[i].kind = "empty" THEN {} ELSE {Holds("garbled", Defaults)}) :
              data' = [data EXCEPT ![i] = content]
    /\ task' = Go(w, "replace")
    /\ UNCHANGED <<up, mem, path, tmp, database, counters, history>>

\* What an operation still has to do once the file is saved.
AfterSave(w) == CASE task[w].op = "setup" -> "select"
                  [] task[w].op = "init" -> "again"
                  [] OTHER -> "reply"

\* os.replace; it raises when another save has already moved the file away.
Replace(w) ==
    /\ task[w].step = "replace"
    /\ IF tmp = 0
       THEN task' = End(w) /\ UNCHANGED <<path, tmp, data, beside>>
       ELSE /\ path' = tmp /\ tmp' = 0
            /\ data' = [i \in Inode |-> IF i = path /\ \A v \in Worker \ {w} :
                                             task[v].inode # i
                                        THEN Empty ELSE data[i]]
            /\ task' = [task EXCEPT ![w].step = AfterSave(w), ![w].inode = 0]
            /\ beside' = CASE w = "cli" /\ up /\ beside = "no" -> "ahead"
                           [] w # "cli" /\ beside = "ahead" -> "lost"
                           [] OTHER -> beside
    /\ UNCHANGED <<up, mem, database, counters, acked, named, overlapped, cut>>

\* _mk_state in cmd_init: the file is loaded anew for an AppState, which may
\* raise on an unfit setting (a storage path) or never look at it (the port).
LoadAgain(w) ==
    /\ task[w].step = "again"
    /\ \/ /\ OnDisk.kind = "garbled" \/ OnDisk.doc["start"] \in unfit
          /\ task' = End(w)
       \/ /\ OnDisk.kind # "garbled"
          /\ task' = [task EXCEPT ![w].step = "check", ![w].own = OnDisk.doc]
    /\ UNCHANGED <<up, mem, files, database, counters, history>>

-----------------------------------------------------------------------------
(* Database.migrate                                                        *)

\* What follows a migration: the service is up, cmd_init syncs its row.
Migrated(w) == /\ task' = IF w = "loop" THEN End(w) ELSE Go(w, "select")
               /\ up' = (up \/ w = "loop")

\* The versions applied are read once.
Check(w) ==
    /\ task[w].step = "check"
    /\ IF versioned THEN Migrated(w)
       ELSE task' = [task EXCEPT ![w].step = "script", ![w].at = 1] /\ UNCHANGED up
    /\ UNCHANGED <<mem, files, database, counters, history>>

\* executescript commits statement by statement; a CREATE of what is there
\* already ends the process.
Script(w) ==
    /\ task[w].step = "script"
    /\ LET k == task[w].at
       IN  IF schema >= k
           THEN task' = End(w) /\ UNCHANGED schema
           ELSE /\ schema' = k
                /\ task' = IF k = Statements THEN Go(w, "version")
                           ELSE [task EXCEPT ![w].at = k + 1]
    /\ UNCHANGED <<up, mem, files, rows, versioned, counters, history>>

\* Mutant: the version is not recorded.
VersionForgotten(w) ==
    /\ task[w].step = "version"
    /\ Migrated(w)
    /\ UNCHANGED <<mem, files, database, counters, history>>

Version(w) ==
    /\ task[w].step = "version"
    /\ versioned' = TRUE
    /\ Migrated(w)
    /\ UNCHANGED <<mem, files, rows, schema, counters, history>>

-----------------------------------------------------------------------------
(* The appliance row, and the reply                                        *)

\* identity() and the SELECT of _sync_appliance_row and of cmd_init; "at" keeps
\* the id that will be written.
Select(w) ==
    /\ task[w].step = "select"
    /\ task' = [task EXCEPT ![w].step = IF rows = {} THEN "insert" ELSE "update",
                            ![w].at = Config(w).id]
    /\ UNCHANGED <<up, mem, files, database, counters, history>>

\* The INSERT breaks the primary key if the id is there by now.
InsertRow(w) ==
    /\ task[w].step = "insert"
    /\ IF task[w].at \in rows
       THEN task' = End(w) /\ UNCHANGED rows
       ELSE rows' = rows \cup {task[w].at} /\ task' = Go(w, "reply")
    /\ UNCHANGED <<up, mem, files, schema, versioned, counters, history>>

\* The UPDATE has no WHERE: it breaks the primary key if there are two rows.
UpdateRows(w) ==
    /\ task[w].step = "update"
    /\ IF Cardinality(rows) > 1
       THEN task' = End(w) /\ UNCHANGED rows
       ELSE rows' = {task[w].at} /\ task' = Go(w, "reply")
    /\ UNCHANGED <<up, mem, files, schema, versioned, counters, history>>

Reply(w) ==
    /\ task[w].step = "reply"
    /\ LET t == task[w]
       IN  /\ acked' = WithKeys(acked, t.op, t.n)
           /\ named' = IF t.op \in {"setup", "init"} THEN t.n ELSE named
    /\ task' = End(w)
    /\ UNCHANGED <<up, mem, files, database, counters, overlapped, beside, cut>>

-----------------------------------------------------------------------------
\* A process is killed, or all of them by a power cut.
Kill(W) ==
    /\ kills < MaxKills
    /\ up \/ W \cap Busy # {}
    /\ kills' = kills + 1
    /\ task' = [w \in Worker |-> IF w \in W THEN Idle ELSE task[w]]
    /\ up' = (up /\ "loop" \notin W)
    /\ mem' = IF "loop" \in W THEN Defaults ELSE mem
    /\ cut' = (cut \/ \E w \in W : \/ task[w].step = "version"
                                   \/ task[w].step = "script" /\ schema > 0)
    /\ UNCHANGED <<files, database, asked, unfit, acked, named, overlapped, beside>>

Migrate(w) == Check(w) \/ Script(w) \/ Version(w)
Change(w) == SetKeys(w) \/ SetHash(w) \/ Merge(w) \/ Swap(w)
Save(w) == Open(w) \/ Dump(w) \/ Replace(w)
Sync(w) == Select(w) \/ InsertRow(w) \/ UpdateRows(w)
Step(w) == \/ Load(w) \/ LoadAgain(w) \/ Migrate(w)
           \/ Change(w) \/ Save(w) \/ Sync(w) \/ Reply(w)

Next == \/ Boot
        \/ \E r \in Runs : Request(r[1], r[2])
        \/ \E w \in Worker : Step(w)
        \/ \E W \in {Service, {"cli"}, Worker} : Kill(W)

Spec == Init /\ [][Next]_vars

\* systemd restarts the service for ever, and what runs goes on running.
FairSpec == Spec /\ WF_vars(Boot) /\ \A w \in Worker : WF_vars(Step(w))

-----------------------------------------------------------------------------
(* Properties                                                              *)

\* Every variable has its type.
TypeOK ==
    /\ up \in BOOLEAN /\ mem \in Doc
    /\ task \in [Worker ->
          [step : {"idle", "load", "set", "hash", "merge", "swap", "open", "dump",
                   "replace", "again", "check", "script", "version", "select",
                   "insert", "update", "reply"},
           op : {"none", "boot", "setup", "branding", "import", "init"},
           n : 0..MaxRequests, own : Doc, inode : Inode \cup {0}, at : Nat]]
    /\ path \in Inode \cup {0} /\ tmp \in Inode \cup {0}
    /\ data \in [Inode -> [kind : {"empty", "doc", "garbled"}, doc : Doc]]
    /\ rows \subseteq 0..MaxRequests
    /\ schema \in 0..Statements /\ versioned \in BOOLEAN
    /\ asked \in 0..MaxRequests /\ unfit \subseteq 1..MaxRequests /\ kills \in 0..MaxKills
    /\ acked \in Doc /\ named \in 0..MaxRequests
    /\ overlapped \in BOOLEAN /\ beside \in {"no", "ahead", "lost"}
    /\ cut \in BOOLEAN

\* Wherever a process is killed, the configuration file is a whole document
\* whose salt and hash belong to one PIN, as long as requests and processes do
\* not overlap: save goes through a second file, and after both are set.
FileIsWhole ==
    ~overlapped /\ path # 0 =>
        OnDisk.kind = "doc" /\ OnDisk.doc["salt"] = OnDisk.doc["hash"]

\* A setting that was acknowledged is in the file, and the one row of table
\* appliance has an acknowledged or later id, through kills and restarts;
\* unless requests overlapped, or a command changed the file beside a service
\* that then saved its own copy over it.
AcknowledgedIsKept ==
    ~overlapped /\ beside # "lost" =>
        /\ \A k \in Key : OnDisk.doc[k] >= acked[k]
        /\ named # 0 => \E r \in rows : rows = {r} /\ r >= named

\* The appliance recovers by itself (docs/operator-guide.md): the service comes
\* up again, even when service and command line migrate at the same time; only
\* a kill inside the script, two saves that garbled the file, or an import that
\* brought a setting no start survives prevents it.
ServiceComesUp ==
    ~up ~> up \/ cut \/ OnDisk.kind = "garbled" \/ OnDisk.doc["start"] \in unfit

=============================================================================
