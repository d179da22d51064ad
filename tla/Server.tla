------------------------------- MODULE Server -------------------------------
(***************************************************************************)
(* The server around the function registry (server/src/main.rs with the    *)
(* parts of dispatcher.rs and function_registry.rs that it reaches): HTTP  *)
(* handlers that write binaries and send commands, the dispatcher loop     *)
(* that registers inline and spawns a task per request, tasks that look a  *)
(* function up, load and run it, and the engines.                          *)
(*                                                                         *)
(* Each client makes one call, which its script names.  A client may leave *)
(* while its handler awaits; hyper then drops the handler.                 *)
(*                                                                         *)
(* Left to other modules: the order in which a composition starts its      *)
(* functions (QueueComposition; here any subset of them, at once), how     *)
(* work and results are queued (WorkQueue, PromiseBuffer, Promise).        *)
(***************************************************************************)
EXTENDS FunctionRegistry

CONSTANTS
    Clients,
    Scripts,        \* what the clients may call: functions from Clients to calls
    Engines,        \* engine types of this build that functions can ask for
    SystemNames, SystemEngine,
    Preloaded,      \* files and functions of the preload configuration
    CHANNEL,        \* capacity of the command channel (1000 in the code)
    MAX_QUEUE       \* promises of the work queue (4096 in the code)

ASSUME Capacities == CHANNEL \in Nat \ {0} /\ MAX_QUEUE \in Nat

(* main registers the preloaded functions after the system's and goes on   *)
(* with a warning if a name is taken: Preloaded are the ones it inserted.  *)
ASSUME PreloadedAreNew == Preloaded \cap SystemNames = {}

(* The clients' calls are functions, and the modules in them lists. *)
ASSUME ScriptsTyped ==
    \A s \in Scripts :
        /\ DOMAIN s = Clients
        /\ \A c \in Clients :
               /\ Len(s[c].module) \in Nat /\ DOMAIN s[c].module = 1 .. Len(s[c].module)
               /\ \A i \in DOMAIN s[c].module : s[c].module[i].kind \in {"declaration", "composition"}

VARIABLES
    script,         \* the call of every client
    pc,             \* where its handler is
    answer,         \* its oneshot channel
    known,          \* whether what it asks for was registered when it sent
    files,          \* contents of the files, by path
    queue,          \* the command channel
    loop,           \* the dispatcher loop
    function_map,
    loads,          \* the shared future of every alternative
    tasks,          \* the clients whose requests have a task
    calls,          \* per task, the functions it has under way: <<>> is the
                    \* one requested, <<p, d>> dependency d of composition p
    work            \* jobs of the engines

vars == <<script, pc, answer, known, files, queue, loop, function_map, loads, tasks, calls, work>>
client == <<script, pc, answer, known>>
registry == <<function_map, loads>>

Empty == [p \in {} |-> p]
Idle == [state |-> "idle", function |-> <<>>]
Loaded(binary) == [state |-> "done", function |-> binary]

Init ==
    /\ script \in Scripts
    /\ pc = [c \in Clients |-> IF script[c].kind = "function" THEN "start" ELSE "send"]
    /\ answer = [c \in Clients |-> "none"]
    /\ known = [c \in Clients |-> FALSE]
    /\ files = [n \in Preloaded |-> <<n>>]
    /\ queue = <<>>
    /\ loop = "running"
    /\ function_map =
           WithEntries(SystemRegistry(SystemNames, SystemEngine, "system"),
                       [n \in Preloaded |->
                           FunctionEntry("function", Alternative(CHOOSE e \in Engines : TRUE, n), n)])
    /\ loads = WithEntries([k \in SystemNames \X {SystemEngine} |-> Loaded(<<"system">>)],
                           [k \in Preloaded \X {CHOOSE e \in Engines : TRUE} |-> Idle])
    /\ tasks = {}
    /\ calls = [c \in Clients |-> Empty]
    /\ work = {}

-----------------------------------------------------------------------------
(* Handlers: register_function, register_composition, serve_request.       *)

(* The file is named after the function. *)
PathOf(c) == IF script[c].local THEN script[c].binary[1] ELSE script[c].name

(* What write_all leaves of a file that another handler wrote meanwhile. *)
Overwritten(old, new) ==
    [i \in 1 .. (IF Len(old) > Len(new) THEN Len(old) ELSE Len(new)) |->
        IF i <= Len(new) THEN new[i] ELSE old[i]]

(* An engine type that is not built in panics the handler. *)
AfterFile(c) == IF script[c].engine \in Engines THEN "send" ELSE "failed"

CreateFile(c) ==
    /\ pc[c] = "start" /\ ~script[c].local
    /\ files' = PathOf(c) :> <<>> @@ files
    /\ pc' = [pc EXCEPT ![c] = "write"]
    /\ UNCHANGED <<script, answer, known, queue, loop, registry, tasks, calls, work>>

WriteFile(c) ==
    /\ pc[c] = "write"
    /\ files' = [files EXCEPT ![PathOf(c)] = Overwritten(@, script[c].binary)]
    /\ pc' = [pc EXCEPT ![c] = AfterFile(c)]
    /\ UNCHANGED <<script, answer, known, queue, loop, registry, tasks, calls, work>>

OpenLocal(c) ==
    /\ pc[c] = "start" /\ script[c].local
    /\ pc' = [pc EXCEPT ![c] = IF PathOf(c) \in DOMAIN files THEN AfterFile(c) ELSE "failed"]
    /\ UNCHANGED <<script, answer, known, files, queue, loop, registry, tasks, calls, work>>

(* send().await waits for room; it fails, and unwrap panics, when the loop *)
(* and with it the receiver is gone.                                       *)
Send(c) ==
    /\ pc[c] = "send"
    /\ \/ /\ loop = "running" /\ Len(queue) < CHANNEL
          /\ queue' = Append(queue, c)
          /\ known' = [known EXCEPT ![c] = script[c].name \in DOMAIN function_map]
          /\ pc' = [pc EXCEPT ![c] = "wait"]
       \/ /\ loop = "stopped"
          /\ pc' = [pc EXCEPT ![c] = "failed"]
          /\ UNCHANGED <<queue, known>>
    /\ UNCHANGED <<script, answer, files, loop, registry, tasks, calls, work>>

serve_request(c) == script[c].kind = "request" /\ Send(c)
register_function(c) == script[c].kind = "function" /\ Send(c)
register_composition(c) == script[c].kind = "composition" /\ Send(c)

(* Anything but Ok panics the handler. *)
Await(c) ==
    /\ pc[c] = "wait" /\ answer[c] # "none"
    /\ pc' = [pc EXCEPT ![c] = IF answer[c] = "ok" THEN "done" ELSE "failed"]
    /\ UNCHANGED <<script, answer, known, files, queue, loop, registry, tasks, calls, work>>

Leave(c) ==
    /\ pc[c] \in {"send", "wait"}
    /\ pc' = [pc EXCEPT ![c] = "gone"]
    /\ UNCHANGED <<script, answer, known, files, queue, loop, registry, tasks, calls, work>>

-----------------------------------------------------------------------------
(* dispatcher_loop.                                                        *)

(* callback.send(..).expect(..): the loop panics when the client left. *)
Received(c) == pc[c] # "gone"

(* insert_function and insert_compositions. *)
Registered(call) ==
    IF call.kind = "composition" THEN insert_compositions(function_map, call.module)
    ELSE LET path == IF call.local THEN call.binary[1] ELSE call.name
         IN  IF path \notin DOMAIN files THEN Refused(function_map)
             ELSE fmap_insert_function(function_map, call.name, "function",
                                       Alternative(call.engine, path), call.metadata)

(* Mutant: no future is made. *)
OldLoads(fmap) == loads

(* A new alternative comes with a future that nobody has polled yet. *)
NewLoads(fmap) ==
    LET keys == UNION {{<<n, fmap[n].alternatives[i].engine>> :
                          i \in DOMAIN fmap[n].alternatives} : n \in DOMAIN fmap}
    IN  [k \in keys |-> IF k \in DOMAIN loads THEN loads[k] ELSE Idle]

(* Mutant: the commands in the channel are left as they are. *)
Kept(answers) == answers

(* The receiver goes away with the commands in it and their callbacks. *)
Dropped(answers) ==
    [c \in Clients |-> IF \E i \in 2 .. Len(queue) : queue[i] = c THEN "dropped" ELSE answers[c]]
StopLoop(answers) ==
    /\ loop' = "stopped"
    /\ queue' = <<>>
    /\ answer' = Dropped(answers)

Spawn ==
    LET c == Head(queue)
    IN  /\ loop = "running" /\ queue # <<>> /\ script[c].kind = "request"
        /\ queue' = Tail(queue)
        /\ tasks' = tasks \cup {c}
        /\ calls' = [calls EXCEPT ![c] = [p \in {<<>>} |->
                        [name |-> script[c].name, stage |-> "lookup", function |-> <<>>]]]
        /\ UNCHANGED <<client, files, loop, registry, work>>

Register ==
    LET c == Head(queue)
        result == Registered(script[c])
        answers == [answer EXCEPT ![c] = IF result.ok THEN "ok" ELSE "err"]
    IN  /\ loop = "running" /\ queue # <<>> /\ script[c].kind # "request"
        /\ ~(script[c].kind = "composition" /\ Panics(function_map, script[c].module))
        /\ function_map' = result.map
        /\ loads' = NewLoads(function_map')
        /\ \/ Received(c) /\ loop' = loop /\ queue' = Tail(queue) /\ answer' = answers
           \/ ~Received(c) /\ StopLoop(answer)
        /\ UNCHANGED <<script, pc, known, files, tasks, calls, work>>

RegisterPanics ==
    LET c == Head(queue)
    IN  /\ loop = "running" /\ queue # <<>> /\ script[c].kind = "composition"
        /\ Panics(function_map, script[c].module)
        /\ StopLoop([answer EXCEPT ![c] = "dropped"])
        /\ UNCHANGED <<script, pc, known, files, registry, tasks, calls, work>>

-----------------------------------------------------------------------------
(* Tasks: queue_function_by_name, queue_function, load_function,           *)
(* run_on_engine.                                                          *)

Job(kind, c, path, key) == [kind |-> kind, client |-> c, path |-> path, key |-> key]
Full == Cardinality(work) >= MAX_QUEUE

(* The task ends: its future is dropped with all it awaits, and the result *)
(* goes to the client, if that still waits.                                *)
End(c, result) ==
    /\ tasks' = tasks \ {c}
    /\ calls' = [calls EXCEPT ![c] = Empty]
    /\ answer' = [answer EXCEPT ![c] = result]

ChosenAlternative(name) == function_map[name].alternatives[1]
KeyOf(name) == <<name, ChosenAlternative(name).engine>>
FunctionCalls(c) ==
    {p \in DOMAIN calls[c] : /\ calls[c][p].stage = "lookup"
                             /\ calls[c][p].name \in DOMAIN function_map
                             /\ function_map[calls[c][p].name].kind # "composition"}

Unknown(c, p) ==
    /\ calls[c][p].stage = "lookup" /\ calls[c][p].name \notin DOMAIN function_map
    /\ End(c, "unknown")
    /\ UNCHANGED <<script, pc, known, files, queue, loop, registry, work>>

(* Mutant: every request polls a future of its own. *)
AnyPoll(key) == TRUE

FirstPoll(key) == loads[key].state = "idle"

(* load_function with caching awaits the shared future, and polls it for   *)
(* the first time if nobody has.  A full work queue is its result then.    *)
LoadCached(c, p) ==
    LET key == KeyOf(calls[c][p].name)
    IN  /\ p \in FunctionCalls(c) /\ script[c].cold
        /\ calls' = [calls EXCEPT ![c][p].stage = "load"]
        /\ \/ ~FirstPoll(key) /\ UNCHANGED <<loads, work>>
           \/ /\ FirstPoll(key) /\ ~Full
              /\ loads' = [loads EXCEPT ![key].state = "queued"]
              /\ work' = work \cup {Job("shared", 0, <<>>, key)}
           \/ /\ FirstPoll(key) /\ Full
              /\ loads' = [loads EXCEPT ![key] = Loaded(<<>>)]
              /\ UNCHANGED work
        /\ UNCHANGED <<client, files, queue, loop, function_map, tasks>>

LoadPrivate(c, p) ==
    LET key == KeyOf(calls[c][p].name)
    IN  /\ p \in FunctionCalls(c) /\ ~script[c].cold
        /\ \/ /\ ~Full
              /\ calls' = [calls EXCEPT ![c][p].stage = "parse"]
              /\ work' = work \cup {Job("parse", c, p, key)}
              /\ UNCHANGED <<answer, tasks>>
           \/ Full /\ End(c, "err") /\ UNCHANGED work
        /\ UNCHANGED <<script, pc, known, files, queue, loop, registry>>

(* The function, once loaded. *)
Ready(c, p) ==
    IF calls[c][p].stage = "load"
    THEN IF loads[KeyOf(calls[c][p].name)].state = "done"
         THEN {loads[KeyOf(calls[c][p].name)].function} ELSE {}
    ELSE IF calls[c][p].stage = "parsed" THEN {calls[c][p].function} ELSE {}

RunOnEngine(c, p) ==
    /\ \E function \in Ready(c, p) :
           \/ /\ function # <<>> /\ ~Full
              /\ calls' = [calls EXCEPT ![c][p].stage = "run", ![c][p].function = function]
              /\ work' = work \cup {Job("run", c, p, KeyOf(calls[c][p].name))}
              /\ UNCHANGED <<answer, tasks>>
           \/ (function = <<>> \/ Full) /\ End(c, "err") /\ UNCHANGED work
    /\ UNCHANGED <<script, pc, known, files, queue, loop, registry>>

(* queue_composition: functions whose inputs stay empty are skipped. *)
Expand(c, p) ==
    LET entry == function_map[calls[c][p].name]
        others == [q \in DOMAIN calls[c] \ {p} |-> calls[c][q]]
    IN  /\ calls[c][p].stage = "lookup" /\ calls[c][p].name \in DOMAIN function_map
        /\ entry.kind = "composition"
        /\ \E started \in SUBSET DOMAIN entry.dependencies :
               calls' = [calls EXCEPT ![c] = WithEntries(others,
                            [q \in {p} \X started |->
                                [name |-> entry.dependencies[q[2]].function,
                                 stage |-> "lookup", function |-> <<>>]])]
        /\ UNCHANGED <<client, files, queue, loop, registry, tasks, work>>

(* output_sets has one place for every id that is returned, and the place  *)
(* of a name that is returned twice can be past its end.                   *)
OutOfBounds(entry) == \E output \in entry.output_map : output[2] >= Cardinality(entry.output_map)
OutputPanics(c, p) ==
    /\ calls[c][p].stage = "lookup" /\ calls[c][p].name \in DOMAIN function_map
    /\ OutOfBounds(function_map[calls[c][p].name])
    /\ End(c, "dropped")
    /\ UNCHANGED <<script, pc, known, files, queue, loop, registry, work>>

Finish(c) ==
    /\ c \in tasks /\ calls[c] = Empty
    /\ End(c, "ok")
    /\ UNCHANGED <<script, pc, known, files, queue, loop, registry, work>>

(* callback.closed() wins the select. *)
Cancel(c) ==
    /\ c \in tasks /\ pc[c] = "gone"
    /\ End(c, "dropped")
    /\ UNCHANGED <<script, pc, known, files, queue, loop, registry, work>>

-----------------------------------------------------------------------------
(* Engines (run_thread).  A job whose task is gone is done for nobody.     *)

(* parse_function; the driver of a system engine does not read the path. *)
Binary(key) ==
    LET alternatives == function_map[key[1]].alternatives
    IN  IF function_map[key[1]].kind = "system" THEN <<"system">>
        ELSE files[(CHOOSE a \in Elements(alternatives) : a.engine = key[2]).path]

Awaited(job) == job.client \in tasks /\ job.path \in DOMAIN calls[job.client]

ParseShared(job) ==
    /\ job.kind = "shared"
    /\ work' = work \ {job}
    /\ loads' = [loads EXCEPT ![job.key] = Loaded(Binary(job.key))]
    /\ UNCHANGED <<client, files, queue, loop, function_map, tasks, calls>>

Parse(job) ==
    /\ job.kind = "parse"
    /\ work' = work \ {job}
    /\ calls' = IF Awaited(job)
                THEN [calls EXCEPT ![job.client][job.path].stage = "parsed",
                                   ![job.client][job.path].function = Binary(job.key)]
                ELSE calls
    /\ UNCHANGED <<client, files, queue, loop, registry, tasks>>

Run(job) ==
    LET c == job.client
    IN  /\ job.kind = "run"
        /\ work' = work \ {job}
        /\ \/ ~Awaited(job) /\ UNCHANGED <<answer, tasks, calls>>
           \/ /\ Awaited(job)
              /\ calls' = [calls EXCEPT ![c] = [p \in DOMAIN @ \ {job.path} |-> @[p]]]
              /\ UNCHANGED <<answer, tasks>>
           \/ Awaited(job) /\ End(c, "err")
        /\ UNCHANGED <<script, pc, known, files, queue, loop, registry>>

-----------------------------------------------------------------------------
Step ==
    \/ \E c \in Clients :
           \/ CreateFile(c) \/ WriteFile(c) \/ OpenLocal(c)
           \/ serve_request(c) \/ register_function(c) \/ register_composition(c)
           \/ Await(c)
    \/ Spawn \/ Register \/ RegisterPanics
    \/ \E c \in tasks : Finish(c) \/ Cancel(c)
    \/ \E c \in tasks : \E p \in DOMAIN calls[c] :
           \/ Unknown(c, p) \/ LoadCached(c, p) \/ LoadPrivate(c, p)
           \/ RunOnEngine(c, p) \/ Expand(c, p) \/ OutputPanics(c, p)
    \/ \E job \in work : ParseShared(job) \/ Parse(job) \/ Run(job)

Next == Step \/ \E c \in Clients : Leave(c)

(* The runtimes poll every task that is ready and the engines take every   *)
(* job; clients need not leave.                                            *)
Spec == Init /\ [][Next]_vars /\ WF_vars(Step)

-----------------------------------------------------------------------------
Over == {"done", "failed", "gone"}
Keys == UNION {{<<n, function_map[n].alternatives[i].engine>> :
                  i \in DOMAIN function_map[n].alternatives} : n \in DOMAIN function_map}

(* Types, and: every alternative has exactly one shared future, the        *)
(* channel is within its capacity, and the engines' queue within its own.  *)
TypeOK ==
    /\ pc \in [Clients -> {"start", "write", "send", "wait"} \cup Over]
    /\ answer \in [Clients -> {"none", "ok", "err", "unknown", "dropped"}]
    /\ known \in [Clients -> BOOLEAN]
    /\ loop \in {"running", "stopped"}
    /\ Len(queue) <= CHANNEL /\ \A i \in DOMAIN queue : queue[i] \in Clients
    /\ DOMAIN loads = Keys
    /\ \A k \in DOMAIN loads : loads[k].state \in {"idle", "queued", "done"}
    /\ tasks \subseteq Clients /\ \A c \in Clients \ tasks : calls[c] = Empty
    /\ Cardinality(work) <= MAX_QUEUE

(* A client that was told that its function or composition is registered   *)
(* finds it there from then on, whatever is registered later.              *)
Confirmed ==
    \A c \in Clients : pc[c] = "done" =>
        /\ script[c].kind = "function" =>
               Alternative(script[c].engine, PathOf(c))
                   \in Elements(function_map[script[c].name].alternatives)
        /\ script[c].kind = "composition" =>
               \A i \in DOMAIN script[c].module : script[c].module[i].name \in DOMAIN function_map

(* Entries stay, with their kind, their metadata and the alternative that  *)
(* queue_function chooses; new alternatives come behind and for new        *)
(* engines, so that what a task read before an await is never wrong.       *)
EntryKept(before, after) ==
    /\ after.kind = before.kind /\ after.metadata = before.metadata
    /\ after.dependencies = before.dependencies
    /\ \A i \in DOMAIN before.alternatives :
           i \in DOMAIN after.alternatives /\ after.alternatives[i] = before.alternatives[i]
    /\ \A i, j \in DOMAIN after.alternatives :
           after.alternatives[i].engine = after.alternatives[j].engine => i = j
RegistryGrows ==
    [][\A n \in DOMAIN function_map :
           n \in DOMAIN function_map' /\ EntryKept(function_map[n], function_map'[n])]_vars

(* A registration that is refused changes nothing, also when a module      *)
(* fails at its second composition.                                        *)
RefusedChangesNothing ==
    [][(\E c \in Clients : answer[c] = "none" /\ answer'[c] = "err" /\ c \notin tasks)
           => function_map' = function_map]_vars

(* No composition reaches itself: a task always comes to an end. *)
DependsOn(n) == {function_map[n].dependencies[d].function : d \in DOMAIN function_map[n].dependencies}
NoCycles ==
    \A S \in SUBSET {n \in DOMAIN function_map : function_map[n].kind = "composition"} :
        S # {} => \E n \in S : DependsOn(n) \cap S = {}

(* What was registered when a request was sent is not unknown later, nor   *)
(* is anything that it is composed of.                                     *)
KnownStaysKnown == \A c \in Clients : answer[c] = "unknown" => ~known[c]

(* Requests that use the cache run the function that the one shared load   *)
(* produced, however the file changed since.                               *)
CachedAgree ==
    \A c \in tasks : \A p \in DOMAIN calls[c] :
        script[c].cold /\ calls[c][p].stage = "run" =>
            loads[KeyOf(calls[c][p].name)] = Loaded(calls[c][p].function)

(* Parameters are numbered from zero and the other returned sets directly  *)
(* after them, as the comment of composition_from_module says; an id below *)
(* the number of parameters is that parameter.                             *)
NumberedAsDescribed ==
    \A n \in {m \in DOMAIN function_map : function_map[m].kind = "composition"} :
        LET entry == function_map[n]
            inputs == Len(entry.metadata.inputs)
            ids == {output[1] : output \in entry.output_map}
            others == {id \in ids : id >= inputs}
        IN  /\ others = inputs .. inputs + Cardinality(others) - 1
            /\ Cardinality(ids) = Cardinality(Elements(entry.metadata.outputs))
            /\ \A output \in entry.output_map : output[1] < inputs =>
                   entry.metadata.outputs[output[2] + 1] = entry.metadata.inputs[output[1] + 1]

(* Every call is over at some time, answered, failed or given up, and      *)
(* leaves no task behind, also when the dispatcher loop has stopped.       *)
Answered == <>[](tasks = {} /\ \A c \in Clients : pc[c] \in Over)
=============================================================================
