---------------------------- MODULE ServerProofs ----------------------------
(***************************************************************************)
(* The calls of the server for any number of clients: what an answer means *)
(* for the registry, while registrations and requests overlap.             *)
(***************************************************************************)
EXTENDS RegistryProofs

(* The solvers are given time, for slow or busy machines. *)
USE SMTT(60), ZenonT(30)

(* An answer says that a registration was refused only if it was.  A       *)
(* module that passes its checks is inserted as a whole.                   *)
LEMMA RefusedIsUnchanged ==
    ASSUME NEW call, Len(call.module) \in Nat, DOMAIN call.module = 1 .. Len(call.module),
           ~Registered(call).ok
    PROVE  Registered(call).map = function_map
  <1> DEFINE module == call.module
             path == IF call.local THEN call.binary[1] ELSE call.name
             alternative == Alternative(call.engine, path)
  <1>1. CASE call.kind = "composition"
    <2>1. Registered(call) = insert_compositions(function_map, module)
      BY <1>1 DEF Registered
    <2>2. CASE \E i \in DOMAIN module : ~ItemValid(function_map, module, i)
      BY <2>1, <2>2 DEF insert_compositions, Refused
    <2>3. CASE \A i \in DOMAIN module : ItemValid(function_map, module, i)
      <3>1. ASSUME NEW i \in Compositions(module)
            PROVE  ~Taken(function_map, module, i)
        <4>1. i \in DOMAIN module /\ i \in Nat /\ module[i].kind = "composition"
          BY DEF Compositions
        <4>2. NameIsFree(function_map, module, i)
          BY <2>3, <4>1 DEF ItemValid, HeaderValid
        <4>3. \A j \in Compositions(module) : j < i => j \in 1 .. i - 1
          BY <4>1 DEF Compositions
        <4> QED BY <4>2, <4>3 DEF NameIsFree, Taken, Compositions
      <3>2. InsertedItems(function_map, module) = Compositions(module)
        BY <3>1 DEF InsertedItems
      <3>3. insert_compositions(function_map, module).ok
        BY <2>3, <3>2, Zenon DEF insert_compositions
      <3> QED BY <2>1, <3>3
    <2> QED BY <2>2, <2>3
  <1>2. CASE call.kind # "composition" /\ path \notin DOMAIN files
    BY <1>2 DEF Registered, Refused
  <1>3. CASE call.kind # "composition" /\ path \in DOMAIN files
    <2>1. Registered(call) = fmap_insert_function(function_map, call.name, "function",
                                                  alternative, call.metadata)
      BY <1>3 DEF Registered
    <2> HIDE DEF alternative
    <2> QED BY <2>1 DEF fmap_insert_function, Accepted, Refused
  <1> QED BY <1>1, <1>2, <1>3

-----------------------------------------------------------------------------
(* Tasks belong to clients that have sent, and have calls of known shape. *)
Early == {"start", "write", "send"}
Names == {"name", "stage", "function"}
TasksInv ==
    /\ DOMAIN pc = Clients /\ DOMAIN answer = Clients
    /\ DOMAIN known = Clients /\ DOMAIN calls = Clients
    /\ tasks \subseteq Clients
    /\ \A c \in Clients : pc[c] \in Early =>
           answer[c] = "none" /\ c \notin tasks /\ \A i \in DOMAIN queue : queue[i] # c
    /\ \A c \in Clients \ tasks : DOMAIN calls[c] = {}
    /\ \A c \in Clients : \A p \in DOMAIN calls[c] : DOMAIN calls[c][p] = Names

(* What was registered when a request was sent is, and so is all that its  *)
(* task has under way.                                                     *)
KnownInv ==
    /\ \A c \in Clients : known[c] => script[c].name \in DOMAIN function_map
    /\ \A c \in Clients : known[c] =>
           \A p \in DOMAIN calls[c] : calls[c][p].name \in DOMAIN function_map
    /\ KnownStaysKnown

(* The effects that steps have on this. *)
Quiet ==
    /\ UNCHANGED <<script, answer, known, queue, function_map, tasks, calls>>
    /\ DOMAIN pc' = Clients
    /\ \A c \in Clients : pc'[c] \in Early => pc[c] \in Early
Relabels ==
    /\ UNCHANGED <<script, pc, answer, known, queue, function_map, tasks>>
    /\ DOMAIN calls' = Clients
    /\ \A c \in Clients : DOMAIN calls'[c] = DOMAIN calls[c]
    /\ \A c \in Clients : \A p \in DOMAIN calls[c] :
           DOMAIN calls'[c][p] = Names /\ calls'[c][p].name = calls[c][p].name
Ends(c, result) ==
    /\ UNCHANGED <<script, pc, known, queue, function_map>>
    /\ c \in tasks /\ End(c, result)

LEMMA QuietKeeps ==
    ASSUME TasksInv, KnownInv, Quiet PROVE TasksInv' /\ KnownInv'
  <1>1. TasksInv'
    BY DEF TasksInv, Quiet
  <1>2. KnownInv'
    BY DEF KnownInv, KnownStaysKnown, Quiet
  <1> QED BY <1>1, <1>2

LEMMA RelabelsKeeps ==
    ASSUME TasksInv, KnownInv, Relabels PROVE TasksInv' /\ KnownInv'
  <1>1. TasksInv'
    BY DEF TasksInv, Relabels
  <1>2. KnownInv'
    BY DEF KnownInv, KnownStaysKnown, Relabels
  <1> QED BY <1>1, <1>2

LEMMA EndsKeeps ==
    ASSUME TasksInv, KnownInv, NEW c, NEW result, Ends(c, result),
           result = "unknown" => ~known[c]
    PROVE  TasksInv' /\ KnownInv'
  <1>1. /\ c \in Clients /\ DOMAIN Empty = {}
        /\ tasks' = tasks \ {c}
        /\ DOMAIN calls' = Clients /\ calls'[c] = Empty
        /\ \A e \in Clients : e # c => calls'[e] = calls[e]
        /\ DOMAIN answer' = Clients /\ answer'[c] = result
        /\ \A e \in Clients : e # c => answer'[e] = answer[e]
    BY DEF TasksInv, Ends, End, Empty
  <1>2. UNCHANGED <<script, pc, known, queue, function_map>> /\ c \in tasks
    BY DEF Ends
  <1>3. TasksInv'
    BY <1>1, <1>2 DEF TasksInv
  <1>4. KnownInv'
    BY <1>1, <1>2 DEF KnownInv, KnownStaysKnown
  <1> QED BY <1>3, <1>4

(* The loop answers clients of which it has a command. *)
Answers ==
    /\ UNCHANGED <<script, pc, known, tasks, calls>>
    /\ DOMAIN function_map \subseteq DOMAIN function_map'
    /\ DOMAIN answer' = Clients
    /\ \A c \in Clients :
           \/ answer'[c] = answer[c]
           \/ answer'[c] \in {"ok", "err", "dropped"} /\ \E i \in DOMAIN queue : queue[i] = c
    /\ \A i \in DOMAIN queue' : \E j \in DOMAIN queue : queue[j] = queue'[i]

LEMMA AnswersKeeps ==
    ASSUME TasksInv, KnownInv, Answers PROVE TasksInv' /\ KnownInv'
  <1>1. TasksInv'
    BY DEF TasksInv, Answers, Early
  <1>2. KnownInv'
    <2>1. \A c \in Clients : known'[c] => script'[c].name \in DOMAIN function_map'
      BY DEF KnownInv, Answers
    <2>2. \A c \in Clients : known'[c] =>
              \A p \in DOMAIN calls'[c] : calls'[c][p].name \in DOMAIN function_map'
      BY DEF KnownInv, Answers
    <2>3. KnownStaysKnown'
      BY DEF KnownInv, KnownStaysKnown, Answers
    <2> QED BY <2>1, <2>2, <2>3 DEF KnownInv
  <1> QED BY <1>1, <1>2

LEMMA QueueShrinks ==
    ASSUME queue \in Seq(Clients), queue # <<>>
    PROVE  /\ Head(queue) \in Clients /\ 1 \in DOMAIN queue /\ Head(queue) = queue[1]
           /\ \A i \in DOMAIN Tail(queue) : i + 1 \in DOMAIN queue /\ Tail(queue)[i] = queue[i + 1]
           /\ \A i \in 2 .. Len(queue) : i \in DOMAIN queue
  OBVIOUS

LEMMA StopAnswers ==
    ASSUME TasksInv, RegistryInv, queue # <<>>, NEW answers, StopLoop(answers),
           \A c \in Clients : answers[c] = answer[c] \/ (c = Head(queue) /\ answers[c] = "dropped"),
           UNCHANGED <<script, pc, known, tasks, calls>>,
           DOMAIN function_map \subseteq DOMAIN function_map'
    PROVE  Answers
  <1>1. queue' = <<>> /\ answer' = Dropped(answers)
    BY DEF StopLoop
  <1>2. /\ Head(queue) = queue[1] /\ 1 \in DOMAIN queue
        /\ \A i \in 2 .. Len(queue) : i \in DOMAIN queue
    BY QueueShrinks DEF RegistryInv
  <1>3. DOMAIN answer' = Clients
    BY <1>1 DEF Dropped
  <1>4. ASSUME NEW c \in Clients
        PROVE  \/ answer'[c] = answer[c]
               \/ answer'[c] \in {"ok", "err", "dropped"} /\ \E i \in DOMAIN queue : queue[i] = c
    <2>1. CASE \E i \in 2 .. Len(queue) : queue[i] = c
      BY <1>1, <1>2, <2>1 DEF Dropped
    <2>2. CASE ~\E i \in 2 .. Len(queue) : queue[i] = c
      <3>1. answer'[c] = answers[c]
        BY <1>1, <2>2 DEF Dropped
      <3> QED BY <1>2, <3>1
    <2> QED BY <2>1, <2>2
  <1>5. \A i \in DOMAIN queue' : \E j \in DOMAIN queue : queue[j] = queue'[i]
    BY <1>1
  <1> QED BY <1>3, <1>4, <1>5 DEF Answers

LEMMA RegisterAnswers == ASSUME TasksInv, RegistryInv, Register PROVE Answers
  <1> DEFINE h == Head(queue)
             said == IF Registered(script[h]).ok THEN "ok" ELSE "err"
  <1>1. queue # <<>> /\ UNCHANGED <<script, pc, known, tasks, calls>>
    BY DEF Register
  <1>2. DOMAIN function_map \subseteq DOMAIN function_map'
    BY RegisterIsGood DEF GoodStep, AllKept
  <1>3. \/ queue' = Tail(queue) /\ answer' = [answer EXCEPT ![h] = said]
        \/ StopLoop(answer)
    BY DEF Register
  <1>4. CASE StopLoop(answer)
    BY <1>1, <1>2, <1>4, StopAnswers
  <1>5. CASE queue' = Tail(queue) /\ answer' = [answer EXCEPT ![h] = said]
    <2>1. /\ h \in Clients /\ 1 \in DOMAIN queue /\ h = queue[1]
          /\ \A i \in DOMAIN Tail(queue) : i + 1 \in DOMAIN queue /\ Tail(queue)[i] = queue[i + 1]
      BY <1>1, QueueShrinks DEF RegistryInv
    <2>2. said \in {"ok", "err", "dropped"}
      OBVIOUS
    <2> HIDE DEF h, said
    <2>3. /\ DOMAIN answer' = Clients /\ answer'[h] = said
          /\ \A c \in Clients : c # h => answer'[c] = answer[c]
      BY <1>5, <2>1 DEF TasksInv
    <2>4. \A i \in DOMAIN queue' : \E j \in DOMAIN queue : queue[j] = queue'[i]
      BY <1>5, <2>1
    <2> QED BY <1>1, <1>2, <2>1, <2>2, <2>3, <2>4 DEF Answers
  <1> QED BY <1>3, <1>4, <1>5

LEMMA PanicAnswers == ASSUME TasksInv, RegistryInv, RegisterPanics PROVE Answers
  <1>1. /\ queue # <<>> /\ UNCHANGED <<script, pc, known, tasks, calls, function_map>>
        /\ StopLoop([answer EXCEPT ![Head(queue)] = "dropped"])
    BY DEF RegisterPanics, registry
  <1> DEFINE answers == [answer EXCEPT ![Head(queue)] = "dropped"]
  <1>2. \A c \in Clients : answers[c] = answer[c] \/ (c = Head(queue) /\ answers[c] = "dropped")
    BY DEF TasksInv
  <1> HIDE DEF answers
  <1>3. StopLoop(answers)
    BY <1>1 DEF answers
  <1> QED BY <1>1, <1>2, <1>3, StopAnswers

(* Sending makes a client late, and notes what it may count on. *)
LEMMA SendKeeps ==
    ASSUME RegistryInv, TasksInv, KnownInv, NEW c \in Clients, Send(c)
    PROVE  TasksInv' /\ KnownInv'
  <1>1. /\ UNCHANGED <<script, answer, function_map, tasks, calls>> /\ pc[c] = "send"
    BY DEF Send, registry
  <1>2. CASE loop = "stopped" /\ pc' = [pc EXCEPT ![c] = "failed"] /\ UNCHANGED <<queue, known>>
    <2>1. Quiet
      BY <1>1, <1>2 DEF Quiet, TasksInv, Early
    <2> QED BY <2>1, QuietKeeps
  <1>3. CASE /\ queue' = Append(queue, c)
             /\ known' = [known EXCEPT ![c] = script[c].name \in DOMAIN function_map]
             /\ pc' = [pc EXCEPT ![c] = "wait"]
    <2>1. /\ answer[c] = "none" /\ c \notin tasks /\ DOMAIN calls[c] = {}
      BY <1>1 DEF TasksInv, Early
    <2>2. /\ DOMAIN pc' = Clients /\ pc'[c] = "wait"
          /\ \A e \in Clients : e # c => pc'[e] = pc[e]
      BY <1>3 DEF TasksInv
    <2>3. /\ DOMAIN known' = Clients /\ known'[c] = (script[c].name \in DOMAIN function_map)
          /\ \A e \in Clients : e # c => known'[e] = known[e]
      BY <1>3 DEF TasksInv
    <2>4. \A i \in DOMAIN queue' : queue'[i] = c \/ (i \in DOMAIN queue /\ queue'[i] = queue[i])
      BY <1>3 DEF RegistryInv
    <2>5. \A e \in Clients : pc'[e] \in Early =>
              e # c /\ pc[e] \in Early
      BY <2>2 DEF Early
    <2>6. \A e \in Clients : pc'[e] \in Early =>
              answer'[e] = "none" /\ e \notin tasks' /\ \A i \in DOMAIN queue' : queue'[i] # e
      BY <1>1, <2>4, <2>5 DEF TasksInv
    <2>7. TasksInv'
      BY <1>1, <2>2, <2>3, <2>6 DEF TasksInv
    <2>8. KnownInv'
      BY <1>1, <2>1, <2>3, ZenonT(40) DEF KnownInv, KnownStaysKnown
    <2> QED BY <2>7, <2>8
  <1> QED BY <1>2, <1>3 DEF Send

LEMMA SpawnKeeps ==
    ASSUME RegistryInv, TasksInv, KnownInv, Spawn
    PROVE  TasksInv' /\ KnownInv'
  <1> DEFINE h == Head(queue)
             call == [name |-> script[h].name, stage |-> "lookup", function |-> <<>>]
  <1>1. /\ queue # <<>> /\ UNCHANGED <<script, pc, answer, known, function_map>>
        /\ queue' = Tail(queue) /\ tasks' = tasks \cup {h}
        /\ calls' = [calls EXCEPT ![h] = [p \in {<<>>} |-> call]]
    BY Zenon DEF Spawn, client, registry
  <1>2. /\ h \in Clients /\ 1 \in DOMAIN queue /\ h = queue[1]
        /\ \A i \in DOMAIN Tail(queue) : i + 1 \in DOMAIN queue /\ Tail(queue)[i] = queue[i + 1]
    BY <1>1, QueueShrinks DEF RegistryInv
  <1>3. call.name = script[h].name /\ DOMAIN call = Names
    BY DEF Names
  <1> HIDE DEF h, call
  <1>4. /\ DOMAIN calls' = Clients
        /\ DOMAIN calls'[h] = {<<>>} /\ calls'[h][<<>>] = call
        /\ \A c \in Clients : c # h => calls'[c] = calls[c]
    BY <1>1, <1>2 DEF TasksInv
  <1>5. pc[h] \notin Early
    BY <1>2 DEF TasksInv
  <1>6. TasksInv'
    BY <1>1, <1>2, <1>3, <1>4, <1>5 DEF TasksInv
  <1>7. KnownInv'
    BY <1>1, <1>3, <1>4 DEF KnownInv, KnownStaysKnown
  <1> QED BY <1>6, <1>7

(* A call changes its stage. *)
LEMMA StageRelabels ==
    ASSUME TasksInv, NEW c \in Clients, NEW p \in DOMAIN calls[c], NEW stage, NEW function,
           \/ calls' = [calls EXCEPT ![c][p].stage = stage]
           \/ calls' = [calls EXCEPT ![c][p].stage = stage, ![c][p].function = function],
           UNCHANGED <<script, pc, answer, known, queue, function_map, tasks>>
    PROVE  Relabels
  <1>1. DOMAIN calls = Clients /\ DOMAIN calls[c][p] = Names
    BY DEF TasksInv
  <1>2. DOMAIN calls' = Clients /\ \A e \in Clients : DOMAIN calls'[e] = DOMAIN calls[e]
    BY <1>1
  <1>3. ASSUME NEW e \in Clients, NEW q \in DOMAIN calls[e]
        PROVE  DOMAIN calls'[e][q] = Names /\ calls'[e][q].name = calls[e][q].name
    <2>1. CASE e = c /\ q = p
      BY <1>1, <2>1 DEF Names
    <2>2. CASE e # c \/ q # p
      <3>1. calls'[e][q] = calls[e][q]
        BY <1>1, <2>2
      <3> QED BY <3>1 DEF TasksInv
    <2> QED BY <2>1, <2>2
  <1> QED BY <1>2, <1>3 DEF Relabels

(* The calls of one task change: those that stay are as they were, and new *)
(* ones are of names that are known if those of the task were.             *)
LEMMA CallsKeep ==
    ASSUME TasksInv, KnownInv, NEW c \in tasks, NEW changed, calls' = [calls EXCEPT ![c] = changed],
           UNCHANGED <<script, pc, answer, known, queue, function_map, tasks>>,
           \A p \in DOMAIN changed :
               /\ DOMAIN changed[p] = Names
               /\ known[c] => changed[p].name \in DOMAIN function_map
    PROVE  TasksInv' /\ KnownInv'
  <1>1. /\ c \in Clients /\ DOMAIN calls' = Clients /\ calls'[c] = changed
        /\ \A e \in Clients : e # c => calls'[e] = calls[e]
    BY DEF TasksInv
  <1>2. TasksInv'
    BY <1>1 DEF TasksInv
  <1>3. KnownInv'
    BY <1>1 DEF KnownInv, KnownStaysKnown
  <1> QED BY <1>2, <1>3

LEMMA ExpandKeeps ==
    ASSUME TasksInv, KnownInv, ClosedInv, NEW c \in tasks, NEW p \in DOMAIN calls[c], Expand(c, p)
    PROVE  TasksInv' /\ KnownInv'
  <1> DEFINE entry == function_map[calls[c][p].name]
             others == [q \in DOMAIN calls[c] \ {p} |-> calls[c][q]]
             Starting(q) == [name |-> entry.dependencies[q[2]].function,
                             stage |-> "lookup", function |-> <<>>]
  <1>1. /\ UNCHANGED <<script, pc, answer, known, queue, function_map, tasks>>
        /\ calls[c][p].name \in DOMAIN function_map
    BY Zenon DEF Expand, client, registry
  <1>2. PICK started \in SUBSET DOMAIN entry.dependencies :
            calls' = [calls EXCEPT ![c] = WithEntries(others, [q \in {p} \X started |-> Starting(q)])]
    BY ZenonT(60) DEF Expand
  <1> DEFINE new == [q \in {p} \X started |-> Starting(q)]
             changed == WithEntries(others, new)
  <1>3. c \in Clients
    BY DEF TasksInv
  <1>4. ASSUME NEW q \in DOMAIN new
        PROVE  DOMAIN new[q] = Names /\ new[q].name \in DOMAIN function_map
    <2>1. q[2] \in DOMAIN entry.dependencies /\ new[q] = Starting(q)
      BY <1>2, ZenonT(40)
    <2>2. entry.dependencies[q[2]].function \in DOMAIN function_map
      BY <1>1, <2>1, ZenonT(60) DEF ClosedInv
    <2> QED BY <2>1, <2>2, ZenonT(40) DEF Names
  <1>5. ASSUME NEW q \in DOMAIN others
        PROVE  /\ DOMAIN others[q] = Names
               /\ known[c] => others[q].name \in DOMAIN function_map
    BY <1>3 DEF TasksInv, KnownInv
  <1> HIDE DEF new, others
  <1>6. \A q \in DOMAIN changed :
            /\ DOMAIN changed[q] = Names
            /\ known[c] => changed[q].name \in DOMAIN function_map
    BY <1>4, <1>5 DEF WithEntries
  <1>7. calls' = [calls EXCEPT ![c] = changed]
    BY <1>2, ZenonT(60) DEF new
  <1> HIDE DEF changed
  <1> QED BY <1>1, <1>6, <1>7, CallsKeep, ZenonT(60)

LEMMA RunKeeps ==
    ASSUME TasksInv, KnownInv, NEW job, Run(job)
    PROVE  TasksInv' /\ KnownInv'
  <1> DEFINE c == job.client
             changed == [p \in DOMAIN calls[c] \ {job.path} |-> calls[c][p]]
  <1>1. UNCHANGED <<script, pc, known, queue, function_map>>
    BY DEF Run, registry
  <1>2. CASE UNCHANGED <<answer, tasks, calls>>
    <2>1. Quiet
      BY <1>1, <1>2 DEF Quiet, TasksInv
    <2> QED BY <2>1, QuietKeeps
  <1>3. CASE Awaited(job) /\ calls' = [calls EXCEPT ![c] = changed] /\ UNCHANGED <<answer, tasks>>
    <2>1. c \in tasks /\ c \in Clients
      BY <1>3 DEF Awaited, TasksInv
    <2>2. \A p \in DOMAIN changed :
              /\ DOMAIN changed[p] = Names
              /\ known[c] => changed[p].name \in DOMAIN function_map
      BY <2>1 DEF TasksInv, KnownInv
    <2> HIDE DEF changed
    <2> QED BY <1>1, <1>3, <2>1, <2>2, CallsKeep, ZenonT(60)
  <1>4. CASE Awaited(job) /\ End(c, "err")
    <2>1. Ends(c, "err")
      BY <1>1, <1>4 DEF Ends, Awaited
    <2> QED BY <2>1, EndsKeeps
  <1>5. DOMAIN calls = Clients
    BY DEF TasksInv
  <1>6. Awaited(job) => c \in Clients
    BY DEF Awaited, TasksInv
  <1> QED BY <1>2, <1>3, <1>4, <1>5, <1>6 DEF Run

LEMMA KnownInvNext ==
    ASSUME RegistryInv, ClosedInv, TasksInv, KnownInv, [Next]_vars
    PROVE  TasksInv' /\ KnownInv'
  <1>1. CASE UNCHANGED vars
    <2>1. Quiet
      BY <1>1 DEF vars, Quiet, TasksInv
    <2> QED BY <2>1, QuietKeeps
  <1>2. ASSUME NEW c \in Clients, CreateFile(c) \/ WriteFile(c) \/ OpenLocal(c) \/ Await(c) \/ Leave(c)
        PROVE  TasksInv' /\ KnownInv'
    <2>1. UNCHANGED <<script, answer, known, queue, function_map, tasks, calls>>
      BY <1>2 DEF CreateFile, WriteFile, OpenLocal, Await, Leave, registry
    <2>2. /\ DOMAIN pc' = Clients /\ \A e \in Clients : e # c => pc'[e] = pc[e]
          /\ pc'[c] \in Early => pc[c] \in Early
      <3>1. CASE CreateFile(c)
        BY <3>1 DEF CreateFile, Early, TasksInv
      <3>2. CASE WriteFile(c)
        BY <3>2 DEF WriteFile, Early, TasksInv
      <3>3. CASE OpenLocal(c)
        BY <3>3 DEF OpenLocal, Early, TasksInv
      <3>4. CASE Await(c)
        BY <3>4 DEF Await, Early, TasksInv
      <3>5. CASE Leave(c)
        BY <3>5 DEF Leave, Early, TasksInv
      <3> QED BY <1>2, <3>1, <3>2, <3>3, <3>4, <3>5
    <2>3. Quiet
      BY <2>1, <2>2 DEF Quiet
    <2> QED BY <2>3, QuietKeeps
  <1>3. ASSUME NEW c \in Clients, serve_request(c) \/ register_function(c) \/ register_composition(c)
        PROVE  TasksInv' /\ KnownInv'
    BY <1>3, SendKeeps DEF serve_request, register_function, register_composition
  <1>4. CASE Spawn
    BY <1>4, SpawnKeeps
  <1>5. CASE Register \/ RegisterPanics
    BY <1>5, RegisterAnswers, PanicAnswers, AnswersKeeps
  <1>6. ASSUME NEW c \in tasks, Finish(c) \/ Cancel(c)
        PROVE  TasksInv' /\ KnownInv'
    <2>1. Ends(c, "ok") \/ Ends(c, "dropped")
      BY <1>6 DEF Finish, Cancel, Ends, registry
    <2> QED BY <2>1, EndsKeeps
  <1>7. ASSUME NEW c \in tasks, NEW p \in DOMAIN calls[c],
               \/ Unknown(c, p) \/ LoadCached(c, p) \/ LoadPrivate(c, p)
               \/ RunOnEngine(c, p) \/ Expand(c, p) \/ OutputPanics(c, p)
        PROVE  TasksInv' /\ KnownInv'
    <2>0. c \in Clients
      BY DEF TasksInv
    <2>1. CASE Unknown(c, p)
      <3>1. Ends(c, "unknown")
        BY <2>1 DEF Unknown, Ends, registry
      <3>2. ~known[c]
        BY <2>0, <2>1 DEF Unknown, KnownInv
      <3> QED BY <3>1, <3>2, EndsKeeps
    <2>2. CASE LoadCached(c, p)
      <3>1. Relabels
        BY <2>0, <2>2, StageRelabels, ZenonT(60) DEF LoadCached, client
      <3> QED BY <3>1, RelabelsKeeps
    <2>3. CASE LoadPrivate(c, p)
      <3>1. Relabels \/ Ends(c, "err")
        BY <2>0, <2>3, StageRelabels, ZenonT(60) DEF LoadPrivate, Ends, registry
      <3> QED BY <3>1, RelabelsKeeps, EndsKeeps
    <2>4. CASE RunOnEngine(c, p)
      <3>1. Relabels \/ Ends(c, "err")
        BY <2>0, <2>4, StageRelabels DEF RunOnEngine, Ends, registry
      <3> QED BY <3>1, RelabelsKeeps, EndsKeeps
    <2>5. CASE Expand(c, p)
      BY <2>5, ExpandKeeps
    <2>6. CASE OutputPanics(c, p)
      <3>1. Ends(c, "dropped")
        BY <2>6 DEF OutputPanics, Ends, registry
      <3> QED BY <3>1, EndsKeeps
    <2> QED BY <1>7, <2>1, <2>2, <2>3, <2>4, <2>5, <2>6
  <1>8. ASSUME NEW job \in work, ParseShared(job) \/ Parse(job) \/ Run(job)
        PROVE  TasksInv' /\ KnownInv'
    <2>1. CASE ParseShared(job)
      <3>1. Quiet
        BY <2>1 DEF ParseShared, Quiet, TasksInv, client
      <3> QED BY <3>1, QuietKeeps
    <2>2. CASE Parse(job)
      <3>1. CASE Awaited(job)
        <4>1. job.client \in Clients /\ job.path \in DOMAIN calls[job.client]
          BY <3>1 DEF Awaited, TasksInv
        <4>2. Relabels
          BY <2>2, <3>1, <4>1, StageRelabels, ZenonT(60) DEF Parse, client, registry
        <4> QED BY <4>2, RelabelsKeeps
      <3>2. CASE ~Awaited(job)
        <4>1. Quiet
          BY <2>2, <3>2 DEF Parse, Quiet, TasksInv, client, registry
        <4> QED BY <4>1, QuietKeeps
      <3> QED BY <3>1, <3>2
    <2>3. CASE Run(job)
      BY <2>3, RunKeeps
    <2> QED BY <1>8, <2>1, <2>2, <2>3
  <1> QED BY <1>1, <1>2, <1>3, <1>4, <1>5, <1>6, <1>7, <1>8 DEF Next, Step

LEMMA KnownInvInit == ASSUME Init PROVE TasksInv /\ KnownInv
  <1>1. TasksInv
    BY DEF Init, TasksInv, Empty
  <1>2. KnownInv
    BY DEF Init, KnownInv, KnownStaysKnown
  <1> QED BY <1>1, <1>2

-----------------------------------------------------------------------------
(* The four invariants hold together. *)
IInv == RegistryInv /\ ClosedInv /\ TasksInv /\ KnownInv

LEMMA IInvHolds == Spec => []IInv
  <1>1. Init => IInv
    BY RegistryInvInit, KnownInvInit DEF IInv
  <1>2. IInv /\ [Next]_vars => IInv'
    BY RegistryInvNext, ClosedInvNext, KnownInvNext DEF IInv
  <1> QED BY <1>1, <1>2, PTL DEF Spec

(* A request for what was registered when it was sent is never answered as *)
(* unknown, however deep the composition in which the name occurs.         *)
THEOREM NothingKnownIsLost == Spec => []KnownStaysKnown
  <1>1. IInv => KnownStaysKnown
    BY DEF IInv, KnownInv
  <1> QED BY <1>1, IInvHolds, PTL

(* A client that is told of an error finds the registry unchanged. *)
THEOREM RefusalsChangeNothing == Spec => RefusedChangesNothing
  <1> DEFINE A == (\E c \in Clients : answer[c] = "none" /\ answer'[c] = "err" /\ c \notin tasks)
                      => function_map' = function_map
  <1>1. ASSUME IInv, [Next]_vars
        PROVE  A
    <2> SUFFICES ASSUME NEW c \in Clients, answer[c] = "none", answer'[c] = "err", Register
                 PROVE  function_map' = function_map
      BY <1>1, StepsOfTheRegistry DEF IInv
    <2> DEFINE h == Head(queue)
               result == Registered(script[h])
    <2>1. RegistryInv /\ TasksInv /\ queue # <<>> /\ h \in Clients
      BY <1>1, QueueShrinks DEF IInv, RegistryInv, Register
    <2>2. Len(script[h].module) \in Nat /\ DOMAIN script[h].module = 1 .. Len(script[h].module)
      BY <2>1, ScriptsTyped DEF RegistryInv
    <2>3. function_map' = result.map
      BY DEF Register
    <2>4. \/ answer' = [answer EXCEPT ![h] = IF result.ok THEN "ok" ELSE "err"]
          \/ answer' = Dropped(answer)
      BY DEF Register, StopLoop
    <2>5. ~result.ok
      BY <2>1, <2>4 DEF TasksInv, Dropped
    <2> QED BY <2>2, <2>3, <2>5, RefusedIsUnchanged
  <1>2. IInv /\ [Next]_vars => [A]_vars
    BY <1>1
  <1> QED BY <1>2, IInvHolds, PTL DEF Spec, RefusedChangesNothing

-----------------------------------------------------------------------------
(* What Ok promises of a registration. *)
Promised(call, path, fmap) ==
    /\ call.kind = "function" =>
           /\ call.name \in DOMAIN fmap
           /\ Alternative(call.engine, path) \in Elements(fmap[call.name].alternatives)
    /\ call.kind = "composition" =>
           \A i \in DOMAIN call.module : call.module[i].name \in DOMAIN fmap
ConfirmedInv ==
    /\ \A c \in tasks : script[c].kind = "request"
    /\ \A c \in Clients :
           pc[c] = "done" \/ answer[c] = "ok" => Promised(script[c], PathOf(c), function_map)

LEMMA PromisesAreKept ==
    ASSUME NEW fmap, NEW new, AllKept(fmap, new), NEW call, NEW path, Promised(call, path, fmap)
    PROVE  Promised(call, path, new)
  <1>1. CASE call.kind = "function"
    <2>1. call.name \in DOMAIN new /\ EntryKept(fmap[call.name], new[call.name])
      BY <1>1 DEF Promised, AllKept
    <2>2. Alternative(call.engine, path) \in Elements(new[call.name].alternatives)
      BY <1>1, <2>1 DEF Promised, EntryKept, Elements
    <2> QED BY <1>1, <2>1, <2>2 DEF Promised
  <1>2. CASE call.kind # "function"
    BY <1>2 DEF Promised, AllKept
  <1> QED BY <1>1, <1>2

LEMMA AcceptedIsPromised ==
    ASSUME RegistryInv, NEW c \in Clients, Registered(script[c]).ok
    PROVE  Promised(script[c], PathOf(c), Registered(script[c]).map)
  <1> DEFINE call == script[c]
             module == call.module
             alternative == Alternative(call.engine, PathOf(c))
  <1>1. CASE call.kind = "composition"
    <2>1. Registered(call) = insert_compositions(function_map, module)
      BY <1>1 DEF Registered
    <2>2. \A i \in DOMAIN module : ItemValid(function_map, module, i)
      BY <2>1 DEF insert_compositions, Refused
    <2>3. /\ InsertedItems(function_map, module) = Compositions(module)
          /\ Registered(call).map = WithCompositions(function_map, module)
      <3> DEFINE all == InsertedItems(function_map, module) = Compositions(module)
                 map == WithCompositions(function_map, module)
      <3>1. Registered(call) = [ok |-> all, map |-> map]
        BY <2>1, <2>2 DEF insert_compositions
      <3> HIDE DEF all, map
      <3>2. Registered(call).ok = all /\ Registered(call).map = map
        BY <3>1
      <3> QED BY <3>2, ZenonT(60) DEF all, map
    <2>4. DOMAIN Registered(call).map = NewNames(function_map, module) \cup DOMAIN function_map
      BY <2>3 DEF WithCompositions
    <2>5. ASSUME NEW i \in DOMAIN module
          PROVE  module[i].name \in DOMAIN Registered(call).map
      <3>1. CASE module[i].kind = "declaration"
        <4>1. module[i].name \in DOMAIN function_map
          BY <2>2, <3>1 DEF ItemValid, HeaderValid, DeclarationValid
        <4> QED BY <2>4, <4>1
      <3>2. CASE module[i].kind = "composition"
        <4>1. module[i].name \in NewNames(function_map, module)
          BY <2>3, <3>2 DEF NewNames, Compositions
        <4> QED BY <2>4, <4>1
      <3> QED BY <3>1, <3>2, ScriptsTyped DEF RegistryInv
    <2> QED BY <1>1, <2>5 DEF Promised
  <1>2. CASE call.kind = "function"
    <2>1. /\ PathOf(c) \in DOMAIN files
          /\ Registered(call) = fmap_insert_function(function_map, call.name, "function",
                                                     alternative, call.metadata)
      BY <1>2 DEF Registered, PathOf, Refused
    <2> DEFINE key == call.name
               entry == FunctionEntry("function", alternative, call.metadata)
               longer == Extended(function_map[key], alternative)
    <2>2. CASE key \notin DOMAIN function_map
      <3>1. Registered(call).map = WithEntries(function_map, OnlyEntry(key, entry))
        BY <2>1, <2>2 DEF fmap_insert_function, Accepted
      <3>2. key \in DOMAIN OnlyEntry(key, entry) /\ OnlyEntry(key, entry)[key] = entry
        BY DEF OnlyEntry
      <3>3. alternative \in Elements(entry.alternatives)
        BY DEF FunctionEntry, Elements
      <3> HIDE DEF alternative, entry
      <3>4. key \in DOMAIN Registered(call).map /\ Registered(call).map[key] = entry
        BY <3>1, <3>2, WithEntriesAdds
      <3> QED BY <1>2, <3>3, <3>4 DEF Promised, alternative
    <2>3. CASE key \in DOMAIN function_map
      <3>1. /\ MayExtend(function_map[key], "function", alternative)
            /\ Registered(call).map = [function_map EXCEPT ![key] = longer]
        BY <2>1, <2>3 DEF fmap_insert_function, Accepted, Refused
      <3>2. Shaped(function_map[key])
        BY <2>3 DEF RegistryInv
      <3>3. longer.alternatives = Append(function_map[key].alternatives, alternative)
        BY <3>2, Zenon DEF Shaped, Extended
      <3>4. alternative \in Elements(longer.alternatives)
        <4> DEFINE old == function_map[key].alternatives
        <4>1. old \in Seq(Alternatives) /\ alternative \in Alternatives
          BY <3>2, ZenonT(40) DEF Shaped, Alternatives
        <4>2. longer.alternatives = Append(old, alternative)
          BY <3>3, Zenon
        <4> HIDE DEF alternative, longer, old
        <4>3. /\ Len(old) + 1 \in DOMAIN Append(old, alternative)
              /\ Append(old, alternative)[Len(old) + 1] = alternative
          BY <4>1
        <4> QED BY <4>2, <4>3 DEF Elements
      <3> HIDE DEF alternative, longer
      <3>5. key \in DOMAIN Registered(call).map /\ Registered(call).map[key] = longer
        BY <2>3, <3>1
      <3> QED BY <1>2, <3>4, <3>5 DEF Promised, alternative
    <2> QED BY <2>2, <2>3
  <1>3. CASE call.kind \notin {"composition", "function"}
    BY <1>3 DEF Promised
  <1> QED BY <1>1, <1>2, <1>3

(* Who may be told Ok: requests, by their task, and what was accepted. *)
TaskSteps == \A c \in tasks' : c \in tasks \/ script[c].kind = "request"
DoneSteps == \A c \in Clients : pc'[c] = "done" => pc[c] = "done" \/ answer[c] = "ok"
OkSteps ==
    \A c \in Clients : answer'[c] = "ok" =>
        \/ answer[c] = "ok" \/ c \in tasks
        \/ Register /\ c = Head(queue) /\ Registered(script[c]).ok
FairSteps == TaskSteps /\ DoneSteps /\ OkSteps

LEMMA EndIsFair ==
    ASSUME TasksInv, NEW c \in tasks, NEW result, End(c, result), pc' = pc
    PROVE  FairSteps
  BY DEF TasksInv, End, FairSteps, TaskSteps, DoneSteps, OkSteps

LEMMA UnansweredIsFair ==
    ASSUME UNCHANGED <<tasks, answer>>, DoneSteps PROVE FairSteps
  BY DEF FairSteps, TaskSteps, OkSteps

LEMMA NextIsFair ==
    ASSUME RegistryInv, TasksInv, [Next]_vars
    PROVE  FairSteps
  <1>1. CASE UNCHANGED vars
    BY <1>1, UnansweredIsFair DEF vars, DoneSteps
  <1>2. ASSUME NEW c \in Clients, CreateFile(c) \/ WriteFile(c) \/ OpenLocal(c) \/ Await(c) \/ Leave(c)
        PROVE  FairSteps
    <2>1. UNCHANGED <<tasks, answer>>
      BY <1>2 DEF CreateFile, WriteFile, OpenLocal, Await, Leave
    <2>2. /\ \A e \in Clients : e # c => pc'[e] = pc[e]
          /\ pc'[c] = "done" => answer[c] = "ok"
      <3>1. CASE CreateFile(c)
        BY <3>1 DEF CreateFile, TasksInv
      <3>2. CASE WriteFile(c)
        BY <3>2 DEF WriteFile, AfterFile, TasksInv
      <3>3. CASE OpenLocal(c)
        BY <3>3 DEF OpenLocal, AfterFile, TasksInv
      <3>4. CASE Await(c)
        BY <3>4 DEF Await, TasksInv
      <3>5. CASE Leave(c)
        BY <3>5 DEF Leave, TasksInv
      <3> QED BY <1>2, <3>1, <3>2, <3>3, <3>4, <3>5
    <2> QED BY <2>1, <2>2, UnansweredIsFair DEF DoneSteps
  <1>3. ASSUME NEW c \in Clients, serve_request(c) \/ register_function(c) \/ register_composition(c)
        PROVE  FairSteps
    <2>1. Send(c)
      BY <1>3 DEF serve_request, register_function, register_composition
    <2>2. UNCHANGED <<tasks, answer>> /\ DoneSteps
      BY <2>1 DEF Send, DoneSteps, TasksInv
    <2> QED BY <2>2, UnansweredIsFair
  <1>4. CASE Spawn
    <2>1. /\ tasks' = tasks \cup {Head(queue)} /\ script[Head(queue)].kind = "request"
          /\ UNCHANGED <<pc, answer>>
      BY <1>4 DEF Spawn, client
    <2> QED BY <2>1 DEF FairSteps, TaskSteps, DoneSteps, OkSteps
  <1>5. CASE Register
    <2> DEFINE h == Head(queue)
               ok == Registered(script[h]).ok
    <2>1. /\ UNCHANGED <<pc, tasks>>
          /\ \/ answer' = [answer EXCEPT ![h] = IF ok THEN "ok" ELSE "err"]
             \/ answer' = Dropped(answer)
      BY <1>5 DEF Register, StopLoop
    <2> HIDE DEF ok
    <2>2. \A c \in Clients : answer'[c] = "ok" => answer[c] = "ok" \/ (c = h /\ ok)
      BY <2>1 DEF TasksInv, Dropped
    <2>3. OkSteps
      BY <1>5, <2>2 DEF OkSteps, ok
    <2> QED BY <2>1, <2>3 DEF FairSteps, TaskSteps, DoneSteps
  <1>6. CASE RegisterPanics
    <2>1. UNCHANGED <<pc, tasks>> /\ answer' = Dropped([answer EXCEPT ![Head(queue)] = "dropped"])
      BY <1>6 DEF RegisterPanics, StopLoop
    <2>2. \A c \in Clients : answer'[c] = "ok" => answer[c] = "ok"
      BY <2>1 DEF TasksInv, Dropped
    <2> QED BY <2>1, <2>2, ZenonT(60) DEF FairSteps, TaskSteps, DoneSteps, OkSteps
  <1>7. ASSUME NEW c \in tasks, Finish(c) \/ Cancel(c)
        PROVE  FairSteps
    BY <1>7, EndIsFair DEF Finish, Cancel
  <1>8. ASSUME NEW c \in tasks, NEW p \in DOMAIN calls[c],
               \/ Unknown(c, p) \/ LoadCached(c, p) \/ LoadPrivate(c, p)
               \/ RunOnEngine(c, p) \/ Expand(c, p) \/ OutputPanics(c, p)
        PROVE  FairSteps
    <2>1. pc' = pc /\ (UNCHANGED <<tasks, answer>> \/ \E result : End(c, result))
      BY <1>8, ZenonT(60) DEF Unknown, LoadCached, LoadPrivate, RunOnEngine, Expand, OutputPanics, client
    <2> QED BY <2>1, EndIsFair, UnansweredIsFair DEF DoneSteps
  <1>9. ASSUME NEW job \in work, ParseShared(job) \/ Parse(job) \/ Run(job)
        PROVE  FairSteps
    <2>1. /\ pc' = pc
          /\ UNCHANGED <<tasks, answer>> \/ (job.client \in tasks /\ End(job.client, "err"))
      BY <1>9 DEF ParseShared, Parse, Run, Awaited, client
    <2> QED BY <2>1, EndIsFair, UnansweredIsFair DEF DoneSteps
  <1> QED BY <1>1, <1>2, <1>3, <1>4, <1>5, <1>6, <1>7, <1>8, <1>9 DEF Next, Step

(* A confirmed registration is there for ever. *)
THEOREM ConfirmedStays == Spec => []Confirmed
  <1>1. Init => ConfirmedInv
    BY DEF Init, ConfirmedInv
  <1>2. ASSUME IInv, ConfirmedInv, [Next]_vars
        PROVE  ConfirmedInv'
    <2>1. /\ RegistryInv /\ TasksInv /\ FairSteps /\ script' = script
          /\ AllKept(function_map, function_map')
      BY <1>2, NextIsFair, RegistryInvNext, StepsOfTheRegistry DEF IInv, GoodStep
    <2>2. \A c \in tasks' : script'[c].kind = "request"
      BY <1>2, <2>1 DEF FairSteps, TaskSteps, ConfirmedInv
    <2>3. ASSUME NEW c \in Clients, pc'[c] = "done" \/ answer'[c] = "ok"
          PROVE  Promised(script[c], PathOf(c), function_map')
      <3>1. CASE pc[c] = "done" \/ answer[c] = "ok"
        <4>1. Promised(script[c], PathOf(c), function_map)
          BY <1>2, <3>1 DEF ConfirmedInv
        <4> QED BY <2>1, <4>1, PromisesAreKept
      <3>2. CASE c \in tasks
        BY <1>2, <3>2 DEF ConfirmedInv, Promised
      <3>3. CASE Register /\ c = Head(queue) /\ Registered(script[c]).ok
        <4>1. function_map' = Registered(script[c]).map
          BY <3>3 DEF Register
        <4> QED BY <2>1, <3>3, <4>1, AcceptedIsPromised
      <3> QED BY <2>1, <2>3, <3>1, <3>2, <3>3 DEF FairSteps, DoneSteps, OkSteps
    <2>4. \A c \in Clients : PathOf(c)' = PathOf(c)
      BY <2>1 DEF PathOf
    <2> QED BY <2>1, <2>2, <2>3, <2>4 DEF ConfirmedInv
  <1>3. ConfirmedInv => Confirmed
    BY DEF ConfirmedInv, Confirmed, Promised
  <1> QED BY <1>1, <1>2, <1>3, IInvHolds, PTL DEF Spec

-----------------------------------------------------------------------------
(* The shared futures.  Every alternative has one; a job of the engines    *)
(* that will resolve one is the only job that does; and a call that awaits *)
(* or has used one is of a function with an alternative to choose.         *)
LoadsInv ==
    /\ DOMAIN loads = Keys
    /\ \A k \in DOMAIN loads :
           /\ loads[k] = [state |-> loads[k].state, function |-> loads[k].function]
           /\ loads[k].state \in {"idle", "queued", "done"}
GoodJob(job, futures) ==
    /\ job.kind = "shared" =>
           /\ job = Job("shared", 0, <<>>, job.key)
           /\ job.key \in DOMAIN futures /\ futures[job.key].state = "queued"
    /\ job.kind = "parse" => ~script[job.client].cold
FirstKey(name, fmap) == <<name, fmap[name].alternatives[1].engine>>
GoodCall(call, cold, fmap, futures) ==
    cold => /\ call.stage # "parsed"
            /\ call.stage \in {"load", "run"} =>
                   call.name \in DOMAIN fmap /\ 1 \in DOMAIN fmap[call.name].alternatives
            /\ call.stage = "run" => futures[FirstKey(call.name, fmap)] = Loaded(call.function)
JobsInv == \A job \in work : GoodJob(job, loads)
CallsInv ==
    \A c \in Clients : \A p \in DOMAIN calls[c] :
        GoodCall(calls[c][p], script[c].cold, function_map, loads)
CacheInv == LoadsInv /\ JobsInv /\ CallsInv

(* The choice of an alternative is one of the keys. *)
LEMMA FirstKeyIsKey ==
    ASSUME NEW n \in DOMAIN function_map, 1 \in DOMAIN function_map[n].alternatives
    PROVE  FirstKey(n, function_map) \in Keys
  <1> DEFINE KeysOfName(m) == {<<m, function_map[m].alternatives[i].engine>> :
                                   i \in DOMAIN function_map[m].alternatives}
  <1>1. Keys = UNION {KeysOfName(m) : m \in DOMAIN function_map}
    BY DEF Keys
  <1>2. FirstKey(n, function_map) \in KeysOfName(n)
    BY DEF FirstKey
  <1> HIDE DEF KeysOfName
  <1> QED BY <1>1, <1>2

(* Futures that are resolved stay as they are. *)
Settled(before, after) ==
    \A k \in DOMAIN before :
        k \in DOMAIN after /\ (before[k].state = "done" => after[k] = before[k])

LEMMA CallStaysGood ==
    ASSUME NEW call, NEW cold, NEW fmap, NEW new, NEW before, NEW after,
           GoodCall(call, cold, fmap, before), AllKept(fmap, new), Settled(before, after),
           \A n \in DOMAIN fmap : 1 \in DOMAIN fmap[n].alternatives =>
               FirstKey(n, fmap) \in DOMAIN before
    PROVE  GoodCall(call, cold, new, after)
  <1> DEFINE n == call.name
  <1>1. CASE cold /\ call.stage \in {"load", "run"}
    <2>1. n \in DOMAIN fmap /\ 1 \in DOMAIN fmap[n].alternatives
      BY <1>1 DEF GoodCall
    <2>2. /\ n \in DOMAIN new /\ 1 \in DOMAIN new[n].alternatives
          /\ new[n].alternatives[1] = fmap[n].alternatives[1]
      BY <2>1 DEF AllKept, EntryKept
    <2>3. FirstKey(n, new) = FirstKey(n, fmap) /\ FirstKey(n, fmap) \in DOMAIN before
      BY <2>1, <2>2 DEF FirstKey
    <2>4. ASSUME call.stage = "run"
          PROVE  after[FirstKey(n, new)] = Loaded(call.function)
      <3>1. before[FirstKey(n, fmap)] = Loaded(call.function)
        BY <1>1, <2>4 DEF GoodCall
      <3>2. before[FirstKey(n, fmap)].state = "done"
        BY <3>1 DEF Loaded
      <3> QED BY <2>3, <3>1, <3>2 DEF Settled
    <2> QED BY <1>1, <2>2, <2>4 DEF GoodCall
  <1>2. CASE ~(cold /\ call.stage \in {"load", "run"})
    BY <1>2 DEF GoodCall
  <1> QED BY <1>1, <1>2

(* Calls that were good in the state before are in the state after. *)
GoodCalls ==
    \A c \in Clients : \A p \in DOMAIN calls'[c] :
        GoodCall(calls'[c][p], script[c].cold, function_map, loads)
LEMMA CallsStayGood ==
    ASSUME LoadsInv, script' = script, AllKept(function_map, function_map'),
           Settled(loads, loads'), GoodCalls
    PROVE  CallsInv'
  <1>1. \A n \in DOMAIN function_map : 1 \in DOMAIN function_map[n].alternatives =>
            FirstKey(n, function_map) \in DOMAIN loads
    BY FirstKeyIsKey DEF LoadsInv
  <1>2. ASSUME NEW c \in Clients, NEW p \in DOMAIN calls'[c]
        PROVE  GoodCall(calls'[c][p], script'[c].cold, function_map', loads')
    <2>1. GoodCall(calls'[c][p], script[c].cold, function_map, loads)
      BY DEF GoodCalls
    <2>2. GoodCall(calls'[c][p], script[c].cold, function_map', loads')
      BY <1>1, <2>1, CallStaysGood
    <2> QED BY <2>2
  <1> QED BY <1>2 DEF CallsInv

LEMMA SameRegistry ==
    ASSUME RegistryInv, CacheInv, UNCHANGED <<script, function_map, loads>>, GoodCalls,
           \A job \in work' :
               \/ job \in work \/ job.kind = "run"
               \/ job.kind = "parse" /\ ~script[job.client].cold
    PROVE  CacheInv'
  <1>1. AllKept(function_map, function_map')
    BY ShapedIsKept DEF RegistryInv, AllKept
  <1>2. CallsInv'
    BY <1>1, CallsStayGood DEF CacheInv, Settled
  <1>3. LoadsInv'
    <2>0. function_map' = function_map
      OBVIOUS
    <2>1. Keys' = Keys
      BY <2>0 DEF Keys
    <2> QED BY <2>1 DEF CacheInv, LoadsInv
  <1>4. JobsInv'
    BY DEF CacheInv, JobsInv, GoodJob
  <1> QED BY <1>2, <1>3, <1>4 DEF CacheInv

(* The effects of the steps on the calls of one task. *)
LEMMA OthersStayGood ==
    ASSUME TasksInv, CallsInv, NEW c \in Clients, NEW changed,
           calls' = [calls EXCEPT ![c] = changed],
           \A p \in DOMAIN changed :
               GoodCall(changed[p], script[c].cold, function_map, loads)
    PROVE  GoodCalls
  <1>1. calls'[c] = changed /\ \A e \in Clients : e # c => calls'[e] = calls[e]
    BY DEF TasksInv
  <1>2. ASSUME NEW e \in Clients, NEW p \in DOMAIN calls'[e]
        PROVE  GoodCall(calls'[e][p], script[e].cold, function_map, loads)
    <2>1. CASE e = c
      BY <1>1, <2>1
    <2>2. CASE e # c
      BY <1>1, <2>2 DEF CallsInv
    <2> QED BY <2>1, <2>2
  <1> QED BY <1>2 DEF GoodCalls

LEMMA EndStaysGood ==
    ASSUME TasksInv, CallsInv, NEW c \in Clients, NEW result, End(c, result)
    PROVE  GoodCalls
  <1>1. calls' = [calls EXCEPT ![c] = Empty] /\ DOMAIN Empty = {}
    BY DEF End, Empty
  <1> QED BY <1>1, OthersStayGood, Zenon

LEMMA NewStageStaysGood ==
    ASSUME TasksInv, CallsInv, NEW c \in Clients, NEW p \in DOMAIN calls[c], NEW stage, NEW function,
           \/ calls' = [calls EXCEPT ![c][p].stage = stage] /\ stage # "run"
           \/ calls' = [calls EXCEPT ![c][p].stage = stage, ![c][p].function = function],
           GoodCall([name |-> calls[c][p].name, stage |-> stage, function |-> function],
                    script[c].cold, function_map, loads)
    PROVE  GoodCalls
  <1>1. DOMAIN calls = Clients /\ DOMAIN calls[c][p] = Names
    BY DEF TasksInv
  <1>2. \A e \in Clients : DOMAIN calls'[e] = DOMAIN calls[e]
    BY <1>1
  <1>3. /\ calls'[c][p].name = calls[c][p].name /\ calls'[c][p].stage = stage
        /\ calls'[c][p].function = function \/ stage # "run"
    BY <1>1 DEF Names
  <1>4. ASSUME NEW e \in Clients, NEW q \in DOMAIN calls'[e]
        PROVE  GoodCall(calls'[e][q], script[e].cold, function_map, loads)
    <2>1. CASE e = c /\ q = p
      BY <1>3, <2>1 DEF GoodCall
    <2>2. CASE e # c \/ q # p
      <3>1. calls'[e][q] = calls[e][q] /\ q \in DOMAIN calls[e]
        BY <1>1, <1>2, <2>2
      <3> QED BY <3>1 DEF CallsInv
    <2> QED BY <2>1, <2>2
  <1> QED BY <1>4 DEF GoodCalls

LEMMA SameCallsAreGood ==
    ASSUME CallsInv, calls' = calls
    PROVE  GoodCalls
  BY DEF CallsInv, GoodCalls

(* Registering keeps the futures and adds some for new alternatives. *)
LEMMA RegisterKeepsCache ==
    ASSUME RegistryInv, TasksInv, CacheInv, Register
    PROVE  CacheInv'
  <1>1. AllKept(function_map, function_map')
    BY RegisterIsGood DEF GoodStep
  <1>2. UNCHANGED <<script, calls, work>> /\ loads' = NewLoads(function_map')
    BY DEF Register
  <1>3. Keys \subseteq Keys'
    <2> DEFINE Of(m) == {<<m, function_map[m].alternatives[i].engine>> :
                             i \in DOMAIN function_map[m].alternatives}
               After(m) == {<<m, function_map'[m].alternatives[i].engine>> :
                             i \in DOMAIN function_map'[m].alternatives}
    <2>1. Keys = UNION {Of(m) : m \in DOMAIN function_map}
      BY DEF Keys
    <2>2. Keys' = UNION {After(m) : m \in DOMAIN function_map'}
      BY DEF Keys
    <2>3. ASSUME NEW m \in DOMAIN function_map
          PROVE  m \in DOMAIN function_map' /\ Of(m) \subseteq After(m)
      <3>1. m \in DOMAIN function_map' /\ EntryKept(function_map[m], function_map'[m])
        BY <1>1 DEF AllKept
      <3> QED BY <3>1 DEF EntryKept
    <2> HIDE DEF Of, After
    <2> QED BY <2>1, <2>2, <2>3
  <1>4. loads' = [k \in Keys' |-> IF k \in DOMAIN loads THEN loads[k] ELSE Idle]
    BY <1>2, ZenonT(60) DEF NewLoads, Keys
  <1>5. DOMAIN loads = Keys
    BY DEF CacheInv, LoadsInv
  <1>6. /\ DOMAIN loads' = Keys' /\ \A k \in DOMAIN loads : k \in DOMAIN loads' /\ loads'[k] = loads[k]
        /\ \A k \in DOMAIN loads' : k \in DOMAIN loads \/ loads'[k] = Idle
    BY <1>3, <1>4, <1>5
  <1>7. LoadsInv'
    BY <1>6 DEF CacheInv, LoadsInv, Idle
  <1>8. JobsInv'
    BY <1>2, <1>6 DEF CacheInv, JobsInv, GoodJob
  <1>9. CallsInv'
    BY <1>1, <1>2, <1>6, SameCallsAreGood, CallsStayGood DEF CacheInv, Settled
  <1> QED BY <1>7, <1>8, <1>9 DEF CacheInv

(* A task that uses the cache polls the future first, or awaits it. *)
LEMMA LoadCachedKeepsCache ==
    ASSUME RegistryInv, TasksInv, CacheInv, NEW c \in tasks, NEW p \in DOMAIN calls[c], LoadCached(c, p)
    PROVE  CacheInv'
  <1> DEFINE name == calls[c][p].name
             key == FirstKey(name, function_map)
             job == Job("shared", 0, <<>>, key)
  <1>1. /\ UNCHANGED <<script, function_map>> /\ c \in Clients
        /\ calls' = [calls EXCEPT ![c][p].stage = "load"]
        /\ name \in DOMAIN function_map /\ function_map[name].kind # "composition"
    BY ZenonT(60) DEF LoadCached, FunctionCalls, client, TasksInv
  <1>2. 1 \in DOMAIN function_map[name].alternatives
    BY <1>1 DEF RegistryInv, Shaped
  <1>3. key \in DOMAIN loads
    BY <1>1, <1>2, FirstKeyIsKey DEF CacheInv, LoadsInv
  <1>4. GoodCalls
    <2>1. GoodCall([name |-> calls[c][p].name, stage |-> "load", function |-> <<>>],
                   script[c].cold, function_map, loads)
      BY <1>1, <1>2 DEF GoodCall
    <2> QED BY <1>1, <2>1, NewStageStaysGood, ZenonT(60) DEF CacheInv
  <1>5. /\ KeyOf(name) = key
        /\ FirstPoll(key) <=> loads[key].state = "idle"
    BY DEF KeyOf, ChosenAlternative, FirstKey, FirstPoll
  <1>6. \/ UNCHANGED <<loads, work>>
        \/ /\ loads[key].state = "idle" /\ loads' = [loads EXCEPT ![key].state = "queued"]
           /\ work' = work \cup {job}
        \/ /\ loads[key].state = "idle" /\ loads' = [loads EXCEPT ![key] = Loaded(<<>>)]
           /\ work' = work
    BY <1>5, Zenon DEF LoadCached
  <1>7. AllKept(function_map, function_map')
    BY <1>1, ShapedIsKept DEF RegistryInv, AllKept
  <1>8. Keys' = Keys
    BY <1>1 DEF Keys
  <1>9. CASE UNCHANGED <<loads, work>>
    BY <1>1, <1>4, <1>9, SameRegistry
  <1> HIDE DEF key, job
  <1>10. CASE /\ loads[key].state = "idle" /\ loads' = [loads EXCEPT ![key].state = "queued"]
              /\ work' = work \cup {job}
    <2>1. loads[key] = [state |-> "idle", function |-> loads[key].function]
      BY <1>3, <1>10 DEF CacheInv, LoadsInv
    <2>2. /\ DOMAIN loads' = DOMAIN loads
          /\ loads'[key] = [state |-> "queued", function |-> loads[key].function]
          /\ \A k \in DOMAIN loads : k # key => loads'[k] = loads[k]
      BY <1>3, <1>10, <2>1
    <2>3. LoadsInv'
      BY <1>8, <2>2 DEF CacheInv, LoadsInv
    <2>4. Settled(loads, loads')
      BY <1>10, <2>2 DEF Settled
    <2>5. job.kind = "shared" /\ job.key = key /\ job = Job("shared", 0, <<>>, job.key)
      BY DEF job, Job
    <2>6. ASSUME NEW j \in work'
          PROVE  GoodJob(j, loads)'
      <3>1. CASE j = job
        BY <1>3, <2>2, <2>5, <3>1 DEF GoodJob
      <3>2. CASE j \in work
        BY <1>1, <1>10, <2>2, <3>2 DEF CacheInv, JobsInv, GoodJob
      <3> QED BY <1>10, <3>1, <3>2
    <2>7. JobsInv'
      BY <2>6 DEF JobsInv
    <2> QED BY <1>1, <1>4, <1>7, <2>3, <2>4, <2>7, CallsStayGood DEF CacheInv
  <1>11. CASE /\ loads[key].state = "idle" /\ loads' = [loads EXCEPT ![key] = Loaded(<<>>)]
              /\ work' = work
    <2>1. /\ DOMAIN loads' = DOMAIN loads
          /\ loads'[key] = [state |-> "done", function |-> <<>>]
          /\ \A k \in DOMAIN loads : k # key => loads'[k] = loads[k]
      BY <1>3, <1>11 DEF Loaded
    <2>2. LoadsInv'
      BY <1>8, <2>1 DEF CacheInv, LoadsInv
    <2>3. Settled(loads, loads')
      BY <1>11, <2>1 DEF Settled
    <2>4. JobsInv'
      BY <1>1, <1>11, <2>1 DEF CacheInv, JobsInv, GoodJob
    <2> QED BY <1>1, <1>4, <1>7, <2>2, <2>3, <2>4, CallsStayGood DEF CacheInv
  <1> QED BY <1>6, <1>9, <1>10, <1>11

(* An engine resolves a future that nobody else will. *)
LEMMA ParseSharedKeepsCache ==
    ASSUME RegistryInv, TasksInv, CacheInv, NEW job \in work, ParseShared(job)
    PROVE  CacheInv'
  <1> DEFINE key == job.key
             value == Loaded(Binary(key))
  <1>1. /\ UNCHANGED <<script, function_map, calls>> /\ job.kind = "shared"
        /\ work' = work \ {job} /\ loads' = [loads EXCEPT ![key] = value]
    BY DEF ParseShared, client
  <1>2. job = Job("shared", 0, <<>>, key) /\ key \in DOMAIN loads /\ loads[key].state = "queued"
    BY <1>1 DEF CacheInv, JobsInv, GoodJob
  <1>3. value = [state |-> value.state, function |-> value.function] /\ value.state = "done"
    BY DEF Loaded
  <1> HIDE DEF value, key
  <1>4. /\ DOMAIN loads' = DOMAIN loads /\ loads'[key] = value
        /\ \A k \in DOMAIN loads : k # key => loads'[k] = loads[k]
    BY <1>1, <1>2
  <1>5. Keys' = Keys
    BY <1>1 DEF Keys
  <1>6. LoadsInv'
    BY <1>3, <1>4, <1>5 DEF CacheInv, LoadsInv
  <1>7. Settled(loads, loads')
    BY <1>2, <1>4 DEF Settled
  <1>8. ASSUME NEW j \in work'
        PROVE  GoodJob(j, loads)'
    <2>1. j \in work /\ j # job /\ GoodJob(j, loads)
      BY <1>1 DEF CacheInv, JobsInv
    <2>2. j.kind = "shared" => j.key # key
      BY <1>2, <2>1 DEF GoodJob
    <2> QED BY <1>1, <1>4, <2>1, <2>2 DEF GoodJob
  <1>9. JobsInv'
    BY <1>8 DEF JobsInv
  <1>10. AllKept(function_map, function_map')
    BY <1>1, ShapedIsKept DEF RegistryInv, AllKept
  <1> QED BY <1>1, <1>6, <1>7, <1>9, <1>10, SameCallsAreGood, CallsStayGood DEF CacheInv

LEMMA ExpandKeepsCache ==
    ASSUME RegistryInv, TasksInv, CacheInv, NEW c \in tasks, NEW p \in DOMAIN calls[c], Expand(c, p)
    PROVE  CacheInv'
  <1> DEFINE entry == function_map[calls[c][p].name]
             others == [q \in DOMAIN calls[c] \ {p} |-> calls[c][q]]
             Starting(q) == [name |-> entry.dependencies[q[2]].function,
                             stage |-> "lookup", function |-> <<>>]
  <1>1. UNCHANGED <<script, function_map, loads, work>> /\ c \in Clients
    BY Zenon DEF Expand, client, registry, TasksInv
  <1>2. PICK started \in SUBSET DOMAIN entry.dependencies :
            calls' = [calls EXCEPT ![c] = WithEntries(others, [q \in {p} \X started |-> Starting(q)])]
    BY ZenonT(60) DEF Expand
  <1> DEFINE new == [q \in {p} \X started |-> Starting(q)]
             changed == WithEntries(others, new)
  <1>3. ASSUME NEW q \in DOMAIN new
        PROVE  GoodCall(new[q], script[c].cold, function_map, loads)
    <2>1. new[q] = Starting(q)
      BY ZenonT(40)
    <2>2. new[q].stage = "lookup"
      BY <2>1, ZenonT(60)
    <2> HIDE DEF new
    <2> QED BY <2>2 DEF GoodCall
  <1>4. ASSUME NEW q \in DOMAIN others
        PROVE  GoodCall(others[q], script[c].cold, function_map, loads)
    BY <1>1 DEF CacheInv, CallsInv
  <1> HIDE DEF new, others
  <1>5. \A q \in DOMAIN changed : GoodCall(changed[q], script[c].cold, function_map, loads)
    BY <1>3, <1>4 DEF WithEntries
  <1>6. calls' = [calls EXCEPT ![c] = changed]
    BY <1>2, ZenonT(40) DEF new
  <1> HIDE DEF changed
  <1>7. GoodCalls
    BY <1>1, <1>5, <1>6, OthersStayGood, ZenonT(60) DEF CacheInv
  <1> QED BY <1>1, <1>7, SameRegistry

LEMMA RunOnEngineKeepsCache ==
    ASSUME RegistryInv, TasksInv, CacheInv, NEW c \in tasks, NEW p \in DOMAIN calls[c], RunOnEngine(c, p)
    PROVE  CacheInv'
  <1> DEFINE name == calls[c][p].name
             job == Job("run", c, p, KeyOf(name))
  <1>1. UNCHANGED <<script, function_map, loads>> /\ c \in Clients
    BY DEF RunOnEngine, registry, TasksInv
  <1>2. PICK function \in Ready(c, p) :
            \/ /\ calls' = [calls EXCEPT ![c][p].stage = "run", ![c][p].function = function]
               /\ work' = work \cup {job}
            \/ End(c, "err") /\ work' = work
    BY ZenonT(60) DEF RunOnEngine
  <1>3. CASE End(c, "err") /\ work' = work
    <2>1. GoodCalls
      BY <1>1, <1>3, EndStaysGood DEF CacheInv
    <2> QED BY <1>1, <1>3, <2>1, SameRegistry
  <1>4. CASE /\ calls' = [calls EXCEPT ![c][p].stage = "run", ![c][p].function = function]
             /\ work' = work \cup {job}
    <2>1. job.kind = "run"
      BY DEF Job
    <2> HIDE DEF job
    <2>2. GoodCall(calls[c][p], script[c].cold, function_map, loads)
      BY <1>1 DEF CacheInv, CallsInv
    <2>3. GoodCall([name |-> name, stage |-> "run", function |-> function],
                   script[c].cold, function_map, loads)
      <3>1. CASE script[c].cold /\ calls[c][p].stage = "load"
        <4>1. name \in DOMAIN function_map /\ 1 \in DOMAIN function_map[name].alternatives
          BY <2>2, <3>1, ZenonT(60) DEF GoodCall
        <4>2. KeyOf(name) = FirstKey(name, function_map)
          BY DEF KeyOf, ChosenAlternative, FirstKey
        <4>3. loads[KeyOf(name)].state = "done" /\ function = loads[KeyOf(name)].function
          BY <3>1 DEF Ready
        <4>4. KeyOf(name) \in DOMAIN loads
          BY <4>1, <4>2, FirstKeyIsKey DEF CacheInv, LoadsInv
        <4>5. loads[KeyOf(name)] = Loaded(function)
          BY <4>3, <4>4 DEF CacheInv, LoadsInv, Loaded
        <4> QED BY <4>1, <4>2, <4>5, ZenonT(60) DEF GoodCall
      <3>2. CASE ~script[c].cold
        BY <3>2 DEF GoodCall
      <3>3. CASE script[c].cold /\ calls[c][p].stage # "load"
        BY <2>2, <3>3, Zenon DEF GoodCall, Ready
      <3> QED BY <3>1, <3>2, <3>3
    <2>4. GoodCalls
      BY <1>1, <1>4, <2>3, NewStageStaysGood, Zenon DEF CacheInv
    <2> QED BY <1>1, <1>4, <2>1, <2>4, SameRegistry
  <1> QED BY <1>2, <1>3, <1>4

LEMMA CacheInvNext ==
    ASSUME RegistryInv, TasksInv, CacheInv, [Next]_vars
    PROVE  CacheInv'
  <1>1. CASE UNCHANGED <<script, function_map, loads, calls, work>>
    BY <1>1, SameCallsAreGood, SameRegistry DEF CacheInv
  <1>2. ASSUME NEW c \in Clients,
               \/ CreateFile(c) \/ WriteFile(c) \/ OpenLocal(c) \/ Await(c) \/ Leave(c)
               \/ serve_request(c) \/ register_function(c) \/ register_composition(c)
        PROVE  UNCHANGED <<script, function_map, loads, calls, work>>
    BY <1>2, ZenonT(60) DEF CreateFile, WriteFile, OpenLocal, Await, Leave, serve_request,
                       register_function, register_composition, Send, registry
  <1>3. CASE RegisterPanics
    BY <1>1, <1>3 DEF RegisterPanics, registry
  <1>4. CASE Spawn
    <2> DEFINE h == Head(queue)
               changed == [p \in {<<>>} |-> [name |-> script[h].name, stage |-> "lookup",
                                            function |-> <<>>]]
    <2>1. /\ UNCHANGED <<script, function_map, loads, work>> /\ queue # <<>>
          /\ calls' = [calls EXCEPT ![h] = changed]
      BY <1>4, ZenonT(60) DEF Spawn, client, registry
    <2>2. h \in Clients
      BY <2>1, QueueShrinks DEF RegistryInv
    <2>3. \A p \in DOMAIN changed : GoodCall(changed[p], script[h].cold, function_map, loads)
      BY DEF GoodCall
    <2> HIDE DEF h, changed
    <2>4. GoodCalls
      BY <2>1, <2>2, <2>3, OthersStayGood, ZenonT(60) DEF CacheInv
    <2> QED BY <2>1, <2>4, SameRegistry
  <1>5. CASE Register
    BY <1>5, RegisterKeepsCache
  <1>6. ASSUME NEW c \in tasks, NEW result, End(c, result),
               UNCHANGED <<script, function_map, loads>>, work' \subseteq work
        PROVE  CacheInv'
    <2>1. GoodCalls
      BY <1>6, EndStaysGood DEF CacheInv, TasksInv
    <2> QED BY <1>6, <2>1, SameRegistry
  <1>7. ASSUME NEW c \in tasks, Finish(c) \/ Cancel(c)
        PROVE  CacheInv'
    BY <1>6, <1>7 DEF Finish, Cancel, registry
  <1>8. ASSUME NEW c \in tasks, NEW p \in DOMAIN calls[c],
               \/ Unknown(c, p) \/ LoadCached(c, p) \/ LoadPrivate(c, p)
               \/ RunOnEngine(c, p) \/ Expand(c, p) \/ OutputPanics(c, p)
        PROVE  CacheInv'
    <2>1. CASE Unknown(c, p) \/ OutputPanics(c, p)
      BY <1>6, <2>1 DEF Unknown, OutputPanics, registry
    <2>2. CASE LoadCached(c, p)
      BY <2>2, LoadCachedKeepsCache
    <2>3. CASE LoadPrivate(c, p)
      <3> DEFINE job == Job("parse", c, p, KeyOf(calls[c][p].name))
      <3>1. /\ UNCHANGED <<script, function_map, loads>> /\ ~script[c].cold /\ c \in Clients
            /\ \/ /\ calls' = [calls EXCEPT ![c][p].stage = "parse"]
                  /\ work' = work \cup {job}
               \/ End(c, "err") /\ work' = work
        BY <2>3, ZenonT(60) DEF LoadPrivate, registry, TasksInv
      <3>2. job.kind = "parse" /\ job.client = c
        BY DEF Job
      <3> HIDE DEF job
      <3>3. CASE calls' = [calls EXCEPT ![c][p].stage = "parse"] /\ work' = work \cup {job}
        <4>1. GoodCall([name |-> calls[c][p].name, stage |-> "parse", function |-> <<>>],
                       script[c].cold, function_map, loads)
          BY <3>1 DEF GoodCall
        <4>2. GoodCalls
          BY <3>1, <3>3, <4>1, NewStageStaysGood, ZenonT(60) DEF CacheInv
        <4> QED BY <3>1, <3>2, <3>3, <4>2, SameRegistry
      <3> QED BY <1>6, <3>1, <3>3
    <2>4. CASE RunOnEngine(c, p)
      BY <2>4, RunOnEngineKeepsCache
    <2>5. CASE Expand(c, p)
      BY <2>5, ExpandKeepsCache
    <2> QED BY <1>8, <2>1, <2>2, <2>3, <2>4, <2>5
  <1>9. ASSUME NEW job \in work, ParseShared(job) \/ Parse(job) \/ Run(job)
        PROVE  CacheInv'
    <2> DEFINE c == job.client
               p == job.path
    <2>1. CASE ParseShared(job)
      BY <2>1, ParseSharedKeepsCache
    <2>2. CASE Parse(job)
      <3>1. /\ UNCHANGED <<script, function_map, loads>> /\ work' \subseteq work /\ ~script[c].cold
            /\ ~Awaited(job) => calls' = calls
            /\ Awaited(job) => calls' = [calls EXCEPT ![c][p].stage = "parsed",
                                                      ![c][p].function = Binary(job.key)]
        BY <2>2, ZenonT(60) DEF Parse, client, registry, CacheInv, JobsInv, GoodJob
      <3>2. CASE Awaited(job)
        <4>1. c \in Clients /\ p \in DOMAIN calls[c]
          BY <3>2 DEF Awaited, TasksInv
        <4>2. GoodCall([name |-> calls[c][p].name, stage |-> "parsed", function |-> Binary(job.key)],
                       script[c].cold, function_map, loads)
          BY <3>1 DEF GoodCall
        <4>3. GoodCalls
          BY <3>1, <3>2, <4>1, <4>2, NewStageStaysGood, ZenonT(60) DEF CacheInv
        <4> QED BY <3>1, <4>3, SameRegistry
      <3>3. CASE ~Awaited(job)
        BY <3>1, <3>3, SameCallsAreGood, SameRegistry DEF CacheInv
      <3> QED BY <3>2, <3>3
    <2>3. CASE Run(job)
      <3> DEFINE changed == [q \in DOMAIN calls[c] \ {p} |-> calls[c][q]]
      <3>1. UNCHANGED <<script, function_map, loads>> /\ work' \subseteq work
        BY <2>3 DEF Run, registry
      <3>2. Awaited(job) => c \in tasks /\ c \in Clients
        BY DEF Awaited, TasksInv
      <3>3. DOMAIN calls = Clients
        BY DEF TasksInv
      <3>4. \/ calls' = calls
            \/ Awaited(job) /\ calls' = [calls EXCEPT ![c] = changed]
            \/ Awaited(job) /\ End(c, "err")
        BY <2>3, <3>2, <3>3 DEF Run
      <3>5. CASE calls' = calls
        BY <3>1, <3>5, SameCallsAreGood, SameRegistry DEF CacheInv
      <3>6. CASE Awaited(job) /\ calls' = [calls EXCEPT ![c] = changed]
        <4>1. \A q \in DOMAIN changed : GoodCall(changed[q], script[c].cold, function_map, loads)
          BY <3>2, <3>6 DEF CacheInv, CallsInv
        <4> HIDE DEF changed
        <4>2. GoodCalls
          BY <3>2, <3>6, <4>1, OthersStayGood, ZenonT(60) DEF CacheInv
        <4> QED BY <3>1, <4>2, SameRegistry
      <3>7. CASE Awaited(job) /\ End(c, "err")
        BY <1>6, <3>1, <3>2, <3>7
      <3> QED BY <3>4, <3>5, <3>6, <3>7
    <2> QED BY <1>9, <2>1, <2>2, <2>3
  <1>10. CASE UNCHANGED vars
    BY <1>1, <1>10 DEF vars
  <1> QED BY <1>1, <1>2, <1>3, <1>4, <1>5, <1>7, <1>8, <1>9, <1>10, ZenonT(60) DEF Next, Step

LEMMA CacheInvInit == ASSUME Init PROVE CacheInv
  <1> DEFINE first == CHOOSE e \in Engines : TRUE
             system == [k \in SystemNames \X {SystemEngine} |-> Loaded(<<"system">>)]
             preloaded == [k \in Preloaded \X {first} |-> Idle]
             Of(m) == {<<m, function_map[m].alternatives[i].engine>> :
                           i \in DOMAIN function_map[m].alternatives}
  <1>1. loads = WithEntries(system, preloaded)
    BY Zenon DEF Init
  <1>2. /\ DOMAIN function_map = Preloaded \cup SystemNames
        /\ \A n \in Preloaded : function_map[n] = FunctionEntry("function", Alternative(first, n), n)
        /\ \A n \in SystemNames \ Preloaded :
               function_map[n] = FunctionEntry("system", Alternative(SystemEngine, ""), "system")
    BY ZenonT(40) DEF Init, WithEntries, SystemRegistry
  <1> HIDE DEF first
  <1>3. ASSUME NEW n, NEW kind, NEW engine, NEW path, NEW metadata,
               function_map[n] = FunctionEntry(kind, Alternative(engine, path), metadata)
        PROVE  Of(n) = {<<n, engine>>}
    <2>1. function_map[n].alternatives = <<Alternative(engine, path)>>
      BY <1>3 DEF FunctionEntry
    <2>2. /\ DOMAIN function_map[n].alternatives = {1}
          /\ function_map[n].alternatives[1].engine = engine
      BY <2>1 DEF Alternative
    <2> QED BY <2>2, ZenonT(60)
  <1>4. /\ \A n \in Preloaded : Of(n) = {<<n, first>>}
        /\ \A n \in SystemNames : Of(n) = {<<n, SystemEngine>>}
    <2> HIDE DEF Of
    <2>1. ASSUME NEW n \in Preloaded PROVE Of(n) = {<<n, first>>}
      <3>1. function_map[n] = FunctionEntry("function", Alternative(first, n), n)
        BY <1>2, Zenon
      <3> QED BY <1>3, <3>1, Zenon
    <2>2. ASSUME NEW n \in SystemNames PROVE Of(n) = {<<n, SystemEngine>>}
      <3>1. n \in SystemNames \ Preloaded
        BY PreloadedAreNew
      <3>2. function_map[n] = FunctionEntry("system", Alternative(SystemEngine, ""), "system")
        BY <1>2, <3>1, Zenon
      <3> QED BY <1>3, <3>2, Zenon
    <2> QED BY <2>1, <2>2, Zenon
  <1>5. Keys = UNION {Of(m) : m \in DOMAIN function_map}
    BY DEF Keys
  <1> HIDE DEF Of
  <1>6. Keys = (Preloaded \X {first}) \cup (SystemNames \X {SystemEngine})
    <2>1. \A k : k \in Keys <=> (\E n \in Preloaded : k = <<n, first>>)
                               \/ (\E n \in SystemNames : k = <<n, SystemEngine>>)
      <3>1. ASSUME NEW k
            PROVE  k \in Keys <=> \E n \in Preloaded \cup SystemNames : k \in Of(n)
        BY <1>2, <1>5, Zenon
      <3>2. ASSUME NEW k
            PROVE  /\ \A n \in Preloaded : k \in Of(n) <=> k = <<n, first>>
                   /\ \A n \in SystemNames : k \in Of(n) <=> k = <<n, SystemEngine>>
        BY <1>4, Zenon
      <3> QED BY <3>1, <3>2, Zenon
    <2> QED BY <2>1
  <1>7. /\ DOMAIN loads = Keys
        /\ \A k \in DOMAIN loads : loads[k] = Loaded(<<"system">>) \/ loads[k] = Idle
    BY <1>1, <1>6, ZenonT(60) DEF WithEntries
  <1>8. LoadsInv
    BY <1>7 DEF LoadsInv, Loaded, Idle
  <1>9. JobsInv /\ CallsInv
    BY DEF Init, JobsInv, CallsInv, Empty
  <1> QED BY <1>8, <1>9 DEF CacheInv

LEMMA CacheInvHolds == Spec => []CacheInv
  <1>1. Init => CacheInv
    BY CacheInvInit
  <1>2. IInv /\ CacheInv /\ [Next]_vars => CacheInv'
    BY CacheInvNext DEF IInv
  <1> QED BY <1>1, <1>2, IInvHolds, PTL DEF Spec

(* All requests that use the cache run what the one shared load of the     *)
(* alternative produced, whatever is registered, written to the file or    *)
(* loaded meanwhile.                                                       *)
THEOREM CachedRequestsAgree == Spec => []CachedAgree
  <1>1. ASSUME IInv, CacheInv
        PROVE  CachedAgree
    <2> SUFFICES ASSUME NEW c \in tasks, NEW p \in DOMAIN calls[c],
                        script[c].cold, calls[c][p].stage = "run"
                 PROVE  loads[KeyOf(calls[c][p].name)] = Loaded(calls[c][p].function)
      BY DEF CachedAgree
    <2>1. GoodCall(calls[c][p], script[c].cold, function_map, loads)
      BY <1>1, ZenonT(60) DEF CacheInv, CallsInv, IInv, TasksInv
    <2>2. KeyOf(calls[c][p].name) = FirstKey(calls[c][p].name, function_map)
      BY DEF KeyOf, ChosenAlternative, FirstKey
    <2> QED BY <2>1, <2>2 DEF GoodCall
  <1> QED BY <1>1, IInvHolds, CacheInvHolds, PTL

-----------------------------------------------------------------------------
(* Types and capacities. *)
Places == {"start", "write", "send", "wait"} \cup Over
Said == {"none", "ok", "err", "unknown", "dropped"}
ControlInv ==
    /\ pc \in [Clients -> Places] /\ answer \in [Clients -> Said]
    /\ known \in [Clients -> BOOLEAN] /\ loop \in {"running", "stopped"}
    /\ Len(queue) <= CHANNEL
    /\ tasks \subseteq Clients /\ \A c \in Clients \ tasks : calls[c] = Empty
WorkInv == IsFiniteSet(work) /\ Cardinality(work) <= MAX_QUEUE

LEMMA EndIsTyped ==
    ASSUME ControlInv, NEW c \in Clients, NEW result \in Said, End(c, result),
           UNCHANGED <<pc, known, loop, queue>>, DOMAIN calls = Clients
    PROVE  ControlInv'
  <1>1. answer' \in [Clients -> Said]
    BY DEF End, ControlInv
  <1>2. tasks' \subseteq Clients /\ \A e \in Clients \ tasks' : calls'[e] = Empty
    BY DEF End, ControlInv
  <1> QED BY <1>1, <1>2 DEF ControlInv

(* The calls of a task that goes on change, and nothing else here. *)
LEMMA CallsAreTyped ==
    ASSUME ControlInv, UNCHANGED <<pc, answer, known, loop, queue, tasks>>, NEW c \in tasks,
           \A e \in Clients : e # c => calls'[e] = calls[e]
    PROVE  ControlInv'
  BY DEF ControlInv

LEMMA ControlInvNext ==
    ASSUME RegistryInv, TasksInv, ControlInv, [Next]_vars
    PROVE  ControlInv'
  <1>1. CASE UNCHANGED <<answer, known, loop, queue, tasks, calls>> /\ pc' \in [Clients -> Places]
    BY <1>1 DEF ControlInv
  <1>2. ASSUME NEW c \in Clients, CreateFile(c) \/ WriteFile(c) \/ OpenLocal(c) \/ Await(c) \/ Leave(c)
        PROVE  ControlInv'
    <2>1. /\ UNCHANGED <<answer, known, loop, queue, tasks, calls>>
          /\ \E place \in Places : pc' = [pc EXCEPT ![c] = place]
      BY <1>2, Zenon DEF CreateFile, WriteFile, OpenLocal, Await, Leave, AfterFile, Places, Over
    <2>2. pc' \in [Clients -> Places]
      BY <2>1 DEF ControlInv
    <2> QED BY <1>1, <2>1, <2>2
  <1>3. ASSUME NEW c \in Clients, serve_request(c) \/ register_function(c) \/ register_composition(c)
        PROVE  ControlInv'
    <2>1. Send(c)
      BY <1>3 DEF serve_request, register_function, register_composition
    <2>2. UNCHANGED <<answer, loop, tasks, calls>>
      BY <2>1 DEF Send
    <2>3. pc' \in [Clients -> Places]
      BY <2>1 DEF Send, ControlInv, Places, Over
    <2>4. known' \in [Clients -> BOOLEAN]
      <3> DEFINE b == script[c].name \in DOMAIN function_map
      <3>1. known' = known \/ known' = [known EXCEPT ![c] = b]
        BY <2>1, Zenon DEF Send
      <3>2. b \in BOOLEAN
        OBVIOUS
      <3> HIDE DEF b
      <3> QED BY <3>1, <3>2, Zenon DEF ControlInv
    <2>5. Len(queue') <= CHANNEL
      <3>1. queue' = queue \/ (Len(queue) < CHANNEL /\ queue' = Append(queue, c))
        BY <2>1, Zenon DEF Send
      <3> QED BY <3>1, Capacities DEF ControlInv, RegistryInv
    <2> QED BY <2>2, <2>3, <2>4, <2>5, ZenonT(60) DEF ControlInv
  <1>4. ASSUME queue # <<>>, queue' = Tail(queue) \/ queue' = <<>>
        PROVE  Len(queue') <= CHANNEL
    <2>1. queue \in Seq(Clients) /\ Len(queue) <= CHANNEL
      BY DEF RegistryInv, ControlInv
    <2> QED BY <1>4, <2>1, Capacities
  <1>5. CASE Spawn
    <2> DEFINE h == Head(queue)
    <2>1. /\ UNCHANGED <<pc, answer, known, loop>> /\ queue # <<>> /\ queue' = Tail(queue)
          /\ tasks' = tasks \cup {h} /\ \A e \in Clients : e # h => calls'[e] = calls[e]
      BY <1>5, ZenonT(60) DEF Spawn, client, TasksInv
    <2>2. h \in Clients
      BY <2>1, QueueShrinks DEF RegistryInv
    <2> HIDE DEF h
    <2>3. Len(queue') <= CHANNEL
      BY <1>4, <2>1
    <2>4. tasks' \subseteq Clients /\ \A e \in Clients \ tasks' : calls'[e] = Empty
      BY <2>1, <2>2 DEF ControlInv
    <2> QED BY <2>1, <2>3, <2>4, Zenon DEF ControlInv
  <1>6. CASE Register \/ RegisterPanics
    <2>1. /\ UNCHANGED <<pc, known, tasks, calls>> /\ queue # <<>>
          /\ queue' = Tail(queue) \/ queue' = <<>>
          /\ loop' = loop \/ loop' = "stopped"
      BY <1>6, Zenon DEF Register, RegisterPanics, StopLoop
    <2>2. Len(queue') <= CHANNEL
      BY <1>4, <2>1
    <2>3. answer' \in [Clients -> Said]
      <3>1. \/ \E a \in Said : answer' = [answer EXCEPT ![Head(queue)] = a]
            \/ answer' = Dropped(answer)
            \/ answer' = Dropped([answer EXCEPT ![Head(queue)] = "dropped"])
        BY <1>6, Zenon DEF Register, RegisterPanics, StopLoop, Said
      <3>2. ASSUME NEW a \in Said
            PROVE  [answer EXCEPT ![Head(queue)] = a] \in [Clients -> Said]
        BY Zenon DEF ControlInv
      <3>3. ASSUME NEW f \in [Clients -> Said]
            PROVE  Dropped(f) \in [Clients -> Said]
        BY DEF Dropped, Said
      <3>4. answer \in [Clients -> Said] /\ "dropped" \in Said
        BY DEF ControlInv, Said
      <3> QED BY <3>1, <3>2, <3>3, <3>4, Zenon
    <2> QED BY <2>1, <2>2, <2>3, Zenon DEF ControlInv
  <1>7. ASSUME NEW c \in tasks, NEW result \in Said, End(c, result), UNCHANGED <<pc, known, loop, queue>>
        PROVE  ControlInv'
    BY <1>7, EndIsTyped DEF TasksInv
  <1>8. ASSUME NEW c \in tasks, Finish(c) \/ Cancel(c)
        PROVE  ControlInv'
    <2>1. UNCHANGED <<pc, known, loop, queue>> /\ \E result \in Said : End(c, result)
      BY <1>8, ZenonT(60) DEF Finish, Cancel, Said
    <2> QED BY <1>7, <2>1
  <1>9. ASSUME NEW c \in tasks, NEW p \in DOMAIN calls[c],
               \/ Unknown(c, p) \/ LoadCached(c, p) \/ LoadPrivate(c, p)
               \/ RunOnEngine(c, p) \/ Expand(c, p) \/ OutputPanics(c, p)
        PROVE  ControlInv'
    <2>1. UNCHANGED <<pc, known, loop, queue>>
      BY <1>9, Zenon DEF Unknown, LoadCached, LoadPrivate, RunOnEngine, Expand, OutputPanics, client
    <2>2. \/ \E result \in Said : End(c, result)
          \/ UNCHANGED <<answer, tasks>> /\ \A e \in Clients : e # c => calls'[e] = calls[e]
      BY <1>9, ZenonT(60) DEF Unknown, LoadCached, LoadPrivate, RunOnEngine, Expand, OutputPanics, client,
                         Said, TasksInv
    <2> QED BY <1>7, <2>1, <2>2, CallsAreTyped
  <1>10. ASSUME NEW job \in work, ParseShared(job) \/ Parse(job) \/ Run(job)
         PROVE  ControlInv'
    <2> DEFINE c == job.client
    <2>1. UNCHANGED <<pc, known, loop, queue>>
      BY <1>10, Zenon DEF ParseShared, Parse, Run, client
    <2>2. \/ UNCHANGED <<answer, tasks, calls>>
          \/ c \in tasks /\ \E result \in Said : End(c, result)
          \/ /\ c \in tasks /\ UNCHANGED <<answer, tasks>>
             /\ \A e \in Clients : e # c => calls'[e] = calls[e]
      BY <1>10, ZenonT(60) DEF ParseShared, Parse, Run, client, Awaited, Said, TasksInv
    <2> HIDE DEF c
    <2>3. CASE UNCHANGED <<answer, tasks, calls>>
      BY <1>1, <2>1, <2>3 DEF ControlInv
    <2> QED BY <1>7, <2>1, <2>2, <2>3, CallsAreTyped
  <1>11. CASE UNCHANGED vars
    BY <1>1, <1>11 DEF vars, ControlInv
  <1> QED BY <1>2, <1>3, <1>5, <1>6, <1>8, <1>9, <1>10, <1>11, ZenonT(60) DEF Next, Step

(* What the library says of finite sets; its operators are those used here.*)
Finite == INSTANCE FiniteSetTheorems

LEMMA SameCardinality ==
    /\ \A S : Finite!IsFiniteSet(S) <=> IsFiniteSet(S)
    /\ \A S : Finite!Cardinality(S) = Cardinality(S)
  <1>1. \A S : Finite!IsFiniteSet(S) <=> IsFiniteSet(S)
    BY Zenon DEF Finite!IsFiniteSet, IsFiniteSet
  <1>2. \A S : Finite!Cardinality(S) = Cardinality(S)
    BY ZenonT(60) DEF Finite!Cardinality, Cardinality
  <1> QED BY <1>1, <1>2

LEMMA CardinalityFacts ==
    /\ IsFiniteSet({}) /\ Cardinality({}) = 0
    /\ \A S, T : IsFiniteSet(S) /\ T \subseteq S =>
           IsFiniteSet(T) /\ Cardinality(T) <= Cardinality(S)
    /\ \A S : IsFiniteSet(S) => Cardinality(S) \in Nat
    /\ \A S, x : IsFiniteSet(S) =>
           /\ IsFiniteSet(S \cup {x})
           /\ Cardinality(S \cup {x}) \in {Cardinality(S), Cardinality(S) + 1}
  <1>1. IsFiniteSet({}) /\ Cardinality({}) = 0
    BY SameCardinality, Finite!FS_EmptySet
  <1>2. ASSUME NEW S, NEW T, IsFiniteSet(S), T \subseteq S
        PROVE  IsFiniteSet(T) /\ Cardinality(T) <= Cardinality(S)
    BY <1>2, SameCardinality, Finite!FS_Subset
  <1>3. ASSUME NEW S, IsFiniteSet(S)
        PROVE  Cardinality(S) \in Nat
    BY <1>3, SameCardinality, Finite!FS_CardinalityType
  <1>4. ASSUME NEW S, NEW x, IsFiniteSet(S)
        PROVE  /\ IsFiniteSet(S \cup {x})
               /\ Cardinality(S \cup {x}) \in {Cardinality(S), Cardinality(S) + 1}
    BY <1>4, SameCardinality, Finite!FS_AddElement
  <1> QED BY <1>1, <1>2, <1>3, <1>4, Zenon

(* Jobs are added only while the queue of the engines has room. *)
LEMMA WorkInvNext ==
    ASSUME WorkInv, [Next]_vars
    PROVE  WorkInv'
  <1>1. ASSUME work' \subseteq work
        PROVE  WorkInv'
    <2>1. IsFiniteSet(work') /\ Cardinality(work') <= Cardinality(work)
      BY <1>1, CardinalityFacts DEF WorkInv
    <2>2. Cardinality(work) \in Nat /\ Cardinality(work') \in Nat
      BY <2>1, CardinalityFacts DEF WorkInv
    <2> QED BY <2>1, <2>2, Capacities DEF WorkInv
  <1>2. ASSUME NEW job, work' = work \cup {job}, ~Full
        PROVE  WorkInv'
    <2>1. /\ IsFiniteSet(work \cup {job}) /\ Cardinality(work) \in Nat
          /\ Cardinality(work \cup {job}) \in {Cardinality(work), Cardinality(work) + 1}
      BY CardinalityFacts, ZenonT(60) DEF WorkInv
    <2> QED BY <1>2, <2>1, Capacities DEF WorkInv, Full
  <1>3. ASSUME NEW c \in Clients,
               \/ CreateFile(c) \/ WriteFile(c) \/ OpenLocal(c) \/ Await(c) \/ Leave(c)
               \/ serve_request(c) \/ register_function(c) \/ register_composition(c)
        PROVE  work' = work
    BY <1>3, Zenon DEF CreateFile, WriteFile, OpenLocal, Await, Leave, serve_request,
                       register_function, register_composition, Send
  <1>4. CASE Spawn \/ Register \/ RegisterPanics
    BY <1>1, <1>4, Zenon DEF Spawn, Register, RegisterPanics
  <1>5. ASSUME NEW c \in tasks, Finish(c) \/ Cancel(c)
        PROVE  work' = work
    BY <1>5 DEF Finish, Cancel
  <1>6. ASSUME NEW c \in tasks, NEW p \in DOMAIN calls[c],
               \/ Unknown(c, p) \/ LoadCached(c, p) \/ LoadPrivate(c, p)
               \/ RunOnEngine(c, p) \/ Expand(c, p) \/ OutputPanics(c, p)
        PROVE  work' = work \/ (~Full /\ \E job : work' = work \cup {job})
    BY <1>6, Zenon DEF Unknown, LoadCached, LoadPrivate, RunOnEngine, Expand, OutputPanics
  <1>7. ASSUME NEW job \in work, ParseShared(job) \/ Parse(job) \/ Run(job)
        PROVE  work' \subseteq work
    BY <1>7 DEF ParseShared, Parse, Run
  <1>8. CASE UNCHANGED vars
    BY <1>1, <1>8 DEF vars
  <1>9. \/ work' \subseteq work
        \/ ~Full /\ \E job : work' = work \cup {job}
        \/ Spawn \/ Register \/ RegisterPanics
        \/ UNCHANGED vars
    BY <1>3, <1>5, <1>6, <1>7, Zenon DEF Next, Step
  <1> QED BY <1>1, <1>2, <1>4, <1>8, <1>9, Zenon

(* Every alternative has exactly one shared future, the command channel    *)
(* and the queue of the engines stay within their capacities, and a client *)
(* without a task has no call under way, for any capacities.               *)
THEOREM CapacitiesAreKept == Spec => []TypeOK
  <1>1. Init => ControlInv /\ WorkInv
    <2> SUFFICES ASSUME Init PROVE ControlInv /\ WorkInv
      OBVIOUS
    <2>1. /\ pc \in [Clients -> Places] /\ answer \in [Clients -> Said] /\ known \in [Clients -> BOOLEAN]
          /\ loop \in {"running", "stopped"}
      BY ZenonT(60) DEF Init, Places, Said
    <2>2. tasks \subseteq Clients /\ \A c \in Clients \ tasks : calls[c] = Empty
      BY DEF Init
    <2>3. Len(queue) <= CHANNEL
      BY Capacities DEF Init
    <2>4. WorkInv
      BY CardinalityFacts, Capacities DEF Init, WorkInv
    <2> QED BY <2>1, <2>2, <2>3, <2>4, Zenon DEF ControlInv
  <1>2. IInv /\ ControlInv /\ WorkInv /\ [Next]_vars => ControlInv' /\ WorkInv'
    BY ControlInvNext, WorkInvNext DEF IInv
  <1>3. ASSUME IInv, CacheInv, ControlInv, WorkInv
        PROVE  TypeOK
    <2>1. \A i \in DOMAIN queue : queue[i] \in Clients
      BY <1>3 DEF IInv, RegistryInv
    <2>2. DOMAIN loads = Keys /\ \A k \in DOMAIN loads : loads[k].state \in {"idle", "queued", "done"}
      BY <1>3 DEF CacheInv, LoadsInv
    <2> QED BY <1>3, <2>1, <2>2, ZenonT(60) DEF TypeOK, ControlInv, WorkInv, Places, Said
  <1> QED BY <1>1, <1>2, <1>3, IInvHolds, CacheInvHolds, PTL DEF Spec
=============================================================================
