--------------------------- MODULE RegistryProofs ---------------------------
(***************************************************************************)
(* The registry of the server for any number of clients and calls: it only *)
(* grows, and compositions are well founded.                               *)
(***************************************************************************)
EXTENDS Server, TLAPS

(* The solvers are given time, for slow or busy machines. *)
USE SMTT(60), ZenonT(30)

(* What entries look like.  Alternatives are those of the system, of the   *)
(* preloaded functions and of the clients' calls.                          *)
Alternatives ==
    {Alternative(SystemEngine, "")} \cup {Alternative(CHOOSE e \in Engines : TRUE, n) : n \in Preloaded}
    \cup {Alternative(script[c].engine, PathOf(c)) : c \in Clients}
Shaped(entry) ==
    /\ entry = [kind |-> entry.kind, alternatives |-> entry.alternatives,
                metadata |-> entry.metadata, dependencies |-> entry.dependencies,
                output_map |-> entry.output_map]
    /\ entry.alternatives \in Seq(Alternatives)
    /\ \A i, j \in DOMAIN entry.alternatives :
           entry.alternatives[i].engine = entry.alternatives[j].engine => i = j
    /\ entry.kind # "composition" => 1 \in DOMAIN entry.alternatives

RegistryInv ==
    /\ script \in Scripts
    /\ queue \in Seq(Clients)
    /\ \A n \in DOMAIN function_map : Shaped(function_map[n])

(* Composed of registered names only. *)
ClosedInv ==
    \A n \in DOMAIN function_map : \A d \in DOMAIN function_map[n].dependencies :
        function_map[n].dependencies[d].function \in DOMAIN function_map

-----------------------------------------------------------------------------
(* WithEntries adds what is new. *)
LEMMA WithEntriesAdds ==
    ASSUME NEW fmap, NEW new, NEW n \in DOMAIN new
    PROVE  n \in DOMAIN WithEntries(fmap, new) /\ WithEntries(fmap, new)[n] = new[n]
  BY DEF WithEntries

(* insert_compositions: names that are new, each for the item of its name, *)
(* whose statements apply functions that the map had before.               *)
LEMMA NewNamesShape ==
    ASSUME NEW fmap, NEW module, Len(module) \in Nat, DOMAIN module = 1 .. Len(module),
           \A i \in DOMAIN module : ItemValid(fmap, module, i),
           NEW n \in NewNames(fmap, module)
    PROVE  /\ n \notin DOMAIN fmap
           /\ ItemNamed(module, n) \in Compositions(module)
  <1>1. PICK i \in InsertedItems(fmap, module) : n = module[i].name
    BY DEF NewNames
  <1>2. i \in Compositions(module) /\ i \in Nat /\ ~Taken(fmap, module, i)
    BY <1>1 DEF InsertedItems, Compositions
  <1>3. n \notin DOMAIN fmap
    BY <1>1, <1>2 DEF Taken
  <1>4. ASSUME NEW j \in Compositions(module), module[j].name = n
        PROVE  i <= j
    <2>1. j \in Nat /\ ~(j < i)
      BY <1>1, <1>2, <1>4 DEF Taken, Compositions
    <2> QED BY <2>1, <1>2
  <1>5. ItemNamed(module, n) \in Compositions(module)
    BY <1>1, <1>2, <1>4, Zenon DEF ItemNamed
  <1> QED BY <1>3, <1>5

LEMMA NewDependencies ==
    ASSUME NEW fmap, NEW module, Len(module) \in Nat, DOMAIN module = 1 .. Len(module),
           \A i \in DOMAIN module : ItemValid(fmap, module, i),
           NEW item \in Compositions(module),
           NEW d \in DOMAIN composition_from_module(module, item).dependencies
    PROVE  composition_from_module(module, item).dependencies[d].function \in DOMAIN fmap
  <1>1. item \in DOMAIN module /\ module[item].kind = "composition"
    BY DEF Compositions
  <1>2. composition_from_module(module, item).dependencies = Dependencies(module, item)
    BY DEF composition_from_module, CompositionEntry
  <1>3. /\ d \in DOMAIN module[item].statements
        /\ Dependencies(module, item)[d].function = module[item].statements[d].function
    BY <1>2, Zenon DEF Dependencies
  <1>4. StatementValid(module, item, d)
    BY <1>1, <1>3 DEF ItemValid, Statements
  <1>5. module[item].statements[d].function \in Declared(module, item)
    BY <1>1, <1>4 DEF StatementValid, JoinReached, Statements
  <1>6. PICK j \in 1 .. item - 1 : /\ module[j].kind = "declaration"
                                   /\ module[j].name = module[item].statements[d].function
    BY <1>5 DEF Declared
  <1>7. j \in DOMAIN module
    BY <1>1, <1>6
  <1>8. module[j].name \in DOMAIN fmap
    BY <1>6, <1>7 DEF ItemValid, HeaderValid, DeclarationValid
  <1> QED BY <1>2, <1>3, <1>6, <1>8

(* A composition's entry has no alternatives. *)
LEMMA CompositionShaped ==
    ASSUME NEW module, NEW item
    PROVE  /\ Shaped(composition_from_module(module, item))
           /\ composition_from_module(module, item).kind = "composition"
  BY DEF Shaped, composition_from_module, CompositionEntry

-----------------------------------------------------------------------------
(* What one registration may do to the map. *)
AllKept(fmap, new) ==
    \A n \in DOMAIN fmap : n \in DOMAIN new /\ EntryKept(fmap[n], new[n])
NewAreClosed(fmap, new) ==
    \A n \in DOMAIN new \ DOMAIN fmap : \A d \in DOMAIN new[n].dependencies :
        new[n].dependencies[d].function \in DOMAIN fmap
AllShaped(fmap) == \A n \in DOMAIN fmap : Shaped(fmap[n])
GoodStep(fmap, new) == AllKept(fmap, new) /\ NewAreClosed(fmap, new) /\ AllShaped(new)

LEMMA ShapedIsKept == ASSUME NEW entry, Shaped(entry) PROVE EntryKept(entry, entry)
  BY DEF Shaped, EntryKept

LEMMA NothingIsGood == ASSUME NEW fmap, AllShaped(fmap) PROVE GoodStep(fmap, fmap)
  BY ShapedIsKept DEF GoodStep, AllKept, NewAreClosed, AllShaped

(* fmap_insert_function, for a new name and for a further alternative. *)
LEMMA NewFunctionIsGood ==
    ASSUME NEW fmap, AllShaped(fmap), NEW key, key \notin DOMAIN fmap,
           NEW kind, NEW alternative \in Alternatives, NEW metadata
    PROVE  GoodStep(fmap, WithEntries(fmap, OnlyEntry(key, FunctionEntry(kind, alternative, metadata))))
  <1> DEFINE entry == FunctionEntry(kind, alternative, metadata)
             add == OnlyEntry(key, entry)
             new == WithEntries(fmap, add)
  <1>1. DOMAIN add = {key} /\ add[key] = entry
    BY DEF OnlyEntry
  <1>2. Shaped(entry)
    BY DEF Shaped, FunctionEntry
  <1>3. entry.dependencies = <<>>
    BY DEF FunctionEntry
  <1> HIDE DEF entry, add
  <1>4. /\ DOMAIN new = {key} \cup DOMAIN fmap
        /\ new[key] = entry
        /\ \A n \in DOMAIN fmap : new[n] = fmap[n]
    BY <1>1 DEF WithEntries
  <1> HIDE DEF new
  <1>5. AllKept(fmap, new)
    BY <1>4, ShapedIsKept DEF AllKept, AllShaped
  <1>6. NewAreClosed(fmap, new)
    BY <1>3, <1>4 DEF NewAreClosed
  <1>7. AllShaped(new)
    BY <1>2, <1>4 DEF AllShaped
  <1> QED BY <1>5, <1>6, <1>7 DEF GoodStep, new, add, entry

LEMMA ExtendedRecord ==
    ASSUME NEW k, NEW a, NEW m, NEW d, NEW o, NEW alternative
    PROVE  Extended([kind |-> k, alternatives |-> a, metadata |-> m, dependencies |-> d,
                     output_map |-> o], alternative)
             = [kind |-> k, alternatives |-> Append(a, alternative), metadata |-> m,
                dependencies |-> d, output_map |-> o]
  BY DEF Extended

LEMMA ExtendedIsGood ==
    ASSUME NEW entry, Shaped(entry), NEW kind, NEW alternative \in Alternatives,
           MayExtend(entry, kind, alternative)
    PROVE  Shaped(Extended(entry, alternative)) /\ EntryKept(entry, Extended(entry, alternative))
  <1> DEFINE old == entry.alternatives
             longer == Append(old, alternative)
             after == Extended(entry, alternative)
  <1>1. old \in Seq(Alternatives)
    BY DEF Shaped
  <1>2. /\ after = [kind |-> entry.kind, alternatives |-> longer,
                    metadata |-> entry.metadata, dependencies |-> entry.dependencies,
                    output_map |-> entry.output_map]
    <2> DEFINE same == [kind |-> entry.kind, alternatives |-> entry.alternatives,
                        metadata |-> entry.metadata, dependencies |-> entry.dependencies,
                        output_map |-> entry.output_map]
    <2>1. entry = same
      BY DEF Shaped
    <2>2. Extended(same, alternative) =
              [kind |-> entry.kind, alternatives |-> longer,
               metadata |-> entry.metadata, dependencies |-> entry.dependencies,
               output_map |-> entry.output_map]
      BY ExtendedRecord
    <2> HIDE DEF same
    <2> QED BY <2>1, <2>2
  <1>3. /\ longer \in Seq(Alternatives)
        /\ Len(old) \in Nat /\ DOMAIN old = 1 .. Len(old)
        /\ DOMAIN longer = 1 .. Len(old) + 1
        /\ \A i \in 1 .. Len(old) : longer[i] = old[i]
        /\ longer[Len(old) + 1] = alternative
    BY <1>1
  <1>4. \A i \in DOMAIN old : old[i].engine # alternative.engine
    BY DEF MayExtend
  <1>5. \A i, j \in DOMAIN old : old[i].engine = old[j].engine => i = j
    BY DEF Shaped
  <1> HIDE DEF longer, old
  <1>6. ASSUME NEW i \in DOMAIN longer, NEW j \in DOMAIN longer, longer[i].engine = longer[j].engine
        PROVE  i = j
    <2>1. CASE i \in 1 .. Len(old) /\ j \in 1 .. Len(old)
      BY <2>1, <1>3, <1>5, <1>6
    <2>2. CASE i = Len(old) + 1 /\ j \in 1 .. Len(old)
      BY <2>2, <1>3, <1>4, <1>6
    <2>3. CASE i \in 1 .. Len(old) /\ j = Len(old) + 1
      BY <2>3, <1>3, <1>4, <1>6
    <2> QED BY <2>1, <2>2, <2>3, <1>3
  <1>7. /\ after.kind = entry.kind /\ after.metadata = entry.metadata
        /\ after.dependencies = entry.dependencies /\ after.alternatives = longer
        /\ after.output_map = entry.output_map
    BY <1>2
  <1>8. Shaped(after)
    BY <1>2, <1>3, <1>6, <1>7 DEF Shaped
  <1>9. EntryKept(entry, after)
    BY <1>3, <1>6, <1>7 DEF EntryKept, old
  <1> QED BY <1>8, <1>9

LEMMA InsertFunctionIsGood ==
    ASSUME NEW fmap, AllShaped(fmap), NEW key, NEW kind,
           NEW alternative \in Alternatives, NEW metadata
    PROVE  GoodStep(fmap, fmap_insert_function(fmap, key, kind, alternative, metadata).map)
  <1>1. CASE key \notin DOMAIN fmap
    <2> DEFINE new == WithEntries(fmap, OnlyEntry(key, FunctionEntry(kind, alternative, metadata)))
    <2>1. fmap_insert_function(fmap, key, kind, alternative, metadata).map = new
      BY <1>1 DEF fmap_insert_function, Accepted
    <2>2. GoodStep(fmap, new)
      BY <1>1, NewFunctionIsGood
    <2> HIDE DEF new
    <2> QED BY <2>1, <2>2
  <1>2. CASE key \in DOMAIN fmap /\ MayExtend(fmap[key], kind, alternative)
    <2> DEFINE longer == Extended(fmap[key], alternative)
               new == [fmap EXCEPT ![key] = longer]
    <2>1. fmap_insert_function(fmap, key, kind, alternative, metadata).map = new
      BY <1>2 DEF fmap_insert_function, Accepted
    <2>2. Shaped(longer) /\ EntryKept(fmap[key], longer)
      BY <1>2, ExtendedIsGood DEF AllShaped
    <2> HIDE DEF longer
    <2>3. /\ DOMAIN new = DOMAIN fmap /\ new[key] = longer
          /\ \A n \in DOMAIN fmap : n # key => new[n] = fmap[n]
      BY <1>2
    <2> HIDE DEF new
    <2>4. AllKept(fmap, new)
      BY <2>2, <2>3, ShapedIsKept DEF AllKept, AllShaped
    <2>5. NewAreClosed(fmap, new)
      BY <2>3 DEF NewAreClosed
    <2>6. AllShaped(new)
      BY <2>2, <2>3 DEF AllShaped
    <2> QED BY <2>1, <2>4, <2>5, <2>6 DEF GoodStep
  <1>3. CASE key \in DOMAIN fmap /\ ~MayExtend(fmap[key], kind, alternative)
    <2>1. fmap_insert_function(fmap, key, kind, alternative, metadata).map = fmap
      BY <1>3 DEF fmap_insert_function, Refused
    <2> QED BY <2>1, NothingIsGood
  <1> QED BY <1>1, <1>2, <1>3

LEMMA InsertCompositionsIsGood ==
    ASSUME NEW fmap, AllShaped(fmap), NEW module,
           Len(module) \in Nat, DOMAIN module = 1 .. Len(module)
    PROVE  GoodStep(fmap, insert_compositions(fmap, module).map)
  <1>1. CASE \E i \in DOMAIN module : ~ItemValid(fmap, module, i)
    <2>1. insert_compositions(fmap, module).map = fmap
      BY <1>1 DEF insert_compositions, Refused
    <2> QED BY <2>1, NothingIsGood
  <1>2. CASE \A i \in DOMAIN module : ItemValid(fmap, module, i)
    <2> DEFINE names == NewNames(fmap, module)
               new == WithCompositions(fmap, module)
    <2>1. insert_compositions(fmap, module).map = new
      BY <1>2 DEF insert_compositions
    <2>2. \A n \in names : n \notin DOMAIN fmap /\ ItemNamed(module, n) \in Compositions(module)
      BY <1>2, NewNamesShape
    <2> HIDE DEF names
    <2>3. /\ DOMAIN new = names \cup DOMAIN fmap
          /\ \A n \in names : new[n] = composition_from_module(module, ItemNamed(module, n))
          /\ \A n \in DOMAIN fmap : new[n] = fmap[n]
      BY <2>2 DEF WithCompositions, names
    <2> HIDE DEF new
    <2>4. \A n \in names : Shaped(new[n])
      BY <2>3, CompositionShaped
    <2>5. \A n \in names : \A d \in DOMAIN new[n].dependencies :
              new[n].dependencies[d].function \in DOMAIN fmap
      BY <1>2, <2>2, <2>3, NewDependencies
    <2>6. AllKept(fmap, new)
      BY <2>3, ShapedIsKept DEF AllKept, AllShaped
    <2>7. NewAreClosed(fmap, new)
      BY <2>3, <2>5 DEF NewAreClosed
    <2>8. AllShaped(new)
      BY <2>3, <2>4 DEF AllShaped
    <2> QED BY <2>1, <2>6, <2>7, <2>8 DEF GoodStep
  <1> QED BY <1>1, <1>2

LEMMA RegisterIsGood ==
    ASSUME RegistryInv, Register
    PROVE  GoodStep(function_map, function_map')
  <1> DEFINE c == Head(queue)
             call == script[c]
  <1>1. c \in Clients
    BY DEF RegistryInv, Register
  <1>2. function_map' = Registered(call).map
    BY DEF Register
  <1>3. AllShaped(function_map)
    BY DEF RegistryInv, AllShaped
  <1>4. Len(call.module) \in Nat /\ DOMAIN call.module = 1 .. Len(call.module)
    BY <1>1, ScriptsTyped DEF RegistryInv
  <1>5. Alternative(call.engine, PathOf(c)) \in Alternatives
    BY <1>1, Zenon DEF Alternatives
  <1> HIDE DEF c
  <1>6. CASE call.kind = "composition"
    <2>1. Registered(call) = insert_compositions(function_map, call.module)
      BY <1>6 DEF Registered
    <2> QED BY <2>1, <1>2, <1>3, <1>4, InsertCompositionsIsGood
  <1>7. CASE call.kind # "composition" /\ PathOf(c) \notin DOMAIN files
    <2>1. Registered(call) = Refused(function_map)
      BY <1>7 DEF Registered, PathOf
    <2> QED BY <2>1, <1>2, <1>3, NothingIsGood DEF Refused
  <1>8. CASE call.kind # "composition" /\ PathOf(c) \in DOMAIN files
    <2>1. Registered(call) = fmap_insert_function(function_map, call.name, "function",
                                 Alternative(call.engine, PathOf(c)), call.metadata)
      BY <1>8 DEF Registered, PathOf
    <2> QED BY <2>1, <1>2, <1>3, <1>5, InsertFunctionIsGood
  <1> QED BY <1>6, <1>7, <1>8

-----------------------------------------------------------------------------
(* Only Register changes the map, and the channel holds clients. *)
LEMMA StepsOfTheRegistry ==
    ASSUME RegistryInv, [Next]_vars
    PROVE  /\ script' = script
           /\ queue' \in Seq(Clients)
           /\ function_map' = function_map \/ Register
  <1>0. queue \in Seq(Clients)
    BY DEF RegistryInv
  <1>1. CASE UNCHANGED vars
    BY <1>0, <1>1 DEF vars
  <1>2. ASSUME NEW c \in Clients, CreateFile(c) \/ WriteFile(c) \/ OpenLocal(c) \/ Await(c) \/ Leave(c)
        PROVE  UNCHANGED <<script, queue, function_map>>
    BY <1>2 DEF CreateFile, WriteFile, OpenLocal, Await, Leave, registry
  <1>3. ASSUME NEW c \in Clients, serve_request(c) \/ register_function(c) \/ register_composition(c)
        PROVE  UNCHANGED <<script, function_map>> /\ queue' \in Seq(Clients)
    BY <1>0, <1>3 DEF serve_request, register_function, register_composition, Send, registry
  <1>4. CASE Spawn
    BY <1>0, <1>4 DEF Spawn, registry, client
  <1>5. CASE Register
    <2>1. script' = script /\ queue # <<>> /\ (queue' = Tail(queue) \/ queue' = <<>>)
      BY <1>5 DEF Register, StopLoop
    <2>2. Tail(queue) \in Seq(Clients) /\ <<>> \in Seq(Clients)
      BY <1>0, <2>1
    <2>3. queue' \in Seq(Clients)
      BY <2>1, <2>2, ZenonT(40)
    <2> QED BY <1>5, <2>1, <2>3
  <1>6. CASE RegisterPanics
    BY <1>0, <1>6 DEF RegisterPanics, StopLoop, registry
  <1>7. ASSUME NEW c \in tasks, Finish(c) \/ Cancel(c)
        PROVE  UNCHANGED <<script, queue, function_map>>
    BY <1>7 DEF Finish, Cancel, registry
  <1>8. ASSUME NEW c \in tasks, NEW p \in DOMAIN calls[c],
               \/ Unknown(c, p) \/ LoadCached(c, p) \/ LoadPrivate(c, p)
               \/ RunOnEngine(c, p) \/ Expand(c, p) \/ OutputPanics(c, p)
        PROVE  UNCHANGED <<script, queue, function_map>>
    BY <1>8, ZenonT(60) DEF Unknown, LoadCached, LoadPrivate, RunOnEngine, Expand, OutputPanics, registry, client
  <1>9. ASSUME NEW job \in work, ParseShared(job) \/ Parse(job) \/ Run(job)
        PROVE  UNCHANGED <<script, queue, function_map>>
    BY <1>9 DEF ParseShared, Parse, Run, registry, client
  <1> QED BY <1>0, <1>1, <1>2, <1>3, <1>4, <1>5, <1>6, <1>7, <1>8, <1>9 DEF Next, Step

LEMMA RegistryInvInit == ASSUME Init PROVE RegistryInv /\ ClosedInv
  <1> DEFINE system == SystemRegistry(SystemNames, SystemEngine, "system")
             first == CHOOSE e \in Engines : TRUE
             add == [n \in Preloaded |-> FunctionEntry("function", Alternative(first, n), n)]
  <1>1. script \in Scripts /\ queue \in Seq(Clients)
    BY DEF Init
  <1>2. /\ DOMAIN function_map = Preloaded \cup SystemNames
        /\ \A n \in Preloaded : function_map[n] = FunctionEntry("function", Alternative(first, n), n)
        /\ \A n \in SystemNames \ Preloaded :
               function_map[n] = FunctionEntry("system", Alternative(SystemEngine, ""), "system")
    BY ZenonT(60) DEF Init, WithEntries, SystemRegistry
  <1>3. ASSUME NEW kind, NEW alternative \in Alternatives, NEW metadata
        PROVE  /\ Shaped(FunctionEntry(kind, alternative, metadata))
               /\ FunctionEntry(kind, alternative, metadata).dependencies = <<>>
    BY DEF Shaped, FunctionEntry
  <1>4. /\ \A n \in Preloaded : Alternative(first, n) \in Alternatives
        /\ Alternative(SystemEngine, "") \in Alternatives
    BY Zenon DEF Alternatives
  <1>5. \A n \in DOMAIN function_map : Shaped(function_map[n]) /\ function_map[n].dependencies = <<>>
    <2>1. ASSUME NEW n \in Preloaded
          PROVE  Shaped(function_map[n]) /\ function_map[n].dependencies = <<>>
      <3>1. function_map[n] = FunctionEntry("function", Alternative(first, n), n)
        BY <1>2, Zenon
      <3> QED BY <3>1, <1>3, <1>4, Zenon
    <2>2. ASSUME NEW n \in SystemNames \ Preloaded
          PROVE  Shaped(function_map[n]) /\ function_map[n].dependencies = <<>>
      <3>1. function_map[n] = FunctionEntry("system", Alternative(SystemEngine, ""), "system")
        BY <1>2, Zenon
      <3> QED BY <3>1, <1>3, <1>4, Zenon
    <2> QED BY <1>2, <2>1, <2>2, Zenon
  <1> QED BY <1>1, <1>5 DEF RegistryInv, ClosedInv

LEMMA RegistryInvNext ==
    ASSUME RegistryInv, [Next]_vars
    PROVE  RegistryInv' /\ GoodStep(function_map, function_map')
  <1>1. AllShaped(function_map)
    BY DEF RegistryInv, AllShaped
  <1>2. GoodStep(function_map, function_map')
    <2>1. CASE function_map' = function_map
      BY <1>1, <2>1, NothingIsGood
    <2>2. CASE Register
      BY <2>2, RegisterIsGood
    <2> QED BY <2>1, <2>2, StepsOfTheRegistry
  <1>3. Alternatives' = Alternatives
    BY StepsOfTheRegistry, Zenon DEF Alternatives, PathOf
  <1>4. \A n \in DOMAIN function_map' : Shaped(function_map'[n])
    BY <1>2 DEF GoodStep, AllShaped
  <1>5. \A n \in DOMAIN function_map' : Shaped(function_map[n])'
    BY <1>3, <1>4 DEF Shaped
  <1> QED BY <1>2, <1>5, StepsOfTheRegistry DEF RegistryInv

LEMMA ClosedInvNext ==
    ASSUME ClosedInv, GoodStep(function_map, function_map')
    PROVE  ClosedInv'
  <1> SUFFICES ASSUME NEW n \in DOMAIN function_map', NEW d \in DOMAIN function_map'[n].dependencies
               PROVE  function_map'[n].dependencies[d].function \in DOMAIN function_map'
    BY DEF ClosedInv
  <1>1. DOMAIN function_map \subseteq DOMAIN function_map'
    BY DEF GoodStep, AllKept
  <1>2. CASE n \in DOMAIN function_map
    <2>1. function_map'[n].dependencies = function_map[n].dependencies
      BY <1>2 DEF GoodStep, AllKept, EntryKept
    <2> QED BY <1>1, <1>2, <2>1 DEF ClosedInv
  <1>3. CASE n \notin DOMAIN function_map
    BY <1>1, <1>3 DEF GoodStep, NewAreClosed
  <1> QED BY <1>2, <1>3

(* A set of compositions after a registration holds some that were there,  *)
(* of which one depends on none of the set, or is all new, and new ones    *)
(* depend on what was there before.                                        *)
LEMMA NoCyclesNext ==
    ASSUME ClosedInv, NoCycles, GoodStep(function_map, function_map')
    PROVE  NoCycles'
  <1> DEFINE Depends(n) == {function_map'[n].dependencies[d].function :
                                d \in DOMAIN function_map'[n].dependencies}
  <1> SUFFICES ASSUME NEW S \in SUBSET {n \in DOMAIN function_map' : function_map'[n].kind = "composition"},
                      S # {}
               PROVE  \E n \in S : Depends(n) \cap S = {}
    BY Zenon DEF NoCycles, DependsOn
  <1> DEFINE T == S \cap DOMAIN function_map
  <1>1. ASSUME NEW n \in DOMAIN function_map
        PROVE  /\ function_map'[n].kind = function_map[n].kind
               /\ function_map'[n].dependencies = function_map[n].dependencies
    BY DEF GoodStep, AllKept, EntryKept
  <1>2. CASE T = {}
    <2>1. PICK n \in S : TRUE
      OBVIOUS
    <2>2. n \in DOMAIN function_map' \ DOMAIN function_map
      BY <1>2
    <2>3. Depends(n) \subseteq DOMAIN function_map
      BY <2>2 DEF GoodStep, NewAreClosed
    <2> QED BY <1>2, <2>3
  <1>3. CASE T # {}
    <2>1. T \in SUBSET {n \in DOMAIN function_map : function_map[n].kind = "composition"}
      BY <1>1
    <2>2. PICK n \in T : DependsOn(n) \cap T = {}
      BY <1>3, <2>1, ZenonT(60) DEF NoCycles
    <2>3. Depends(n) = DependsOn(n)
      BY <1>1, <2>2 DEF DependsOn
    <2>4. DependsOn(n) \subseteq DOMAIN function_map
      BY <2>2 DEF ClosedInv, DependsOn
    <2> QED BY <2>2, <2>3, <2>4
  <1> QED BY <1>2, <1>3

-----------------------------------------------------------------------------
(* What a task has read of an entry stays right for ever: whatever the     *)
(* clients register, entries stay, with the alternative that is chosen.    *)
THEOREM RegistryOnlyGrows == Spec => RegistryGrows
  <1>1. Init => RegistryInv
    BY RegistryInvInit
  <1>2. RegistryInv /\ [Next]_vars => RegistryInv'
    BY RegistryInvNext
  <1>3. RegistryInv /\ [Next]_vars =>
            [\A n \in DOMAIN function_map :
                n \in DOMAIN function_map' /\ EntryKept(function_map[n], function_map'[n])]_vars
    BY RegistryInvNext DEF GoodStep, AllKept
  <1> QED BY <1>1, <1>2, <1>3, PTL DEF Spec, RegistryGrows

(* Compositions are well founded, for any modules that clients register in *)
(* any order: no request can expand for ever.                              *)
THEOREM CompositionsAreWellFounded == Spec => []NoCycles
  <1>1. Init => RegistryInv /\ ClosedInv
    BY RegistryInvInit
  <1>2. Init => NoCycles
    <2> SUFFICES ASSUME Init PROVE NoCycles
      OBVIOUS
    <2>1. \A n \in DOMAIN function_map : function_map[n].kind # "composition"
      BY Zenon DEF Init, WithEntries, SystemRegistry, FunctionEntry
    <2> QED BY <2>1 DEF NoCycles
  <1>3. RegistryInv /\ ClosedInv /\ NoCycles /\ [Next]_vars => RegistryInv' /\ ClosedInv' /\ NoCycles'
    BY RegistryInvNext, ClosedInvNext, NoCyclesNext
  <1> QED BY <1>1, <1>2, <1>3, PTL DEF Spec
=============================================================================
