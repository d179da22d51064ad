-------------------------- MODULE FunctionRegistry --------------------------
(***************************************************************************)
(* The function registry (dispatcher/src/function_registry.rs) as          *)
(* operators on its map from names to entries, and the translation of a    *)
(* parsed module of compositions.  An option is a set with at most one     *)
(* element, and a result is a record that is either ok or not.             *)
(***************************************************************************)
EXTENDS Naturals, Sequences, FiniteSets, TLC

(* Entries: a function with the alternatives it can run as, in the order   *)
(* they were registered, or a composition.                                 *)
FunctionEntry(kind, alternative, metadata) ==
    [kind |-> kind, alternatives |-> <<alternative>>, metadata |-> metadata,
     dependencies |-> <<>>, output_map |-> {}]
CompositionEntry(composition, metadata) ==
    [kind |-> "composition", alternatives |-> <<>>, metadata |-> metadata,
     dependencies |-> composition.dependencies, output_map |-> composition.output_map]

Alternative(engine, path) == [engine |-> engine, path |-> path]
Metadata(inputs, outputs) == [inputs |-> inputs, outputs |-> outputs]

Refused(fmap) == [ok |-> FALSE, map |-> fmap]
Accepted(fmap) == [ok |-> TRUE, map |-> fmap]

Elements(seq) == {seq[i] : i \in DOMAIN seq}
IsFirst(seq, i) == \A j \in 1 .. i - 1 : seq[j] # seq[i]

OnlyEntry(key, entry) == [n \in {key} |-> entry]

(* Both maps; new entries take the place of old ones. *)
WithEntries(fmap, new) ==
    [n \in DOMAIN new \cup DOMAIN fmap |-> IF n \in DOMAIN new THEN new[n] ELSE fmap[n]]

(* Mutants: the new alternative replaces the others, or is the first. *)
Replaced(entry, alternative) == [entry EXCEPT !.alternatives = <<alternative>>]
ExtendedInFront(entry, alternative) ==
    [entry EXCEPT !.alternatives = <<alternative>> \o @]

(* lock_guard.push: the metadata stays that of the first registration. *)
Extended(entry, alternative) ==
    [entry EXCEPT !.alternatives = Append(@, alternative)]

(* A function of this kind may be extended by this alternative. *)
MayExtend(entry, kind, alternative) ==
    /\ entry.kind = kind
    /\ \A i \in DOMAIN entry.alternatives : entry.alternatives[i].engine # alternative.engine

fmap_insert_function(fmap, key, kind, alternative, metadata) ==
    IF key \notin DOMAIN fmap
    THEN Accepted(WithEntries(fmap, OnlyEntry(key, FunctionEntry(kind, alternative, metadata))))
    ELSE IF MayExtend(fmap[key], kind, alternative)
    THEN Accepted([fmap EXCEPT ![key] = Extended(fmap[key], alternative)])
    ELSE Refused(fmap)

(* FunctionRegistry::new: the functions of the system drivers. *)
SystemRegistry(names, engine, metadata) ==
    [n \in names |-> FunctionEntry("system", Alternative(engine, ""), metadata)]

-----------------------------------------------------------------------------
(* composition_from_module.  Items of a module are declarations of         *)
(* functions and compositions; a composition has statements, which apply a *)
(* function to sets: an argument or a return names the set of the function *)
(* and the identifier of the set in the composition.                       *)

(* The declaration that a name stands for at an item: the last before it. *)
Declared(module, item) ==
    {module[j].name : j \in {k \in 1 .. item - 1 : module[k].kind = "declaration"}}
Declaration(module, item, name) ==
    module[CHOOSE j \in 1 .. item - 1 :
               /\ module[j].kind = "declaration" /\ module[j].name = name
               /\ \A k \in j + 1 .. item - 1 :
                      ~(module[k].kind = "declaration" /\ module[k].name = name)]

(* The names of the sets of a composition, in the order in which they are  *)
(* numbered: parameters, returned sets, what the functions return.         *)
ReturnedBy(statements) ==
    LET upTo[s \in 0 .. Len(statements)] ==
            IF s = 0 THEN <<>>
            ELSE upTo[s - 1] \o [i \in DOMAIN statements[s].rets |-> statements[s].rets[i].ident]
    IN  upTo[Len(statements)]
SetNames(composition) ==
    composition.params \o composition.returns \o ReturnedBy(composition.statements)

(* Mutant: a set that was already numbered uses up a number too. *)
SetNumberByPlace(composition, name) ==
    LET names == SetNames(composition)
    IN  (CHOOSE i \in DOMAIN names : names[i] = name /\ IsFirst(names, i)) - 1

(* set_numbers: a new name gets the next number. *)
SetNumber(composition, name) ==
    LET names == SetNames(composition)
    IN  Cardinality({names[j] : j \in {k \in DOMAIN names : \A i \in 1 .. k : names[i] # name}})

(* output_map: the number of a returned set, and the last place at which   *)
(* it is returned.                                                         *)
OutputMap(composition) ==
    {<<SetNumber(composition, composition.returns[i]), i - 1>> :
        i \in {j \in DOMAIN composition.returns :
                  \A k \in j + 1 .. Len(composition.returns) :
                      composition.returns[k] # composition.returns[j]}}

(* A set that a function returns is new, or one that the composition       *)
(* returns and did not receive.                                            *)
ReturnSetsFresh(composition) ==
    LET made == ReturnedBy(composition.statements)
        known == Elements(composition.params) \cup Elements(composition.returns)
    IN  \A i \in DOMAIN made :
            \/ made[i] \in Elements(composition.returns) \ Elements(composition.params)
            \/ made[i] \notin known /\ IsFirst(made, i)

(* The checks of a statement up to its join order, and those after it.  An *)
(* order without strategies is left out.                                   *)
ArgumentsValid(composition, statement, declaration) ==
    /\ Len(statement.args) <= Len(declaration.params)
    /\ Len(statement.rets) <= Len(declaration.returns)
    /\ \A i \in DOMAIN statement.args :
           /\ statement.args[i].name \in Elements(declaration.params)
           /\ statement.args[i].ident \in Elements(SetNames(composition))
    /\ statement.strategies # <<>> =>
           Elements(statement.order) \subseteq Elements(declaration.params)
ReturnsValid(statement, declaration) ==
    \A i \in DOMAIN statement.rets : statement.rets[i].name \in Elements(declaration.returns)

(* The identifiers given for a set of the function, the last one counts. *)
Given(sets, name) ==
    {sets[i].ident : i \in {j \in DOMAIN sets :
        sets[j].name = name /\ \A k \in j + 1 .. Len(sets) : sets[k].name # name}}

(* The place of a name in a declaration is its first one. *)
SetIds(composition, declared, sets) ==
    [i \in DOMAIN declared |->
        {SetNumber(composition, n) :
            n \in {x \in Given(sets, declared[i]) : IsFirst(declared, i)}}]

Dependencies(module, item) ==
    LET composition == module[item]
    IN  [s \in DOMAIN composition.statements |->
            LET statement == composition.statements[s]
                declaration == Declaration(module, item, statement.function)
            IN  [function |-> statement.function,
                 inputs |-> SetIds(composition, declaration.params, statement.args),
                 outputs |-> SetIds(composition, declaration.returns, statement.rets)]]

(* Mutant: names that the module itself takes are not looked at. *)
NameIsOnlyNewInMap(fmap, module, item) == module[item].name \notin DOMAIN fmap

(* The name of a composition is not taken, by the registry or the module. *)
NameIsFree(fmap, module, item) ==
    /\ module[item].name \notin DOMAIN fmap
    /\ \A j \in 1 .. item - 1 :
           ~(module[j].kind = "composition" /\ module[j].name = module[item].name)

(* Mutant: a module may declare what is not registered. *)
AnyDeclaration(fmap, name) == TRUE

(* A declared function is registered. *)
DeclarationValid(fmap, name) == name \in DOMAIN fmap

(* What is checked before the statements of an item. *)
HeaderValid(fmap, module, item) ==
    IF module[item].kind = "declaration" THEN DeclarationValid(fmap, module[item].name)
    ELSE /\ NameIsFree(fmap, module, item)
         /\ \A i \in DOMAIN module[item].params : IsFirst(module[item].params, i)
         /\ ReturnSetsFresh(module[item])

Statements(module, item) ==
    IF module[item].kind = "declaration" THEN <<>> ELSE module[item].statements
JoinReached(module, item, s) ==
    LET statement == Statements(module, item)[s]
    IN  /\ statement.function \in Declared(module, item)
        /\ ArgumentsValid(module[item], statement,
                          Declaration(module, item, statement.function))
StatementValid(module, item, s) ==
    /\ JoinReached(module, item, s)
    /\ ReturnsValid(Statements(module, item)[s],
                    Declaration(module, item, Statements(module, item)[s].function))
ItemValid(fmap, module, item) ==
    /\ HeaderValid(fmap, module, item)
    /\ \A s \in DOMAIN Statements(module, item) : StatementValid(module, item, s)

(* from_parser_strategy panics on the keyword cross; the module is checked *)
(* in order, so that an error before it is returned instead.               *)
Panics(fmap, module) ==
    \E i \in DOMAIN module :
        /\ \A j \in 1 .. i - 1 : ItemValid(fmap, module, j)
        /\ HeaderValid(fmap, module, i)
        /\ \E s \in DOMAIN Statements(module, i) :
               /\ \A r \in 1 .. s - 1 : StatementValid(module, i, r)
               /\ JoinReached(module, i, s)
               /\ "cross" \in Elements(Statements(module, i)[s].strategies)

composition_from_module(module, item) ==
    CompositionEntry([dependencies |-> Dependencies(module, item),
                      output_map |-> OutputMap(module[item])],
                     Metadata(module[item].params, module[item].returns))

(* insert_compositions: the module is translated, then its compositions    *)
(* are inserted one after the other, up to the first whose name is taken.  *)
Compositions(module) == {i \in DOMAIN module : module[i].kind = "composition"}
Taken(fmap, module, i) ==
    \/ module[i].name \in DOMAIN fmap
    \/ \E j \in Compositions(module) : j < i /\ module[j].name = module[i].name
InsertedItems(fmap, module) ==
    {i \in Compositions(module) :
        \A j \in Compositions(module) : j <= i => ~Taken(fmap, module, j)}
ItemNamed(module, name) ==
    CHOOSE i \in Compositions(module) :
        /\ module[i].name = name
        /\ \A j \in Compositions(module) : module[j].name = name => i <= j
NewNames(fmap, module) == {module[i].name : i \in InsertedItems(fmap, module)}
WithCompositions(fmap, module) ==
    [n \in NewNames(fmap, module) \cup DOMAIN fmap |->
        IF n \in DOMAIN fmap THEN fmap[n]
        ELSE composition_from_module(module, ItemNamed(module, n))]
insert_compositions(fmap, module) ==
    IF \E i \in DOMAIN module : ~ItemValid(fmap, module, i) THEN Refused(fmap)
    ELSE [ok |-> InsertedItems(fmap, module) = Compositions(module),
          map |-> WithCompositions(fmap, module)]
=============================================================================
