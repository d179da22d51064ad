------------------------------ MODULE MCServer ------------------------------
(***************************************************************************)
(* The server with a system function, a preloaded function and clients     *)
(* that register, compose and request: calls that meet at the same names,  *)
(* files and futures.  Clients are alike, so that a combination of calls   *)
(* needs to be tried in one order only.                                    *)
(***************************************************************************)
EXTENDS Server

(* Calls.  Every record has the fields that some kind of call needs. *)
Call(kind, name) == [kind |-> kind, name |-> name, cold |-> FALSE, local |-> FALSE,
                     engine |-> "e1", binary |-> <<>>, metadata |-> "none", module |-> <<>>]
Request(name, cold) == [Call("request", name) EXCEPT !.cold = cold]
Function(name, engine, binary) ==
    [Call("function", name) EXCEPT !.engine = engine, !.binary = binary, !.metadata = engine]
Local(name, path) == [Function(name, "e1", <<path>>) EXCEPT !.local = TRUE]
Compose(module) == [Call("composition", module[Len(module)].name) EXCEPT !.module = module]

(* Modules. *)
Declare(name) == [kind |-> "declaration", name |-> name, params |-> <<"x">>, returns |-> <<"y">>]
Apply(function, from, to, strategies) ==
    [function |-> function, args |-> <<[name |-> "x", ident |-> from]>>,
     rets |-> <<[name |-> "y", ident |-> to]>>, order |-> <<"x">>, strategies |-> strategies]
Composition(name, returns, statements) ==
    [kind |-> "composition", name |-> name, params |-> <<"a">>, returns |-> returns,
     statements |-> statements]
Chain(name, first, second) ==
    Composition(name, <<"a", "b">>, <<Apply(first, "a", "i", <<>>), Apply(second, "i", "b", <<>>)>>)
Single(name, function, returns) ==
    Composition(name, returns, <<Apply(function, "a", "b", <<>>)>>)

MCCalls == <<
    Request("f", TRUE), Request("f", FALSE), Request("k", TRUE), Request("l", FALSE),
    Function("f", "e1", <<1, 1>>), Function("f", "e1", <<2>>), Function("f", "e2", <<3>>),
    Function("HTTP", "e1", <<4>>), Local("f", "p"),
    Compose(<<Declare("p"), Chain("k", "p", "p")>>),
    Compose(<<Declare("k"), Single("k", "k", <<"b">>)>>),
    Compose(<<Declare("f"), Single("k", "f", <<"b", "b">>), Single("l", "f", <<"b">>)>>),
    Compose(<<Declare("k"), Single("l", "k", <<"b">>)>>),
    Compose(<<Declare("p"), Single("k", "p", <<"b">>), Single("k", "p", <<"b">>)>>),
    Compose(<<Declare("p"), Composition("l", <<"b">>, <<Apply("p", "a", "b", <<"cross">>)>>)>>),
    Local("f", "missing"), Function("f", "other", <<5>>), Request("HTTP", FALSE)
    >>

(* The combinations, by the numbers of the calls. *)
Combinations == {
    <<1, 5, 6>>, <<1, 1, 5>>, <<2, 5, 6>>, <<1, 2, 5>>, <<1, 5, 7>>, <<1, 1, 9>>, <<1, 3, 8>>,
    <<3, 5, 12>>, <<4, 5, 12>>, <<4, 10, 13>>, <<3, 10, 14>>, <<3, 10, 15>>, <<3, 10, 11>>,
    <<3, 5, 11>>, <<5, 12, 14>>, <<5, 7, 9>>, <<1, 7, 10>>, <<1, 5, 17>>, <<2, 16, 17>>, <<5, 8, 18>>}

MCClients == 1 .. 3
MCScripts == {[c \in MCClients |-> MCCalls[t[c]]] : t \in Combinations}
=============================================================================
