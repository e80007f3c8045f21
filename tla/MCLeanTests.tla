----------------------------- MODULE MCLeanTests -----------------------------
(***************************************************************************)
(* Packages for LeanTests: one test with every annotation and every        *)
(* result, and two tests that run side by side.                            *)
(***************************************************************************)
EXTENDS LeanTests, TLC

CONSTANTS w1, w2
MCWorkers == {w1, w2}

A == <<"pkg", "a">>
B == <<"pkg", "b">>
D == <<"dep", "b">>
Pools == (A :> <<<<"str", "E">>, <<"num", 1>>>>) @@ (B :> <<<<"num", 2>>, <<"num", 3>>, <<"str", "F">>>>) @@ (D :> <<<<"str", "G">>>>)

Plain(n)  == <<"plain", n>>
Clever(i) == <<"clever", i>>
Results == {Ok, Abort(Plain(1), A), Abort(Plain(2), B), Abort(Clever(0), A), Abort(Clever(2), B), Abort(Clever(NoIndex), A),
            Abort(Clever(0), D)}
Annotations ==
    {<<"None">>, <<"Expected">>, <<"Coded", <<"Code", Plain(1)>>>>, <<"Coded", <<"ConstantName", "E">>>>,
     <<"Coded", <<"ConstantName", "F">>>>, <<"Coded", <<"ConstantName", "G">>>>,
     <<"Error", "ABORTED", <<>>, A>>, <<"Error", "ABORTED", <<<<"Code", Plain(2)>>>>, B>>,
     <<"Error", "ABORTED", <<<<"ConstantName", "E">>>>, A>>, <<"Error", "ABORTED", <<<<"ConstantName", "F">>>>, B>>,
     <<"Error", "ABORTED", <<<<"ConstantName", "G">>>>, D>>, <<"Error", "ARITHMETIC_ERROR", <<>>, A>>}
Leans == {"prints", "prints and marks", "marks", "broken", "hangs"}

Test(module, result, named, expected, lean, params) ==
    [module |-> module, target |-> TRUE, inIR |-> TRUE, aborts |-> TRUE, onDisk |-> TRUE,
     result |-> result, named |-> named, expected |-> expected, lean |-> lean, params |-> params]
Package(tests, builds, timeout) ==
    [tests |-> tests, pools |-> Pools, builds |-> builds, timeout |-> timeout, generate_only |-> FALSE, type_check_only |-> FALSE]
All == {"Prelude", "Generated", "package"}

Single == {Package([t |-> Test(A, r, n, e, l, <<"world", "ghost">>)], All, d) :
              r \in Results, n \in BOOLEAN, e \in Annotations, l \in Leans, d \in BOOLEAN}

\* Two tests, one of which may be left out, and builds that fail.
T(r, e, l, p) == Test(A, r, TRUE, e, l, p)
Few == {T(Ok, <<"None">>, "prints", <<>>), T(Abort(Plain(1), A), <<"None">>, "prints", <<"world">>),
        T(Abort(Plain(1), A), <<"Expected">>, "prints", <<"ghost">>), T(Ok, <<"None">>, "hangs", <<>>)}
Missing == UNION {{[x EXCEPT !.target = FALSE], [x EXCEPT !.inIR = FALSE], [x EXCEPT !.aborts = FALSE], [x EXCEPT !.onDisk = FALSE]} : x \in Few}
Pair == {Package([t |-> x, u |-> y], b, d) : x \in Few, y \in Few \cup Missing, b \in {All, All \ {"Generated"}, All \ {"package"}}, d \in BOOLEAN}
Modes == {[Package([t |-> x], All, FALSE) EXCEPT !.generate_only = g, !.type_check_only = c] :
             x \in Few \cup Missing, g \in BOOLEAN, c \in BOOLEAN} \cup {Package(<<>>, All, FALSE)}
MCPackages == Single \cup Pair \cup Modes

=============================================================================
