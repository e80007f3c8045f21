--------------------------- MODULE MCLeanProject ---------------------------
(* Small packages: a vault and its warden, an item stored in a bag, and the   *)
(* specifications of the vault in a package of their own.                     *)
EXTENDS LeanProject

MCAlphabet == <<"Admin", "App", "MoveStdlib", "Pkg", "Specs", "Sui", "_M", "add", "bag", "f", "g", "h", "Item", "item", "object", "option", "spec", "specs",
                "aborts", "asserts_cond", "ensures", "requires", "proved", "vault", "Vault", "warden", "Warden", "world", "Bag", "Option", "UID">>
MCUserPackage == <<"App">>

Mod(pkg, name) == [pkg |-> pkg, name |-> <<name>>, native |-> FALSE, natives |-> FALSE, world |-> FALSE, bag |-> FALSE]
Struct(mod, name, deps) == [mod |-> mod, name |-> <<name>>, deps |-> deps, fields |-> {}, native |-> FALSE, bag |-> FALSE]
Function(mod, name, face, sig, calls) ==
    [mod |-> mod, name |-> name, face |-> face, sig |-> sig, refs |-> {}, calls |-> calls, native |-> FALSE, group |-> 0,
     bagu |-> FALSE, hascode |-> FALSE, world |-> FALSE, boogie |-> FALSE, first |-> IF sig = {} THEN 0 ELSE Min(sig), target |-> 0]
If(c, S) == IF c THEN S ELSE {}

Bits == [vaultBag : BOOLEAN, vaultItem : BOOLEAN, wardenBag : BOOLEAN, wardenVault : BOOLEAN, itemUsesBag : BOOLEAN,
         storesItem : BOOLEAN, wardenCalls : BOOLEAN, storesVault : BOOLEAN, cycle : BOOLEAN, onWarden : BOOLEAN]

App == <<"App">>
Package(b) ==
    LET target == IF b.onWarden THEN 4 ELSE 3     \* the struct of the function that f_spec is about
    IN  [mods |-> <<[Mod(<<"Sui">>, "bag") EXCEPT !.natives = TRUE, !.bag = TRUE], Mod(App, "item"), Mod(App, "vault"),
                    Mod(App, "warden"), [Mod(<<"App", "Specs">>, "vault") EXCEPT !.name = <<"vault", "specs">>]>>,
         structs |-> <<[Struct(1, "Bag", {}) EXCEPT !.native = TRUE, !.bag = TRUE],
                       Struct(2, "Item", {}),
                       Struct(3, "Vault", If(b.vaultBag, {1}) \cup If(b.vaultItem, {2})),
                       Struct(4, "Warden", If(b.wardenBag, {1}) \cup If(b.wardenVault, {3}))>>,
         fns |-> <<[Function(1, <<"add">>, "", {1}, {}) EXCEPT !.native = TRUE],
                   Function(2, <<"h">>, "", {2}, If(b.itemUsesBag, {<<1, {}>>})),
                   Function(3, <<"f">>, "", {3}, If(b.storesItem, {<<1, {<<"struct", 2>>}>>})),
                   Function(3, <<"f">>, "aborts", {3}, {}),
                   Function(4, <<"f">>, "", {4}, If(b.wardenCalls, {<<3, {}>>}) \cup If(b.storesVault, {<<1, {<<"struct", 3>>}>>})),
                   Function(4, <<"f">>, "aborts", {4}, If(b.wardenCalls, {<<4, {}>>})),
                   Function(5, <<"f", "spec">>, "requires", {target}, {}),
                   Function(5, <<"f", "spec">>, "ensures", {target}, {<<target, {}>>} \cup If(b.cycle, {<<5, {}>>})),
                   [Function(5, <<"f", "spec">>, "aborts", {target}, {<<7, {}>>}) EXCEPT !.target = IF b.onWarden THEN 6 ELSE 4]>>]
\* The same with the World: objects and dynamic fields go through its functions.
WorldBits == [owner : {2, 5}, itemWorld : BOOLEAN, wardenVault : BOOLEAN, storesVault : BOOLEAN, vaultBag : BOOLEAN, twoNames : BOOLEAN, inVector : BOOLEAN]
WorldPackage(b) ==
    LET typed(s) == IF b.inVector THEN <<"vector", s>> ELSE <<"struct", s>>
    IN  [mods |-> <<[Mod(<<"Sui">>, "bag") EXCEPT !.natives = TRUE, !.bag = TRUE], [Mod(<<"Sui">>, "object") EXCEPT !.natives = TRUE],
                    Mod(<<"MoveStdlib">>, "option"), [Mod(<<"Sui">>, "world") EXCEPT !.native = TRUE, !.world = TRUE],
                    Mod(App, "vault"), Mod(<<"Admin">>, IF b.twoNames THEN "vault" ELSE "warden")>>,
         structs |-> <<[Struct(1, "Bag", {}) EXCEPT !.native = TRUE, !.bag = TRUE], [Struct(2, "UID", {}) EXCEPT !.native = TRUE],
                       Struct(3, "Option", {}),
                       Struct(b.owner, "Item", {2}), [Struct(5, "vault", If(b.vaultBag, {1}) \cup {4}) EXCEPT !.fields = {<<"g">>}],
                       Struct(6, "Warden", If(b.wardenVault, {5}))>>,
         fns |-> <<[Function(1, <<"add">>, "", {1}, {}) EXCEPT !.native = TRUE], [Function(4, <<"add">>, "", {}, {}) EXCEPT !.native = TRUE],
                   [Function(2, <<"h">>, "", {2}, {}) EXCEPT !.native = TRUE],
                   [Function(b.owner, <<"add">>, "", {4}, If(b.itemWorld, {<<2, {typed(4)}>>})) EXCEPT !.world = b.itemWorld],
                   [Function(5, <<"g">>, "", {5}, {<<4, {}>>, <<2, {typed(4)}>>}) EXCEPT !.world = TRUE],
                   [Function(6, <<"g">>, "", {6}, {<<5, {}>>} \cup If(b.storesVault, {<<2, {typed(5)}>>})) EXCEPT !.world = TRUE]>>]
\* Not in the corpus: a file merged from modules that import each other, one of
\* which holds a bag; the universe of stored types then imports itself (README).
Merged(P) == \E scc \in Layout(P).sccs : Len(scc) > 1 /\ \E s \in Layout(P).bag : P.structs[s].mod \in Range(scc)
MCPrograms == {P \in {Package(b) : b \in Bits} \cup {WorldPackage(b) : b \in WorldBits} : ~Merged(P)}
MCUserStarts == {<<>>, Hooks(<<<<"vault">>>>) :> File({}, <<>>, {}), Termination(<<<<"warden">>>>) :> File({}, <<>>, {}),
                 Flat(<<<<"vault">>>>) :> File({}, <<>>, {})}
MCUserEdits == {Termination(<<<<"vault">>>>), Flat(<<<<"vault">>>>)}
None == [x \in {"vaultBag", "vaultItem", "wardenBag", "wardenVault", "itemUsesBag", "storesItem", "wardenCalls", "storesVault", "cycle", "onWarden"} |-> FALSE]
MCWorked == {Package(None), Package([None EXCEPT !.vaultBag = TRUE, !.storesItem = TRUE]),
             Package([None EXCEPT !.wardenCalls = TRUE, !.cycle = TRUE])}
=============================================================================
