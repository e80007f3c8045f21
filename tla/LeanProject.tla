---------------------------- MODULE LeanProject ----------------------------
(***************************************************************************)
(* The Lean project that the Lean backend keeps on disk (backend.rs,       *)
(* program_renderer.rs, dyn_type_universe.rs): which files a run writes,   *)
(* what each of them defines and imports, which proof obligations it       *)
(* states, and what happens to the files of earlier runs and to the files  *)
(* of the user.  Between runs the user edits the Move program and the      *)
(* files under sources/lean; a run may be interrupted at any point.        *)
(*                                                                         *)
(* A package, module or declaration name is the sequence of its parts      *)
(* ("AppSpecs" is <<"App", "Specs">>, "f_spec.aborts" is <<"f", "spec",    *)
(* "aborts">>), a file stem the sequence of the namespaces joined in it.   *)
(* The text of a declaration is reduced to the names it mentions.          *)
(***************************************************************************)
EXTENDS Integers, Sequences, FiniteSets, SequencesExt, FiniteSetsExt, Functions

CONSTANTS Programs,     \* the programs the user may have
          UserStarts,   \* what the user has under sources/lean at first
          Worked,       \* the programs that the user edits into one another and renders again
          UserPackage,  \* the package named in Move.toml
          UserEdits,    \* the user files that may be added or removed
          Alphabet,     \* the parts of names in alphabetical order
          MaxRuns       \* bound on the number of runs

VARIABLES prog,         \* the Move program
          user,         \* sources/lean: the user's files
          out,          \* the output directory: what each file holds
          written,      \* WrittenFiles: the paths recorded in this run
          lay,          \* the layout computed by the pass that is under way
          libs,         \* the directories with a lean_lib in the lakefile
          pc, pass, runs

vars == <<prog, user, out, written, lay, libs, pc, pass, runs>>

Path(dir, stem, part) == <<dir, stem, part>>
Gen(part) == Path(<<"Generated">>, <<>>, part)
Correct(stem) == Path(<<"Correctness">>, stem, "main")
Proofs(stem) == Path(<<"Proofs">>, stem, "main")
Termination(stem) == Path(<<"Termination">>, stem, "main")
Hooks(stem) == Path(<<"Hooks">>, stem, "main")
Flat(stem) == Path(<<>>, stem, "main")      \* the legacy layout
PreludeFile == Path(<<"Prelude">>, <<>>, "Prelude")
File(imp, items, obls) == [imp |-> imp, items |-> items, obls |-> obls]

\* The files of a step are a function from paths; f ++ g: those of f, and those of g elsewhere.
OneFile(path, file) == [p \in {path} |-> file]
f ++ g == [p \in DOMAIN f \cup DOMAIN g |-> IF p \in DOMAIN f THEN f[p] ELSE g[p]]

Rank(t) == CHOOSE i \in DOMAIN Alphabet : Alphabet[i] = t
Before(a, b) ==     \* alphabetical order of two names
    \E i \in 1..(Len(a) + 1) : /\ i <= Len(b)
                               /\ \A j \in 1..(i - 1) : a[j] = b[j]
                               /\ i > Len(a) \/ (i <= Len(a) /\ Rank(a[i]) < Rank(b[i]))

Reach(next, S) == FoldSet(LAMBDA i, T : T \cup UNION {next[x] : x \in T}, S, DOMAIN next)
Closure(next, x) == Reach(next, next[x])

-----------------------------------------------------------------------------
(* The program: modules, structs and functions are numbered in dependency    *)
(* order (order_by_dependencies); a call carries the types it is applied to. *)

Mods(P) == DOMAIN P.mods
Sids(P) == DOMAIN P.structs
Fids(P) == DOMAIN P.fns
FullName(f) == IF f.face = "" THEN f.name ELSE Append(f.name, f.face)
StructsOf(P, m) == {s \in Sids(P) : P.structs[s].mod = m}
FnsOf(P, m) == {f \in Fids(P) : P.fns[f].mod = m}
HasContent(P, m) == StructsOf(P, m) # {} \/ FnsOf(P, m) # {}
Callees(P, f) == {c[1] : c \in P.fns[f].calls}
Mentions(P, f) == P.fns[f].sig \cup P.fns[f].refs \cup UNION {{t[2] : t \in c[2]} : c \in P.fns[f].calls}
WorldMode(P) == \E m \in Mods(P) : P.mods[m].world
WorldFns(P) == {f \in Fids(P) : P.mods[P.fns[f].mod].world}

-----------------------------------------------------------------------------
(* Namespaces and file stems. *)

SameName(P, m) == {n \in Mods(P) : P.mods[n].name = P.mods[m].name /\ HasContent(P, n)}
NamesMeet(P, m, n) ==
    \/ {P.structs[s].name : s \in StructsOf(P, m)} \cap {P.structs[s].name : s \in StructsOf(P, n)} # {}
    \/ {FullName(P.fns[f]) : f \in FnsOf(P, m)} \cap {FullName(P.fns[f]) : f \in FnsOf(P, n)} # {}
Qualified(P, m) == HasContent(P, m) /\ \E a, b \in SameName(P, m) : a # b /\ NamesMeet(P, a, b)
module_name_to_namespace_qualified(name, pkg) == IF name = pkg THEN pkg \o <<"Pkg">> ELSE pkg \o name
module_namespace_collides_with_struct(P, m) ==
    \E s \in StructsOf(P, m) : /\ P.structs[s].name = P.mods[m].name
                               /\ \E f \in FnsOf(P, m) : P.fns[f].name \in P.structs[s].fields

\* compute_namespace_overrides and get_namespace.
get_namespace(P, m) ==
    LET name == P.mods[m].name
    IN  IF Qualified(P, m) THEN module_name_to_namespace_qualified(name, P.mods[m].pkg)
        ELSE IF module_namespace_collides_with_struct(P, m) THEN name \o <<"_M">> ELSE name
get_namespace_file_stem(P, m) == IF Qualified(P, m) THEN get_namespace(P, m) ELSE P.mods[m].name

-----------------------------------------------------------------------------
(* Which spec modules are merged into which implementation module. *)

is_spec_package(pkg) == pkg # <<>> /\ Last(pkg) = "Specs"
DropLast(s, t) == IF s # <<>> /\ Last(s) = t THEN Front(s) ELSE s
ImplCandidates(P, m) ==
    LET base == Front(P.mods[m].pkg)
    IN  {n \in Mods(P) : /\ P.mods[n].name \in {P.mods[m].name, DropLast(P.mods[m].name, "specs")}
                         /\ ~is_spec_package(P.mods[n].pkg)
                         /\ base = <<>> \/ P.mods[n].pkg = base}
spec_to_impl(P) ==
    LET merged == {m \in Mods(P) : is_spec_package(P.mods[m].pkg) /\ ImplCandidates(P, m) # {}}
    IN  [m \in merged |-> Min(ImplCandidates(P, m))]
SpecsOf(s2i, m) == {s \in DOMAIN s2i : s2i[s] = m}
Redirect(s2i, m) == IF m \in DOMAIN s2i THEN s2i[m] ELSE m

\* collect_imports: an implementation never imports the spec module of its own name.
required_imports(P, m) ==
    LET deps == {P.structs[d].mod : d \in UNION {P.structs[s].deps : s \in StructsOf(P, m)}}
                \cup UNION {{P.fns[g].mod : g \in Callees(P, f)} \cup {P.structs[s].mod : s \in Mentions(P, f)} : f \in FnsOf(P, m)}
    IN  {n \in deps : /\ n # m
                      /\ ~P.mods[n].world
                      /\ ~(/\ P.mods[n].name = P.mods[m].name
                           /\ P.mods[n].pkg # P.mods[m].pkg
                           /\ is_spec_package(P.mods[n].pkg) /\ ~is_spec_package(P.mods[m].pkg))}

-----------------------------------------------------------------------------
(* Modules that import each other share a file. *)

Renderable(P, s2i) == {m \in Mods(P) : m \notin DOMAIN s2i /\ ~P.mods[m].native}
Adjacency(P, s2i) ==
    [m \in Mods(P) |->
        IF m \notin Renderable(P, s2i) THEN {}
        ELSE (required_imports(P, m) \cup {Redirect(s2i, i) : i \in UNION {required_imports(P, s) : s \in SpecsOf(s2i, m)}})
             \ ({m} \cup SpecsOf(s2i, m))]
compute_module_sccs(P, s2i) ==
    LET adj == Adjacency(P, s2i)
        from == [m \in Mods(P) |-> Closure(adj, m)]
    IN  {{m} \cup {n \in from[m] : m \in from[n]} : m \in Reach(adj, Renderable(P, s2i))}

\* The members by the number of unmet dependencies, then by namespace.
Unmet(deps, remaining, x) == Cardinality(deps[x] \cap (remaining \ {x}))
Best(remaining, deps, name) ==
    CHOOSE x \in remaining : \A y \in remaining \ {x} :
        \/ Unmet(deps, remaining, x) < Unmet(deps, remaining, y)
        \/ Unmet(deps, remaining, x) = Unmet(deps, remaining, y) /\ Before(name[x], name[y])
GreedyOrder(all, deps, name) ==
    LET order[remaining \in SUBSET all] ==
            IF remaining = {} THEN <<>>
            ELSE LET best == Best(remaining, deps, name) IN <<best>> \o order[remaining \ {best}]
    IN  order[all]
OrderedScc(P, s2i, scc) ==
    GreedyOrder(scc, [m \in scc |-> Adjacency(P, s2i)[m] \cap scc], [m \in scc |-> get_namespace(P, m)])

module_to_file(P, sccs) ==
    LET stems(scc) == SetToSortSeq({get_namespace_file_stem(P, m) : m \in scc}, Before)
        place(scc) == <<P.mods[CHOOSE m \in scc : get_namespace_file_stem(P, m) = stems(scc)[1]].pkg, stems(scc)>>
    IN  [m \in UNION sccs |-> place(CHOOSE scc \in sccs : m \in scc)]

-----------------------------------------------------------------------------
(* dyn_type_universe.rs: the types stored in bags and dynamic fields.        *)

IsBag(P, s) == P.structs[s].bag
program_uses_bag(P) == \E s \in Sids(P) : IsBag(P, s)
bag_fn_ids(P) == {f \in Fids(P) : P.mods[P.fns[f].mod].bag}
FieldDeps(P) == [s \in Sids(P) |-> P.structs[s].deps]
collect_bag_containing_struct_ids(P) ==
    {s \in Sids(P) : \E d \in Closure(FieldDeps(P), s) : IsBag(P, d)}

\* A vector is a leaf of its own: only structs are left out of the universe.
collect_impl(P, exclude) ==
    LET flows(g) == \/ g \in bag_fn_ids(P) \/ P.fns[g].bagu
                    \/ ~exclude /\ (g \in WorldFns(P) \/ P.fns[g].hascode)
        types == UNION {UNION {c[2] : c \in {d \in P.fns[f].calls : flows(d[1])}} : f \in Fids(P)}
        excluded(s) == IsBag(P, s) \/ (exclude /\ s \in collect_bag_containing_struct_ids(P))
    IN  {t[2] : t \in {u \in types : u[1] = "vector" \/ ~excluded(u[2])}}
collect(P) == collect_impl(P, TRUE)
collect_df(P) == collect_impl(P, FALSE)
decidable_eq_derive_targets(P, members) == Reach(FieldDeps(P), members)

file_uses_bag(P, ms) ==
    /\ program_uses_bag(P)
    /\ \/ \E s \in Sids(P) : P.structs[s].mod \in ms /\ \E d \in P.structs[s].deps : IsBag(P, d)
       \/ \E f \in Fids(P) : /\ P.fns[f].mod \in ms
                             /\ \/ \E s \in P.fns[f].sig : IsBag(P, s)
                                \/ P.fns[f].bagu
                                \/ \E g \in Callees(P, f) : g \in bag_fn_ids(P) \/ P.fns[g].bagu
module_uses_world(P, m) == \E f \in FnsOf(P, m) : P.fns[f].world \/ Callees(P, f) \cap WorldFns(P) # {}

Importers(P, seed) ==
    {m \in Mods(P) : m \in seed \/ Closure([n \in Mods(P) |-> required_imports(P, n)], m) \cap seed # {}}
full_file_bagu_importers(P) == Importers(P, {m \in Mods(P) : file_uses_bag(P, {m})})
full_file_world_importers(P) == Importers(P, {m \in Mods(P) : module_uses_world(P, m)})

\* Mutant: only the files that use a bag or the World themselves, not those that import one.
direct_importing_stems(P, files) ==
    {files[m][2] : m \in {n \in DOMAIN files : /\ \E s \in collect(P) \cup collect_df(P) : P.structs[s].mod = n
                                               /\ file_uses_bag(P, {n}) \/ module_uses_world(P, n)}}
\* The files whose structs the interpretation of a universe imports and which import it themselves.
tycodeinterp_importing_stems(P, files) ==
    LET meets(members, importers) ==
            {files[m][2] : m \in {n \in DOMAIN files : /\ \E a \in DOMAIN files : files[a][2] = files[n][2] /\ \E s \in members : P.structs[s].mod = a
                                                       /\ \E b \in DOMAIN files : files[b][2] = files[n][2] /\ b \in importers}}
        both == decidable_eq_derive_targets(P, collect(P)) \cup decidable_eq_derive_targets(P, collect_df(P))
    IN  (IF program_uses_bag(P) THEN meets(decidable_eq_derive_targets(P, collect(P)), full_file_bagu_importers(P)) ELSE {})
        \cup (IF WorldMode(P) THEN meets({s \in both : ~P.structs[s].native}, full_file_world_importers(P)) ELSE {})

Layout(P) ==
    LET s2i == spec_to_impl(P)
        sccs == compute_module_sccs(P, s2i)
        files == module_to_file(P, sccs)
        bag == collect_bag_containing_struct_ids(P)
    IN  [s2i |-> s2i, sccs |-> {OrderedScc(P, s2i, scc) : scc \in sccs}, files |-> files, bag |-> bag,
         bagstems |-> {files[P.structs[s].mod][2] : s \in {b \in bag : P.structs[b].mod \in DOMAIN files}},
         tci |-> tycodeinterp_importing_stems(P, files)]

-----------------------------------------------------------------------------
(* Where a struct is defined, for a file that mentions it. *)

NativesFile(P, m) == Path(P.mods[m].pkg, <<get_namespace_file_stem(P, m)>>, "natives")
HasHook(U, stem) == Termination(stem) \in DOMAIN U \/ Hooks(stem) \in DOMAIN U

struct_defining_import(P, L, U, s, current) ==
    LET m == P.structs[s].mod
        pkg == P.mods[m].pkg
        stem == L.files[m][2]
        part == CASE ~(HasHook(U, stem) \/ stem \in L.bagstems \/ stem \in L.tci) -> "main"
                  [] stem \in L.bagstems /\ s \notin L.bag -> "skeleton"
                  [] OTHER -> "types"
    IN  IF P.mods[m].native \/ P.structs[s].native THEN {NativesFile(P, m)}
        ELSE IF m \notin DOMAIN L.files THEN {}
        ELSE IF stem = current THEN {} ELSE {Path(pkg, stem, part)}

StructImports(P, L, U, S, current) ==
    UNION {struct_defining_import(P, L, U, d, current) : d \in UNION {P.structs[s].deps : s \in S}}

universe_struct_import(P, L, s) ==
    LET m == P.structs[s].mod
        pkg == P.mods[m].pkg
        stem == L.files[m][2]
        part == CASE StructsOf(P, m) \cap L.bag # {} -> IF s \in L.bag THEN "types" ELSE "skeleton"
                  [] stem \in L.tci -> "types"
                  [] OTHER -> "main"
    IN  IF P.mods[m].native \/ P.structs[s].native THEN {NativesFile(P, m)}
        ELSE IF m \notin DOMAIN L.files THEN {} ELSE {Path(pkg, stem, part)}

-----------------------------------------------------------------------------
(* What a file declares: a sequence of items, each with the names it needs.  *)

Item(def, needs) == [def |-> def, needs |-> needs]
StructName(P, s) == <<get_namespace(P, P.structs[s].mod), P.structs[s].name>>
FnName(P, L, f) == <<get_namespace(P, Redirect(L.s2i, P.fns[f].mod)), FullName(P.fns[f])>>
Instance(universe, name) == <<<<universe>>, name>>      \* an instance of HasCode or Universe over BagU or TyCode
BagNeeds(P, S) == IF \E s \in S : IsBag(P, s) THEN {Instance("BagU", <<"Universe">>)} ELSE {}
StructItem(P, s) ==
    Item(StructName(P, s), {StructName(P, d) : d \in P.structs[s].deps \ {s}} \cup BagNeeds(P, P.structs[s].deps))
SortedIds(S) == SetToSortSeq(S, <)

OwnStructs(P, m) == {s \in StructsOf(P, m) : ~P.structs[s].native}
\* In a file of its own: module by module, in the order of the program.
StructItems(P, scc, S) ==
    FlattenSeq([i \in DOMAIN scc |-> [j \in DOMAIN SortedIds(OwnStructs(P, scc[i]) \cap S) |-> StructItem(P, SortedIds(OwnStructs(P, scc[i]) \cap S)[j])]])
\* In the file of a cycle: struct by struct.
SortedStructs(P, scc) ==
    LET all == UNION {OwnStructs(P, scc[i]) : i \in DOMAIN scc}
        order == GreedyOrder(all, [s \in all |-> (P.structs[s].deps \cap all) \ {s}], [s \in all |-> StructName(P, s)[1] \o StructName(P, s)[2]])
    IN  [i \in DOMAIN order |-> StructItem(P, order[i])]

\* Kahn's algorithm; what is left on a cycle follows in the given order.
KahnStep(s, deps) ==
    IF s.queue = <<>> THEN s
    ELSE LET done == Append(s.sorted, Head(s.queue))
             free == {g \in DOMAIN deps : Head(s.queue) \in deps[g] /\ deps[g] \subseteq Range(done)}
         IN  [queue |-> Tail(s.queue) \o SortedIds(free), sorted |-> done]
Kahn(deps) ==
    FoldSet(LAMBDA i, s : KahnStep(s, deps), [queue |-> SortedIds({f \in DOMAIN deps : deps[f] = {}}), sorted |-> <<>>],
            DOMAIN deps).sorted
topological_sort_functions(P, fids) ==
    LET deps == [f \in Range(fids) |-> (Callees(P, f) \cap Range(fids)) \ {f}]
        sorted == Kahn(deps)
    IN  sorted \o SelectSeq(fids, LAMBDA f : f \notin Range(sorted))

StoredBy(P, f, by) == UNION {{t[2] : t \in c[2]} : c \in {d \in P.fns[f].calls : d[1] \in by}}
\* The functions of a module and of its spec modules, in the order given, without natives and repeated names.
Kept(P, L, imports, m, fids) ==
    LET same == {i \in imports : get_namespace(P, i) = get_namespace(P, m)}
        imported == {FullName(P.fns[f]) : f \in UNION {FnsOf(P, i) : i \in same}}
        fresh(i) == \A j \in 1..(i - 1) : FullName(P.fns[fids[j]]) # FullName(P.fns[fids[i]])
    IN  FlattenSeq([i \in DOMAIN fids |-> IF P.fns[fids[i]].native \/ FullName(P.fns[fids[i]]) \in imported \/ ~fresh(i) THEN <<>> ELSE <<fids[i]>>])
FnsWithSpecs(P, L, m) == UNION {FnsOf(P, n) : n \in {m} \cup SpecsOf(L.s2i, m)}

\* Functions that call each other stand in one block, in the namespace of the first.
FnItems(P, L, fids, home) ==
    LET block(f) == IF P.fns[f].group = 0 THEN <<f>> ELSE SelectSeq(fids, LAMBDA g : P.fns[g].group = P.fns[f].group)
        item(f, ns, mates) == Item(<<ns, FullName(P.fns[f])>>,
            {StructName(P, s) : s \in Mentions(P, f)} \cup {FnName(P, L, g) : g \in Callees(P, f) \ mates}
            \cup BagNeeds(P, P.fns[f].sig) \cup {Instance("BagU", P.structs[s].name) : s \in StoredBy(P, f, bag_fn_ids(P)) \ L.bag}
            \cup {Instance("TyCode", P.structs[s].name) : s \in StoredBy(P, f, WorldFns(P))})
        emit(i) == LET b == block(fids[i])
                   IN  IF b[1] # fids[i] THEN <<>> ELSE [j \in DOMAIN b |-> item(b[j], get_namespace(P, home[fids[i]]), Range(b) \cup {b[j]})]
    IN  FlattenSeq([i \in DOMAIN fids |-> emit(i)])

RenderedFns(P, L, scc, imports) ==
    LET of(m) == SortedIds(FnsWithSpecs(P, L, m))
        home == [f \in UNION {FnsWithSpecs(P, L, scc[i]) : i \in DOMAIN scc} |->
                    CHOOSE m \in Range(scc) : f \in FnsWithSpecs(P, L, m)]
        single == Kept(P, L, imports, scc[1], topological_sort_functions(P, of(scc[1])))
        merged == topological_sort_functions(P, FlattenSeq([i \in DOMAIN scc |-> Kept(P, L, imports, scc[i], of(scc[i]))]))
    IN  FnItems(P, L, IF Len(scc) = 1 THEN single ELSE merged, home)

-----------------------------------------------------------------------------
(* render_to_directory: the files of one group of modules. *)

AllImports(P, L, scc) ==
    UNION {(required_imports(P, m) \cup {Redirect(L.s2i, i) : i \in UNION {required_imports(P, s) : s \in SpecsOf(L.s2i, m)}})
           \ SpecsOf(L.s2i, m) : m \in Range(scc)} \ Range(scc)
NativeImports(P, O, scc) == {NativesFile(P, m) : m \in {n \in Range(scc) : NativesFile(P, n) \in DOMAIN O /\ HasContent(P, n)}}

SplitsTypes(P, L, U, scc) ==
    LET stem == L.files[scc[1]][2]
        own == UNION {OwnStructs(P, m) : m \in Range(scc)}
    IN  own # {} /\ (HasHook(U, stem) \/ UNION {StructsOf(P, m) : m \in Range(scc)} \cap L.bag # {} \/ stem \in L.tci)

\* _types, and _types_skeleton for the structs without a bag.
TypesFiles(P, L, U, O, scc) ==
    LET place == L.files[scc[1]]
        own == UNION {OwnStructs(P, m) : m \in Range(scc)}
        bagged == UNION {StructsOf(P, m) : m \in Range(scc)} \cap L.bag
        deps(S) == StructImports(P, L, U, S, place[2])
        common == {PreludeFile} \cup NativeImports(P, O, scc)
        skeleton == Path(place[1], place[2], "skeleton")
        types == Path(place[1], place[2], "types")
    IN  IF bagged = {} THEN OneFile(types, File(common \cup deps(own), StructItems(P, scc, own), {}))
        ELSE OneFile(skeleton, File(common \cup deps(own \ bagged) \cup {Gen("BagU")}, StructItems(P, scc, own \ bagged), {}))
             ++ OneFile(types, File(common \cup deps(bagged) \cup {skeleton, Gen("BagUInterp")}, StructItems(P, scc, bagged), {}))

MainImports(P, L, U, O, scc) ==
    LET place == L.files[scc[1]]
    IN  {PreludeFile}
        \cup (IF file_uses_bag(P, Range(scc)) THEN {Gen("BagUInterp")} ELSE {})
        \cup (IF \E m \in Range(scc) : module_uses_world(P, m) THEN {Gen("World")} ELSE {})
        \cup {Path(L.files[i][1], L.files[i][2], "main") : i \in AllImports(P, L, scc) \cap DOMAIN L.files}
        \cup NativeImports(P, O, scc)
        \cup (IF SplitsTypes(P, L, U, scc) THEN {Path(place[1], place[2], "types")} ELSE {})
        \cup ({Termination(place[2]), Hooks(place[2])} \cap DOMAIN U)
MainItems(P, L, U, scc) ==
    (IF SplitsTypes(P, L, U, scc) THEN <<>>
     ELSE IF Len(scc) = 1 THEN StructItems(P, scc, Sids(P)) ELSE SortedStructs(P, scc))
    \o RenderedFns(P, L, scc, AllImports(P, L, scc))

SccFiles(P, L, U, O, scc) ==
    LET place == L.files[scc[1]]
    IN  OneFile(Path(place[1], place[2], "main"), File(MainImports(P, L, U, O, scc), MainItems(P, L, U, scc), {}))
        ++ (IF SplitsTypes(P, L, U, scc) THEN TypesFiles(P, L, U, O, scc) ELSE <<>>)

-----------------------------------------------------------------------------
(* generate_correctness_files: a theorem for every face of a specification.  *)

IsFace(f) == f.face \in {"ensures", "requires"} \/ (f.face = "aborts" /\ Last(f.name) = "spec")
Preconditions(P, f) ==
    {g \in Fids(P) : P.fns[g].face \in {"asserts_cond", "requires"} /\ P.fns[g].mod = P.fns[f].mod /\ P.fns[g].name = P.fns[f].name}
FileOf(L, m) == IF m \in DOMAIN L.files THEN L.files[m] ELSE L.files[L.s2i[m]]
\* Mutant: a merged spec module has no file.
HasOwnFile(L, m) == m \in DOMAIN L.files
HasFile(L, m) == m \in DOMAIN L.files \/ (m \in DOMAIN L.s2i /\ L.s2i[m] \in DOMAIN L.files)
InUserPackage(pkg) == pkg = UserPackage \/ IsSuffix(UserPackage \o <<"Specs">>, pkg)
SpecPkgExcluded(P, L) == {P.mods[m].pkg : m \in DOMAIN L.s2i}
SpecFunctions(P, L) ==
    {f \in Fids(P) : /\ IsFace(P.fns[f])
                     /\ HasFile(L, P.fns[f].mod)
                     /\ FileOf(L, P.fns[f].mod)[1] \notin SpecPkgExcluded(P, L)
                     /\ InUserPackage(P.mods[P.fns[f].mod].pkg)}

\* Mutant: the first function of that name in the merged module.
NamedAborts(P, L, f) ==
    LET direct == {g \in Fids(P) : /\ P.fns[g].name = DropLast(P.fns[f].name, "spec") /\ P.fns[g].face = "aborts"
                                   /\ P.fns[f].mod \in DOMAIN L.s2i /\ P.fns[g].mod = L.s2i[P.fns[f].mod]}
    IN  IF direct # {} THEN {Min(direct)} ELSE {}
\* The abort condition of the implementation, found by name and by the type of the first parameter.
ImplAborts(P, L, f) ==
    LET fn == P.fns[f]
        mod == P.mods[fn.mod]
        named == {g \in Fids(P) : P.fns[g].name = DropLast(fn.name, "spec") /\ P.fns[g].face = "aborts"}
        direct == {g \in named : /\ fn.mod \in DOMAIN L.s2i /\ P.fns[g].mod = L.s2i[fn.mod]
                                 /\ 0 \in {fn.first, P.fns[g].first} \/ fn.first = P.fns[g].first}
        impls == {g \in named : ~is_spec_package(P.mods[P.fns[g].mod].pkg)}
        near == {g \in impls : /\ P.mods[P.fns[g].mod].pkg = DropLast(mod.pkg, "Specs")
                               /\ IsSuffix(P.mods[P.fns[g].mod].name, mod.name)}
        typed == {g \in impls : fn.first # 0 /\ P.fns[g].first = fn.first}
    IN  CASE direct # {} -> {Min(direct)} [] near # {} -> {Min(near)} [] typed # {} -> {Min(typed)} [] OTHER -> {}

GoalOf(P, L, f) ==
    LET impl == ImplAborts(P, L, f)
    IN  IF P.fns[f].face = "aborts" /\ Preconditions(P, f) # {} /\ impl # {} THEN Min(impl) ELSE f
TheoremNs(P, L, f) == get_namespace(P, Redirect(L.s2i, P.fns[f].mod))
ByWhat(P, L, U, f, stem, multi) ==
    LET thms == IF Proofs(stem) \in DOMAIN U THEN {U[Proofs(stem)].items[i].def : i \in DOMAIN U[Proofs(stem)].items} ELSE {}
        proved == IF multi THEN <<TheoremNs(P, L, f), FullName(P.fns[f])>> \in thms
                  ELSE \E t \in thms : t[2] = FullName(P.fns[f])
    IN  IF P.fns[f].boogie THEN "axiom"
        ELSE IF proved THEN "proof" ELSE IF P.fns[f].face = "requires" THEN "hypothesis" ELSE "sorry"

ObligationsIn(P, L, U, place) ==
    LET fs == {f \in SpecFunctions(P, L) : FileOf(L, P.fns[f].mod) = place}
        multi == Cardinality({TheoremNs(P, L, f) : f \in fs}) > 1
    IN  {[of |-> f, ns |-> TheoremNs(P, L, f), hyps |-> Preconditions(P, f), goal |-> GoalOf(P, L, f), multi |-> multi,
          by |-> ByWhat(P, L, U, f, place[2], multi)] : f \in fs}
ObligationItem(P, L, o) ==
    Item(<<o.ns, Append(FullName(P.fns[o.of]), "proved")>>,
         {FnName(P, L, g) : g \in o.hyps \cup {o.goal}} \cup {StructName(P, s) : s \in P.fns[o.of].sig})
TheoremImports(P, L, obls, place) ==
    {Path(place[1], place[2], "main")}
    \cup {Path(L.files[m][1], L.files[m][2], "main") : m \in {P.fns[o.goal].mod : o \in {p \in obls : p.goal # p.of}} \cap DOMAIN L.files}
SpecPlaces(P, L) == {FileOf(L, P.fns[f].mod) : f \in SpecFunctions(P, L)}

CorrectnessFile(P, L, U, place) ==
    LET obls == ObligationsIn(P, L, U, place)
    IN  File(TheoremImports(P, L, obls, place) \cup ({Proofs(place[2])} \cap DOMAIN U),
             SetToSeq({ObligationItem(P, L, o) : o \in obls}), obls)
CorrectnessFiles(P, L, U) ==
    [p \in {Correct(place[2]) : place \in SpecPlaces(P, L)} |->
        CorrectnessFile(P, L, U, CHOOSE place \in SpecPlaces(P, L) : p = Correct(place[2]))]

\* A first proof file, all sorry, for a module of the user's that has none.
StarterFile(P, L, U, place) ==
    LET obls == {o \in ObligationsIn(P, L, U, place) : o.by # "axiom"}
        name(o) == <<IF o.multi THEN o.ns ELSE <<>>, FullName(P.fns[o.of])>>
    IN  File(TheoremImports(P, L, ObligationsIn(P, L, U, place), place), SetToSeq({Item(name(o), {}) : o \in obls}), {})
\* Mutant: written again although the user has one.
EveryPlace(P, L, U) == {place \in SpecPlaces(P, L) : IsPrefix(UserPackage, place[1])}
StarterPlaces(P, L, U) ==
    {place \in SpecPlaces(P, L) : /\ IsPrefix(UserPackage, place[1])
                                  /\ Proofs(place[2]) \notin DOMAIN U
                                  /\ \E o \in ObligationsIn(P, L, U, place) : o.by # "axiom"}
StarterFiles(P, L, U) ==
    [p \in {Proofs(place[2]) : place \in StarterPlaces(P, L, U)} |->
        StarterFile(P, L, U, CHOOSE place \in StarterPlaces(P, L, U) : p = Proofs(place[2]))]

-----------------------------------------------------------------------------
(* The remaining files. *)

PreludeFiles == OneFile(PreludeFile, File({}, <<>>, {}))
\* copy_native_packages: the hand-written file of a module that the program uses.
UsedNatives(P) == {m \in Mods(P) : P.mods[m].natives /\ HasContent(P, m)}
NativeDefs(P, m) ==
    {Item(StructName(P, s), {}) : s \in {t \in StructsOf(P, m) : P.structs[t].native}}
    \cup {Item(<<get_namespace(P, m), FullName(P.fns[f])>>, {}) : f \in {g \in FnsOf(P, m) : P.fns[g].native}}
NativeFiles(P) ==
    [p \in {NativesFile(P, m) : m \in UsedNatives(P)} |->
        File({PreludeFile}, SetToSeq(NativeDefs(P, CHOOSE m \in UsedNatives(P) : p = NativesFile(P, m))), {})]

\* interp, decEqInterp, typeName and uidNat, one case for each member, and the
\* instance they make up; then one HasCode instance for each member.
UniverseInstance(P, name, covered) == Item(Instance(name, <<"Universe">>), {StructName(P, s) : s \in covered})
CodeInstances(P, name, members) == SetToSeq({Item(Instance(name, P.structs[s].name), {}) : s \in members})
InterpFile(P, L, name, members, targets, extra) ==
    File({PreludeFile, Gen(name)} \cup extra \cup UNION {universe_struct_import(P, L, s) : s \in members \cup targets},
         <<UniverseInstance(P, name, members \cup targets)>> \o CodeInstances(P, name, members), {})
write_universes(P, L) ==
    LET bag == collect(P)
        df == collect_df(P)
        targets == decidable_eq_derive_targets(P, bag)
    IN  OneFile(Gen("BagU"), File({}, <<>>, {})) ++ OneFile(Gen("TyCode"), File({}, <<>>, {}))
        ++ OneFile(Gen("BagUInterp"), InterpFile(P, L, "BagU", bag, targets, {}))
        ++ OneFile(Gen("TyCodeInterp"), InterpFile(P, L, "TyCode", df, decidable_eq_derive_targets(P, df) \ targets, {Gen("BagUInterp")}))
write_world_file(P) ==
    OneFile(Gen("World"), File({PreludeFile, Gen("TyCodeInterp"), Path(<<"Sui">>, <<<<"object">>>>, "natives"),
                          Path(<<"Sui">>, <<<<"bag">>>>, "natives"), Path(<<"MoveStdlib">>, <<<<"option">>>>, "main")},
                         SetToSeq({Item(<<get_namespace(P, P.fns[f].mod), FullName(P.fns[f])>>, {}) : f \in WorldFns(P)}), {}))
GeneratedFiles(P, L) ==
    (IF program_uses_bag(P) \/ WorldMode(P) THEN write_universes(P, L) ELSE <<>>) ++ (IF WorldMode(P) THEN write_world_file(P) ELSE <<>>)

RenderedFiles(P, L, U, O) ==
    LET groups == {SccFiles(P, L, U, O, scc) : scc \in L.sccs}
    IN  [p \in UNION {DOMAIN g : g \in groups} |-> (CHOOSE g \in groups : p \in DOMAIN g)[p]]

-----------------------------------------------------------------------------
(* What is assumed of the programs and of the user's files.  The directories   *)
(* that the tool writes itself are not names of packages; whether a module has *)
(* a hand-written file is a matter of its name, not of the program it is in;   *)
(* and a user's file is the main file of its stem.                             *)

ToolDirs == {<<"Prelude">>, <<"Generated">>, <<"Correctness">>}
NativePaths(shipped) ==
    UNION {{NativesFile(P, m) : m \in {n \in Mods(P) : P.mods[n].natives = shipped}} : P \in Programs}
IsUserPath(p) == p = Path(p[1], p[2], "main")

ASSUME ProgramsAssumption ==
    /\ Worked \subseteq Programs
    /\ \A P \in Programs :
          /\ \A s \in Sids(P) : P.structs[s].mod \in Mods(P)
          /\ \A f \in Fids(P) : P.fns[f].mod \in Mods(P)
          /\ \A m \in Mods(P) : P.mods[m].natives \in BOOLEAN /\ P.mods[m].pkg \notin ToolDirs
          /\ \A L \in {Layout(P)} : \A scc \in L.sccs : L.files[scc[1]][1] \notin ToolDirs
    /\ NativePaths(TRUE) \cap NativePaths(FALSE) = {}

ASSUME UserAssumption ==
    /\ \A U \in UserStarts : U = [p \in DOMAIN U |-> U[p]] /\ \A p \in DOMAIN U : IsUserPath(p)
    /\ \A p \in UserEdits : IsUserPath(p)

-----------------------------------------------------------------------------
(* One run of the backend. *)

Without(F, S) == [p \in DOMAIN F \ S |-> F[p]]
write_if_changed(new) == out' = new ++ out /\ written' = written \cup DOMAIN new

Idle == pc = "idle" /\ prog \in Worked /\ runs < MaxRuns

Setup ==
    /\ pc = "idle" /\ (runs = 0 \/ Idle)
    /\ runs' = runs + 1 /\ pass' = 1 /\ pc' = "layout"
    /\ out' = PreludeFiles ++ out /\ written' = DOMAIN PreludeFiles
    /\ UNCHANGED <<prog, user, lay, libs>>

Stems(L) == {L.files[m][2] : m \in DOMAIN L.files}
Flats == {p \in DOMAIN user : p[1] = <<>>}
Moved(L, p) == IF p[2] \in Stems(L) THEN Termination(p[2]) ELSE Proofs(p[2])
Clashes(L) == {p \in Flats : Moved(L, p) \in DOMAIN user}
Migrated(L, S) == [q \in {Moved(L, p) : p \in S} |-> user[CHOOSE p \in S : q = Moved(L, p)]] ++ Without(user, S)
\* The files of modules that now share a file; they are looked for under the namespace.
OldFiles(P, L) ==
    {Path(P.mods[m].pkg, <<get_namespace(P, m)>>, "main") : m \in UNION {Range(scc) : scc \in {s \in L.sccs : Len(s) > 1}}}

\* render_to_directory up to migrate_user_sources_layout.
LayOut ==
    /\ pc = "layout"
    /\ LET L == Layout(prog)
           natives == NativeFiles(prog)
       IN  /\ Clashes(L) = {}
           /\ lay' = L /\ user' = Migrated(L, Flats)
           /\ out' = Without(natives ++ out, OldFiles(prog, L)) /\ written' = written \cup DOMAIN natives
    /\ pc' = "emit" /\ UNCHANGED <<prog, libs, pass, runs>>

\* The assertion of migrate_user_sources_layout; some files may have been moved before it fails.
MigrationFails ==
    /\ pc = "layout"
    /\ LET L == Layout(prog)
       IN  /\ Clashes(L) # {}
           /\ \E S \in SUBSET (Flats \ Clashes(L)) : user' = Migrated(L, S)
    /\ write_if_changed(NativeFiles(prog))
    /\ pc' = "idle" /\ UNCHANGED <<prog, lay, libs, pass, runs>>

Emit ==
    /\ pc = "emit"
    /\ write_if_changed(RenderedFiles(prog, lay, user, out))
    /\ pc' = "correct" /\ UNCHANGED <<prog, user, lay, libs, pass, runs>>

Stating ==
    /\ pc = "correct"
    /\ LET files == CorrectnessFiles(prog, lay, user)
       IN  /\ out' = files ++ Without(out, {p \in DOMAIN out : p[1] = <<"Correctness">>})
           /\ written' = written \cup DOMAIN files
    /\ user' = StarterFiles(prog, lay, user) ++ user
    /\ IF pass = 1 /\ user' # <<>> THEN pass' = 2 /\ pc' = "layout" ELSE pc' = "universe" /\ UNCHANGED pass
    /\ UNCHANGED <<prog, lay, libs, runs>>

Universe ==
    /\ pc = "universe"
    /\ write_if_changed(GeneratedFiles(prog, lay))
    /\ pc' = "lakefile" /\ UNCHANGED <<prog, user, lay, libs, pass, runs>>

Packages(P, L) == {P.mods[m].pkg : m \in Mods(P)} \ SpecPkgExcluded(P, L)
Lakefile ==
    /\ pc = "lakefile"
    /\ libs' = Packages(prog, lay) \cup {p[1] : p \in DOMAIN out} \cup {<<"Prelude">>, <<"Correctness">>, <<"Proofs">>, <<"Termination">>}
               \cup {d \in {<<"Hooks">>} : \E p \in DOMAIN user : p[1] = d}
    /\ pc' = "stale" /\ UNCHANGED <<prog, user, out, written, lay, pass, runs>>

\* Mutant: what earlier runs left stays.
keep_stale == pc = "stale" /\ pc' = "built" /\ UNCHANGED <<prog, user, out, written, lay, libs, pass, runs>>
remove_stale ==
    /\ pc = "stale"
    /\ out' = Without(out, DOMAIN out \ written)
    /\ pc' = "built" /\ UNCHANGED <<prog, user, written, lay, libs, pass, runs>>

Finish == pc = "built" /\ pc' = "idle" /\ UNCHANGED <<prog, user, out, written, lay, libs, pass, runs>>
\* The tool is stopped in the middle of a run.
Interrupt == pc \notin {"idle", "built"} /\ pc' = "idle" /\ UNCHANGED <<prog, user, out, written, lay, libs, pass, runs>>

-----------------------------------------------------------------------------
(* What the user does between two runs. *)

EditProgram == /\ Idle /\ \E P \in Worked \ {prog} : prog' = P
               /\ UNCHANGED <<user, out, written, lay, libs, pc, pass, runs>>
EditUserFile == /\ Idle
                /\ \E p \in UserEdits : user' = IF p \in DOMAIN user THEN Without(user, {p}) ELSE OneFile(p, File({}, <<>>, {})) ++ user
                /\ UNCHANGED <<prog, out, written, lay, libs, pc, pass, runs>>

Init ==
    /\ prog \in Programs
    /\ user \in UserStarts /\ out = <<>> /\ written = {} /\ lay = <<>> /\ libs = {}
    /\ pc = "idle" /\ pass = 0 /\ runs = 0

Next == \/ Setup \/ LayOut \/ MigrationFails \/ Emit \/ Stating \/ Universe \/ Lakefile \/ remove_stale
        \/ Finish \/ Interrupt \/ EditProgram \/ EditUserFile
Spec == Init /\ [][Next]_vars

-----------------------------------------------------------------------------
(* Properties. *)

Built == pc = "built"
Disk == out ++ user
\* A hook is written against the types file of its module.
ImportsOf(p) ==
    IF p[1] \in {<<"Termination">>, <<"Hooks">>}
    THEN {q \in DOMAIN out : q[2] = p[2] /\ q[3] = "types"} ELSE Disk[p].imp
ImportGraph == [p \in DOMAIN Disk |-> ImportsOf(p) \cap DOMAIN Disk]
DefsIn(p) == {Disk[p].items[i].def : i \in DOMAIN Disk[p].items}
InOrder(p, seen) ==
    \A i \in DOMAIN out[p].items :
        out[p].items[i].needs \subseteq seen \cup {out[p].items[j].def : j \in 1..(i - 1)}

\* No generated file imports itself through others: the universes of dynamically typed values import the files
\* that define the types (universe_struct_import), and the files that use a bag or the World import the universes.
ImportsAcyclic == Built => LET G == ImportGraph IN \A p \in DOMAIN G : p \notin Closure(G, p)
ImportsResolve == \A p \in DOMAIN out : \A q \in out[p].imp : q \in DOMAIN Disk /\ q[1] \in libs
NamesInScope ==
    LET G == ImportGraph
        defs == [p \in DOMAIN Disk |-> DefsIn(p)]
    IN  \A p \in DOMAIN out : InOrder(p, UNION {defs[q] : q \in Closure(G, p)})

\* What a run leaves for lake builds: the imports form no cycle, every import names a file that exists in a library
\* of the lakefile, and every name that a generated declaration mentions is declared above it or in a file that its
\* own imports reach (the file split, struct_defining_import and the order in which render_to_directory writes).
ProjectBuilds == ImportsAcyclic /\ (Built => ImportsResolve /\ NamesInScope)

\* After a run the output directory holds exactly what this program and these user files call for, whatever earlier
\* runs left there, finished or interrupted (WrittenFiles, remove_stale, the two passes of run_backend_inner).
Fresh ==
    LET L == Layout(prog)
        natives == NativeFiles(prog)
    IN  PreludeFiles ++ natives ++ RenderedFiles(prog, L, user, natives) ++ CorrectnessFiles(prog, L, user) ++ GeneratedFiles(prog, L)
OutputFresh == Built => out = Fresh

\* Every face (requires, ensures, aborts) of a user's specification is stated by exactly one theorem, also when its
\* module is merged into the implementation's file (generate_correctness_files).
UserFaces == {f \in Fids(prog) : IsFace(prog.fns[f]) /\ InUserPackage(prog.mods[prog.fns[f].mod].pkg)}
StatedIn(f) == UNION {{<<p, o>> : o \in {x \in out[p].obls : x.of = f}} : p \in DOMAIN out}
FacesStated == Built => \A f \in UserFaces : Cardinality(StatedIn(f)) = 1
\* A theorem about aborts is about the function that the spec names as its target, which generate_correctness_files
\* has to find again from names and from the type of the first parameter.
GoalsOnTarget ==
    Built => \A p \in DOMAIN out : \A o \in out[p].obls : o.goal # o.of => o.goal = prog.fns[o.of].target

\* A run never loses or overwrites a file of the user's, whether it is moved from the legacy layout by
\* migrate_user_sources_layout or in the way of a starter proof file.
UserFilesKept ==
    [][pc # "idle" => \A p \in DOMAIN user : \E q \in DOMAIN user' : user'[q] = user[p] /\ (q = p \/ p[1] = <<>>)]_vars
=============================================================================
