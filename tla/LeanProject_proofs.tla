------------------------- MODULE LeanProject_proofs -------------------------
(***************************************************************************)
(* The output directory and the user's files, for all programs and over    *)
(* any number of runs.  A run leaves what it is asked for because each of  *)
(* its steps keeps what the steps before it have written: the files of     *)
(* different steps have different paths, and the second pass writes to the *)
(* same ones as the first, as only starter proofs have been added between  *)
(* the two.  What an earlier run left makes no difference, and goes.       *)
(***************************************************************************)
EXTENDS LeanProject, TLAPS

-----------------------------------------------------------------------------
(* Functions from paths to files. *)

IsFun(f) == f = [p \in DOMAIN f |-> f[p]]

\* The paths of the functions the steps are made of.
LEMMA Domains ==
    /\ \A f, g, p : p \in DOMAIN (f ++ g) <=> p \in DOMAIN f \/ p \in DOMAIN g
    /\ \A p, x, q : q \in DOMAIN OneFile(p, x) <=> q = p
    /\ \A F, S, p : p \in DOMAIN Without(F, S) <=> p \in DOMAIN F /\ p \notin S
    /\ \A p : p \notin DOMAIN <<>>
<1>1. ASSUME NEW f, NEW g, NEW p PROVE p \in DOMAIN (f ++ g) <=> p \in DOMAIN f \/ p \in DOMAIN g
  BY DEF ++
<1>2. ASSUME NEW p, NEW x, NEW q PROVE q \in DOMAIN OneFile(p, x) <=> q = p
  BY DEF OneFile
<1>3. ASSUME NEW F, NEW S, NEW p PROVE p \in DOMAIN Without(F, S) <=> p \in DOMAIN F /\ p \notin S
  BY DEF Without
<1>4. DOMAIN <<>> = {}
  OBVIOUS
<1>5. \A p : p \notin DOMAIN <<>>
  BY <1>4
<1> QED
  BY <1>1, <1>2, <1>3, <1>5

\* What is found in them: the files that are written have precedence.
LEMMA Lookups ==
    /\ \A f, g, p : p \in DOMAIN f => (f ++ g)[p] = f[p]
    /\ \A f, g, p : p \in DOMAIN g => (p \notin DOMAIN f => (f ++ g)[p] = g[p])
    /\ \A F, S, p : p \in DOMAIN F => (p \notin S => Without(F, S)[p] = F[p])
<1>1. ASSUME NEW f, NEW g, NEW p \in DOMAIN f PROVE (f ++ g)[p] = f[p]
  BY DEF ++
<1>2. ASSUME NEW f, NEW g, NEW p \in DOMAIN g, p \notin DOMAIN f PROVE (f ++ g)[p] = g[p]
  BY <1>2 DEF ++
<1>3. ASSUME NEW F, NEW S, NEW p \in DOMAIN F, p \notin S PROVE Without(F, S)[p] = F[p]
  BY <1>3 DEF Without
<1> QED
  BY <1>1, <1>2, <1>3

LEMMA Functional == (\A f, g : IsFun(f ++ g)) /\ (\A F, S : IsFun(Without(F, S)))
<1>1. ASSUME NEW f, NEW g PROVE IsFun(f ++ g)
  BY DEF ++, IsFun
<1>2. ASSUME NEW F, NEW S PROVE IsFun(Without(F, S))
  BY DEF Without, IsFun
<1> QED
  BY <1>1, <1>2

-----------------------------------------------------------------------------
(* Where the files of each step are. *)

LEMMA PreludePath ==
    /\ \A p : p \in DOMAIN PreludeFiles <=> p = PreludeFile
    /\ PreludeFile[1] = <<"Prelude">> /\ PreludeFile[3] = "Prelude"
BY Domains DEF PreludeFiles, PreludeFile, Path

LEMMA NativePlaces ==
    ASSUME NEW P \in Programs, NEW p \in DOMAIN NativeFiles(P)
    PROVE  p \in NativePaths(TRUE) /\ p[3] = "natives" /\ p[1] \notin ToolDirs
<1>1. PICK m \in UsedNatives(P) : p = NativesFile(P, m)
  BY DEF NativeFiles
<1>2. m \in Mods(P) /\ P.mods[m].natives = TRUE
  BY <1>1, ProgramsAssumption DEF UsedNatives
<1>3. P.mods[m].pkg \notin ToolDirs
  BY <1>2, ProgramsAssumption
<1>4. p[3] = "natives" /\ p[1] \notin ToolDirs
  BY <1>1, <1>3 DEF NativesFile, Path
<1>5. p \in NativePaths(TRUE)
  BY <1>1, <1>2 DEF NativePaths
<1> QED
  BY <1>4, <1>5

LEMMA GroupPlaces ==
    ASSUME NEW P, NEW L, NEW U, NEW O, NEW scc, NEW p \in DOMAIN SccFiles(P, L, U, O, scc)
    PROVE  p[1] = L.files[scc[1]][1] /\ p[3] \in {"main", "types", "skeleton"}
<1> DEFINE place == L.files[scc[1]]
           main == Path(place[1], place[2], "main")
           types == Path(place[1], place[2], "types")
           skeleton == Path(place[1], place[2], "skeleton")
<1>1. p \in DOMAIN TypesFiles(P, L, U, O, scc) => p = types \/ p = skeleton
  BY Domains DEF TypesFiles
<1>2. p = main \/ p = types \/ p = skeleton
  BY <1>1, Domains DEF SccFiles
<1> QED
  BY <1>2 DEF Path

LEMMA RenderedPlaces ==
    ASSUME NEW P \in Programs, NEW U, NEW O, NEW p \in DOMAIN RenderedFiles(P, Layout(P), U, O)
    PROVE  p[1] \notin ToolDirs /\ p[3] \in {"main", "types", "skeleton"}
<1>1. PICK scc \in Layout(P).sccs : p \in DOMAIN SccFiles(P, Layout(P), U, O, scc)
  BY DEF RenderedFiles
<1>2. Layout(P).files[scc[1]][1] \notin ToolDirs
  BY ProgramsAssumption
<1> QED
  BY <1>1, <1>2, GroupPlaces

LEMMA CorrectPlaces ==
    ASSUME NEW P, NEW L, NEW U, NEW p \in DOMAIN CorrectnessFiles(P, L, U)
    PROVE  p[1] = <<"Correctness">> /\ p[3] = "main"
BY DEF CorrectnessFiles, Correct, Path

LEMMA GeneratedPlaces ==
    ASSUME NEW P, NEW L, NEW p \in DOMAIN GeneratedFiles(P, L)
    PROVE  p[1] = <<"Generated">> /\ p[3] # "natives"
<1>1. p \in DOMAIN write_universes(P, L) => p \in {Gen("BagU"), Gen("TyCode"), Gen("BagUInterp"), Gen("TyCodeInterp")}
  BY Domains DEF write_universes
<1>2. p \in DOMAIN write_world_file(P) => p = Gen("World")
  BY Domains DEF write_world_file
<1>3. p \in {Gen("BagU"), Gen("TyCode"), Gen("BagUInterp"), Gen("TyCodeInterp"), Gen("World")}
  BY <1>1, <1>2, Domains DEF GeneratedFiles
<1> QED
  BY <1>3 DEF Gen, Path

-----------------------------------------------------------------------------
(* What the files of a step depend on.  The rendered files see no more of the *)
(* user's files than which hooks there are, and no more of the output         *)
(* directory than the natives of their modules.                               *)

SameHooks(U, V) == \A stem : /\ Termination(stem) \in DOMAIN U <=> Termination(stem) \in DOMAIN V
                             /\ Hooks(stem) \in DOMAIN U <=> Hooks(stem) \in DOMAIN V
SameNatives(P, L, N, O) == \A scc \in L.sccs : NativeImports(P, N, scc) = NativeImports(P, O, scc)

LEMMA GroupDepends ==
    ASSUME NEW P, NEW L, NEW U, NEW V, NEW N, NEW O, NEW scc \in L.sccs,
           SameHooks(U, V), SameNatives(P, L, N, O)
    PROVE  SccFiles(P, L, U, N, scc) = SccFiles(P, L, V, O, scc)
<1>1. \A stem : HasHook(U, stem) <=> HasHook(V, stem)
  BY DEF SameHooks, HasHook
<1>2. \A s, current : struct_defining_import(P, L, U, s, current) = struct_defining_import(P, L, V, s, current)
  BY <1>1 DEF struct_defining_import
<1>3. \A S, current : StructImports(P, L, U, S, current) = StructImports(P, L, V, S, current)
  BY <1>2 DEF StructImports
<1>4. SplitsTypes(P, L, U, scc) <=> SplitsTypes(P, L, V, scc)
  BY <1>1 DEF SplitsTypes
<1>5. NativeImports(P, N, scc) = NativeImports(P, O, scc)
  BY DEF SameNatives
<1>6. TypesFiles(P, L, U, N, scc) = TypesFiles(P, L, V, O, scc)
  BY <1>3, <1>5 DEF TypesFiles
<1>7. MainItems(P, L, U, scc) = MainItems(P, L, V, scc)
  BY <1>4 DEF MainItems
<1>8. \A stem : {Termination(stem), Hooks(stem)} \cap DOMAIN U = {Termination(stem), Hooks(stem)} \cap DOMAIN V
  BY DEF SameHooks
<1>9. MainImports(P, L, U, N, scc) = MainImports(P, L, V, O, scc)
  BY <1>4, <1>5, <1>8 DEF MainImports
<1> QED
  BY <1>4, <1>6, <1>7, <1>9 DEF SccFiles

LEMMA RenderedDepends ==
    ASSUME NEW P, NEW L, NEW U, NEW V, NEW N, NEW O, SameHooks(U, V), SameNatives(P, L, N, O)
    PROVE  RenderedFiles(P, L, U, N) = RenderedFiles(P, L, V, O)
<1>1. \A scc \in L.sccs : SccFiles(P, L, U, N, scc) = SccFiles(P, L, V, O, scc)
  BY GroupDepends
<1> DEFINE All(G) == [p \in UNION {DOMAIN g : g \in G} |-> (CHOOSE g \in G : p \in DOMAIN g)[p]]
           GU == {SccFiles(P, L, U, N, scc) : scc \in L.sccs}
           GV == {SccFiles(P, L, V, O, scc) : scc \in L.sccs}
<1>2. GU = GV
  BY <1>1
<1>3. RenderedFiles(P, L, U, N) = All(GU) /\ RenderedFiles(P, L, V, O) = All(GV)
  BY DEF RenderedFiles
<1> HIDE DEF All, GU, GV
<1> QED
  BY <1>2, <1>3

\* The natives that a program finds are its own, whatever other programs have left.
LEMMA NativesAreOwn ==
    ASSUME NEW P \in Programs, NEW O,
           \A p \in DOMAIN NativeFiles(P) : p \in DOMAIN O,
           \A p \in DOMAIN O : p[3] = "natives" => p \in NativePaths(TRUE)
    PROVE  SameNatives(P, Layout(P), O, NativeFiles(P))
<1> SUFFICES ASSUME NEW scc \in Layout(P).sccs
             PROVE  NativeImports(P, O, scc) = NativeImports(P, NativeFiles(P), scc)
  BY DEF SameNatives
<1>1. ASSUME NEW m, HasContent(P, m), NativesFile(P, m) \in DOMAIN O
      PROVE  NativesFile(P, m) \in DOMAIN NativeFiles(P)
  <2>1. m \in Mods(P)
    BY <1>1, ProgramsAssumption DEF HasContent, StructsOf, FnsOf
  <2>2. NativesFile(P, m) \in NativePaths(TRUE)
    BY <1>1 DEF NativesFile, Path
  <2>3. P.mods[m].natives
    <3> SUFFICES ASSUME P.mods[m].natives = FALSE PROVE FALSE
      BY <2>1, ProgramsAssumption
    <3>1. NativesFile(P, m) \in NativePaths(FALSE)
      BY <2>1 DEF NativePaths
    <3> QED
      BY <2>2, <3>1, ProgramsAssumption
  <2> QED
    BY <1>1, <2>1, <2>3 DEF NativeFiles, UsedNatives
<1> QED
  BY <1>1 DEF NativeImports

\* A starter file is written where the user has none, and for all of these at once.
LEMMA StartersAreNew ==
    ASSUME NEW P, NEW L, NEW U, NEW p \in DOMAIN StarterFiles(P, L, U)
    PROVE  p \notin DOMAIN U /\ p[1] = <<"Proofs">> /\ IsUserPath(p)
<1>1. PICK place \in StarterPlaces(P, L, U) : p = Proofs(place[2])
  BY DEF StarterFiles
<1>2. p \notin DOMAIN U
  BY <1>1 DEF StarterPlaces
<1>3. p[1] = <<"Proofs">> /\ IsUserPath(p)
  BY <1>1 DEF Proofs, Path, IsUserPath
<1> QED
  BY <1>2, <1>3

LEMMA StartersOnce ==
    ASSUME NEW P, NEW L, NEW U
    PROVE  StarterPlaces(P, L, StarterFiles(P, L, U) ++ U) = {}
<1> DEFINE V == StarterFiles(P, L, U) ++ U
<1> HIDE DEF V
<1> SUFFICES ASSUME NEW place \in StarterPlaces(P, L, V) PROVE FALSE
  BY DEF V
<1>1. \A q : q \in DOMAIN V <=> q \in DOMAIN StarterFiles(P, L, U) \/ q \in DOMAIN U
  BY Domains DEF V
<1>2. place \in SpecPlaces(P, L) /\ IsPrefix(UserPackage, place[1]) /\ Proofs(place[2]) \notin DOMAIN V
  BY DEF StarterPlaces
<1>3. PICK o \in ObligationsIn(P, L, V, place) : o.by # "axiom"
  BY DEF StarterPlaces
<1>4. \E q \in ObligationsIn(P, L, U, place) : q.by # "axiom"
  <2> DEFINE fs == {f \in SpecFunctions(P, L) : FileOf(L, P.fns[f].mod) = place}
             multi == Cardinality({TheoremNs(P, L, f) : f \in fs}) > 1
             Obligation(W, f) == [of |-> f, ns |-> TheoremNs(P, L, f), hyps |-> Preconditions(P, f),
                                  goal |-> GoalOf(P, L, f), multi |-> multi,
                                  by |-> ByWhat(P, L, W, f, place[2], multi)]
  <2>0. \A W : ObligationsIn(P, L, W, place) = {Obligation(W, f) : f \in fs}
    BY Zenon DEF ObligationsIn
  <2>1. PICK f \in fs : o = Obligation(V, f)
    BY <1>3, <2>0
  <2>2. ~P.fns[f].boogie
    BY <1>3, <2>1 DEF ByWhat
  <2>3. ByWhat(P, L, U, f, place[2], multi) # "axiom"
    BY <2>2 DEF ByWhat
  <2>4. Obligation(U, f) \in ObligationsIn(P, L, U, place)
    BY <2>0
  <2> QED
    BY <2>3, <2>4
<1>5. place \in StarterPlaces(P, L, U)
  BY <1>1, <1>2, <1>4 DEF StarterPlaces
<1>6. Proofs(place[2]) \in DOMAIN StarterFiles(P, L, U)
  BY <1>5 DEF StarterFiles
<1> QED
  BY <1>1, <1>2, <1>6

-----------------------------------------------------------------------------
(* The invariant: what the steps so far have written is there. *)

Rendered(P, U)  == RenderedFiles(P, Layout(P), U, NativeFiles(P))
Stated(P, U)    == CorrectnessFiles(P, Layout(P), U)
Generated(P)    == GeneratedFiles(P, Layout(P))
StillThere(F)   == \A p \in DOMAIN F : p \in DOMAIN out /\ p \in written /\ out[p] = F[p]
IsOwn(P, U, p)  == \/ p \in DOMAIN PreludeFiles \/ p \in DOMAIN NativeFiles(P)
                   \/ p \in DOMAIN Rendered(P, U) \/ p \in DOMAIN Stated(P, U)
                   \/ p \in DOMAIN Generated(P)

LaidOut   == {"emit", "correct", "universe", "lakefile", "stale", "built"}
Emitted   == {"correct", "universe", "lakefile", "stale", "built"}
Certified == {"universe", "lakefile", "stale", "built"}
Complete  == {"lakefile", "stale", "built"}

\* The files of the user and of the directory, in and between runs.
Files ==
    /\ prog \in Programs
    /\ IsFun(user) /\ \A p \in DOMAIN user : IsUserPath(p)
    /\ IsFun(out) /\ \A p \in DOMAIN out : p[3] = "natives" => p \in NativePaths(TRUE)

\* What a run has done with the user's files: migrated them in the first pass,
\* and added the starter proofs before the second.
Passes ==
    /\ pc \in LaidOut \cup {"idle", "layout"}
    /\ pc # "idle" => pass \in {1, 2}
    /\ pc \in LaidOut \/ (pc = "layout" /\ pass = 2) => Flats = {}
    /\ pass = 2 /\ pc \in {"layout", "emit", "correct"} => StarterPlaces(prog, Layout(prog), user) = {}
    /\ pc \in LaidOut => lay = Layout(prog)

\* What it has recorded is part of what the program and the user's files call for.
Recorded ==
    /\ pc = "layout" /\ pass = 1 => written = DOMAIN PreludeFiles
    /\ pc \in LaidOut \/ (pc = "layout" /\ pass = 2) => \A p \in written : IsOwn(prog, user, p)

\* What it has written is still there.
Progress ==
    /\ pc # "idle" => StillThere(PreludeFiles)
    /\ pc \in LaidOut => StillThere(NativeFiles(prog))
    /\ pc \in Emitted => StillThere(Rendered(prog, user))
    /\ pc \in Certified => StillThere(Stated(prog, user))
    /\ pc \in Complete => StillThere(Generated(prog))
    /\ pc = "built" => \A p \in DOMAIN out : p \in written

Inv == Files /\ Passes /\ Recorded /\ Progress

LEMMA Dirs ==
    /\ <<"Termination">> # <<>> /\ <<"Proofs">> # <<>> /\ <<"Hooks">> # <<>>
    /\ <<"Termination">> # <<"Proofs">> /\ <<"Hooks">> # <<"Proofs">>
    /\ <<"Prelude">> # <<"Generated">> /\ <<"Prelude">> # <<"Correctness">>
    /\ <<"Generated">> # <<"Correctness">>
OBVIOUS

\* Files of different steps have different paths.
LEMMA Apart ==
    ASSUME NEW P \in Programs, NEW U, NEW p
    PROVE  /\ p \in DOMAIN PreludeFiles => /\ p \notin DOMAIN NativeFiles(P) /\ p \notin DOMAIN Rendered(P, U)
                                           /\ p \notin DOMAIN Stated(P, U) /\ p \notin DOMAIN Generated(P)
           /\ p \in DOMAIN NativeFiles(P) => /\ p \notin DOMAIN Rendered(P, U)
                                             /\ p \notin DOMAIN Stated(P, U) /\ p \notin DOMAIN Generated(P)
           /\ p \in DOMAIN Rendered(P, U) => p \notin DOMAIN Stated(P, U) /\ p \notin DOMAIN Generated(P)
           /\ p \in DOMAIN Stated(P, U) => p \notin DOMAIN Generated(P)
           /\ p[1] = <<"Correctness">> => /\ p \notin DOMAIN PreludeFiles /\ p \notin DOMAIN NativeFiles(P)
                                          /\ p \notin DOMAIN Rendered(P, U)
<1>1. p \in DOMAIN PreludeFiles => p[1] = <<"Prelude">> /\ p[3] = "Prelude"
  BY PreludePath
<1>2. p \in DOMAIN NativeFiles(P) => p[3] = "natives" /\ p[1] \notin ToolDirs
  BY NativePlaces
<1>3. p \in DOMAIN Rendered(P, U) => p[1] \notin ToolDirs /\ p[3] \in {"main", "types", "skeleton"}
  BY RenderedPlaces DEF Rendered
<1>4. p \in DOMAIN Stated(P, U) => p[1] = <<"Correctness">>
  BY CorrectPlaces DEF Stated
<1>5. p \in DOMAIN Generated(P) => p[1] = <<"Generated">>
  BY GeneratedPlaces DEF Generated
<1> QED
  BY <1>1, <1>2, <1>3, <1>4, <1>5, Dirs DEF ToolDirs

LEMMA InitInv == Init => Inv
<1> SUFFICES ASSUME Init PROVE Inv
  OBVIOUS
<1>1. Files
  <2>1. IsFun(user) /\ \A p \in DOMAIN user : IsUserPath(p)
    BY UserAssumption DEF Init, IsFun
  <2>2. IsFun(out) /\ \A p \in DOMAIN out : p[3] = "natives" => p \in NativePaths(TRUE)
    BY DEF Init, IsFun
  <2> QED
    BY <2>1, <2>2 DEF Init, Files
<1> QED
  BY <1>1 DEF Init, Inv, Passes, Recorded, Progress, LaidOut, Emitted, Certified, Complete

-----------------------------------------------------------------------------
(* The steps of a run. *)

\* What was kept is kept by a step that writes other files.
LEMMA KeptBy ==
    ASSUME NEW F, NEW G, StillThere(F), out' = G ++ out, written' = written \cup DOMAIN G,
           \A p \in DOMAIN F : p \notin DOMAIN G
    PROVE  StillThere(F)'
<1> SUFFICES ASSUME NEW p \in DOMAIN F
             PROVE  p \in DOMAIN out' /\ p \in written' /\ out'[p] = F[p]
  BY DEF StillThere
<1>1. p \in DOMAIN out /\ p \in written /\ out[p] = F[p] /\ p \notin DOMAIN G
  BY DEF StillThere
<1> QED
  BY <1>1, Domains, Lookups

LEMMA KeptNew ==
    ASSUME NEW G, out' = G ++ out, written' = written \cup DOMAIN G
    PROVE  StillThere(G)'
<1> SUFFICES ASSUME NEW p \in DOMAIN G
             PROVE  p \in DOMAIN out' /\ p \in written' /\ out'[p] = G[p]
  BY DEF StillThere
<1> QED
  BY Domains, Lookups

LEMMA FilesGrow ==
    ASSUME Files, NEW G, out' = G ++ out,
           \A p \in DOMAIN G : p[3] = "natives" => p \in NativePaths(TRUE)
    PROVE  IsFun(out') /\ \A p \in DOMAIN out' : p[3] = "natives" => p \in NativePaths(TRUE)
BY Domains, Functional DEF Files

LEMMA SetupKeepsInv == Inv /\ Setup => Inv'
<1> SUFFICES ASSUME Inv, Setup PROVE Inv'
  OBVIOUS
<1>1. Files'
  <2>1. \A p \in DOMAIN PreludeFiles : p[3] # "natives"
    BY PreludePath
  <2> QED
    BY <2>1, FilesGrow DEF Inv, Files, Setup
<1>2. StillThere(PreludeFiles)'
  <2> SUFFICES ASSUME NEW p \in DOMAIN PreludeFiles
               PROVE  p \in DOMAIN out' /\ p \in written' /\ out'[p] = PreludeFiles[p]
    BY DEF StillThere
  <2> QED
    BY Domains, Lookups DEF Setup
<1> QED
  BY <1>1, <1>2 DEF Inv, Setup, Passes, Recorded, Progress, LaidOut, Emitted, Certified, Complete

\* Migrating what is in the legacy layout leaves none of it there.
LEMMA MigrationMoves ==
    ASSUME Files, NEW L, NEW S, S \subseteq Flats, user' = Migrated(L, S)
    PROVE  /\ IsFun(user') /\ \A p \in DOMAIN user' : IsUserPath(p)
           /\ S = Flats => \A p \in DOMAIN user' : p[1] # <<>>
           /\ S = {} => user' = user
<1> DEFINE new == [q \in {Moved(L, p) : p \in S} |-> user[CHOOSE p \in S : q = Moved(L, p)]]
<1>1. user' = new ++ Without(user, S)
  BY DEF Migrated
<1>2. DOMAIN new = {Moved(L, p) : p \in S}
  OBVIOUS
<1> HIDE DEF new
<1>3. \A p : IsUserPath(Moved(L, p)) /\ Moved(L, p)[1] # <<>>
  BY Dirs DEF Moved, Termination, Proofs, Path, IsUserPath
<1>4. \A p : p \in DOMAIN user' <=> p \in DOMAIN new \/ (p \in DOMAIN user /\ p \notin S)
  BY <1>1, Domains, Lookups
<1>5. IsFun(user') /\ \A p \in DOMAIN user' : IsUserPath(p)
  <2>1. IsFun(user')
    BY <1>1, Functional
  <2>2. \A p \in DOMAIN user' : IsUserPath(p)
    BY <1>2, <1>3, <1>4 DEF Files
  <2> QED
    BY <2>1, <2>2
<1>6. S = Flats => \A p \in DOMAIN user' : p[1] # <<>>
  BY <1>2, <1>3, <1>4 DEF Flats
<1>7. ASSUME S = {} PROVE user' = user
  <2>1. DOMAIN user' = DOMAIN user
    BY <1>2, <1>4, <1>7
  <2>2. \A p \in DOMAIN user : user'[p] = user[p]
    <3> SUFFICES ASSUME NEW p \in DOMAIN user PROVE user'[p] = user[p]
      OBVIOUS
    <3>1. p \in DOMAIN Without(user, S) /\ p \notin DOMAIN new
      BY <1>2, <1>7, Domains
    <3> QED
      BY <1>1, <1>7, <3>1, Lookups
  <2> QED
    BY <1>5, <2>1, <2>2 DEF Files, IsFun
<1> QED
  BY <1>5, <1>6, <1>7

LEMMA MigrationFailsKeepsInv == Inv /\ MigrationFails => Inv'
<1> SUFFICES ASSUME Inv, MigrationFails PROVE Inv'
  OBVIOUS
<1>1. PICK S : S \subseteq Flats /\ user' = Migrated(Layout(prog), S)
  BY DEF MigrationFails
<1>2. out' = NativeFiles(prog) ++ out
  BY DEF MigrationFails, write_if_changed
<1>3. Files'
  <2>1. IsFun(user') /\ \A p \in DOMAIN user' : IsUserPath(p)
    BY <1>1, MigrationMoves DEF Inv
  <2>2. \A p \in DOMAIN NativeFiles(prog) : p \in NativePaths(TRUE)
    BY NativePlaces DEF Inv, Files
  <2>3. IsFun(out') /\ \A p \in DOMAIN out' : p[3] = "natives" => p \in NativePaths(TRUE)
    BY <1>2, <2>2, FilesGrow DEF Inv
  <2> QED
    BY <2>1, <2>3 DEF Inv, Files, MigrationFails
<1> QED
  BY <1>3 DEF Inv, MigrationFails, Passes, Recorded, Progress, LaidOut, Emitted, Certified, Complete

LEMMA LayOutKeepsInv == Inv /\ LayOut => Inv'
<1> SUFFICES ASSUME Inv, LayOut PROVE Inv'
  OBVIOUS
<1> DEFINE N == NativeFiles(prog)
           old == OldFiles(prog, Layout(prog))
<1>1. /\ pc = "layout" /\ pc' = "emit" /\ UNCHANGED <<prog, libs, pass, runs>>
      /\ lay' = Layout(prog) /\ user' = Migrated(Layout(prog), Flats)
      /\ out' = Without(N ++ out, old) /\ written' = written \cup DOMAIN N
  BY DEF LayOut
<1>2. \A p : p \in old => p[3] = "main"
  BY DEF OldFiles, Path
<1> HIDE DEF N, old
<1>3. \A p \in DOMAIN N : p[3] = "natives" /\ p \in NativePaths(TRUE)
  BY NativePlaces DEF Inv, Files, N
<1>4. /\ IsFun(user') /\ \A p \in DOMAIN user' : IsUserPath(p)
      /\ \A p \in DOMAIN user' : p[1] # <<>>
      /\ Flats = {} => user' = user
  BY <1>1, MigrationMoves DEF Inv
<1>5. /\ \A p : p \in DOMAIN out' <=> (p \in DOMAIN N \/ p \in DOMAIN out) /\ p \notin old
      /\ \A p \in DOMAIN out' : out'[p] = (N ++ out)[p]
      /\ IsFun(out')
  BY <1>1, Domains, Lookups, Functional
<1>6. Files'
  BY <1>1, <1>3, <1>4, <1>5 DEF Inv, Files
<1>7. StillThere(PreludeFiles)'
  <2>1. \A p \in DOMAIN PreludeFiles : p[3] = "Prelude"
    BY PreludePath
  <2>2. \A p \in DOMAIN PreludeFiles : p \in DOMAIN out' /\ p \notin DOMAIN N
    BY <1>1, <1>2, <1>3, <1>5, <2>1 DEF Inv, Progress, StillThere
  <2> QED
    <3> SUFFICES ASSUME NEW p \in DOMAIN PreludeFiles
                 PROVE  p \in DOMAIN out' /\ p \in written' /\ out'[p] = PreludeFiles[p]
      BY DEF StillThere
    <3>1. p \in DOMAIN out /\ p \in written /\ out[p] = PreludeFiles[p]
      BY <1>1 DEF Inv, Progress, StillThere
    <3> QED
      BY <1>1, <1>5, <2>2, <3>1, Lookups
<1>8. StillThere(N)'
  <2> SUFFICES ASSUME NEW p \in DOMAIN N
               PROVE  p \in DOMAIN out' /\ p \in written' /\ out'[p] = N[p]
    BY <1>1 DEF StillThere, N
  <2>1. p \in DOMAIN out' /\ p \in written'
    BY <1>1, <1>2, <1>3, <1>5
  <2> QED
    BY <1>5, <2>1, Lookups
<1>9. Recorded'
  <2>1. \A p \in written : IsOwn(prog, user', p)
    BY <1>1, <1>4 DEF Inv, Passes, Recorded, IsOwn
  <2> QED
    BY <1>1, <2>1 DEF Recorded, IsOwn, N
<1>10. Passes'
  BY <1>1, <1>4 DEF Inv, Passes, LaidOut, Flats
<1>11. Progress'
  BY <1>1, <1>7, <1>8 DEF Progress, LaidOut, Emitted, Certified, Complete, N
<1> QED
  BY <1>6, <1>9, <1>10, <1>11 DEF Inv

LEMMA EmitKeepsInv == Inv /\ Emit => Inv'
<1> SUFFICES ASSUME Inv, Emit PROVE Inv'
  OBVIOUS
<1> DEFINE R == Rendered(prog, user)
<1>1. /\ pc = "emit" /\ pc' = "correct" /\ UNCHANGED <<prog, user, lay, libs, pass, runs>>
      /\ lay = Layout(prog) /\ prog \in Programs
  BY DEF Inv, Files, Passes, Emit, LaidOut
<1>2. out' = R ++ out /\ written' = written \cup DOMAIN R
  <2>1. SameNatives(prog, Layout(prog), out, NativeFiles(prog))
    BY <1>1, NativesAreOwn DEF Inv, Files, Progress, StillThere, LaidOut
  <2>2. RenderedFiles(prog, lay, user, out) = R
    BY <1>1, <2>1, RenderedDepends DEF Rendered, SameHooks
  <2> QED
    BY <2>2 DEF Emit, write_if_changed
<1>3. \A p \in DOMAIN R : p[3] # "natives"
  BY <1>1, RenderedPlaces DEF Rendered
<1>4. /\ \A p \in DOMAIN PreludeFiles : p \notin DOMAIN R
      /\ \A p \in DOMAIN NativeFiles(prog) : p \notin DOMAIN R
  BY <1>1, Apart
<1>5. \A p \in DOMAIN R : IsOwn(prog, user, p)
  BY DEF IsOwn
<1> HIDE DEF R
<1>6. Files'
  BY <1>1, <1>2, <1>3, FilesGrow DEF Inv, Files
<1>7. StillThere(PreludeFiles)' /\ StillThere(NativeFiles(prog))'
  BY <1>1, <1>2, <1>4, KeptBy DEF Inv, Progress, LaidOut
<1>8. \A p \in DOMAIN R : p \in DOMAIN out' /\ p \in written' /\ out'[p] = R[p]
  BY <1>2, Domains, Lookups
<1>9. Recorded'
  BY <1>1, <1>2, <1>5 DEF Inv, Recorded, LaidOut
<1>10. StillThere(Rendered(prog, user))'
  BY <1>1, <1>8 DEF StillThere, R
<1>11. Progress'
  BY <1>1, <1>7, <1>10 DEF Progress, LaidOut, Emitted, Certified, Complete
<1> QED
  BY <1>1, <1>6, <1>9, <1>11 DEF Inv, Passes, LaidOut, Flats

\* The theorems are stated, and their starter proofs added to the user's files:
\* after the first pass there is another one, after the second nothing to add.
LEMMA StatingKeepsInv == Inv /\ Stating => Inv'
<1> SUFFICES ASSUME Inv, Stating PROVE Inv'
  OBVIOUS
<1> DEFINE C == Stated(prog, user)
           starters == StarterFiles(prog, Layout(prog), user)
           stale == {p \in DOMAIN out : p[1] = <<"Correctness">>}
<1>1. /\ pc = "correct" /\ UNCHANGED <<prog, lay, libs, runs>>
      /\ lay = Layout(prog) /\ prog \in Programs /\ pass \in {1, 2}
  BY DEF Inv, Files, Passes, Stating, LaidOut
<1>2. /\ out' = C ++ Without(out, stale) /\ written' = written \cup DOMAIN C
      /\ user' = starters ++ user
  BY <1>1 DEF Stating, Stated
<1>3. \/ pass = 1 /\ user' # <<>> /\ pass' = 2 /\ pc' = "layout"
      \/ ~(pass = 1 /\ user' # <<>>) /\ pc' = "universe" /\ pass' = pass
  BY DEF Stating
<1>4. \A p \in DOMAIN starters : p \notin DOMAIN user /\ p[1] = <<"Proofs">> /\ IsUserPath(p)
  BY StartersAreNew
<1>5. \A p \in DOMAIN C : p[1] = <<"Correctness">> /\ p[3] # "natives"
  BY CorrectPlaces DEF Stated
<1>6. \A p \in stale : p[1] = <<"Correctness">>
  OBVIOUS
<1>7. pass = 2 => StarterPlaces(prog, Layout(prog), user) = {}
  BY <1>1 DEF Inv, Passes
<1>8. StarterPlaces(prog, Layout(prog), user') = {}
  BY <1>2, StartersOnce
<1>9. DOMAIN Stated(prog, user') = DOMAIN C
  BY DEF Stated, CorrectnessFiles
<1>10. ASSUME pc' = "universe" PROVE user' = user
  <2>1. \A p : p \notin DOMAIN starters
    <3>1. ASSUME pass = 2 PROVE \A p : p \notin DOMAIN starters
      <4>1. DOMAIN starters = {Proofs(place[2]) : place \in StarterPlaces(prog, Layout(prog), user)}
        BY DEF StarterFiles
      <4> QED
        BY <1>7, <3>1, <4>1
    <3> HIDE DEF starters
    <3>2. ASSUME user' = <<>> PROVE \A p : p \notin DOMAIN starters
      <4>1. \A p : p \notin DOMAIN user'
        BY <3>2, Domains
      <4> QED
        BY <1>2, <4>1, Domains
    <3>3. pass = 2 \/ user' = <<>>
      BY <1>1, <1>3, <1>10
    <3> QED
      BY <3>1, <3>2, <3>3
  <2> HIDE DEF starters
  <2>2. DOMAIN user' = DOMAIN user
    BY <1>2, <2>1, Domains
  <2>3. \A p \in DOMAIN user : user'[p] = user[p]
    BY <1>2, <2>1, Lookups
  <2>4. IsFun(user')
    BY <1>2, Functional
  <2> QED
    BY <2>2, <2>3, <2>4 DEF Inv, Files, IsFun
<1> HIDE DEF starters, stale
<1>11. SameHooks(user, user')
  <2>1. \A stem : Termination(stem)[1] # <<"Proofs">> /\ Hooks(stem)[1] # <<"Proofs">>
    BY Dirs DEF Termination, Hooks, Path
  <2> QED
    BY <1>2, <1>4, <2>1, Domains DEF SameHooks
<1>12. Rendered(prog, user') = Rendered(prog, user)
  BY <1>11, RenderedDepends DEF Rendered, SameNatives
<1> HIDE DEF C
<1>13. Files'
  <2>1. IsFun(user') /\ IsFun(out')
    BY <1>2, Functional
  <2>2. \A p \in DOMAIN user' : IsUserPath(p)
    BY <1>2, <1>4, Domains DEF Inv, Files
  <2>3. \A p \in DOMAIN out' : p \in DOMAIN C \/ p \in DOMAIN out
    BY <1>2, Domains
  <2>4. \A p \in DOMAIN out' : p[3] = "natives" => p \in NativePaths(TRUE)
    BY <1>5, <2>3 DEF Inv, Files
  <2> QED
    BY <1>1, <2>1, <2>2, <2>4 DEF Files
<1>14. \A p \in DOMAIN user' : p[1] # <<>>
  BY <1>1, <1>2, <1>4, Domains, Dirs DEF Inv, Passes, Flats, LaidOut
<1>15. ASSUME NEW F, StillThere(F), \A p \in DOMAIN F : p[1] # <<"Correctness">>
       PROVE  StillThere(F)'
  <2> SUFFICES ASSUME NEW p \in DOMAIN F
               PROVE  p \in DOMAIN out' /\ p \in written' /\ out'[p] = F[p]
    BY DEF StillThere
  <2>1. p \in DOMAIN out /\ p \in written /\ out[p] = F[p] /\ p \notin stale /\ p \notin DOMAIN C
    BY <1>5, <1>6, <1>15 DEF StillThere
  <2> QED
    BY <1>2, <2>1, Domains, Lookups
<1>16. StillThere(PreludeFiles)' /\ StillThere(NativeFiles(prog))' /\ StillThere(Rendered(prog, user))'
  <2>1. \A p : p[1] = <<"Correctness">> => /\ p \notin DOMAIN PreludeFiles /\ p \notin DOMAIN NativeFiles(prog)
                                           /\ p \notin DOMAIN Rendered(prog, user)
    BY <1>1, Apart
  <2>2. StillThere(PreludeFiles) /\ StillThere(NativeFiles(prog)) /\ StillThere(Rendered(prog, user))
    BY <1>1 DEF Inv, Progress, LaidOut, Emitted
  <2> QED
    BY <1>1, <1>12, <1>15, <2>1, <2>2
<1>17. \A p \in DOMAIN C : p \in DOMAIN out' /\ p \in written' /\ out'[p] = C[p]
  BY <1>2, Domains, Lookups
<1>18. \A p \in written' : IsOwn(prog, user', p)
  BY <1>1, <1>2, <1>9, <1>12 DEF Inv, Recorded, LaidOut, IsOwn, C
<1>19. Passes' /\ Recorded' /\ Progress'
  <2>1. CASE pc' = "layout" /\ pass' = 2
    BY <1>1, <1>8, <1>14, <1>16, <1>18, <2>1
       DEF Passes, Recorded, Progress, LaidOut, Emitted, Certified, Complete, Flats
  <2>2. CASE pc' = "universe" /\ pass' = pass
    <3>1. user' = user
      BY <1>10, <2>2
    <3>2. Passes' /\ Recorded'
      BY <1>1, <1>14, <1>18, <2>2 DEF Passes, Recorded, LaidOut, Flats
    <3>3. StillThere(Stated(prog, user))'
      BY <1>1, <1>17, <3>1 DEF StillThere, C
    <3>4. Progress'
      BY <1>1, <1>16, <2>2, <3>3 DEF Progress, LaidOut, Emitted, Certified, Complete
    <3> QED
      BY <3>2, <3>4
  <2> QED
    BY <1>3, <2>1, <2>2
<1> QED
  BY <1>13, <1>19 DEF Inv

LEMMA UniverseKeepsInv == Inv /\ Universe => Inv'
<1> SUFFICES ASSUME Inv, Universe PROVE Inv'
  OBVIOUS
<1> DEFINE G == Generated(prog)
<1>1. /\ pc = "universe" /\ pc' = "lakefile" /\ UNCHANGED <<prog, user, lay, libs, pass, runs>>
      /\ lay = Layout(prog) /\ prog \in Programs
  BY DEF Inv, Files, Passes, Universe, LaidOut
<1>2. out' = G ++ out /\ written' = written \cup DOMAIN G
  BY <1>1 DEF Universe, write_if_changed, Generated
<1>3. \A p \in DOMAIN G : p[3] # "natives"
  BY GeneratedPlaces DEF Generated
<1>4. /\ \A p \in DOMAIN PreludeFiles : p \notin DOMAIN G
      /\ \A p \in DOMAIN NativeFiles(prog) : p \notin DOMAIN G
      /\ \A p \in DOMAIN Rendered(prog, user) : p \notin DOMAIN G
      /\ \A p \in DOMAIN Stated(prog, user) : p \notin DOMAIN G
  BY <1>1, Apart
<1>5. \A p \in DOMAIN G : IsOwn(prog, user, p)
  BY DEF IsOwn
<1> HIDE DEF G
<1>6. Files'
  BY <1>1, <1>2, <1>3, FilesGrow DEF Inv, Files
<1>7. StillThere(PreludeFiles)' /\ StillThere(NativeFiles(prog))'
  BY <1>1, <1>2, <1>4, KeptBy DEF Inv, Progress, LaidOut
<1>8. StillThere(Rendered(prog, user))'
  BY <1>1, <1>2, <1>4, KeptBy DEF Inv, Progress, Emitted
<1>9. StillThere(Stated(prog, user))'
  BY <1>1, <1>2, <1>4, KeptBy DEF Inv, Progress, Certified
<1>10. \A p \in DOMAIN G : p \in DOMAIN out' /\ p \in written' /\ out'[p] = G[p]
  BY <1>2, Domains, Lookups
<1>11. StillThere(Generated(prog))'
  BY <1>1, <1>10 DEF StillThere, G
<1>12. Recorded'
  BY <1>1, <1>2, <1>5 DEF Inv, Recorded, LaidOut
<1>13. Progress'
  BY <1>1, <1>7, <1>8, <1>9, <1>11 DEF Progress, LaidOut, Emitted, Certified, Complete
<1> QED
  BY <1>1, <1>6, <1>12, <1>13 DEF Inv, Passes, LaidOut, Flats

LEMMA LakefileKeepsInv == Inv /\ Lakefile => Inv'
<1> SUFFICES ASSUME Inv, Lakefile PROVE Inv'
  OBVIOUS
<1>1. pc = "lakefile" /\ pc' = "stale" /\ UNCHANGED <<prog, user, out, written, lay, pass, runs>>
  BY DEF Lakefile
<1>2. Files' /\ Passes' /\ Recorded'
  BY <1>1 DEF Inv, Files, Passes, Recorded, LaidOut, Flats
<1>3. Progress'
  BY <1>1 DEF Inv, Progress, StillThere, LaidOut, Emitted, Certified, Complete
<1> QED
  BY <1>2, <1>3 DEF Inv

\* What was recorded in this run stays, and nothing else.
LEMMA RemoveStaleKeepsInv == Inv /\ remove_stale => Inv'
<1> SUFFICES ASSUME Inv, remove_stale PROVE Inv'
  OBVIOUS
<1>1. /\ pc = "stale" /\ pc' = "built" /\ UNCHANGED <<prog, user, written, lay, libs, pass, runs>>
      /\ out' = Without(out, DOMAIN out \ written)
  BY DEF remove_stale
<1>2. /\ \A p : p \in DOMAIN out' <=> p \in DOMAIN out /\ p \in written
      /\ \A p \in DOMAIN out' : out'[p] = out[p]
      /\ IsFun(out')
  BY <1>1, Domains, Lookups, Functional
<1>3. Files' /\ Passes' /\ Recorded'
  BY <1>1, <1>2 DEF Inv, Files, Passes, Recorded, LaidOut, Flats
<1>4. ASSUME NEW F, StillThere(F) PROVE StillThere(F)'
  BY <1>1, <1>2, <1>4 DEF StillThere
<1>5. /\ StillThere(PreludeFiles) /\ StillThere(NativeFiles(prog)) /\ StillThere(Rendered(prog, user))
      /\ StillThere(Stated(prog, user)) /\ StillThere(Generated(prog))
  BY <1>1 DEF Inv, Progress, LaidOut, Emitted, Certified, Complete
<1>6. Progress'
  BY <1>1, <1>2, <1>4, <1>5 DEF Progress, LaidOut, Emitted, Certified, Complete
<1> QED
  BY <1>3, <1>6 DEF Inv

LEMMA StopKeepsInv == Inv /\ (Finish \/ Interrupt) => Inv'
<1> SUFFICES ASSUME Inv, Finish \/ Interrupt PROVE Inv'
  OBVIOUS
<1>1. pc' = "idle" /\ UNCHANGED <<prog, user, out>>
  BY DEF Finish, Interrupt
<1> QED
  BY <1>1 DEF Inv, Files, Passes, Recorded, Progress, LaidOut, Emitted, Certified, Complete

LEMMA EditKeepsInv == Inv /\ (EditProgram \/ EditUserFile) => Inv'
<1> SUFFICES ASSUME Inv, EditProgram \/ EditUserFile PROVE Inv'
  OBVIOUS
<1>1. pc = "idle" /\ pc' = "idle" /\ UNCHANGED <<out, written, lay, pass>>
  BY DEF EditProgram, EditUserFile, Idle
<1>2. prog' \in Programs
  BY ProgramsAssumption DEF Inv, Files, EditProgram, EditUserFile
<1>3. IsFun(user') /\ \A p \in DOMAIN user' : IsUserPath(p)
  <2>1. CASE EditProgram
    BY <2>1 DEF Inv, Files, EditProgram
  <2>2. ASSUME NEW p \in UserEdits, user' = Without(user, {p})
        PROVE  IsFun(user') /\ \A q \in DOMAIN user' : IsUserPath(q)
    BY <2>2, Domains, Functional DEF Inv, Files
  <2>3. ASSUME NEW p \in UserEdits, user' = OneFile(p, File({}, <<>>, {})) ++ user
        PROVE  IsFun(user') /\ \A q \in DOMAIN user' : IsUserPath(q)
    BY <2>3, UserAssumption, Domains, Functional DEF Inv, Files
  <2> QED
    BY <2>1, <2>2, <2>3 DEF EditUserFile
<1> QED
  BY <1>1, <1>2, <1>3 DEF Inv, Files, Passes, Recorded, Progress, LaidOut, Emitted, Certified, Complete

LEMMA NextInv == Inv /\ [Next]_vars => Inv'
<1> SUFFICES ASSUME Inv, [Next]_vars PROVE Inv'
  OBVIOUS
<1>1. ASSUME UNCHANGED vars PROVE Inv'
  <2>1. Files' /\ Passes' /\ Recorded'
    BY <1>1 DEF vars, Inv, Files, Passes, Recorded, Flats
  <2>2. Progress'
    BY <1>1 DEF vars, Inv, Progress, StillThere
  <2> QED
    BY <2>1, <2>2 DEF Inv
<1> QED
  BY <1>1, SetupKeepsInv, LayOutKeepsInv, MigrationFailsKeepsInv, EmitKeepsInv, StatingKeepsInv,
     UniverseKeepsInv, LakefileKeepsInv, RemoveStaleKeepsInv, StopKeepsInv, EditKeepsInv DEF Next

\* In every reachable state, of any number of runs, finished or interrupted, over any programs: a run's layout is
\* that of the program, what it has written is still there, and what it has recorded is what is asked of it.
THEOREM Invariance == Spec => []Inv
BY InitInv, NextInv, PTL DEF Spec

-----------------------------------------------------------------------------
(* What follows from it. *)

LEMMA OwnFiles ==
    ASSUME Inv, pc = "built"
    PROVE  /\ \A p : p \in DOMAIN out <=> IsOwn(prog, user, p)
           /\ StillThere(PreludeFiles) /\ StillThere(NativeFiles(prog)) /\ StillThere(Rendered(prog, user))
           /\ StillThere(Stated(prog, user)) /\ StillThere(Generated(prog))
<1>1. /\ StillThere(PreludeFiles) /\ StillThere(NativeFiles(prog)) /\ StillThere(Rendered(prog, user))
      /\ StillThere(Stated(prog, user)) /\ StillThere(Generated(prog))
      /\ \A p \in DOMAIN out : p \in written
      /\ \A p \in written : IsOwn(prog, user, p)
  BY DEF Inv, Recorded, Progress, LaidOut, Emitted, Certified, Complete
<1>2. ASSUME NEW p, IsOwn(prog, user, p) PROVE p \in DOMAIN out
  BY <1>1, <1>2 DEF IsOwn, StillThere
<1> QED
  BY <1>1, <1>2

LEMMA InvFresh == Inv => OutputFresh
<1> SUFFICES ASSUME Inv, pc = "built" PROVE out = Fresh
  BY DEF OutputFresh, Built
<1> DEFINE A == PreludeFiles
           N == NativeFiles(prog)
           R == Rendered(prog, user)
           C == Stated(prog, user)
           G == Generated(prog)
<1>1. Fresh = (A ++ N ++ R ++ C ++ G)
  BY DEF Fresh, Rendered, Stated, Generated
<1>2. /\ \A p : p \in DOMAIN out <=> p \in DOMAIN A \/ p \in DOMAIN N \/ p \in DOMAIN R \/ p \in DOMAIN C \/ p \in DOMAIN G
      /\ \A p \in DOMAIN A : out[p] = A[p]
      /\ \A p \in DOMAIN N : out[p] = N[p]
      /\ \A p \in DOMAIN R : out[p] = R[p]
      /\ \A p \in DOMAIN C : out[p] = C[p]
      /\ \A p \in DOMAIN G : out[p] = G[p]
  BY OwnFiles DEF IsOwn, StillThere
<1> HIDE DEF A, N, R, C, G
<1>3. \A p : p \in DOMAIN Fresh <=> p \in DOMAIN A \/ p \in DOMAIN N \/ p \in DOMAIN R \/ p \in DOMAIN C \/ p \in DOMAIN G
  BY <1>1, Domains
<1>4. ASSUME NEW p \in DOMAIN out PROVE out[p] = Fresh[p]
  <2> DEFINE F2 == A ++ N
             F3 == F2 ++ R
             F4 == F3 ++ C
  <2>1. /\ \A q : q \in DOMAIN F2 <=> q \in DOMAIN A \/ q \in DOMAIN N
        /\ p \in DOMAIN F2 => F2[p] = out[p]
    BY <1>2, Domains, Lookups
  <2>2. Fresh = F4 ++ G
    BY <1>1
  <2> HIDE DEF F2
  <2>3. /\ \A q : q \in DOMAIN F3 <=> q \in DOMAIN F2 \/ q \in DOMAIN R
        /\ p \in DOMAIN F3 => F3[p] = out[p]
    BY <1>2, <2>1, Domains, Lookups
  <2> HIDE DEF F3
  <2>4. /\ \A q : q \in DOMAIN F4 <=> q \in DOMAIN F3 \/ q \in DOMAIN C
        /\ p \in DOMAIN F4 => F4[p] = out[p]
    BY <1>2, <2>3, Domains, Lookups
  <2> HIDE DEF F4
  <2>5. p \in DOMAIN F4 \/ (p \notin DOMAIN F4 /\ p \in DOMAIN G)
    BY <1>2, <2>1, <2>3, <2>4
  <2> QED
    BY <1>2, <2>2, <2>4, <2>5, Lookups
<1>5. IsFun(out) /\ IsFun(Fresh)
  BY <1>1, Functional DEF Inv, Files
<1>6. DOMAIN out = DOMAIN Fresh
  BY <1>2, <1>3
<1> QED
  BY <1>4, <1>5, <1>6 DEF IsFun

\* After every run that ends, the output directory is what the program and the user's files call for, and nothing
\* else (WrittenFiles, remove_stale, the second pass of run_backend_inner), for all programs and over any number
\* of runs, whatever runs were interrupted before.
THEOREM OutputIsFresh == Spec => []OutputFresh
BY Invariance, InvFresh, PTL

-----------------------------------------------------------------------------
(* The user's files. *)

KeepsUserFiles == \A p \in DOMAIN user : \E q \in DOMAIN user' : user'[q] = user[p] /\ (q = p \/ p[1] = <<>>)

\* Different files of the legacy layout, which differ in their stems, go to different paths.
LEMMA MovedApart ==
    ASSUME Files, NEW L, NEW p \in Flats, NEW q \in Flats, Moved(L, p) = Moved(L, q)
    PROVE  p = q
<1>1. p[2] = q[2]
  BY DEF Moved, Termination, Proofs, Path
<1>2. IsUserPath(p) /\ IsUserPath(q) /\ p[1] = q[1]
  BY DEF Files, Flats
<1> QED
  BY <1>1, <1>2 DEF IsUserPath

LEMMA MigrationKeeps ==
    ASSUME Files, NEW L, NEW S, S \subseteq Flats \ Clashes(L), user' = Migrated(L, S)
    PROVE  KeepsUserFiles
<1> DEFINE source(q) == CHOOSE p \in S : q = Moved(L, p)
           new == [q \in {Moved(L, p) : p \in S} |-> user[source(q)]]
<1> SUFFICES ASSUME NEW p \in DOMAIN user
             PROVE  \E q \in DOMAIN user' : user'[q] = user[p] /\ (q = p \/ p[1] = <<>>)
  BY DEF KeepsUserFiles
<1>1. user' = new ++ Without(user, S)
  BY DEF Migrated
<1>2. DOMAIN new = {Moved(L, r) : r \in S}
  OBVIOUS
<1>3. CASE p \in S
  <2>1. source(Moved(L, p)) \in S /\ Moved(L, p) = Moved(L, source(Moved(L, p)))
    BY <1>3
  <2>2. source(Moved(L, p)) = p
    BY <1>3, <2>1, MovedApart
  <2>3. Moved(L, p) \in DOMAIN new /\ new[Moved(L, p)] = user[p]
    BY <1>3, <2>2
  <2> HIDE DEF new
  <2>4. Moved(L, p) \in DOMAIN user' /\ user'[Moved(L, p)] = user[p]
    BY <1>1, <2>3, Domains, Lookups
  <2> QED
    BY <1>3, <2>4 DEF Flats
<1>4. CASE p \notin S
  <2>1. p \notin DOMAIN new
    <3> SUFFICES ASSUME NEW r \in S, p = Moved(L, r) PROVE FALSE
      BY <1>2
    <3> QED
      BY DEF Clashes
  <2> HIDE DEF new
  <2>2. p \in DOMAIN Without(user, S) /\ Without(user, S)[p] = user[p]
    BY <1>4, Domains, Lookups
  <2> QED
    BY <1>1, <2>1, <2>2, Domains, Lookups
<1> QED
  BY <1>3, <1>4

LEMMA StatingKeeps == Stating => KeepsUserFiles
<1> SUFFICES ASSUME Stating, NEW p \in DOMAIN user PROVE p \in DOMAIN user' /\ user'[p] = user[p]
  BY DEF KeepsUserFiles
<1>1. user' = StarterFiles(prog, lay, user) ++ user
  BY DEF Stating
<1>2. p \notin DOMAIN StarterFiles(prog, lay, user)
  BY StartersAreNew
<1> QED
  BY <1>1, <1>2, Domains, Lookups

LEMMA RunKeeps == Inv /\ [Next]_vars => (pc # "idle" => KeepsUserFiles)
<1> SUFFICES ASSUME Inv, [Next]_vars, pc # "idle" PROVE KeepsUserFiles
  OBVIOUS
<1>1. CASE LayOut
  <2>1. Flats \ Clashes(Layout(prog)) = Flats /\ user' = Migrated(Layout(prog), Flats)
    BY <1>1 DEF LayOut
  <2> QED
    BY <2>1, MigrationKeeps DEF Inv
<1>2. CASE MigrationFails
  <2>1. PICK S : S \subseteq Flats \ Clashes(Layout(prog)) /\ user' = Migrated(Layout(prog), S)
    BY <1>2 DEF MigrationFails
  <2> QED
    BY <2>1, MigrationKeeps DEF Inv
<1>3. CASE Stating
  BY <1>3, StatingKeeps
<1>4. ASSUME user' = user PROVE KeepsUserFiles
  BY <1>4 DEF KeepsUserFiles
<1>5. Setup \/ Emit \/ Universe \/ Lakefile \/ remove_stale \/ Finish \/ Interrupt \/ UNCHANGED vars => user' = user
  BY DEF Setup, Emit, Universe, Lakefile, remove_stale, Finish, Interrupt, vars
<1>6. ~EditProgram /\ ~EditUserFile
  BY DEF EditProgram, EditUserFile, Idle
<1> QED
  BY <1>1, <1>2, <1>3, <1>4, <1>5, <1>6 DEF Next

\* While the tool runs, every file of the user's stays as it is, or moves unchanged out of the legacy layout: neither
\* a migration, finished or given up half way (migrate_user_sources_layout), nor a starter proof overwrites one.
THEOREM UserFilesAreKept == Spec => UserFilesKept
<1>1. Inv /\ [Next]_vars
      => [pc # "idle" => \A p \in DOMAIN user : \E q \in DOMAIN user' : user'[q] = user[p] /\ (q = p \/ p[1] = <<>>)]_vars
  BY RunKeeps DEF KeepsUserFiles
<1> QED
  BY <1>1, Invariance, PTL DEF Spec, UserFilesKept
=============================================================================
