-------------------------- MODULE MCSpecPipeline --------------------------
(***************************************************************************)
(* Small packages for SpecPipeline and BoogieUnits: three functions, two   *)
(* specs, two modules and a library, one ghost variable.                   *)
(***************************************************************************)
EXTENDS BoogieUnits, TLC

CONSTANTS f, g, h, fs, gs, v, m1, m2, lib

MCCode == {f, g, h}
MCSpecs == {fs, gs}

(* f calls g calls h; fs proved, everything in m1. *)
Plain ==
    [calls |-> (f :> {g}) @@ (g :> {h}) @@ (h :> {}) @@ (fs :> {f}) @@ (gs :> {g}),
     of |-> (fs :> f) @@ (gs :> g),
     home |-> [x \in MCCode \cup MCSpecs |-> m1],
     modules |-> {m1, m2, lib}, libs |-> {lib}, order |-> <<f, g, h, fs, gs>>,
     proved |-> {fs}, omit |-> {}, system |-> {}, ignore |-> {}, asserts |-> {},
     native |-> {}, aborts |-> {}, checked |-> {}, pure |-> {}, network |-> {},
     random |-> {}, include |-> {},
     uses |-> [x \in MCCode \cup MCSpecs |-> NoVars],
     declares |-> [s \in MCSpecs |-> NoVars],
     file_mode |-> "function"]

(* Recursion: every way the three functions and the extra conditions of the *)
(* specs can call one another.                                              *)
RecursiveWith(extra, omitted, proving) ==
    {[Plain EXCEPT !.calls = (f :> a) @@ (g :> b) @@ (h :> c) @@ (fs :> {f} \cup d)
                             @@ (gs :> {g}),
                   !.proved = p, !.omit = o] :
        a \in {{g}, {f}}, b \in {{h}, {f}}, c \in {{}, {f}, {g}},
        d \in extra, p \in proving, o \in omitted}

Recursive ==
    RecursiveWith({{}}, {{}, {gs}}, {{fs}, {fs, gs}})
    \cup RecursiveWith({{g}}, {{}}, {{fs}, {fs, gs}})

(* Two specs of one function, in the order they are met. *)
Competing ==
    {[Plain EXCEPT !.of = (fs :> f) @@ (gs :> f), !.calls[gs] = {f}, !.home[gs] = k,
                   !.system = y, !.include = i, !.order = o, !.file_mode = w] :
        k \in {m1, m2}, y \in {{}, {gs}}, i \in {{}, {<<m1, gs>>}},
        o \in {<<f, g, h, fs, gs>>, <<gs, fs, h, g, f>>}, w \in {"function", "module"}}

(* Functions marked no_abort or pure, and specs that state abort conditions. *)
AbortingWith(conditions) ==
    {[Plain EXCEPT !.checked = k, !.pure = u, !.aborts = b, !.asserts = c[1], !.ignore = c[2],
                   !.native = n, !.home[h] = IF n = {} THEN m1 ELSE lib, !.system = y] :
        k \in {{f}, {g}}, u \in {{}, {h}}, b \in {{}, {h}, {g}}, c \in conditions,
        n \in {{}, {h}}, y \in {{}, {gs}}}

Aborting == AbortingWith({<<{}, {}>>, <<{fs}, {}>>})

(* System specs that list abort conditions, hide the body or show it. *)
Hidden ==
    {[Plain EXCEPT !.checked = k, !.aborts = b, !.asserts = {gs} \ i, !.ignore = i, !.omit = o,
                   !.system = {gs}, !.of[gs] = t] :
        k \in {{f}, {g}}, b \in {{h}, {g}}, i \in {{}, {gs}}, o \in {{}, {gs}}, t \in {g, h}}

(* Ghost variables, network calls and recursion of their users. *)
Ghosts ==
    {[Plain EXCEPT !.calls[h] = c, !.uses[h] = [imm |-> {v}, mut |-> x],
                   !.uses[gs] = [imm |-> x, mut |-> {}], !.declares[fs] = e,
                   !.declares[gs] = d, !.network = n, !.proved = p] :
        c \in {{}, {g}}, x \in {{}, {v}}, p \in {{fs}, {gs}},
        e \in {NoVars, [imm |-> {v}, mut |-> {v}]},
        d \in {NoVars, [imm |-> {v}, mut |-> {}]}, n \in {{}}}
    \cup {[Plain EXCEPT !.calls[h] = c, !.network = {h}, !.proved = {gs}] : c \in {{}, {g}}}

(* Pure, native and scenario functions behind specs of another module. *)
Mixed ==
    {[Plain EXCEPT !.pure = u \ n, !.omit = IF g \in n THEN o \ {gs} ELSE o,
                   !.native = n, !.of[gs] = t,
                   !.home = [@ EXCEPT ![gs] = m2, ![g] = IF g \in n THEN lib ELSE m1],
                   !.calls[g] = IF g \in n THEN {} ELSE {h}, !.include = {<<m1, gs>>},
                   !.asserts = {fs, gs}, !.proved = p] :
        u \in {{}, {g}, {h}}, o \in {{}, {gs}}, n \in {{}, {g}}, t \in {g, None},
        p \in {{fs}, {fs, gs}}}

MCPackages == Recursive \cup Competing \cup Aborting \cup Hidden \cup Ghosts \cup Mixed
=============================================================================
