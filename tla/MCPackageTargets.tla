-------------------------- MODULE MCPackageTargets --------------------------
(* Packages with two specs and a helper in two modules, for TLC. *)
EXTENDS PackageTargets

CONSTANTS s1, s2, h, m1, m2, st

MCModuleOf == [f \in Functions |-> IF f = s2 THEN m2 ELSE m1]

Plain ==
    [flags |-> {}, target_attr |-> None, named |-> None, run_on |-> "none",
     backend |-> "none", uninterpreted |-> {}, interpreted |-> {},
     inv |-> None, include |-> {}, extra_bpl |-> {}]

Marks ==
    {{"spec", "target"} \cup x :
        x \in {{}, {"prove"}, {"focus"}, {"prove", "skip"}, {"prove", "asserts"},
               {"prove", "asserts", "ignore_abort"}, {"focus", "system"}}}
      \cup {{"spec", "prove"}, {"spec", "system"}}

\* The first spec: how it is marked, what it is about, what it asks of h.
FirstSpec ==
    {[Plain EXCEPT !.flags = x, !.target_attr = g, !.named = n, !.backend = b] :
        x \in Marks, g \in {None, Bad, h}, n \in {None, h},
        b \in {"none", "lean", "boogie"}}
      \cup {[Plain EXCEPT !.flags = {"spec", "target", "prove", "no_opaque"},
                          !.uninterpreted = u, !.interpreted = i] :
               u \in {{}, {h}, {h, Bad}}, i \in {{}, {h}}}

SecondSpec ==
    {[Plain EXCEPT !.flags = x \cup {"spec", "target"}, !.named = h,
                   !.backend = b] :
        x \in {{"prove"}, {"focus"}}, b \in {"none", "lean"}}

Helper ==
    {[Plain EXCEPT !.flags = x \cup {"target"}, !.backend = b] :
        x \in {{}, {"pure"}, {"pure", "uninterpreted"}, {"no_abort"}, {"native"}},
        b \in {"none", "lean"}}

NoIncludes == [m \in Modules |-> [include |-> {}, extra_bpl |-> {}]]

Package(a, b, c, ci, backend) ==
    [fun |-> [f \in Functions |-> IF f = s1 THEN a ELSE IF f = s2 THEN b ELSE c],
     mod |-> NoIncludes, ci |-> ci, backend |-> backend]

\* One package for each of the rarer attributes, well formed and malformed.
Odd(f) == [Plain EXCEPT !.flags = {"spec_only"} \cup f]
OddHelpers ==
    {Odd({"axiom"}), [Odd({}) EXCEPT !.extra_bpl = {"readable", "unreadable"}],
     [Plain EXCEPT !.flags = {"uninterpreted"}],
     [Plain EXCEPT !.backend = "invalid"]}
      \cup {[Odd({}) EXCEPT !.inv = [kind |-> "inv", of |-> s]] : s \in {st, Bad}}
      \cup {[Odd({}) EXCEPT !.inv = [kind |-> "loop_inv", of |-> s]] : s \in {s1, Bad}}

OddSpecs ==
    {[Plain EXCEPT !.flags = {"spec", "target", "prove"}, !.include = i,
                   !.extra_bpl = e, !.run_on = r] :
        i \in {{m2}, {m2, Bad}}, e \in {{}, {"unreadable"}},
        r \in {"cloud", "invalid"}}

OddPackages ==
    {[Package(a, Plain, c, FALSE, "boogie")
        EXCEPT !.mod[m1] = [include |-> i, extra_bpl |-> {"readable"}]] :
        a \in OddSpecs, c \in OddHelpers, i \in {{m2}, {Bad}}}

MCSources ==
    {Package(a, b, c, ci, "boogie") :
        a \in FirstSpec, b \in SecondSpec, c \in Helper, ci \in BOOLEAN}
      \cup {Package(a, b, Plain, FALSE, "lean") : a \in FirstSpec, b \in SecondSpec}
      \cup OddPackages
=============================================================================
