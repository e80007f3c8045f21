-------------------------- MODULE MCBackendMixing --------------------------
(* Call graphs over a spec, its target, two helpers and a spec of another
   function, for TLC. *)
EXTENDS BackendMixing, TLC

CONSTANTS spec, tgt, g, h, other

\* Who is owned by another backend, and to which functions `other` is attached.
Owners == {{}, {h}, {other}, {g, h, other}}
Attached == {{}, {h}, {g, h}}

\* The spec calls its target and maybe g; the bodies of the other functions
\* are arbitrary, recursion and calls of `other` included.
MCPrograms ==
    {[calls |-> (spec :> {tgt} \cup s) @@ (tgt :> t) @@ (g :> a) @@ (h :> b)
                  @@ (other :> {h}),
      spec |-> spec, target |-> k, specs |-> {spec, other},
      foreign |-> o, excluded |-> o \cap {other},
      all_specs |-> [f \in Functions |->
                        IF f \in c THEN {other}
                        ELSE IF f = k THEN {spec} ELSE {}],
      system |-> o = {} /\ c = {}] :
        s \in {{}, {g}}, t \in {{g}, {tgt, h}}, k \in {tgt, None},
        a \in SUBSET {tgt, g, h, other}, b \in SUBSET {g, spec},
        o \in Owners, c \in Attached}
=============================================================================
