---------------------------- MODULE BoogieOutput ----------------------------
(***************************************************************************)
(* From what Boogie prints to the diagnostics (boogie_wrapper.rs,          *)
(* analyze_output, verify_boogie_output).  The output is searched with     *)
(* regular expressions, from a position that only moves forward; the file  *)
(* given to Boogie is read again to turn its lines into locations.         *)
(*                                                                         *)
(* A text is a sequence of parts: an `assert_failed' line, an "Execution   *)
(* trace" with its entries, an "Augmented execution trace" with its        *)
(* entries, a "*** MODEL", a line that says that a procedure timed out or  *)
(* is inconclusive, an `inconsistency_detected' line, a progress line of   *)
(* -trace, or any other text.  A location is <<line, column>>.             *)
(***************************************************************************)
EXTENDS StacklessBytecode, FiniteSetsExt

-----------------------------------------------------------------------------
(* The values of a counterexample (boogie_wrapper.rs, Model, ModelValue):  *)
(* how Boogie prints a value, and what the diagnostic shows of it.         *)
(*                                                                         *)
(* A printed value is Num(n), a literal of digits; Name(s), another        *)
(* literal; Array(t, k), the name of an array with elements of type t; or  *)
(* List(s).  A model is a function from the type of an element to the      *)
(* table of that type: [rows: <<array, index>> -> value, else: value].     *)

IntegerT    == <<"integer">>
IntegerV(n) == <<"i", n>>

Num(n)      == <<"num", n>>
Name(s)     == <<"name", s>>
Array(t, k) == <<"array", t, k>>
List(s)     == <<"list", s>>
Error       == List(<<Name("Error")>>)
Raw         == <<"raw">>
Undef       == <<"undef">>

\* The result of a method that may give none is a set.
OrElse(S, x) == IF S = {} THEN x ELSE CHOOSE y \in S : TRUE

-----------------------------------------------------------------------------
(* What Boogie prints: a struct is its constructor applied to the fields;  *)
(* an enum has the fields of all variants and then the number of its own;  *)
(* a vector is an array with a size, whose elements are in a table.        *)

RECURSIVE Zero(_)
Zero(t) == CASE t[1] = "bool" -> BoolV(FALSE)
             [] t[1] = "uint" -> UIntV(t[2], 0)
             [] t[1] = "integer" -> IntegerV(0)
             [] t[1] = "struct" -> StructV(t[2], MapSeq(StructFields[t[2]], LAMBDA f : Zero(f)))
             [] t[1] = "enum" -> EnumV(t[2], 1, MapSeq(EnumVariants[t[2]][1], LAMBDA f : Zero(f)))
             [] OTHER -> VectorV(<<>>)

\* The fields of an enum, the ones of the other variants zero.
AllFields(v) ==
    FlattenSeq([k \in DOMAIN EnumVariants[v[2]] |->
                   IF k = v[3] THEN v[4] ELSE MapSeq(EnumVariants[v[2]][k], LAMBDA f : Zero(f))])

\* The element type of a vector is part of its array's name, and where it is in
\* the value is too, so that every vector has an array of its own.
RECURSIVE Printed(_, _, _)
PrintedAll(vs, ts, path) == [i \in DOMAIN vs |-> Printed(vs[i], ts[i], Append(path, i))]
Printed(v, t, path) ==
    CASE t[1] = "bool" -> Name(IF v[2] THEN "true" ELSE "false")
      [] t[1] = "uint" -> Num(v[3])
      [] t[1] = "integer" -> IF v[2] < 0 THEN List(<<Name("-"), Num(-v[2])>>) ELSE Num(v[2])
      [] t[1] = "struct" -> List(<<Name(t[2])>> \o PrintedAll(v[3], StructFields[t[2]], path))
      [] t[1] = "enum" -> List(<<Name(t[2])>> \o PrintedAll(AllFields(v), FlattenSeq(EnumVariants[t[2]]), path) \o <<Num(v[3] - 1)>>)
      [] OTHER -> List(<<Name("Vec_"), Array(t[2], path), Num(Len(v[2]))>>)

\* The rows of the tables; one that the else of the table covers may be left out.
RECURSIVE Rows(_, _, _, _)
Rows(v, t, path, sparse) ==
    CASE t[1] \in {"bool", "uint", "integer"} -> {}
      [] t[1] = "struct" -> UNION {Rows(v[3][i], StructFields[t[2]][i], Append(path, i), sparse) : i \in DOMAIN v[3]}
      [] t[1] = "enum" -> UNION {Rows(AllFields(v)[i], FlattenSeq(EnumVariants[t[2]])[i], Append(path, i), sparse) : i \in DOMAIN AllFields(v)}
      [] OTHER -> {[type |-> t[2], array |-> Array(t[2], path), at |-> i - 1, value |-> Printed(v[2][i], t[2], Append(path, i))] :
                       i \in {j \in DOMAIN v[2] : ~sparse \/ v[2][j] # Zero(t[2])}}
                  \cup UNION {Rows(v[2][i], t[2], Append(path, i), sparse) : i \in DOMAIN v[2]}
Tables(rows) ==
    [t \in {r.type : r \in rows} |->
        [rows |-> [p \in {<<r.array, r.at>> : r \in {q \in rows : q.type = t}} |->
                      (CHOOSE r \in rows : r.array = p[1] /\ r.at = p[2]).value],
         else |-> Printed(Zero(t), t, <<0>>)]]

-----------------------------------------------------------------------------
(* Reading it again. *)

Args(v) == IF v[1] = "list" /\ v[2] # <<>> THEN {Tail(v[2])} ELSE {}
\* (<ctor> element ...)
extract_list(v, ctor) == {a \in Args(v) : v[2][1] = Name(ctor)}
\* An element of a vector may be in a box.
extract_box(v)     == IF v[1] = "list" /\ Len(v[2]) = 2 THEN v[2][2] ELSE v
extract_number(v)  == IF v[1] = "num" THEN {v[2]} ELSE {}
extract_integer(v) == extract_number(v) \cup {-n : n \in UNION {extract_number(a[1]) : a \in {x \in extract_list(v, "-") : Len(x) = 1}}}
extract_bool(v)    == IF v = Name("true") THEN {TRUE} ELSE IF v = Name("false") THEN {FALSE} ELSE {}

\* The elements with a row, and the default for the others.
extract_vector(v, model) ==
    UNION {{[size |-> n, default |-> model[a[1][2]].else,
             values |-> [i \in {p[2] : p \in {q \in DOMAIN model[a[1][2]].rows : q[1] = a[1]}} |-> model[a[1][2]].rows[<<a[1], i>>]]] :
                n \in extract_number(a[2])} :
           a \in {x \in extract_list(v, "Vec_") : Len(x) = 2 /\ x[1][1] = "array" /\ x[1][2] \in DOMAIN model}}

\* Which elements are shown, in order, and which of them with their index.
pretty_vector(vec, shown) ==
    LET at == SetToSortSeq({i \in DOMAIN vec.values : i < vec.size}, <)
        labelled == {k \in DOMAIN at : at[k] > (IF k = 1 THEN 0 ELSE at[k - 1] + 1)}
        next == IF at = <<>> THEN 0 ELSE Last(at) + 1
    IN  <<"vector", [entries |-> [k \in DOMAIN at |-> [at |-> IF k \in labelled THEN {at[k]} ELSE {}, shown |-> shown[at[k]]]],
                     rest |-> IF next < vec.size \/ labelled # {} THEN {[size |-> vec.size, shown |-> shown[vec.size]]} ELSE {}]>>

\* Field i of a constructor's arguments; a missing one is undefined.
Field(args, i) == IF i \in DOMAIN args THEN args[i] ELSE Error

\* pretty: the shown form, or none.
RECURSIVE pretty(_, _, _)
pretty_or_raw(v, t, model) == OrElse(pretty(v, t, model), Raw)
pretty_fields(args, ts, model) == [i \in DOMAIN ts |-> pretty_or_raw(Field(args, i), ts[i], model)]
pretty_struct(v, t, model) == {<<"struct", t[2], pretty_fields(a, StructFields[t[2]], model)>> : a \in extract_list(v, t[2])}
pretty_enum(v, t, model) ==
    UNION {{<<"enum", t[2], n + 1, pretty_fields(a, EnumVariants[t[2]][n + 1], model)>> :
               n \in {m \in extract_number(Last(a)) : m < Len(EnumVariants[t[2]])}} :
           a \in {x \in extract_list(v, t[2]) : x # <<>>}}
pretty_elements(vec, t, model) ==
    pretty_vector(vec, [i \in DOMAIN vec.values |-> pretty_or_raw(extract_box(vec.values[i]), t, model)]
                       @@ (vec.size :> OrElse(pretty(extract_box(vec.default), t, model), Undef)))
pretty(v, t, model) ==
    IF extract_list(v, "Error") # {} THEN {Undef}
    ELSE CASE t[1] = "uint" -> {<<"number", n>> : n \in {m \in extract_number(v) : Fits(t[2], m)}}
           [] t[1] = "integer" -> {<<"number", n>> : n \in extract_integer(v)}
           [] t[1] = "bool" -> {<<"bool", b>> : b \in extract_bool(v)}
           [] t[1] = "vector" -> {pretty_elements(vec, t[2], model) : vec \in extract_vector(v, model)}
           [] t[1] = "struct" -> pretty_struct(v, t, model)
           [] OTHER -> pretty_enum(v, t, model)

-----------------------------------------------------------------------------
(* What a reader takes a shown form to say of a value. *)

\* Where the entries of a shown vector are.
Places(es) == LET at[k \in 0..Len(es)] == IF k = 0 THEN -1 ELSE OrElse(es[k].at, at[k - 1] + 1) IN [k \in DOMAIN es |-> at[k]]

RECURSIVE Says(_, _)
SaysAll(shown, vs) == Len(shown) = Len(vs) /\ \A i \in DOMAIN vs : Says(shown[i], vs[i])
SaysVector(es, rest, places, vs) ==
    /\ IF rest = {} THEN Len(vs) = Len(es) ELSE \A r \in rest : r.size = Len(vs)
    /\ \A k \in DOMAIN es : Says(es[k].shown, vs[places[k] + 1])
    /\ \A i \in DOMAIN vs : (i - 1) \in Range(places) \/ \A r \in rest : Says(r.shown, vs[i])
Says(shown, v) ==
    CASE shown \in {Raw, Undef} -> TRUE
      [] shown[1] = "number" -> shown[2] = v[Len(v)]
      [] shown[1] = "bool" -> shown[2] = v[2]
      [] shown[1] = "struct" -> SaysAll(shown[3], v[3])
      [] shown[1] = "enum" -> shown[3] = v[3] /\ SaysAll(shown[4], v[4])
      [] OTHER -> SaysVector(shown[2].entries, shown[2].rest, Places(shown[2].entries), v[2])

\* What is read wrongly: the fields of a later variant of an enum, and a
\* negative Integer in a vector, whose sign is taken for a box.
RECURSIVE Misread(_, _)
Misread(v, t) ==
    CASE t[1] = "enum" -> (v[3] > 1 /\ v[4] # <<>>) \/ \E i \in DOMAIN v[4] : Misread(v[4][i], EnumVariants[t[2]][v[3]][i])
      [] t[1] = "struct" -> \E i \in DOMAIN v[3] : Misread(v[3][i], StructFields[t[2]][i])
      [] t[1] = "vector" -> \E i \in DOMAIN v[2] : (t[2] = IntegerT /\ v[2][i][2] < 0) \/ Misread(v[2][i], t[2])
      [] OTHER -> FALSE

-----------------------------------------------------------------------------
CONSTANTS
    Cases,       \* [output: [failures: what Boogie found, text: what it printed, trace: the --trace
                 \*           option], file: the text of the .bpl file]
    Functions    \* line -> the Move function it is in

VARIABLES
    output, file,
    pc,          \* "assertions", "others", "report", "done"
    at,          \* how far the text was read
    errors,      \* the BoogieErrors found
    diags        \* the diagnostics made of them

vars == <<output, file, pc, at, errors, diags>>

NoLoc == <<0, 0>>

-----------------------------------------------------------------------------
(* BplAnalysis.  A line of the file: [k: "procedure", name, inline],       *)
(* [k: "at", loc], [k: "call", callee], [k: "assert"], [k: "close"],       *)
(* [k: "other"].                                                           *)

\* The procedure a line opens ends with its closing brace, or before the next.
EndOf(lines, start) ==
    LET stops == {n \in (start + 1)..Len(lines) : lines[n].k \in {"close", "procedure"}}
    IN  IF stops = {} THEN Len(lines)
        ELSE IF lines[Min(stops)].k = "close" THEN Min(stops) ELSE Min(stops) - 1
Markers(lines, from, to) == {n \in from..to : lines[n].k = "at"}

\* A callee is listed once; the location of a call is the marker since the call
\* before it, if there is one.
FirstCalls(lines, from, to) ==
    {n \in from..to : lines[n].k = "call" /\ \A i \in from..(n - 1) : lines[i].k = "call" => lines[i].callee # lines[n].callee}
CallSite(lines, from, n) ==
    LET last == {i \in from..(n - 1) : lines[i].k = "call" /\ i \in FirstCalls(lines, from, n)} \cup {from}
        ms == Markers(lines, Max(last), n)
    IN  IF ms = {} THEN {} ELSE {lines[Max(ms)].loc}
parse_bpl_procedures(lines) ==
    LET starts == SetToSortSeq({n \in DOMAIN lines : lines[n].k = "procedure"}, <)
        ends == [p \in DOMAIN starts |-> EndOf(lines, starts[p])]
    IN  [p \in DOMAIN starts |->
            [name |-> lines[starts[p]].name, inline |-> lines[starts[p]].inline, start |-> starts[p], end |-> ends[p],
             calls |-> [i \in 1..Cardinality(FirstCalls(lines, starts[p], ends[p])) |->
                           LET n == SetToSortSeq(FirstCalls(lines, starts[p], ends[p]), <)[i]
                           IN  [callee |-> lines[n].callee, site |-> CallSite(lines, starts[p], n)]],
             first |-> LET ms == Markers(lines, starts[p], ends[p]) IN IF ms = {} THEN {} ELSE {lines[Min(ms)].loc}]]

\* The nearest marker before the line, when it is in the procedure of the line.
resolve_bpl_line(lines, procs, line) ==
    UNION {LET ms == Markers(lines, 1, line)
           IN  IF ms # {} /\ Max(ms) >= procs[p].start THEN {lines[Max(ms)].loc} ELSE {} :
           p \in {q \in DOMAIN procs : line \in procs[q].start..procs[q].end}}

\* The Move function of a procedure: the one around its first marker.
FunctionOf(procs, p) == {Functions[l[1]] : l \in {x \in procs[p].first : x[1] \in DOMAIN Functions}}

\* The callers of a procedure: in the order of the file, each with the site of
\* the call.
reverse_calls(procs, p) ==
    FlattenSeq([q \in DOMAIN procs |-> LET cs == SelectSeq(procs[q].calls, LAMBDA c : c.callee = procs[p].name)
                                       IN  [i \in DOMAIN cs |-> [proc |-> q, site |-> cs[i].site]]])

\* Backward, breadth first, to the procedure that is verified; when it is not
\* known, to the nearest that is not inline.  parent: the callee by which a
\* procedure was found.
\* Mutant: whichever procedure is verified.
NearestEntry(procs, entry, q) == ~procs[q].inline
IsEntry(procs, entry, q) == IF entry = {} THEN ~procs[q].inline ELSE q \in entry
Visit(procs, entry, s, p, c) ==
    IF s.found # {} \/ c.proc \in DOMAIN s.parent THEN s
    ELSE [queue |-> IF IsEntry(procs, entry, c.proc) THEN s.queue ELSE Append(s.queue, c.proc),
          parent |-> With(s.parent, c.proc, [proc |-> p, site |-> c.site]),
          found |-> IF IsEntry(procs, entry, c.proc) THEN {c.proc} ELSE {}]
RECURSIVE SearchCallers(_, _, _)
SearchCallers(procs, entry, s) ==
    IF s.found # {} \/ s.queue = <<>> THEN s
    ELSE SearchCallers(procs, entry,
             Fold(LAMBDA t, c : Visit(procs, entry, t, Head(s.queue), c), [s EXCEPT !.queue = Tail(s.queue)],
                  reverse_calls(procs, Head(s.queue))))
RECURSIVE PathTo(_, _, _)
PathTo(parent, from, to) ==
    IF from.proc = to THEN <<from>> ELSE <<from>> \o PathTo(parent, parent[from.proc], to)
\* Procedures of one function that follow each other are shown once, and the
\* ones without a function not at all.
Named(procs, path) ==
    LET known == SelectSeq(path, LAMBDA c : FunctionOf(procs, c.proc) # {})
    IN  Fold(LAMBDA q, c : IF q # <<>> /\ FunctionOf(procs, Last(q).proc) = FunctionOf(procs, c.proc) THEN q ELSE Append(q, c), <<>>, known)
compute_call_trace(procs, entry, p) ==
    IF ~procs[p].inline THEN <<>>
    ELSE LET s == SearchCallers(procs, entry, [queue |-> <<p>>, parent |-> (p :> [proc |-> p, site |-> {}]), found |-> {}])
         IN  IF s.found = {} THEN <<>>
             ELSE Named(procs, PathTo(s.parent, [proc |-> Min(s.found), site |-> {}], p))

-----------------------------------------------------------------------------
(* extract_verification_errors. *)

\* The next part of a kind.
Find(k, from) == LET S == {n \in from..Len(output.text) : output.text[n].k = k} IN IF S = {} THEN {} ELSE {Min(S)}
Past(k, from) == IF Find(k, from) = {} THEN from ELSE Min(Find(k, from)) + 1
EntriesAt(k, from) == IF Find(k, from) = {} THEN <<>> ELSE output.text[Min(Find(k, from))].entries

\* Without the augmented trace, the lines of the plain one are looked up.
enrich_plain_trace_fallback(plain) ==
    LET procs == parse_bpl_procedures(file)
        locs == Fold(LAMBDA q, l : q \o SetToSeq(resolve_bpl_line(file, procs, l)), <<>>, plain)
        new == Fold(LAMBDA q, l : IF q # <<>> /\ Last(q).loc = l THEN q ELSE Append(q, [k |-> "at", loc |-> l]), <<>>, locs)
    IN  IF new = <<>> THEN <<[k |-> "info"]>> ELSE new

\* Text before a failure that none of the searches accounts for.
Unexpected(from, to) ==
    LET between == {output.text[n].k : n \in from..(to - 1)}
    IN  /\ between # {} /\ between \cap {"inconclusive", "inconsistency"} = {}
        /\ ~(output.trace /\ "noise" \in between)

Assertion(a, trace, model) == [kind |-> "Assertion", loc |-> a.loc, labels |-> a.labels, trace |-> trace, model |-> model]
Plainly(kind, loc) == [kind |-> kind, loc |-> loc, labels |-> <<>>, trace |-> <<>>, model |-> {}]

\* One round of the loop: the assert line n, its traces and its model.
\* A model that cannot be parsed, or an empty one, is none.
\* Mutant: it is searched for from the start of the text.
ModelFromStart(from) == {m \in {output.text[n].vars : n \in Find("model", 1)} : DOMAIN m # {}}
ModelAt(from) == {m \in {output.text[n].vars : n \in Find("model", from)} : DOMAIN m # {}}
Report(n, plain, augmented, afterAugmented) ==
    LET a == output.text[n]
        trace == IF augmented = <<>> THEN enrich_plain_trace_fallback(plain) ELSE augmented
        model == IF augmented = <<>> THEN {} ELSE ModelAt(afterAugmented)
    IN  /\ at' = IF augmented = <<>> THEN afterAugmented ELSE Past("model", afterAugmented)
        /\ errors' = errors \o (IF Unexpected(at, n) THEN <<Plainly("Internal", NoLoc)>> ELSE <<>>)
                            \o (IF a.expected THEN <<>> ELSE <<Assertion(a, trace, model)>>)
Diagnose ==
    /\ pc = "assertions"
    /\ \E n \in Find("assert", at) :
           Report(n, EntriesAt("trace", n + 1), EntriesAt("augmented", Past("trace", n + 1)),
                  Past("augmented", Past("trace", n + 1)))
    /\ UNCHANGED <<output, file, pc, diags>>

\* extract_inconclusive_errors and extract_inconsistency_errors, in the whole text.
\* Mutant: they go on from where the failures were read to.
OthersFrom ==
    /\ pc = "assertions" /\ Find("assert", at) = {}
    /\ LET text == SubSeq(output.text, at, Len(output.text))
           lines(k) == SelectSeq(text, LAMBDA p : p.k = k)
           all == SelectSeq(lines("inconclusive"), LAMBDA p : ~p.masked) \o lines("inconsistency")
       IN  errors' = errors \o [i \in DOMAIN all |-> Plainly(all[i].k, all[i].loc)]
    /\ pc' = "report"
    /\ UNCHANGED <<output, file, at, diags>>
Others ==
    /\ pc = "assertions" /\ Find("assert", at) = {}
    /\ LET lines(k) == SelectSeq(output.text, LAMBDA p : p.k = k)
           all == SelectSeq(lines("inconclusive"), LAMBDA p : ~p.masked) \o lines("inconsistency")
       IN  errors' = errors \o [i \in DOMAIN all |-> Plainly(all[i].k, all[i].loc)]
    /\ pc' = "report"
    /\ UNCHANGED <<output, file, at, diags>>

-----------------------------------------------------------------------------
(* add_error: the trace is displayed, location by location.                *)

\* A location is printed unless it looks like what was printed last.
print_loc(s, loc) ==
    [s EXCEPT !.last = loc,
              !.display = IF @ # <<>> /\ Last(@).k = "at" /\ Last(@).line = loc[1] THEN @ ELSE Append(@, [k |-> "at", line |-> loc[1]])]
Shown(error, n) ==
    LET e == error.trace[n]
    IN  IF error.model = {} THEN <<>>
        ELSE <<[k |-> "value", entry |-> n, shown |-> pretty_or_raw(e.value, e.type, OrElse(error.model, {}))]>>
TraceStep(error, s, n) ==
    LET e == error.trace[n]
        t == CASE e.k = "at" -> IF e.loc # s.last /\ ~s.isLast THEN print_loc(s, e.loc) ELSE s
               [] e.k \in {"local", "return", "ghost"} -> [s EXCEPT !.display = @ \o Shown(error, n)]
               [] e.k = "abort" -> [s EXCEPT !.display = Append(@, [k |-> "aborted"]), !.abort = {s.last}]
               [] OTHER -> [s EXCEPT !.display = Append(@, [k |-> "info"])]
    IN  IF s.abort # {} THEN s ELSE [t EXCEPT !.isLast = e.k = "at"]
Displayed(error) ==
    FoldAt(LAMBDA s, n : TraceStep(error, s, n), [display |-> <<>>, last |-> NoLoc, isLast |-> FALSE, abort |-> {}], error.trace)

DiagOf(error, shown) ==
    [kind |-> error.kind, loc |-> error.loc, labels |-> error.labels \o SetToSeq(shown.abort), notes |-> shown.display, trace |-> error.trace]
add_error ==
    /\ pc = "report" /\ Len(diags) < Len(errors)
    /\ LET e == errors[Len(diags) + 1] IN diags' = Append(diags, DiagOf(e, Displayed(e)))
    /\ UNCHANGED <<output, file, pc, at, errors>>
Done ==
    /\ pc = "report" /\ Len(diags) = Len(errors)
    /\ pc' = "done"
    /\ UNCHANGED <<output, file, at, errors, diags>>

Init ==
    /\ \E c \in Cases : output = c.output /\ file = c.file
    /\ pc = "assertions" /\ at = 1 /\ errors = <<>> /\ diags = <<>>
Finished == pc = "done" /\ UNCHANGED vars
Next == Diagnose \/ Others \/ add_error \/ Done \/ Finished
Spec == Init /\ [][Next]_vars

-----------------------------------------------------------------------------
(* A failure: [assert: its line, parts: what Boogie prints after it].      *)

Kinds(f) == {p.k : p \in Range(f.parts)}
PartOf(f, k) == CHOOSE p \in Range(f.parts) : p.k = k
\* g has a part that is searched for, and not found, after f: it is taken from g,
\* and the line of g is read over.
Gap(f, g) == \/ \E k \in {"trace", "augmented"} : k \in Kinds(g) \ Kinds(f)
             \/ "augmented" \in Kinds(f) /\ "model" \in Kinds(g) \ Kinds(f)
Uniform == \A i, j \in DOMAIN output.failures : i < j => ~Gap(output.failures[i], output.failures[j])
Orderly == \A f \in Range(output.failures) : "model" \in Kinds(f) => "augmented" \in Kinds(f)

Found == SelectSeq(output.failures, LAMBDA f : ~f.assert.expected)
Told  == SelectSeq(diags, LAMBDA d : d.kind = "Assertion")
TellsOf(d, f) ==
    /\ d.loc = f.assert.loc /\ IsPrefix(f.assert.labels, d.labels)
    /\ "augmented" \in Kinds(f) => d.trace = PartOf(f, "augmented").entries

\* Every failure that Boogie prints becomes a diagnostic at its own location
\* with its own trace, unless an earlier failure lacks a part that it has; the
\* first one always does, so that no failure passes for a proof; no timeout and
\* no inconsistency is lost, wherever it is printed; and an internal error is
\* only reported for text that nothing explains (extract_verification_errors).
FailuresReported ==
    pc = "done" =>
        /\ Uniform => Len(Told) = Len(Found) /\ \A i \in DOMAIN Found : TellsOf(Told[i], Found[i])
        /\ output.failures # <<>> /\ ~output.failures[1].assert.expected =>
               Told # <<>> /\ Told[1].loc = output.failures[1].assert.loc
        /\ \A p \in Range(output.text) : p.k \in {"inconclusive", "inconsistency"} =>
               (\E d \in Range(diags) : d.kind = p.k /\ d.loc = p.loc) = (p.k = "inconsistency" \/ ~p.masked)
        /\ Uniform /\ Orderly /\ (\E d \in Range(diags) : d.kind = "Internal") =>
               \E p \in Range(output.text) : p.k = "text" \/ (p.k = "noise" /\ ~output.trace)

\* The run of locations directly before entry n of a trace.
LinesBefore(trace, n) ==
    LET ats == {i \in 1..(n - 1) : trace[i].k = "at"}
        last == IF ats = {} THEN 0 ELSE Max(ats)
    IN  {trace[i].loc[1] : i \in {j \in ats : j..last \subseteq ats}}
HeadingOf(notes, j) ==
    LET ats == {i \in 1..(j - 1) : notes[i].k = "at"} IN IF ats = {} THEN {} ELSE {notes[Max(ats)].line}

\* The failure that an augmented trace was printed for has a model of its own, or
\* there is none after it that could be taken for its model.
OwnModel(trace) ==
    \A i \in DOMAIN output.failures : LET f == output.failures[i] IN
        "augmented" \in Kinds(f) /\ PartOf(f, "augmented").entries = trace =>
            "model" \in Kinds(f) \/ \A j \in DOMAIN output.failures : j > i => "model" \notin Kinds(output.failures[j])

\* A value in a diagnostic is the value that the counterexample of the same trace
\* has, whatever rows of it Boogie leaves out and whichever failures before it
\* lack a trace or a model, unless the trace was printed without a model and a
\* later failure has one, which is then shown in its place; and every value
\* stands under a location that the execution went through directly before it
\* (extract_model, ModelValue::pretty, add_error).
TraceFaithful ==
    \A d \in Range(diags) : \A j \in DOMAIN d.notes : d.notes[j].k = "value" =>
        LET e == d.trace[d.notes[j].entry]
        IN  /\ ~OwnModel(d.trace) \/ Misread(e.is, e.type) \/ Says(d.notes[j].shown, e.is)
            /\ HeadingOf(d.notes, j) \subseteq LinesBefore(d.trace, d.notes[j].entry)

\* The call trace shown with --trace starts at the procedure being verified and
\* leads to the assertion: each step is a call from the function of the step
\* before it (compute_call_trace, parse_bpl_procedures).
Calls(procs, S) == {q \in DOMAIN procs : \E p \in S : \E c \in Range(procs[p].calls) : c.callee = procs[q].name}
CalledFrom(procs, p) == LET R[k \in Nat] == IF k = 0 THEN Calls(procs, {p}) ELSE R[k - 1] \cup Calls(procs, R[k - 1]) IN R[Len(procs)]
RealTrace(procs, e, p, trace) ==
    IF p \notin CalledFrom(procs, e) THEN trace = <<>>
    ELSE /\ trace # <<>> /\ FunctionOf(procs, trace[1].proc) = FunctionOf(procs, e)
         /\ FunctionOf(procs, Last(trace).proc) = FunctionOf(procs, p)
         /\ \A i \in 2..Len(trace) : \A l \in trace[i].site : {Functions[l[1]]} = FunctionOf(procs, trace[i - 1].proc)
CallTraceReal ==
    pc = "done" => \A procs \in {parse_bpl_procedures(file)} : \A e, p \in DOMAIN procs :
        ~procs[e].inline /\ procs[p].inline => RealTrace(procs, e, p, compute_call_trace(procs, {e}, p))

=============================================================================
