------------------------------ MODULE MCInfra ------------------------------
(* Values of the constants of Infra for TLC. *)
EXTENDS Infra

S(ref, reps, tmpl) == [ref |-> ref, reps |-> reps, tmpl |-> tmpl]

Files(lag, contents, setting) == [setting EXCEPT !.cm = lag, !.files = contents]

Setting(kinds, c, s, t, v, specs, births, u) ==
  [kinds |-> kinds, cr |-> c, secret |-> s, sts |-> t, svc |-> v, cm |-> 0, specs |-> specs,
   lives |-> births, files |-> {None}, upsets |-> u]

Plain == {S(FALSE, 1, 0)}

\* Two disturbances of a store with current reads, whose spec changes its key, its
\* replicas or its template; one of a store that may be created again; one with each
\* of the informers behind; a store and a builder; a builder with an informer behind;
\* a workload whose inline files change, with and without that informer behind.
Stores ==
  {Setting({"store"}, 0, 0, 0, 0, {S(FALSE, 1, 0), S(TRUE, 2, 0), S(FALSE, 0, 1)}, 1, 2),
   Setting({"store"}, 0, 1, 0, 0, Plain, 2, 1),
   Setting({"store"}, 1, 0, 0, 1, Plain, 1, 1),
   Setting({"store"}, 0, 0, 1, 0, Plain, 1, 1),
   Setting({"store", "builder"}, 0, 0, 0, 0, Plain, 1, 1),
   Setting({"builder"}, 0, 0, 1, 0, Plain, 0, 1),
   Files(0, {None, 1, 2}, Setting({"builder"}, 0, 0, 0, 0, Plain, 0, 1)),
   Files(2, {None, 1, 2}, Setting({}, 0, 0, 0, 0, {}, 0, 3))}
=============================================================================
