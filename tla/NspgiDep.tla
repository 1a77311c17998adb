------------------------------- MODULE NspgiDep -------------------------------
(***************************************************************************)
(* How NspgiDep (simulation.rs) stores the executions of gadgets that a    *)
(* wire depends on: a vector that is only as long as it needs to be, so    *)
(* that most wires have an empty one.  WireState has a function from all   *)
(* gadget instances in its place.                                          *)
(*                                                                         *)
(* Instances are counted from 1, and NoExec is None: as with options in    *)
(* the code, it is smaller than any cycle.                                 *)
(***************************************************************************)
EXTENDS WireState, Sequences

Entry == Nat \cup {NoExec}

Larger(c, d) == IF c < d THEN d ELSE c

is_empty(v) == \A i \in DOMAIN v : v[i] = NoExec

(* What is left of the longer vector is kept (zip_longest).                *)
zip_max(v, w) ==
    [i \in 1..Larger(Len(v), Len(w)) |->
        IF i > Len(w) THEN v[i] ELSE IF i > Len(v) THEN w[i] ELSE Larger(v[i], w[i])]

max(v, w) ==
    IF is_empty(v) THEN w
    ELSE IF is_empty(w) \/ v = w THEN v
    ELSE zip_max(v, w)

is_larger_than(v, w) == v = max(v, w)

last(v, g) == IF g \in DOMAIN v THEN v[g] ELSE NoExec

empty == <<>>
single(g, c) == [i \in 1..g |-> IF i = g THEN c ELSE NoExec]

(* The vectors that empty, single and max build have no trailing None.     *)
Vectors == {v \in Seq(Entry) : v = <<>> \/ v[Len(v)] # NoExec}

(* The function that a vector stands for.                                  *)
Deps(v) == [g \in Nspgis |-> last(v, g)]
=============================================================================
