------------------------------- MODULE Terms -------------------------------
(***************************************************************************)
(* What the models' computations are written in.  A product, a norm or an  *)
(* attention is a tuple that names its layer and what it read, so that two *)
(* computations agree when their terms are equal.  The sums a computation  *)
(* carries from layer to layer would grow without end: one that is just    *)
(* what the reference has at that place takes the reference's name for it, *)
(* and any other keeps its whole term.                                     *)
(***************************************************************************)
EXTENDS Integers, Sequences, FiniteSets, TLC

\* Values that nothing computed.
Stale == <<"stale">>

Linear(layer, x) == <<"linear", layer, x>>

Norm(weight, x) == <<"norm", weight, x>>

SwiGlu(x) == <<"swiglu", x>>

\* The residual x with `delta` scaled by `scale`, or as it is when there is none.
Add(x, delta, scale) == <<"add", x, delta, scale>>

\* Two values mixed, the second with weight w[1] / w[2].
Mix(before, after, w) == <<"mix", before, after, w>>

\* `term`, under its name when `meanings`, pairs of a term and its name, have one.
Named(meanings, term) ==
    LET named == {e \in meanings : e[1] = term}
    IN IF named = {} THEN term ELSE (CHOOSE e \in named : TRUE)[2]
=============================================================================
