------------------------------- MODULE Dit -------------------------------
(***************************************************************************)
(* What a call of the DiT computes, as the FP32 reference in               *)
(* src/crates/mmh3-cpu/src/dit.rs writes it: which product reads which     *)
(* rows with which weights, in which order the residual takes what.  The   *)
(* arithmetic is a term: a product of layer n with the rows x is a tuple   *)
(* that says so, and two computations agree when their terms are equal.    *)
(*                                                                         *)
(* The sequence is three runs of rows: the text, the audio with the        *)
(* conditions, and the video.  A run is a term beside the order its rows   *)
(* are in, for VSA runs the blocks with the video in cube order.           *)
(*                                                                         *)
(* A residual update that is the reference's own gets the reference's name *)
(* for it, so that terms stay small; any other keeps its whole term.       *)
(***************************************************************************)
EXTENDS Integers, Sequences, FiniteSets, TLC

CONSTANTS
    Blocks,        \* main blocks
    Refiners,      \* blocks of the text refiner
    None           \* what is not there

ASSUME DitAssumption == Blocks \in Nat \ {0} /\ Refiners \in Nat \ {0}

\* The runs of the sequence, and those before the video.
Segs == {"text", "audio", "video"}

BeforeVideo == {"text", "audio"}

(***************************************************************************)
(* Layers are named by the block they lie in and their part.               *)
(***************************************************************************)
Refiner(r) == <<"refiner", r>>

Main(l) == <<"block", l>>

Layer(k, part) == <<k[1], k[2], part>>

(***************************************************************************)
(* Rows.                                                                   *)
(***************************************************************************)
Run(of, order) == [of |-> of, order |-> order]

Frames(of) == Run(of, "frames")

\* Values that nothing computed, or that mix rows of two orders.
Stale == Frames(<<"stale">>)

Torn == Frames(<<"torn">>)

Each(F(_), run) == Run(F(run.of), run.order)

Both(F(_, _), a, b) == IF a.order = b.order THEN Run(F(a.of, b.of), a.order) ELSE Torn

\* plan.reorder_video and plan.restore_video.
Reorder(run) == IF run.order = "frames" THEN Run(run.of, "cubes") ELSE Torn

Restore(run) == IF run.order = "cubes" THEN Frames(run.of) ELSE Torn

(***************************************************************************)
(* The operations.  A call is [step, context, method, adapted]: the        *)
(* latents and timesteps of one step, the prompt, the attention, and the   *)
(* layers whose product a LoRA adds to.                                    *)
(***************************************************************************)
Product(adapted, layer, x) == <<"linear", layer, layer \in adapted, x>>

Norm(weight, x) == <<"norm", weight, x>>

\* The shift, scale and gate vectors of a block (or of the final layer) for the rows' timestep.
Table(k, step) == <<"table", k, step>>

Modulate(table, shift, scale, x) == <<"modulate", table, shift, scale, x>>

SwiGlu(x) == <<"swiglu", x>>

\* The order of the video's rows an attention method reads.
OrderOf(method) == IF method = "vsa" THEN "cubes" ELSE "frames"

\* Attention of the rows of s over every run of `qkv`, normed with the block's q and k weights and
\* turned by the angles.  Veda picks the tiles with one predictor per block.
Attended(k, method, qkv, gate, s) ==
    <<"attend", k, method, IF method = "veda" THEN k[2] ELSE 0, qkv, gate, s>>

(***************************************************************************)
(* The reference's residual after each half of each block.                 *)
(***************************************************************************)
RefinedAfter(c, r, half) == <<"refined", r, half, c.context, c.adapted>>

\* What enters refiner block r.
IntoRefiner(c, r) ==
    IF r = 1 THEN Product(c.adapted, <<"condition_proj">>, <<"context", c.context>>)
    ELSE RefinedAfter(c, r - 1, "mlp")

After(c, l, half, s) == <<"after", l, half, s, c>>

PatchProjection(s) == <<IF s = "video" THEN "video_patch_proj" ELSE "audio_patch_proj">>

\* The refined states of the prompt.
Refined(c) == Norm(<<"token_refiner.final_norm">>, RefinedAfter(c, Refiners, "mlp"))

\* What enters block l.
Into(c, l, s) ==
    CASE l > 1       -> After(c, l - 1, "mlp", s)
      [] s = "text"  -> Refined(c)
      [] OTHER       -> Product(c.adapted, PatchProjection(s), <<"patches", s, c.step>>)

Plain(k, m, chunk, norm, x) ==
    LET normed == Norm(Layer(k, norm), x)
    IN IF m = None THEN normed ELSE Modulate(m, chunk, chunk + 1, normed)

\* A gate is the table and the chunk of it, or None for the refiner, whose blocks are not modulated.
Gate(m, chunk) == IF m = None THEN None ELSE <<m, chunk>>

AttentionHalf(c, k, m, method, gated, x, runs, s) ==
    LET input(t) == Plain(k, m, 0, "norm1", x[t])
        qkv == [t \in runs |-> Product(c.adapted, Layer(k, "qkv"), input(t))]
        gate == IF gated THEN Product(c.adapted, Layer(k, "gate"), input(s)) ELSE None
    IN <<"add", x[s], Product(c.adapted, Layer(k, "out"), Attended(k, method, qkv, gate, s)),
         Gate(m, 2)>>

MlpHalf(c, k, m, x) ==
    LET inner == Product(c.adapted, Layer(k, "fc1"), Plain(k, m, 3, "norm2", x))
    IN <<"add", x, Product(c.adapted, Layer(k, "fc2"), SwiGlu(inner)), Gate(m, 5)>>

\* The terms the reference's names for the rows of s stand for.
Meanings(c, gates, s) ==
    LET refiner(r) ==
            LET x == [t \in {"text"} |-> IntoRefiner(c, r)]
            IN  {<<AttentionHalf(c, Refiner(r), None, "dense", FALSE, x, {"text"}, "text"),
                   RefinedAfter(c, r, "attention")>>,
                 <<MlpHalf(c, Refiner(r), None, RefinedAfter(c, r, "attention")),
                   RefinedAfter(c, r, "mlp")>>}
        block(l) ==
            LET m == Table(Main(l), c.step)
                x == [t \in Segs |-> Into(c, l, t)]
            IN  {<<AttentionHalf(c, Main(l), m, c.method, gates /\ c.method = "vsa", x, Segs, s),
                   After(c, l, "attention", s)>>,
                 <<MlpHalf(c, Main(l), m, After(c, l, "attention", s)), After(c, l, "mlp", s)>>}
    IN UNION {refiner(r) : r \in 1..Refiners} \cup UNION {block(l) : l \in 1..Blocks}

\* The residual x with `delta` added to it, under its reference's name when it has one.
Added(meanings, x, delta, gate) ==
    LET term == <<"add", x, delta, gate>>
        named == {e \in meanings : e[1] = term}
    IN IF named = {} THEN term ELSE (CHOOSE e \in named : TRUE)[2]

OutputLayer(s) == <<IF s = "video" THEN "final_layer.video_out" ELSE "final_layer.audio_out">>

\* The velocity the reference answers with.
Velocity(c, s) ==
    LET k == <<"final", 0>>
        x == Modulate(Table(k, c.step), 0, 1, Norm(Layer(k, "norm"), After(c, Blocks, "mlp", s)))
    IN <<"negated", Product(c.adapted, OutputLayer(s), x)>>

\* The residual stream it captures after block l.
Captured(c, l) == [s \in Segs |-> Frames(After(c, l, "mlp", s))]

\* A backend's answer to a call is the reference's: the velocity, and every block captured.
Agrees(answer) ==
    /\ \A s \in DOMAIN answer.velocity :
          answer.velocity[s] = Frames(Velocity(answer.call, s))
    /\ \A i \in DOMAIN answer.blocks :
          answer.blocks[i][2] = Captured(answer.call, answer.blocks[i][1])
=============================================================================
