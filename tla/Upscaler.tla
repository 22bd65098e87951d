------------------------------ MODULE Upscaler ------------------------------
(***************************************************************************)
(* The network that doubles the width and height of a latent, on CUDA and  *)
(* on Metal (src/crates/mmh3-cuda/src/latent_upscaler.rs,                  *)
(* src/crates/mmh3-metal/src/latent_upscaler.rs and                        *)
(* src/crates/mmh3-core/src/latent_upscaler.rs): blocks of either kind, a  *)
(* resize, and more blocks.  A group norm takes the statistics of a whole  *)
(* clip, so a value is that of all its frames.                             *)
(*                                                                         *)
(* CUDA adds each block onto the activation it reads, through a scratch    *)
(* activation that all blocks of a side share; Metal writes a new one.     *)
(***************************************************************************)
EXTENDS Terms

CONSTANTS
    Backends,
    Networks,      \* [in, out]: the kinds of the blocks before and after the resize
    None

VARIABLES
    network,       \* [backend, in, out]
    upscale,       \* the run under way
    upscaled       \* what the last one answered with, or None

vars == <<network, upscale, upscaled>>

Conv(layer, x) == <<"conv", layer, x>>

NormSilu(norm, statistics, x) == <<"group norm", norm, statistics, x>>

Temporal(layer, x) == <<"temporal", layer, x>>

Resized(x) == <<"resized", x>>

(***************************************************************************)
(* What both are to compute.                                               *)
(***************************************************************************)
Activated(norm, x) == NormSilu(norm, x, x)

\* `x` after a block, by the block's kind.
Block(side, i, kind, x) ==
    LET of(layer) == <<side, i, layer>>
        inner == Conv(of("in_layers.2"), Activated(of("in_layers.0"), x))
    IN IF kind = "residual"
       THEN Add(x, Conv(of("out_layers.2"), Activated(of("out_norm"), inner)), "one")
       ELSE Add(x, Linear(of("pwconv"), Temporal(of("dwconv"), Activated(of("norm"), x))), "one")

After(side, i) == <<"after", side, i>>

Into(side, i) ==
    IF i > 1 THEN After(side, i - 1)
    ELSE IF side = "in" THEN Conv(<<"conv_in">>, <<"rows">>)
    ELSE Resized(After("in", Len(network.in)))

Upscaled == Conv(<<"conv_out">>, Activated(<<"norm_out">>, After("out", Len(network.out))))

Agrees(answer) == answer = Upscaled

(***************************************************************************)
(* Both backends.  The scale is always two, so the modulation of a block's *)
(* second norm is folded into it when the weights load.                    *)
(***************************************************************************)
Init ==
    /\ \E backend \in Backends, n \in Networks :
        network = [backend |-> backend, in |-> n.in, out |-> n.out]
    /\ upscale = None
    /\ upscaled = None

Begin ==
    /\ upscale = None /\ upscaled = None
    /\ upscale' = [side |-> "in", block |-> 1, half |-> 1,
                   hidden |-> Conv(<<"conv_in">>, <<"rows">>), scratch |-> Stale,
                   second |-> None]
    /\ UNCHANGED <<network, upscaled>>

\* A device out of memory.
Fail ==
    /\ upscale # None
    /\ upscale' = None
    /\ UNCHANGED <<network, upscaled>>

Kinds == network[upscale.side]

AtBlock(backend, kind, half) ==
    /\ upscale # None /\ network.backend = backend /\ upscale.half = half
    /\ upscale.block <= Len(Kinds) /\ Kinds[upscale.block] = kind

AtEnd(backend, side) ==
    /\ upscale # None /\ network.backend = backend
    /\ upscale.side = side /\ upscale.block > Len(Kinds)

Layer(name) == <<upscale.side, upscale.block, name>>

\* A sum that is the reference's after this block takes its name.
Settled(x) ==
    LET side == upscale.side
        i == upscale.block
    IN IF x = Block(side, i, Kinds[i], Into(side, i)) THEN After(side, i) ELSE x

CudaResidualIn ==
    /\ AtBlock("cuda", "residual", 1)
    /\ LET normed == NormSilu(Layer("in_layers.0"), upscale.hidden, upscale.hidden)
       IN upscale' = [upscale EXCEPT !.half = 2,
                                     !.scratch = Conv(Layer("in_layers.2"), normed)]
    /\ UNCHANGED <<network, upscaled>>

\* Variant with a fault: the second norm goes by the statistics of the first.
CudaResidualOfTheFirst ==
    /\ AtBlock("cuda", "residual", 2)
    /\ LET normed == NormSilu(Layer("out_norm"), upscale.hidden, upscale.scratch)
           sum == Add(upscale.hidden, Conv(Layer("out_layers.2"), normed), "one")
       IN upscale' = [upscale EXCEPT !.half = 1,
                                     !.hidden = Settled(sum), !.block = @ + 1]
    /\ UNCHANGED <<network, upscaled>>

CudaResidualOut ==
    /\ AtBlock("cuda", "residual", 2)
    /\ LET normed == NormSilu(Layer("out_norm"), upscale.scratch, upscale.scratch)
           sum == Add(upscale.hidden, Conv(Layer("out_layers.2"), normed), "one")
       IN upscale' = [upscale EXCEPT !.half = 1,
                                     !.hidden = Settled(sum), !.block = @ + 1]
    /\ UNCHANGED <<network, upscaled>>

\* The norm goes to the scratch, and the temporal convolution to an activation of its own, which
\* the first such block makes.
CudaTemporalIn ==
    /\ AtBlock("cuda", "temporal", 1)
    /\ LET normed == NormSilu(Layer("norm"), upscale.hidden, upscale.hidden)
       IN upscale' = [upscale EXCEPT !.half = 2,
                                     !.scratch = normed,
                                     !.second = Temporal(Layer("dwconv"), normed)]
    /\ UNCHANGED <<network, upscaled>>

CudaTemporalOut ==
    /\ AtBlock("cuda", "temporal", 2)
    /\ LET sum == Add(upscale.hidden, Linear(Layer("pwconv"), upscale.second), "one")
       IN upscale' = [upscale EXCEPT !.half = 1, !.hidden = Settled(sum), !.block = @ + 1]
    /\ UNCHANGED <<network, upscaled>>

MetalResidual ==
    /\ AtBlock("metal", "residual", 1)
    /\ LET x == upscale.hidden
           inner == Conv(Layer("in_layers.2"), NormSilu(Layer("in_layers.0"), x, x))
           normed == NormSilu(Layer("out_norm"), inner, inner)
       IN upscale' = [upscale EXCEPT
                        !.hidden = Settled(Add(x, Conv(Layer("out_layers.2"), normed), "one")),
                        !.block = @ + 1]
    /\ UNCHANGED <<network, upscaled>>

MetalTemporal ==
    /\ AtBlock("metal", "temporal", 1)
    /\ LET x == upscale.hidden
           temporal == Temporal(Layer("dwconv"), NormSilu(Layer("norm"), x, x))
       IN upscale' = [upscale EXCEPT
                        !.hidden = Settled(Add(x, Linear(Layer("pwconv"), temporal), "one")),
                        !.block = @ + 1]
    /\ UNCHANGED <<network, upscaled>>

\* The resize, into activations of the new size.
Resize(backend) ==
    /\ AtEnd(backend, "in")
    /\ upscale' = [upscale EXCEPT !.side = "out", !.block = 1, !.hidden = Resized(@),
                                  !.scratch = Stale, !.second = None]
    /\ UNCHANGED <<network, upscaled>>

Finish(backend) ==
    /\ AtEnd(backend, "out")
    /\ upscaled' = Conv(<<"conv_out">>, NormSilu(<<"norm_out">>, upscale.hidden, upscale.hidden))
    /\ upscale' = None
    /\ UNCHANGED network

Next ==
    \/ Begin \/ Fail
    \/ CudaResidualIn \/ CudaResidualOut \/ CudaTemporalIn \/ CudaTemporalOut
    \/ MetalResidual \/ MetalTemporal
    \/ \E backend \in {"cuda", "metal"} : Resize(backend) \/ Finish(backend)
=============================================================================
