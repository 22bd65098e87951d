------------------------------ MODULE DitMetal ------------------------------
(***************************************************************************)
(* The DiT on Metal (src/crates/mmh3-metal/src/dit.rs and model.rs): every *)
(* operation answers with an array of its own, so nothing is computed into *)
(* what another still reads.  When every product of the blocks is INT8,    *)
(* one pass takes the residual's update, the norm and the packing of the   *)
(* next product's input, and each block leaves its MLP output to the next  *)
(* one's pass.  Adapters read either the packed rows or the rows before.   *)
(***************************************************************************)
EXTENDS Dit, Functions

CONSTANTS
    MetalKinds,      \* [int8, gates, packs: whether rows fit a packing pass, rotated: whether an
                     \*  INT8 layer's adapter reads the packed rows]
    MetalLoras,      \* sets of layers a LoRA file may have
    MetalContexts,
    MetalMethods,
    MetalCaptures,
    MetalCalls       \* bound: calls of one behaviour

ASSUME DitMetalAssumption ==
    /\ \A kind \in MetalKinds : {kind.gates, kind.packs, kind.rotated} \subseteq BOOLEAN
    /\ MetalMethods \subseteq {"dense", "sol", "vsa", "veda"}
    /\ MetalCalls \in Nat

VARIABLES
    weights,     \* [kind, adapters]
    forward,     \* the call under way: its text, residual, pending output and captures
    forwards,    \* calls begun
    output       \* what the last call answered with, or None

metalVars == <<weights, forward, forwards, output>>

NoForward == [phase |-> "idle"]

MetalInit ==
    /\ \E kind \in MetalKinds : weights = [kind |-> kind, adapters |-> {}]
    /\ forward = NoForward
    /\ forwards = 0
    /\ output = None

(***************************************************************************)
(* Arrays: functions from runs to rows.                                    *)
(***************************************************************************)
Int8(layer) == layer \in weights.kind.int8

Map(F(_), array) == [s \in DOMAIN array |-> Each(F, array[s])]

\* The product of a layer, whose adapter reads the same rows.
LinearOf(layer, array) == Map(LAMBDA x : Product(weights.adapters, layer, x), array)

\* Whether a layer's adapter reads its input as it is, rather than the rows its product reads.
AdapterReadsRows(layer) == layer \in weights.adapters /\ ~(Int8(layer) /\ weights.kind.rotated)

\* A product of packed rows.  An adapter that reads them as they are needs them beside the packed
\* ones.
LinearPrepacked(layer, packed, normed) ==
    IF ~Int8(layer) \/ (AdapterReadsRows(layer) /\ normed = None)
    THEN [s \in DOMAIN packed |-> Torn]
    ELSE LinearOf(layer, packed)

LinearGated(layer, array) == LinearOf(layer, Map(SwiGlu, array))

NormModulate(weight, m, chunk, array) ==
    Map(LAMBDA x : IF m = None THEN Norm(weight, x)
                   ELSE Modulate(m, chunk, chunk + 1, Norm(weight, x)), array)

AddGated(hidden, delta, gate) ==
    [s \in DOMAIN hidden |->
        Both(LAMBDA x, d : Added(Meanings(forward.call, weights.kind.gates, s), x, d, gate),
             hidden[s], delta[s])]

\* The residual with the pending output added, its norm, and the norm packed for the products.
\* The norm itself is written out only when an adapter keeps it.
AddNormPack(hidden, pending, weight, m, chunk, keep) ==
    LET updated == IF pending = None THEN hidden ELSE AddGated(hidden, pending.delta, pending.gate)
        normed == NormModulate(weight, m, chunk, updated)
    IN [hidden |-> updated, normed |-> IF keep THEN normed ELSE None, packed |-> normed]

(***************************************************************************)
(* The block under way.                                                    *)
(***************************************************************************)
At(part) == Layer(forward.block, part)

OfMain == forward.block[1] = "block"

Vectors == IF OfMain THEN Table(forward.block, forward.call.step) ELSE None

Method == IF OfMain THEN forward.call.method ELSE "dense"

WithGate == weights.kind.gates /\ Method = "vsa"

Packs ==
    /\ OfMain /\ weights.kind.packs
    /\ \A l \in 1..Blocks : Int8(Layer(Main(l), "qkv")) /\ Int8(Layer(Main(l), "fc1"))

\* Attention over what the block's projections answered, and its output projection.
AttentionOf(qkv, gate) ==
    LET whole == OfMain => qkv["video"].order = OrderOf(Method)
        terms == [s \in DOMAIN qkv |-> qkv[s].of]
        gates(s) == IF WithGate THEN gate[s].of ELSE None
    IN LinearOf(At("out"),
                [s \in DOMAIN qkv |->
                   IF whole THEN Run(Attended(forward.block, Method, terms, gates(s), s),
                                     qkv[s].order)
                            ELSE Torn])

(***************************************************************************)
(* A call.                                                                 *)
(***************************************************************************)
MetalBegin ==
    /\ forward.phase = "idle" /\ forwards < MetalCalls
    /\ \E context \in MetalContexts, method \in MetalMethods, capture \in MetalCaptures :
        forward' = [phase |-> "attention", block |-> Refiner(1),
                    call |-> [step |-> forwards + 1, context |-> context, method |-> method,
                              adapted |-> weights.adapters],
                    capture |-> capture, delta |-> None, pending |-> None, blocks |-> <<>>,
                    hidden |-> [s \in {"text"} |->
                                  Frames(Product(weights.adapters, <<"condition_proj">>,
                                                 <<"context", context>>))]]
    /\ forwards' = forwards + 1
    /\ output' = None
    /\ UNCHANGED weights

\* The attention of a block whose passes pack the rows of its products.
PackedAttention ==
    /\ forward.phase = "attention" /\ Packs
    /\ LET keep == AdapterReadsRows(At("qkv")) \/ AdapterReadsRows(At("gate"))
           first == AddNormPack(forward.hidden, forward.pending, At("norm1"), Vectors, 0, keep)
           project(part) == LinearPrepacked(At(part), first.packed, first.normed)
       IN forward' = [forward EXCEPT !.phase = "mlp", !.hidden = first.hidden, !.pending = None,
                                     !.delta = AttentionOf(project("qkv"), project("gate"))]
    /\ UNCHANGED <<weights, forwards, output>>

PackedMlp ==
    /\ forward.phase = "mlp" /\ Packs
    /\ LET attended == [delta |-> forward.delta, gate |-> <<Vectors, 2>>]
           second == AddNormPack(forward.hidden, attended, At("norm2"), Vectors, 3,
                                 AdapterReadsRows(At("fc1")))
           expanded == LinearPrepacked(At("fc1"), second.packed, second.normed)
       IN forward' = [forward EXCEPT
              !.phase = "leave", !.hidden = second.hidden, !.delta = None,
              !.pending = [delta |-> LinearGated(At("fc2"), expanded), gate |-> <<Vectors, 5>>]]
    /\ UNCHANGED <<weights, forwards, output>>

\* The same by separate operations, as the refiner's blocks run too.
PlainAttention ==
    /\ forward.phase = "attention" /\ ~Packs
    /\ LET normed == NormModulate(At("norm1"), Vectors, 0, forward.hidden)
           attended == AttentionOf(LinearOf(At("qkv"), normed), LinearOf(At("gate"), normed))
       IN forward' = [forward EXCEPT !.phase = "mlp", !.hidden = AddGated(@, attended,
                                         IF OfMain THEN <<Vectors, 2>> ELSE None)]
    /\ UNCHANGED <<weights, forwards, output>>

PlainMlp ==
    /\ forward.phase = "mlp" /\ ~Packs
    /\ LET normed == NormModulate(At("norm2"), Vectors, 3, forward.hidden)
           mlp == LinearGated(At("fc2"), LinearOf(At("fc1"), normed))
       IN forward' = [forward EXCEPT !.phase = "leave", !.hidden = AddGated(@, mlp,
                                         IF OfMain THEN <<Vectors, 5>> ELSE None)]
    /\ UNCHANGED <<weights, forwards, output>>

\* After the refiner, the packed sequence.  VSA runs the blocks with the video in cube order.
Assemble ==
    /\ forward.phase = "leave" /\ ~OfMain
    /\ LET r == forward.block[2]
           final == NormModulate(<<"token_refiner.final_norm">>, None, 0, forward.hidden)
           patches == [s \in {"audio", "video"} |->
                         IF s = "video" /\ forward.call.method = "vsa"
                         THEN Reorder(Frames(<<"patches", s, forward.call.step>>))
                         ELSE Frames(<<"patches", s, forward.call.step>>)]
           products == [s \in {"audio", "video"} |->
                          Each(LAMBDA x : Product(weights.adapters, PatchProjection(s), x),
                               patches[s])]
       IN forward' = IF r < Refiners
                     THEN [forward EXCEPT !.phase = "attention", !.block = Refiner(r + 1)]
                     ELSE [forward EXCEPT !.phase = "attention", !.block = Main(1),
                                          !.hidden = products @@ final]
    /\ UNCHANGED <<weights, forwards, output>>

\* The residual once what the last block left is in it.
Settled ==
    IF forward.pending = None THEN forward.hidden
    ELSE AddGated(forward.hidden, forward.pending.delta, forward.pending.gate)

InFrames(array) ==
    [s \in DOMAIN array |-> IF s = "video" /\ forward.call.method = "vsa" THEN Restore(array[s])
                            ELSE array[s]]

\* The end of a main block, with its capture.
LeaveMain ==
    /\ forward.phase = "leave" /\ OfMain
    /\ LET l == forward.block[2]
           next == IF l = Blocks THEN [forward EXCEPT !.phase = "finish"]
                   ELSE [forward EXCEPT !.phase = "attention", !.block = Main(l + 1)]
           settled == Settled
       IN forward' = IF l \in forward.capture
                     THEN [next EXCEPT !.hidden = settled, !.pending = None,
                                       !.blocks = Append(@, <<l, InFrames(settled)>>)]
                     ELSE next
    /\ UNCHANGED <<weights, forwards, output>>

MetalFinish ==
    /\ forward.phase = "finish"
    /\ LET k == <<"final", 0>>
           normed == NormModulate(Layer(k, "norm"), Table(k, forward.call.step), 0, Settled)
           rows == [s \in {"audio", "video"} |->
                      Each(LAMBDA x : <<"negated", Product(weights.adapters, OutputLayer(s), x)>>,
                           normed[s])]
       IN output' = [call |-> forward.call, blocks |-> forward.blocks, velocity |-> InFrames(rows)]
    /\ forward' = NoForward
    /\ UNCHANGED <<weights, forwards>>

\* Between calls, LoRAs take layers that have none.
MetalAddLora ==
    /\ forward.phase = "idle"
    /\ \E lora \in MetalLoras :
        /\ lora \cap weights.adapters = {}
        /\ weights' = [weights EXCEPT !.adapters = @ \cup lora]
    /\ UNCHANGED <<forward, forwards, output>>

MetalNext ==
    \/ MetalBegin \/ PackedAttention \/ PackedMlp \/ PlainAttention \/ PlainMlp
    \/ Assemble \/ LeaveMain \/ MetalFinish \/ MetalAddLora

MetalSpec == MetalInit /\ [][MetalNext]_metalVars
=============================================================================
