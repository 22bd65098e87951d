------------------------------ MODULE DitCuda ------------------------------
(***************************************************************************)
(* The DiT on CUDA (src/crates/mmh3-cuda/src/dit.rs): a call computes in a *)
(* workspace of buffers it keeps for the next call, and a buffer holds     *)
(* whatever was written into it last.  A block of INT8 layers quantizes    *)
(* the rows it normalizes straight into the buffer the products read,      *)
(* leaves its gated MLP output for the next block's first normalization,   *)
(* and runs the rows before the video apart when its layers are NVFP4.     *)
(*                                                                         *)
(* The share of a step that crosses to other ranks is ShardBlock's, and    *)
(* which blocks lie on the device is Streaming's.                          *)
(***************************************************************************)
EXTENDS Dit, FiniteSetsExt, Functions

CONSTANTS
    CudaKinds,     \* checkpoints: [int8: layers in INT8 ConvRot, gates: whether it has VSA gates]
    Loras,         \* sets of layers a LoRA file may have
    Contexts,      \* prompts
    Methods,       \* attentions a call may ask for
    Captures,      \* sets of blocks a call may capture
    Calls          \* bound: calls of one behaviour

ASSUME DitCudaAssumption ==
    /\ \A kind \in CudaKinds : kind.gates \in BOOLEAN
    /\ Methods \subseteq {"dense", "sol", "vsa", "veda"}
    /\ \A capture \in Captures : capture \subseteq 1..Blocks
    /\ Calls \in Nat \ {0}

VARIABLES
    dit,       \* [kind, adapters, nvfp4]: the checkpoint, its LoRAs, and the layers in NVFP4
    work,      \* the workspace of the last call, or None
    text,      \* [context, states]: the refined states kept for the next call, or None
    pass,      \* the call under way
    calls,     \* calls begun
    answer     \* what the last call answered with, or None

vars == <<dit, work, text, pass, calls, answer>>

Buffers == {"residual", "normalized", "qkv", "attention", "delta", "expanded", "activated",
            "quantized", "nvfp4", "gate", "projected"}

Idle == [phase |-> "idle", call |-> None]

Init ==
    /\ \E kind \in CudaKinds : dit = [kind |-> kind, adapters |-> {}, nvfp4 |-> {}]
    /\ work = None
    /\ text = None
    /\ pass = Idle
    /\ calls = 0
    /\ answer = None

MainLayers(part) == {Layer(Main(l), part) : l \in 1..Blocks}

IsInt8(layer) == layer \in dit.kind.int8

(***************************************************************************)
(* Kernels over the workspace.                                             *)
(***************************************************************************)
Rows(w, buffer, runs) == [s \in runs |-> w[buffer][s]]

Write(w, buffer, rows) == [w EXCEPT ![buffer] = rows @@ @]

\* The product of `rows` by a layer, with its adapter.
Times(layer, rows) ==
    [s \in DOMAIN rows |-> Each(LAMBDA x : Product(dit.adapters, layer, x), rows[s])]

\* The same where the code passes no adapter.
TimesBare(layer, rows) ==
    [s \in DOMAIN rows |-> Each(LAMBDA x : Product({}, layer, x), rows[s])]

NormRows(weight, m, chunk, rows) ==
    [s \in DOMAIN rows |->
        Each(LAMBDA x : IF m = None THEN Norm(weight, x)
                        ELSE Modulate(m, chunk, chunk + 1, Norm(weight, x)), rows[s])]

\* A delta added to the residual, gated by a chunk of a modulation table when there is one.
AddResidual(w, runs, gate) ==
    Write(w, "residual",
          [s \in runs |->
              Both(LAMBDA x, d : Added(Meanings(pass.call, dit.kind.gates, s), x, d, gate),
                   w.residual[s], w.delta[s])])

Normalize(w, weight, from, to, runs, m, chunk) ==
    Write(w, to, NormRows(weight, m, chunk, Rows(w, from, runs)))

\* The delta added and the residual normed and quantized for the next product, in one pass.
AddNormQuantize(w, weight, runs, to, m, gate, chunk) ==
    LET added == IF gate = None THEN w ELSE AddResidual(w, runs, gate)
    IN Normalize(added, weight, "residual", to, runs, m, chunk)

\* A layer on rows of a buffer.  INT8 layers quantize them first, and of an NVFP4 layer the rows
\* of `head` go through its INT8 weights.
Linear(w, layer, from, to, runs, head) ==
    LET int8 == IF layer \in dit.nvfp4 THEN runs \cap head ELSE IF IsInt8(layer) THEN runs ELSE {}
        tail == IF layer \in dit.nvfp4 THEN runs \ head ELSE {}
        quantized == Write(Write(w, "quantized", Rows(w, from, int8)), "nvfp4", Rows(w, from, tail))
    IN Write(quantized, to,
             [s \in runs |-> Times(layer, CASE s \in int8 -> Rows(quantized, "quantized", {s})
                                            [] s \in tail -> Rows(quantized, "nvfp4", {s})
                                            [] OTHER      -> Rows(quantized, from, {s}))[s]])

(***************************************************************************)
(* The block under way: the runs it covers, its modulation table and the   *)
(* table of the block that left its MLP output, neither in the refiner,    *)
(* the rows NVFP4 layers leave to their INT8 weights, and whether VSA's    *)
(* gates are read.                                                         *)
(***************************************************************************)
Here(part) == Layer(pass.block, part)

IsMain == pass.block[1] = "block"

Runs == IF IsMain THEN Segs ELSE {"text"}

\* Variant with a fault: one modulation table for every block.
OneTable(l) == 0

\* Each block leaves its gated MLP output to the next, so the tables of two are alive at a time.
Slot(l) == l % 2

Own == IF IsMain THEN pass.tables[Slot(pass.block[2])] ELSE None

Pending == IF pass.pending = None THEN None ELSE <<pass.tables[pass.pending[1]], 5>>

Ahead == IF IsMain /\ dit.nvfp4 # {} THEN BeforeVideo ELSE {}

Gated == IsMain /\ dit.kind.gates /\ pass.call.method = "vsa"

\* Whether the block's normalization quantizes the rows of `part` itself.
Fused(part) == IsMain /\ IsInt8(Here(part))

\* The rows of a fused layer that go through its INT8 weights, and those through its NVFP4 ones.
Int8Rows(layer) == IF layer \in dit.nvfp4 THEN Runs \cap Ahead ELSE Runs

Nvfp4Rows(layer) == IF layer \in dit.nvfp4 THEN Runs \ Ahead ELSE {}

(***************************************************************************)
(* A call.  It begins by taking the workspace of the call before, if it    *)
(* has the shape this one needs, with the residual zeroed.                 *)
(***************************************************************************)
Shape(method) ==
    [gated |-> method = "vsa" /\ dit.kind.gates, adapters |-> dit.adapters # {},
     nvfp4 |-> dit.nvfp4 # {},
     fused |-> MainLayers("fc1") \subseteq dit.kind.int8 \ dit.nvfp4]

Fresh(shape) == [b \in Buffers |-> [s \in Segs |-> Stale]] @@ [shape |-> shape]

Begin ==
    /\ pass.phase = "idle" /\ calls < Calls
    /\ \E context \in Contexts, method \in Methods, capture \in Captures :
        LET shape == Shape(method)
            kept == work # None /\ work.shape = shape
            order == OrderOf(method)
        IN
        /\ work' = IF kept THEN [work EXCEPT !.residual = [s \in Segs |-> Stale]] ELSE Fresh(shape)
        /\ pass' = [phase |-> IF text # None /\ text.context = context THEN "embed" ELSE "refine",
                    call |-> [step |-> calls + 1, context |-> context, method |-> method,
                              adapted |-> dit.adapters],
                    capture |-> capture, angles |-> order, block |-> Main(1),
                    tables |-> [slot \in 0..1 |-> None], pending |-> None, blocks |-> <<>>]
    /\ calls' = calls + 1
    /\ answer' = None
    /\ UNCHANGED <<dit, text>>

\* The rows of the prompt, for the refiner.
EnterRefiner ==
    /\ pass.phase = "refine"
    /\ LET context == [s \in {"text"} |-> Frames(<<"context", pass.call.context>>)]
           entered == Times(<<"condition_proj">>, context)
       IN work' = Write(Write(work, "normalized", entered), "residual", entered)
    /\ pass' = [pass EXCEPT !.phase = "project", !.block = Refiner(1)]
    /\ UNCHANGED <<dit, text, calls, answer>>

\* The refined states, kept for the calls that have the same prompt.
KeepText ==
    /\ pass.phase = "refined"
    /\ LET refined == NormRows(<<"token_refiner.final_norm">>, None, 0,
                               Rows(work, "residual", {"text"}))
       IN /\ work' = Write(work, "residual", refined)
          /\ text' = [context |-> pass.call.context, states |-> refined["text"]]
    /\ pass' = [pass EXCEPT !.phase = "embed"]
    /\ UNCHANGED <<dit, calls, answer>>

\* The residual the blocks start from: the refined states and the patches of each segment.
Embed ==
    /\ pass.phase = "embed"
    /\ LET patches == [s \in {"audio", "video"} |->
                          IF s = "video" /\ pass.call.method = "vsa"
                          THEN Reorder(Frames(<<"patches", s, pass.call.step>>))
                          ELSE Frames(<<"patches", s, pass.call.step>>)]
           products == [s \in {"audio", "video"} |->
                          Each(LAMBDA x : Product(dit.adapters, PatchProjection(s), x), patches[s])]
       IN work' = Write(work, "residual", products @@ [s \in {"text"} |-> text.states])
    /\ pass' = [pass EXCEPT !.phase = "modulate", !.block = Main(1)]
    /\ UNCHANGED <<dit, text, calls, answer>>

ModulateBlock ==
    /\ pass.phase = "modulate"
    /\ pass' = [pass EXCEPT !.phase = "project",
                            !.tables[Slot(pass.block[2])] = Table(pass.block, pass.call.step)]
    /\ UNCHANGED <<dit, work, text, calls, answer>>

\* The attention projections of a block whose normalization adds what the block before left, and
\* quantizes.
FusedProjection ==
    /\ pass.phase = "project" /\ Fused("qkv")
    /\ LET layer == Here("qkv")
           norm == Here("norm1")
           ahead == AddNormQuantize(work, norm, Int8Rows(layer), "quantized", Own, Pending, 0)
           whole == AddNormQuantize(ahead, norm, Nvfp4Rows(layer), "nvfp4", Own, Pending, 0)
       IN work' = Write(whole, "qkv", Times(layer, Rows(whole, "quantized", Int8Rows(layer))
                                                       @@ Rows(whole, "nvfp4", Nvfp4Rows(layer))))
    /\ pass' = [pass EXCEPT !.phase = IF Gated THEN "gate" ELSE "attend"]
    /\ UNCHANGED <<dit, text, calls, answer>>

PlainProjection ==
    /\ pass.phase = "project" /\ ~Fused("qkv")
    /\ LET added == IF Pending = None THEN work ELSE AddResidual(work, Runs, Pending)
           normed == Normalize(added, Here("norm1"), "residual", "normalized", Runs, Own, 0)
       IN work' = Linear(normed, Here("qkv"), "normalized", "qkv", Runs, Ahead)
    /\ pass' = [pass EXCEPT !.phase = IF Gated THEN "gate" ELSE "attend"]
    /\ UNCHANGED <<dit, text, calls, answer>>

\* VSA's gates, from the input of the block's projections: in the quantization buffers when the
\* projections were fused, in `normalized` otherwise.
VsaGate ==
    /\ pass.phase = "gate"
    /\ LET layer == Here("gate")
           rows == Rows(work, "quantized", Int8Rows(layer)) @@ Rows(work, "nvfp4", Nvfp4Rows(layer))
       IN work' = IF layer \in dit.nvfp4 \/ (Fused("qkv") /\ IsInt8(layer))
                  THEN Write(work, "gate", TimesBare(layer, rows))
                  ELSE Linear(work, layer, "normalized", "gate", Runs, Ahead)
    /\ pass' = [pass EXCEPT !.phase = "attend"]
    /\ UNCHANGED <<dit, text, calls, answer>>

\* Attention, by q and k normed and turned by the angles, and its output projection.
Attend ==
    /\ pass.phase = "attend"
    /\ LET method == IF IsMain THEN pass.call.method ELSE "dense"
           qkv == Rows(work, "qkv", Runs)
           whole == IsMain => {qkv["video"].order, pass.angles} = {OrderOf(method)}
           terms == [s \in Runs |-> qkv[s].of]
           gate(s) == IF Gated THEN work.gate[s].of ELSE None
           attended == [s \in Runs |->
                          IF whole THEN Run(Attended(pass.block, method, terms, gate(s), s),
                                            qkv[s].order)
                                   ELSE Torn]
       IN work' = Linear(Write(work, "attention", attended), Here("out"), "attention", "delta",
                         Runs, Ahead)
    /\ pass' = [pass EXCEPT !.phase = "expand"]
    /\ UNCHANGED <<dit, text, calls, answer>>

\* The gate and up projections of an MLP, with SwiGLU of them.  INT8 products write it directly;
\* NVFP4 ones leave it to the next product.
FusedExpansion ==
    /\ pass.phase = "expand" /\ Fused("fc1")
    /\ LET layer == Here("fc1")
           gate == <<Own, 2>>
           ahead == AddNormQuantize(work, Here("norm2"), Int8Rows(layer), "quantized", Own, gate, 3)
           whole == AddNormQuantize(ahead, Here("norm2"), Nvfp4Rows(layer), "nvfp4", Own, gate, 3)
           product == Times(layer, Rows(whole, "quantized", Int8Rows(layer)))
           swiglu == [s \in Int8Rows(layer) |-> Each(SwiGlu, product[s])]
       IN work' = Write(Write(whole, "activated", swiglu), "expanded",
                        Times(layer, Rows(whole, "nvfp4", Nvfp4Rows(layer))))
    /\ pass' = [pass EXCEPT !.phase = "contract"]
    /\ UNCHANGED <<dit, text, calls, answer>>

PlainExpansion ==
    /\ pass.phase = "expand" /\ ~Fused("fc1")
    /\ LET added == AddResidual(work, Runs, IF IsMain THEN <<Own, 2>> ELSE None)
           normed == Normalize(added, Here("norm2"), "residual", "normalized", Runs, Own, 3)
           expanded == Linear(normed, Here("fc1"), "normalized", "expanded", Runs, Ahead)
       IN work' = Write(expanded, "activated",
                        [s \in Runs |-> Each(SwiGlu, expanded.expanded[s])])
    /\ pass' = [pass EXCEPT !.phase = "contract"]
    /\ UNCHANGED <<dit, text, calls, answer>>

\* The down projection.  After NVFP4 gate and up projections an NVFP4 one takes SwiGLU as it
\* quantizes its input, and an INT8 one takes it with every row through its INT8 weights.
Contraction ==
    /\ pass.phase = "contract"
    /\ LET layer == Here("fc2")
           tail == IF IsMain THEN Nvfp4Rows(Here("fc1")) ELSE {}
           swiglu == [s \in tail |-> Each(SwiGlu, work.expanded[s])]
           quantized == Write(Write(work, "quantized", Rows(work, "activated", Runs \ tail)),
                              "nvfp4", swiglu)
       IN work' = IF tail # {} /\ layer \in dit.nvfp4
                  THEN Write(quantized, "delta",
                             Times(layer, Rows(quantized, "quantized", Runs \ tail)
                                              @@ Rows(quantized, "nvfp4", tail)))
                  ELSE Linear(Write(work, "activated", swiglu), layer, "activated", "delta", Runs,
                              IF tail = {} THEN Ahead ELSE {})
    /\ pass' = [pass EXCEPT !.phase = "leave"]
    /\ UNCHANGED <<dit, text, calls, answer>>

\* A refiner's block adds its MLP output at once.
LeaveRefiner ==
    /\ pass.phase = "leave" /\ ~IsMain
    /\ work' = AddResidual(work, Runs, None)
    /\ pass' = LET r == pass.block[2]
               IN IF r = Refiners THEN [pass EXCEPT !.phase = "refined"]
                  ELSE [pass EXCEPT !.phase = "project", !.block = Refiner(r + 1)]
    /\ UNCHANGED <<dit, text, calls, answer>>

\* Rows as the caller reads them: the video in the order of its frames.
InOrder(rows) ==
    [s \in DOMAIN rows |-> IF s = "video" /\ pass.call.method = "vsa" THEN Restore(rows[s])
                           ELSE rows[s]]

\* A main block leaves its MLP output to the next, unless it is captured.
LeaveBlock ==
    /\ pass.phase = "leave" /\ IsMain
    /\ LET l == pass.block[2]
           captured == l \in pass.capture
           added == AddResidual(work, Segs, <<Own, 5>>)
           next == IF l = Blocks THEN [pass EXCEPT !.phase = "finish"]
                   ELSE [pass EXCEPT !.phase = "modulate", !.block = Main(l + 1)]
       IN
       /\ work' = IF captured THEN added ELSE work
       /\ pass' = IF captured
                  THEN [next EXCEPT !.pending = None,
                                    !.blocks = Append(@, <<l, InOrder(added.residual)>>)]
                  ELSE [next EXCEPT !.pending = <<Slot(l)>>]
    /\ UNCHANGED <<dit, text, calls, answer>>

\* The final layer, and the answer.
Finish ==
    /\ pass.phase = "finish"
    /\ LET k == <<"final", 0>>
           added == IF Pending = None THEN work ELSE AddResidual(work, Segs, Pending)
           projected == NormRows(Layer(k, "norm"), Table(k, pass.call.step), 0,
                                 Rows(added, "residual", Segs))
           velocity(s) == Each(LAMBDA x : <<"negated", Product(dit.adapters, OutputLayer(s), x)>>,
                               projected[s])
       IN
       /\ work' = Write(added, "projected", projected)
       /\ answer' = [call |-> pass.call, blocks |-> pass.blocks,
                     velocity |-> InOrder([s \in {"audio", "video"} |-> velocity(s)])]
    /\ pass' = Idle
    /\ UNCHANGED <<dit, text, calls>>

\* The device ran out of memory on the way.  The caller lets go of blocks and runs again, or
\* gives up; either way the buffers stay as the attempt left them.
OutOfMemory ==
    /\ pass.phase \in {"refine", "embed", "project", "contract"}
    /\ pass' = Idle
    /\ UNCHANGED <<dit, work, text, calls, answer>>

\* Between calls: a LoRA, or the switch to NVFP4, after which no layer it converted takes another.
AddLora ==
    /\ pass.phase = "idle"
    /\ \E lora \in Loras :
        /\ lora \cap (dit.adapters \cup dit.nvfp4) = {}
        /\ dit' = [dit EXCEPT !.adapters = @ \cup lora]
    /\ text' = None
    /\ UNCHANGED <<work, pass, calls, answer>>

UseNvfp4 ==
    /\ pass.phase = "idle"
    /\ LET parts == {"qkv", "out", "fc1", "fc2"}
           main == UNION {MainLayers(part) : part \in parts} \cap dit.kind.int8
           gates == {Layer(Main(l), "gate") :
                        l \in {n \in 1..Blocks : Layer(Main(n), "qkv") \in main}}
       IN
       /\ gates \cap dit.adapters = {}
       /\ dit' = [dit EXCEPT !.nvfp4 = main \cup (gates \cap dit.kind.int8)]
       /\ dit' # dit
    /\ UNCHANGED <<work, text, pass, calls, answer>>

Next ==
    \/ Begin \/ EnterRefiner \/ KeepText \/ Embed \/ ModulateBlock
    \/ FusedProjection \/ PlainProjection \/ VsaGate \/ Attend
    \/ FusedExpansion \/ PlainExpansion \/ Contraction
    \/ LeaveRefiner \/ LeaveBlock \/ Finish
    \/ OutOfMemory \/ AddLora \/ UseNvfp4

Spec == Init /\ [][Next]_vars
=============================================================================
