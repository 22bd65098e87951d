------------------------------- MODULE MCDit -------------------------------
(***************************************************************************)
(* The DiT of both backends against the reference, on small checkpoints.   *)
(* A behaviour is of one backend; the other's variables are off.           *)
(***************************************************************************)
EXTENDS DitCuda, DitMetal

MCBlocks == 3

MCRefiners == 1

Parts(parts) == {Layer(Main(l), part) : l \in 1..MCBlocks, part \in parts}

AllParts == Parts({"qkv", "gate", "out", "fc1", "fc2"})

\* What a checkpoint holds in INT8: every layer of its blocks, none, all but the products one
\* block's fused pass would feed, and all but the second products of the MLPs.
Int8Choices ==
    {AllParts, {}, AllParts \ {Layer(Main(2), "qkv"), Layer(Main(2), "gate")},
     AllParts \ {Layer(Main(2), "fc1")}, AllParts \ Parts({"fc2"})}

MCCudaKinds == [int8: Int8Choices, gates: {TRUE}] \cup [int8: {AllParts}, gates: {FALSE}]

MCMetalKinds ==
    [int8: Int8Choices, gates: {TRUE}, packs: {TRUE}, rotated: BOOLEAN]
        \cup [int8: {AllParts}, gates: BOOLEAN, packs: {FALSE}, rotated: {FALSE}]

\* LoRAs of the blocks, and of the refiner.  None of them is of VSA's gates.
MCLoras == {Parts({"qkv", "out", "fc1", "fc2"}), {Layer(Refiner(1), "fc1")}}

\* On Metal, of the gates too.
MCMetalLoras == {Parts({"qkv", "gate", "out"}), Parts({"fc1", "fc2"}), {Layer(Refiner(1), "fc1")}}

\* The blocks' gates.
MCGateLoras == {Parts({"gate"})}

CudaOff ==
    /\ dit = None /\ work = None /\ text = None /\ pass = [phase |-> "off", call |-> None]
    /\ calls = 0 /\ answer = None

MetalOff ==
    weights = None /\ forward = [phase |-> "off"] /\ forwards = 0 /\ output = None

MCInit == (Init /\ MetalOff) \/ (MetalInit /\ CudaOff)

MCNext ==
    \/ Begin /\ UNCHANGED metalVars
    \/ EnterRefiner /\ UNCHANGED metalVars
    \/ KeepText /\ UNCHANGED metalVars
    \/ Embed /\ UNCHANGED metalVars
    \/ ModulateBlock /\ UNCHANGED metalVars
    \/ FusedProjection /\ UNCHANGED metalVars
    \/ PlainProjection /\ UNCHANGED metalVars
    \/ VsaGate /\ UNCHANGED metalVars
    \/ Attend /\ UNCHANGED metalVars
    \/ FusedExpansion /\ UNCHANGED metalVars
    \/ PlainExpansion /\ UNCHANGED metalVars
    \/ Contraction /\ UNCHANGED metalVars
    \/ LeaveRefiner /\ UNCHANGED metalVars
    \/ LeaveBlock /\ UNCHANGED metalVars
    \/ Finish /\ UNCHANGED metalVars
    \/ OutOfMemory /\ UNCHANGED metalVars
    \/ AddLora /\ UNCHANGED metalVars
    \/ UseNvfp4 /\ UNCHANGED metalVars
    \/ MetalBegin /\ UNCHANGED vars
    \/ PackedAttention /\ UNCHANGED vars
    \/ PackedMlp /\ UNCHANGED vars
    \/ PlainAttention /\ UNCHANGED vars
    \/ PlainMlp /\ UNCHANGED vars
    \/ Assemble /\ UNCHANGED vars
    \/ LeaveMain /\ UNCHANGED vars
    \/ MetalFinish /\ UNCHANGED vars
    \/ MetalAddLora /\ UNCHANGED vars

MCSpec == MCInit /\ [][MCNext]_<<vars, metalVars>>

\* Whatever was computed in the same buffers before, whichever layers are quantized, converted or
\* carry a LoRA, a call on either backend answers with what the reference computes.
DitAgrees ==
    /\ answer # None => Agrees(answer)
    /\ output # None => Agrees(output)
=============================================================================
