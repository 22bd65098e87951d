------------------------------- MODULE Audio -------------------------------
(***************************************************************************)
(* The two halves of the audio VAE, on CUDA and on Metal                   *)
(* (src/crates/mmh3-cuda/src/audio_vae.rs and audio_encoder.rs,            *)
(* src/crates/mmh3-metal/src/audio_vae.rs and audio_encoder.rs).           *)
(*                                                                         *)
(* The vocoder raises a latent's rate by seven stages, each the mean of    *)
(* three blocks of residual units.  The encoder lowers a stereo channel's  *)
(* by five, and a head of an attention and a GeGLU gives the latent.       *)
(*                                                                         *)
(* CUDA computes in a workspace of a few signals that every stage and both *)
(* stereo channels go through, some of them under two roles; Metal writes  *)
(* arrays of their own.                                                    *)
(***************************************************************************)
EXTENDS Terms

CONSTANTS
    Backends,
    FrameCounts,   \* latent frames of a sound
    None

VARIABLES
    audio,         \* [backend]
    coding,        \* the decode or encode under way
    coded          \* what the last one answered with, or None

vars == <<audio, coding, coded>>

\* Rate and kernel of the vocoder's stages, and the dilations of a block's units.
Upsample == <<<<5, 9>>, <<5, 9>>, <<2, 4>>, <<2, 4>>, <<2, 4>>, <<2, 4>>, <<2, 4>>>>

ResBlocks == 3

ResBlockDilations == <<1, 3, 5>>

\* Strides of the encoder's blocks, and the dilations of their units.
Strides == <<2, 4, 4, 5, 5>>

Dilations == <<1, 3, 9>>

SamplesPerLatent == 800

StereoChannels == 2

Conv(layer, dilation, x) == <<"conv", layer, dilation, x>>

Snake(layer, x) == <<"snake", layer, x>>

Sum(x, y) == <<"sum", x, y>>

Over(x, divisor) == IF divisor = 1 THEN x ELSE <<"over", x, divisor>>

(***************************************************************************)
(* What both are to compute.  Sums that a unit or a stage leaves take      *)
(* their place's name.                                                     *)
(***************************************************************************)
\* A residual unit: two activations, a dilated convolution and a plain one.
Inner(unit, dilation, x) == Conv(<<unit, "dilated">>, dilation, Snake(<<unit, 1>>, x))

Outer(unit, inner) == Conv(<<unit, "plain">>, 1, Snake(<<unit, 2>>, inner))

UnitTerm(unit, dilation, x) == Sum(x, Outer(unit, Inner(unit, dilation, x)))

After(place) == <<"after", place>>

\* The vocoder.
Raised(stage) ==
    <<"upsample", stage,
      IF stage = 1 THEN Conv("conv_pre", 1, Conv("dec_in_proj", 1, "latent"))
      ELSE After(<<"stage", stage - 1>>)>>

IntoUnit(stage, block, unit) ==
    IF unit = 1 THEN Raised(stage) ELSE After(<<stage, block, unit - 1>>)

Mean(stage) ==
    LET block(b) == After(<<stage, b, Len(ResBlockDilations)>>)
    IN Over(Sum(Sum(block(1), block(2)), block(3)), ResBlocks)

Waveform ==
    <<"clamp", Conv("conv_post", 1, Snake("activation_post", After(<<"stage", Len(Upsample)>>)))>>

\* The encoder of a stereo channel.
IntoEncoderUnit(channel, block, unit) ==
    IF unit > 1 THEN After(<<channel, block, unit - 1>>)
    ELSE IF block = 1 THEN Conv("encoder.block.0", 1, <<"samples", channel>>)
    ELSE After(<<"downsample", channel, block - 1>>)

Downsampled(channel, block) ==
    Conv(<<"downsample", block>>, 1,
         Snake(<<"downsample", block>>, After(<<channel, block, Len(Dilations)>>)))

Features(channel) ==
    Conv("encoder.block.7", 1,
         Snake("encoder.block.6", After(<<"downsample", channel, Len(Strides)>>)))

Attention(qkv) == <<"pool heads", "causal attention", qkv>>

GeGlu(gate, value) == <<"geglu", gate, value>>

Posterior(channel) ==
    LET features == Features(channel)
        attended == Linear("attn.proj", Attention(Linear("attn.qkv", Norm("norm1", features))))
        x == Sum(Linear("proj", Norm("norm3", features)), attended)
        mlp == Norm("mlp.norm", Norm("norm2", x))
    IN Conv("mean_proj", 1,
            Sum(x, Linear("mlp.w2", GeGlu(Linear("mlp.w0", mlp), Linear("mlp.w1", mlp)))))

Agrees(answer) ==
    IF answer.kind = "decode"
    THEN /\ answer.length = answer.frames * SamplesPerLatent
         /\ answer.waveform = Waveform
    ELSE answer.latents = [channel \in 1..StereoChannels |-> Posterior(channel)]

(***************************************************************************)
(* Both backends.                                                          *)
(***************************************************************************)
Init ==
    /\ \E backend \in Backends : audio = [backend |-> backend]
    /\ coding = None
    /\ coded = None

Signals == [signal |-> Stale, sum |-> Stale, running |-> Stale, first |-> Stale, second |-> Stale,
            columns |-> Stale]

HeadBuffers == [normalized |-> Stale, qkv |-> Stale, query |-> Stale, key |-> Stale,
                latent |-> Stale, first |-> Stale, second |-> Stale]

Settled(x, term, place) == IF x = term THEN After(place) ELSE x

\* A decode goes through the input's two convolutions.
BeginDecode ==
    /\ coding = None /\ coded = None
    /\ \E frames \in FrameCounts :
        coding' = [kind |-> "decode", frames |-> frames, length |-> frames,
                   work |-> [Signals EXCEPT
                               !.first = Conv("dec_in_proj", 1, "latent"),
                               !.signal = Conv("conv_pre", 1, Conv("dec_in_proj", 1, "latent"))],
                   stage |-> 1, block |-> 1, unit |-> 0]
    /\ UNCHANGED <<audio, coded>>

Channel(channel, frames, work, head, latents) ==
    [kind |-> "encode", frames |-> frames, length |-> frames * SamplesPerLatent,
     work |-> [work EXCEPT !.signal = Conv("encoder.block.0", 1, <<"samples", channel>>)],
     head |-> head, latents |-> latents, channel |-> channel, block |-> 1, unit |-> 1,
     phase |-> "units"]

BeginEncode ==
    /\ coding = None /\ coded = None
    /\ \E frames \in FrameCounts : coding' = Channel(1, frames, Signals, HeadBuffers, <<>>)
    /\ UNCHANGED <<audio, coded>>

Runs(backend, kind) == coding # None /\ audio.backend = backend /\ coding.kind = kind

(***************************************************************************)
(* The vocoder on CUDA: a stage's input in `signal`, its blocks summed in  *)
(* `sum`, the second and third by way of `running`.                        *)
(***************************************************************************)
\* Raising the rate trims the padding from both ends.
RaisedLength(length, stage) ==
    LET rate == Upsample[stage][1]
        kernel == Upsample[stage][2]
    IN (length - 1) * rate + kernel - 2 * ((kernel - rate) \div 2)

\* The raised signal goes to `sum`, which becomes the signal.
CudaUpsample ==
    /\ Runs("cuda", "decode") /\ coding.unit = 0 /\ coding.stage <= Len(Upsample)
    /\ LET raised == <<"upsample", coding.stage, coding.work.signal>>
       IN coding' = [coding EXCEPT !.work.signal = raised, !.work.sum = coding.work.signal,
                                   !.length = RaisedLength(@, coding.stage), !.unit = 1]
    /\ UNCHANGED <<audio, coded>>

Place == <<coding.stage, coding.block, coding.unit>>

UnitAfter(source) ==
    LET inner == Inner(Place, ResBlockDilations[coding.unit], source)
        sum == Sum(source, Outer(Place, inner))
        into == IntoUnit(coding.stage, coding.block, coding.unit)
    IN Settled(sum, UnitTerm(Place, ResBlockDilations[coding.unit], into), Place)

CudaUnit ==
    /\ Runs("cuda", "decode") /\ coding.unit \in 1..Len(ResBlockDilations)
    /\ LET running == IF coding.block = 1 THEN "sum" ELSE "running"
           source == coding.work[IF coding.unit = 1 THEN "signal" ELSE running]
           inner == Inner(Place, ResBlockDilations[coding.unit], source)
       IN coding' = [coding EXCEPT !.work.first = Snake(<<Place, 2>>, inner),
                                   !.work.second = Outer(Place, inner),
                                   !.work[running] = UnitAfter(source),
                                   !.unit = @ + 1]
    /\ UNCHANGED <<audio, coded>>

\* A block is added to those before it, and after the last the signal and the sum change places.
CudaBlock ==
    /\ Runs("cuda", "decode") /\ coding.unit = Len(ResBlockDilations) + 1
    /\ LET last == coding.block = ResBlocks
           sum == IF coding.block = 1 THEN coding.work.sum
                  ELSE Over(Sum(coding.work.sum, coding.work.running),
                            IF last THEN ResBlocks ELSE 1)
           settled == Settled(sum, Mean(coding.stage), <<"stage", coding.stage>>)
       IN coding' = [coding EXCEPT
                       !.work.sum = IF last THEN coding.work.signal ELSE sum,
                       !.work.signal = IF last THEN settled ELSE @,
                       !.block = IF last THEN 1 ELSE @ + 1,
                       !.stage = IF last THEN @ + 1 ELSE @,
                       !.unit = IF last THEN 0 ELSE 1]
    /\ UNCHANGED <<audio, coded>>

CudaWaveform ==
    /\ Runs("cuda", "decode") /\ coding.stage > Len(Upsample)
    /\ coded' = [kind |-> "decode", frames |-> coding.frames, length |-> coding.length,
                 waveform |-> <<"clamp", Conv("conv_post", 1,
                                              Snake("activation_post", coding.work.signal))>>]
    /\ coding' = None
    /\ UNCHANGED audio

(***************************************************************************)
(* The vocoder on Metal: the blocks of a stage are branches of their own.  *)
(***************************************************************************)
MetalUpsample ==
    /\ Runs("metal", "decode") /\ coding.unit = 0 /\ coding.stage <= Len(Upsample)
    /\ LET raised == <<"upsample", coding.stage, coding.work.signal>>
       IN coding' = [coding EXCEPT !.work.signal = raised, !.work.running = raised, !.unit = 1,
                                   !.work.sum = <<>>, !.length = @ * Upsample[coding.stage][1]]
    /\ UNCHANGED <<audio, coded>>

\* A unit of a branch.  After the last branch comes the mean of the three.
MetalUnit ==
    /\ Runs("metal", "decode") /\ coding.unit > 0
    /\ LET running == UnitAfter(coding.work.running)
           done == coding.unit = Len(ResBlockDilations)
           branches == Append(coding.work.sum, running)
           last == done /\ coding.block = ResBlocks
           mean == Over(Sum(Sum(branches[1], branches[2]), branches[3]), ResBlocks)
       IN coding' = [coding EXCEPT
                       !.work.running = IF done THEN coding.work.signal ELSE running,
                       !.work.sum = IF done THEN branches ELSE @,
                       !.work.signal = IF last THEN Settled(mean, Mean(coding.stage),
                                                            <<"stage", coding.stage>>) ELSE @,
                       !.unit = IF last THEN 0 ELSE IF done THEN 1 ELSE @ + 1,
                       !.block = IF last THEN 1 ELSE IF done THEN @ + 1 ELSE @,
                       !.stage = IF last THEN @ + 1 ELSE @]
    /\ UNCHANGED <<audio, coded>>

MetalWaveform ==
    /\ Runs("metal", "decode") /\ coding.stage > Len(Upsample)
    /\ coded' = [kind |-> "decode", frames |-> coding.frames, length |-> coding.length,
                 waveform |-> <<"clamp", Conv("conv_post", 1,
                                              Snake("activation_post", coding.work.signal))>>]
    /\ coding' = None
    /\ UNCHANGED audio

(***************************************************************************)
(* The encoder.  Both backends give the units and the downsamples the same *)
(* order; CUDA adds a unit onto the signal in place.                       *)
(***************************************************************************)
EncodePlace == <<coding.channel, coding.block, coding.unit>>

Encodes(backend, phase) == Runs(backend, "encode") /\ coding.phase = phase

EncodeUnit ==
    LET source == coding.work.signal
        place == EncodePlace
        dilation == Dilations[coding.unit]
        inner == Inner(place, dilation, source)
        into == IntoEncoderUnit(coding.channel, coding.block, coding.unit)
    IN [inner |-> inner,
        sum |-> Settled(Sum(source, Outer(place, inner)), UnitTerm(place, dilation, into), place)]

NextUnit == IF coding.unit = Len(Dilations) THEN "downsample" ELSE "units"

CudaEncodeUnit ==
    /\ Encodes("cuda", "units")
    /\ LET unit == EncodeUnit
       IN coding' = [coding EXCEPT !.work.first = Snake(<<EncodePlace, 2>>, unit.inner),
                                   !.work.second = Outer(EncodePlace, unit.inner),
                                   !.work.signal = unit.sum,
                                   !.unit = @ + 1, !.phase = NextUnit]
    /\ UNCHANGED <<audio, coded>>

MetalEncodeUnit ==
    /\ Encodes("metal", "units")
    /\ coding' = [coding EXCEPT !.work.signal = EncodeUnit.sum, !.unit = @ + 1, !.phase = NextUnit]
    /\ UNCHANGED <<audio, coded>>

\* Samples a convolution of kernel 2 * stride gives, half a stride of padding on both sides.
LoweredLength(length, stride) ==
    ((length + 2 * ((stride + 1) \div 2) - 2 * stride) \div stride) + 1

Downsample(x) ==
    LET signal == Conv(<<"downsample", coding.block>>, 1, x)
        place == <<"downsample", coding.channel, coding.block>>
        last == coding.block = Len(Strides)
    IN [coding EXCEPT !.work.signal =
                          Settled(signal, Downsampled(coding.channel, coding.block), place),
                      !.length = LoweredLength(@, Strides[coding.block]),
                      !.block = @ + 1, !.unit = 1,
                      !.phase = IF last THEN "features" ELSE "units"]

CudaDownsample ==
    /\ Encodes("cuda", "downsample")
    /\ LET x == Snake(<<"downsample", coding.block>>, coding.work.signal)
       IN coding' = [Downsample(x) EXCEPT !.work.first = x]
    /\ UNCHANGED <<audio, coded>>

MetalDownsample ==
    /\ Encodes("metal", "downsample")
    /\ coding' = Downsample(Snake(<<"downsample", coding.block>>, coding.work.signal))
    /\ UNCHANGED <<audio, coded>>

CudaFeatures ==
    /\ Encodes("cuda", "features") /\ coding.length = coding.frames
    /\ LET x == Snake("encoder.block.6", coding.work.signal)
       IN coding' = [coding EXCEPT !.work.first = x,
                                   !.work.signal = Conv("encoder.block.7", 1, x),
                                   !.phase = "attention"]
    /\ UNCHANGED <<audio, coded>>

\* The attention goes by `first` and its projection to `second`.
CudaHeadAttention ==
    /\ Encodes("cuda", "attention")
    /\ LET normalized == Norm("norm1", coding.work.signal)
           qkv == Linear("attn.qkv", normalized)
           pooled == Attention(qkv)
       IN coding' = [coding EXCEPT !.head.normalized = normalized, !.head.qkv = qkv,
                                   !.head.query = qkv, !.head.key = qkv,
                                   !.head.first = pooled,
                                   !.head.second = Linear("attn.proj", pooled),
                                   !.phase = "projection"]
    /\ UNCHANGED <<audio, coded>>

CudaHeadProjection ==
    /\ Encodes("cuda", "projection")
    /\ LET normalized == Norm("norm3", coding.work.signal)
       IN coding' = [coding EXCEPT !.head.normalized = normalized,
                                   !.head.first = Sum(Linear("proj", normalized),
                                                      coding.head.second),
                                   !.phase = "mlp"]
    /\ UNCHANGED <<audio, coded>>

\* The GeGLU goes through the buffers of the attention.
CudaHeadMlp ==
    /\ Encodes("cuda", "mlp")
    /\ LET normed == Norm("mlp.norm", Norm("norm2", coding.head.first))
           gate == Linear("mlp.w0", normed)
           value == Linear("mlp.w1", normed)
       IN coding' = [coding EXCEPT !.head.second = Norm("norm2", coding.head.first),
                                   !.head.latent = normed, !.head.qkv = gate,
                                   !.head.query = value, !.head.key = GeGlu(gate, value),
                                   !.phase = "output"]
    /\ UNCHANGED <<audio, coded>>

\* The latents of a channel, and the next channel in the same workspace or the answer.
Answered(work, head, latent) ==
    LET latents == Append(coding.latents, latent)
    IN IF coding.channel < StereoChannels
       THEN /\ coding' = Channel(coding.channel + 1, coding.frames, work, head, latents)
            /\ UNCHANGED <<audio, coded>>
       ELSE /\ coded' = [kind |-> "encode", frames |-> coding.frames, latents |-> latents]
            /\ coding' = None
            /\ UNCHANGED audio

CudaHeadOutput ==
    /\ Encodes("cuda", "output")
    /\ LET second == Sum(coding.head.first, Linear("mlp.w2", coding.head.key))
           latent == Conv("mean_proj", 1, second)
       IN Answered(coding.work, [coding.head EXCEPT !.second = second, !.latent = latent], latent)

MetalHead ==
    /\ Encodes("metal", "features") /\ coding.length = coding.frames
    /\ LET features == Conv("encoder.block.7", 1, Snake("encoder.block.6", coding.work.signal))
           attended == Linear("attn.proj",
                              Attention(Linear("attn.qkv", Norm("norm1", features))))
           x == Sum(Linear("proj", Norm("norm3", features)), attended)
           mlp == Norm("mlp.norm", Norm("norm2", x))
           gated == GeGlu(Linear("mlp.w0", mlp), Linear("mlp.w1", mlp))
       IN Answered(coding.work, coding.head,
                   Conv("mean_proj", 1, Sum(x, Linear("mlp.w2", gated))))

\* A device out of memory, or a signal that came out longer or shorter than its frames.
Fail ==
    /\ coding # None
    /\ coding' = None
    /\ UNCHANGED <<audio, coded>>
=============================================================================
