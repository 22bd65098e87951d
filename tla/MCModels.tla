------------------------------ MODULE MCModels ------------------------------
(***************************************************************************)
(* The models of a generation against what they are to compute, each on    *)
(* both backends and on small networks: the DiT, the video VAE's decoder   *)
(* and encoder, the latent upscaler, the audio VAE, and the prompt's       *)
(* encoders.  And a run of the leader, which computes none of them: each   *)
(* velocity it takes is a term; and the rows of a block the ranks share.   *)
(* They have no state in common, so a behaviour is of one of them and the  *)
(* others are off.                                                         *)
(***************************************************************************)
EXTENDS MCDit

CONSTANT Off

VARIABLES
    decoder, decode, video,                \* the video VAE's decoder
    encoder, encode, posterior,            \* its encoder
    network, upscale, upscaled,            \* the latent upscaler
    audio, coding, coded,                  \* the audio VAE
    reader, encoding, conditioning,        \* the prompt's encoders
    plan, cluster, leader, sampled,        \* a run
    cut, regions, stage, onward            \* the rows of a shared-out block

MCBackends == {"cuda", "metal"}

VaeLayers == {<<l, product>> : l \in 1..2, product \in {"to_qkv", "to_out", "w1", "w2"}}

\* A picture of two tiles by two, a short last chunk, a whole clip of one tile, and two clips.
VD == INSTANCE VideoDecoder WITH
    Backends <- MCBackends, Layers <- 2,
    Int8Choices <- {VaeLayers, {}, {<<1, "to_qkv">>, <<2, "w1">>, <<1, "w2">>}},
    Latents <- {[frames |-> 1, height |-> 3, width |-> 5],
                [frames |-> 7, height |-> 4, width |-> 6],
                [frames |-> 8, height |-> 2, width |-> 4],
                [frames |-> 13, height |-> 2, width |-> 2]},
    TileSize <- 3, OverlapMin <- 1

\* A picture of tiles, the shortest clip, and one of two groups of frames.
VE == INSTANCE VideoEncoder WITH
    Backends <- MCBackends,
    EncoderKinds <- {[shortcuts |-> {2}, fused |-> 1..5], [shortcuts |-> {}, fused |-> {1, 2}]},
    Inputs <- {[temporal |-> "frame", frames |-> 1, height |-> 4, width |-> 5],
               [temporal |-> "clip", frames |-> 5, height |-> 3, width |-> 5],
               [temporal |-> "clip", frames |-> 22, height |-> 2, width |-> 4]},
    TileSize <- 3, OverlapMin <- 1, BatchArea <- 90

UP == INSTANCE Upscaler WITH
    Backends <- MCBackends,
    Networks <- {[in |-> <<"residual", "temporal">>, out |-> <<"temporal", "residual">>],
                 [in |-> <<"residual", "residual">>, out |-> <<"residual">>]}

AU == INSTANCE Audio WITH Backends <- MCBackends, FrameCounts <- {1, 3}

MCGrid(rows, columns) == [rows |-> rows, columns |-> columns]

\* Text alone, two pictures of either shape with a sound, and a picture with two clips, of which
\* one comes with its soundtrack and the other shows a lone frame.
MCPrompts ==
    {[pictures |-> <<>>, clips |-> <<>>, sounds |-> 0],
     [pictures |-> <<MCGrid(1, 2), MCGrid(2, 1)>>, clips |-> <<>>, sounds |-> 1],
     [pictures |-> <<MCGrid(1, 1)>>,
      clips |-> <<[rows |-> 1, columns |-> 1, frames |-> 39, sound |-> TRUE],
                  [rows |-> 1, columns |-> 2, frames |-> 5, sound |-> FALSE]>>,
      sounds |-> 1]}

PR == INSTANCE Prompt WITH
    encoder <- reader, Backends <- MCBackends, Prompts <- MCPrompts, VisionLayers <- 4,
    DeepstackBlocks <- <<2, 3>>, TextLayers <- 3, Captures <- {{}, {1, 3}}, MaxRooms <- 1

\* The options of runs, and the machines they borrow.
AllUnits == {"steps", "prompt", "video", "audio"}

Machine(address, units) == [address |-> address, units |-> units]

\* A short run on one card of this machine.
OneCard ==
    [machines |-> <<>>, cards |-> 1, devices |-> FALSE, keeps |-> FALSE, prompt |-> "prompt",
     keyframes |-> <<>>, pictures |-> 0, clips |-> <<>>, sounds |-> 0, draft |-> 0, steps |-> 2,
     renoise |-> FALSE, attention |-> "default", gated |-> FALSE, start |-> 2, tokens |-> 2,
     patch |-> FALSE, lora |-> FALSE, mode |-> "adapter", precision |-> 0]

A == Machine("a", AllUnits)

B == Machine("b", AllUnits)

Local == Machine("here", AllUnits)

\* A clip without a soundtrack before one that has one.
Clips == <<[frames |-> 5, sound |-> FALSE], [frames |-> 22, sound |-> TRUE]>>

GoodPlans ==
    {[OneCard EXCEPT !.draft = 1, !.steps = 3, !.renoise = TRUE, !.attention = "sol",
                     !.patch = TRUE],
     [OneCard EXCEPT !.cards = 2, !.keyframes = <<0, 4>>, !.gated = TRUE, !.lora = TRUE,
                     !.mode = "merge"],
     [OneCard EXCEPT !.keeps = TRUE, !.pictures = 1, !.sounds = 1, !.attention = "sol"],
     [OneCard EXCEPT !.machines = <<A, B>>, !.draft = 1, !.steps = 3, !.renoise = TRUE,
                     !.patch = TRUE, !.lora = TRUE],
     [OneCard EXCEPT !.machines = <<Local, A, B>>, !.pictures = 1, !.clips = Clips, !.sounds = 1,
                     !.attention = "vsa"],
     [OneCard EXCEPT !.machines = <<A>>, !.clips = Clips, !.gated = TRUE, !.renoise = TRUE,
                     !.precision = 1],
     [OneCard EXCEPT !.machines = <<B>>, !.patch = TRUE, !.lora = TRUE, !.mode = "merge"],
     [OneCard EXCEPT !.machines = <<B, A>>, !.attention = "veda"],
     [OneCard EXCEPT !.machines = <<B, Machine("a", {"prompt"})>>, !.cards = 0, !.draft = 2,
                     !.steps = 3, !.attention = "sol"],
     [OneCard EXCEPT !.machines = <<A>>, !.prompt = "context", !.precision = 1],
     [OneCard EXCEPT !.machines = <<A>>, !.cards = 0, !.prompt = "context"],
     [OneCard EXCEPT !.prompt = "context", !.keyframes = <<0>>]}

\* Options no run takes.
BadPlans ==
    {[OneCard EXCEPT !.draft = 2],
     [OneCard EXCEPT !.draft = 1, !.keyframes = <<0>>],
     [OneCard EXCEPT !.pictures = 1, !.keyframes = <<0>>],
     [OneCard EXCEPT !.machines = <<Local, Local>>],
     [OneCard EXCEPT !.machines = <<A>>, !.devices = TRUE],
     [OneCard EXCEPT !.cards = 0]}

MCPlans == GoodPlans \cup BadPlans

Vaes == <<[role |-> "video vae", digest |-> 1], [role |-> "audio vae", digest |-> 2]>>

Everything == Append(Vaes, [role |-> "text encoder", digest |-> 3])

CardSlot(card, process, holds, speed, attention) ==
    [card |-> card, process |-> process, protocol |-> 5, token |-> "token", backend |-> "cuda",
     serves |-> AllUnits, holds |-> holds, speed |-> speed, attention |-> attention,
     rdma |-> <<"path 1">>]

Mac == [CardSlot(1, "mac", Everything, 2, 1) EXCEPT !.backend = "metal", !.rdma = <<>>]

NoSteps == [CardSlot(1, "idle", Vaes, 0, 0) EXCEPT !.serves = {"prompt", "video", "audio"}]

Older == [CardSlot(1, "older", Everything, 1, 1) EXCEPT !.protocol = 0]

Stranger == [CardSlot(1, "stranger", Everything, 1, 1) EXCEPT !.token = "other"]

Lone == <<CardSlot(1, "process", <<>>, 2, 3)>>

\* Two cards of one process and a Mac, one that measured itself and one that did not, one that
\* takes no steps beside two cards so far apart that, with this machine's, the least shares of
\* the slow overdraw the heads, and none that will talk to this leader.
Borrowed ==
    {[a |-> <<CardSlot(1, "pair", Everything, 3, 0), CardSlot(2, "pair", Everything, 1, 2)>>,
      b |-> <<Mac>>],
     [a |-> <<CardSlot(1, "first", Vaes, 0, 0)>>, b |-> <<CardSlot(1, "second", Vaes, 0, 0)>>],
     [a |-> <<CardSlot(1, "first", Vaes, 0, 0)>>,
      b |-> <<CardSlot(1, "second", Everything, 1, 1)>>],
     [a |-> <<CardSlot(1, "first", Vaes, 30, 30), CardSlot(2, "first", Vaes, 1, 1)>>,
      b |-> <<NoSteps>>],
     [a |-> <<Older>>, b |-> <<Stranger>>]}

MCClusters ==
    {[address \in {"here", "a", "b"} |-> IF address = "here" THEN lent ELSE borrowed[address]] :
        borrowed \in Borrowed,
        lent \in {<<>>, Lone, Lone \o <<CardSlot(2, "process", <<>>, 1, 1)>>}}

\* Machines that do not answer, stop reading ahead or refuse a session cost those machines alone;
\* a run ends where something computed fails as well.
Refusals == {"connect", "prepare", "name", "open"}

MCFailures == {Refusals, {"connect", "open", "encode", "load", "step", "decode"}}

GE == INSTANCE Generation WITH
    Plans <- MCPlans, Clusters <- MCClusters, Units <- AllUnits, LocalAddress <- "here",
    Failures <- MCFailures, Heads <- 7, MinTokens <- 12

\* Shares that end there, one after another.
Ending(ends) ==
    [i \in DOMAIN ends |-> [start |-> IF i = 1 THEN 0 ELSE ends[i - 1], end |-> ends[i]]]

Cut(tokens, heads, process, metal, readsHost, vsa) ==
    [tokens |-> Ending(tokens), heads |-> Ending(heads), process |-> process,
     metal |-> metal, readsHost |-> readsHost, vsa |-> vsa]

\* Ranks of one process, of two and of as many as there are, on CUDA and on Metal, with uneven
\* shares, of which one carries no row.
MCSteps ==
    {Cut(<<1, 4, 5>>, <<1, 2, 4>>, <<1, 1, 1>>, {}, {}, TRUE),
     Cut(<<1, 4, 5>>, <<1, 2, 4>>, <<1, 1, 2>>, {3}, {1}, FALSE),
     Cut(<<2, 2, 5>>, <<1, 3, 4>>, <<1, 2, 1>>, {}, {2, 3}, TRUE),
     Cut(<<2, 5>>, <<1, 4>>, <<1, 2>>, {1, 2}, {}, FALSE),
     Cut(<<4, 5>>, <<3, 4>>, <<1, 2>>, {1}, {2}, FALSE)}

SR == INSTANCE SharedRows WITH
    Steps <- MCSteps, Hidden <- 2, HeadDim <- 2,
    shared <- cut, memory <- regions, at <- stage, carried <- onward

ASSUME MCRowsAssumption == SR!SharedRowsAssumption

DecoderVars == <<decoder, decode, video>>

EncoderVars == <<encoder, encode, posterior>>

UpscalerVars == <<network, upscale, upscaled>>

AudioVars == <<audio, coding, coded>>

PromptVars == <<reader, encoding, conditioning>>

RunVars == <<plan, cluster, leader, sampled>>

RowsVars == <<cut, regions, stage, onward>>

DitOff == CudaOff /\ MetalOff

DecoderOff == decoder = None /\ decode = None /\ video = Off

EncoderOff == encoder = None /\ encode = None /\ posterior = Off

UpscalerOff == network = None /\ upscale = None /\ upscaled = Off

AudioOff == audio = None /\ coding = None /\ coded = Off

PromptOff == reader = None /\ encoding = None /\ conditioning = Off

RunOff == plan = None /\ cluster = None /\ leader = None /\ sampled = Off

RowsOff == cut = None /\ regions = None /\ stage = None /\ onward = Off

ModelsInit ==
    \/ MCInit /\ DecoderOff /\ EncoderOff /\ UpscalerOff /\ AudioOff
       /\ PromptOff /\ RunOff /\ RowsOff
    \/ VD!Init /\ DitOff /\ EncoderOff /\ UpscalerOff /\ AudioOff
       /\ PromptOff /\ RunOff /\ RowsOff
    \/ VE!Init /\ DitOff /\ DecoderOff /\ UpscalerOff /\ AudioOff
       /\ PromptOff /\ RunOff /\ RowsOff
    \/ UP!Init /\ DitOff /\ DecoderOff /\ EncoderOff /\ AudioOff
       /\ PromptOff /\ RunOff /\ RowsOff
    \/ AU!Init /\ DitOff /\ DecoderOff /\ EncoderOff /\ UpscalerOff
       /\ PromptOff /\ RunOff /\ RowsOff
    \/ PR!Init /\ DitOff /\ DecoderOff /\ EncoderOff /\ UpscalerOff
       /\ AudioOff /\ RunOff /\ RowsOff
    \/ GE!Init /\ DitOff /\ DecoderOff /\ EncoderOff /\ UpscalerOff
       /\ AudioOff /\ PromptOff /\ RowsOff
    \/ SR!Init /\ DitOff /\ DecoderOff /\ EncoderOff /\ UpscalerOff
       /\ AudioOff /\ PromptOff /\ RunOff

OnlyDit ==
    UNCHANGED <<DecoderVars, EncoderVars, UpscalerVars, AudioVars, PromptVars, RunVars, RowsVars>>

OnlyDecoder ==
    UNCHANGED <<vars, metalVars, EncoderVars, UpscalerVars, AudioVars, PromptVars,
                RunVars, RowsVars>>

OnlyEncoder ==
    UNCHANGED <<vars, metalVars, DecoderVars, UpscalerVars, AudioVars, PromptVars,
                RunVars, RowsVars>>

OnlyUpscaler ==
    UNCHANGED <<vars, metalVars, DecoderVars, EncoderVars, AudioVars, PromptVars,
                RunVars, RowsVars>>

OnlyAudio ==
    UNCHANGED <<vars, metalVars, DecoderVars, EncoderVars, UpscalerVars, PromptVars,
                RunVars, RowsVars>>

OnlyPrompt ==
    UNCHANGED <<vars, metalVars, DecoderVars, EncoderVars, UpscalerVars, AudioVars,
                RunVars, RowsVars>>

OnlyRun ==
    UNCHANGED <<vars, metalVars, DecoderVars, EncoderVars, UpscalerVars, AudioVars,
                PromptVars, RowsVars>>

OnlyRows ==
    UNCHANGED <<vars, metalVars, DecoderVars, EncoderVars, UpscalerVars, AudioVars,
                PromptVars, RunVars>>

ModelsNext ==
    \/ Begin /\ UNCHANGED metalVars /\ OnlyDit
    \/ EnterRefiner /\ UNCHANGED metalVars /\ OnlyDit
    \/ KeepText /\ UNCHANGED metalVars /\ OnlyDit
    \/ Embed /\ UNCHANGED metalVars /\ OnlyDit
    \/ ModulateBlock /\ UNCHANGED metalVars /\ OnlyDit
    \/ FusedProjection /\ UNCHANGED metalVars /\ OnlyDit
    \/ PlainProjection /\ UNCHANGED metalVars /\ OnlyDit
    \/ VsaGate /\ UNCHANGED metalVars /\ OnlyDit
    \/ Attend /\ UNCHANGED metalVars /\ OnlyDit
    \/ FusedExpansion /\ UNCHANGED metalVars /\ OnlyDit
    \/ PlainExpansion /\ UNCHANGED metalVars /\ OnlyDit
    \/ Contraction /\ UNCHANGED metalVars /\ OnlyDit
    \/ LeaveRefiner /\ UNCHANGED metalVars /\ OnlyDit
    \/ LeaveBlock /\ UNCHANGED metalVars /\ OnlyDit
    \/ Finish /\ UNCHANGED metalVars /\ OnlyDit
    \/ OutOfMemory /\ UNCHANGED metalVars /\ OnlyDit
    \/ AddLora /\ UNCHANGED metalVars /\ OnlyDit
    \/ UseNvfp4 /\ UNCHANGED metalVars /\ OnlyDit
    \/ MetalBegin /\ UNCHANGED vars /\ OnlyDit
    \/ PackedAttention /\ UNCHANGED vars /\ OnlyDit
    \/ PackedMlp /\ UNCHANGED vars /\ OnlyDit
    \/ PlainAttention /\ UNCHANGED vars /\ OnlyDit
    \/ PlainMlp /\ UNCHANGED vars /\ OnlyDit
    \/ Assemble /\ UNCHANGED vars /\ OnlyDit
    \/ LeaveMain /\ UNCHANGED vars /\ OnlyDit
    \/ MetalFinish /\ UNCHANGED vars /\ OnlyDit
    \/ MetalAddLora /\ UNCHANGED vars /\ OnlyDit
    \/ video # Off /\ VD!Begin /\ OnlyDecoder
    \/ video # Off /\ VD!TakeCanvas /\ OnlyDecoder
    \/ video # Off /\ VD!DecodeHere /\ OnlyDecoder
    \/ video # Off /\ VD!Fail /\ OnlyDecoder
    \/ video # Off /\ VD!CudaEmbed /\ OnlyDecoder
    \/ video # Off /\ VD!CudaProject /\ OnlyDecoder
    \/ video # Off /\ VD!CudaAttend /\ OnlyDecoder
    \/ video # Off /\ VD!CudaExpand /\ OnlyDecoder
    \/ video # Off /\ VD!CudaContract /\ OnlyDecoder
    \/ video # Off /\ VD!CudaAnswer /\ OnlyDecoder
    \/ video # Off /\ VD!MetalEmbed /\ OnlyDecoder
    \/ video # Off /\ VD!MetalAttention /\ OnlyDecoder
    \/ video # Off /\ VD!MetalMlp /\ OnlyDecoder
    \/ video # Off /\ VD!MetalTile /\ OnlyDecoder
    \/ video # Off /\ VD!CudaWrite /\ OnlyDecoder
    \/ video # Off /\ VD!MetalWrite /\ OnlyDecoder
    \/ posterior # Off /\ VE!Begin /\ OnlyEncoder
    \/ posterior # Off /\ VE!Fail /\ OnlyEncoder
    \/ posterior # Off /\ VE!BlendClip /\ OnlyEncoder
    \/ posterior # Off /\ VE!CudaInput /\ OnlyEncoder
    \/ posterior # Off /\ VE!CudaFirst /\ OnlyEncoder
    \/ posterior # Off /\ VE!CudaResidual /\ OnlyEncoder
    \/ posterior # Off /\ VE!CudaSecond /\ OnlyEncoder
    \/ posterior # Off /\ VE!CudaDownsample /\ OnlyEncoder
    \/ posterior # Off /\ VE!CudaOutput /\ OnlyEncoder
    \/ posterior # Off /\ VE!MetalInput /\ OnlyEncoder
    \/ posterior # Off /\ VE!MetalFirst /\ OnlyEncoder
    \/ posterior # Off /\ VE!MetalSecond /\ OnlyEncoder
    \/ posterior # Off /\ VE!MetalDownsample /\ OnlyEncoder
    \/ posterior # Off /\ VE!MetalOutput /\ OnlyEncoder
    \/ upscaled # Off /\ UP!Begin /\ OnlyUpscaler
    \/ upscaled # Off /\ UP!Fail /\ OnlyUpscaler
    \/ upscaled # Off /\ UP!CudaResidualIn /\ OnlyUpscaler
    \/ upscaled # Off /\ UP!CudaResidualOut /\ OnlyUpscaler
    \/ upscaled # Off /\ UP!CudaTemporalIn /\ OnlyUpscaler
    \/ upscaled # Off /\ UP!CudaTemporalOut /\ OnlyUpscaler
    \/ upscaled # Off /\ UP!MetalResidual /\ OnlyUpscaler
    \/ upscaled # Off /\ UP!MetalTemporal /\ OnlyUpscaler
    \/ upscaled # Off /\ UP!Resize("cuda") /\ OnlyUpscaler
    \/ upscaled # Off /\ UP!Resize("metal") /\ OnlyUpscaler
    \/ upscaled # Off /\ UP!Finish("cuda") /\ OnlyUpscaler
    \/ upscaled # Off /\ UP!Finish("metal") /\ OnlyUpscaler
    \/ coded # Off /\ AU!BeginDecode /\ OnlyAudio
    \/ coded # Off /\ AU!BeginEncode /\ OnlyAudio
    \/ coded # Off /\ AU!CudaUpsample /\ OnlyAudio
    \/ coded # Off /\ AU!CudaUnit /\ OnlyAudio
    \/ coded # Off /\ AU!CudaBlock /\ OnlyAudio
    \/ coded # Off /\ AU!CudaWaveform /\ OnlyAudio
    \/ coded # Off /\ AU!MetalUpsample /\ OnlyAudio
    \/ coded # Off /\ AU!MetalUnit /\ OnlyAudio
    \/ coded # Off /\ AU!MetalWaveform /\ OnlyAudio
    \/ coded # Off /\ AU!CudaEncodeUnit /\ OnlyAudio
    \/ coded # Off /\ AU!MetalEncodeUnit /\ OnlyAudio
    \/ coded # Off /\ AU!CudaDownsample /\ OnlyAudio
    \/ coded # Off /\ AU!MetalDownsample /\ OnlyAudio
    \/ coded # Off /\ AU!CudaFeatures /\ OnlyAudio
    \/ coded # Off /\ AU!CudaHeadAttention /\ OnlyAudio
    \/ coded # Off /\ AU!CudaHeadProjection /\ OnlyAudio
    \/ coded # Off /\ AU!CudaHeadMlp /\ OnlyAudio
    \/ coded # Off /\ AU!CudaHeadOutput /\ OnlyAudio
    \/ coded # Off /\ AU!MetalHead /\ OnlyAudio
    \/ coded # Off /\ AU!Fail /\ OnlyAudio
    \/ conditioning # Off /\ PR!Begin /\ OnlyPrompt
    \/ conditioning # Off /\ PR!Fail /\ OnlyPrompt
    \/ conditioning # Off /\ PR!CudaPatch /\ OnlyPrompt
    \/ conditioning # Off /\ PR!CudaTowerAttention /\ OnlyPrompt
    \/ conditioning # Off /\ PR!CudaTowerMlp /\ OnlyPrompt
    \/ conditioning # Off /\ PR!CudaDeepstack /\ OnlyPrompt
    \/ conditioning # Off /\ PR!CudaMerge /\ OnlyPrompt
    \/ conditioning # Off /\ PR!MetalPatch /\ OnlyPrompt
    \/ conditioning # Off /\ PR!MetalTowerBlock /\ OnlyPrompt
    \/ conditioning # Off /\ PR!MetalMerge /\ OnlyPrompt
    \/ conditioning # Off /\ PR!CudaEmbed /\ OnlyPrompt
    \/ conditioning # Off /\ PR!CudaProject /\ OnlyPrompt
    \/ conditioning # Off /\ PR!CudaAttend /\ OnlyPrompt
    \/ conditioning # Off /\ PR!CudaExpand /\ OnlyPrompt
    \/ conditioning # Off /\ PR!CudaContract /\ OnlyPrompt
    \/ conditioning # Off /\ PR!CudaAnswer /\ OnlyPrompt
    \/ conditioning # Off /\ PR!CudaMakeRoom /\ OnlyPrompt
    \/ conditioning # Off /\ PR!MetalEmbed /\ OnlyPrompt
    \/ conditioning # Off /\ PR!MetalTextAttention /\ OnlyPrompt
    \/ conditioning # Off /\ PR!MetalTextMlp /\ OnlyPrompt
    \/ conditioning # Off /\ PR!MetalAnswer /\ OnlyPrompt
    \/ sampled # Off /\ GE!Begin /\ OnlyRun
    \/ sampled # Off /\ GE!Refuse /\ OnlyRun
    \/ sampled # Off /\ GE!ReachMachine /\ OnlyRun
    \/ sampled # Off /\ GE!AllReached /\ OnlyRun
    \/ sampled # Off /\ GE!EncodeOnWorker /\ OnlyRun
    \/ sampled # Off /\ GE!WorkerFailsThePrompt /\ OnlyRun
    \/ sampled # Off /\ GE!EncodeHere /\ OnlyRun
    \/ sampled # Off /\ GE!CannotEncodeHere /\ OnlyRun
    \/ sampled # Off /\ GE!EncodeConditions /\ OnlyRun
    \/ sampled # Off /\ GE!CannotCondition /\ OnlyRun
    \/ sampled # Off /\ GE!DrawNoise /\ OnlyRun
    \/ sampled # Off /\ GE!OpenShared /\ OnlyRun
    \/ sampled # Off /\ GE!NobodyAsked /\ OnlyRun
    \/ sampled # Off /\ GE!SessionRefused /\ OnlyRun
    \/ sampled # Off /\ GE!LoadHere /\ OnlyRun
    \/ sampled # Off /\ GE!CannotLoad /\ OnlyRun
    \/ sampled # Off /\ GE!StepShared /\ OnlyRun
    \/ sampled # Off /\ GE!StepHere /\ OnlyRun
    \/ sampled # Off /\ GE!StepFails /\ OnlyRun
    \/ sampled # Off /\ GE!Close /\ OnlyRun
    \/ sampled # Off /\ GE!Finish /\ OnlyRun
    \/ sampled # Off /\ GE!AskForSound /\ OnlyRun
    \/ sampled # Off /\ GE!SoundIsLost /\ OnlyRun
    \/ sampled # Off /\ GE!NobodyHasSound /\ OnlyRun
    \/ sampled # Off /\ GE!DecodeVideoHere /\ OnlyRun
    \/ sampled # Off /\ GE!DecodeVideoThere /\ OnlyRun
    \/ sampled # Off /\ GE!NoVideo /\ OnlyRun
    \/ sampled # Off /\ GE!TakeSound /\ OnlyRun
    \/ sampled # Off /\ GE!DecodeSoundHere /\ OnlyRun
    \/ sampled # Off /\ GE!NoSound /\ OnlyRun
    \/ cut # None /\ SR!Barrier /\ OnlyRows
    \/ cut # None /\ (\E r \in SR!Ranks : SR!PublishInputs(r)) /\ OnlyRows
    \/ cut # None /\ (\E r \in SR!Ranks : SR!SendInputs(r)) /\ OnlyRows
    \/ cut # None /\ (\E r \in SR!Ranks : SR!FetchInputs(r)) /\ OnlyRows
    \/ cut # None /\ (\E r \in SR!Ranks : SR!ProjectInputs(r)) /\ OnlyRows
    \/ cut # None /\ (\E r \in SR!Ranks : SR!Attend(r)) /\ OnlyRows
    \/ cut # None /\ (\E r \in SR!Ranks : SR!ExchangeOutputs(r)) /\ OnlyRows
    \/ cut # None /\ (\E r \in SR!Ranks : SR!Collect(r)) /\ OnlyRows
    \/ cut # None /\ (\E r \in SR!Ranks : SR!Scatter(r)) /\ OnlyRows

ModelsSpec ==
    ModelsInit /\ [][ModelsNext]_<<vars, metalVars, DecoderVars, EncoderVars, UpscalerVars,
                                   AudioVars, PromptVars, RunVars, RowsVars>>

Answered(x) == x \notin {None, Off}

\* Frames, latents and enlarged latents are what the reference makes of the input: whatever buffers
\* a tile or a clip before left behind, however tiles share a pass and overlap, and whichever layers
\* are in INT8.
VideoAgrees ==
    /\ Answered(video) => VD!Agrees(video)
    /\ Answered(posterior) => VE!Agrees(posterior)
    /\ Answered(upscaled) => UP!Agrees(upscaled)

\* Sound, its latents, and the states of a prompt are what the reference makes of them: each picture
\* and pair of frames at the tokens of its own block, with its own features, although the device ran
\* out of memory and began again.
PromptAndSoundAgree ==
    /\ Answered(coded) => AU!Agrees(coded)
    /\ Answered(conditioning) => PR!Agrees(conditioning)

\* A run's latents are those its options say, whichever machines were reached, refused a session or
\* took the steps, and its frames and sound are those latents'.  A leader reads the DiT to take
\* steps of its own alone, and a session is refused for what a Mac cannot do and for nothing else.
\* The shares of a step are the whole of it, and each reference has a time of its own.
RunAgrees ==
    /\ Answered(sampled) => GE!Agrees(sampled) /\ GE!ReadsToStep(sampled)
    /\ GE!SharesAreWhole
    /\ GE!RefusedByAMacAlone
    /\ GE!TimesAreApart

\* The rows a rank of a shared-out block carries onward are its tokens', of every head, as one
\* machine would have attended them: whatever the shares and whichever rows stay on a card, and no
\* rank asks for bytes a region does not have.
RowsAgree == cut # None => SR!RowsAgree
=============================================================================
