----------------------------- MODULE Generation -----------------------------
(***************************************************************************)
(* A run on its leader (src/src/generation.rs): which machines it borrows, *)
(* which of them read the DiT ahead, who encodes the prompt, who takes the *)
(* steps of each phase, what each step makes of the latents, and who       *)
(* decodes them (src/src/generate.rs).                                     *)
(*                                                                         *)
(* A machine of the cluster serves slots.  Whatever the wire loses, a call *)
(* fails: which calls may is chosen once a run, out of Failures.  The      *)
(* exchanges of a step among its ranks are Exchanger's and ShardBlock's,   *)
(* the opening of a session Rendezvous's, the chunks of a video Handout's. *)
(* A velocity is a record of what it was computed from.                    *)
(***************************************************************************)
EXTENDS Workers

CONSTANTS
    Plans,      \* options of runs
    Clusters,   \* [address -> sequence of slots]
    Units,      \* what a machine may be asked for: "steps", "prompt", "video", "audio"
    LocalAddress,  \* the address of the worker in this process
    Failures,   \* sets of calls, those that may fail in a run
    Heads,      \* attention heads of the DiT
    MinTokens,  \* sequences shorter than this attend densely
    None

VARIABLES
    plan,     \* the run's options
    cluster,  \* the machines there are
    leader,   \* what the run has got to
    sampled   \* what the last run answered with, or None

vars == <<plan, cluster, leader, sampled>>

(***************************************************************************)
(* The options.                                                            *)
(***************************************************************************)
\* A run that names no machine computes here, through the worker in this process when there are
\* cards to share a step among or models to keep.
Machines(p) ==
    IF p.machines = <<>> /\ (p.cards > 1 \/ p.keeps)
    THEN <<[address |-> LocalAddress, units |-> Units]>> ELSE p.machines

Lent(p) == SelectSeq(p.machines, LAMBDA machine : machine.address = LocalAddress)

HasConditions(p) == p.keyframes # <<>> \/ HasReferences(p)

Accepted(p) ==
    /\ Len(Lent(p)) <= 1
    /\ p.devices => ~(p.machines # <<>> /\ Lent(p) = <<>>)
    /\ p.cards = 0 => p.machines # <<>> /\ Lent(p) = <<>>
    /\ ~(p.keyframes # <<>> /\ HasReferences(p))
    /\ p.draft > 0 => p.draft < p.steps /\ ~HasConditions(p)

\* The machines a run may ask for a unit, in order.
WorkersFor(p, unit) ==
    LET serving == SelectSeq(Machines(p), LAMBDA machine : unit \in machine.units)
    IN [i \in DOMAIN serving |-> serving[i].address]

(***************************************************************************)
(* Attention, and the shapes of the latents.                               *)
(***************************************************************************)
Method(p) ==
    IF p.attention # "default" THEN p.attention ELSE IF p.gated THEN "vsa" ELSE "dense"

SolTau == 7

Sparsity == 9

\* `start` is in fifths of the run.
SparseAttention(p) ==
    CASE Method(p) = "dense" -> Dense
      [] Method(p) = "sol" -> [method |-> "sol", level |-> SolTau, start |-> 1, min |-> MinTokens]
      [] OTHER -> [method |-> Method(p), level |-> Sparsity, start |-> p.start, min |-> 0]

AppliesToStep(sparse, step, steps) == 5 * step >= sparse.start * steps

Attention(sparse, step, steps, tokens) ==
    IF AppliesToStep(sparse, step, steps) /\ tokens >= sparse.min
    THEN <<sparse.method, sparse.level>> ELSE <<"dense", 0>>

DitFile(p) == IF HasReferences(p) THEN "reference" ELSE "dit"

LoraStrength == 3

\* The DiT the leader reads for itself: the patch goes on first, as adapters at full strength.
LoadedDit(p) ==
    LET patched == IF p.patch THEN <<Adapter("patch", 1, KeptBeside)>> ELSE <<>>
        mode == IF p.mode = "merge" THEN Merged ELSE KeptBeside
    IN ModelOf(DitFile(p),
               IF p.lora THEN Append(patched, Adapter("lora", LoraStrength, mode)) ELSE patched,
               p.precision)

VideoPatches(p, step) == IF step < p.draft THEN 1 ELSE 4

VideoFrames == 2

AudioSize == 1

Sigma(step) == <<"sigma", step>>

ShiftVideo == "video shift"

ShiftAudio == "audio shift"

VideoSize(p, step) == VideoFrames * VideoPatches(p, step)

LayoutOf(p, tokens, conditions, patches) ==
    Layout(tokens, conditions, Latent("video", VideoFrames, patches), Latent("audio", AudioSize, 1))

(***************************************************************************)
(* What a run is to compute: the noise is one stream, the video's before   *)
(* the sound's.                                                            *)
(***************************************************************************)
Noise(from, size) == <<"noise", from, size>>

Renoises(p, step) == p.renoise /\ step + 1 < p.steps

VideoNoise(p, step) ==
    IF step + 1 = p.draft \/ Renoises(p, step) THEN VideoSize(p, step + 1) ELSE 0

AudioNoise(p, step) == IF Renoises(p, step) THEN AudioSize ELSE 0

\* What the stream has given before a step.
DrawnBefore(p, step) ==
    VideoSize(p, 0) + AudioSize
        + Sum([s \in 1..step |-> VideoNoise(p, s - 1) + AudioNoise(p, s - 1)])

\* The latents before a step.
Video(p, step) == IF step = 0 THEN Noise(0, VideoSize(p, 0)) ELSE <<"video", step>>

Audio(p, step) == IF step = 0 THEN Noise(VideoSize(p, 0), AudioSize) ELSE <<"audio", step>>

WantedAttention(p, step) ==
    LET sparse == SparseAttention(p)
        tokens == Tokens(LayoutOf(p, p.tokens, Wanted(p), VideoPatches(p, step)))
    IN IF step < p.draft /\ AppliesToStep(sparse, step, p.steps)
       THEN <<sparse.method, sparse.level>>
       ELSE Attention(sparse, step, p.steps, tokens)

\* The tokens of the prompt, and the DiT the options name.
Ids(p) == [t \in 1..p.tokens |-> 100 + t]

WantedDit(p) ==
    [file |-> DitFile(p), precision |-> p.precision,
     adapters |-> SelectSeq(
         <<[digest |-> "patch", strength |-> 1, mode |-> 0],
           [digest |-> "lora", strength |-> LoraStrength,
            mode |-> IF p.mode = "merge" THEN 1 ELSE 0]>>,
         LAMBDA adapter : IF adapter.digest = "patch" THEN p.patch ELSE p.lora)]

Modalities(p) == [t \in 1..p.tokens |-> IF HasConditions(p) /\ t > 1 THEN "video" ELSE "text"]

Velocity(p, step) ==
    [video |-> Video(p, step), audio |-> Audio(p, step), sigma |-> Sigma(step),
     shifts |-> <<ShiftVideo, ShiftAudio>>, attention |-> WantedAttention(p, step),
     context |-> <<"states", Ids(p)>>, modalities |-> Modalities(p), conditions |-> Wanted(p),
     dit |-> WantedDit(p)]

\* The flow's step, the clean latent noised again, and the clean latent of a draft enlarged first.
Euler(x, v, step) == <<"euler", x, v, step>>

Renoise(x, v, noise, step) == <<"renoise", x, v, noise, step>>

Enlarged(x, v, noise, step) == <<"noised", <<"enlarged", <<"clean", x, v, step>>>>, noise, step>>

WantedVideo(p, step, velocity) ==
    LET noise == Noise(DrawnBefore(p, step), VideoNoise(p, step))
    IN IF step + 1 = p.draft THEN Enlarged(Video(p, step), velocity, noise, step)
       ELSE IF Renoises(p, step) THEN Renoise(Video(p, step), velocity, noise, step)
       ELSE Euler(Video(p, step), velocity, step)

WantedAudio(p, step, velocity) ==
    LET noise == Noise(DrawnBefore(p, step) + VideoNoise(p, step), AudioSize)
    IN IF Renoises(p, step) THEN Renoise(Audio(p, step), velocity, noise, step)
       ELSE Euler(Audio(p, step), velocity, step)

(***************************************************************************)
(* The run.                                                                *)
(***************************************************************************)
Init == plan = None /\ cluster = None /\ leader = None /\ sampled = None

\* What a run that ends is seen to have done.
Answer(failed) ==
    [plan |-> plan, may |-> leader.may, failed |-> failed,
     video |-> leader.video, audio |-> leader.audio,
     loaded |-> leader.loaded, here |-> leader.here, shared |-> leader.session # None,
     frames |-> leader.frames, waveform |-> leader.waveform]

End(failed) == sampled' = Answer(failed) /\ leader' = None /\ UNCHANGED <<plan, cluster>>

NotAsked == [asked |-> FALSE, ok |-> FALSE, value |-> <<>>]

Begin ==
    /\ plan = None
    /\ plan' \in Plans /\ cluster' \in Clusters
    /\ Len(cluster'[LocalAddress]) = plan'.cards
    /\ \E may \in Failures :
          leader' = [phase |-> IF Accepted(plan') THEN "reach" ELSE "refuse", may |-> may,
                     reached |-> 0, workers |-> <<>>, context |-> None, modalities |-> <<>>,
                     conditions |-> <<>>, video |-> None, audio |-> None, drawn |-> 0, step |-> 0,
                     session |-> None, loaded |-> FALSE, here |-> {}, sound |-> NotAsked,
                     frames |-> None, waveform |-> None]
    /\ UNCHANGED sampled

Refuse == leader # None /\ leader.phase = "refuse" /\ End("options")

In(phase) == leader # None /\ leader.phase = phase

Goes(changed) == leader' = changed /\ UNCHANGED <<plan, cluster, sampled>>

Ranks == WorkersFor(plan, "steps")

\* Whether the prompt is plain text, which a worker may encode.
PlainPrompt == plan.prompt = "prompt" /\ ~HasConditions(plan)

EncodesFirst == PlainPrompt /\ WorkersFor(plan, "prompt") # <<>>

\* A slot on the card of the machine that is asked first for the prompt reads nothing ahead.
Encodes(address, first, welcome) ==
    /\ EncodesFirst /\ WorkersFor(plan, "prompt")[1] = address
    /\ welcome.card = first.card
    /\ "prompt" \in welcome.capabilities /\ Held(welcome, TextEncoder) # {}

\* The first slot must answer; the others that do not are left out, and so are those that can not
\* be told which DiT to read.
Answering(slots) ==
    IF "connect" \in leader.may
    THEN {answering \in SUBSET EverySlot(slots) : answering # {} => 1 \in answering}
    ELSE {EverySlot(slots)}

Welcomes(slots) == [i \in EverySlot(slots) |-> Connection(slots, i).welcome]

Reached(address, welcomes, answering) ==
    \E deaf \in SUBSET answering :
        /\ "prepare" \notin leader.may => deaf = {}
        /\ deaf \subseteq {i \in answering : ~Encodes(address, welcomes[1], welcomes[i])}
        /\ LET usable == {i \in answering \ deaf : "steps" \in welcomes[i].capabilities}
               new == SetToSortSeq(usable, <)
           IN Goes([leader EXCEPT
                !.reached = @ + 1,
                !.workers = @ \o [k \in DOMAIN new |-> welcomes[new[k]]]])

ReachMachine ==
    /\ In("reach") /\ leader.reached < Len(Ranks)
    /\ LET address == Ranks[leader.reached + 1]
       IN \E answering \in Answering(cluster[address]) :
            Reached(address, Welcomes(cluster[address]), answering)

AllReached ==
    /\ In("reach") /\ leader.reached = Len(Ranks)
    /\ Goes([leader EXCEPT !.phase = "prompt"])

\* The machines asked for a unit that hold the checkpoint it takes, of those that are reached.
Offering(reachable, unit, role) ==
    LET addresses == WorkersFor(plan, unit)
    IN {i \in reachable : Offers(cluster[addresses[i]], unit, role)}

Reachable(addresses) ==
    IF "connect" \in leader.may THEN SUBSET DOMAIN addresses ELSE {DOMAIN addresses}

Asked(reachable) ==
    IF PlainPrompt THEN Offering(reachable, "prompt", TextEncoder) ELSE {}

Encoded(context) ==
    [leader EXCEPT !.context = context, !.phase = "conditions",
                   !.modalities = IF HasConditions(plan) THEN Modalities(plan) ELSE <<>>]

\* What a worker answers is taken where it fits what was asked.
TakeStates(answer) == IF answer.ok THEN Goes(Encoded(answer.value)) ELSE End("answer")

EncodeOnWorker ==
    /\ In("prompt")
    /\ \E reachable \in Reachable(WorkersFor(plan, "prompt")) :
          /\ Asked(reachable) # {}
          /\ LET address == WorkersFor(plan, "prompt")[Min(Asked(reachable))]
             IN TakeStates(TextFrom(cluster[address], Ids(plan)))

\* A worker that fails to encode it ends the run.
WorkerFailsThePrompt ==
    /\ In("prompt") /\ "encode" \in leader.may
    /\ \E reachable \in Reachable(WorkersFor(plan, "prompt")) : Asked(reachable) # {}
    /\ End("prompt")

\* The prompt here, or the states of a file.
EncodeHere ==
    /\ In("prompt")
    /\ \E reachable \in Reachable(WorkersFor(plan, "prompt")) : Asked(reachable) = {}
    /\ plan.cards > 0 \/ plan.prompt = "context"
    /\ Goes(Encoded(States(Ids(plan))))

CannotEncodeHere ==
    /\ In("prompt")
    /\ \E reachable \in Reachable(WorkersFor(plan, "prompt")) : Asked(reachable) = {}
    /\ "encode" \in leader.may \/ (plan.cards = 0 /\ plan.prompt = "prompt")
    /\ End("prompt")

(***************************************************************************)
(* The conditions, the noise, and the DiT where no machine was reached.    *)
(***************************************************************************)
StatesOnly(p) == p.prompt = "context" /\ HasConditions(p)

LoadsFirst == leader.workers = <<>> /\ plan.cards > 0

EncodeConditions ==
    /\ In("conditions") /\ ~StatesOnly(plan)
    /\ Goes([leader EXCEPT
         !.conditions = ConditionsOf(plan),
         !.loaded = LoadsFirst,
         !.phase = "noise"])

CannotCondition ==
    /\ In("conditions")
    /\ \/ StatesOnly(plan)
       \/ HasConditions(plan) /\ "encode" \in leader.may
       \/ LoadsFirst /\ "load" \in leader.may
    /\ End("conditions")

\* The latents a run begins with.
DrawNoise ==
    /\ In("noise")
    /\ LET video == Noise(0, VideoSize(plan, 0))
           audio == Noise(VideoSize(plan, 0), AudioSize)
       IN Goes([leader EXCEPT !.video = video, !.audio = audio,
                              !.drawn = VideoSize(plan, 0) + AudioSize, !.phase = "open"])

(***************************************************************************)
(* A phase: the draft steps, or those at full size.                        *)
(***************************************************************************)
PhaseEnd == IF leader.step < plan.draft THEN plan.draft ELSE plan.steps

\* The steps of a draft go sparse whatever their length.
PhaseSparse ==
    LET sparse == SparseAttention(plan)
    IN IF leader.step < plan.draft THEN [sparse EXCEPT !.min = 0] ELSE sparse

PhaseTokens ==
    Tokens(LayoutOf(plan, plan.tokens, leader.conditions, VideoPatches(plan, leader.step)))

\* Where some measured themselves, the others take no share.
Measured ==
    LET fast(worker) == worker.speed # <<>>
    IN IF \E i \in DOMAIN leader.workers : fast(leader.workers[i])
       THEN SelectSeq(leader.workers, fast) ELSE leader.workers

Speed(worker) == IF worker.speed = <<>> THEN 0 ELSE worker.speed[1].gemm

HeadSpeed(worker) ==
    IF worker.speed # <<>> /\ worker.speed[1].attention > 0 THEN worker.speed[1].attention
    ELSE Speed(worker)

Cut(weights, total) ==
    IF \A i \in DOMAIN weights : weights[i] > 0 THEN Weighted(weights, total)
    ELSE Even(Len(weights), total)

\* What each rank is told, its own number apart.
Session(workers, sparse, tokens, heads, rank) ==
    [checkpoint |-> Checkpoint("dit", DitFile(plan)), ranks |-> Len(workers), rank |-> rank - 1,
     video |-> <<VideoFrames, VideoPatches(plan, leader.step)>>, audio |-> <<AudioSize, 1>>,
     context |-> <<plan.tokens, 1>>, shiftVideo |-> ShiftVideo, shiftAudio |-> ShiftAudio,
     steps |-> plan.steps, sparse |-> SparseSettings(sparse), precision |-> plan.precision,
     conditions |-> SessionConditions(leader.conditions),
     adapters |-> SessionAdapters(plan.patch, plan.lora, LoraStrength, plan.mode),
     shard |-> [i \in DOMAIN workers |-> [tokens |-> <<tokens[i].start, tokens[i].end>>,
                                          heads |-> <<heads[i].start, heads[i].end>>]],
     run |-> "run", processes |-> [i \in DOMAIN workers |-> workers[i].process]]

\* What the ranks read of the sessions they are sent.
Opened(workers, sparse, tokens) ==
    LET heads == Cut([i \in DOMAIN workers |-> HeadSpeed(workers[i])], Heads)
        spans == Cut([i \in DOMAIN workers |-> Speed(workers[i])], tokens)
        payload == SessionPayload(leader.context, plan.tokens, leader.modalities,
                                  leader.conditions)
        backend(i) == IF workers[i].backend = 1 THEN "cuda" ELSE "metal"
        read(i) == ReadSession(EncodeSession(Session(workers, sparse, spans, heads, i)) \o payload,
                               backend(i), Heads)
    IN [i \in DOMAIN workers |-> read(i)]

CanShare == Ranks # <<>> /\ Method(plan) # "veda" /\ Measured # <<>>

Opens(ranks) == \A i \in DOMAIN ranks : ranks[i].ok

\* The session opens where every rank takes it.
TryOpen(ranks) ==
    /\ Opens(ranks)
    /\ Goes([leader EXCEPT !.workers = Measured, !.session = ranks, !.phase = "step"])

OpenShared ==
    /\ In("open") /\ CanShare
    /\ TryOpen(Opened(Measured, PhaseSparse, PhaseTokens))

\* No machine, or none that will: the steps of this phase are taken here.  Where the adapters can
\* not be named, or nobody may be asked, the connections end; a session refused keeps them.
NobodyAsked ==
    /\ In("open")
    /\ ~CanShare \/ "name" \in leader.may
    /\ Goes([leader EXCEPT !.workers = <<>>, !.session = None, !.phase = "load"])

SessionRefused ==
    /\ In("open") /\ CanShare
    /\ "open" \in leader.may \/ ~Opens(Opened(Measured, PhaseSparse, PhaseTokens))
    /\ Goes([leader EXCEPT !.workers = Measured, !.session = None, !.phase = "load"])

LoadHere ==
    /\ In("load")
    /\ Goes([leader EXCEPT !.loaded = plan.cards > 0, !.phase = "step"])

CannotLoad ==
    /\ In("load") /\ ~leader.loaded
    /\ "load" \in leader.may /\ plan.cards > 0
    /\ End("load")

(***************************************************************************)
(* A step.                                                                 *)
(***************************************************************************)
\* What a step computes from: on a rank, what its session and the step's message say.
RankInputs(rank, message) ==
    [video |-> message.video, audio |-> message.audio, sigma |-> message.sigma,
     shifts |-> rank.shifts,
     attention |-> Attention(rank.sparse, message.step, rank.steps, Tokens(RankLayout(rank))),
     context |-> rank.context, modalities |-> rank.modalities, conditions |-> rank.conditions,
     dit |-> rank.dit]

OnLeader ==
    [video |-> leader.video, audio |-> leader.audio, sigma |-> Sigma(leader.step),
     shifts |-> <<ShiftVideo, ShiftAudio>>,
     attention |-> Attention(PhaseSparse, leader.step, plan.steps, PhaseTokens),
     context |-> leader.context,
     modalities |-> IF leader.modalities = <<>> THEN [t \in 1..plan.tokens |-> "text"]
                    ELSE leader.modalities,
     conditions |-> leader.conditions, dit |-> LoadedDit(plan)]

\* The video's rows as VSA has them, and otherwise in their places.
OrderOf(attention, length) ==
    IF attention[1] = "vsa" THEN TileOrder(length) ELSE [r \in 1..length |-> r]

\* A rank's rows of the video and of the sound, in the order its attention has them in.
RowsOf(rank, inputs, layout) ==
    LET video == Rows(layout, "video")
        audio == Rows(layout, "audio")
        own == rank.tokens[rank.rank]
        order == OrderOf(inputs.attention, Size(video))
    IN VelocityMessage(own, Part(own, video, LAMBDA r : <<inputs, order[r]>>).rows,
                       Part(own, audio, LAMBDA r : <<inputs, r>>).rows)

\* A message that does not fit the session is no answer, and neither is what a Mac makes of a
\* sparse step.
ServeStep(rank, message) ==
    LET inputs == RankInputs(rank, message)
    IN IF message.ok /\ (rank.backend = "metal" => inputs.attention[1] = "dense")
       THEN RowsOf(rank, inputs, RankLayout(rank)) ELSE <<>>

Parts(body) ==
    [i \in DOMAIN leader.session |->
        ReadVelocity(ServeStep(leader.session[i], ReadStep(leader.session[i], body)))]

Ordered(gathered, order) == [ok |-> gathered.ok, velocity |-> Made(Restored(gathered.rows, order))]

\* The velocity of the video or the sound, put together by the leader's own layout and attention.
Assembled(parts, segment, order, rows(_)) ==
    Ordered(Gather([i \in DOMAIN parts |-> [share |-> parts[i].share, rows |-> rows(parts[i])]],
                   segment),
            order)

\* The latents after a step, and the noise they took: the video's before the sound's.
Advanced(v, a) ==
    LET step == leader.step
        size == VideoSize(plan, step + 1)
        drafted == step + 1 = plan.draft
        fresh == Noise(leader.drawn, size)
        after == leader.drawn + (IF drafted \/ Renoises(plan, step) THEN size ELSE 0)
    IN [video |-> IF drafted THEN Enlarged(leader.video, v, fresh, step)
                  ELSE IF Renoises(plan, step) THEN Renoise(leader.video, v, fresh, step)
                  ELSE Euler(leader.video, v, step),
        audio |-> IF Renoises(plan, step)
                  THEN Renoise(leader.audio, a, Noise(after, AudioSize), step)
                  ELSE Euler(leader.audio, a, step),
        drawn |-> after + (IF Renoises(plan, step) THEN AudioSize ELSE 0)]

\* Latents that are what they are to be take their names.
Recorded(after, here, velocity) ==
    LET step == leader.step
        next == IF step + 1 = PhaseEnd THEN "close" ELSE "step"
    IN [leader EXCEPT
         !.video = IF after.video = WantedVideo(plan, step, velocity) THEN Video(plan, step + 1)
                   ELSE after.video,
         !.audio = IF after.audio = WantedAudio(plan, step, velocity) THEN Audio(plan, step + 1)
                   ELSE after.audio,
         !.drawn = after.drawn, !.step = step + 1, !.here = @ \cup here, !.phase = next]

Stepped(after, here) == Recorded(after, here, Velocity(plan, leader.step))

\* The latents go on from a velocity that is whole.
Take(video, audio) ==
    IF video.ok /\ audio.ok
    THEN Goes(Stepped(Advanced(video.velocity, audio.velocity), {}))
    ELSE End("assembly")

Assemble(parts, attention, video, audio) ==
    IF \E i \in DOMAIN parts : ~parts[i].ok THEN End("answer")
    ELSE Take(Assembled(parts, video, OrderOf(attention, Size(video)),
                        LAMBDA part : part.video),
              Assembled(parts, audio, [r \in 1..Size(audio) |-> r], LAMBDA part : part.audio))

ShareStep(layout) ==
    Assemble(Parts(StepMessage(leader.step, Sigma(leader.step),
                               Numbered(leader.video, VideoSize(plan, leader.step)),
                               Numbered(leader.audio, AudioSize))),
             OnLeader.attention, Rows(layout, "video"), Rows(layout, "audio"))

StepShared ==
    /\ In("step") /\ leader.session # None
    /\ ShareStep(LayoutOf(plan, plan.tokens, leader.conditions, VideoPatches(plan, leader.step)))

StepHere ==
    /\ In("step") /\ leader.session = None /\ leader.loaded
    /\ Goes(Stepped(Advanced(OnLeader, OnLeader), {leader.step}))

\* A rank that fails takes the run with it, and so does a device; a build of no backend has no step.
StepFails ==
    /\ In("step")
    /\ "step" \in leader.may \/ (leader.session = None /\ ~leader.loaded)
    /\ End("step")

Close ==
    /\ In("close") /\ leader.step < plan.steps
    /\ Goes([leader EXCEPT !.session = None, !.phase = "open"])

Finish ==
    /\ In("close") /\ leader.step = plan.steps
    /\ Goes([leader EXCEPT !.workers = <<>>, !.session = None, !.phase = "sound"])

(***************************************************************************)
(* The decode.  A machine that takes no steps is asked for the sound       *)
(* before those that do, while the video is decoded; one that was asked    *)
(* and fails ends the run, where the next is asked for a whole video.      *)
(***************************************************************************)
FinalVideo == Latent(leader.video, VideoFrames, VideoPatches(plan, plan.steps))

FinalAudio == Latent(leader.audio, AudioSize, 1)

\* The first that takes no steps, or the first.
SoundFirst(offering) ==
    LET addresses == WorkersFor(plan, "audio")
        idle == {i \in offering :
                   "steps" \notin Connection(cluster[addresses[i]], 1).welcome.capabilities}
    IN addresses[Min(IF idle # {} THEN idle ELSE offering)]

Heard(answer) ==
    Goes([leader EXCEPT !.phase = "video",
                        !.sound = [asked |-> TRUE, ok |-> answer.ok, value |-> answer.value]])

AskForSound ==
    /\ In("sound")
    /\ \E reachable \in Reachable(WorkersFor(plan, "audio")) :
          /\ Offering(reachable, "audio", AudioVae) # {}
          /\ Heard(AudioFrom(cluster[SoundFirst(Offering(reachable, "audio", AudioVae))],
                             FinalAudio))

SoundIsLost ==
    /\ In("sound") /\ "decode" \in leader.may
    /\ \E reachable \in Reachable(WorkersFor(plan, "audio")) :
          Offering(reachable, "audio", AudioVae) # {}
    /\ Heard([ok |-> FALSE, value |-> <<>>])

NobodyHasSound ==
    /\ In("sound")
    /\ \E reachable \in Reachable(WorkersFor(plan, "audio")) :
          Offering(reachable, "audio", AudioVae) = {}
    /\ Goes([leader EXCEPT !.phase = "video"])

Shown(frames) == Goes([leader EXCEPT !.frames = frames, !.phase = "waveform"])

DecodeVideoHere ==
    /\ In("video") /\ plan.cards > 0
    /\ Shown(FramesOf(leader.video, DefaultTileSize, DefaultTileOverlapMin))

\* Those that fail are passed over.
DecodeVideoThere ==
    /\ In("video") /\ plan.cards = 0
    /\ \E reachable \in Reachable(WorkersFor(plan, "video")) :
         \E i \in Offering(reachable, "video", VideoVae) :
            /\ "decode" \notin leader.may => i = Min(Offering(reachable, "video", VideoVae))
            /\ LET answer == WholeFrom(cluster[WorkersFor(plan, "video")[i]], FinalVideo)
               IN IF answer.ok THEN Shown(answer.value) ELSE End("answer")

NoVideo ==
    /\ In("video")
    /\ \/ "decode" \in leader.may
       \/ /\ plan.cards = 0
          /\ \E reachable \in Reachable(WorkersFor(plan, "video")) :
                Offering(reachable, "video", VideoVae) = {}
    /\ End("video")

Answered(waveform) ==
    /\ sampled' = [Answer(None) EXCEPT !.waveform = waveform]
    /\ leader' = None /\ UNCHANGED <<plan, cluster>>

TakeSound ==
    /\ In("waveform") /\ leader.sound.ok
    /\ Answered(leader.sound.value)

DecodeSoundHere ==
    /\ In("waveform") /\ ~leader.sound.asked /\ plan.cards > 0
    /\ Answered(Waveform(leader.audio))

NoSound ==
    /\ In("waveform")
    /\ \/ leader.sound.asked /\ ~leader.sound.ok
       \/ ~leader.sound.asked /\ (plan.cards = 0 \/ "decode" \in leader.may)
    /\ End("sound")

Next ==
    \/ Begin \/ Refuse \/ ReachMachine \/ AllReached \/ EncodeOnWorker \/ WorkerFailsThePrompt
    \/ EncodeHere \/ CannotEncodeHere \/ EncodeConditions \/ CannotCondition \/ DrawNoise
    \/ OpenShared \/ NobodyAsked \/ SessionRefused \/ LoadHere \/ CannotLoad
    \/ StepShared \/ StepHere \/ StepFails \/ Close \/ Finish \/ AskForSound \/ SoundIsLost
    \/ NobodyHasSound \/ DecodeVideoHere \/ DecodeVideoThere \/ NoVideo \/ TakeSound
    \/ DecodeSoundHere \/ NoSound

Spec == Init /\ [][Next]_vars

(***************************************************************************)
(* What a run answers with.                                                *)
(***************************************************************************)
\* The latents are those the plan says, whoever took which steps: the same noise in the same
\* places, the prompt and each condition as they are, the same adapters in the same order, and the
\* same attention on the same steps; and the frames and the sound are those latents' own.  Parts put
\* together always make the whole, an answer fits what was asked, and a session that is refused
\* costs a machine and not the run: what ends a run is a call that failed, or a leader that can not
\* do what nobody else does.
Agrees(answer) ==
    LET failed == answer.failed
        may == answer.may
        barren == answer.plan.cards = 0
        video == Video(answer.plan, answer.plan.steps)
        audio == Audio(answer.plan, answer.plan.steps)
    IN /\ failed = None => /\ answer.video = video /\ answer.audio = audio
                           /\ answer.frames =
                                FramesOf(video, DefaultTileSize, DefaultTileOverlapMin)
                           /\ answer.waveform = Waveform(audio)
       /\ failed \notin {"assembly", "answer"}
       /\ failed = "step" => "step" \in may \/ (barren /\ ~answer.shared)
       /\ failed = "prompt" => "encode" \in may \/ barren
       /\ failed = "load" => "load" \in may
       /\ failed = "conditions" => {"encode", "load"} \cap may # {} \/ StatesOnly(answer.plan)
       /\ failed \in {"video", "sound"} => "decode" \in may \/ barren

\* A leader reads the DiT to take steps of its own, and for nothing else.
ReadsToStep(answer) == answer.failed = None => answer.loaded = (answer.here # {})

\* The shares of an open session are the sequence and the heads, each once and none of them empty.
SharesAreWhole ==
    leader # None /\ leader.session # None /\ leader.phase = "step" =>
        \A rank \in DOMAIN leader.session :
            LET read == leader.session[rank]
            IN /\ Partitions(read.tokens, PhaseTokens)
               /\ Partitions(read.heads, Heads)
               /\ \A i \in DOMAIN leader.session :
                     Size(read.tokens[i]) > 0 /\ Size(read.heads[i]) > 0

AMacAloneRefuses(ranks) ==
    \A i \in DOMAIN ranks :
        ranks[i].ok = ~(/\ Measured[i].backend = 2
                        /\ \/ PhaseSparse # Dense \/ plan.precision = 1
                           \/ plan.lora /\ plan.mode = "merge")

\* A session is refused for what a Mac can not do, and for nothing else: a leader's cuts are those
\* of the layout its ranks read.
RefusedByAMacAlone ==
    leader # None /\ leader.phase = "open" /\ CanShare =>
        AMacAloneRefuses(Opened(Measured, PhaseSparse, PhaseTokens))

\* The references and the target each take a time of their own, after the text.
TimesAreApart ==
    leader # None /\ leader.phase = "step" /\ HasReferences(plan) =>
        Apart(LayoutOf(plan, plan.tokens, leader.conditions, 1), Len(leader.conditions))
=============================================================================
