------------------------------ MODULE Workers ------------------------------
(***************************************************************************)
(* What a leader asks a worker on a connection of its own, at both ends    *)
(* (src/src/worker.rs): the handshake, the prompt, the sound and the whole *)
(* video.  A reply of another kind, or with other than the values it says, *)
(* is an error as a refusal is.  Which reply belongs to which request, and *)
(* the chunks of a video, are Handout's.                                   *)
(*                                                                         *)
(* A worker serves slots, a connection for each.                           *)
(***************************************************************************)
EXTENDS Sessions

Protocol == 5

LeadersToken == "token"

LeadersPaths == <<"path 1", "path 2">>

TextEncoder == "text encoder"

AudioVae == "audio vae"

VideoVae == "video vae"

Message(kind, body) == [kind |-> kind, body |-> body]

Error == Message("error", <<>>)

(***************************************************************************)
(* The handshake.  A build made before the protocol had a number neither   *)
(* checks nor says it.                                                     *)
(***************************************************************************)
HelloTo(slot) ==
    [leader |-> "leader", token |-> LeadersToken, rdma |-> LeadersPaths,
     protocol |-> Protocol, consistent |-> FALSE, device |-> slot - 1]

WelcomeOf(slots, slot, rdma) ==
    [backend |-> IF slot.backend = "cuda" THEN 1 ELSE 2, device |-> "device", memory |-> 1,
     capabilities |-> slot.serves, transports |-> IF rdma = <<>> THEN {"tcp"} ELSE {"tcp", "rdma"},
     speed |-> IF slot.speed = 0 THEN <<>>
               ELSE <<[gemm |-> slot.speed, bandwidth |-> 1, attention |-> slot.attention]>>,
     checkpoints |-> slot.holds, rdma |-> rdma, protocol |-> slot.protocol,
     devices |-> Len(slots), card |-> slot.card, process |-> slot.process]

Greets(slots, hello) ==
    /\ hello.token = slots[1].token
    /\ slots[1].protocol # 0 => hello.protocol = slots[1].protocol
    /\ hello.device + 1 \in DOMAIN slots

Welcome(slots, hello) ==
    LET slot == slots[hello.value.device + 1]
        rdma == IF hello.value.rdma = <<>> THEN <<>> ELSE slot.rdma
        welcomed(body) ==
            Message("welcome", IF slot.protocol = 0 THEN SubSeq(body, 1, Len(body) - 4) ELSE body)
    IN IF ~hello.ok \/ ~Greets(slots, hello.value) THEN Error
       ELSE welcomed(EncodeWelcome(WelcomeOf(slots, slot, rdma)))

Agreed(kind, welcome) ==
    IF kind = "welcome" /\ welcome.ok /\ welcome.value.protocol = Protocol
    THEN [ok |-> TRUE, welcome |-> welcome.value] ELSE [ok |-> FALSE]

Welcomed(reply) == Agreed(reply.kind, DecodeWelcome(reply.body))

Connection(slots, slot) == Welcomed(Welcome(slots, DecodeHello(EncodeHello(HelloTo(slot)))))

\* Every slot a worker says it serves; none where the first does not answer.
Every(slots, first) ==
    IF first.ok THEN {i \in 1..first.welcome.devices : Connection(slots, i).ok} ELSE {}

EverySlot(slots) == Every(slots, Connection(slots, 1))

Held(welcome, role) == {i \in DOMAIN welcome.checkpoints : welcome.checkpoints[i].role = role}

\* Whether the first slot answers, serves a unit and holds what it takes.
Serving(first, unit, role) ==
    first.ok /\ unit \in first.welcome.capabilities /\ Held(first.welcome, role) # {}

Offers(slots, unit, role) == Serving(Connection(slots, 1), unit, role)

FirstHeld(welcome, role) == welcome.checkpoints[Min(Held(welcome, role))]

HeldCheckpoint(slots, role) == FirstHeld(Connection(slots, 1).welcome, role)

(***************************************************************************)
(* A request: the checkpoint both sides hold, and what to make of what     *)
(* follows.                                                                *)
(***************************************************************************)
\* A digest of zero is any checkpoint of the role.
Offered(holds, wanted) ==
    \E i \in DOMAIN holds : /\ holds[i].role = wanted.role
                            /\ wanted.digest \in {0, holds[i].digest}

\* A latent has as many values as its shape says.
Fitting(shape, body) == Length(body) = FloatBytes(Extent(shape))

LatentOf(latent) == Floats(Numbered(latent.value, Extent(Shape(latent))))

\* What a leader takes of a reply: one of the kind it waits for, with the values it says.
AnswerOf(expected, d, whole, width) ==
    [ok |-> expected /\ d.ok /\ whole, value |-> Made(Values(d.rest, Bytes[width]))]

TextAnswer(kind, d) ==
    AnswerOf(kind = "text states", d,
             Length(d.rest) = FloatBytes(d.value.tokens * d.value.hidden), "f32")

States(ids) == <<"states", ids>>

ServeText(slots, d) ==
    LET tokens == Len(d.value.ids)
    IN IF ~d.ok \/ ~Offered(slots[1].holds, d.value.checkpoint) THEN Error
       ELSE Message("text states", EncodeTextStates([tokens |-> tokens, hidden |-> 1])
                                   \o Floats(Numbered(States(d.value.ids), tokens)))

TextFrom(slots, ids) ==
    LET request == EncodeText([checkpoint |-> HeldCheckpoint(slots, TextEncoder), ids |-> ids])
        reply == ServeText(slots, DecodeText(request))
    IN TextAnswer(reply.kind, DecodeTextStates(reply.body))

Waveform(latent) == <<"waveform", latent>>

ServeAudio(slots, d) ==
    IF ~d.ok \/ ~Offered(slots[1].holds, d.value.checkpoint) \/ ~Fitting(d.value.shape, d.rest)
    THEN Error
    ELSE Message("samples", EncodeSamples(d.value.shape)
                            \o Floats(Numbered(Waveform(MadeOf(d.rest)), Extent(d.value.shape))))

SoundAnswer(kind, d) ==
    AnswerOf(kind = "samples", d,
             Length(d.rest) = FloatBytes(FoldLeft(LAMBDA a, b : a * b, 1, d.value)), "f32")

AudioFrom(slots, latent) ==
    LET request == EncodeDecodeAudio([checkpoint |-> HeldCheckpoint(slots, AudioVae),
                                      shape |-> Shape(latent)])
        reply == ServeAudio(slots, DecodeDecodeAudio(request \o LatentOf(latent)))
    IN SoundAnswer(reply.kind, DecodeSamples(reply.body))

DefaultTileSize == 256

DefaultTileOverlapMin == 32

FramesOf(latent, tileSize, tileOverlap) == <<"frames", latent, tileSize, tileOverlap>>

\* A picture is a byte a place.
Pixels(values) == [i \in DOMAIN values |-> U8(values[i])]

\* A leader that can not decode asks for tiles of no size, and the worker takes its own.
ServeWhole(slots, d) ==
    LET frames == FramesOf(MadeOf(d.rest),
                           IF d.value.tileSize = 0 THEN DefaultTileSize ELSE d.value.tileSize,
                           IF d.value.tileOverlap = 0 THEN DefaultTileOverlapMin
                           ELSE d.value.tileOverlap)
    IN IF ~d.ok \/ ~Offered(slots[1].holds, d.value.checkpoint) \/ ~Fitting(d.value.shape, d.rest)
       THEN Error
       ELSE Message("frames", EncodeFrames([frames |-> d.value.shape[1],
                                            patches |-> d.value.shape[2]])
                              \o Pixels(Numbered(frames, Extent(d.value.shape))))

PictureAnswer(kind, d) ==
    AnswerOf(kind = "frames", d, Length(d.rest) = d.value.frames * d.value.patches, "u8")

WholeFrom(slots, latent) ==
    LET request == EncodeDecodeVideo([checkpoint |-> HeldCheckpoint(slots, VideoVae), chunk |-> 0,
                                      tileSize |-> 0, tileOverlap |-> 0,
                                      shape |-> Shape(latent), handOver |-> FALSE])
        reply == ServeWhole(slots, DecodeDecodeVideo(request \o LatentOf(latent)))
    IN PictureAnswer(reply.kind, DecodeFrames(reply.body))
=============================================================================
