----------------------------- MODULE Conditions -----------------------------
(***************************************************************************)
(* What a run shows the DiT beside the video and the sound it makes: the   *)
(* latents of its keyframes or references, in which order, and where in    *)
(* the sequence they stand and when (src/src/generation.rs,                *)
(* src/crates/mmh3-core/src/dit/layout.rs).                                *)
(*                                                                         *)
(* A latent is a term with how many frames and patches a frame it has; one *)
(* without frames is none.  Time is counted in thirds of a unit.  The      *)
(* spatial coordinates are left out.                                       *)
(***************************************************************************)
EXTENDS Terms, SequencesExt

Latent(value, frames, patches) == [value |-> value, frames |-> frames, patches |-> patches]

NoLatent == Latent(<<>>, 0, 0)

Sum(s) == FoldLeft(LAMBDA a, b : a + b, 0, s)

(***************************************************************************)
(* The latents.  Pictures and clips are samples of a posterior, each with  *)
(* the same noise, and take a little noise of a stream of their own.       *)
(***************************************************************************)
\* A clip is cut to 17 n + 5 frames, of which each 17 give five latent frames and the rest two.
ClipFrames(clip) == 5 * ((clip.frames - 5) \div 17) + 2

Conditioned(what, i, stream, before) == <<"conditioned", what, i, stream, before>>

EncodePictures(count) ==
    [i \in 1..count |-> Latent(Conditioned("picture", i, "keyframes", i - 1), 1, 1)]

EncodeClips(clips) ==
    [i \in 1..Len(clips) |->
        Latent(Conditioned("clip", i, "clips", Sum([j \in 1..(i - 1) |-> ClipFrames(clips[j])])),
               ClipFrames(clips[i]), 1)]

EncodeSounds(sounds) == [i \in 1..Len(sounds) |-> Latent(<<"encoded", sounds[i]>>, 1, 1)]

SoundtracksOf(clips) ==
    LET numbered == [i \in 1..Len(clips) |-> [sound |-> clips[i].sound, number |-> i]]
        heard == SelectSeq(numbered, LAMBDA clip : clip.sound)
    IN [i \in 1..Len(heard) |-> <<"soundtrack", heard[i].number>>]

Condition(kind, frame, video, sound) ==
    [kind |-> kind, frame |-> frame, video |-> video, audio |-> sound]

Keyframes(plan) ==
    LET latents == EncodePictures(Len(plan.keyframes))
    IN [i \in 1..Len(latents) |->
          Condition("keyframe", plan.keyframes[i], latents[i], NoLatent)]

\* Variant with a fault: the soundtracks are taken by the clips' own places.
ReferencesByPlace(plan) ==
    LET soundtracks == EncodeSounds(SoundtracksOf(plan.clips))
        videos == EncodeClips(plan.clips)
        track(i) == IF i \in DOMAIN soundtracks THEN soundtracks[i] ELSE NoLatent
    IN [i \in 1..plan.pictures |->
          Condition("picture", 0, EncodePictures(plan.pictures)[i], NoLatent)]
       \o [i \in 1..Len(plan.clips) |->
             Condition("clip", 0, videos[i],
                       IF plan.clips[i].sound THEN track(i) ELSE NoLatent)]
       \o [i \in 1..plan.sounds |->
             Condition("sound", 0, NoLatent, Latent(<<"encoded", <<"sound", i>>>>, 1, 1))]

\* The clips take the soundtracks one after another, those that have one.
References(plan) ==
    LET soundtracks == EncodeSounds(SoundtracksOf(plan.clips))
        videos == EncodeClips(plan.clips)
        heard(i) == Cardinality({j \in 1..i : plan.clips[j].sound})
        sounds == EncodeSounds([i \in 1..plan.sounds |-> <<"sound", i>>])
    IN [i \in 1..plan.pictures |->
          Condition("picture", 0, EncodePictures(plan.pictures)[i], NoLatent)]
       \o [i \in 1..Len(plan.clips) |->
             Condition("clip", 0, videos[i],
                       IF plan.clips[i].sound THEN soundtracks[heard(i)] ELSE NoLatent)]
       \o [i \in 1..plan.sounds |-> Condition("sound", 0, NoLatent, sounds[i])]

HasReferences(plan) == plan.pictures > 0 \/ plan.clips # <<>> \/ plan.sounds > 0

ConditionsOf(plan) == IF HasReferences(plan) THEN References(plan) ELSE Keyframes(plan)

(***************************************************************************)
(* The sequence: text, conditions, sound, video, each with the time of its *)
(* rows.                                                                   *)
(***************************************************************************)
FrameUnits(frame) == IF frame % 5 = 0 THEN 5 ELSE 20

VideoSpan(frames) == Sum([f \in 1..frames |-> FrameUnits(f - 1)])

VideoTimes(start, latent) ==
    FlattenSeq([f \in 1..latent.frames |->
        [p \in 1..latent.patches |-> start + VideoSpan(f - 1)]])

\* Two channels, one after the other.
AudioTimes(start, latent) ==
    FlattenSeq([channel \in 1..2 |-> [f \in 1..latent.frames |-> start + 3 * (f - 1)]])

Larger(a, b) == IF a > b THEN a ELSE b

Span(condition) ==
    IF condition.kind = "picture" THEN 3
    ELSE Larger(3 * condition.audio.frames, VideoSpan(condition.video.frames))

Segment(kind, of, times) == [kind |-> kind, of |-> of, times |-> times]

\* A keyframe's frame is one of the video's; five thirds of a unit each.
Layout(tokens, conditions, video, sound) ==
    LET starts == [i \in 1..(Len(conditions) + 1) |->
                     3 * tokens + Sum([j \in 1..(i - 1) |->
                         IF conditions[j].kind = "keyframe" THEN 0 ELSE Span(conditions[j])])]
        cursor == starts[Len(conditions) + 1]
        time(i) == IF conditions[i].kind = "keyframe" THEN cursor + 5 * conditions[i].frame
                                                      ELSE starts[i]
        videoOf(i) == Segment("condition video", i, VideoTimes(time(i), conditions[i].video))
        audioOf(i) == Segment("condition audio", i, AudioTimes(time(i), conditions[i].audio))
        pair(i) == IF conditions[i].kind = "keyframe" THEN <<videoOf(i), audioOf(i)>>
                                                      ELSE <<audioOf(i), videoOf(i)>>
    IN <<Segment("text", 0, [i \in 1..tokens |-> 3 * (i - 1)])>>
       \o SelectSeq(FlattenSeq([i \in 1..Len(conditions) |-> pair(i)]),
                    LAMBDA segment : segment.times # <<>>)
       \o <<Segment("audio", 0, AudioTimes(cursor, sound)),
            Segment("video", 0, VideoTimes(cursor, video))>>

Tokens(layout) == Sum([i \in 1..Len(layout) |-> Len(layout[i].times)])

\* Where the rows of a kind of segment begin and end in the sequence.
Rows(layout, kind) ==
    LET i == CHOOSE j \in DOMAIN layout : layout[j].kind = kind
        start == Sum([j \in 1..(i - 1) |-> Len(layout[j].times)])
    IN [start |-> start, end |-> start + Len(layout[i].times)]

(***************************************************************************)
(* What the conditions are to be: each picture, clip and sound of the run  *)
(* once, as the prompt introduces them, a clip with its own soundtrack.    *)
(***************************************************************************)
Wanted(plan) ==
    LET picture(i) == Latent(<<"conditioned", "picture", i, "keyframes", i - 1>>, 1, 1)
        heard(i) == IF plan.clips[i].sound
                    THEN Latent(<<"encoded", <<"soundtrack", i>>>>, 1, 1) ELSE NoLatent
        before(i) == Sum([j \in 1..(i - 1) |-> ClipFrames(plan.clips[j])])
    IN IF plan.keyframes # <<>>
       THEN [i \in 1..Len(plan.keyframes) |->
               Condition("keyframe", plan.keyframes[i], picture(i), NoLatent)]
       ELSE [i \in 1..(plan.pictures + Len(plan.clips) + plan.sounds) |->
               LET c == i - plan.pictures
                   s == c - Len(plan.clips)
               IN IF c <= 0 THEN Condition("picture", 0, picture(i), NoLatent)
                  ELSE IF s <= 0
                  THEN Condition("clip", 0,
                                 Latent(<<"conditioned", "clip", c, "clips", before(c)>>,
                                        ClipFrames(plan.clips[c]), 1), heard(c))
                  ELSE Condition("sound", 0, NoLatent,
                                 Latent(<<"encoded", <<"sound", s>>>>, 1, 1))]

\* The text, the references one after another, and the target each take a time of their own.
Apart(layout, count) ==
    LET place(segment) == CASE segment.kind = "text" -> 0
                            [] segment.kind \in {"audio", "video"} -> count + 1
                            [] OTHER -> segment.of
    IN \A i, j \in DOMAIN layout : place(layout[i]) < place(layout[j]) =>
          \A r \in DOMAIN layout[i].times, t \in DOMAIN layout[j].times :
             layout[i].times[r] < layout[j].times[t]
=============================================================================
