----------------------------- MODULE MetalStreaming -----------------------------
(***************************************************************************)
(* src/crates/mmh3-metal: src/streaming.rs, what of src/lib.rs it stands   *)
(* on, and native/runtime.swift: the units of a model's weights read into  *)
(* regions of host memory the GPU reads where they lie, while it runs      *)
(* behind the thread that encodes its work in batches.                     *)
(*                                                                         *)
(* Three run at their own pace.  The host makes calls of a model, each of  *)
(* which runs the units in their order; the reader fills regions from the  *)
(* disk; and the GPU runs the batches committed to it in order, and lets   *)
(* go of what a batch reads some time after it is done.  A region is read  *)
(* into again only when nothing but the stream holds it, and a buffer let  *)
(* go of is handed out again only when no batch can still read it.         *)
(*                                                                         *)
(* A unit's kernels stand for one: it reads the unit's weights, a buffer   *)
(* the host filled for it and what the unit before it put out, and each    *)
(* buffer is let go of as soon as the kernel that reads it is encoded.     *)
(***************************************************************************)
EXTENDS Integers, Sequences, FiniteSets, SequencesExt

CONSTANTS U,          \* how many units the model has
          Regions,    \* REGIONS: those that units read on the way take turns in
          Keeps,      \* how many units may be kept back
          InFlight,   \* inFlightLimit: batches that run at once
          BatchOps,   \* operations in a batch before it is committed
          Buffers,    \* the device's buffers of one size
          MetalCalls,      \* how many calls the host makes
          Patches,    \* how many patches replace the units' tensors between calls
          MetalMayFail     \* what may fail, of "read", "region", "wrap", "block" and "slow"

ASSUME MetalStreamingAssumption ==
    /\ {U, Regions, InFlight, BatchOps, MetalCalls} \subseteq Nat \ {0}
    /\ Buffers \subseteq Nat \ {0} /\ IsFiniteSet(Buffers) /\ Patches \in Nat
    /\ Keeps \subseteq 0 .. U
    /\ MetalMayFail \subseteq {"read", "region", "wrap", "block", "slow"}

MetalUnits == 1 .. U
Turns == {<<"turn", k>> : k \in 1 .. (Patches + 1) * Regions}   \* the regions units take turns in
Own(u) == <<"own", u>>                              \* the region of a unit kept back
Nowhere == <<"none", 0>>
NoBuffer == 0
Torn == <<0, 0>>            \* what lies in memory that is being written

VARIABLES
    host,      \* where the host is: in which call, at which unit, what it waits for and holds
    stream,    \* Stream: which units stay, which are there, the regions and their count
    pass,      \* Pass: the units to read on the way, and those asked for or read
    reader,    \* the requests the reader has and the answers the host has yet to take
    content,   \* the unit each region holds the bytes of, with its version
    tensors,    \* the region each unit's tensors are buffers over, if they are on the device
    encoding,  \* the batch being encoded
    batches,   \* batches committed that still hold what they read, in order
    waits,     \* `inFlight`: those not known to be done, with the buffers let go of meanwhile
    pool,      \* buffers free to be handed out, and those retired
    data       \* what each buffer holds: which kernel it was written for, or by

commands == <<encoding, batches, waits>>
gpu == <<commands, pool, data>>
metalVars == <<host, stream, pass, reader, content, tensors, gpu>>

-------------------------------------------------------------------------------
(* The runtime: batches, and the pool *)

MetalReads(ops) ==
    (UNION {{ops[k].input, ops[k].from, ops[k].out} : k \in DOMAIN ops}) \ {NoBuffer}
Over(ops) == {ops[k].region : k \in DOMAIN ops}
HeldBy(what(_)) == UNION ({what(encoding)} \cup {what(batches[k].ops) : k \in DOMAIN batches})

(* What else than the stream holds a region: a unit's tensors, and batches that read them. *)
IsOver(r) == r \in HeldBy(Over) \/ \E u \in MetalUnits : tensors[u] = r

(* Variant with a fault: what is let go of waits for nothing once its batch is committed. *)
CommitAndFree ==
    LET number == host.batch + 1
    IN /\ encoding' = <<>>
       /\ batches' = Append(batches, [number |-> number, ops |-> encoding, ran |-> 0])
       /\ waits' = Append(waits, [number |-> number, retired |-> <<>>])
       /\ pool' = [free |-> pool.free \o pool.retired, retired |-> <<>>]

(* `flush` commits the batch being encoded, with what was let go of before. *)
Commit ==
    LET number == host.batch + 1
    IN /\ encoding' = <<>>
       /\ batches' = Append(batches, [number |-> number, ops |-> encoding, ran |-> 0])
       /\ waits' = Append(waits, [number |-> number, retired |-> pool.retired])
       /\ pool' = [pool EXCEPT !.retired = <<>>]

(* The host commits what it encoded, if anything, and waits until `limit` batches are left. *)
Flush(limit, at) ==
    /\ host' = [host EXCEPT !.at = at, !.limit = limit,
                            !.batch = @ + (IF encoding = <<>> THEN 0 ELSE 1)]
    /\ IF encoding = <<>> THEN UNCHANGED <<commands, pool>> ELSE Commit

(* ... and what the oldest batch held back is free once it is done. *)
Wait ==
    /\ host.limit < Len(waits)
    /\ \A k \in DOMAIN batches :
         batches[k].number = waits[1].number => batches[k].ran = Len(batches[k].ops)
    /\ waits' = Tail(waits)
    /\ pool' = [pool EXCEPT !.free = @ \o waits[1].retired]
    /\ UNCHANGED <<host, stream, pass, reader, content, tensors, encoding, batches, data>>

Ready == Len(waits) <= host.limit

(* `synchronize`, once nothing is left under way. *)
MetalSettled == [free |-> pool.free \o pool.retired, retired |-> <<>>]

(* `recycle`: a buffer is free at once only with nothing encoded and nothing under way. *)
Recycled(b) ==
    IF b = NoBuffer THEN pool
    ELSE IF encoding = <<>> /\ waits = <<>> THEN [pool EXCEPT !.free = Append(@, b)]
    ELSE [pool EXCEPT !.retired = Append(@, b)]

(* The buffer the device gives: the last that is free, or one nobody has, if there is one. *)
MetalGiven(free, taken) ==
    LET nobodys == Buffers \ (HeldBy(MetalReads) \cup ToSet(pool.free) \cup ToSet(pool.retired)
                               \cup {host.from} \cup taken
                               \cup UNION {ToSet(waits[k].retired) : k \in DOMAIN waits})
    IN IF free # <<>> THEN {Last(free)}
       ELSE {b \in nobodys : \A c \in nobodys : b <= c}

Popped(free) == IF free = <<>> THEN <<>> ELSE Front(free)

(* The GPU runs what was committed, in order. *)
MetalRun ==
    \E k \in DOMAIN batches :
      /\ batches[k].ran < Len(batches[k].ops)
      /\ \A j \in 1 .. k - 1 : batches[j].ran = Len(batches[j].ops)
      /\ batches' = [batches EXCEPT ![k].ran = @ + 1]
      /\ LET op == batches[k].ops[batches[k].ran + 1]
         IN data' = [data EXCEPT ![op.out] = op.kernel]
      /\ UNCHANGED <<host, stream, pass, reader, content, tensors, encoding, waits, pool>>

(* A batch that is done lets go of its buffers, when Metal gets to it. *)
MetalLetGo ==
    \E k \in DOMAIN batches :
      /\ batches[k].ran = Len(batches[k].ops)
      /\ batches' = RemoveAt(batches, k)
      /\ UNCHANGED <<host, stream, pass, reader, content, tensors, encoding, waits, pool, data>>

-------------------------------------------------------------------------------
(* The reader *)

Inside(u) == <<u, stream.version>>

(* A request is refused when something else holds its region, and otherwise read into it. *)
Read ==
    /\ reader.requests # <<>>
    /\ LET ask == Head(reader.requests)
       IN \/ /\ content[ask.region] # Torn
             /\ ~IsOver(ask.region)
             /\ content' = [content EXCEPT ![ask.region] = Torn]
             /\ UNCHANGED reader
          \/ /\ content[ask.region] = Torn
             /\ content' = [content EXCEPT ![ask.region] = Inside(ask.unit)]
             /\ reader' = [requests |-> Tail(reader.requests),
                           answers |-> Append(reader.answers, ask.region)]
          \/ /\ content[ask.region] = Torn => "read" \in MetalMayFail
             /\ content[ask.region] # Torn => ask.region \in Turns /\ IsOver(ask.region)
             /\ reader' = [requests |-> Tail(reader.requests),
                           answers |-> Append(reader.answers, Nowhere)]
             /\ UNCHANGED content
    /\ UNCHANGED <<host, stream, pass, tensors, gpu>>

-------------------------------------------------------------------------------
(* The stream's regions *)

NoPass == [queue |-> <<>>, next |-> 1, loading |-> <<>>, ready |-> [u \in MetalUnits |-> Nowhere]]

MetalStarts(at) ==
    /\ host = [at |-> at, call |-> 0, unit |-> 1, work |-> 0, limit |-> InFlight,
               batch |-> 0, then |-> "enter", from |-> NoBuffer]
    /\ stream = [kept |-> {}, there |-> {}, settled |-> 0, spare |-> <<>>, used |-> <<>>,
                 regions |-> 0, version |-> 1, patches |-> 0]
    /\ pass = NoPass
    /\ reader = [requests |-> <<>>, answers |-> <<>>]
    /\ content = [r \in Turns \cup {Own(u) : u \in MetalUnits} |-> <<0, 1>>]
    /\ tensors = [u \in MetalUnits |-> Nowhere]
    /\ encoding = <<>> /\ batches = <<>> /\ waits = <<>>
    /\ pool = [free |-> <<>>, retired |-> <<>>]
    /\ data = [b \in Buffers |-> <<0, 0>>]

MetalInit == MetalStarts("idle")

(* `free_region` but for a new one: the oldest region that has run and nothing holds joins the
   spare ones, the last of which is taken.                                                   *)
FreeRegions ==
    LET at == SelectInSeq(stream.used, LAMBDA r : ~IsOver(r))
        used == IF at = 0 THEN stream.used ELSE RemoveAt(stream.used, at)
        spare == IF at = 0 THEN stream.spare ELSE Append(stream.spare, stream.used[at])
    IN IF spare = <<>> THEN [spare |-> <<>>, used |-> used, got |-> Nowhere]
       ELSE [spare |-> Front(spare), used |-> used, got |-> Last(spare)]

(* A region for one made anew: the first that nobody has.  There are as many as can be in use at
   once, of each time the stream was made.                                                      *)
Unmade ==
    LET nobodys == {r \in Turns :
          /\ ~IsOver(r) /\ r \notin ToSet(stream.spare) \cup ToSet(stream.used)
          /\ \A u \in MetalUnits : pass.ready[u] # r
          /\ \A k \in DOMAIN reader.requests : reader.requests[k].region # r
          /\ r \notin ToSet(reader.answers)}
    IN {r \in nobodys : \A other \in nobodys : r[2] <= other[2]}

Sent(u, r) == /\ reader' = [reader EXCEPT !.requests = Append(@, [unit |-> u, region |-> r])]
              /\ pass' = [pass EXCEPT !.loading = Append(@, u), !.next = @ + 1]

(* The units kept back are let go of, with the regions they have of their own. *)
LetGoOfKept == tensors' = [u \in MetalUnits |-> IF u \in stream.there THEN Nowhere ELSE tensors[u]]

(* `insert`, which a patch makes between calls: the reader and its regions are made anew. *)
Patch ==
    /\ host.at = "idle" /\ stream.patches < Patches
    /\ LetGoOfKept
    /\ stream' = [kept |-> {}, there |-> {}, settled |-> 0, spare |-> <<>>, used |-> <<>>,
                  regions |-> 0, version |-> stream.version + 1,
                  patches |-> stream.patches + 1]
    /\ UNCHANGED <<host, pass, reader, content, gpu>>

Fail == host' = [host EXCEPT !.at = "failing"]

(* `settle`, for a call that computes in more than the kept units were chosen beside, lets go of
   them, waits for the work that reads them, ...                                              *)
MetalBegin ==
    /\ host.at = "idle" /\ host.call < MetalCalls
    /\ \E work \in 1 .. 2 :
         host' = [host EXCEPT !.call = @ + 1,
                              !.at = IF stream.settled >= work THEN "open" ELSE "settle",
                              !.work = IF stream.settled >= work THEN stream.settled ELSE work]
    /\ UNCHANGED <<stream, pass, reader, content, tensors, gpu>>

LetGoFirst ==
    /\ host.at = "settle"
    /\ LetGoOfKept
    /\ stream' = [stream EXCEPT !.kept = {}, !.there = {}]
    /\ Flush(0, "settling")
    /\ UNCHANGED <<pass, reader, content, data>>

(* ... and keeps what fits, the units given up last first. *)
MetalSettle ==
    /\ host.at = "settling" /\ Ready
    /\ \E n \in Keeps : stream' = [stream EXCEPT !.kept = 1 .. n, !.settled = host.work]
    /\ pool' = MetalSettled
    /\ host' = [host EXCEPT !.at = "open", !.limit = InFlight]
    /\ UNCHANGED <<pass, reader, content, tensors, commands, data>>

(* Of the first n units, those that are not there. *)
Unread[n \in 0 .. U] ==
    IF n = 0 THEN <<>>
    ELSE IF n \in stream.there THEN Unread[n - 1] ELSE Append(Unread[n - 1], n)

OpenPass ==
    /\ host.at = "open"
    /\ pass' = [NoPass EXCEPT !.queue = Unread[U]]
    /\ host' = [host EXCEPT !.at = "request", !.then = "enter", !.unit = 1]
    /\ UNCHANGED <<stream, reader, content, tensors, gpu>>

(* A region for the next unit of the queue: its own, a free one or a new one.  The count of
   them goes up before one is made.                                                        *)
MetalTake(u) ==
    LET free == FreeRegions
    IN IF u \in stream.kept
       THEN Sent(u, Own(u)) /\ UNCHANGED <<stream, host>>
       ELSE IF free.got # Nowhere
       THEN /\ Sent(u, free.got)
            /\ stream' = [stream EXCEPT !.spare = free.spare, !.used = free.used]
            /\ UNCHANGED host
       ELSE /\ stream.regions < Regions
            /\ stream' = [stream EXCEPT !.regions = @ + 1, !.used = free.used]
            /\ \/ (\E r \in Unmade : Sent(u, r)) /\ UNCHANGED host
               \/ "region" \in MetalMayFail /\ Fail /\ UNCHANGED <<pass, reader>>

CanTake(u) == u \in stream.kept \/ FreeRegions.got # Nowhere \/ stream.regions < Regions

(* `request`: the next units are asked for while there are regions to read them into. *)
MetalRequest ==
    /\ host.at = "request"
    /\ IF pass.next <= Len(pass.queue) /\ CanTake(pass.queue[pass.next])
       THEN MetalTake(pass.queue[pass.next])
       ELSE /\ host' = [host EXCEPT !.at = host.then]
            /\ UNCHANGED <<stream, pass, reader>>
    /\ UNCHANGED <<content, tensors, gpu>>

(* `enter`: a unit kept back and there needs nothing.  One that was read becomes tensors over
   its region, and is the stream's no longer to read into, or stays for good.               *)
Enter ==
    /\ host.at = "enter"
    /\ LET u == host.unit
           r == pass.ready[u]
       IN \/ /\ u \in stream.there
             /\ host' = [host EXCEPT !.at = "encode"]
             /\ UNCHANGED <<stream, pass, tensors>>
          \/ /\ u \notin stream.there /\ r # Nowhere
             /\ pass' = [pass EXCEPT !.ready[u] = Nowhere]
             /\ \/ /\ tensors' = [tensors EXCEPT ![u] = r]
                   /\ stream' = IF u \in stream.kept
                                THEN [stream EXCEPT !.there = @ \cup {u}]
                                ELSE [stream EXCEPT !.used = Append(@, r)]
                   /\ host' = [host EXCEPT !.at = "request", !.then = "encode"]
                \/ "wrap" \in MetalMayFail /\ Fail /\ UNCHANGED <<stream, tensors>>
    /\ UNCHANGED <<reader, content, gpu>>

(* The oldest answer is taken; a read that failed loses its region. *)
Answer ==
    /\ host.at = "enter"
    /\ host.unit \notin stream.there /\ pass.ready[host.unit] = Nowhere
    /\ pass.loading # <<>> /\ reader.answers # <<>>
    /\ LET u == Head(pass.loading)
           r == Head(reader.answers)
       IN /\ pass' = [pass EXCEPT !.loading = Tail(@), !.ready[u] = r]
          /\ IF r # Nowhere THEN UNCHANGED <<host, stream>>
             ELSE /\ stream' = IF u \in stream.kept THEN stream
                               ELSE [stream EXCEPT !.regions = @ - 1]
                  /\ Fail
    /\ reader' = [reader EXCEPT !.answers = Tail(@)]
    /\ UNCHANGED <<content, tensors, gpu>>

(* `wait_for_region`: every region holds a unit that has run, so the work over them is waited
   for, ...                                                                                  *)
Starve ==
    /\ host.at = "enter"
    /\ host.unit \notin stream.there /\ pass.ready[host.unit] = Nowhere
    /\ pass.loading = <<>> /\ pass.queue[pass.next] = host.unit
    /\ Flush(0, "starved")
    /\ UNCHANGED <<stream, pass, reader, content, tensors, data>>

(* ... and then Metal, which may take its time about it. *)
WaitForRegion ==
    /\ host.at = "starved" /\ Ready
    /\ IF CanTake(host.unit)
       THEN /\ pool' = MetalSettled
            /\ LET free == FreeRegions
                   made == free.got = Nowhere
               IN /\ stream' = [stream EXCEPT !.spare = free.spare, !.used = free.used,
                                              !.regions = @ + (IF made THEN 1 ELSE 0)]
                  /\ \E r \in IF made THEN Unmade ELSE {free.got} : Sent(host.unit, r)
            /\ host' = [host EXCEPT !.at = "enter", !.limit = InFlight]
       ELSE /\ \/ "slow" \in MetalMayFail
               \/ \A r \in ToSet(stream.used) : r \notin HeldBy(Over)   \* nothing is to come
            /\ pool' = MetalSettled
            /\ host' = [host EXCEPT !.at = "failing", !.limit = InFlight]
            /\ UNCHANGED <<stream, pass, reader>>
    /\ UNCHANGED <<content, tensors, commands, data>>

-------------------------------------------------------------------------------
(* A unit's kernel *)

MetalKernel == <<host.call, host.unit>>

(* An allocation of size commits the batch being encoded and waits for all but the last. *)
MakeWay ==
    /\ host.at = "encode" /\ Ready
    /\ encoding # <<>>
    /\ Flush(1, "encode")
    /\ UNCHANGED <<stream, pass, reader, content, tensors, data>>

(* A block may fail halfway, as an exchange of a shared step does, ... *)
BlockFails ==
    /\ host.at = "encode" /\ Ready
    /\ "block" \in MetalMayFail
    /\ Fail
    /\ UNCHANGED <<stream, pass, reader, content, tensors, gpu>>

(* ... and does with no buffer left to compute in. *)
OutOfMemory ==
    /\ host.at = "encode" /\ Ready
    /\ \A b \in MetalGiven(pool.free, {}) : MetalGiven(Popped(pool.free), {b}) = {}
    /\ Fail
    /\ UNCHANGED <<stream, pass, reader, content, tensors, gpu>>

(* The host fills a buffer with what the unit takes beside its weights, and the kernel that reads
   it is encoded into another.  What it reads is let go of: what the host filled goes back to
   the device, and what the unit before put out to the pool.                                    *)
Encode ==
    /\ host.at = "encode" /\ Ready
    /\ \E input \in MetalGiven(pool.free, {}) :
       \E out \in MetalGiven(Popped(pool.free), {input}) :
         /\ data' = [data EXCEPT ![input] = MetalKernel]
         /\ encoding' = Append(encoding,
              [region |-> tensors[host.unit], unit |-> Inside(host.unit), kernel |-> MetalKernel,
               input |-> input, from |-> host.from, out |-> out])
         /\ pool' = [free |-> Popped(Popped(pool.free)),
                     retired |-> pool.retired \o (IF host.from = NoBuffer THEN <<>>
                                                  ELSE <<host.from>>)]
         /\ host' = [host EXCEPT !.at = "leave", !.from = out, !.limit = InFlight]
    /\ UNCHANGED <<stream, pass, reader, content, tensors, batches, waits>>

(* `leave`, and the batch that is full is committed. *)
MetalLeave ==
    /\ host.at = "leave" /\ Ready
    /\ IF Len(encoding) >= BatchOps THEN Flush(InFlight, "leave") /\ UNCHANGED tensors
       ELSE /\ tensors' = IF host.unit \in stream.there THEN tensors
                         ELSE [tensors EXCEPT ![host.unit] = Nowhere]
            /\ host' = [host EXCEPT !.at = IF host.unit = U THEN "read" ELSE "enter",
                                    !.unit = IF host.unit = U THEN 1 ELSE @ + 1]
            /\ UNCHANGED <<commands, pool>>
    /\ UNCHANGED <<stream, pass, reader, content, data>>

(* What the call put out is read, once all of its work is done. *)
ReadBack ==
    /\ host.at = "read" /\ Ready
    /\ Flush(0, "ending")
    /\ UNCHANGED <<stream, pass, reader, content, tensors, data>>

(* Dropping the pass waits for the reads under way and takes back the regions, ... *)
TakeBack ==
    /\ host.at \in {"ending", "failing"}
    /\ pass.loading # <<>> /\ reader.answers # <<>>
    /\ LET u == Head(pass.loading)
           r == Head(reader.answers)
       IN stream' = IF u \in stream.kept THEN stream
                    ELSE IF r = Nowhere THEN [stream EXCEPT !.regions = @ - 1]
                    ELSE [stream EXCEPT !.spare = Append(@, r)]
    /\ pass' = [pass EXCEPT !.loading = Tail(@)]
    /\ reader' = [reader EXCEPT !.answers = Tail(@)]
    /\ UNCHANGED <<host, content, tensors, gpu>>

(* ... those of the units read and not run last. *)
Close ==
    /\ host.at \in {"ending", "failing"} /\ Ready
    /\ pass.loading = <<>>
    /\ LET back == SetToSeq({pass.ready[u] : u \in MetalUnits \ stream.kept} \ {Nowhere})
       IN stream' = [stream EXCEPT !.spare = @ \o back]
    /\ pass' = NoPass
    /\ pool' = IF host.at = "ending"
               THEN [free |-> MetalSettled.free \o <<host.from>>, retired |-> <<>>]
               ELSE Recycled(host.from)
    /\ host' = [host EXCEPT !.at = "idle", !.limit = InFlight, !.from = NoBuffer]
    /\ UNCHANGED <<reader, content, tensors, commands, data>>

MetalHost ==
    \/ MetalBegin \/ LetGoFirst \/ MetalSettle \/ OpenPass \/ MetalRequest \/ Enter \/ Answer
    \/ Starve \/ WaitForRegion \/ OutOfMemory \/ Encode \/ MetalLeave \/ ReadBack \/ TakeBack
    \/ Close \/ Wait

MetalNext == MetalHost \/ Patch \/ MakeWay \/ BlockFails \/ Read \/ MetalRun \/ MetalLetGo

(* The host, the reader and the GPU go on with what they have. *)
MetalFairness ==
    /\ WF_metalVars(MetalHost) /\ WF_metalVars(Read)
    /\ WF_metalVars(MetalRun) /\ WF_metalVars(MetalLetGo)
MetalSpec == MetalInit /\ [][MetalNext]_metalVars /\ MetalFairness

-------------------------------------------------------------------------------
(* Properties *)

(* What is queued finds its unit's weights, of the version it was encoded for, where it looks for
   them, and the next kernel to run finds what the host filled for it and what the kernel before
   put out: nothing is read into a region, or handed out again, that a batch has yet to read.   *)
KernelsReadTheirOwn ==
    /\ \A k \in DOMAIN encoding : content[encoding[k].region] = encoding[k].unit
    /\ \A k \in DOMAIN batches : \A j \in batches[k].ran + 1 .. Len(batches[k].ops) :
         LET op == batches[k].ops[j]
             nextToRun == /\ j = batches[k].ran + 1
                          /\ \A i \in 1 .. k - 1 : batches[i].ran = Len(batches[i].ops)
         IN /\ content[op.region] = op.unit
            /\ nextToRun => data[op.input] = op.kernel
            /\ nextToRun /\ op.from # NoBuffer =>
                 data[op.from] = <<op.kernel[1], op.kernel[2] - 1>>
===============================================================================
