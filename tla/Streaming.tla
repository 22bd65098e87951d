------------------------------- MODULE Streaming -------------------------------
(***************************************************************************)
(* crates/mmh3-cuda/src/streaming.rs: a model whose units (layers, blocks) *)
(* do not all fit on the card reads some of them again every time it runs  *)
(* them.  Those take turns in the two regions of one buffer.  Four actors  *)
(* work at once: the host thread that runs the model, the thread that      *)
(* reads units from the disk through pinned memory (`Loader`), the card's  *)
(* default stream with the kernels, and its copy stream.  The host and the *)
(* loader talk over two channels; the streams wait for each other through  *)
(* events.                                                                 *)
(*                                                                         *)
(* An event is the place in its stream where it was last recorded: who     *)
(* waits for it waits until the stream is through to that place.           *)
(***************************************************************************)
EXTENDS Integers, Sequences, SequencesExt, FiniteSets

CONSTANTS Units,      \* how many units the model has, 0 .. Units - 1
          Large,      \* the units too large for one region
          Orders,     \* the orders in which a call may run units
          GiveUp,     \* the order in which units are given up
          Calls,      \* bound: calls of the model
          Changes,    \* bound: times a call or another model makes it give up
          MayFail     \* which of Failures happen

(* A launch, the read of a unit on the way, the read of a unit to keep back. *)
Failures == {"launch", "read", "settle"}

UnitSet == 0 .. Units - 1
Halves == {0, 1}
None == -1

ASSUME StreamingAssumption ==
    /\ Units \in Nat \ {0} /\ Calls \in Nat /\ Changes \in Nat
    /\ Large \subseteq UnitSet
    /\ Orders \subseteq Seq(UnitSet)
    /\ GiveUp \in Seq(UnitSet) /\ Len(GiveUp) = Units
    /\ \A u \in UnitSet : \E i \in 1 .. Units : GiveUp[i] = u
    /\ MayFail \subseteq Failures

VARIABLES
    kept,      \* where each unit's weights are: "tensors", "buffer" or "read"
    settled,   \* what is kept back fits beside the buffers of the calls so far
    most,      \* how many units a settle may keep back
    holds,     \* the unit each region holds whole
    pc,        \* where the host stands
    run,       \* what is left of the order of this call
    queue,     \* the units read on the way that were not asked for yet
    busy,      \* the unit each region is taken by
    loading,   \* units asked for and not answered
    calls,     \* calls begun
    changes,   \* times units were given up
    requests,  \* channel to the loader
    answers,   \* channel from it: whether the read went well
    reading,   \* what the loader is at: nothing or a request
    pinned,    \* the unit in each half of the pinned memory
    kernels,   \* the default stream: kernels not run
    copies,    \* the copy stream: copies not done
    launched,  \* kernels ever launched
    issued,    \* copies ever issued
    done,      \* event: kernels launched when each region was last left
    loaded,    \* event: copies issued when each half was last copied from
    region,    \* the unit whose weights are in each region
    buffer     \* the units whose weights are in the buffer kept for them

device == <<kernels, copies, region, buffer>>
events == <<launched, issued, done, loaded>>
loader == <<requests, answers, reading, pinned>>
model == <<kept, settled, most, holds>>
call == <<pc, run, queue, busy, loading>>
vars == <<model, call, calls, changes, loader, device, events>>

Reads(k) == {u \in UnitSet : k[u] = "read"}

(* `assign`: the units read on the way alternate between the regions, in the *)
(* order of the units; a large one takes both.                               *)
RegionOf(u) ==
    IF u \in Large THEN Halves
    ELSE {Cardinality({v \in Reads(kept) \ Large : v < u}) % 2}

Nobody == [h \in Halves |-> None]

(* The units of a sequence that are read on the way. *)
ReadOf(units) ==
    LET upto[n \in 0 .. Len(units)] ==
          IF n = 0 THEN <<>>
          ELSE IF kept[units[n]] = "read" THEN Append(upto[n - 1], units[n]) ELSE upto[n - 1]
    IN upto[Len(units)]

(* The streams have come this far. *)
Run == launched - Len(kernels)
Copied == issued - Len(copies)

Starts(at) ==
    /\ kept = [u \in UnitSet |-> "tensors"]
    /\ settled = FALSE /\ most = Units
    /\ holds = Nobody
    /\ pc = at /\ run = <<>> /\ queue = <<>> /\ busy = Nobody /\ loading = <<>>
    /\ calls = 0 /\ changes = 0
    /\ requests = <<>> /\ answers = <<>> /\ reading = <<>>
    /\ pinned = Nobody
    /\ kernels = <<>> /\ copies = <<>>
    /\ launched = 0 /\ issued = 0
    /\ done = [h \in Halves |-> 0] /\ loaded = [h \in Halves |-> 0]
    /\ region = Nobody
    /\ buffer = {}

Init == Starts("idle")

-------------------------------------------------------------------------------
(* Between two calls: `give_up` for another model, `make_room` after a call   *)
(* that ran out of memory, `start_reading` of a model that does not fit.      *)

MayChange == pc = "idle" /\ changes < Changes /\ changes' = changes + 1

(* `assign` moves units between regions. *)
Forget == holds' = Nobody

(* `give_up` and `make_room` of a model that reads what it does not keep back: *)
(* every unit is read on the way, and `make_room` has fewer kept back.         *)
LetGo ==
    /\ MayChange
    /\ Reads(kept) # UnitSet
    /\ kept' = [u \in UnitSet |-> "read"]
    /\ most' \in {most} \cup (IF \A u \in UnitSet : kept[u] # "tensors"
                              THEN {Cardinality(UnitSet \ Reads(kept)) - 1} ELSE {})
    /\ settled' = FALSE
    /\ buffer' = {}
    /\ Forget
    /\ UNCHANGED <<call, calls, loader, kernels, copies, region, events>>

(* `make_room` of a model that still has units as a whole load left them: the *)
(* next of those, and more when there is no room yet for the regions.         *)
ReadOneMore ==
    /\ MayChange
    /\ \E last \in 1 .. Units :
        LET gone == {GiveUp[i] : i \in {j \in 1 .. last : kept[GiveUp[j]] = "tensors"}} IN
        /\ kept[GiveUp[last]] = "tensors"
        /\ Reads(kept) # {} => Cardinality(gone) = 1
        /\ kept' = [u \in UnitSet |-> IF u \in gone THEN "read" ELSE kept[u]]
    /\ settled' = FALSE
    /\ Forget
    /\ UNCHANGED <<most, call, calls, loader, device, events>>

-------------------------------------------------------------------------------
(* A call. *)

(* `settle` asks for as many of the units given up last as there is memory.   *)
(* They pass through the halves of the pinned memory in turn.                 *)
Given == [i \in 1 .. Units |-> GiveUp[Units + 1 - i]]
Candidates == ReadOf(Given)

Request(u, halves, gated) == [unit |-> u, halves |-> halves, gated |-> gated]

Settle ==
    /\ pc = "idle" /\ calls < Calls
    /\ ~settled /\ Reads(kept) # {}
    /\ \E n \in 0 .. Len(Candidates) :
        /\ n <= most
        /\ loading' = SubSeq(Candidates, 1, n)
        /\ requests' = requests \o
              [i \in 1 .. n |->
                  Request(Candidates[i],
                          IF Candidates[i] \in Large THEN Halves ELSE {(i - 1) % 2}, FALSE)]
    /\ pc' = "settling"
    /\ queue' = <<>>
    /\ UNCHANGED <<model, run, busy, calls, changes, answers, reading, pinned, device, events>>

(* It waits for every answer; the first that failed ends the call there, with *)
(* the others still to come.                                                  *)
SettleAnswer ==
    /\ pc = "settling"
    /\ loading # <<>> /\ answers # <<>>
    /\ answers' = Tail(answers)
    /\ IF Head(answers)
       THEN /\ loading' = Tail(loading)
            /\ queue' = Append(queue, Head(loading))
            /\ UNCHANGED <<pc, calls>>
       ELSE loading' = <<>> /\ queue' = <<>> /\ pc' = "idle" /\ calls' = calls + 1
    /\ UNCHANGED <<model, run, busy, changes, requests, reading, pinned, device, events>>

(* It waits for the copy stream, and the units are where they are kept. *)
Settled ==
    /\ pc = "settling" /\ loading = <<>>
    /\ copies = <<>>
    /\ kept' = [u \in UnitSet |-> IF u \in ToSet(queue) THEN "buffer" ELSE kept[u]]
    /\ settled' = TRUE
    /\ Forget
    /\ pc' = "idle" /\ queue' = <<>>
    /\ UNCHANGED <<most, run, busy, loading, calls, changes, loader, device, events>>

(* `pass` *)
Begin ==
    /\ pc = "idle" /\ calls < Calls
    /\ settled \/ Reads(kept) = {}
    /\ calls' = calls + 1
    /\ \E order \in Orders :
        /\ run' = order
        /\ queue' = ReadOf(order)
    /\ busy' = Nobody
    /\ loading' = <<>>
    /\ pc' = "asking"
    /\ UNCHANGED <<model, changes, loader, device, events>>

Free(u) == \A h \in RegionOf(u) : busy[h] = None

Whole(u) == \A h \in RegionOf(u) : holds[h] = u

Taken(u) == [h \in Halves |-> IF h \in RegionOf(u) THEN u ELSE busy[h]]

Unheld(u) == [h \in Halves |-> IF h \in RegionOf(u) THEN None ELSE holds[h]]

(* Variant with a fault: an answer is expected for a unit that is not read. *)
AskForHeld(u) ==
    /\ queue' = Tail(queue)
    /\ busy' = Taken(u)
    /\ loading' = Append(loading, u)
    /\ IF Whole(u)
       THEN UNCHANGED <<holds, requests>>
       ELSE /\ holds' = Unheld(u)
            /\ requests' = Append(requests, Request(u, RegionOf(u), TRUE))

(* `request`, one unit of the queue: a region that still holds it whole since *)
(* the last call needs no reading.                                            *)
AskFor(u) ==
    /\ queue' = Tail(queue)
    /\ busy' = Taken(u)
    /\ IF Whole(u)
       THEN UNCHANGED <<holds, requests, loading>>
       ELSE /\ holds' = Unheld(u)
            /\ requests' = Append(requests, Request(u, RegionOf(u), TRUE))
            /\ loading' = Append(loading, u)

Ask ==
    /\ pc = "asking"
    /\ IF queue # <<>> /\ Free(Head(queue))
       THEN AskFor(Head(queue)) /\ UNCHANGED pc
       ELSE pc' = "entering" /\ UNCHANGED <<queue, busy, holds, requests, loading>>
    /\ UNCHANGED <<kept, settled, most, run, calls, changes, answers, reading, pinned, device,
                   events>>

Loading(u) == u \in ToSet(loading)

Held(u, well) ==
    [h \in Halves |-> IF h \notin RegionOf(u) THEN holds[h] ELSE IF well THEN u ELSE None]

(* `enter` takes answers until its unit's has come; a failed read fails the   *)
(* call.                                                                      *)
EnterAnswer ==
    /\ pc = "entering" /\ run # <<>>
    /\ Loading(Head(run))
    /\ answers # <<>>
    /\ answers' = Tail(answers)
    /\ loading' = Tail(loading)
    /\ IF Head(answers)
       THEN holds' = Held(Head(loading), TRUE) /\ UNCHANGED pc
       ELSE pc' = "failed" /\ UNCHANGED holds
    /\ UNCHANGED <<kept, settled, most, run, queue, busy, calls, changes, requests, reading, pinned,
                   device, events>>

(* What the kernels of a unit wait for. *)
LoadedAt(u) ==
    IF kept[u] # "read" THEN 0
    ELSE CHOOSE n \in 0 .. issued :
            /\ \A h \in RegionOf(u) : loaded[h] <= n
            /\ \E h \in RegionOf(u) : loaded[h] = n

(* The rest of `enter`, whose assertion is that the pass has come to the unit, *)
(* and the kernels of the unit.                                                *)
Launch ==
    /\ pc = "entering" /\ run # <<>>
    /\ kept[Head(run)] = "read" =>
          ~Loading(Head(run)) /\ \E h \in Halves : busy[h] = Head(run)
    /\ LET u == Head(run)
           from == IF kept[u] = "read" THEN RegionOf(u) ELSE {}
       IN kernels' = Append(kernels, [unit |-> u, call |-> calls, from |-> from,
                                      after |-> LoadedAt(u)])
    /\ launched' = launched + 1
    /\ pc' \in {"leaving"} \cup (IF "launch" \in MayFail THEN {"failed"} ELSE {})
    /\ UNCHANGED <<model, run, queue, busy, loading, calls, changes, loader, copies, region, buffer,
                   issued, done, loaded>>

(* Variant with a fault: the region is free while its kernels run. *)
DoneBefore == IF launched = 0 THEN 0 ELSE launched - 1

DoneNow == launched

(* `leave` records when the region is free again, and asks for more. *)
Leave ==
    /\ pc = "leaving"
    /\ LET u == Head(run) IN
       IF kept[u] = "read"
       THEN /\ done' = [h \in Halves |-> IF h \in RegionOf(u) THEN DoneNow ELSE done[h]]
            /\ busy' = [h \in Halves |-> IF h \in RegionOf(u) THEN None ELSE busy[h]]
            /\ pc' = "asking"
       ELSE UNCHANGED <<done, busy>> /\ pc' = "entering"
    /\ run' = Tail(run)
    /\ UNCHANGED <<model, queue, loading, calls, changes, loader, device, launched, issued, loaded>>

(* The call reads its outputs, which waits for its kernels. *)
End ==
    /\ pc = "entering" /\ run = <<>>
    /\ kernels = <<>>
    /\ pc' = "ending"
    /\ UNCHANGED <<model, run, queue, busy, loading, calls, changes, loader, device, events>>

(* Variant with a fault: what a failed read was to fill counts as whole. *)
DropTrusting ==
    /\ pc \in {"ending", "failed"}
    /\ loading # <<>> /\ answers # <<>>
    /\ answers' = Tail(answers)
    /\ loading' = Tail(loading)
    /\ holds' = IF kept[Head(loading)] = "read" THEN Held(Head(loading), TRUE) ELSE holds
    /\ UNCHANGED <<kept, settled, most, pc, run, queue, busy, calls, changes, requests, reading,
                   pinned, device, events>>

(* Variant with a fault: the answers still owed are left to the next call. *)
DropAtOnce ==
    /\ pc \in {"ending", "failed"}
    /\ loading # <<>>
    /\ loading' = <<>>
    /\ UNCHANGED <<model, pc, run, queue, busy, calls, changes, loader, device, events>>

(* `Drop` of the pass takes the answers still owed. *)
Drop ==
    /\ pc \in {"ending", "failed"}
    /\ loading # <<>> /\ answers # <<>>
    /\ answers' = Tail(answers)
    /\ loading' = Tail(loading)
    /\ holds' = IF kept[Head(loading)] = "read" THEN Held(Head(loading), Head(answers)) ELSE holds
    /\ UNCHANGED <<kept, settled, most, pc, run, queue, busy, calls, changes, requests, reading,
                   pinned, device, events>>

Return ==
    /\ pc \in {"ending", "failed"}
    /\ loading = <<>>
    /\ pc' = "idle" /\ run' = <<>> /\ queue' = <<>> /\ busy' = Nobody
    /\ UNCHANGED <<model, loading, calls, changes, loader, device, events>>

-------------------------------------------------------------------------------
(* The loader's thread. *)

Take ==
    /\ reading = <<>> /\ requests # <<>>
    /\ reading' = <<Head(requests)>>
    /\ requests' = Tail(requests)
    /\ UNCHANGED <<model, call, calls, changes, answers, pinned, device, events>>

PinnedIsFree(request) == \A h \in request.halves : loaded[h] <= Copied

(* The kernels a copy waits for. *)
DoneAt(request) ==
    IF ~request.gated THEN 0
    ELSE CHOOSE n \in 0 .. launched :
            /\ \A h \in request.halves : done[h] <= n
            /\ \E h \in request.halves : done[h] = n

(* `load`: the copies out of the pinned memory are done, the unit is read     *)
(* into it, and its copy is issued and answered for.                          *)
Load ==
    /\ reading # <<>>
    /\ LET request == Head(reading) IN
       /\ PinnedIsFree(request)
       /\ pinned' = [h \in Halves |-> IF h \in request.halves THEN request.unit ELSE pinned[h]]
       /\ copies' = Append(copies, [unit |-> request.unit, through |-> request.halves,
                                    into |-> IF request.gated THEN request.halves ELSE {},
                                    after |-> DoneAt(request)])
       /\ issued' = issued + 1
       /\ loaded' = [h \in Halves |-> IF h \in request.halves THEN issued' ELSE loaded[h]]
    /\ answers' = Append(answers, TRUE)
    /\ reading' = <<>>
    /\ UNCHANGED <<model, call, calls, changes, requests, kernels, region, buffer, launched, done>>

(* A read of the disk that fails. *)
LoadFails ==
    /\ reading # <<>>
    /\ (IF Head(reading).gated THEN "read" ELSE "settle") \in MayFail
    /\ PinnedIsFree(Head(reading))
    /\ pinned' = [h \in Halves |-> IF h \in Head(reading).halves THEN None ELSE pinned[h]]
    /\ answers' = Append(answers, FALSE)
    /\ reading' = <<>>
    /\ UNCHANGED <<model, call, calls, changes, requests, device, events>>

-------------------------------------------------------------------------------
(* The card. *)

(* The kernels of a unit read its weights until they are through. *)
Kernel ==
    /\ kernels # <<>>
    /\ Head(kernels).after <= Copied
    /\ kernels' = Tail(kernels)
    /\ UNCHANGED <<model, call, calls, changes, loader, copies, region, buffer, events>>

(* A copy brings what is in the pinned memory, a half at a time. *)
Copy ==
    /\ copies # <<>>
    /\ Head(copies).after <= Run
    /\ LET copy == Head(copies)
           whole == \A h \in copy.through : pinned[h] = copy.unit
       IN  /\ region' = [h \in Halves |-> IF h \in copy.into THEN pinned[h] ELSE region[h]]
           /\ buffer' = IF copy.into = {} /\ whole THEN buffer \cup {copy.unit} ELSE buffer
    /\ copies' = Tail(copies)
    /\ UNCHANGED <<model, call, calls, changes, loader, kernels, events>>

-------------------------------------------------------------------------------
Host ==
    \/ Settle \/ SettleAnswer \/ Settled \/ Begin \/ Ask \/ EnterAnswer \/ Launch \/ Leave
    \/ End \/ Drop \/ Return

Loader == Take \/ Load \/ LoadFails

Next == Host \/ LetGo \/ ReadOneMore \/ Loader \/ Kernel \/ Copy

Fairness == WF_vars(Host) /\ WF_vars(Loader) /\ WF_vars(Kernel) /\ WF_vars(Copy)

Spec == Init /\ [][Next]_vars /\ Fairness

-------------------------------------------------------------------------------
(* A kernel of a call that is not given up reads its own unit's weights from  *)
(* the time it may start until it is through, whatever the loader and the     *)
(* copies do meanwhile.                                                       *)
KernelsReadTheirUnit ==
    kernels # <<>> =>
        LET kernel == Head(kernels) IN
        (kernel.call = calls /\ pc \notin {"failed", "idle"} /\ kernel.after <= Copied) =>
            \A h \in kernel.from : region[h] = kernel.unit

(* What is kept back on the card was copied there whole, and a region that    *)
(* counts as holding a unit does hold it once the copies under way have       *)
(* landed, so that a later call may run from either without reading.          *)
HoldsWhatItSays ==
    /\ \A u \in UnitSet : kept[u] = "buffer" => u \in buffer
    /\ \A h \in Halves :
          (holds[h] # None /\ loaded[h] <= Copied) => region[h] = holds[h]

(* Between two calls nothing is owed: the next call reads only its answers.   *)
NothingOwed == pc = "idle" => requests = <<>> /\ answers = <<>> /\ reading = <<>>
===============================================================================
