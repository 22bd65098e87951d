---------------------------------- MODULE Rdma ----------------------------------
(***************************************************************************)
(* src/crates/mmh3-rdma: payloads moved by one machine in and out of the   *)
(* memory of another, over a queue pair on each path between the two.      *)
(*                                                                         *)
(* Each end opens its ports in the order of their names, makes a queue     *)
(* pair on each, registers its memory on each, and takes the other's       *)
(* addresses by their places.  The end here then makes one call after      *)
(* another: each is cut into a part per path, a part into pieces, and one  *)
(* thread posts the pieces and counts what completes, a path at a time.    *)
(* The cards carry the pieces of a queue pair in the order they were       *)
(* posted, at their own pace, and whoever fails a call closes its end.     *)
(*                                                                         *)
(* Memory is counted in cells: a page has PageCells of them and a piece at *)
(* most ChunkCells.  A cell holds the call its payload was laid down for   *)
(* and where it was laid down.                                             *)
(***************************************************************************)
EXTENDS Integers, Sequences, FiniteSets, Functions

CONSTANTS Names,       \* the ports each end may find up, a set of numbers in the order of names
          Calls,       \* what is moved: records of writing, offset, remote, cells
          Room,        \* cells registered at either end
          PageCells, ChunkCells,
          ReadDepth,   \* pieces a part reads on its link at a time, as the cards allow
          WriteDepth,  \* pieces a part writes on its link at a time
          Patience,    \* rounds in a row with nothing completed before a call gives up
          MayFail      \* what may go wrong, of "open", "link", "register", "join", "post", "wire"
                       \* and the other end's "leave"

ASSUME RdmaAssumption ==
    /\ Names \subseteq Nat /\ IsFiniteSet(Names)
    /\ {Room, PageCells, ChunkCells, ReadDepth, WriteDepth} \subseteq Nat \ {0} /\ Patience \in Nat
    /\ Calls \in Seq([writing : BOOLEAN, offset : Nat, remote : Nat, cells : Nat])
    /\ \A k \in DOMAIN Calls : Calls[k].remote + Calls[k].cells <= Room
    /\ MayFail \subseteq {"open", "link", "register", "join", "post", "wire", "leave"}

Ends == {"here", "there"}
Paths == 1 .. Cardinality(Names)
Cells == 0 .. Room - 1

VARIABLES
    ends,     \* each end: how far it is, its ports, queue pairs, registrations, its buffer
    memory,   \* what lies in each end's cells
    call,     \* the call under way, or how many returned
    loop,     \* `transfer`'s own variables
    wire,     \* on each path, the pieces posted and not yet completed
    cq        \* on each path, completions not yet polled

vars == <<ends, memory, call, loop, wire, cq>>

Least(a, b) == IF a < b THEN a ELSE b
Far(e) == CHOOSE f \in Ends : f # e

-------------------------------------------------------------------------------
(* Device, links and registrations *)

Blank == [c \in Cells |-> <<0, c>>]

Init ==
    /\ ends = [e \in Ends |-> [at |-> "closed", ports |-> {}, pairs |-> {}, joined |-> FALSE,
                               keys |-> {}, held |-> FALSE]]
    /\ memory = [e \in Ends |-> Blank]
    /\ call = [number |-> 0, at |-> "none"]
    /\ loop = [parts |-> <<>>, posted |-> <<>>, flying |-> <<>>, done |-> {}, part |-> 1,
               ready |-> 0, waited |-> 0]
    /\ wire = [p \in Paths |-> <<>>]
    /\ cq = [p \in Paths |-> <<>>]

still == <<memory, call, loop, wire, cq>>

(* How many ports an end has open. *)
Ports(e) == Cardinality(ends[e].ports)

(* The ports that open, of those that are up. *)
Opened == IF "open" \in MayFail THEN SUBSET Names ELSE {Names}

(* `Device::open`: a port that does not open is left out, and with none there is no device.
   The ports are in the order of their names whatever order they were found in: what is made
   on them goes by their places.                                                           *)
Open(e) ==
    /\ ends[e].at = "closed"
    /\ \E S \in Opened :
         ends' = [ends EXCEPT ![e] = [@ EXCEPT !.at = IF S = {} THEN "over" ELSE "open",
                                               !.ports = S]]
    /\ UNCHANGED still

(* `Device::link`: the queue pairs made before the one that could not be made stay. *)
LinkUp(e) ==
    /\ ends[e].at = "open"
    /\ \E last \in 0 .. Ports(e) :
         /\ last < Ports(e) => "link" \in MayFail
         /\ ends' = [ends EXCEPT ![e] = [@ EXCEPT !.pairs = 1 .. last,
                                !.at = IF last = Ports(e) THEN "linked" ELSE "over"]]
    /\ UNCHANGED still

(* `Device::register`: the buffer goes with the call that failed, the registrations it had
   already made do not.                                                                    *)
Register(e) ==
    /\ ends[e].at = "linked"
    /\ \E last \in 0 .. Ports(e) :
         LET all == last = Ports(e)
         IN /\ ~all => "register" \in MayFail
            /\ ends' = [ends EXCEPT ![e] = [@ EXCEPT !.keys = 1 .. last, !.held = all,
                                   !.pairs = IF all THEN ends[e].pairs ELSE {},
                                   !.at = IF all THEN "registered" ELSE "over"]]
    /\ UNCHANGED still

(* `Link::connect`: the two ends' addresses are taken by their places, as many of the one as of
   the other.  An end that cannot take them, or is offered none, drops its link.             *)
Join(e) ==
    /\ ends[e].at = "registered"
    /\ ends[Far(e)].at \in {"registered", "ready", "over"}
    /\ \E fits \in {ends[Far(e)].at # "over" /\ Ports(e) = Ports(Far(e))}
                   \cup IF "join" \in MayFail THEN {FALSE} ELSE {} :
         ends' = [ends EXCEPT ![e] = [@ EXCEPT !.at = "ready", !.joined = fits,
                                               !.pairs = IF fits THEN ends[e].pairs ELSE {}]]
    /\ UNCHANGED still

(* Variant with a fault: the region's memory goes without its registrations. *)
DroppedRegistered(e) == [ends[e] EXCEPT !.at = "over", !.held = FALSE]

(* `Drop` of a link and then of a region: what is on the link goes with its queue pairs, and
   the memory is given back once no path has it.                                            *)
Dropped(e) == [ends[e] EXCEPT !.at = "over", !.pairs = {}, !.joined = FALSE, !.keys = {},
                              !.held = FALSE]

Close(e) ==
    /\ ends' = [ends EXCEPT ![e] = Dropped(e)]
    /\ IF e = "here" THEN wire' = [p \in Paths |-> <<>>] /\ cq' = [p \in Paths |-> <<>>]
                     ELSE UNCHANGED <<wire, cq>>

(* The other end's session ends, whatever is under way. *)
Leave ==
    /\ "leave" \in MayFail
    /\ ends["there"].at = "ready"
    /\ Close("there")
    /\ UNCHANGED <<memory, call, loop>>

-------------------------------------------------------------------------------
(* `Region::parted` and `transfer` *)

Now == Calls[call.number]

(* Which end a call takes its payload from, and the places it takes it from and puts it at. *)
Source(c) == IF c.writing THEN "here" ELSE "there"
From(c) == IF c.writing THEN c.offset ELSE c.remote
To(c) == IF c.writing THEN c.remote ELSE c.offset

(* The paths both ends and the link have. *)
Shared == Least(Cardinality(ends["here"].keys),
                Least(Cardinality(ends["here"].pairs), Cardinality(ends["there"].keys)))

(* Variant with a fault: the last part is no larger than the others. *)
PartedEvenly(cells, paths) ==
    LET each == ((cells \div paths) \div PageCells) * PageCells
    IN [p \in 1 .. paths |-> [start |-> (p - 1) * each, cells |-> each]]

(* A part per path, of whole pages but for the last, which takes what is left. *)
Parted(cells, paths) ==
    LET each == ((cells \div paths) \div PageCells) * PageCells
    IN [p \in 1 .. paths |->
          [start |-> (p - 1) * each,
           cells |-> IF p = paths THEN cells - (p - 1) * each ELSE each]]

(* The next payload is laid down and asked to be moved.  One that does not fit the memory here
   is refused, as is one with no path.                                                       *)
Begin ==
    /\ call.at \in {"none", "moved"}
    /\ call.number < Len(Calls)
    /\ ends["here"].at = "ready" /\ ends["there"].at \in {"ready", "over"}
    /\ LET k == call.number + 1
           c == Calls[k]
           refused == c.offset + c.cells > Room \/ Shared = 0
           parts == Parted(c.cells, Shared)
       IN /\ memory' = [memory EXCEPT ![Source(c)] = [a \in Cells |->
                           IF a \in From(c) .. From(c) + c.cells - 1 THEN <<k, a>> ELSE @[a]]]
          /\ call' = [number |-> k, at |-> IF refused THEN "failed" ELSE "moving"]
          /\ loop' = IF refused THEN loop
                     ELSE [parts |-> parts, posted |-> [p \in 1 .. Shared |-> 0],
                           flying |-> [p \in 1 .. Shared |-> 0],
                           done |-> {p \in 1 .. Shared : parts[p].cells = 0},
                           part |-> 1, ready |-> 0, waited |-> 0]
    /\ UNCHANGED <<ends, wire, cq>>

(* A write needs none of the other card's read resources. *)
Depth == IF Now.writing THEN WriteDepth ELSE ReadDepth

(* The pieces a part has room for on its link. *)
Fresh(p) ==
    LET rest == loop.parts[p].cells - loop.posted[p]
        some == (rest + ChunkCells - 1) \div ChunkCells
    IN [i \in 1 .. Least(some, Depth - loop.flying[p]) |->
          LET at == loop.parts[p].start + loop.posted[p] + (i - 1) * ChunkCells
          IN [source |-> Source(Now), from |-> at + From(Now), to |-> at + To(Now),
              cells |-> Least(ChunkCells, rest - (i - 1) * ChunkCells)]]

Moving == call.at = "moving"
Cursor(p) == Moving /\ loop.part = p /\ p \in DOMAIN loop.parts

(* Pieces are posted while there is room for them; one the link does not take ends the call. *)
Post(p) ==
    /\ Cursor(p) /\ p \notin loop.done
    /\ Fresh(p) # <<>>
    /\ \E n \in 0 .. Len(Fresh(p)) :
         LET pieces == SubSeq(Fresh(p), 1, n)
         IN /\ n < Len(Fresh(p)) => "post" \in MayFail
            /\ wire' = [wire EXCEPT ![p] = @ \o pieces]
            /\ loop' = [loop EXCEPT
                  !.posted[p] = Least(@ + n * ChunkCells, loop.parts[p].cells),
                  !.flying[p] = @ + n]
            /\ call' = IF n < Len(Fresh(p)) THEN [call EXCEPT !.at = "failed"] ELSE call
    /\ UNCHANGED <<ends, memory, cq>>

(* What has completed is counted.  One that did not succeed ends the call where it is. *)
Poll(p) ==
    /\ Cursor(p) /\ p \notin loop.done
    /\ Fresh(p) = <<>>
    /\ LET ready == Len(cq[p])
           flying == loop.flying[p] - ready
       IN IF "failed" \in Range(cq[p])
          THEN call' = [call EXCEPT !.at = "failed"] /\ UNCHANGED loop
          ELSE /\ loop' = [loop EXCEPT
                     !.flying[p] = flying,
                     !.done = IF flying = 0 /\ loop.posted[p] = loop.parts[p].cells
                              THEN @ \cup {p} ELSE @,
                     !.part = p + 1, !.ready = @ + ready]
               /\ UNCHANGED call
    /\ cq' = [cq EXCEPT ![p] = <<>>]
    /\ UNCHANGED <<ends, memory, wire>>

(* A part that is done is passed over. *)
PassOver(p) ==
    /\ Cursor(p) /\ p \in loop.done
    /\ loop' = [loop EXCEPT !.part = p + 1]
    /\ UNCHANGED <<ends, memory, call, wire, cq>>

(* Variant with a fault: what any call waited counts for this one, and nothing ends a wait. *)
RoundForever ==
    /\ Moving /\ loop.part > Len(loop.parts)
    /\ IF loop.done = DOMAIN loop.parts
       THEN call' = [call EXCEPT !.at = "moved"] /\ UNCHANGED loop
       ELSE loop' = [loop EXCEPT !.part = 1, !.ready = 0] /\ UNCHANGED call
    /\ UNCHANGED <<ends, memory, wire, cq>>

(* After the last part: all done, or around again, or too many rounds with nothing. *)
Round ==
    /\ Moving /\ loop.part > Len(loop.parts)
    /\ IF loop.done = DOMAIN loop.parts
       THEN call' = [call EXCEPT !.at = "moved"] /\ UNCHANGED loop
       ELSE IF loop.ready = 0 /\ loop.waited >= Patience
       THEN call' = [call EXCEPT !.at = "failed"] /\ UNCHANGED loop
       ELSE /\ loop' = [loop EXCEPT !.part = 1, !.ready = 0,
                                    !.waited = IF loop.ready > 0 THEN 0 ELSE @ + 1]
            /\ UNCHANGED call
    /\ UNCHANGED <<ends, memory, wire, cq>>

(* Variant with a fault: what did not come is asked for once more, on the same link. *)
GiveUpAndAsk ==
    /\ call.at = "failed"
    /\ ends["here"].at # "over"
    /\ call' = [call EXCEPT !.at = "moved"]
    /\ UNCHANGED <<ends, memory, loop, wire, cq>>

(* The callers keep no link a call failed on: the thread, or the session, that made the call
   ends and drops what it holds.                                                            *)
GiveUp ==
    /\ call.at = "failed"
    /\ ends["here"].at # "over"
    /\ Close("here")
    /\ UNCHANGED <<memory, call, loop>>

Finish ==
    /\ ends["here"].at = "ready"
    /\ call.at \in {"none", "moved"}
    /\ Close("here")
    /\ UNCHANGED <<memory, call, loop>>

-------------------------------------------------------------------------------
(* The cards *)

(* What a path carries reaches the other end if that end joined and its memory has a key there. *)
Reached(p) == /\ ends["there"].joined /\ ends["here"].joined
              /\ p \in ends["here"].keys \cap ends["there"].keys

(* The first piece of a path is carried, and completes here. *)
Carry(p) ==
    /\ wire[p] # <<>>
    /\ LET piece == Head(wire[p])
       IN \/ /\ Reached(p)
             /\ memory' = [memory EXCEPT ![Far(piece.source)] = [a \in Cells |->
                   IF a \in piece.to .. piece.to + piece.cells - 1
                   THEN memory[piece.source][a - piece.to + piece.from] ELSE @[a]]]
             /\ cq' = [cq EXCEPT ![p] = Append(@, "ok")]
             /\ wire' = [wire EXCEPT ![p] = Tail(@)]
          \/ /\ Reached(p) => "wire" \in MayFail
             /\ cq' = [cq EXCEPT ![p] = @ \o [i \in DOMAIN wire[p] |-> "failed"]]
             /\ wire' = [wire EXCEPT ![p] = <<>>]
             /\ UNCHANGED memory
    /\ UNCHANGED <<ends, call, loop>>

Over == ends["here"].at = "over" /\ UNCHANGED vars

Own == Begin \/ Round \/ GiveUp \/ Finish \/ \E p \in Paths : Post(p) \/ Poll(p) \/ PassOver(p)
Setup == \E e \in Ends : Open(e) \/ LinkUp(e) \/ Register(e) \/ Join(e)
Next == Setup \/ Own \/ Leave \/ Over \/ \E p \in Paths : Carry(p)

(* The thread that moves payloads runs on; the cards and the other end need not. *)
Fairness == WF_vars(Own)
Spec == Init /\ [][Next]_vars /\ Fairness

-------------------------------------------------------------------------------
(* Properties *)

(* What a call does to both ends' memory, whatever it is cut into: the payload is laid down at
   its source, and lies at the other end too.                                                *)
Moved(k, before) ==
    LET c == Calls[k] IN
    [e \in Ends |-> [a \in Cells |->
        IF e = Source(c) /\ a \in From(c) .. From(c) + c.cells - 1 THEN <<k, a>>
        ELSE IF e # Source(c) /\ a \in To(c) .. To(c) + c.cells - 1 THEN <<k, a - To(c) + From(c)>>
        ELSE before[e][a]]]

(* Both ends' memory once the first k calls did what they say. *)
Ideal[k \in 0 .. Len(Calls)] ==
    IF k = 0 THEN [e \in Ends |-> Blank] ELSE Moved(k, Ideal[k - 1])

(* A call that returns without an error has moved its whole payload to its place and nothing
   else, over however many paths, in parts and pieces that completed in whatever order of the
   paths (`transfer`, and `parted`'s cut by pages).                                          *)
LandsWhole == call.at = "moved" => memory = Ideal[call.number]

(* Between two calls nothing of the first is left on the link: a completion still to come would
   be counted for a piece of the next, since pieces carry no name of their own.              *)
QuietBetween ==
    call.at \in {"none", "moved"} => \A p \in Paths : wire[p] = <<>> /\ cq[p] = <<>>

(* The cards read and write nobody's memory but what a region at either end still owns, also
   when an end leaves, or gives up, with pieces under way (`Drop` of Region and of Link).     *)
TouchesWhatIsHeld ==
    [][(\E p \in Paths : Carry(p)) /\ memory' # memory
       => ends["here"].held /\ ends["there"].held]_vars

(* A call returns, moved or not, whatever the cards and the other end do. *)
EveryCallReturns == call.at = "moving" ~> call.at # "moving"
===============================================================================
