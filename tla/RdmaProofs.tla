------------------------------ MODULE RdmaProofs -------------------------------
(***************************************************************************)
(* What the transport of Rdma promises, for any number of ports, any calls *)
(* and any sizes, and whatever fails: a call that returns has moved its    *)
(* whole payload to its place and nothing else, leaves nothing on the link *)
(* for the next one, and the cards touch no memory that was given back.    *)
(***************************************************************************)
EXTENDS Rdma, WellFoundedInduction, FiniteSetTheorems, TLAPS

-------------------------------------------------------------------------------
(* The inductive invariant.                                                *)

Part == [start : Nat, cells : Nat]
Piece == [source : Ends, from : Nat, to : Nat, cells : Nat]

(* The types of all but the ends; a memory is no more than what lies in its cells. *)
TypeOK ==
    /\ memory = [e \in Ends |-> [a \in Cells |-> memory[e][a]]]
    /\ call \in [number : 0 .. Len(Calls), at : {"none", "moving", "moved", "failed"}]
    /\ loop \in [parts : Seq(Part), posted : Seq(Nat), flying : Seq(Nat), done : SUBSET Nat,
                 part : Nat, ready : Nat, waited : Nat]
    /\ wire \in [Paths -> Seq(Piece)]
    /\ cq \in [Paths -> Seq({"ok", "failed"})]

(* What an end has a key or a queue pair for is counted, and one that joined has its memory
   registered.                                                                               *)
EndHolds(end) ==
    /\ DOMAIN end = {"at", "ports", "pairs", "joined", "keys", "held"}
    /\ IsFiniteSet(end.ports)
    /\ \E n \in Nat : end.keys = 1 .. n
    /\ \E n \in Nat : end.pairs = 1 .. n
    /\ end.joined \in BOOLEAN
    /\ end.joined => end.at = "ready"
    /\ end.joined \/ end.at = "registered" => end.held

EndsHold == DOMAIN ends = Ends /\ \A e \in Ends : EndHolds(ends[e])

Quiet(p) == wire[p] = <<>> /\ cq[p] = <<>>

(* The paths the call under way has a part on. *)
Busy == Paths \cap DOMAIN loop.parts

(* A call under way counts what is on its link: a part that is done has nothing there. *)
Counted ==
    call.at = "moving" =>
        /\ ends["here"].at = "ready"
        /\ call.number \in 1 .. Len(Calls)
        /\ loop.parts # <<>>
        /\ loop.parts = Parted(Now.cells, Len(loop.parts))
        /\ Len(loop.posted) = Len(loop.parts) /\ Len(loop.flying) = Len(loop.parts)
        /\ \A p \in Paths \ Busy : Quiet(p)
        /\ \A p \in loop.done : p \in Busy \/ loop.parts[p].cells = 0
        /\ \A p \in DOMAIN loop.parts : loop.posted[p] <= loop.parts[p].cells
        /\ \A p \in DOMAIN loop.parts \cap loop.done :
              loop.posted[p] = loop.parts[p].cells /\ loop.flying[p] = 0
        /\ \A p \in Busy : /\ loop.flying[p] = Len(wire[p]) + Len(cq[p])
                           /\ loop.flying[p] <= Depth

(* What of a part was posted ends here. *)
PostedTo(p) == loop.parts[p].start + loop.posted[p]

(* The place in the payload where what is on the way of a path begins. *)
LandedTo(p) == IF wire[p] = <<>> THEN PostedTo(p) ELSE Head(wire[p]).to - To(Now)

(* The pieces on a path follow each other up to what was posted. *)
InPieces(p) ==
    \A i \in DOMAIN wire[p] :
        LET piece == wire[p][i]
        IN /\ piece.source = Source(Now)
           /\ piece.from - From(Now) = piece.to - To(Now)
           /\ loop.parts[p].start <= piece.to - To(Now)
           /\ piece.to + piece.cells - To(Now) <= PostedTo(p)
           /\ i = Len(wire[p]) => piece.to + piece.cells = To(Now) + PostedTo(p)
           /\ i < Len(wire[p]) => piece.to + piece.cells = wire[p][i + 1].to

(* What was posted on a path and is not on the way has landed, unless a piece failed. *)
Landed(p) ==
    "failed" \notin Range(cq[p]) =>
        \A o \in loop.parts[p].start .. LandedTo(p) - 1 :
            memory[Far(Source(Now))][To(Now) + o] = <<call.number, From(Now) + o>>

(* Where the memory stands while a call is under way. *)
OnTheWay ==
    call.at = "moving" =>
        /\ From(Now) + Now.cells <= Room /\ To(Now) + Now.cells <= Room
        /\ \A a \in Cells : memory[Source(Now)][a]
               = Moved(call.number, Ideal[call.number - 1])[Source(Now)][a]
        /\ \A a \in Cells \ (To(Now) .. To(Now) + Now.cells - 1) :
              memory[Far(Source(Now))][a] = Ideal[call.number - 1][Far(Source(Now))][a]
        /\ \A p \in Busy : InPieces(p) /\ Landed(p)

(* Between two calls nothing is on the link and the memory is what the calls made it. *)
Settled ==
    call.at \in {"none", "moved"} => (\A p \in Paths : Quiet(p)) /\ memory = Ideal[call.number]

IInv == TypeOK /\ EndsHold /\ Counted /\ OnTheWay /\ Settled

-------------------------------------------------------------------------------
(* What the calls make of the memory, one after the other. *)

LEMMA LeastNat ==
    ASSUME NEW T, T \subseteq Nat, T # {}
    PROVE  \E n \in T : \A m \in T : n <= m
<1>1. PICK n \in T : \A m \in T : ~ (<<m, n>> \in OpToRel(<, Nat))
    BY NatLessThanWellFounded, WFMin
<1>2. \A m \in T : ~(m < n)
    BY <1>1 DEF OpToRel
<1> QED BY <1>2

(* The definition of `Ideal` has a solution: it reaches each call from the one before. *)
LEMMA IdealIs ==
    \A k \in 0 .. Len(Calls) :
        Ideal[k] = IF k = 0 THEN [e \in Ends |-> Blank] ELSE Moved(k, Ideal[k - 1])
<1> DEFINE Solves(f, n) ==
        f = [k \in 0 .. n |-> IF k = 0 THEN [e \in Ends |-> Blank] ELSE Moved(k, f[k - 1])]
           T == {n \in Nat : ~ \E f : Solves(f, n)}
<1>1. Len(Calls) \in Nat
    BY RdmaAssumption
<1> HIDE DEF Solves
<1>2. T = {}
    <2> SUFFICES ASSUME T # {} PROVE FALSE
        OBVIOUS
    <2>0. T \subseteq Nat /\ \A n \in Nat : n \in T <=> ~ \E f : Solves(f, n)
        OBVIOUS
    <2> HIDE DEF T
    <2>1. PICK n \in T : \A m \in T : n <= m
        BY <2>0, LeastNat
    <2>2. n # 0
        <3> DEFINE f == [k \in 0 .. 0 |-> [e \in Ends |-> Blank]]
        <3>1. Solves(f, 0)
            BY DEF Solves
        <3> QED BY <3>1, <2>0
    <2>3. n \in Nat /\ n - 1 \in Nat /\ n - 1 \notin T
        BY <2>0, <2>1, <2>2
    <2>4. PICK f : Solves(f, n - 1)
        BY <2>0, <2>3
    <2> DEFINE g == [k \in 0 .. n |-> IF k = n THEN Moved(n, f[n - 1]) ELSE f[k]]
    <2>5. \A k \in 0 .. n : g[k] = IF k = 0 THEN [e \in Ends |-> Blank] ELSE Moved(k, g[k - 1])
        <3> SUFFICES ASSUME NEW k \in 0 .. n
                     PROVE  g[k] = IF k = 0 THEN [e \in Ends |-> Blank] ELSE Moved(k, g[k - 1])
            OBVIOUS
        <3> HIDE DEF Moved
        <3>1. CASE k = n
            BY <2>2, <2>3, <3>1
        <3>2. CASE k # n
            <4>1. k \in 0 .. n - 1 /\ g[k] = f[k] /\ (k # 0 => g[k - 1] = f[k - 1])
                BY <2>3, <3>2
            <4> QED BY <2>4, <4>1 DEF Solves
        <3> QED BY <3>1, <3>2
    <2>6. Solves(g, n)
        BY <2>5, Zenon DEF Solves
    <2> QED BY <2>0, <2>6
<1>3. \E f : Solves(f, Len(Calls))
    BY <1>1, <1>2
<1>4. Solves(Ideal, Len(Calls))
    BY <1>3 DEF Ideal, Solves
<1> QED BY <1>4 DEF Solves

LEMMA IdealCells ==
    \A k \in 0 .. Len(Calls) : Ideal[k] = [e \in Ends |-> [a \in Cells |-> Ideal[k][e][a]]]
<1> SUFFICES ASSUME NEW k \in 0 .. Len(Calls)
             PROVE  Ideal[k] = [e \in Ends |-> [a \in Cells |-> Ideal[k][e][a]]]
    OBVIOUS
<1>1. CASE k = 0
    <2>1. Ideal[k] = [e \in Ends |-> Blank]
        BY <1>1, IdealIs
    <2> QED BY <2>1 DEF Blank
<1>2. CASE k # 0
    <2>1. Ideal[k] = Moved(k, Ideal[k - 1])
        BY <1>2, IdealIs
    <2> QED BY <2>1 DEF Moved
<1> QED BY <1>1, <1>2

-------------------------------------------------------------------------------
(* How a payload is cut. *)

LEMMA ProductGrows ==
    ASSUME NEW a \in Nat, NEW b \in Nat, NEW c \in Nat, a <= b
    PROVE  a * c <= b * c /\ c * a <= c * b /\ a * c \in Nat /\ b * c \in Nat
OBVIOUS

LEMMA DividedTwice ==
    ASSUME NEW cells \in Nat, NEW paths \in Nat \ {0}, NEW page \in Nat \ {0}
    PROVE  LET each == ((cells \div paths) \div page) * page
           IN each \in Nat /\ each * paths <= cells
<1> DEFINE q == cells \div paths
           e == (q \div page) * page
<1>1. q \in Nat /\ q * paths <= cells
    OBVIOUS
<1> HIDE DEF q
<1>2. e \in Nat /\ e <= q
    BY <1>1
<1> HIDE DEF e
<1>3. e * paths <= q * paths
    BY <1>1, <1>2, ProductGrows
<1>4. e * paths \in Nat /\ e * paths <= cells
    BY <1>1, <1>2, <1>3
<1> QED BY <1>2, <1>4 DEF e, q

(* The parts of a payload lie inside it and leave nothing of it out. *)
LEMMA PartedWhole ==
    ASSUME NEW cells \in Nat, NEW paths \in Nat \ {0}
    PROVE  /\ Parted(cells, paths) \in Seq(Part)
           /\ DOMAIN Parted(cells, paths) = 1 .. paths
           /\ Len(Parted(cells, paths)) = paths
           /\ \A p \in 1 .. paths :
                 Parted(cells, paths)[p].start + Parted(cells, paths)[p].cells <= cells
           /\ \A o \in 0 .. cells - 1 : \E p \in 1 .. paths :
                 o \in Parted(cells, paths)[p].start ..
                           Parted(cells, paths)[p].start + Parted(cells, paths)[p].cells - 1
<1> DEFINE each == ((cells \div paths) \div PageCells) * PageCells
           parts == Parted(cells, paths)
<1>1. each \in Nat /\ each * paths <= cells
    BY DividedTwice, RdmaAssumption
<1>2. parts = [p \in 1 .. paths |->
          [start |-> (p - 1) * each,
           cells |-> IF p = paths THEN cells - (p - 1) * each ELSE each]]
    BY DEF Parted
<1> HIDE DEF each, parts
<1>3. ASSUME NEW p \in 1 .. paths
      PROVE  /\ parts[p].start = (p - 1) * each /\ parts[p].start \in Nat
             /\ parts[p].cells = IF p = paths THEN cells - parts[p].start ELSE each
             /\ parts[p].start + each <= cells
    <2>1. p - 1 \in Nat /\ p \in Nat
        OBVIOUS
    <2>2. p * each <= paths * each
        BY <1>1, <2>1, ProductGrows
    <2>3. (p - 1) * each + each = p * each /\ (p - 1) * each \in Nat
        BY <1>1, <2>1
    <2>4. paths * each = each * paths
        BY <1>1
    <2>5. parts[p].start = (p - 1) * each
        BY <1>2
    <2>6. parts[p].cells = IF p = paths THEN cells - parts[p].start ELSE each
        BY <1>2
    <2>7. (p - 1) * each + each <= cells
        BY <1>1, <2>2, <2>3, <2>4
    <2> QED BY <2>3, <2>5, <2>6, <2>7
<1>4. \A p \in 1 .. paths : parts[p] \in Part /\ parts[p].start + parts[p].cells <= cells
    <2> SUFFICES ASSUME NEW p \in 1 .. paths
                 PROVE  parts[p] \in Part /\ parts[p].start + parts[p].cells <= cells
        OBVIOUS
    <2>1. parts[p].cells \in Nat /\ parts[p].start + parts[p].cells <= cells
        BY <1>1, <1>3
    <2> QED BY <1>2, <1>3, <2>1 DEF Part
<1>5. DOMAIN parts = 1 .. paths /\ parts \in Seq(Part) /\ Len(parts) = paths
    <2>1. DOMAIN parts = 1 .. paths
        BY <1>2
    <2>2. parts \in [1 .. paths -> Part]
        BY <1>2, <1>4, <2>1
    <2> QED BY <2>1, <2>2
<1>6. ASSUME NEW o \in 0 .. cells - 1
      PROVE  \E p \in 1 .. paths : o \in parts[p].start .. parts[p].start + parts[p].cells - 1
    <2>1. CASE o >= (paths - 1) * each
        <3>1. paths \in 1 .. paths /\ (paths - 1) * each \in Nat
            BY <1>1
        <3>2. o \in parts[paths].start .. parts[paths].start + parts[paths].cells - 1
            BY <1>3, <2>1, <3>1
        <3> QED BY <3>1, <3>2
    <2>2. CASE o < (paths - 1) * each
        <3>1. each # 0
            BY <1>1, <2>2
        <3> DEFINE p == o \div each + 1
        <3>2. p \in Nat \ {0} /\ (p - 1) * each <= o /\ o < (p - 1) * each + each
            BY <1>1, <3>1
        <3> HIDE DEF p
        <3>3. p < paths
            <4> SUFFICES ASSUME p >= paths PROVE FALSE
                BY <3>2
            <4>1. paths - 1 <= p - 1 /\ p - 1 \in Nat /\ paths - 1 \in Nat
                BY <3>2
            <4>2. (paths - 1) * each <= (p - 1) * each
                BY <1>1, <4>1, ProductGrows
            <4> QED BY <1>1, <2>2, <3>2, <4>1, <4>2, ProductGrows
        <3>4. o \in parts[p].start .. parts[p].start + parts[p].cells - 1
            BY <1>1, <1>3, <3>2, <3>3
        <3> QED BY <3>2, <3>3, <3>4
    <2>3. (paths - 1) * each \in Nat
        BY <1>1
    <2> QED BY <2>1, <2>2, <2>3
<1> QED BY <1>4, <1>5, <1>6 DEF parts

-------------------------------------------------------------------------------
(* The steps of the two ends.                                              *)

LEMMA FarOf == Far("here") = "there" /\ Far("there") = "here"
<1>1. \E f \in Ends : f # "here"
    BY DEF Ends
<1>2. \E f \in Ends : f # "there"
    BY DEF Ends
<1> QED BY <1>1, <1>2 DEF Far, Ends

LEMMA OneOf ==
    ASSUME NEW S, NEW s \in Seq(S), NEW k \in 1 .. Len(s)
    PROVE  s[k] \in S
OBVIOUS

LEMMA LengthNat ==
    ASSUME NEW S, NEW s \in Seq(S)
    PROVE  Len(s) \in Nat
OBVIOUS

LEMMA NoneOf ==
    ASSUME NEW S, NEW s \in Seq(S), Len(s) = 0
    PROVE  s = <<>>
OBVIOUS

LEMMA CallsType ==
    ASSUME NEW k \in 1 .. Len(Calls)
    PROVE  /\ Calls[k] \in [writing : BOOLEAN, offset : Nat, remote : Nat, cells : Nat]
           /\ Calls[k].remote + Calls[k].cells <= Room
           /\ From(Calls[k]) \in Nat /\ To(Calls[k]) \in Nat
           /\ Source(Calls[k]) \in Ends /\ Far(Source(Calls[k])) \in Ends
           /\ Far(Source(Calls[k])) # Source(Calls[k])
<1>0. k \in DOMAIN Calls
    BY RdmaAssumption
<1>a. Calls \in Seq([writing : BOOLEAN, offset : Nat, remote : Nat, cells : Nat])
    BY RdmaAssumption
<1>b. Calls[k] \in [writing : BOOLEAN, offset : Nat, remote : Nat, cells : Nat]
    BY <1>a, OneOf, Zenon
<1>c. Calls[k].remote + Calls[k].cells <= Room
    BY <1>0, RdmaAssumption
<1>1. /\ Calls[k] \in [writing : BOOLEAN, offset : Nat, remote : Nat, cells : Nat]
      /\ Calls[k].remote + Calls[k].cells <= Room
    BY <1>b, <1>c
<1>2. Source(Calls[k]) \in {"here", "there"}
    BY DEF Source
<1> QED BY <1>1, <1>2, FarOf DEF From, To, Ends

LEMMA PortsType ==
    ASSUME EndsHold, NEW e \in Ends
    PROVE  Ports(e) \in Nat
BY FS_CardinalityType DEF EndsHold, EndHolds, Ports

LEMMA Sizes == /\ Room \in Nat /\ ChunkCells \in Nat \ {0} /\ Depth \in Nat /\ Len(Calls) \in Nat
BY RdmaAssumption DEF Depth

(* A call has as many pieces of a part on its link throughout. *)
LEMMA DepthStays == call'.number = call.number => Depth' = Depth
BY DEF Depth, Now

LEMMA EndChanges ==
    ASSUME EndsHold, NEW e \in Ends, NEW end, EndHolds(end), ends' = [ends EXCEPT ![e] = end]
    PROVE  /\ EndsHold'
           /\ ends'[e] = end
           /\ \A d \in Ends : d # e => ends'[d] = ends[d]
<1>1. /\ DOMAIN ends' = Ends /\ ends'[e] = end
      /\ \A d \in Ends : d # e => ends'[d] = ends[d]
    BY DEF EndsHold
<1>2. \A d \in Ends : EndHolds(ends'[d])
    BY <1>1 DEF EndsHold
<1>3. EndsHold'
    BY <1>1, <1>2, Zenon DEF EndsHold, EndHolds
<1> QED BY <1>1, <1>3

(* What an end sets up changes nothing of a call, and no end that is ready sets up anything. *)
LEMMA SetupHolds ==
    ASSUME EndsHold, NEW e \in Ends, Open(e) \/ LinkUp(e) \/ Register(e) \/ Join(e)
    PROVE  /\ EndsHold' /\ UNCHANGED <<memory, call, loop, wire, cq>>
           /\ ends["here"].at = "ready" => ends'["here"].at = "ready"
<1>0. /\ UNCHANGED <<memory, call, loop, wire, cq>>
      /\ ends[e].at \in {"closed", "open", "linked", "registered"}
    BY DEF Open, LinkUp, Register, Join, still
<1>e. EndHolds(ends[e])
    BY DEF EndsHold
<1>n. \E n \in Nat : {} = 1 .. n
    <2>1. {} = 1 .. 0 /\ 0 \in Nat
        OBVIOUS
    <2> QED BY <2>1
<1>5. \E end : EndHolds(end) /\ ends' = [ends EXCEPT ![e] = end]
    <2>1. CASE Open(e)
        <3>1. PICK S \in Opened :
                  ends' = [ends EXCEPT ![e] = [@ EXCEPT !.at = IF S = {} THEN "over" ELSE "open",
                                                        !.ports = S]]
            BY <2>1 DEF Open
        <3> DEFINE at == IF S = {} THEN "over" ELSE "open"
                   end == [ends[e] EXCEPT !.at = at, !.ports = S]
        <3>2. IsFiniteSet(S)
            <4>1. S \in SUBSET Names /\ IsFiniteSet(Names)
                BY RdmaAssumption DEF Opened
            <4> QED BY <4>1, FS_Subset
        <3>3. ends' = [ends EXCEPT ![e] = end]
            BY <3>1, Zenon
        <3>4. ~ends[e].joined
            BY <1>e, <2>1 DEF Open, EndHolds
        <3>5. at \in {"over", "open"}
            OBVIOUS
        <3> HIDE DEF at
        <3>6. EndHolds(end)
            BY <1>e, <3>2, <3>4, <3>5 DEF EndHolds
        <3> HIDE DEF end
        <3> QED BY <3>3, <3>6
    <2>2. CASE LinkUp(e)
        <3>1. PICK last \in 0 .. Ports(e) :
                  ends' = [ends EXCEPT ![e] = [@ EXCEPT !.pairs = 1 .. last,
                                !.at = IF last = Ports(e) THEN "linked" ELSE "over"]]
            BY <2>2 DEF LinkUp
        <3> DEFINE at == IF last = Ports(e) THEN "linked" ELSE "over"
                   end == [ends[e] EXCEPT !.pairs = 1 .. last, !.at = at]
        <3>2. last \in Nat
            BY PortsType
        <3>3. ends' = [ends EXCEPT ![e] = end]
            BY <3>1, Zenon
        <3>4. ~ends[e].joined
            BY <1>e, <2>2 DEF LinkUp, EndHolds
        <3>5. at \in {"over", "linked"}
            OBVIOUS
        <3> HIDE DEF at
        <3>6. EndHolds(end)
            BY <1>e, <3>2, <3>4, <3>5 DEF EndHolds
        <3> HIDE DEF end
        <3> QED BY <3>3, <3>6
    <2>3. CASE Register(e)
        <3>1. PICK last \in 0 .. Ports(e) :
                  ends' = [ends EXCEPT ![e] = [@ EXCEPT !.keys = 1 .. last,
                                !.held = (last = Ports(e)),
                                !.pairs = IF last = Ports(e) THEN ends[e].pairs ELSE {},
                                !.at = IF last = Ports(e) THEN "registered" ELSE "over"]]
            BY <2>3 DEF Register
        <3> DEFINE at == IF last = Ports(e) THEN "registered" ELSE "over"
                   pairs == IF last = Ports(e) THEN ends[e].pairs ELSE {}
                   held == (last = Ports(e))
                   end == [ends[e] EXCEPT !.keys = 1 .. last, !.held = held,
                                          !.pairs = pairs, !.at = at]
        <3>2. last \in Nat
            BY PortsType
        <3>3. ends' = [ends EXCEPT ![e] = end]
            BY <3>1, Zenon
        <3>4. ~ends[e].joined
            BY <1>e, <2>3 DEF Register, EndHolds
        <3>5. at \in {"over", "registered"} /\ (at = "registered" => held)
            OBVIOUS
        <3>6. \E n \in Nat : pairs = 1 .. n
            BY <1>e, <1>n DEF EndHolds
        <3> HIDE DEF at, pairs, held
        <3>7. EndHolds(end)
            BY <1>e, <3>2, <3>4, <3>5, <3>6 DEF EndHolds
        <3> HIDE DEF end
        <3> QED BY <3>3, <3>7
    <2>4. CASE Join(e)
        <3>1. PICK fits \in BOOLEAN :
                  ends' = [ends EXCEPT ![e] = [@ EXCEPT !.at = "ready", !.joined = fits,
                                !.pairs = IF fits THEN ends[e].pairs ELSE {}]]
            BY <2>4 DEF Join
        <3> DEFINE pairs == IF fits THEN ends[e].pairs ELSE {}
                   end == [ends[e] EXCEPT !.at = "ready", !.joined = fits, !.pairs = pairs]
        <3>3. ends' = [ends EXCEPT ![e] = end]
            BY <3>1, Zenon
        <3>4. ends[e].held
            BY <1>e, <2>4 DEF Join, EndHolds
        <3>5. \E n \in Nat : pairs = 1 .. n
            BY <1>e, <1>n DEF EndHolds
        <3> HIDE DEF pairs
        <3>6. EndHolds(end)
            BY <1>e, <3>4, <3>5 DEF EndHolds
        <3> HIDE DEF end
        <3> QED BY <3>3, <3>6
    <2> QED BY <2>1, <2>2, <2>3, <2>4
<1>6. EndsHold' /\ \A d \in Ends : d # e => ends'[d] = ends[d]
    BY <1>5, EndChanges
<1>7. ends["here"].at = "ready" => ends'["here"].at = "ready"
    BY <1>0, <1>6 DEF Ends
<1> QED BY <1>0, <1>6, <1>7

LEMMA CloseHolds ==
    ASSUME TypeOK, EndsHold, NEW e \in Ends, Close(e)
    PROVE  /\ EndsHold'
           /\ e = "there" => ends'["here"] = ends["here"]
           /\ wire' \in [Paths -> Seq(Piece)] /\ cq' \in [Paths -> Seq({"ok", "failed"})]
           /\ e = "here" => \A p \in Paths : Quiet(p)'
           /\ e = "there" => UNCHANGED <<wire, cq>>
<1> DEFINE end == Dropped(e)
<1>n. \E n \in Nat : {} = 1 .. n
    <2>1. {} = 1 .. 0 /\ 0 \in Nat
        OBVIOUS
    <2> QED BY <2>1
<1>1. EndHolds(end)
    BY <1>n DEF Dropped, EndHolds, EndsHold
<1>2. ends' = [ends EXCEPT ![e] = end]
    BY DEF Close
<1> HIDE DEF end
<1>3. EndsHold' /\ \A d \in Ends : d # e => ends'[d] = ends[d]
    BY <1>1, <1>2, EndChanges
<1>h. e = "there" => ends'["here"] = ends["here"]
    BY <1>3 DEF Ends
<1>4. CASE e = "here"
    <2>1. wire' = [p \in Paths |-> <<>>] /\ cq' = [p \in Paths |-> <<>>]
        BY <1>4 DEF Close
    <2> QED BY <1>3, <1>h, <1>4, <2>1 DEF Quiet
<1>5. CASE e # "here"
    <2>1. wire' = wire /\ cq' = cq
        BY <1>5 DEF Close
    <2> QED BY <1>3, <1>h, <1>5, <2>1 DEF TypeOK
<1> QED BY <1>4, <1>5

(* A call goes on as long as this end is there. *)
LEMMA CallStays ==
    ASSUME IInv, UNCHANGED <<memory, call, loop, wire, cq>>, EndsHold',
           ends["here"].at = "ready" => ends'["here"].at = "ready"
    PROVE  IInv'
<1>1. TypeOK'
    BY DEF IInv, TypeOK
<1>2. Counted'
    BY DepthStays DEF IInv, Counted, Now, Busy, Quiet
<1>3. OnTheWay'
    <2>1. Now' = Now /\ Busy' = Busy
        BY DEF Now, Busy
    <2>2. ASSUME NEW p \in Busy PROVE (InPieces(p) /\ Landed(p)) => (InPieces(p) /\ Landed(p))'
        <3>1. PostedTo(p)' = PostedTo(p) /\ LandedTo(p)' = LandedTo(p)
            BY <2>1 DEF PostedTo, LandedTo
        <3>2. InPieces(p) => InPieces(p)'
            BY <2>1, <3>1 DEF InPieces
        <3>3. Landed(p) => Landed(p)'
            BY <2>1, <3>1 DEF Landed
        <3> QED BY <3>2, <3>3
    <2>3. OnTheWay
        BY DEF IInv
    <2> QED BY <2>1, <2>2, <2>3 DEF OnTheWay
<1>4. Settled'
    BY DEF IInv, Settled, Quiet
<1> QED BY <1>1, <1>2, <1>3, <1>4 DEF IInv

-------------------------------------------------------------------------------
(* The steps of a call.                                                    *)

LEMMA SharedType ==
    ASSUME EndsHold
    PROVE  Shared \in Nat
<1>1. \A n \in Nat : Cardinality(1 .. n) \in Nat
    BY FS_Interval
<1>2. "here" \in Ends /\ "there" \in Ends
    BY DEF Ends
<1>3. /\ Cardinality(ends["here"].keys) \in Nat
      /\ Cardinality(ends["here"].pairs) \in Nat
      /\ Cardinality(ends["there"].keys) \in Nat
    BY <1>1, <1>2 DEF EndsHold, EndHolds
<1> QED BY <1>3 DEF Shared, Least

LEMMA BeginHolds ==
    ASSUME IInv, Begin
    PROVE  IInv'
<1> DEFINE k == call.number + 1
           c == Calls[k]
           refused == c.offset + c.cells > Room \/ Shared = 0
           parts == Parted(c.cells, Shared)
<1>0. TypeOK /\ EndsHold /\ Settled
    BY DEF IInv
<1>1. /\ call.at \in {"none", "moved"} /\ call.number < Len(Calls)
      /\ ends["here"].at = "ready"
      /\ memory' = [memory EXCEPT ![Source(c)] = [a \in Cells |->
             IF a \in From(c) .. From(c) + c.cells - 1 THEN <<k, a>> ELSE @[a]]]
      /\ call' = [number |-> k, at |-> IF refused THEN "failed" ELSE "moving"]
      /\ loop' = IF refused THEN loop
                 ELSE [parts |-> parts, posted |-> [p \in 1 .. Shared |-> 0],
                       flying |-> [p \in 1 .. Shared |-> 0],
                       done |-> {p \in 1 .. Shared : parts[p].cells = 0},
                       part |-> 1, ready |-> 0, waited |-> 0]
      /\ UNCHANGED <<ends, wire, cq>>
    BY Zenon DEF Begin
<1>2. k \in 1 .. Len(Calls) /\ call.number \in 0 .. Len(Calls) /\ k - 1 = call.number
    <2>1. call.number \in 0 .. Len(Calls)
        BY <1>0 DEF TypeOK
    <2> QED BY <1>1, <2>1, Sizes
<1>3. /\ (\A p \in Paths : Quiet(p)) /\ memory = Ideal[k - 1]
    BY <1>0, <1>1, <1>2 DEF Settled
<1> HIDE DEF k
<1>4. /\ From(c) \in Nat /\ To(c) \in Nat /\ c.cells \in Nat /\ c.offset \in Nat
      /\ c.remote \in Nat /\ c.remote + c.cells <= Room
      /\ Source(c) \in Ends /\ Far(Source(c)) \in Ends /\ Far(Source(c)) # Source(c)
    BY <1>2, CallsType
<1>5. Shared \in Nat
    BY <1>0, SharedType
<1>6. memory' = [e \in Ends |-> [a \in Cells |-> memory'[e][a]]]
    BY <1>0, <1>1, <1>4 DEF TypeOK
<1>7. CASE refused
    <2>1. call' = [number |-> k, at |-> "failed"] /\ loop' = loop
        BY <1>1, <1>7
    <2>2. TypeOK'
        <3>1. call' \in [number : 0 .. Len(Calls), at : {"none", "moving", "moved", "failed"}]
            BY <1>2, <2>1
        <3>2. UNCHANGED <<ends, wire, cq, loop>>
            BY <1>1, <2>1
        <3> QED BY <1>0, <1>6, <3>1, <3>2 DEF TypeOK
    <2>3. Counted' /\ OnTheWay' /\ Settled'
        BY <2>1 DEF Counted, OnTheWay, Settled
    <2> QED BY <1>0, <1>1, <2>2, <2>3 DEF IInv, EndsHold, EndHolds
<1>8. CASE ~refused
    <2>1. /\ call' = [number |-> k, at |-> "moving"]
          /\ loop' = [parts |-> parts, posted |-> [p \in 1 .. Shared |-> 0],
                      flying |-> [p \in 1 .. Shared |-> 0],
                      done |-> {p \in 1 .. Shared : parts[p].cells = 0},
                      part |-> 1, ready |-> 0, waited |-> 0]
          /\ Shared \in Nat \ {0} /\ c.offset + c.cells <= Room
        BY <1>1, <1>4, <1>5, <1>8, Sizes
    <2>2. /\ parts \in Seq(Part) /\ DOMAIN parts = 1 .. Shared /\ Len(parts) = Shared
          /\ \A p \in 1 .. Shared : parts[p] \in Part
        <3>1. parts \in Seq(Part) /\ DOMAIN parts = 1 .. Shared /\ Len(parts) = Shared
            BY <1>4, <2>1, PartedWhole
        <3> QED BY <3>1
    <2> HIDE DEF parts, c
    <2>3. /\ loop'.parts = parts /\ loop'.posted = [p \in 1 .. Shared |-> 0]
          /\ loop'.flying = [p \in 1 .. Shared |-> 0]
          /\ loop'.done = {p \in 1 .. Shared : parts[p].cells = 0}
          /\ call'.number = k /\ call'.at = "moving"
          /\ Now' = c
        BY <2>1 DEF Now, c
    <2>4. TypeOK'
        <3>1. call' \in [number : 0 .. Len(Calls), at : {"none", "moving", "moved", "failed"}]
            BY <1>2, <2>1
        <3>2. /\ [p \in 1 .. Shared |-> 0] \in Seq(Nat)
              /\ {p \in 1 .. Shared : parts[p].cells = 0} \in SUBSET Nat
            BY <1>5
        <3>3. loop' \in [parts : Seq(Part), posted : Seq(Nat), flying : Seq(Nat),
                         done : SUBSET Nat, part : Nat, ready : Nat, waited : Nat]
            BY <2>1, <2>2, <3>2
        <3> QED BY <1>0, <1>1, <1>6, <3>1, <3>3 DEF TypeOK
    <2>5. Counted'
        <3>1. parts = Parted(c.cells, Shared)
            BY DEF parts
        <3>2. /\ Len([p \in 1 .. Shared |-> 0]) = Shared /\ parts # <<>>
            BY <2>1, <2>2
        <3>3. \A p \in Paths : Quiet(p)' /\ Len(wire'[p]) = 0 /\ Len(cq'[p]) = 0
            BY <1>1, <1>3 DEF Quiet
        <3>4. \A p \in 1 .. Shared : parts[p].cells \in Nat
            BY <2>2 DEF Part
        <3>5. Depth' \in Nat
            BY RdmaAssumption DEF Depth
        <3>6. ends'["here"].at = "ready" /\ Busy' = Paths \cap (1 .. Shared)
            BY <1>1, <2>2, <2>3 DEF Busy
        <3>7. \A p \in Busy' : /\ loop'.flying[p] = Len(wire'[p]) + Len(cq'[p])
                                /\ loop'.flying[p] <= Depth'
            <4> SUFFICES ASSUME NEW p \in Busy'
                         PROVE  /\ loop'.flying[p] = Len(wire'[p]) + Len(cq'[p])
                                /\ loop'.flying[p] <= Depth'
                OBVIOUS
            <4>1. p \in Paths /\ p \in 1 .. Shared
                BY <3>6
            <4>2. loop'.flying[p] = 0
                BY <2>3, <4>1
            <4>3. Len(wire'[p]) = 0 /\ Len(cq'[p]) = 0
                BY <3>3, <4>1
            <4> QED BY <3>5, <4>2, <4>3
        <3>8. \A p \in DOMAIN loop'.parts :
                  /\ loop'.posted[p] <= loop'.parts[p].cells
                  /\ p \in loop'.done =>
                        loop'.posted[p] = loop'.parts[p].cells /\ loop'.flying[p] = 0
            BY <2>2, <2>3, <3>4
        <3>9. \A p \in loop'.done : loop'.parts[p].cells = 0
            BY <2>3
        <3>10. /\ loop'.parts # <<>> /\ loop'.parts = Parted(Now'.cells, Len(loop'.parts))
               /\ Len(loop'.posted) = Len(loop'.parts) /\ Len(loop'.flying) = Len(loop'.parts)
            BY <2>2, <2>3, <3>1, <3>2
        <3> QED BY <1>2, <2>3, <3>3, <3>6, <3>7, <3>8, <3>9, <3>10 DEF Counted
    <2>6. OnTheWay'
        <3>1. From(c) + c.cells <= Room /\ To(c) + c.cells <= Room
            BY <1>4, <2>1 DEF From, To
        <3>2. \A a \in Cells : memory'[Source(c)][a] = Moved(k, Ideal[k - 1])[Source(c)][a]
            BY <1>0, <1>1, <1>3, <1>4 DEF Moved, c, TypeOK
        <3>3. \A a \in Cells : memory'[Far(Source(c))][a] = Ideal[k - 1][Far(Source(c))][a]
            BY <1>0, <1>1, <1>3, <1>4 DEF TypeOK
        <3>4. ASSUME NEW p \in Busy' PROVE InPieces(p)' /\ Landed(p)'
            <4>1. /\ wire'[p] = <<>> /\ p \in 1 .. Shared
                BY <1>1, <1>3, <2>2, <2>3, <3>4 DEF Busy, Quiet
            <4>2. InPieces(p)'
                BY <4>1 DEF InPieces
            <4>3. LandedTo(p)' = loop'.parts[p].start /\ loop'.parts[p].start \in Nat
                BY <2>2, <2>3, <4>1 DEF LandedTo, PostedTo, Part
            <4> QED BY <4>2, <4>3 DEF Landed
        <3> QED BY <2>3, <3>1, <3>2, <3>3, <3>4 DEF OnTheWay
    <2>7. Settled'
        BY <2>3 DEF Settled
    <2> QED BY <1>0, <1>1, <2>4, <2>5, <2>6, <2>7 DEF IInv, EndsHold, EndHolds
<1> QED BY <1>7, <1>8

(* A call that failed is promised nothing. *)
LEMMA CallFails ==
    ASSUME IInv, TypeOK', call' = [call EXCEPT !.at = "failed"], UNCHANGED ends
    PROVE  IInv'
<1>1. call'.at = "failed"
    BY DEF IInv, TypeOK
<1>2. EndsHold'
    BY DEF IInv, EndsHold, EndHolds
<1> QED BY <1>1, <1>2 DEF IInv, Counted, OnTheWay, Settled

LEMMA CursorMoves ==
    ASSUME IInv, Moving, UNCHANGED <<ends, memory, call, wire, cq>>, TypeOK',
           loop'.parts = loop.parts, loop'.posted = loop.posted, loop'.flying = loop.flying,
           loop'.done = loop.done
    PROVE  IInv'
<1>1. EndsHold'
    BY DEF IInv, EndsHold, EndHolds
<1>2. Counted'
    BY DepthStays DEF IInv, Counted, Now, Busy, Quiet
<1>3. OnTheWay'
    <2>1. Now' = Now /\ Busy' = Busy
        BY DEF Now, Busy
    <2>2. ASSUME NEW p \in Busy PROVE (InPieces(p) /\ Landed(p)) => (InPieces(p) /\ Landed(p))'
        <3>1. PostedTo(p)' = PostedTo(p) /\ LandedTo(p)' = LandedTo(p)
            BY <2>1 DEF PostedTo, LandedTo
        <3>2. InPieces(p) => InPieces(p)'
            BY <2>1, <3>1 DEF InPieces
        <3>3. Landed(p) => Landed(p)'
            BY <2>1, <3>1 DEF Landed
        <3> QED BY <3>2, <3>3
    <2>3. OnTheWay
        BY DEF IInv
    <2> QED BY <2>1, <2>2, <2>3 DEF OnTheWay
<1>4. Settled'
    BY DEF Settled, Moving
<1> QED BY <1>1, <1>2, <1>3, <1>4 DEF IInv

LEMMA PassOverHolds ==
    ASSUME IInv, NEW p \in Paths, PassOver(p)
    PROVE  IInv'
<1>1. /\ Moving /\ loop' = [loop EXCEPT !.part = p + 1]
      /\ UNCHANGED <<ends, memory, call, wire, cq>>
    BY DEF PassOver, Cursor
<1>2. p + 1 \in Nat
    BY DEF Paths
<1>3. /\ loop'.parts = loop.parts /\ loop'.posted = loop.posted /\ loop'.flying = loop.flying
      /\ loop'.done = loop.done
    BY <1>1 DEF IInv, TypeOK
<1>4. TypeOK'
    BY <1>1, <1>2 DEF IInv, TypeOK
<1> QED BY <1>1, <1>3, <1>4, CursorMoves

(* What is known of a call under way, its fields typed. *)
LEMMA UnderWay ==
    ASSUME TypeOK, Counted, Moving
    PROVE  /\ call.number \in 1 .. Len(Calls) /\ Now.cells \in Nat
           /\ From(Now) \in Nat /\ To(Now) \in Nat
           /\ Source(Now) \in Ends /\ Far(Source(Now)) \in Ends /\ Far(Source(Now)) # Source(Now)
           /\ Len(loop.parts) \in Nat \ {0} /\ DOMAIN loop.parts = 1 .. Len(loop.parts)
           /\ DOMAIN loop.posted = DOMAIN loop.parts /\ DOMAIN loop.flying = DOMAIN loop.parts
           /\ \A p \in DOMAIN loop.parts :
                 /\ loop.parts[p].start \in Nat /\ loop.parts[p].cells \in Nat
                 /\ loop.posted[p] \in Nat /\ loop.flying[p] \in Nat
                 /\ loop.posted[p] <= loop.parts[p].cells
                 /\ loop.parts[p].start + loop.parts[p].cells <= Now.cells
           /\ \A o \in 0 .. Now.cells - 1 : \E p \in DOMAIN loop.parts :
                 o \in loop.parts[p].start .. loop.parts[p].start + loop.parts[p].cells - 1
<1>1. /\ call.number \in 1 .. Len(Calls)
      /\ loop.parts # <<>>
      /\ loop.parts = Parted(Now.cells, Len(loop.parts))
      /\ Len(loop.posted) = Len(loop.parts) /\ Len(loop.flying) = Len(loop.parts)
      /\ \A p \in DOMAIN loop.parts : loop.posted[p] <= loop.parts[p].cells
    BY DEF Counted, Moving
<1>2. loop.parts \in Seq(Part) /\ loop.posted \in Seq(Nat) /\ loop.flying \in Seq(Nat)
    BY DEF TypeOK
<1>3. /\ Now.cells \in Nat
      /\ From(Now) \in Nat /\ To(Now) \in Nat
      /\ Source(Now) \in Ends /\ Far(Source(Now)) \in Ends /\ Far(Source(Now)) # Source(Now)
    BY <1>1, CallsType DEF Now
<1>4. /\ Len(loop.parts) \in Nat \ {0} /\ DOMAIN loop.parts = 1 .. Len(loop.parts)
      /\ DOMAIN loop.posted = DOMAIN loop.parts /\ DOMAIN loop.flying = DOMAIN loop.parts
    BY <1>1, <1>2
<1>5. \A p \in DOMAIN loop.parts :
          /\ loop.parts[p] \in Part /\ loop.posted[p] \in Nat /\ loop.flying[p] \in Nat
    BY <1>2, <1>4, SMTT(60)
<1>6. \A p \in DOMAIN loop.parts : loop.parts[p].start \in Nat /\ loop.parts[p].cells \in Nat
    BY <1>5 DEF Part
<1> DEFINE n == Len(loop.parts)
<1>7. /\ \A p \in 1 .. n :
            Parted(Now.cells, n)[p].start + Parted(Now.cells, n)[p].cells <= Now.cells
      /\ \A o \in 0 .. Now.cells - 1 : \E p \in 1 .. n :
                 o \in Parted(Now.cells, n)[p].start ..
                           Parted(Now.cells, n)[p].start + Parted(Now.cells, n)[p].cells - 1
    BY <1>3, <1>4, PartedWhole
<1>8. /\ \A p \in 1 .. n : loop.parts[p].start + loop.parts[p].cells <= Now.cells
      /\ \A o \in 0 .. Now.cells - 1 : \E p \in 1 .. n :
                 o \in loop.parts[p].start .. loop.parts[p].start + loop.parts[p].cells - 1
    BY <1>1, <1>7, Zenon
<1> QED BY <1>1, <1>3, <1>4, <1>5, <1>6, <1>8, Zenon

(* All the parts are done: what they carried is where the call says, and nothing else changed. *)
LEMMA RoundHolds ==
    ASSUME IInv, Round
    PROVE  IInv'
<1>0. /\ TypeOK /\ Counted /\ OnTheWay /\ Moving /\ EndsHold
      /\ UNCHANGED <<ends, memory, wire, cq>>
    BY DEF IInv, Round
<1> DEFINE k == call.number
<1>1. CASE loop.done = DOMAIN loop.parts
    <2>1. /\ call' = [call EXCEPT !.at = "moved"] /\ UNCHANGED loop
        BY <1>1 DEF Round
    <2>2. call'.at = "moved" /\ call'.number = k /\ TypeOK'
        BY <1>0, <2>1 DEF TypeOK
    <2>3. \A p \in Busy : wire[p] = <<>> /\ cq[p] = <<>> /\ loop.posted[p] = loop.parts[p].cells
        <3> SUFFICES ASSUME NEW p \in Busy
                     PROVE  wire[p] = <<>> /\ cq[p] = <<>> /\ loop.posted[p] = loop.parts[p].cells
            OBVIOUS
        <3>1. /\ loop.flying[p] = 0 /\ loop.posted[p] = loop.parts[p].cells
              /\ loop.flying[p] = Len(wire[p]) + Len(cq[p])
            BY <1>0, <1>1 DEF Counted, Busy, Moving
        <3>2. wire[p] \in Seq(Piece) /\ cq[p] \in Seq({"ok", "failed"})
            BY <1>0 DEF TypeOK, Busy
        <3>n. Len(wire[p]) \in Nat /\ Len(cq[p]) \in Nat
            BY <3>2, LengthNat, Zenon
        <3>3. Len(wire[p]) = 0 /\ Len(cq[p]) = 0
            <4>1. \A a, b \in Nat : a + b = 0 => a = 0 /\ b = 0
                OBVIOUS
            <4> QED BY <3>1, <3>n, <4>1, Zenon
        <3>4. wire[p] = <<>> /\ cq[p] = <<>>
            BY <3>2, <3>3, NoneOf, Zenon
        <3> QED BY <3>1, <3>4
    <2>4. \A p \in Paths : Quiet(p)
        BY <1>0, <2>3 DEF Counted, Quiet, Moving
    <2> DEFINE before == Ideal[k - 1]
               src == Source(Now)
               far == Far(Source(Now))
    <2>5. /\ k \in 1 .. Len(Calls) /\ Now = Calls[k] /\ From(Now) \in Nat /\ To(Now) \in Nat
          /\ Now.cells \in Nat /\ src \in Ends /\ far \in Ends /\ far # src
        BY <1>0, UnderWay DEF Now
    <2>6. k \in 0 .. Len(Calls) /\ k # 0
        BY <2>5, Sizes
    <2>7. Ideal[k] = Moved(k, before)
        BY <2>6, IdealIs
    <2> HIDE DEF before, k
    <2>8. \A a \in Cells : memory[src][a] = Ideal[k][src][a]
        BY <1>0, <2>7 DEF OnTheWay, Moving, before, k
    <2>9. ASSUME NEW a \in Cells
          PROVE  memory[far][a] = Ideal[k][far][a]
        <3>1. CASE a \notin To(Now) .. To(Now) + Now.cells - 1
            <4>1. memory[far][a] = before[far][a]
                BY <1>0, <3>1 DEF OnTheWay, Moving, before, k
            <4>2. Moved(k, before)[far][a] = before[far][a]
                BY <2>5, <3>1 DEF Moved
            <4> QED BY <2>7, <4>1, <4>2
        <3>2. CASE a \in To(Now) .. To(Now) + Now.cells - 1
            <4> DEFINE o == a - To(Now)
            <4>1. o \in 0 .. Now.cells - 1 /\ a = To(Now) + o
                BY <2>5, <3>2
            <4> HIDE DEF o
            <4>2. PICK p \in DOMAIN loop.parts :
                      o \in loop.parts[p].start .. loop.parts[p].start + loop.parts[p].cells - 1
                BY <1>0, <4>1, UnderWay
            <4>3. loop.parts[p].start \in Nat /\ loop.parts[p].cells \in Nat
                BY <1>0, UnderWay
            <4>4. loop.parts[p].cells # 0
                BY <4>2, <4>3
            <4>5. p \in Busy
                BY <1>0, <1>1, <4>4 DEF Counted, Moving
            <4>6. LandedTo(p) = loop.parts[p].start + loop.parts[p].cells
                BY <2>3, <4>5 DEF LandedTo, PostedTo
            <4>7. "failed" \notin Range(cq[p])
                BY <2>3, <4>5 DEF Range
            <4>8. Landed(p)
                BY <1>0, <4>5 DEF OnTheWay, Moving
            <4>9. memory[far][To(Now) + o] = <<k, From(Now) + o>>
                <5>1. o \in loop.parts[p].start .. LandedTo(p) - 1
                    BY <4>2, <4>3, <4>6
                <5> QED BY <4>7, <4>8, <5>1, Zenon DEF Landed, k
            <4>10. Moved(k, before)[far][a] = <<k, a - To(Now) + From(Now)>>
                BY <2>5, <3>2 DEF Moved
            <4>11. a - To(Now) + From(Now) = From(Now) + o
                BY <2>5, <4>1
            <4> QED BY <2>7, <4>1, <4>9, <4>10, <4>11
        <3> QED BY <3>1, <3>2
    <2>10. \A e \in Ends : e = src \/ e = far
        BY <2>5 DEF Ends
    <2>11. \A e \in Ends : [a \in Cells |-> memory[e][a]] = [a \in Cells |-> Ideal[k][e][a]]
        <3> SUFFICES ASSUME NEW e \in Ends
                     PROVE  [a \in Cells |-> memory[e][a]] = [a \in Cells |-> Ideal[k][e][a]]
            OBVIOUS
        <3>1. \A a \in Cells : memory[e][a] = Ideal[k][e][a]
            BY <2>8, <2>9, <2>10
        <3> QED BY <3>1
    <2>12. memory = Ideal[k]
        <3>1. memory = [e \in Ends |-> [a \in Cells |-> memory[e][a]]]
            BY <1>0 DEF TypeOK
        <3>2. Ideal[k] = [e \in Ends |-> [a \in Cells |-> Ideal[k][e][a]]]
            BY <2>6, IdealCells
        <3>3. [e \in Ends |-> [a \in Cells |-> memory[e][a]]]
                  = [e \in Ends |-> [a \in Cells |-> Ideal[k][e][a]]]
            BY <2>11
        <3> QED BY <3>1, <3>2, <3>3, Zenon
    <2>13. Settled'
        BY <1>0, <2>2, <2>4, <2>12 DEF Settled, Quiet
    <2> QED BY <1>0, <2>2, <2>13 DEF IInv, Counted, OnTheWay, EndsHold, EndHolds
<1>2. CASE loop.done # DOMAIN loop.parts /\ loop.ready = 0 /\ loop.waited >= Patience
    <2>1. call' = [call EXCEPT !.at = "failed"] /\ UNCHANGED loop
        BY <1>2 DEF Round
    <2>2. TypeOK'
        BY <1>0, <2>1 DEF TypeOK
    <2> QED BY <1>0, <2>1, <2>2, CallFails
<1>3. CASE loop.done # DOMAIN loop.parts /\ ~(loop.ready = 0 /\ loop.waited >= Patience)
    <2>1. /\ loop' = [loop EXCEPT !.part = 1, !.ready = 0,
                                  !.waited = IF loop.ready > 0 THEN 0 ELSE @ + 1]
          /\ UNCHANGED call
        BY <1>3 DEF Round
    <2>2. /\ loop'.parts = loop.parts /\ loop'.posted = loop.posted
          /\ loop'.flying = loop.flying /\ loop'.done = loop.done
        BY <1>0, <2>1 DEF TypeOK
    <2>3. (IF loop.ready > 0 THEN 0 ELSE loop.waited + 1) \in Nat
        BY <1>0 DEF TypeOK
    <2>4. TypeOK'
        BY <1>0, <2>1, <2>3 DEF TypeOK
    <2> QED BY <1>0, <2>1, <2>2, <2>4, CursorMoves
<1> QED BY <1>1, <1>2, <1>3

LEMMA GiveUpHolds ==
    ASSUME IInv, GiveUp
    PROVE  IInv'
<1>1. Close("here") /\ UNCHANGED <<memory, call, loop>> /\ call.at = "failed"
    BY DEF GiveUp
<1>2. TypeOK /\ EndsHold /\ "here" \in Ends
    BY DEF IInv, Ends
<1>3. /\ EndsHold'
      /\ wire' \in [Paths -> Seq(Piece)] /\ cq' \in [Paths -> Seq({"ok", "failed"})]
    BY <1>1, <1>2, CloseHolds
<1>4. TypeOK'
    BY <1>1, <1>2, <1>3 DEF TypeOK
<1> QED BY <1>1, <1>3, <1>4 DEF IInv, Counted, OnTheWay, Settled

LEMMA FinishHolds ==
    ASSUME IInv, Finish
    PROVE  IInv'
<1>1. Close("here") /\ UNCHANGED <<memory, call, loop>> /\ call.at \in {"none", "moved"}
    BY DEF Finish
<1>2. TypeOK /\ EndsHold /\ Settled /\ "here" \in Ends
    BY DEF IInv, Ends
<1>3. /\ EndsHold'
      /\ wire' \in [Paths -> Seq(Piece)] /\ cq' \in [Paths -> Seq({"ok", "failed"})]
      /\ \A p \in Paths : Quiet(p)'
    BY <1>1, <1>2, CloseHolds
<1>4. TypeOK'
    BY <1>1, <1>2, <1>3 DEF TypeOK
<1>5. Settled'
    BY <1>1, <1>2, <1>3 DEF Settled
<1> QED BY <1>1, <1>3, <1>4, <1>5 DEF IInv, Counted, OnTheWay

LEMMA LeaveHolds ==
    ASSUME IInv, Leave
    PROVE  IInv'
<1>1. Close("there") /\ UNCHANGED <<memory, call, loop>>
    BY DEF Leave
<1>2. TypeOK /\ EndsHold /\ "there" \in Ends
    BY DEF IInv, Ends
<1>3. EndsHold' /\ ends'["here"] = ends["here"] /\ UNCHANGED <<wire, cq>>
    BY <1>1, <1>2, CloseHolds
<1> QED BY <1>1, <1>3, CallStays

(* What is said of the other paths when one of them moves on. *)
LEMMA OthersStay ==
    ASSUME IInv, Moving, call' = call, loop'.parts = loop.parts,
           NEW p \in Busy, memory' = memory,
           \A q \in Paths : q # p => wire'[q] = wire[q] /\ cq'[q] = cq[q],
           \A q \in DOMAIN loop.parts : q # p => loop'.posted[q] = loop.posted[q],
           InPieces(p)', Landed(p)'
    PROVE  OnTheWay'
<1>1. OnTheWay /\ call.at = "moving" /\ Busy' = Busy /\ Now' = Now
    BY DEF IInv, Moving, Busy, Now
<1>2. ASSUME NEW q \in Busy, q # p
      PROVE  InPieces(q)' /\ Landed(q)'
    <2>1. /\ wire'[q] = wire[q] /\ cq'[q] = cq[q] /\ loop'.posted[q] = loop.posted[q]
          /\ InPieces(q) /\ Landed(q)
        BY <1>1, <1>2 DEF OnTheWay, Busy
    <2>2. PostedTo(q)' = PostedTo(q) /\ LandedTo(q)' = LandedTo(q)
        BY <1>1, <2>1 DEF PostedTo, LandedTo
    <2>3. InPieces(q)'
        BY <1>1, <2>1, <2>2 DEF InPieces
    <2>4. Landed(q)'
        BY <1>1, <2>1, <2>2 DEF Landed
    <2> QED BY <2>3, <2>4
<1>3. \A q \in Busy' : InPieces(q)' /\ Landed(q)'
    BY <1>1, <1>2
<1> QED BY <1>1, <1>3 DEF OnTheWay

LEMMA PollHolds ==
    ASSUME IInv, NEW p \in Paths, Poll(p)
    PROVE  IInv'
<1> DEFINE ready == Len(cq[p])
           flying == loop.flying[p] - ready
           done == IF flying = 0 /\ loop.posted[p] = loop.parts[p].cells
                   THEN loop.done \cup {p} ELSE loop.done
<1>0. /\ TypeOK /\ Counted /\ OnTheWay /\ Moving /\ EndsHold
      /\ p \in DOMAIN loop.parts /\ p \notin loop.done
      /\ UNCHANGED <<ends, memory, wire>> /\ cq' = [cq EXCEPT ![p] = <<>>]
    BY DEF IInv, Poll, Cursor
<1>1. cq' \in [Paths -> Seq({"ok", "failed"})]
    <2>1. <<>> \in Seq({"ok", "failed"})
        OBVIOUS
    <2> QED BY <1>0, <2>1 DEF TypeOK
<1>2. CASE "failed" \in Range(cq[p])
    <2>1. call' = [call EXCEPT !.at = "failed"] /\ UNCHANGED loop
        BY <1>2 DEF Poll
    <2>2. /\ call' \in [number : 0 .. Len(Calls), at : {"none", "moving", "moved", "failed"}]
          /\ loop' = loop /\ memory' = memory /\ wire' = wire
        BY <1>0, <2>1 DEF TypeOK
    <2>3. TypeOK'
        <3>1. memory' = [e \in Ends |-> [a \in Cells |-> memory'[e][a]]]
            BY <1>0, <2>2 DEF TypeOK
        <3>2. /\ wire' \in [Paths -> Seq(Piece)]
              /\ loop' \in [parts : Seq(Part), posted : Seq(Nat), flying : Seq(Nat),
                             done : SUBSET Nat, part : Nat, ready : Nat, waited : Nat]
            BY <1>0, <2>2 DEF TypeOK
        <3> QED BY <1>1, <2>2, <3>1, <3>2, Zenon DEF TypeOK
    <2> QED BY <1>0, <2>1, <2>3, CallFails
<1>3. CASE "failed" \notin Range(cq[p])
    <2>1. /\ UNCHANGED call
          /\ loop' = [loop EXCEPT !.flying[p] = flying, !.done = done,
                                  !.part = p + 1, !.ready = @ + ready]
        BY <1>3, Zenon DEF Poll
    <2>2. /\ wire[p] \in Seq(Piece) /\ cq[p] \in Seq({"ok", "failed"})
          /\ Len(wire[p]) \in Nat /\ ready \in Nat
        <3>1. wire[p] \in Seq(Piece) /\ cq[p] \in Seq({"ok", "failed"})
            BY <1>0 DEF TypeOK
        <3> QED BY <3>1, LengthNat, Zenon
    <2>3. loop.flying[p] = Len(wire[p]) + ready /\ loop.flying[p] <= Depth /\ p \in Busy
        BY <1>0 DEF Counted, Moving, Busy
    <2>4. flying = Len(wire[p]) /\ flying <= Depth /\ flying \in Nat
        <3>1. \A a, b, d \in Nat : a + b - b = a /\ (a + b <= d => a <= d)
            OBVIOUS
        <3> HIDE DEF ready
        <3>2. loop.flying[p] - ready = Len(wire[p]) /\ Len(wire[p]) <= loop.flying[p]
            BY <2>2, <2>3
        <3>3. loop.flying[p] <= Depth /\ Depth \in Nat /\ loop.flying[p] \in Nat
            BY <1>0, <2>3, UnderWay, Sizes
        <3> QED BY <2>2, <3>2, <3>3
    <2>5. /\ done \in SUBSET Nat /\ p + 1 \in Nat /\ loop.ready + ready \in Nat
          /\ DOMAIN loop.flying = DOMAIN loop.parts
        <3>1. p \in Nat
            BY DEF Paths
        <3>2. loop.done \in SUBSET Nat /\ loop.ready \in Nat
            BY <1>0 DEF TypeOK
        <3>3. DOMAIN loop.flying = DOMAIN loop.parts
            BY <1>0, UnderWay
        <3> QED BY <2>2, <3>1, <3>2, <3>3
    <2>6. /\ loop'.parts = loop.parts /\ loop'.posted = loop.posted /\ loop'.done = done
          /\ loop'.flying = [loop.flying EXCEPT ![p] = flying]
        BY <1>0, <2>1 DEF TypeOK
    <2>7. loop.flying \in Seq(Nat)
        BY <1>0 DEF TypeOK
    <2>8. /\ loop'.flying \in Seq(Nat) /\ Len(loop'.flying) = Len(loop.flying)
          /\ loop'.flying[p] = flying
          /\ \A q \in DOMAIN loop.parts : q # p => loop'.flying[q] = loop.flying[q]
        BY <1>0, <2>4, <2>5, <2>6, <2>7
    <2>9. TypeOK'
        <3>1. loop' \in [parts : Seq(Part), posted : Seq(Nat), flying : Seq(Nat),
                         done : SUBSET Nat, part : Nat, ready : Nat, waited : Nat]
            <4> HIDE DEF done, flying, ready
            <4>1. loop' = [parts |-> loop.parts, posted |-> loop.posted, flying |-> loop'.flying,
                           done |-> done, part |-> p + 1, ready |-> loop.ready + ready,
                           waited |-> loop.waited]
                BY <1>0, <2>1 DEF TypeOK
            <4> QED BY <1>0, <2>5, <2>8, <4>1 DEF TypeOK
        <3> QED BY <1>0, <1>1, <2>1, <3>1, SMTT(60) DEF TypeOK
    <2> HIDE DEF flying
    <2>10. \/ done = loop.done
           \/ /\ done = loop.done \cup {p} /\ flying = 0
              /\ loop.posted[p] = loop.parts[p].cells
        <3>1. CASE flying = 0 /\ loop.posted[p] = loop.parts[p].cells
            BY <3>1, Zenon
        <3>2. CASE ~(flying = 0 /\ loop.posted[p] = loop.parts[p].cells)
            BY <3>2
        <3> QED BY <3>1, <3>2
    <2> HIDE DEF done, ready
    <2>11. /\ \A q \in Paths : q # p => cq'[q] = cq[q]
           /\ cq'[p] = <<>> /\ Len(cq'[p]) = 0 /\ wire'[p] = wire[p]
        BY <1>0 DEF TypeOK
    <2>12. Counted'
        <3>1. Busy' = Busy /\ Now' = Now /\ call'.at = "moving"
            BY <1>0, <2>1, <2>6 DEF Busy, Now, Moving
        <3>2. \A q \in Paths \ Busy : Quiet(q)'
            BY <1>0, <2>3, <2>11 DEF Counted, Moving, Quiet
        <3>3. \A q \in done : q \in Busy \/ loop.parts[q].cells = 0
            BY <1>0, <2>3, <2>10 DEF Counted, Moving
        <3>4. \A q \in DOMAIN loop.parts \cap done :
                  loop.posted[q] = loop.parts[q].cells /\ loop'.flying[q] = 0
            <4> SUFFICES ASSUME NEW q \in DOMAIN loop.parts, q \in done
                         PROVE  loop.posted[q] = loop.parts[q].cells /\ loop'.flying[q] = 0
                OBVIOUS
            <4>1. CASE q \in loop.done
                <5>1. q # p
                    BY <1>0, <4>1
                <5>2. loop.posted[q] = loop.parts[q].cells /\ loop.flying[q] = 0
                    BY <1>0, <4>1 DEF Counted, Moving
                <5> QED BY <2>8, <5>1, <5>2
            <4>2. CASE q \notin loop.done
                <5>1. q = p /\ flying = 0 /\ loop.posted[p] = loop.parts[p].cells
                    BY <2>10, <4>2
                <5> QED BY <2>8, <5>1
            <4> QED BY <4>1, <4>2
        <3>5. ASSUME NEW q \in Busy
              PROVE  loop'.flying[q] = Len(wire'[q]) + Len(cq'[q]) /\ loop'.flying[q] <= Depth
            <4>1. CASE q = p
                <5>1. loop'.flying[p] = Len(wire[p]) + 0 /\ Len(wire[p]) <= Depth
                    BY <2>2, <2>4, <2>8
                <5> QED BY <2>4, <2>8, <2>11, <4>1, <5>1, Zenon
            <4>2. CASE q # p
                <5>1. /\ loop.flying[q] = Len(wire[q]) + Len(cq[q]) /\ loop.flying[q] <= Depth
                      /\ q \in Paths /\ q \in DOMAIN loop.parts
                    BY <1>0 DEF Counted, Moving, Busy
                <5>2. loop'.flying[q] = loop.flying[q] /\ wire'[q] = wire[q] /\ cq'[q] = cq[q]
                    BY <1>0, <2>8, <2>11, <4>2, <5>1
                <5> QED BY <5>1, <5>2
            <4> QED BY <4>1, <4>2
        <3>6. /\ ends'["here"].at = "ready" /\ call'.number \in 1 .. Len(Calls)
              /\ loop'.parts # <<>> /\ loop'.parts = Parted(Now'.cells, Len(loop'.parts))
              /\ Len(loop'.posted) = Len(loop'.parts) /\ Len(loop'.flying) = Len(loop'.parts)
              /\ \A q \in DOMAIN loop'.parts : loop'.posted[q] <= loop'.parts[q].cells
            BY <1>0, <2>1, <2>6, <2>8, <3>1 DEF Counted, Moving
        <3>7. Depth' = Depth
            BY <2>1, <2>6, DepthStays DEF Moving
        <3> QED BY <2>6, <3>1, <3>2, <3>3, <3>4, <3>5, <3>6, <3>7 DEF Counted
    <2>13. InPieces(p)' /\ Landed(p)'
        <3>1. InPieces(p) /\ Landed(p) /\ Now' = Now /\ call'.number = call.number
            BY <1>0, <2>1, <2>3 DEF OnTheWay, Moving, Now
        <3>2. PostedTo(p)' = PostedTo(p) /\ LandedTo(p)' = LandedTo(p)
            BY <2>6, <2>11, <3>1 DEF PostedTo, LandedTo
        <3>3. InPieces(p)'
            BY <2>6, <2>11, <3>1, <3>2 DEF InPieces
        <3>4. Landed(p)'
            BY <1>0, <1>3, <2>6, <3>1, <3>2 DEF Landed
        <3> QED BY <3>3, <3>4
    <2>14. OnTheWay'
        BY <1>0, <2>1, <2>3, <2>6, <2>11, <2>13, OthersStay
    <2>15. EndsHold' /\ Settled'
        BY <1>0, <2>1 DEF EndsHold, EndHolds, Settled, Moving
    <2> QED BY <2>9, <2>12, <2>14, <2>15 DEF IInv
<1> QED BY <1>2, <1>3

(* The places where the pieces of what is left begin, and that they stay within it. *)
LEMMA PieceFits ==
    ASSUME NEW rest \in Nat, NEW size \in Nat \ {0}, NEW i \in Nat \ {0},
           i <= (rest + size - 1) \div size
    PROVE  /\ (i - 1) * size \in Nat /\ (i - 1) * size < rest
           /\ i * size = (i - 1) * size + size
<1> DEFINE some == (rest + size - 1) \div size
<1>1. some \in Nat /\ some * size <= rest + size - 1
    OBVIOUS
<1> HIDE DEF some
<1>2. i * size = (i - 1) * size + size /\ (i - 1) * size \in Nat /\ i * size \in Nat
    OBVIOUS
<1>3. i * size <= some * size /\ some * size \in Nat
    BY <1>1, ProductGrows DEF some
<1> QED BY <1>1, <1>2, <1>3

(* The pieces a part posts next follow each other from where it was posted to. *)
LEMMA FreshPieces ==
    ASSUME TypeOK, Counted, Moving, NEW p \in DOMAIN loop.parts, Fresh(p) # <<>>,
           p \in Paths
    PROVE  LET f == Fresh(p)
               rest == loop.parts[p].cells - loop.posted[p]
               ends_(i) == Least(i * ChunkCells, rest)
           IN /\ f \in Seq(Piece) /\ Len(f) \in Nat \ {0} /\ Len(f) <= Depth - loop.flying[p]
              /\ \A i \in 1 .. Len(f) :
                    /\ f[i].source = Source(Now)
                    /\ f[i].to = To(Now) + PostedTo(p) + (i - 1) * ChunkCells
                    /\ f[i].from - From(Now) = f[i].to - To(Now)
                    /\ f[i].to + f[i].cells = To(Now) + PostedTo(p) + ends_(i)
                    /\ ends_(i) \in Nat /\ ends_(i) <= ends_(Len(f))
                    /\ (i - 1) * ChunkCells \in Nat
                    /\ i < Len(f) => ends_(i) = i * ChunkCells
              /\ ends_(Len(f)) <= rest /\ rest \in Nat
<1> DEFINE rest == loop.parts[p].cells - loop.posted[p]
           some == (rest + ChunkCells - 1) \div ChunkCells
           n == Least(some, Depth - loop.flying[p])
           at(i) == loop.parts[p].start + loop.posted[p] + (i - 1) * ChunkCells
           ends_(i) == Least(i * ChunkCells, rest)
           f == Fresh(p)
<1>1. /\ From(Now) \in Nat /\ To(Now) \in Nat /\ Source(Now) \in Ends
      /\ loop.parts[p].start \in Nat /\ loop.parts[p].cells \in Nat /\ loop.posted[p] \in Nat
      /\ loop.flying[p] \in Nat /\ loop.posted[p] <= loop.parts[p].cells
    BY UnderWay
<1>2. ChunkCells \in Nat \ {0} /\ Depth \in Nat
    BY Sizes
<1>3. loop.flying[p] <= Depth
    BY DEF Counted, Moving, Busy
<1>4. rest \in Nat /\ PostedTo(p) = loop.parts[p].start + loop.posted[p] /\ PostedTo(p) \in Nat
    BY <1>1 DEF PostedTo
<1>5. f = [i \in 1 .. n |-> [source |-> Source(Now), from |-> at(i) + From(Now),
                             to |-> at(i) + To(Now),
                             cells |-> Least(ChunkCells, rest - (i - 1) * ChunkCells)]]
    BY Zenon DEF Fresh
<1> HIDE DEF rest
<1>6. some \in Nat
    BY <1>2, <1>4
<1> HIDE DEF some
<1>7. n \in Nat /\ n <= some /\ n <= Depth - loop.flying[p]
    BY <1>1, <1>2, <1>3, <1>6 DEF Least
<1> HIDE DEF n, f
<1>8. n # 0
    <2> SUFFICES ASSUME n = 0 PROVE FALSE
        OBVIOUS
    <2>1. f = <<>>
        BY <1>5
    <2> QED BY <2>1 DEF f
<1>9. ASSUME NEW i \in 1 .. n
      PROVE  /\ (i - 1) * ChunkCells \in Nat /\ (i - 1) * ChunkCells < rest
             /\ i * ChunkCells = (i - 1) * ChunkCells + ChunkCells
    BY <1>2, <1>4, <1>7, PieceFits DEF some
<1>10. ASSUME NEW i \in 1 .. n
       PROVE  /\ ends_(i) \in Nat /\ ends_(i) <= rest
              /\ Least(ChunkCells, rest - (i - 1) * ChunkCells) \in Nat
              /\ (i - 1) * ChunkCells + Least(ChunkCells, rest - (i - 1) * ChunkCells) = ends_(i)
    BY <1>2, <1>4, <1>9 DEF Least
<1>11. ASSUME NEW i \in 1 .. n, i < n
       PROVE  ends_(i) = i * ChunkCells
    <2>1. i + 1 \in 1 .. n /\ (i + 1) - 1 = i
        BY <1>7, <1>11
    <2>2. i * ChunkCells \in Nat /\ i * ChunkCells < rest
        BY <1>9, <2>1
    <2> QED BY <1>4, <2>2 DEF Least
<1>12. ASSUME NEW i \in 1 .. n
       PROVE  ends_(i) <= ends_(n)
    <2>1. i * ChunkCells <= n * ChunkCells /\ i * ChunkCells \in Nat /\ n * ChunkCells \in Nat
        BY <1>2, <1>7, ProductGrows
    <2> QED BY <1>4, <2>1 DEF Least
<1> HIDE DEF ends_
<1>13. ASSUME NEW i \in 1 .. n
       PROVE  /\ f[i].source = Source(Now) /\ f[i].from = at(i) + From(Now)
              /\ f[i].to = at(i) + To(Now)
              /\ f[i].cells = Least(ChunkCells, rest - (i - 1) * ChunkCells)
              /\ at(i) = PostedTo(p) + (i - 1) * ChunkCells /\ at(i) \in Nat
              /\ f[i] \in Piece
    <2>1. at(i) = PostedTo(p) + (i - 1) * ChunkCells /\ at(i) \in Nat
        BY <1>1, <1>4, <1>9
    <2>2. f[i] = [source |-> Source(Now), from |-> at(i) + From(Now), to |-> at(i) + To(Now),
                  cells |-> Least(ChunkCells, rest - (i - 1) * ChunkCells)]
        BY <1>5
    <2>3. Least(ChunkCells, rest - (i - 1) * ChunkCells) \in Nat
        BY <1>10
    <2> HIDE DEF at
    <2> QED BY <1>1, <2>1, <2>2, <2>3 DEF Piece
<1> HIDE DEF at
<1>14. DOMAIN f = 1 .. n
    BY <1>5
<1>15. f \in Seq(Piece) /\ Len(f) = n
    <2>1. f = [i \in 1 .. n |-> f[i]]
        BY <1>5, <1>14
    <2> QED BY <1>7, <1>13, <2>1
<1>16. ASSUME NEW i \in 1 .. n
       PROVE  /\ f[i].source = Source(Now)
              /\ f[i].to = To(Now) + PostedTo(p) + (i - 1) * ChunkCells
              /\ f[i].from - From(Now) = f[i].to - To(Now)
              /\ f[i].to + f[i].cells = To(Now) + PostedTo(p) + ends_(i)
              /\ ends_(i) \in Nat /\ ends_(i) <= ends_(n)
              /\ (i - 1) * ChunkCells \in Nat
              /\ i < n => ends_(i) = i * ChunkCells
    <2> DEFINE x == (i - 1) * ChunkCells
    <2>a. x \in Nat /\ From(Now) \in Nat /\ To(Now) \in Nat /\ PostedTo(p) \in Nat
        BY <1>1, <1>4, <1>9
    <2>b. /\ f[i].from = at(i) + From(Now) /\ f[i].to = at(i) + To(Now)
          /\ at(i) = PostedTo(p) + x /\ f[i].source = Source(Now)
        BY <1>13
    <2>2. x + f[i].cells = ends_(i) /\ f[i].cells \in Nat /\ ends_(i) \in Nat
        <3>1. f[i].cells = Least(ChunkCells, rest - x)
            BY <1>13
        <3>2. Least(ChunkCells, rest - x) \in Nat /\ x + Least(ChunkCells, rest - x) = ends_(i)
            BY <1>10
        <3> QED BY <1>10, <3>1, <3>2
    <2> HIDE DEF x
    <2>1. f[i].to = To(Now) + PostedTo(p) + x /\ f[i].from - From(Now) = f[i].to - To(Now)
        BY <2>a, <2>b
    <2>3. f[i].to + f[i].cells = To(Now) + PostedTo(p) + ends_(i)
        BY <2>a, <2>1, <2>2
    <2>4. ends_(i) <= ends_(n) /\ (i < n => ends_(i) = i * ChunkCells)
        BY <1>11, <1>12
    <2> QED BY <2>a, <2>b, <2>1, <2>2, <2>3, <2>4 DEF x
<1>17. ends_(n) <= rest
    BY <1>7, <1>8, <1>10
<1> QED BY <1>4, <1>7, <1>8, <1>15, <1>16, <1>17, Zenon DEF f, rest, ends_

LEMMA Joined ==
    ASSUME NEW S, NEW s \in Seq(S), NEW t \in Seq(S)
    PROVE  /\ s \o t \in Seq(S) /\ Len(s \o t) = Len(s) + Len(t)
           /\ \A i \in 1 .. Len(s) : (s \o t)[i] = s[i]
           /\ \A i \in 1 .. Len(t) : (s \o t)[Len(s) + i] = t[i]
           /\ \A i \in 1 .. Len(s \o t) : i <= Len(s) \/ (i - Len(s)) \in 1 .. Len(t)
OBVIOUS

LEMMA Replaced ==
    ASSUME NEW S, NEW s \in Seq(S), NEW i \in DOMAIN s, NEW x \in S
    PROVE  /\ [s EXCEPT ![i] = x] \in Seq(S) /\ Len([s EXCEPT ![i] = x]) = Len(s)
           /\ [s EXCEPT ![i] = x][i] = x
           /\ \A j \in DOMAIN s : j # i => [s EXCEPT ![i] = x][j] = s[j]
OBVIOUS

LEMMA FirstOf ==
    ASSUME NEW S, NEW s \in Seq(S), NEW n \in 0 .. Len(s)
    PROVE  /\ SubSeq(s, 1, n) \in Seq(S) /\ Len(SubSeq(s, 1, n)) = n
           /\ n = Len(s) => SubSeq(s, 1, n) = s
OBVIOUS

LEMMA TakenFrom ==
    ASSUME NEW s \in Nat, NEW u \in Nat, NEW t \in Nat, NEW o \in Nat, NEW a \in Nat,
           s + u = t + o + a
    PROVE  s + u - t = o + a
OBVIOUS

(* Pieces that follow what is on a path and each other go on to what is posted then. *)
LEMMA PostedPieces ==
    ASSUME IInv, Moving, NEW p \in Busy, Fresh(p) # <<>>,
           wire' = [wire EXCEPT ![p] = @ \o Fresh(p)], UNCHANGED <<ends, memory, call, cq>>,
           loop'.parts = loop.parts, loop'.posted[p]
               = Least(loop.posted[p] + Len(Fresh(p)) * ChunkCells, loop.parts[p].cells)
    PROVE  /\ InPieces(p)' /\ Landed(p)'
           /\ loop'.posted[p] \in Nat /\ loop'.posted[p] <= loop.parts[p].cells
<1> DEFINE f == Fresh(p)
           n == Len(f)
           rest == loop.parts[p].cells - loop.posted[p]
           ends_(i) == Least(i * ChunkCells, rest)
           w == wire[p]
           m == Len(w)
<1>0. TypeOK /\ Counted /\ OnTheWay /\ p \in DOMAIN loop.parts /\ p \in Paths
    BY DEF IInv, Busy
<1>1. /\ From(Now) \in Nat /\ To(Now) \in Nat /\ Source(Now) \in Ends
      /\ loop.parts[p].start \in Nat /\ loop.parts[p].cells \in Nat /\ loop.posted[p] \in Nat
      /\ loop.posted[p] <= loop.parts[p].cells
    BY <1>0, UnderWay
<1>2. /\ f \in Seq(Piece) /\ n \in Nat \ {0}
      /\ \A i \in 1 .. n :
            /\ f[i].source = Source(Now)
            /\ f[i].to = To(Now) + PostedTo(p) + (i - 1) * ChunkCells
            /\ f[i].from - From(Now) = f[i].to - To(Now)
            /\ f[i].to + f[i].cells = To(Now) + PostedTo(p) + ends_(i)
            /\ ends_(i) \in Nat /\ ends_(i) <= ends_(n)
            /\ (i - 1) * ChunkCells \in Nat
            /\ i < n => ends_(i) = i * ChunkCells
      /\ ends_(n) <= rest /\ rest \in Nat
    BY <1>0, FreshPieces
<1>3. /\ PostedTo(p) = loop.parts[p].start + loop.posted[p] /\ PostedTo(p) \in Nat
      /\ PostedTo(p)' = PostedTo(p) + ends_(n) /\ ends_(n) \in Nat
      /\ loop'.posted[p] = loop.posted[p] + ends_(n)
    <2>1. n * ChunkCells \in Nat
        BY <1>2, Sizes
    <2>2. ends_(n) \in Nat
        BY <1>2
    <2> HIDE DEF f
    <2>3. n * ChunkCells <= rest => loop'.posted[p] = loop.posted[p] + n * ChunkCells
        BY <1>1, <2>1 DEF Least, f
    <2>4. ~(n * ChunkCells <= rest) => loop'.posted[p] = loop.parts[p].cells
        BY <1>1, <2>1 DEF Least, f
    <2>5. loop'.posted[p] = loop.posted[p] + ends_(n)
        <3>1. CASE n * ChunkCells < rest
            BY <1>1, <2>1, <2>3, <3>1 DEF Least
        <3>2. CASE ~(n * ChunkCells < rest)
            <4>1. ends_(n) = rest
                BY <3>2 DEF Least
            <4>2. loop'.posted[p] = loop.parts[p].cells
                BY <1>1, <2>1, <2>3, <2>4, <3>2
            <4> QED BY <1>1, <4>1, <4>2
        <3> QED BY <3>1, <3>2
    <2> HIDE DEF ends_, n
    <2> QED BY <1>1, <2>2, <2>5 DEF PostedTo
<1>4. w \in Seq(Piece) /\ wire'[p] = w \o f /\ m \in Nat
    <2>1. w \in Seq(Piece) /\ wire'[p] = w \o f
        BY <1>0 DEF TypeOK
    <2> QED BY <2>1, LengthNat, Zenon
<1>5. /\ w \o f \in Seq(Piece) /\ Len(w \o f) = m + n
      /\ \A i \in 1 .. m : (w \o f)[i] = w[i]
      /\ \A i \in 1 .. n : (w \o f)[m + i] = f[i]
      /\ \A i \in 1 .. Len(w \o f) : i <= m \/ (i - m) \in 1 .. n
    BY <1>2, <1>4, Joined
<1>6. InPieces(p) /\ Landed(p) /\ Now' = Now /\ call'.number = call.number
    BY <1>0 DEF OnTheWay, Moving, Now
<1> DEFINE v == wire'[p]
<1>7. /\ v \in Seq(Piece) /\ Len(v) = m + n /\ DOMAIN v = 1 .. m + n
      /\ \A i \in 1 .. m : v[i] = w[i]
      /\ \A i \in 1 .. n : v[m + i] = f[i]
      /\ \A i \in 1 .. m + n : i <= m \/ (i - m) \in 1 .. n
    BY <1>4, <1>5
<1> HIDE DEF f, n, w, m, v, rest, ends_
<1>8. ASSUME NEW i \in 1 .. m
      PROVE  /\ w[i] \in Piece
             /\ w[i].source = Source(Now) /\ w[i].from - From(Now) = w[i].to - To(Now)
             /\ loop.parts[p].start <= w[i].to - To(Now)
             /\ w[i].to + w[i].cells - To(Now) <= PostedTo(p)
             /\ i = m => w[i].to + w[i].cells = To(Now) + PostedTo(p)
             /\ i < m => w[i].to + w[i].cells = w[i + 1].to
    <2>1. w[i] \in Piece /\ i \in DOMAIN w
        BY <1>4 DEF m
    <2> QED BY <1>6, <2>1, Zenon DEF InPieces, w, m
<1>9. ASSUME NEW i \in DOMAIN v
      PROVE  /\ v[i].source = Source(Now) /\ v[i].from - From(Now) = v[i].to - To(Now)
             /\ loop.parts[p].start <= v[i].to - To(Now)
             /\ v[i].to + v[i].cells - To(Now) <= PostedTo(p)'
             /\ i = Len(v) => v[i].to + v[i].cells = To(Now) + PostedTo(p)'
             /\ i < Len(v) => v[i].to + v[i].cells = v[i + 1].to
    <2>1. CASE i <= m
        <3>1. i \in 1 .. m /\ v[i] = w[i] /\ i < Len(v) /\ w[i] \in Piece
            BY <1>2, <1>4, <1>7, <1>8, <2>1, SMTT(60)
        <3>2. w[i].to \in Nat /\ w[i].cells \in Nat
            BY <3>1 DEF Piece
        <3>5. w[i].to + w[i].cells - To(Now) <= PostedTo(p)'
            <4> DEFINE old == PostedTo(p)
                       new == PostedTo(p)'
                       x_ == w[i].to + w[i].cells - To(Now)
                       b == ends_(n)
            <4>1. old \in Nat /\ b \in Nat /\ new = old + b /\ x_ <= old /\ x_ \in Int
                <5>1. x_ \in Int
                    BY <1>1, <3>2
                <5>2. x_ <= old
                    BY <1>8, <3>1
                <5>3. old \in Nat /\ b \in Nat /\ new = old + b
                    BY <1>3, Zenon
                <5> QED BY <5>1, <5>2, <5>3
            <4> HIDE DEF old, new, x_, b
            <4>2. x_ <= new
                BY <4>1
            <4> QED BY <4>2 DEF new, x_
        <3>3. CASE i = m
            <4>1. v[i + 1] = f[1] /\ 1 \in 1 .. n
                BY <1>2, <1>7, <3>3
            <4>2. f[1].to = To(Now) + PostedTo(p)
                <5>1. f[1].to = To(Now) + PostedTo(p) + (1 - 1) * ChunkCells
                    BY <1>2, <4>1
                <5> QED BY <1>1, <1>3, <5>1, Sizes
            <4>3. w[i].to + w[i].cells = v[i + 1].to
                BY <1>8, <3>1, <3>3, <4>1, <4>2
            <4> QED BY <1>8, <3>1, <3>5, <4>3
        <3>4. CASE i # m
            <4>1. i + 1 \in 1 .. m /\ v[i + 1] = w[i + 1] /\ i < m
                BY <1>4, <1>7, <3>1, <3>4
            <4>3. w[i].to + w[i].cells = v[i + 1].to
                BY <1>8, <3>1, <4>1
            <4> QED BY <1>8, <3>1, <3>5, <4>3
        <3> QED BY <3>3, <3>4
    <2>2. CASE ~(i <= m)
        <3> DEFINE j == i - m
        <3>1. j \in 1 .. n /\ i = m + j /\ v[i] = f[j]
            BY <1>2, <1>4, <1>7, <2>2, SMTT(60)
        <3> HIDE DEF j
        <3>2. /\ f[j].source = Source(Now)
              /\ f[j].to = To(Now) + PostedTo(p) + (j - 1) * ChunkCells
              /\ f[j].from - From(Now) = f[j].to - To(Now)
              /\ f[j].to + f[j].cells = To(Now) + PostedTo(p) + ends_(j)
              /\ ends_(j) \in Nat /\ ends_(j) <= ends_(n)
              /\ (j - 1) * ChunkCells \in Nat
              /\ j < n => ends_(j) = j * ChunkCells
            BY <1>2, <3>1
        <3> DEFINE x == (j - 1) * ChunkCells
        <3>3. f[j].to = To(Now) + PostedTo(p) + x /\ x \in Nat
            BY <3>2
        <3> HIDE DEF x
        <3>4. loop.parts[p].start <= f[j].to - To(Now)
            BY <1>1, <1>3, <3>3, SMTT(60)
        <3>5. f[j].to + f[j].cells - To(Now) <= PostedTo(p)'
            <4> DEFINE old == PostedTo(p)
                       new == PostedTo(p)'
                       x_ == f[j].to + f[j].cells - To(Now)
                       a == ends_(j)
                       b == ends_(n)
            <4>1. old \in Nat /\ a \in Nat /\ b \in Nat /\ a <= b
                BY <1>3, <3>2, Zenon
            <4>b. new = old + b
                BY <1>3, Zenon
            <4>2. x_ = old + a
                <5>1. f[j] \in Piece
                    BY <1>2, <3>1, OneOf DEF n
                <5>2. f[j].to \in Nat /\ f[j].cells \in Nat /\ To(Now) \in Nat
                    BY <1>1, <5>1 DEF Piece
                <5>3. f[j].to + f[j].cells = To(Now) + old + a
                    BY <3>2, Zenon
                <5> DEFINE s == f[j].to
                           u == f[j].cells
                           t == To(Now)
                <5>4. s \in Nat /\ u \in Nat /\ t \in Nat /\ s + u = t + old + a
                    BY <5>2, <5>3, Zenon
                <5> HIDE DEF a, b, old, new, s, u, t, x_
                <5>5. s + u - t = old + a
                    BY <4>1, <5>4
                <5> QED BY <5>5, Zenon DEF s, u, t, x_
            <4> HIDE DEF old, new, x_, a, b
            <4>3. x_ <= new
                BY <4>1, <4>b, <4>2
            <4> QED BY <4>3 DEF new, x_
        <3>6. CASE j = n
            <4>1. i = Len(v)
                BY <1>7, <3>1, <3>6
            <4>2. f[j].to + f[j].cells = To(Now) + PostedTo(p)'
                BY <1>1, <1>3, <3>2, <3>6
            <4> QED BY <3>1, <3>2, <3>4, <3>5, <4>1, <4>2
        <3>7. CASE j # n
            <4>a. /\ j + 1 \in 1 .. n /\ j < n /\ (j + 1) - 1 = j
                  /\ i + 1 = m + (j + 1) /\ i # m + n
                BY <1>2, <1>4, <3>1, <3>7
            <4>1. v[i + 1] = f[j + 1] /\ i # Len(v)
                BY <1>7, <4>a
            <4>2. f[j + 1].to = To(Now) + PostedTo(p) + j * ChunkCells
                BY <1>2, <4>a
            <4>3. f[j].to + f[j].cells = f[j + 1].to
                BY <3>2, <4>a, <4>2
            <4> QED BY <3>1, <3>2, <3>4, <3>5, <4>1, <4>3
        <3> QED BY <3>6, <3>7
    <2> QED BY <2>1, <2>2
<1>10. InPieces(p)'
    <2>1. Source(Now)' = Source(Now) /\ From(Now)' = From(Now) /\ To(Now)' = To(Now)
        BY <1>6
    <2> QED BY <1>9, <2>1, Zenon DEF InPieces, v
<1>11. LandedTo(p)' = LandedTo(p)
    <2>1. Len(v) \in Nat \ {0}
        BY <1>2, <1>4, <1>7
    <2>2. v # <<>> /\ Head(v) = v[1]
        BY <1>7, <2>1
    <2>3. LandedTo(p)' = v[1].to - To(Now)
        BY <1>6, <2>2 DEF LandedTo, v
    <2>4. CASE w = <<>>
        <3>1. m = 0
            BY <2>4 DEF m
        <3>2. v[1] = f[1] /\ 1 \in 1 .. n
            BY <1>2, <1>7, <3>1
        <3>3. f[1].to = To(Now) + PostedTo(p) + (1 - 1) * ChunkCells
            BY <1>2, <3>2
        <3>4. LandedTo(p)' = PostedTo(p)
            BY <1>1, <1>3, <2>3, <3>2, <3>3, Sizes
        <3> QED BY <2>4, <3>4 DEF LandedTo, w
    <2>5. CASE w # <<>>
        <3>1. m # 0 /\ Head(w) = w[1]
            BY <1>4, <2>5, NoneOf DEF m
        <3>2. v[1] = w[1]
            BY <1>4, <1>7, <3>1
        <3> QED BY <2>3, <2>5, <3>1, <3>2 DEF LandedTo, w
    <2> QED BY <2>4, <2>5
<1>12. Landed(p)'
    BY <1>6, <1>11 DEF Landed
<1>13. loop'.posted[p] \in Nat /\ loop'.posted[p] <= loop.parts[p].cells
    <2>1. ends_(n) <= loop.parts[p].cells - loop.posted[p]
        BY <1>2 DEF rest
    <2> QED BY <1>1, <1>3, <2>1, SMTT(60)
<1> QED BY <1>10, <1>12, <1>13

LEMMA PostHolds ==
    ASSUME IInv, NEW p \in Paths, Post(p)
    PROVE  IInv'
<1> DEFINE f == Fresh(p)
<1>0. /\ TypeOK /\ Counted /\ OnTheWay /\ Moving /\ EndsHold
      /\ p \in DOMAIN loop.parts /\ p \notin loop.done /\ f # <<>> /\ p \in Busy
      /\ UNCHANGED <<ends, memory, cq>>
    BY DEF IInv, Post, Cursor, Busy
<1>1. PICK n \in 0 .. Len(f) :
          /\ wire' = [wire EXCEPT ![p] = @ \o SubSeq(f, 1, n)]
          /\ loop' = [loop EXCEPT !.posted[p] = Least(@ + n * ChunkCells, loop.parts[p].cells),
                                  !.flying[p] = @ + n]
          /\ call' = IF n < Len(f) THEN [call EXCEPT !.at = "failed"] ELSE call
    BY Zenon DEF Post
<1>2. f \in Seq(Piece) /\ Len(f) \in Nat \ {0} /\ Len(f) <= Depth - loop.flying[p]
    BY <1>0, FreshPieces
<1> HIDE DEF f
<1>3. SubSeq(f, 1, n) \in Seq(Piece) /\ Len(SubSeq(f, 1, n)) = n /\ n \in Nat
    BY <1>2, FirstOf
<1>4. wire[p] \in Seq(Piece) /\ Len(wire[p]) \in Nat
    <2>1. wire[p] \in Seq(Piece)
        BY <1>0 DEF TypeOK
    <2> QED BY <2>1, LengthNat
<1>5. /\ wire' \in [Paths -> Seq(Piece)] /\ Len(wire'[p]) = Len(wire[p]) + n
      /\ \A q \in Paths : q # p => wire'[q] = wire[q]
    <2>1. /\ wire[p] \o SubSeq(f, 1, n) \in Seq(Piece)
          /\ Len(wire[p] \o SubSeq(f, 1, n)) = Len(wire[p]) + n
        <3>1. Len(wire[p] \o SubSeq(f, 1, n)) = Len(wire[p]) + Len(SubSeq(f, 1, n))
            BY <1>3, <1>4, Joined, ZenonT(60)
        <3>2. wire[p] \o SubSeq(f, 1, n) \in Seq(Piece)
            BY <1>3, <1>4, Joined, Zenon
        <3> QED BY <1>3, <3>1, <3>2, Zenon
    <2> QED BY <1>0, <1>1, <2>1 DEF TypeOK
<1>6. /\ loop.posted[p] \in Nat /\ loop.flying[p] \in Nat /\ loop.parts[p].cells \in Nat
      /\ p \in DOMAIN loop.posted /\ p \in DOMAIN loop.flying
    BY <1>0, UnderWay
<1> DEFINE posted == Least(loop.posted[p] + n * ChunkCells, loop.parts[p].cells)
           flying == loop.flying[p] + n
<1>7. posted \in Nat /\ posted <= loop.parts[p].cells /\ flying \in Nat
    <2>1. n * ChunkCells \in Nat
        BY <1>3, Sizes
    <2> QED BY <1>3, <1>6, <2>1 DEF Least
<1>8. /\ loop'.posted = [loop.posted EXCEPT ![p] = posted]
      /\ loop'.flying = [loop.flying EXCEPT ![p] = flying]
      /\ loop'.parts = loop.parts /\ loop'.done = loop.done
    BY <1>0, <1>1 DEF TypeOK
<1> HIDE DEF posted, flying
<1>9. loop.posted \in Seq(Nat) /\ loop.flying \in Seq(Nat)
    BY <1>0 DEF TypeOK
<1>10. /\ loop'.posted \in Seq(Nat) /\ Len(loop'.posted) = Len(loop.posted)
       /\ loop'.posted[p] = posted
       /\ \A q \in DOMAIN loop.posted : q # p => loop'.posted[q] = loop.posted[q]
    <2> DEFINE new == [loop.posted EXCEPT ![p] = posted]
    <2>1. /\ new \in Seq(Nat) /\ Len(new) = Len(loop.posted) /\ new[p] = posted
          /\ \A q \in DOMAIN loop.posted : q # p => new[q] = loop.posted[q]
        BY <1>6, <1>7, <1>9, Replaced, SMTT(60)
    <2> HIDE DEF new
    <2> QED BY <1>8, <2>1, Zenon DEF new
<1>11. /\ loop'.flying \in Seq(Nat) /\ Len(loop'.flying) = Len(loop.flying)
       /\ loop'.flying[p] = flying
       /\ \A q \in DOMAIN loop.flying : q # p => loop'.flying[q] = loop.flying[q]
    <2> DEFINE new == [loop.flying EXCEPT ![p] = flying]
    <2>1. /\ new \in Seq(Nat) /\ Len(new) = Len(loop.flying) /\ new[p] = flying
          /\ \A q \in DOMAIN loop.flying : q # p => new[q] = loop.flying[q]
        BY <1>6, <1>7, <1>9, Replaced
    <2> HIDE DEF new
    <2> QED BY <1>8, <2>1, Zenon DEF new
<1>12. loop' \in [parts : Seq(Part), posted : Seq(Nat), flying : Seq(Nat),
                  done : SUBSET Nat, part : Nat, ready : Nat, waited : Nat]
    <2>1. loop' = [parts |-> loop.parts, posted |-> loop'.posted, flying |-> loop'.flying,
                   done |-> loop.done, part |-> loop.part, ready |-> loop.ready,
                   waited |-> loop.waited]
        BY <1>0, <1>1 DEF TypeOK
    <2> QED BY <1>0, <1>10, <1>11, <2>1 DEF TypeOK
<1>13. call' \in [number : 0 .. Len(Calls), at : {"none", "moving", "moved", "failed"}]
    <2>1. call' = [call EXCEPT !.at = "failed"] \/ call' = call
        BY <1>1
    <2> QED BY <1>0, <2>1 DEF TypeOK
<1>14. TypeOK'
    <2>1. /\ memory' = [e \in Ends |-> [a \in Cells |-> memory'[e][a]]]
          /\ cq' \in [Paths -> Seq({"ok", "failed"})]
        BY <1>0 DEF TypeOK
    <2> QED BY <1>5, <1>12, <1>13, <2>1, Zenon DEF TypeOK
<1>15. CASE n < Len(f)
    <2>1. call' = [call EXCEPT !.at = "failed"]
        BY <1>1, <1>15
    <2> QED BY <1>0, <1>14, <2>1, CallFails
<1>16. CASE ~(n < Len(f))
    <2>1. n = Len(f) /\ call' = call /\ SubSeq(f, 1, n) = f
        BY <1>1, <1>2, <1>16, FirstOf
    <2>2. wire' = [wire EXCEPT ![p] = @ \o f]
        BY <1>1, <2>1
    <2>3. Counted'
        <3>1. Busy' = Busy /\ Now' = Now /\ call'.at = "moving"
            BY <1>0, <1>8, <2>1 DEF Busy, Now, Moving
        <3>2. \A q \in Paths \ Busy : Quiet(q)'
            BY <1>0, <1>5 DEF Counted, Moving, Quiet
        <3>3. ASSUME NEW q \in Busy
              PROVE  loop'.flying[q] = Len(wire'[q]) + Len(cq'[q]) /\ loop'.flying[q] <= Depth
            <4>1. /\ loop.flying[q] = Len(wire[q]) + Len(cq[q]) /\ loop.flying[q] <= Depth
                  /\ q \in Paths /\ q \in DOMAIN loop.parts
                BY <1>0 DEF Counted, Moving, Busy
            <4>2. CASE q = p
                <5>1. Len(cq[p]) \in Nat /\ cq'[p] = cq[p]
                    BY <1>0, LengthNat DEF TypeOK
                <5>2. flying = Len(wire'[p]) + Len(cq'[p])
                    <6> DEFINE a == Len(wire[p])
                               b == Len(cq[p])
                    <6>1. /\ a \in Nat /\ b \in Nat /\ n \in Nat /\ flying = a + b + n
                          /\ Len(wire'[p]) = a + n /\ Len(cq'[p]) = b
                        BY <1>3, <1>4, <1>5, <4>1, <4>2, <5>1, Zenon DEF flying
                    <6> HIDE DEF a, b
                    <6> QED BY <6>1
                <5>3. flying <= Depth
                    BY <1>2, <1>6, <2>1, Sizes DEF flying
                <5> QED BY <1>11, <4>2, <5>2, <5>3
            <4>3. CASE q # p
                <5>1. q \in DOMAIN loop.flying
                    BY <1>0, <4>1, UnderWay
                <5>2. loop'.flying[q] = loop.flying[q] /\ wire'[q] = wire[q] /\ cq'[q] = cq[q]
                    BY <1>0, <1>5, <1>11, <4>1, <4>3, <5>1
                <5> QED BY <4>1, <5>2
            <4> QED BY <4>2, <4>3
        <3>4. \A q \in DOMAIN loop.parts : loop'.posted[q] <= loop.parts[q].cells
            <4> SUFFICES ASSUME NEW q \in DOMAIN loop.parts
                         PROVE  loop'.posted[q] <= loop.parts[q].cells
                OBVIOUS
            <4>1. loop.posted[q] <= loop.parts[q].cells /\ q \in DOMAIN loop.posted
                BY <1>0, UnderWay
            <4>2. CASE q = p
                BY <1>7, <1>10, <4>2
            <4>3. CASE q # p
                BY <1>10, <4>1, <4>3
            <4> QED BY <4>2, <4>3
        <3>5. \A q \in DOMAIN loop.parts \cap loop.done :
                  loop'.posted[q] = loop.parts[q].cells /\ loop'.flying[q] = 0
            <4> SUFFICES ASSUME NEW q \in DOMAIN loop.parts, q \in loop.done
                         PROVE  loop'.posted[q] = loop.parts[q].cells /\ loop'.flying[q] = 0
                OBVIOUS
            <4>1. q # p /\ q \in DOMAIN loop.posted /\ q \in DOMAIN loop.flying
                BY <1>0, UnderWay
            <4>2. loop.posted[q] = loop.parts[q].cells /\ loop.flying[q] = 0
                BY <1>0 DEF Counted, Moving
            <4> QED BY <1>10, <1>11, <4>1, <4>2
        <3>6. /\ ends'["here"].at = "ready" /\ call'.number \in 1 .. Len(Calls)
              /\ loop'.parts # <<>> /\ loop'.parts = Parted(Now'.cells, Len(loop'.parts))
              /\ Len(loop'.posted) = Len(loop'.parts) /\ Len(loop'.flying) = Len(loop'.parts)
              /\ \A q \in loop'.done : q \in Busy \/ loop'.parts[q].cells = 0
            BY <1>0, <1>8, <1>10, <1>11, <2>1, <3>1 DEF Counted, Moving
        <3>7. Depth' = Depth
            BY <2>1, DepthStays
        <3> QED BY <1>8, <3>1, <3>2, <3>3, <3>4, <3>5, <3>6, <3>7 DEF Counted
    <2>4. InPieces(p)' /\ Landed(p)'
        <3>1. loop'.posted[p] = Least(loop.posted[p] + Len(f) * ChunkCells, loop.parts[p].cells)
            BY <1>10, <2>1 DEF posted
        <3> QED BY <1>0, <1>8, <2>1, <2>2, <3>1, PostedPieces DEF f
    <2>5. OnTheWay'
        <3>1. \A q \in DOMAIN loop.parts : q # p => loop'.posted[q] = loop.posted[q]
            BY <1>0, <1>10, UnderWay
        <3>2. \A q \in Paths : q # p => wire'[q] = wire[q] /\ cq'[q] = cq[q]
            BY <1>0, <1>5
        <3> QED BY <1>0, <1>8, <2>1, <2>4, <3>1, <3>2, OthersStay
    <2>6. EndsHold' /\ Settled'
        BY <1>0, <2>1 DEF EndsHold, EndHolds, Settled, Moving
    <2> QED BY <1>14, <2>3, <2>5, <2>6 DEF IInv
<1> QED BY <1>15, <1>16

-------------------------------------------------------------------------------
(* The steps of the cards.                                                 *)

LEMMA Behind ==
    ASSUME NEW S, NEW s \in Seq(S), s # <<>>
    PROVE  /\ Len(s) \in Nat \ {0} /\ Head(s) = s[1] /\ Head(s) \in S
           /\ Tail(s) \in Seq(S) /\ Len(Tail(s)) = Len(s) - 1
           /\ DOMAIN s = 1 .. Len(s) /\ DOMAIN Tail(s) = 1 .. Len(s) - 1
           /\ \A i \in 1 .. Len(s) - 1 : Tail(s)[i] = s[i + 1]
           /\ Tail(s) # <<>> => Head(Tail(s)) = s[2] /\ Len(s) > 1
           /\ Tail(s) = <<>> => Len(s) = 1
<1>1. Len(s) \in Nat \ {0} /\ DOMAIN s = 1 .. Len(s) /\ Head(s) = s[1]
    OBVIOUS
<1>2. Head(s) \in S
    BY <1>1
<1>3. Tail(s) \in Seq(S) /\ Len(Tail(s)) = Len(s) - 1
    OBVIOUS
<1>4. DOMAIN Tail(s) = 1 .. Len(s) - 1
    BY <1>3
<1>5. \A i \in 1 .. Len(s) - 1 : Tail(s)[i] = s[i + 1]
    OBVIOUS
<1>6. Tail(s) = <<>> => Len(s) = 1
    <2> SUFFICES ASSUME Tail(s) = <<>> PROVE Len(s) = 1
        OBVIOUS
    <2>1. Len(<<>>) = 0
        OBVIOUS
    <2>2. Len(Tail(s)) = 0
        BY <2>1
    <2> DEFINE n == Len(s)
    <2>3. n \in Nat /\ n - 1 = 0
        BY <1>1, <1>3, <2>2
    <2> HIDE DEF n
    <2>4. n = 1
        BY <2>3
    <2> QED BY <2>4 DEF n
<1>7. Tail(s) # <<>> => Head(Tail(s)) = s[2] /\ Len(s) > 1
    <2> SUFFICES ASSUME Tail(s) # <<>> PROVE Head(Tail(s)) = s[2] /\ Len(s) > 1
        OBVIOUS
    <2>1. Len(Tail(s)) # 0
        BY <1>3, NoneOf
    <2>2. 1 \in 1 .. Len(s) - 1
        BY <1>1, <1>3, <2>1
    <2>3. Tail(s)[1] = s[2]
        BY <1>5, <2>2
    <2>4. Head(Tail(s)) = Tail(s)[1]
        BY <1>3
    <2> QED BY <1>1, <2>2, <2>3, <2>4
<1> QED BY <1>1, <1>2, <1>3, <1>4, <1>5, <1>6, <1>7

LEMMA AppendOk ==
    ASSUME NEW s \in Seq({"ok", "failed"})
    PROVE  /\ Append(s, "ok") \in Seq({"ok", "failed"}) /\ Len(Append(s, "ok")) = Len(s) + 1
           /\ "failed" \in Range(s) => "failed" \in Range(Append(s, "ok"))
<1>1. Append(s, "ok") \in Seq({"ok", "failed"}) /\ Len(Append(s, "ok")) = Len(s) + 1
    OBVIOUS
<1>2. \A i \in DOMAIN s : i \in DOMAIN Append(s, "ok") /\ Append(s, "ok")[i] = s[i]
    OBVIOUS
<1> QED BY <1>1, <1>2 DEF Range

LEMMA AllFailed ==
    ASSUME NEW s \in Seq({"ok", "failed"}), NEW w \in Seq(Piece), w # <<>>
    PROVE  LET t == s \o [i \in DOMAIN w |-> "failed"]
           IN /\ t \in Seq({"ok", "failed"}) /\ Len(t) = Len(s) + Len(w)
              /\ "failed" \in Range(t)
<1> DEFINE u == [i \in DOMAIN w |-> "failed"]
<1>1. u \in Seq({"ok", "failed"}) /\ Len(u) = Len(w) /\ 1 \in 1 .. Len(w) /\ u[1] = "failed"
    OBVIOUS
<1>2. Len(s) \in Nat
    OBVIOUS
<1> HIDE DEF u
<1>3. /\ s \o u \in Seq({"ok", "failed"}) /\ Len(s \o u) = Len(s) + Len(u)
      /\ (s \o u)[Len(s) + 1] = u[1] /\ Len(s) + 1 \in DOMAIN (s \o u)
    BY <1>1, <1>2
<1>4. "failed" \in Range(s \o u)
    BY <1>1, <1>3 DEF Range
<1> QED BY <1>1, <1>3, <1>4 DEF u

(* Whatever the cards carry, what they say of it is typed, and the count of it stands. *)
LEMMA CarryType ==
    ASSUME TypeOK, NEW p \in Paths, Carry(p)
    PROVE  /\ TypeOK' /\ UNCHANGED <<ends, call, loop>>
           /\ Len(wire'[p]) + Len(cq'[p]) = Len(wire[p]) + Len(cq[p])
           /\ \A q \in Paths : q # p => wire'[q] = wire[q] /\ cq'[q] = cq[q]
           /\ wire[p] # <<>>
<1> DEFINE piece == Head(wire[p])
<1>0. wire[p] # <<>> /\ UNCHANGED <<ends, call, loop>>
    BY DEF Carry
<1>1. /\ wire[p] \in Seq(Piece) /\ cq[p] \in Seq({"ok", "failed"})
      /\ Len(wire[p]) \in Nat /\ Len(cq[p]) \in Nat
    <2>1. wire[p] \in Seq(Piece) /\ cq[p] \in Seq({"ok", "failed"})
        BY DEF TypeOK
    <2> QED BY <2>1, LengthNat
<1>2. CASE /\ memory' = [memory EXCEPT ![Far(piece.source)] = [a \in Cells |->
                   IF a \in piece.to .. piece.to + piece.cells - 1
                   THEN memory[piece.source][a - piece.to + piece.from] ELSE @[a]]]
           /\ cq' = [cq EXCEPT ![p] = Append(@, "ok")]
           /\ wire' = [wire EXCEPT ![p] = Tail(@)]
    <2>1. Tail(wire[p]) \in Seq(Piece) /\ Len(Tail(wire[p])) = Len(wire[p]) - 1
        BY <1>0, <1>1, Behind
    <2>2. /\ Append(cq[p], "ok") \in Seq({"ok", "failed"})
          /\ Len(Append(cq[p], "ok")) = Len(cq[p]) + 1
        BY <1>1, AppendOk
    <2>3. wire' \in [Paths -> Seq(Piece)] /\ cq' \in [Paths -> Seq({"ok", "failed"})]
        BY <1>2, <2>1, <2>2 DEF TypeOK
    <2>4. /\ wire'[p] = Tail(wire[p]) /\ cq'[p] = Append(cq[p], "ok")
          /\ \A q \in Paths : q # p => wire'[q] = wire[q] /\ cq'[q] = cq[q]
        BY <1>2 DEF TypeOK
    <2>5. Len(wire'[p]) + Len(cq'[p]) = Len(wire[p]) + Len(cq[p])
        <3> DEFINE a == Len(wire[p])
                   b == Len(cq[p])
        <3>1. a \in Nat /\ b \in Nat /\ Len(wire'[p]) = a - 1 /\ Len(cq'[p]) = b + 1
            BY <1>1, <2>1, <2>2, <2>4, Zenon
        <3> HIDE DEF a, b
        <3>2. Len(wire'[p]) + Len(cq'[p]) = a + b
            BY <3>1
        <3> QED BY <3>2 DEF a, b
    <2>6. memory' = [e \in Ends |-> [a \in Cells |-> memory'[e][a]]]
        <3> DEFINE new == [a \in Cells |->
                   IF a \in piece.to .. piece.to + piece.cells - 1
                   THEN memory[piece.source][a - piece.to + piece.from]
                   ELSE memory[Far(piece.source)][a]]
        <3>1. memory' = [memory EXCEPT ![Far(piece.source)] = new]
            BY <1>2, Zenon
        <3>2. new = [a \in Cells |-> new[a]]
            OBVIOUS
        <3> HIDE DEF new, piece
        <3>3. memory = [e \in Ends |-> [a \in Cells |-> memory[e][a]]]
            BY DEF TypeOK
        <3> QED BY <3>1, <3>2, <3>3
    <2>7. TypeOK'
        <3>1. /\ call' \in [number : 0 .. Len(Calls), at : {"none", "moving", "moved", "failed"}]
              /\ loop' \in [parts : Seq(Part), posted : Seq(Nat), flying : Seq(Nat),
                            done : SUBSET Nat, part : Nat, ready : Nat, waited : Nat]
            BY <1>0 DEF TypeOK
        <3> QED BY <2>3, <2>6, <3>1, Zenon DEF TypeOK
    <2> QED BY <1>0, <2>4, <2>5, <2>7
<1>3. CASE /\ cq' = [cq EXCEPT ![p] = @ \o [i \in DOMAIN wire[p] |-> "failed"]]
           /\ wire' = [wire EXCEPT ![p] = <<>>]
           /\ UNCHANGED memory
    <2> DEFINE new == cq[p] \o [i \in DOMAIN wire[p] |-> "failed"]
    <2>1. new \in Seq({"ok", "failed"}) /\ Len(new) = Len(cq[p]) + Len(wire[p])
        BY <1>0, <1>1, AllFailed, Zenon
    <2>2. cq' = [cq EXCEPT ![p] = new]
        BY <1>3, Zenon
    <2> HIDE DEF new
    <2>3. wire' \in [Paths -> Seq(Piece)] /\ cq' \in [Paths -> Seq({"ok", "failed"})]
        <3>1. <<>> \in Seq(Piece)
            OBVIOUS
        <3> QED BY <1>3, <2>1, <2>2, <3>1 DEF TypeOK
    <2>4. /\ wire'[p] = <<>> /\ cq'[p] = new
          /\ \A q \in Paths : q # p => wire'[q] = wire[q] /\ cq'[q] = cq[q]
        BY <1>3, <2>2 DEF TypeOK
    <2>5. Len(wire'[p]) + Len(cq'[p]) = Len(wire[p]) + Len(cq[p])
        <3> DEFINE a == Len(wire[p])
                   b == Len(cq[p])
        <3>1. a \in Nat /\ b \in Nat /\ Len(cq'[p]) = b + a
            BY <1>1, <2>1, <2>4, Zenon
        <3>2. Len(wire'[p]) = 0
            BY <2>4
        <3> HIDE DEF a, b
        <3>3. Len(wire'[p]) + Len(cq'[p]) = a + b
            BY <3>1, <3>2
        <3> QED BY <3>3 DEF a, b
    <2>7. TypeOK'
        <3>1. /\ call' \in [number : 0 .. Len(Calls), at : {"none", "moving", "moved", "failed"}]
              /\ loop' \in [parts : Seq(Part), posted : Seq(Nat), flying : Seq(Nat),
                            done : SUBSET Nat, part : Nat, ready : Nat, waited : Nat]
              /\ memory' = [e \in Ends |-> [a \in Cells |-> memory'[e][a]]]
            BY <1>0, <1>3 DEF TypeOK
        <3> QED BY <2>3, <3>1, Zenon DEF TypeOK
    <2> QED BY <1>0, <2>4, <2>5, <2>7
<1>4. \/ /\ memory' = [memory EXCEPT ![Far(piece.source)] = [a \in Cells |->
                 IF a \in piece.to .. piece.to + piece.cells - 1
                 THEN memory[piece.source][a - piece.to + piece.from] ELSE @[a]]]
         /\ cq' = [cq EXCEPT ![p] = Append(@, "ok")]
         /\ wire' = [wire EXCEPT ![p] = Tail(@)]
      \/ /\ cq' = [cq EXCEPT ![p] = @ \o [i \in DOMAIN wire[p] |-> "failed"]]
         /\ wire' = [wire EXCEPT ![p] = <<>>]
         /\ UNCHANGED memory
    BY Zenon DEF Carry
<1> QED BY <1>2, <1>3, <1>4

(* The count of what is on a path stands when the cards carry some of it. *)
LEMMA CarryCounts ==
    ASSUME TypeOK, Counted, NEW p \in Paths, Carry(p)
    PROVE  Counted'
<1> SUFFICES ASSUME call'.at = "moving" PROVE Counted'
    BY DEF Counted
<1>1. /\ UNCHANGED <<ends, call, loop>> /\ wire[p] # <<>>
      /\ Len(wire'[p]) + Len(cq'[p]) = Len(wire[p]) + Len(cq[p])
      /\ \A q \in Paths : q # p => wire'[q] = wire[q] /\ cq'[q] = cq[q]
    BY CarryType
<1>2. Busy' = Busy /\ Now' = Now /\ call.at = "moving" /\ p \in Busy
    BY <1>1 DEF Busy, Now, Counted, Quiet
<1>3. \A q \in Busy : /\ loop.flying[q] = Len(wire'[q]) + Len(cq'[q])
                      /\ loop.flying[q] <= Depth
    <2> SUFFICES ASSUME NEW q \in Busy
                 PROVE  /\ loop.flying[q] = Len(wire'[q]) + Len(cq'[q])
                        /\ loop.flying[q] <= Depth
        OBVIOUS
    <2>1. loop.flying[q] = Len(wire[q]) + Len(cq[q]) /\ loop.flying[q] <= Depth /\ q \in Paths
        BY <1>2 DEF Counted, Busy
    <2> QED BY <1>1, <2>1
<1>4. \A q \in Paths \ Busy : Quiet(q)'
    BY <1>1, <1>2 DEF Counted, Quiet
<1>5. /\ ends'["here"].at = "ready" /\ call'.number \in 1 .. Len(Calls)
      /\ loop'.parts # <<>> /\ loop'.parts = Parted(Now'.cells, Len(loop'.parts))
      /\ Len(loop'.posted) = Len(loop'.parts) /\ Len(loop'.flying) = Len(loop'.parts)
      /\ \A q \in loop'.done : q \in Busy \/ loop'.parts[q].cells = 0
      /\ \A q \in DOMAIN loop'.parts : loop'.posted[q] <= loop'.parts[q].cells
      /\ \A q \in DOMAIN loop'.parts \cap loop'.done :
            loop'.posted[q] = loop'.parts[q].cells /\ loop'.flying[q] = 0
    BY <1>1, <1>2 DEF Counted
<1>6. Depth' = Depth
    BY <1>1, DepthStays
<1> QED BY <1>1, <1>2, <1>3, <1>4, <1>5, <1>6 DEF Counted

(* The first piece of a path is carried to where it belongs. *)
Lands(p) ==
    LET piece == Head(wire[p])
    IN /\ wire[p] # <<>>
       /\ memory' = [memory EXCEPT ![Far(piece.source)] = [a \in Cells |->
              IF a \in piece.to .. piece.to + piece.cells - 1
              THEN memory[piece.source][a - piece.to + piece.from] ELSE @[a]]]
       /\ cq' = [cq EXCEPT ![p] = Append(@, "ok")]
       /\ wire' = [wire EXCEPT ![p] = Tail(@)]
       /\ UNCHANGED <<ends, call, loop>>

(* What such a piece brings is the payload, wherever it overlaps what was there: what had landed
   stays landed and the piece's own cells land.                                               *)
LEMMA PieceLands ==
    ASSUME IInv, call.at = "moving", NEW p \in Busy, Lands(p)
    PROVE  OnTheWay'
<1> DEFINE w == wire[p]
           piece == Head(wire[p])
           src == Source(Now)
           far == Far(Source(Now))
           k == call.number
           from == From(Now)
           to == To(Now)
           ideal == Moved(k, Ideal[k - 1])
<1>0. TypeOK /\ Counted /\ OnTheWay /\ Moving /\ p \in DOMAIN loop.parts /\ p \in Paths
    BY DEF IInv, Busy, Moving
<1>c. UNCHANGED <<ends, call, loop>> /\ w # <<>>
    BY DEF Lands
<1>1. /\ k \in 1 .. Len(Calls) /\ Now = Calls[k] /\ from \in Nat /\ to \in Nat
      /\ Now.cells \in Nat /\ src \in Ends /\ far \in Ends /\ far # src
    BY <1>0, UnderWay DEF Now
<1>n. from \in Nat /\ to \in Nat /\ Now.cells \in Nat
    BY <1>1
<1>2. /\ from + Now.cells <= Room /\ to + Now.cells <= Room
      /\ \A a \in Cells : memory[src][a] = ideal[src][a]
      /\ \A a \in Cells \ (to .. to + Now.cells - 1) : memory[far][a] = Ideal[k - 1][far][a]
      /\ \A q \in Busy : InPieces(q) /\ Landed(q)
    BY <1>0, Zenon DEF OnTheWay, Moving
<1>3. /\ w \in Seq(Piece) /\ piece = w[1] /\ piece \in Piece /\ Len(w) \in Nat \ {0}
      /\ Tail(w) \in Seq(Piece) /\ DOMAIN w = 1 .. Len(w) /\ DOMAIN Tail(w) = 1 .. Len(w) - 1
      /\ Len(Tail(w)) = Len(w) - 1
      /\ \A i \in 1 .. Len(w) - 1 : Tail(w)[i] = w[i + 1]
      /\ Tail(w) # <<>> => Head(Tail(w)) = w[2] /\ Len(w) > 1
      /\ Tail(w) = <<>> => Len(w) = 1
    <2>1. w \in Seq(Piece)
        BY <1>0 DEF TypeOK
    <2> QED BY <1>c, <2>1, Behind
<1>4. /\ wire'[p] = Tail(w) /\ cq'[p] = Append(cq[p], "ok") /\ Now' = Now /\ Busy' = Busy
      /\ \A q \in Paths : q # p => wire'[q] = wire[q] /\ cq'[q] = cq[q]
    BY <1>0, <1>c DEF TypeOK, Now, Busy, Lands
<1> HIDE DEF ideal, from, to, w, piece
<1>5. /\ piece.source = src /\ piece.from - from = piece.to - to
      /\ loop.parts[p].start <= piece.to - to
      /\ piece.to + piece.cells - to <= PostedTo(p)
      /\ Len(w) = 1 => piece.to + piece.cells = to + PostedTo(p)
      /\ Len(w) > 1 => piece.to + piece.cells = w[2].to
    <2>1. 1 \in DOMAIN w /\ InPieces(p) /\ 1 + 1 = 2 /\ (Len(w) > 1 => 1 < Len(w))
          /\ (Len(w) = 1 => 1 = Len(w))
        BY <1>2, <1>3
    <2>2. /\ w[1].source = src /\ w[1].from - from = w[1].to - to
          /\ loop.parts[p].start <= w[1].to - to
          /\ w[1].to + w[1].cells - to <= PostedTo(p)
          /\ 1 = Len(w) => w[1].to + w[1].cells = to + PostedTo(p)
          /\ 1 < Len(w) => w[1].to + w[1].cells = w[1 + 1].to
        BY <2>1, Zenon DEF InPieces, w, from, to
    <2> QED BY <1>3, <2>1, <2>2
<1>6. /\ piece.to \in Nat /\ piece.from \in Nat /\ piece.cells \in Nat
    BY <1>3 DEF Piece
<1> DEFINE there == piece.to .. piece.to + piece.cells - 1
<1>7. /\ \A a \in Cells : memory'[src][a] = memory[src][a]
      /\ \A a \in Cells : memory'[far][a] = IF a \in there
                                            THEN memory[src][a - piece.to + piece.from]
                                            ELSE memory[far][a]
    <2> DEFINE new == [a \in Cells |-> IF a \in there
                                       THEN memory[src][a - piece.to + piece.from]
                                       ELSE memory[far][a]]
    <2>1. memory' = [memory EXCEPT ![far] = new]
        BY <1>5, Zenon DEF Lands, piece
    <2>2. \A a \in Cells : new[a] = IF a \in there THEN memory[src][a - piece.to + piece.from]
                                                   ELSE memory[far][a]
        OBVIOUS
    <2> HIDE DEF new, there, piece
    <2>3. memory'[far] = new /\ memory'[src] = memory[src]
        BY <1>0, <1>1, <2>1 DEF TypeOK
    <2> QED BY <2>2, <2>3, Zenon
<1>8. \A q \in Busy : /\ loop.parts[q].start \in Nat /\ PostedTo(q) \in Nat
                      /\ PostedTo(q) <= Now.cells
    <2> SUFFICES ASSUME NEW q \in Busy
                 PROVE  /\ loop.parts[q].start \in Nat /\ PostedTo(q) \in Nat
                        /\ PostedTo(q) <= Now.cells
        OBVIOUS
    <2>1. /\ loop.parts[q].start \in Nat /\ loop.parts[q].cells \in Nat
          /\ loop.posted[q] \in Nat /\ loop.posted[q] <= loop.parts[q].cells
          /\ loop.parts[q].start + loop.parts[q].cells <= Now.cells
        BY <1>0, UnderWay DEF Busy
    <2> QED BY <1>n, <2>1 DEF PostedTo
(* A place of the payload, at the other end. *)
<1>9. ASSUME NEW o \in Nat, o < Now.cells,
             to + o \in there \/ memory[far][to + o] = <<k, from + o>>
      PROVE  memory'[far][to + o] = <<k, from + o>>
    <2>1. to + o \in Cells /\ from + o \in Cells
        BY <1>1, <1>2, <1>9, Sizes DEF Cells
    <2>2. CASE to + o \in there
        <3>1. (to + o) - piece.to + piece.from = from + o
            <4>1. piece.from - from = piece.to - to
                BY <1>5
            <4> QED BY <1>n, <1>6, <4>1
        <3>2. memory'[far][to + o] = memory[src][from + o]
            BY <1>7, <2>1, <2>2, <3>1
        <3>3. ideal[src][from + o] = <<k, from + o>>
            <4>1. from + o \in from .. from + Now.cells - 1
                BY <1>1, <1>9
            <4> QED BY <1>1, <2>1, <4>1 DEF ideal, Moved, from
        <3> QED BY <1>2, <2>1, <3>2, <3>3
    <2>3. CASE to + o \notin there
        <3>1. memory'[far][to + o] = memory[far][to + o]
            BY <1>7, <2>1, <2>3
        <3> QED BY <1>9, <2>3, <3>1
    <2> QED BY <2>2, <2>3
<1>10. \A a \in Cells : memory'[src][a] = ideal[src][a]
    BY <1>2, <1>7
<1>11. ASSUME NEW a \in Cells \ (to .. to + Now.cells - 1)
       PROVE  memory'[far][a] = Ideal[k - 1][far][a]
    <2>1. PostedTo(p) <= Now.cells /\ PostedTo(p) \in Nat /\ loop.parts[p].start \in Nat
        BY <1>8
    <2>2. a \notin there
        <3>1. /\ loop.parts[p].start <= piece.to - to
              /\ piece.to + piece.cells - to <= PostedTo(p)
            BY <1>5
        <3>2. to <= piece.to /\ piece.to + piece.cells <= to + Now.cells
            BY <1>n, <1>6, <2>1, <3>1
        <3>3. a \in Int /\ ~(to <= a /\ a <= to + Now.cells - 1)
            BY <1>1, Sizes DEF Cells
        <3> QED BY <1>n, <1>6, <3>2, <3>3
    <2> QED BY <1>2, <1>7, <2>2
<1>12. ASSUME NEW q \in Busy, q # p
       PROVE  InPieces(q)' /\ Landed(q)'
    <2>1. /\ wire'[q] = wire[q] /\ cq'[q] = cq[q] /\ InPieces(q) /\ Landed(q)
          /\ wire[q] \in Seq(Piece)
        BY <1>0, <1>2, <1>4, <1>12 DEF Busy, TypeOK
    <2>2. PostedTo(q)' = PostedTo(q) /\ LandedTo(q)' = LandedTo(q)
        BY <1>c, <1>4, <2>1 DEF PostedTo, LandedTo
    <2>3. InPieces(q)'
        BY <1>c, <1>4, <2>1, <2>2 DEF InPieces
    <2>4. LandedTo(q) \in Int /\ LandedTo(q) <= Now.cells
        <3>1. CASE wire[q] = <<>>
            BY <1>1, <1>8, <3>1 DEF LandedTo
        <3>2. CASE wire[q] # <<>>
            <4>1. /\ 1 \in DOMAIN wire[q] /\ Head(wire[q]) = wire[q][1] /\ wire[q][1] \in Piece
                BY <2>1, <3>2, Behind
            <4>2. wire[q][1].to + wire[q][1].cells - to <= PostedTo(q)
                BY <2>1, <4>1, Zenon DEF InPieces, to
            <4>3. wire[q][1].to \in Nat /\ wire[q][1].cells \in Nat
                BY <4>1 DEF Piece
            <4>4. LandedTo(q) = wire[q][1].to - to
                BY <3>2, <4>1 DEF LandedTo, to
            <4>5. PostedTo(q) \in Nat /\ PostedTo(q) <= Now.cells
                BY <1>8
            <4>6. /\ wire[q][1].to - to \in Int
                  /\ wire[q][1].to - to <= wire[q][1].to + wire[q][1].cells - to
                  /\ wire[q][1].to + wire[q][1].cells - to \in Int
                BY <1>n, <4>3
            <4> QED BY <1>n, <4>2, <4>4, <4>5, <4>6
        <3> QED BY <3>1, <3>2
    <2>5. ASSUME "failed" \notin Range(cq[q]),
                 NEW o \in loop.parts[q].start .. LandedTo(q) - 1
          PROVE  memory'[far][to + o] = <<k, from + o>>
        <3>1. o \in Nat /\ o < Now.cells
            BY <1>1, <1>8, <2>4, SMTT(60)
        <3>2. memory[far][to + o] = <<k, from + o>>
            BY <2>1, <2>5, Zenon DEF Landed, to, from
        <3> QED BY <1>9, <3>1, <3>2
    <2>6. Landed(q)'
        BY <1>c, <1>4, <2>1, <2>2, <2>5 DEF Landed, to, from
    <2> QED BY <2>3, <2>6
<1>13. PostedTo(p)' = PostedTo(p)
    BY <1>c DEF PostedTo
<1>14. InPieces(p)'
    <2> DEFINE v == Tail(w)
    <2>1. ASSUME NEW i \in DOMAIN v
          PROVE  /\ v[i].source = src /\ v[i].from - from = v[i].to - to
                 /\ loop.parts[p].start <= v[i].to - to
                 /\ v[i].to + v[i].cells - to <= PostedTo(p)
                 /\ i = Len(v) => v[i].to + v[i].cells = to + PostedTo(p)
                 /\ i < Len(v) => v[i].to + v[i].cells = v[i + 1].to
        <3>1. /\ i + 1 \in DOMAIN w /\ v[i] = w[i + 1]
              /\ i = Len(v) => i + 1 = Len(w)
              /\ i < Len(v) => i + 1 < Len(w) /\ i + 1 \in 1 .. Len(w) - 1
            BY <1>3
        <3>2. i < Len(v) => v[i + 1] = w[(i + 1) + 1]
            BY <1>3, <3>1
        <3>3. InPieces(p)
            BY <1>2
        <3> DEFINE j == i + 1
        <3>4. /\ j \in DOMAIN w /\ v[i] = w[j] /\ (i = Len(v) => j = Len(w))
              /\ (i < Len(v) => j < Len(w) /\ v[i + 1] = w[j + 1])
            BY <3>1, <3>2
        <3> HIDE DEF j, v
        <3>5. /\ w[j].source = src /\ w[j].from - from = w[j].to - to
              /\ loop.parts[p].start <= w[j].to - to
              /\ w[j].to + w[j].cells - to <= PostedTo(p)
              /\ j = Len(w) => w[j].to + w[j].cells = to + PostedTo(p)
              /\ j < Len(w) => w[j].to + w[j].cells = w[j + 1].to
            BY <3>3, <3>4, Zenon DEF InPieces, w, from, to
        <3> QED BY <3>4, <3>5, Zenon
    <2> HIDE DEF v
    <2>2. /\ Source(Now)' = src /\ From(Now)' = from /\ To(Now)' = to /\ wire'[p] = v
        BY <1>4 DEF v, from, to
    <2>3. loop'.parts = loop.parts
        BY <1>c
    <2> QED BY <1>13, <2>1, <2>2, <2>3, Zenon DEF InPieces
<1>15. LandedTo(p)' = piece.to + piece.cells - to
    <2>1. CASE Tail(w) = <<>>
        <3>1. piece.to + piece.cells = to + PostedTo(p)
            BY <1>3, <1>5, <2>1
        <3>2. LandedTo(p)' = PostedTo(p)
            BY <1>c, <1>4, <1>13, <2>1 DEF LandedTo
        <3>3. PostedTo(p) \in Nat
            BY <1>8
        <3> QED BY <1>1, <1>6, <3>1, <3>2, <3>3
    <2>2. CASE Tail(w) # <<>>
        <3>1. LandedTo(p)' = w[2].to - to
            BY <1>c, <1>3, <1>4, <2>2 DEF LandedTo, to
        <3>2. piece.to + piece.cells = w[2].to
            BY <1>3, <1>5, <2>2
        <3> QED BY <1>1, <1>6, <3>1, <3>2
    <2> QED BY <2>1, <2>2
<1>16. LandedTo(p) = piece.to - to
    BY <1>c DEF LandedTo, to, w, piece
<1>17. ASSUME "failed" \notin Range(cq'[p]),
              NEW o \in loop.parts[p].start .. (piece.to + piece.cells - to) - 1
       PROVE  memory'[far][to + o] = <<k, from + o>>
    <2>1. "failed" \notin Range(cq[p])
        <3>1. cq[p] \in Seq({"ok", "failed"})
            BY <1>0 DEF TypeOK
        <3> QED BY <1>4, <1>17, <3>1, AppendOk
    <2>2. o \in Nat /\ o < Now.cells
        <3>1. /\ piece.to + piece.cells - to <= PostedTo(p) /\ PostedTo(p) \in Nat
              /\ PostedTo(p) <= Now.cells /\ loop.parts[p].start \in Nat
            BY <1>5, <1>8
        <3>2. piece.to + piece.cells - to \in Int
            BY <1>1, <1>6
        <3> QED BY <1>n, <3>1, <3>2
    <2>3. CASE o < piece.to - to
        <3>1. o \in loop.parts[p].start .. LandedTo(p) - 1
            BY <1>1, <1>6, <1>8, <1>16, <2>3
        <3>2. Landed(p)
            BY <1>2
        <3>3. memory[far][to + o] = <<k, from + o>>
            BY <2>1, <3>1, <3>2, Zenon DEF Landed, to, from
        <3> QED BY <1>9, <2>2, <3>3
    <2>4. CASE ~(o < piece.to - to)
        <3>1. to + o \in there
            BY <1>1, <1>6, <1>8, <2>2, <2>4, SMTT(60)
        <3> QED BY <1>9, <2>2, <3>1
    <2> QED BY <2>3, <2>4
<1>18. Landed(p)'
    BY <1>c, <1>4, <1>15, <1>17 DEF Landed, to, from
<1>19. \A q \in Busy' : InPieces(q)' /\ Landed(q)'
    BY <1>4, <1>12, <1>14, <1>18
<1> QED BY <1>c, <1>2, <1>4, <1>10, <1>11, <1>19 DEF OnTheWay, ideal, from, to

(* A path that failed promises nothing of where its pieces landed. *)
LEMMA PathFails ==
    ASSUME IInv, call.at = "moving", NEW p \in Busy, Carry(p), wire'[p] = <<>>,
           UNCHANGED memory, "failed" \in Range(cq'[p])
    PROVE  OnTheWay'
<1>1. TypeOK /\ Moving /\ p \in Paths
    BY DEF IInv, Busy, Moving
<1>2. /\ UNCHANGED <<ends, call, loop>>
      /\ \A q \in Paths : q # p => wire'[q] = wire[q] /\ cq'[q] = cq[q]
    BY <1>1, CarryType
<1>3. InPieces(p)' /\ Landed(p)'
    BY DEF InPieces, Landed
<1> QED BY <1>1, <1>2, <1>3, OthersStay

LEMMA CarryHolds ==
    ASSUME IInv, NEW p \in Paths, Carry(p)
    PROVE  IInv'
<1>0. TypeOK /\ Counted /\ OnTheWay /\ Settled /\ EndsHold
    BY DEF IInv
<1>1. TypeOK' /\ UNCHANGED <<ends, call, loop>> /\ wire[p] # <<>>
    BY <1>0, CarryType
<1>2. Counted'
    BY <1>0, CarryCounts
<1>3. EndsHold'
    BY <1>0, <1>1 DEF EndsHold, EndHolds
<1>4. Settled'
    BY <1>0, <1>1 DEF Settled, Quiet
<1>5. OnTheWay'
    <2> SUFFICES ASSUME call.at = "moving" PROVE OnTheWay'
        BY <1>1 DEF OnTheWay
    <2>1. p \in Busy
        BY <1>0, <1>1 DEF Counted, Quiet
    <2>2. CASE Lands(p)
        BY <2>1, <2>2, PieceLands
    <2>3. CASE /\ cq' = [cq EXCEPT ![p] = @ \o [i \in DOMAIN wire[p] |-> "failed"]]
               /\ wire' = [wire EXCEPT ![p] = <<>>]
               /\ UNCHANGED memory
        <3>1. wire[p] \in Seq(Piece) /\ cq[p] \in Seq({"ok", "failed"})
            BY <1>0 DEF TypeOK
        <3>2. "failed" \in Range(cq[p] \o [i \in DOMAIN wire[p] |-> "failed"])
            BY <1>1, <3>1, AllFailed, Zenon
        <3>3. wire'[p] = <<>> /\ cq'[p] = cq[p] \o [i \in DOMAIN wire[p] |-> "failed"]
            BY <1>0, <2>3, Zenon DEF TypeOK
        <3>4. "failed" \in Range(cq'[p])
            BY <3>2, <3>3, Zenon
        <3> QED BY <2>1, <2>3, <3>3, <3>4, PathFails
    <2>4. \/ Lands(p)
          \/ /\ cq' = [cq EXCEPT ![p] = @ \o [i \in DOMAIN wire[p] |-> "failed"]]
             /\ wire' = [wire EXCEPT ![p] = <<>>]
             /\ UNCHANGED memory
        BY Zenon DEF Carry, Lands
    <2> QED BY <2>2, <2>3, <2>4
<1> QED BY <1>1, <1>2, <1>3, <1>4, <1>5 DEF IInv

-------------------------------------------------------------------------------
(* The theorems.                                                           *)

LEMMA InvInit == Init => IInv
<1> SUFFICES ASSUME Init PROVE IInv
    OBVIOUS
<1>1. TypeOK
    <2>1. /\ memory = [e \in Ends |-> [a \in Cells |-> memory[e][a]]]
        BY DEF Init, Blank
    <2>2. call \in [number : 0 .. Len(Calls), at : {"none", "moving", "moved", "failed"}]
        BY Sizes DEF Init
    <2>3. loop \in [parts : Seq(Part), posted : Seq(Nat), flying : Seq(Nat), done : SUBSET Nat,
                    part : Nat, ready : Nat, waited : Nat]
        BY DEF Init
    <2>4. wire \in [Paths -> Seq(Piece)] /\ cq \in [Paths -> Seq({"ok", "failed"})]
        BY DEF Init
    <2> QED BY <2>1, <2>2, <2>3, <2>4 DEF TypeOK
<1>2. EndsHold
    <2>1. {} = 1 .. 0 /\ 0 \in Nat /\ IsFiniteSet({})
        BY FS_EmptySet
    <2> DEFINE end == [at |-> "closed", ports |-> {}, pairs |-> {}, joined |-> FALSE,
                       keys |-> {}, held |-> FALSE]
    <2>2. EndHolds(end)
        BY <2>1 DEF EndHolds
    <2>3. ends = [e \in Ends |-> end]
        BY DEF Init
    <2> HIDE DEF end
    <2> QED BY <2>2, <2>3 DEF EndsHold
<1>3. Counted /\ OnTheWay
    BY DEF Init, Counted, OnTheWay
<1>4. Settled
    <2>1. Ideal[0] = [e \in Ends |-> Blank]
        BY IdealIs, Sizes
    <2>2. call.number = 0 /\ memory = [e \in Ends |-> Blank]
        BY DEF Init
    <2>3. \A p \in Paths : Quiet(p)
        BY DEF Init, Quiet
    <2> QED BY <2>1, <2>2, <2>3 DEF Settled
<1> QED BY <1>1, <1>2, <1>3, <1>4 DEF IInv

LEMMA InvStep == IInv /\ [Next]_vars => IInv'
<1> SUFFICES ASSUME IInv, [Next]_vars PROVE IInv'
    OBVIOUS
<1>0. EndsHold
    BY DEF IInv
<1>1. ASSUME NEW e \in Ends, Open(e) \/ LinkUp(e) \/ Register(e) \/ Join(e)
      PROVE  IInv'
    <2>1. /\ EndsHold' /\ UNCHANGED <<memory, call, loop, wire, cq>>
          /\ ends["here"].at = "ready" => ends'["here"].at = "ready"
        BY <1>0, <1>1, SetupHolds
    <2> QED BY <2>1, CallStays
<1>2. CASE Begin
    BY <1>2, BeginHolds
<1>3. CASE Round
    BY <1>3, RoundHolds
<1>4. CASE GiveUp
    BY <1>4, GiveUpHolds
<1>5. CASE Finish
    BY <1>5, FinishHolds
<1>6. CASE \E p \in Paths : Post(p) \/ Poll(p) \/ PassOver(p)
    BY <1>6, PostHolds, PollHolds, PassOverHolds
<1>7. CASE Leave
    BY <1>7, LeaveHolds
<1>8. CASE \E p \in Paths : Carry(p)
    BY <1>8, CarryHolds
<1>9. CASE UNCHANGED vars
    <2>1. UNCHANGED <<ends, memory, call, loop, wire, cq>>
        BY <1>9 DEF vars
    <2>2. EndsHold'
        BY <1>0, <2>1 DEF EndsHold, EndHolds
    <2> QED BY <2>1, <2>2, CallStays
<1> QED BY <1>1, <1>2, <1>3, <1>4, <1>5, <1>6, <1>7, <1>8, <1>9 DEF Next, Setup, Own, Over

(* For any number of ports and paths, and any calls: one that returns without an error has moved
   its whole payload to its place and nothing else, as if the calls were made one after the
   other at once (`transfer` over what `parted` cuts).                                        *)
THEOREM CallsLandWhole == Spec => []LandsWhole
<1>1. IInv => LandsWhole
    BY DEF IInv, Settled, LandsWhole
<1> QED BY <1>1, InvInit, InvStep, PTL DEF Spec

(* Nothing of a call is left on the link when the next is made, so no completion is counted for
   a piece it is not of: completions carry no name.                                           *)
THEOREM NothingIsLeftOnTheLink == Spec => []QuietBetween
<1>1. IInv => QuietBetween
    BY DEF IInv, Settled, Quiet, QuietBetween
<1> QED BY <1>1, InvInit, InvStep, PTL DEF Spec

(* The cards change no memory but what a region of both ends owns, whoever leaves or gives up
   with pieces under way: a link goes before its region does.                                *)
THEOREM CardsTouchWhatIsHeld == Spec => TouchesWhatIsHeld
<1> DEFINE Held == (\E p \in Paths : Carry(p)) /\ memory' # memory
                   => ends["here"].held /\ ends["there"].held
<1>1. IInv /\ [Next]_vars => [Held]_vars
    <2> SUFFICES ASSUME IInv, NEW p \in Paths, Carry(p), memory' # memory
                 PROVE  ends["here"].held /\ ends["there"].held
        OBVIOUS
    <2>1. Reached(p)
        BY DEF Carry
    <2>2. ends["here"].joined /\ ends["there"].joined
        BY <2>1 DEF Reached
    <2> QED BY <2>2 DEF IInv, EndsHold, EndHolds, Ends
<1> HIDE DEF Held
<1>2. Spec => [][Held]_vars
    BY <1>1, InvInit, InvStep, PTL DEF Spec
<1> QED BY <1>2 DEF Held, TouchesWhatIsHeld
===============================================================================
