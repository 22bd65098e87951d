---------------------------- MODULE StreamingProofs ----------------------------
(***************************************************************************)
(* Theorems about Streaming, for any number of units, any of them large,   *)
(* any orders in which the calls run them, and launches and reads on the   *)
(* way that fail.  They assume that the read of a unit to keep back does   *)
(* not fail: where it does, KernelsReadTheirUnit does not hold.            *)
(*                                                                         *)
(* The invariant says where in their streams the copies and the kernels    *)
(* that are under way stand (Streams), that the loader has what was asked  *)
(* for in the order it was asked for (Channel), that a region is taken by  *)
(* one unit at a time (Turns), which weights land in it (Lands), that what *)
(* a kernel reads is there when it may start and is not written before it  *)
(* is through, by a copy under way or by one still to be asked for         *)
(* (Reading), and that what is kept back is on its way there (Backs).      *)
(***************************************************************************)
EXTENDS Streaming, FiniteSetTheorems, WellFoundedInduction, TLAPS

-------------------------------------------------------------------------------
(* Where things may stand.                                                   *)

Requests == [unit : UnitSet, halves : SUBSET Halves, gated : BOOLEAN]
Kernels == [unit : UnitSet, call : Nat, from : SUBSET Halves, after : Nat]
Copies == [unit : UnitSet, through : SUBSET Halves, into : SUBSET Halves, after : Nat]

CallTypes ==
    /\ kept \in [UnitSet -> {"tensors", "buffer", "read"}]
    /\ holds \in [Halves -> Int]
    /\ pc \in {"idle", "settling", "asking", "entering", "leaving", "ending", "failed"}
    /\ run \in Seq(UnitSet) /\ queue \in Seq(UnitSet) /\ loading \in Seq(UnitSet)
    /\ busy \in [Halves -> Int] /\ calls \in Nat

CardTypes ==
    /\ requests \in Seq(Requests) /\ answers \in Seq(BOOLEAN) /\ reading \in Seq(Requests)
    /\ pinned \in [Halves -> Int]
    /\ kernels \in Seq(Kernels) /\ copies \in Seq(Copies)
    /\ launched \in Nat /\ issued \in Nat
    /\ done \in [Halves -> Nat] /\ loaded \in [Halves -> Nat]
    /\ region \in [Halves -> Int] /\ buffer \subseteq UnitSet

(* The events are places the streams have come to, and of each half of the pinned memory at
   most one copy is under way, which finds there what it is to bring.                       *)
Streams ==
    /\ Len(kernels) <= launched /\ Len(copies) <= issued
    /\ \A h \in Halves : done[h] <= launched /\ loaded[h] <= issued
    /\ \A h \in Halves : Copied < loaded[h] => h \in copies[loaded[h] - Copied].through
    /\ \A i \in 1 .. Len(copies) :
         /\ copies[i].into \in {copies[i].through, {}}
         /\ \A h \in copies[i].through : loaded[h] = Copied + i /\ pinned[h] = copies[i].unit

Asks(request, u) ==
    /\ request.unit = u
    /\ request.gated <=> pc # "settling"
    /\ request.gated => request.halves = RegionOf(u)

(* What was asked for is answered, being read, or on its way to the loader, in this order. *)
Channel ==
    /\ Len(reading) <= 1
    /\ Len(loading) = Len(answers) + Len(reading) + Len(requests)
    /\ \A i \in 1 .. Len(reading) : Asks(reading[i], loading[Len(answers) + i])
    /\ \A i \in 1 .. Len(requests) :
         Asks(requests[i], loading[Len(answers) + Len(reading) + i])
    /\ pc = "idle" => loading = <<>>
    /\ pc = "settling" => \A i \in 1 .. Len(answers) : answers[i]

(* A region is taken by one unit at a time, which holds it as soon as it is not asked for. *)
Turns ==
    /\ pc \in {"idle", "settling"} => busy = Nobody
    /\ pc # "settling" =>
         \A j \in 1 .. Len(loading) : \A h \in RegionOf(loading[j]) :
            /\ busy[h] = loading[j] /\ holds[h] = None
            /\ \A k \in 1 .. Len(loading) : h \in RegionOf(loading[k]) => k = j
    /\ pc \in {"asking", "entering", "leaving"} =>
         \A h \in Halves : busy[h] # None =>
            /\ h \in RegionOf(busy[h])
            /\ \A g \in RegionOf(busy[h]) :
                 busy[g] = busy[h] /\ (Loading(busy[h]) \/ holds[g] = busy[h])
    /\ pc = "leaving" =>
         /\ run # <<>>
         /\ kept[Head(run)] = "read" =>
              ~Loading(Head(run)) /\ \A h \in RegionOf(Head(run)) : busy[h] = Head(run)

(* Region h has the weights of u once the copies that are under way are done. *)
Landed(h, u) ==
    /\ \A i \in 1 .. Len(copies) : h \in copies[i].into => copies[i].unit = u
    /\ (\A i \in 1 .. Len(copies) : h \notin copies[i].into) => region[h] = u

Lands ==
    /\ \A h \in Halves : holds[h] # None => Landed(h, holds[h])
    /\ pc # "settling" =>
         \A j \in 1 .. Len(answers) : answers[j] =>
            \A h \in RegionOf(loading[j]) : Landed(h, loading[j])

(* Region h is as the kernel k, n-th of its stream, needs it: the copy that is under way to it
   is the one k waits for, or one that waits for k.                                            *)
Untouched(k, h, n) ==
    \/ /\ Landed(h, k.unit)
       /\ \A j \in 1 .. Len(copies) : h \in copies[j].into => Copied + j <= k.after
    \/ /\ region[h] = k.unit
       /\ \E j \in 1 .. Len(copies) : h \in copies[j].into /\ n <= copies[j].after

(* What may still be asked for region h waits for the n-th kernel. *)
Guarded(h, n) ==
    /\ \A j \in 1 .. Len(reading) : h \in reading[j].halves /\ reading[j].gated => n <= done[h]
    /\ \A j \in 1 .. Len(requests) : h \in requests[j].halves /\ requests[j].gated => n <= done[h]
    /\ pc \in {"asking", "entering", "ending"} => n <= done[h]
    /\ pc = "leaving" =>
         n <= done[h] \/ (kept[Head(run)] = "read" /\ h \in RegionOf(Head(run)))

Reading ==
    \A i \in 1 .. Len(kernels) :
        /\ kernels[i].call <= calls
        /\ kernels[i].call = calls =>
             \A h \in kernels[i].from : Untouched(kernels[i], h, Run + i) /\ Guarded(h, Run + i)

(* A unit that was answered for is in the buffer, or a copy brings it there. *)
Brought(u) == u \in buffer \/ \E i \in 1 .. Len(copies) : copies[i].unit = u /\ copies[i].into = {}

Backs ==
    /\ \A u \in UnitSet : kept[u] = "buffer" => u \in buffer
    /\ \A i \in 1 .. Len(copies) : copies[i].into = {} => pc = "settling"
    /\ pc = "settling" => /\ \A i \in 1 .. Len(queue) : Brought(queue[i])
                          /\ \A i \in 1 .. Len(answers) : Brought(loading[i])

IInv == CallTypes /\ CardTypes /\ Streams /\ Channel /\ Turns /\ Lands /\ Reading /\ Backs

-------------------------------------------------------------------------------
(* What is defined from the value before is defined.                         *)

LEMMA LeastNat ==
    ASSUME NEW T, T \subseteq Nat, T # {}
    PROVE  \E n \in T : \A m \in T : n <= m
<1>1. PICK n \in T : \A m \in T : ~ (<<m, n>> \in OpToRel(<, Nat))
  BY NatLessThanWellFounded, WFMin
<1>2. \A m \in T : ~(m < n)
  BY <1>1 DEF OpToRel
<1> QED  BY <1>2

(* f starts at a and goes from each value to the next by g. *)
Iterates(f, n, V, a, g) ==
    /\ f \in [0 .. n -> V]
    /\ f[0] = a
    /\ \A i \in 1 .. n : f[i] = g[i][f[i - 1]]

LEMMA Recursion ==
    ASSUME NEW n \in Nat, NEW V, NEW a \in V, NEW g \in [1 .. n -> [V -> V]]
    PROVE  \E f : Iterates(f, n, V, a, g)
<1> DEFINE Solves(f, k) ==
             f \in [0 .. k -> V] /\ f[0] = a /\ \A i \in 1 .. k : f[i] = g[i][f[i - 1]]
           T == {k \in 0 .. n : ~ \E f : Solves(f, k)}
<1>1. ASSUME T # {} PROVE FALSE
  <2>1. PICK k \in T : \A m \in T : k <= m
    <3>1. T \subseteq Nat  OBVIOUS
    <3> HIDE DEF T
    <3> QED  BY <1>1, <3>1, LeastNat
  <2>2. k \in 0 .. n /\ ~ \E f : Solves(f, k)
    OBVIOUS
  <2>3. k # 0
    <3>1. Solves([i \in 0 .. 0 |-> a], 0)
      OBVIOUS
    <3> QED  BY <2>2, <3>1
  <2>4. k - 1 \in 0 .. n /\ k - 1 \notin T
    <3>1. k - 1 \in 0 .. n /\ ~(k <= k - 1)  BY <2>2, <2>3
    <3> HIDE DEF T
    <3> QED  BY <2>1, <3>1
  <2>5. PICK f : Solves(f, k - 1)
    BY <2>4
  <2> DEFINE h == [i \in 0 .. k |-> IF i = k THEN g[k][f[k - 1]] ELSE f[i]]
  <2>6. h \in [0 .. k -> V]
    <3>1. f \in [0 .. k - 1 -> V] /\ k \in 1 .. n  BY <2>2, <2>3, <2>5
    <3>2. f[k - 1] \in V /\ g[k] \in [V -> V]  BY <2>4, <3>1
    <3>3. ASSUME NEW i \in 0 .. k PROVE h[i] \in V
      BY <3>1, <3>2
    <3> QED  BY <3>3
  <2>7. h[0] = a
    BY <2>2, <2>3, <2>5
  <2>8. ASSUME NEW i \in 1 .. k PROVE h[i] = g[i][h[i - 1]]
    <3>1. CASE i = k
      <4>1. i # 0 /\ i - 1 # k /\ k - 1 \in 0 .. k  BY <2>2, <2>8, <3>1
      <4> QED  BY <3>1, <4>1
    <3>2. CASE i # k
      <4>1. i \in 1 .. k - 1 /\ i \in 0 .. k /\ i - 1 \in 0 .. k /\ i - 1 # k
        BY <2>2, <2>8, <3>2
      <4>2. h[i] = f[i] /\ h[i - 1] = f[i - 1]  BY <3>2, <4>1
      <4> QED  BY <2>5, <4>1, <4>2
    <3> QED  BY <3>1, <3>2
  <2>9. Solves(h, k)
    <3> HIDE DEF h
    <3> QED  BY <2>6, <2>7, <2>8
  <2> QED  BY <2>2, <2>9
<1>2. T = {} /\ n \in 0 .. n
  BY <1>1
<1>3. PICK f : Solves(f, n)
  BY <1>2
<1> QED  BY <1>3 DEF Iterates

-------------------------------------------------------------------------------
(* The units and their regions.                                              *)

LEMMA ReadOfIs ==
    ASSUME NEW units \in Seq(UnitSet)
    PROVE  ReadOf(units) \in Seq(UnitSet)
<1> DEFINE n == Len(units)
           V == Seq(UnitSet)
           Step(i, s) == IF kept[units[i]] = "read" THEN Append(s, units[i]) ELSE s
           g == [i \in 1 .. n |-> [s \in V |-> Step(i, s)]]
           IsUpto(f) == f = [i \in 0 .. n |-> IF i = 0 THEN <<>> ELSE Step(i, f[i - 1])]
<1>0. n \in Nat /\ <<>> \in V
  OBVIOUS
<1>1. ASSUME NEW i \in 1 .. n, NEW s \in V PROVE Step(i, s) \in V
  <2>1. units[i] \in UnitSet  OBVIOUS
  <2> QED  BY <2>1
<1>2. ReadOf(units) = (CHOOSE f : IsUpto(f))[n]
  BY DEF ReadOf
<1> HIDE DEF n, Step
<1>3. g \in [1 .. n -> [V -> V]]
  BY <1>1
<1>4. PICK f : f \in [0 .. n -> V] /\ f[0] = <<>> /\ \A i \in 1 .. n : f[i] = g[i][f[i - 1]]
  <2> HIDE DEF g, V, IsUpto
  <2>1. \E f : Iterates(f, n, V, <<>>, g)
    BY <1>0, <1>3, Recursion, Zenon
  <2> QED  BY <2>1 DEF Iterates
<1>5. ASSUME NEW i \in 1 .. n
      PROVE  i - 1 \in 0 .. n /\ f[i - 1] \in V /\ f[i] = Step(i, f[i - 1])
  <2>1. i - 1 \in 0 .. n  BY <1>0, <1>5
  <2>2. f[i - 1] \in V  BY <1>4, <2>1
  <2> HIDE DEF V
  <2>3. g[i][f[i - 1]] = Step(i, f[i - 1])  BY <1>5, <2>2
  <2> QED  BY <1>4, <2>1, <2>2, <2>3
<1>6. IsUpto(f)
  <2>1. \A i \in 0 .. n : i = 0 \/ i \in 1 .. n
    BY <1>0
  <2>2. \A i \in 0 .. n : f[i] = IF i = 0 THEN <<>> ELSE Step(i, f[i - 1])
    BY <1>4, <1>5, <2>1
  <2> HIDE DEF V
  <2> QED  BY <1>4, <2>2
<1> DEFINE upto == CHOOSE f2 : IsUpto(f2)
<1>8. IsUpto(upto)
  BY <1>6
<1> HIDE DEF upto
<1>9. upto[0] = <<>> /\ \A i \in 1 .. n : upto[i] = Step(i, upto[i - 1])
  <2>1. \A i \in 1 .. n : i \in 0 .. n /\ i # 0
    BY <1>0
  <2>2. 0 \in 0 .. n
    BY <1>0
  <2> QED  BY <1>0, <1>8, <2>1, <2>2
<1>10. upto[n] \in V
  <2> DEFINE T == {k \in 0 .. n : upto[k] \notin V}
  <2> HIDE DEF V
  <2>1. ASSUME T # {} PROVE FALSE
    <3>1. T \subseteq Nat  OBVIOUS
    <3>2. PICK k \in T : \A m \in T : k <= m
      <4> HIDE DEF T
      <4> QED  BY <2>1, <3>1, LeastNat
    <3>3. k \in 0 .. n /\ upto[k] \notin V /\ k # 0
      BY <1>0, <1>9
    <3>4. k \in 1 .. n /\ k - 1 \in 0 .. n /\ ~(k <= k - 1)
      BY <1>0, <3>3
    <3>5. upto[k - 1] \in V
      BY <3>2, <3>4
    <3> QED  BY <1>1, <1>9, <3>3, <3>4, <3>5
  <2>2. n \in 0 .. n
    BY <1>0
  <2> QED  BY <2>1, <2>2
<1> QED  BY <1>2, <1>10 DEF upto

LEMMA Regions ==
    ASSUME NEW u
    PROVE  RegionOf(u) \subseteq Halves /\ RegionOf(u) # {}
<1> DEFINE S == {v \in Reads(kept) \ Large : v < u}
<1>1. IsFiniteSet(UnitSet)
  <2>1. \A a, b \in Int : IsFiniteSet(a .. b)  BY FS_Interval
  <2> QED  BY <2>1, StreamingAssumption DEF UnitSet
<1>2. S \subseteq UnitSet
  BY DEF Reads
<1>3. Cardinality(S) \in Nat
  <2> HIDE DEF S
  <2> QED  BY <1>1, <1>2, FS_Subset, FS_CardinalityType
<1>4. Cardinality(S) % 2 \in {0, 1}
  <2> HIDE DEF S
  <2> QED  BY <1>3
<1>5. RegionOf(u) = IF u \in Large THEN Halves ELSE {Cardinality(S) % 2}
  BY DEF RegionOf
<1> HIDE DEF S
<1> QED  BY <1>4, <1>5 DEF Halves

LEMMA SameRegions ==
    ASSUME kept' = kept
    PROVE  \A u : RegionOf(u)' = RegionOf(u)
  BY DEF RegionOf, Reads

LEMMA UnitsAre ==
    UnitSet \subseteq Int /\ None \in Int /\ \A u \in UnitSet : u # None
  BY DEF UnitSet, None

LEMMA GivenAre == Given \in Seq(UnitSet) /\ Candidates \in Seq(UnitSet)
<1>1. Given \in Seq(UnitSet)
  <2>1. \A i \in 1 .. Units : Units + 1 - i \in 1 .. Units /\ GiveUp[Units + 1 - i] \in UnitSet
    BY StreamingAssumption
  <2> QED  BY <2>1, StreamingAssumption DEF Given
<1> QED  BY <1>1, ReadOfIs DEF Candidates

LEMMA Tails ==
    ASSUME NEW S, NEW q \in Seq(S), q # <<>>
    PROVE  /\ Tail(q) \in Seq(S) /\ Len(Tail(q)) = Len(q) - 1
           /\ \A i \in 1 .. Len(q) - 1 : Tail(q)[i] = q[i + 1] /\ i + 1 \in 1 .. Len(q)
           /\ Head(q) = q[1] /\ Head(q) \in S /\ Len(q) \in Nat \ {0}
           /\ 1 \in 1 .. Len(q)
<1>1. Len(q) \in Nat \ {0} /\ Head(q) = q[1] /\ Head(q) \in S
  OBVIOUS
<1>2. Tail(q) \in Seq(S) /\ Len(Tail(q)) = Len(q) - 1
  OBVIOUS
<1>3. \A i \in 1 .. Len(q) - 1 : Tail(q)[i] = q[i + 1]
  BY <1>1, <1>2
<1>4. \A i \in 1 .. Len(q) - 1 : i + 1 \in 1 .. Len(q)
  BY <1>1, <1>2
<1>5. 1 \in 1 .. Len(q)
  BY <1>1
<1> QED  BY <1>1, <1>2, <1>3, <1>4, <1>5

LEMMA Appends ==
    ASSUME NEW S, NEW q \in Seq(S), NEW m \in S
    PROVE  /\ Append(q, m) \in Seq(S) /\ Len(Append(q, m)) = Len(q) + 1 /\ Len(q) \in Nat
           /\ \A i \in 1 .. Len(q) : Append(q, m)[i] = q[i]
           /\ Append(q, m)[Len(q) + 1] = m
           /\ \A i \in 1 .. Len(q) + 1 : i \in 1 .. Len(q) \/ i = Len(q) + 1
  OBVIOUS

LEMMA Empty == Len(<<>>) = 0 /\ 1 .. 0 = {} /\ \A S : <<>> \in Seq(S)
  OBVIOUS

LEMMA Latest ==
    ASSUME NEW n \in Nat, NEW f \in [Halves -> Nat], \A h \in Halves : f[h] <= n,
           NEW R, R \subseteq Halves, R # {}
    PROVE  \E m \in 0 .. n : (\A h \in R : f[h] <= m) /\ (\E h \in R : f[h] = m)
<1>1. \E m \in 0 .. n : (\A h \in R : f[h] <= m) /\ (\E h \in R : f[h] = m)
  <2>1. \A h \in R : f[h] \in Nat /\ f[h] \in 0 .. n  OBVIOUS
  <2>2. \A h \in R : h = 0 \/ h = 1  BY DEF Halves
  <2>3. PICK h \in R : TRUE  OBVIOUS
  <2>4. CASE \A g \in R : f[g] <= f[h]
    BY <2>1, <2>4
  <2>5. CASE \E g \in R : ~(f[g] <= f[h])
    <3>1. PICK g \in R : ~(f[g] <= f[h])  BY <2>5
    <3>2. \A k \in R : k = g \/ k = h  BY <2>2, <3>1
    <3>3. f[h] <= f[g]  BY <2>1, <3>1
    <3> QED  BY <2>1, <3>2, <3>3
  <2> QED  BY <2>4, <2>5
<1> QED  BY <1>1

LEMMA LoadedIs ==
    ASSUME CardTypes, Streams, NEW u
    PROVE  /\ LoadedAt(u) \in 0 .. issued /\ LoadedAt(u) \in Nat
           /\ kept[u] = "read" => \A h \in RegionOf(u) : loaded[h] <= LoadedAt(u)
<1>1. issued \in Nat /\ loaded \in [Halves -> Nat] /\ \A h \in Halves : loaded[h] <= issued
  BY DEF CardTypes, Streams
<1>2. CASE kept[u] = "read"
  <2>1. \E n \in 0 .. issued : /\ \A h \in RegionOf(u) : loaded[h] <= n
                               /\ \E h \in RegionOf(u) : loaded[h] = n
    BY <1>1, Regions, Latest
  <2> QED  BY <1>1, <1>2, <2>1 DEF LoadedAt
<1>3. CASE kept[u] # "read"
  BY <1>1, <1>3 DEF LoadedAt
<1> QED  BY <1>2, <1>3

LEMMA DoneIs ==
    ASSUME CardTypes, Streams, NEW request, request.halves \subseteq Halves,
           request.gated => request.halves # {}
    PROVE  /\ DoneAt(request) \in 0 .. launched /\ DoneAt(request) \in Nat
           /\ request.gated => \A h \in request.halves : done[h] <= DoneAt(request)
<1>1. launched \in Nat /\ done \in [Halves -> Nat] /\ \A h \in Halves : done[h] <= launched
  BY DEF CardTypes, Streams
<1>2. CASE request.gated
  <2>1. \E n \in 0 .. launched : /\ \A h \in request.halves : done[h] <= n
                                 /\ \E h \in request.halves : done[h] = n
    BY <1>1, <1>2, Latest
  <2> QED  BY <1>1, <1>2, <2>1 DEF DoneAt
<1>3. CASE ~request.gated
  BY <1>1, <1>3 DEF DoneAt
<1> QED  BY <1>2, <1>3

(* What the loader reads, and what it asks for next. *)
LEMMA ReadingIs ==
    ASSUME CardTypes, Channel, reading # <<>>
    PROVE  /\ Head(reading) \in Requests /\ Head(reading) = reading[1] /\ Len(reading) = 1
           /\ Head(reading).halves \subseteq Halves /\ Head(reading).unit \in UnitSet
           /\ Head(reading).gated \in BOOLEAN
           /\ Head(reading).gated => Head(reading).halves # {}
           /\ Asks(Head(reading), loading[Len(answers) + 1])
<1>1. reading \in Seq(Requests) /\ Len(reading) <= 1
  BY DEF CardTypes, Channel
<1>2. Head(reading) \in Requests /\ Head(reading) = reading[1] /\ Len(reading) = 1
  <2>1. /\ Head(reading) \in Requests /\ Head(reading) = reading[1]
        /\ Len(reading) \in Nat \ {0}
    BY <1>1, Tails
  <2> DEFINE n == Len(reading)
  <2>2. n \in Nat \ {0} /\ n <= 1
    BY <1>1, <2>1
  <2> HIDE DEF n
  <2>3. n = 1
    BY <2>2
  <2> QED  BY <2>1, <2>3 DEF n
<1>3. Asks(Head(reading), loading[Len(answers) + 1])
  BY <1>2 DEF Channel
<1>4. Head(reading).gated => Head(reading).halves # {}
  BY <1>3, Regions DEF Asks
<1> QED  BY <1>2, <1>3, <1>4 DEF Requests

LEMMA CopiesAre ==
    ASSUME CardTypes, NEW i \in 1 .. Len(copies)
    PROVE  /\ copies[i].unit \in UnitSet /\ copies[i].after \in Nat
           /\ copies[i].through \subseteq Halves /\ copies[i].into \subseteq Halves
<1>1. copies[i] \in Copies
  BY DEF CardTypes
<1> QED  BY <1>1 DEF Copies

LEMMA KernelsAre ==
    ASSUME CardTypes, NEW i \in 1 .. Len(kernels)
    PROVE  /\ kernels[i].unit \in UnitSet /\ kernels[i].call \in Nat
           /\ kernels[i].after \in Nat /\ kernels[i].from \subseteq Halves
<1>1. kernels[i] \in Kernels
  BY DEF CardTypes
<1> QED  BY <1>1 DEF Kernels

-------------------------------------------------------------------------------
(* The types of the parts.                                                   *)

LEMMA CallTypesStay ==
    ASSUME IInv, [Next]_vars
    PROVE  CallTypes'
<1>0. CallTypes /\ UnitSet \subseteq Int /\ None \in Int
  BY UnitsAre DEF IInv
<1>1. Nobody \in [Halves -> Int]
  BY <1>0 DEF Nobody
<1>2. CASE LetGo \/ ReadOneMore
  <2>1. kept' \in [UnitSet -> {"tensors", "buffer", "read"}] /\ holds' = Nobody
        /\ UNCHANGED call /\ calls' = calls
    BY <1>0, <1>2 DEF LetGo, ReadOneMore, Forget, CallTypes, MayChange
  <2> QED  BY <1>0, <1>1, <2>1 DEF CallTypes, call
<1>3. CASE Settle
  <2>1. PICK n \in 0 .. Len(Candidates) : loading' = SubSeq(Candidates, 1, n)
    BY <1>3 DEF Settle
  <2>2. loading' \in Seq(UnitSet)
    BY <2>1, GivenAre
  <2>3. UNCHANGED <<model, run, busy, calls>> /\ pc' = "settling" /\ queue' = <<>>
    BY <1>3 DEF Settle
  <2> QED  BY <1>0, <2>2, <2>3, Empty DEF CallTypes, model
<1>4. CASE SettleAnswer
  <2>1. loading # <<>> /\ loading \in Seq(UnitSet) /\ queue \in Seq(UnitSet)
    BY <1>0, <1>4 DEF SettleAnswer, CallTypes
  <2>2. Tail(loading) \in Seq(UnitSet) /\ Append(queue, Head(loading)) \in Seq(UnitSet)
    BY <2>1
  <2>3. UNCHANGED <<model, run, busy>>
        /\ \/ /\ loading' = Tail(loading) /\ queue' = Append(queue, Head(loading))
              /\ UNCHANGED <<pc, calls>>
           \/ loading' = <<>> /\ queue' = <<>> /\ pc' = "idle" /\ calls' = calls + 1
    BY <1>4 DEF SettleAnswer
  <2>4. loading' \in Seq(UnitSet) /\ queue' \in Seq(UnitSet)
    BY <2>2, <2>3, Empty
  <2>5. pc' = pc \/ pc' = "idle"
    BY <2>3
  <2>6. calls' \in Nat
    BY <1>0, <2>3 DEF CallTypes
  <2> QED  BY <1>0, <2>3, <2>4, <2>5, <2>6 DEF CallTypes, model
<1>5. CASE Settled
  <2>1. kept' \in [UnitSet -> {"tensors", "buffer", "read"}] /\ holds' = Nobody
        /\ UNCHANGED <<run, busy, loading, calls>> /\ pc' = "idle" /\ queue' = <<>>
    BY <1>0, <1>5 DEF Settled, Forget, CallTypes
  <2> QED  BY <1>0, <1>1, <2>1, Empty DEF CallTypes
<1>6. CASE Begin
  <2>1. PICK order \in Orders : run' = order /\ queue' = ReadOf(order)
    BY <1>6 DEF Begin
  <2>2. order \in Seq(UnitSet)
    BY StreamingAssumption
  <2>3. run' \in Seq(UnitSet) /\ queue' \in Seq(UnitSet)
    BY <2>1, <2>2, ReadOfIs
  <2>4. UNCHANGED model /\ calls' = calls + 1 /\ busy' = Nobody /\ loading' = <<>> /\ pc' = "asking"
    BY <1>6 DEF Begin
  <2> QED  BY <1>0, <1>1, <2>3, <2>4, Empty DEF CallTypes, model
<1>7. CASE Ask
  <2>1. UNCHANGED <<kept, run, calls>>
    BY <1>7 DEF Ask
  <2>2. CASE pc' = "entering" /\ UNCHANGED <<queue, busy, holds, requests, loading>>
    BY <1>0, <2>1, <2>2 DEF CallTypes
  <2>3. CASE queue # <<>> /\ AskFor(Head(queue)) /\ UNCHANGED pc
    <3>1. Head(queue) \in UnitSet /\ Tail(queue) \in Seq(UnitSet) /\ Head(queue) \in Int
      <4>1. queue \in Seq(UnitSet) /\ queue # <<>>  BY <1>0, <2>3 DEF CallTypes
      <4> QED  BY <1>0, <4>1, Tails
    <3>2. queue' = Tail(queue) /\ busy' = Taken(Head(queue))
          /\ \/ UNCHANGED <<holds, loading>>
             \/ holds' = Unheld(Head(queue)) /\ loading' = Append(loading, Head(queue))
      BY <2>3 DEF AskFor
    <3>3. Taken(Head(queue)) \in [Halves -> Int] /\ Unheld(Head(queue)) \in [Halves -> Int]
      <4>1. busy \in [Halves -> Int] /\ holds \in [Halves -> Int]  BY <1>0 DEF CallTypes
      <4> DEFINE u == Head(queue)
      <4>2. u \in Int  BY <3>1
      <4> HIDE DEF u
      <4>3. Taken(u) \in [Halves -> Int]  BY <4>1, <4>2 DEF Taken
      <4>4. Unheld(u) \in [Halves -> Int]  BY <1>0, <4>1 DEF Unheld
      <4> QED  BY <4>3, <4>4 DEF u
    <3>4. Append(loading, Head(queue)) \in Seq(UnitSet)
      BY <1>0, <3>1 DEF CallTypes
    <3> QED  BY <1>0, <2>1, <2>3, <3>1, <3>2, <3>3, <3>4 DEF CallTypes
  <2> QED  BY <1>7, <2>2, <2>3 DEF Ask
<1>8. CASE EnterAnswer \/ Drop
  <2>1. /\ UNCHANGED <<kept, run, queue, busy, calls>> /\ loading' = Tail(loading)
        /\ holds' = holds \/ holds' = Held(Head(loading), TRUE)
                          \/ holds' = Held(Head(loading), FALSE)
                          \/ holds' = Held(Head(loading), Head(answers))
        /\ pc' = pc \/ pc' = "failed"
    BY <1>8 DEF EnterAnswer, Drop
  <2>2. loading # <<>> /\ loading \in Seq(UnitSet)
    <3>1. EnterAnswer => loading # <<>>
      <4>1. ToSet(<<>>) = {}  BY DEF ToSet
      <4> QED  BY <4>1 DEF EnterAnswer, Loading
    <3> QED  BY <1>0, <1>8, <3>1 DEF Drop, CallTypes
  <2>3. Tail(loading) \in Seq(UnitSet) /\ Head(loading) \in Int
    BY <1>0, <2>2, Tails
  <2>4. ASSUME NEW well PROVE Held(Head(loading), well) \in [Halves -> Int]
    BY <1>0, <2>3 DEF Held, CallTypes
  <2> QED  BY <1>0, <2>1, <2>3, <2>4 DEF CallTypes
<1>9. CASE Launch
  BY <1>0, <1>9 DEF Launch, CallTypes, model
<1>10. CASE Leave
  <2>1. UNCHANGED <<model, queue, loading, calls>> /\ run' = Tail(run)
        /\ pc' \in {"asking", "entering"}
        /\ \/ busy' = busy
           \/ busy' = [h \in Halves |-> IF h \in RegionOf(Head(run)) THEN None ELSE busy[h]]
    BY <1>10 DEF Leave
  <2>2. run # <<>>
    BY <1>10 DEF Leave, IInv, Turns
  <2>3. Tail(run) \in Seq(UnitSet)
    BY <1>0, <2>2 DEF CallTypes
  <2> QED  BY <1>0, <2>1, <2>3 DEF CallTypes, model
<1>11. CASE End
  BY <1>0, <1>11 DEF End, CallTypes, model
<1>12. CASE Return
  BY <1>0, <1>1, <1>12, Empty DEF Return, CallTypes, model
<1>13. CASE Loader \/ Kernel \/ Copy \/ UNCHANGED vars
  <2>1. UNCHANGED <<model, call, calls>>
    BY <1>13 DEF Loader, Take, Load, LoadFails, Kernel, Copy, vars
  <2> QED  BY <1>0, <2>1 DEF CallTypes, model, call
<1> QED  BY <1>2, <1>3, <1>4, <1>5, <1>6, <1>7, <1>8, <1>9, <1>10, <1>11, <1>12, <1>13
         DEF Next, Host

LEMMA CardTypesStay ==
    ASSUME IInv, [Next]_vars
    PROVE  CardTypes'
<1>0. /\ CallTypes /\ CardTypes /\ Streams /\ Channel
      /\ requests \in Seq(Requests) /\ answers \in Seq(BOOLEAN) /\ reading \in Seq(Requests)
      /\ pinned \in [Halves -> Int] /\ kernels \in Seq(Kernels) /\ copies \in Seq(Copies)
      /\ launched \in Nat /\ issued \in Nat /\ region \in [Halves -> Int]
      /\ done \in [Halves -> Nat] /\ loaded \in [Halves -> Nat] /\ buffer \subseteq UnitSet
  BY DEF IInv, CardTypes
<1>1. CASE LetGo
  BY <1>0, <1>1 DEF LetGo, loader, events, CardTypes
<1>2. CASE Settle
  <2>1. PICK n \in 0 .. Len(Candidates) :
          requests' = requests \o [i \in 1 .. n |->
              Request(Candidates[i],
                      IF Candidates[i] \in Large THEN Halves ELSE {(i - 1) % 2}, FALSE)]
    BY <1>2 DEF Settle
  <2>2. ASSUME NEW i \in 1 .. n
        PROVE  Request(Candidates[i],
                       IF Candidates[i] \in Large THEN Halves ELSE {(i - 1) % 2}, FALSE)
                  \in Requests
    <3>1. Candidates[i] \in UnitSet
      <4>1. Candidates \in Seq(UnitSet) /\ i \in 1 .. Len(Candidates)
        <5>1. Len(Candidates) \in Nat  BY GivenAre
        <5> QED  BY <2>1, <2>2, <5>1, GivenAre
      <4> HIDE DEF Candidates
      <4> QED  BY <4>1
    <3>2. (i - 1) % 2 \in Halves
      BY <2>2 DEF Halves
    <3> DEFINE hs == IF Candidates[i] \in Large THEN Halves ELSE {(i - 1) % 2}
    <3>3. hs \in SUBSET Halves
      BY <3>2
    <3> HIDE DEF hs, Candidates
    <3>4. Request(Candidates[i], hs, FALSE) \in Requests
      BY <3>1, <3>3 DEF Request, Requests
    <3> QED  BY <3>4 DEF hs
  <2>3. requests' \in Seq(Requests)
    <3> DEFINE r(i) == Request(Candidates[i], IF Candidates[i] \in Large THEN Halves
                                                 ELSE {(i - 1) % 2}, FALSE)
    <3>1. n \in Nat  BY GivenAre
    <3>2. requests' = requests \o [i \in 1 .. n |-> r(i)] /\ \A i \in 1 .. n : r(i) \in Requests
      BY <2>1, <2>2
    <3> HIDE DEF r
    <3>3. [i \in 1 .. n |-> r(i)] \in Seq(Requests)
      BY <3>1, <3>2
    <3> QED  BY <1>0, <3>2, <3>3
  <2>4. UNCHANGED <<answers, reading, pinned, device, events>>
    BY <1>2 DEF Settle
  <2> QED  BY <1>0, <2>3, <2>4 DEF device, events, CardTypes
<1>3. CASE SettleAnswer \/ EnterAnswer \/ Drop
  <2>1. /\ answers # <<>> /\ answers' = Tail(answers)
        /\ UNCHANGED <<requests, reading, pinned, device, events>>
    BY <1>3 DEF SettleAnswer, EnterAnswer, Drop
  <2>2. answers' \in Seq(BOOLEAN)
    BY <1>0, <2>1, Tails
  <2> QED  BY <1>0, <2>1, <2>2 DEF device, events, CardTypes
<1>4. CASE ReadOneMore \/ Settled \/ Begin \/ End \/ Return \/ UNCHANGED vars
  <2>1. UNCHANGED <<loader, device, events>>
    BY <1>4 DEF ReadOneMore, Settled, Begin, End, Return, vars
  <2> QED  BY <1>0, <2>1 DEF loader, device, events, CardTypes
<1>5. CASE Ask
  <2>1. UNCHANGED <<answers, reading, pinned, device, events>>
    BY <1>5 DEF Ask
  <2>2. requests' \in Seq(Requests)
    <3>1. CASE requests' = requests
      BY <1>0, <3>1
    <3>2. CASE requests' # requests
      <4> DEFINE u == Head(queue)
                 m == Request(u, RegionOf(u), TRUE)
      <4>1. queue # <<>> /\ requests' = Append(requests, m)
        BY <1>5, <3>2 DEF Ask, AskFor
      <4>2. u \in UnitSet
        BY <1>0, <4>1, Tails DEF CallTypes
      <4> HIDE DEF u
      <4>3. RegionOf(u) \in SUBSET Halves
        BY Regions
      <4>4. m \in Requests
        BY <4>2, <4>3 DEF Request, Requests
      <4> HIDE DEF m
      <4> QED  BY <1>0, <4>1, <4>4, Appends
    <3> QED  BY <3>1, <3>2
  <2> QED  BY <1>0, <2>1, <2>2 DEF device, events, CardTypes
<1>6. CASE Launch
  <2> DEFINE u == Head(run)
             from == IF kept[u] = "read" THEN RegionOf(u) ELSE {}
             k == [unit |-> u, call |-> calls, from |-> from, after |-> LoadedAt(u)]
  <2>1. /\ run # <<>> /\ kernels' = Append(kernels, k) /\ launched' = launched + 1
        /\ UNCHANGED <<loader, copies, region, buffer, issued, done, loaded>>
    BY <1>6 DEF Launch
  <2>2. u \in UnitSet /\ calls \in Nat
    BY <1>0, <2>1, Tails DEF CallTypes
  <2> HIDE DEF u
  <2>3. from \in SUBSET Halves
    BY Regions
  <2>4. LoadedAt(u) \in Nat
    BY <1>0, LoadedIs
  <2> HIDE DEF from
  <2>5. k \in Kernels
    BY <2>2, <2>3, <2>4 DEF Kernels
  <2> HIDE DEF k
  <2>6. kernels' \in Seq(Kernels)
    BY <1>0, <2>1, <2>5, Appends
  <2> QED  BY <1>0, <2>1, <2>6 DEF loader, CardTypes
<1>7. CASE Leave
  <2>1. /\ UNCHANGED <<loader, device, launched, issued, loaded>>
        /\ \/ done' = done
           \/ done' = [h \in Halves |-> IF h \in RegionOf(Head(run)) THEN launched ELSE done[h]]
    BY <1>7 DEF Leave, DoneNow
  <2>2. done' \in [Halves -> Nat]
    BY <1>0, <2>1
  <2> QED  BY <1>0, <2>1, <2>2 DEF loader, device, CardTypes
<1>8. CASE Take
  <2>1. /\ requests # <<>> /\ reading' = <<Head(requests)>> /\ requests' = Tail(requests)
        /\ UNCHANGED <<answers, pinned, device, events>>
    BY <1>8 DEF Take
  <2>2. requests' \in Seq(Requests) /\ Head(requests) \in Requests
    BY <1>0, <2>1, Tails
  <2>3. reading' \in Seq(Requests)
    BY <2>1, <2>2
  <2> QED  BY <1>0, <2>1, <2>2, <2>3 DEF device, events, CardTypes
<1>9. CASE Load
  <2> DEFINE request == Head(reading)
             copy == [unit |-> request.unit, through |-> request.halves,
                      into |-> IF request.gated THEN request.halves ELSE {},
                      after |-> DoneAt(request)]
  <2>1. /\ reading # <<>>
        /\ pinned' = [h \in Halves |-> IF h \in request.halves THEN request.unit ELSE pinned[h]]
        /\ copies' = Append(copies, copy) /\ issued' = issued + 1
        /\ loaded' = [h \in Halves |-> IF h \in request.halves THEN issued' ELSE loaded[h]]
        /\ answers' = Append(answers, TRUE) /\ reading' = <<>>
        /\ UNCHANGED <<requests, kernels, region, buffer, launched, done>>
    BY <1>9 DEF Load
  <2>2. /\ request \in Requests /\ request.halves \subseteq Halves /\ request.unit \in UnitSet
        /\ request.gated => request.halves # {}
    BY <1>0, <2>1, ReadingIs
  <2> HIDE DEF request
  <2>3. DoneAt(request) \in Nat
    BY <1>0, <2>2, DoneIs
  <2>4. copy \in Copies
    BY <2>2, <2>3 DEF Copies
  <2> HIDE DEF copy
  <2>5. copies' \in Seq(Copies)
    BY <1>0, <2>1, <2>4, Appends
  <2>6. answers' \in Seq(BOOLEAN)
    <3>1. TRUE \in BOOLEAN  OBVIOUS
    <3> QED  BY <1>0, <2>1, <3>1, Appends
  <2>7. issued' \in Nat /\ pinned' \in [Halves -> Int] /\ loaded' \in [Halves -> Nat]
    <3>1. issued' \in Nat  BY <1>0, <2>1
    <3>2. loaded' \in [Halves -> Nat]  BY <1>0, <2>1, <3>1
    <3>3. request.unit \in Int  BY <2>2, UnitsAre
    <3>4. pinned' \in [Halves -> Int]  BY <1>0, <2>1, <3>3
    <3> QED  BY <3>1, <3>2, <3>4
  <2> QED  BY <1>0, <2>1, <2>5, <2>6, <2>7, Empty DEF CardTypes
<1>10. CASE LoadFails
  <2>1. /\ reading # <<>>
        /\ pinned' = [h \in Halves |-> IF h \in Head(reading).halves THEN None ELSE pinned[h]]
        /\ answers' = Append(answers, FALSE) /\ reading' = <<>>
        /\ UNCHANGED <<requests, device, events>>
    BY <1>10 DEF LoadFails
  <2>2. pinned' \in [Halves -> Int]
    BY <1>0, <2>1, UnitsAre
  <2>3. answers' \in Seq(BOOLEAN)
    <3>1. FALSE \in BOOLEAN  OBVIOUS
    <3> QED  BY <1>0, <2>1, <3>1, Appends
  <2> QED  BY <1>0, <2>1, <2>2, <2>3, Empty DEF device, events, CardTypes
<1>11. CASE Kernel
  <2>1. /\ kernels # <<>> /\ kernels' = Tail(kernels)
        /\ UNCHANGED <<loader, copies, region, buffer, events>>
    BY <1>11 DEF Kernel
  <2>2. kernels' \in Seq(Kernels)
    BY <1>0, <2>1, Tails
  <2> QED  BY <1>0, <2>1, <2>2 DEF loader, events, CardTypes
<1>12. CASE Copy
  <2> DEFINE copy == Head(copies)
  <2>1. /\ copies # <<>> /\ copies' = Tail(copies)
        /\ region' = [h \in Halves |-> IF h \in copy.into THEN pinned[h] ELSE region[h]]
        /\ buffer' = buffer \/ buffer' = buffer \cup {copy.unit}
        /\ UNCHANGED <<loader, kernels, events>>
    BY <1>12 DEF Copy
  <2>2. copies' \in Seq(Copies) /\ copy \in Copies
    BY <1>0, <2>1, Tails
  <2>3. copy.unit \in UnitSet
    BY <2>2 DEF Copies
  <2>4. region' \in [Halves -> Int]
    BY <1>0, <2>1
  <2> QED  BY <1>0, <2>1, <2>2, <2>3, <2>4 DEF loader, events, CardTypes
<1> QED  BY <1>1, <1>2, <1>3, <1>4, <1>5, <1>6, <1>7, <1>8, <1>9, <1>10, <1>11, <1>12
         DEF Next, Host, Loader

-------------------------------------------------------------------------------
(* The streams.                                                              *)

LEMMA StreamsStay ==
    ASSUME IInv, [Next]_vars
    PROVE  Streams'
<1>0. /\ CardTypes /\ Streams /\ Channel
      /\ kernels \in Seq(Kernels) /\ copies \in Seq(Copies)
      /\ launched \in Nat /\ issued \in Nat
      /\ done \in [Halves -> Nat] /\ loaded \in [Halves -> Nat] /\ pinned \in [Halves -> Int]
      /\ Len(copies) \in Nat /\ Len(kernels) \in Nat
  <2>1. kernels \in Seq(Kernels) /\ copies \in Seq(Copies)  BY DEF IInv, CardTypes
  <2> QED  BY <2>1 DEF IInv, CardTypes
<1>1. CASE UNCHANGED <<kernels, copies, launched, issued, done, loaded, pinned>>
  BY <1>0, <1>1 DEF Streams, Copied
<1>2. CASE Launch
  <2>1. PICK k : kernels' = Append(kernels, k)
    BY <1>2 DEF Launch
  <2>2. Len(kernels') = Len(kernels) + 1
    BY <1>0, <2>1
  <2>3. launched' = launched + 1 /\ UNCHANGED <<copies, issued, done, loaded, pinned>>
    BY <1>2 DEF Launch, loader
  <2> QED  BY <1>0, <2>2, <2>3 DEF Streams, Copied
<1>3. CASE Leave
  <2>1. /\ UNCHANGED <<kernels, copies, pinned, launched, issued, loaded>>
        /\ \/ done' = done
           \/ done' = [h \in Halves |-> IF h \in RegionOf(Head(run)) THEN launched ELSE done[h]]
    BY <1>3 DEF Leave, DoneNow, device, loader
  <2>2. \A h \in Halves : done'[h] <= launched
    BY <1>0, <2>1 DEF Streams
  <2> QED  BY <1>0, <2>1, <2>2 DEF Streams, Copied
<1>4. CASE Load
  <2> DEFINE request == Head(reading)
             copy == [unit |-> request.unit, through |-> request.halves,
                      into |-> IF request.gated THEN request.halves ELSE {},
                      after |-> DoneAt(request)]
             n == Len(copies) + 1
  <2>1. /\ reading # <<>> /\ \A h \in request.halves : loaded[h] <= Copied
        /\ pinned' = [h \in Halves |-> IF h \in request.halves THEN request.unit ELSE pinned[h]]
        /\ copies' = Append(copies, copy) /\ issued' = issued + 1
        /\ loaded' = [h \in Halves |-> IF h \in request.halves THEN issued' ELSE loaded[h]]
        /\ UNCHANGED <<kernels, launched, done>>
    BY <1>4 DEF Load, PinnedIsFree
  <2>2. request \in Requests /\ request.halves \subseteq Halves
    BY <1>0, <2>1, ReadingIs
  <2> HIDE DEF request
  <2>3. copy.unit = request.unit /\ copy.through = request.halves
        /\ copy.into \in {copy.through, {}}
    OBVIOUS
  <2> HIDE DEF copy
  <2>4. /\ Len(copies') = n /\ copies'[n] = copy
        /\ \A i \in 1 .. Len(copies) : copies'[i] = copies[i]
        /\ \A i \in 1 .. n : i \in 1 .. Len(copies) \/ i = n
    BY <1>0, <2>1
  <2>5. Copied' = Copied /\ Copied \in Int /\ issued = Copied + Len(copies)
    BY <1>0, <2>1, <2>4 DEF Copied
  <2>6. \A i \in 1 .. Len(copies) : \A h \in copies[i].through :
            h \notin request.halves /\ loaded[h] = Copied + i /\ pinned[h] = copies[i].unit
    BY <1>0, <2>1, <2>5 DEF Streams
  <2>7. \A i \in 1 .. Len(copies) : copies[i].through \subseteq Halves
    BY <1>0, CopiesAre
  <2>8. \A h \in Halves : loaded'[h] <= issued'
    BY <1>0, <2>1 DEF Streams
  <2>9. ASSUME NEW h \in Halves, Copied < loaded'[h]
        PROVE  h \in copies'[loaded'[h] - Copied].through
    <3>1. CASE h \in request.halves
      <4>1. loaded'[h] - Copied = n
        BY <1>0, <2>1, <2>5, <3>1
      <4> QED  BY <2>3, <2>4, <3>1, <4>1
    <3>2. CASE h \notin request.halves
      <4>1. loaded'[h] = loaded[h]  BY <2>1, <3>2
      <4>2. loaded[h] - Copied \in 1 .. Len(copies)
        BY <1>0, <2>5, <2>9, <4>1 DEF Streams
      <4>3. h \in copies[loaded[h] - Copied].through
        BY <1>0, <2>9, <4>1 DEF Streams
      <4>4. copies'[loaded[h] - Copied] = copies[loaded[h] - Copied]
        BY <2>4, <4>2
      <4> QED  BY <4>1, <4>3, <4>4
    <3> QED  BY <3>1, <3>2
  <2>10. ASSUME NEW i \in 1 .. n
         PROVE  /\ copies'[i].into \in {copies'[i].through, {}}
                /\ \A h \in copies'[i].through :
                     loaded'[h] = Copied + i /\ pinned'[h] = copies'[i].unit
    <3>1. CASE i \in 1 .. Len(copies)
      <4>1. copies'[i] = copies[i]
        BY <2>4, <3>1
      <4>2. copies[i].into \in {copies[i].through, {}}
        BY <1>0, <3>1 DEF Streams
      <4>3. \A h \in copies[i].through :
               loaded'[h] = Copied + i /\ pinned'[h] = copies[i].unit
        BY <2>1, <2>6, <2>7, <3>1
      <4> QED  BY <4>1, <4>2, <4>3
    <3>2. CASE i = n
      <4>1. issued' = Copied + n  BY <1>0, <2>1, <2>5
      <4> HIDE DEF n
      <4> QED  BY <2>1, <2>2, <2>3, <2>4, <3>2, <4>1
    <3> QED  BY <2>4, <3>1, <3>2
  <2>11. Len(kernels') <= launched' /\ Len(copies') <= issued'
         /\ \A h \in Halves : done'[h] <= launched'
    BY <1>0, <2>1, <2>4 DEF Streams
  <2> QED  BY <2>4, <2>5, <2>8, <2>9, <2>10, <2>11 DEF Streams
<1>5. CASE LoadFails
  <2>1. /\ reading # <<>> /\ \A h \in Head(reading).halves : loaded[h] <= Copied
        /\ pinned' = [h \in Halves |-> IF h \in Head(reading).halves THEN None ELSE pinned[h]]
        /\ UNCHANGED <<kernels, copies, launched, issued, done, loaded>>
    BY <1>5 DEF LoadFails, PinnedIsFree, device, events
  <2>2. Copied' = Copied /\ Copied \in Int
    BY <1>0, <2>1 DEF Copied
  <2>3. \A i \in 1 .. Len(copies) : \A h \in copies[i].through :
            h \notin Head(reading).halves /\ h \in Halves /\ pinned[h] = copies[i].unit
    <3>1. \A i \in 1 .. Len(copies) : copies[i].through \subseteq Halves
      BY <1>0, CopiesAre
    <3>2. \A i \in 1 .. Len(copies) : \A h \in copies[i].through :
             loaded[h] = Copied + i /\ pinned[h] = copies[i].unit
      BY <1>0 DEF Streams
    <3>3. \A i \in 1 .. Len(copies) : ~(Copied + i <= Copied)
      BY <2>2
    <3> QED  BY <2>1, <3>1, <3>2, <3>3
  <2>4. \A i \in 1 .. Len(copies) : \A h \in copies[i].through : pinned'[h] = copies[i].unit
    BY <2>1, <2>3
  <2> QED  BY <1>0, <2>1, <2>2, <2>4 DEF Streams
<1>6. CASE Kernel
  <2>1. kernels # <<>> /\ kernels' = Tail(kernels)
        /\ UNCHANGED <<copies, launched, issued, done, loaded, pinned>>
    BY <1>6 DEF Kernel, events, loader
  <2>2. Len(kernels') <= Len(kernels) /\ Len(kernels') \in Nat
    BY <1>0, <2>1
  <2> QED  BY <1>0, <2>1, <2>2, SMTT(60) DEF Streams, Copied
<1>7. CASE Copy
  <2>1. copies # <<>> /\ copies' = Tail(copies)
        /\ UNCHANGED <<kernels, launched, issued, done, loaded, pinned>>
    BY <1>7 DEF Copy, events, loader
  <2>2. /\ Len(copies') = Len(copies) - 1 /\ Len(copies') \in Nat
        /\ \A i \in 1 .. Len(copies') : copies'[i] = copies[i + 1] /\ i + 1 \in 1 .. Len(copies)
    BY <1>0, <2>1, Tails
  <2>3. Copied' = Copied + 1 /\ Copied \in Int
    BY <1>0, <2>1, <2>2 DEF Copied
  <2>4. ASSUME NEW h \in Halves, Copied' < loaded[h]
        PROVE  h \in copies'[loaded[h] - Copied'].through
    <3>1. loaded[h] \in Nat /\ Copied < loaded[h]  BY <1>0, <2>3, <2>4
    <3>2. h \in copies[loaded[h] - Copied].through  BY <1>0, <3>1 DEF Streams
    <3>3. loaded[h] <= issued /\ issued = Copied + Len(copies)
      BY <1>0 DEF Streams, Copied
    <3>4. /\ loaded[h] - Copied' \in 1 .. Len(copies')
          /\ loaded[h] - Copied = (loaded[h] - Copied') + 1
      BY <1>0, <2>2, <2>3, <2>4, <3>1, <3>3
    <3> QED  BY <2>2, <3>2, <3>4
  <2>5. ASSUME NEW i \in 1 .. Len(copies')
        PROVE  /\ copies'[i].into \in {copies'[i].through, {}}
               /\ \A h \in copies'[i].through :
                     loaded[h] = Copied' + i /\ pinned[h] = copies'[i].unit
    <3>1. Copied + (i + 1) = Copied' + i  BY <2>3
    <3>2. copies'[i] = copies[i + 1] /\ i + 1 \in 1 .. Len(copies)  BY <2>2
    <3> DEFINE j == i + 1
    <3>3. /\ copies[j].into \in {copies[j].through, {}}
          /\ \A h \in copies[j].through : loaded[h] = Copied + j /\ pinned[h] = copies[j].unit
      <4>1. j \in 1 .. Len(copies)  BY <3>2
      <4> HIDE DEF j
      <4> QED  BY <1>0, <4>1 DEF Streams
    <3> QED  BY <3>1, <3>2, <3>3
  <2>6. Len(copies') <= issued
    BY <1>0, <2>2 DEF Streams
  <2> QED  BY <1>0, <2>1, <2>4, <2>5, <2>6 DEF Streams
<1>8. CASE ~(Launch \/ Leave \/ Load \/ LoadFails \/ Kernel \/ Copy)
  <2>1. UNCHANGED <<kernels, copies, launched, issued, done, loaded, pinned>>
    BY <1>8 DEF Next, Host, Loader, Take, LetGo, ReadOneMore, Settle, SettleAnswer, Settled, Begin,
                Ask, EnterAnswer, End, Drop, Return, vars, loader, device, events
  <2> QED  BY <1>1, <2>1
<1> QED  BY <1>2, <1>3, <1>4, <1>5, <1>6, <1>7, <1>8

-------------------------------------------------------------------------------
(* What was asked for and not answered.                                      *)

LEMMA SameAsks ==
    ASSUME kept' = kept, pc' = "settling" <=> pc = "settling"
    PROVE  \A r, u : Asks(r, u)' <=> Asks(r, u)
<1>1. \A u : RegionOf(u)' = RegionOf(u)
  BY SameRegions
<1> QED  BY <1>1 DEF Asks

LEMMA ChannelIs ==
    ASSUME IInv
    PROVE  /\ loading \in Seq(UnitSet) /\ answers \in Seq(BOOLEAN) /\ reading \in Seq(Requests)
           /\ requests \in Seq(Requests) /\ CallTypes /\ CardTypes /\ Channel
           /\ Len(loading) \in Nat /\ Len(answers) \in Nat /\ Len(reading) \in {0, 1}
           /\ Len(requests) \in Nat
           /\ Len(loading) = Len(answers) + Len(reading) + Len(requests)
           /\ loading = <<>> =>
                /\ answers = <<>> /\ reading = <<>> /\ requests = <<>>
                /\ Len(answers) = 0 /\ Len(reading) = 0 /\ Len(requests) = 0
           /\ answers # <<>> => loading # <<>>
<1>1. /\ loading \in Seq(UnitSet) /\ answers \in Seq(BOOLEAN) /\ reading \in Seq(Requests)
      /\ requests \in Seq(Requests) /\ CallTypes /\ CardTypes /\ Channel
  BY DEF IInv, CallTypes, CardTypes
<1>2. /\ Len(loading) \in Nat /\ Len(answers) \in Nat /\ Len(reading) \in Nat
      /\ Len(requests) \in Nat
  BY <1>1
<1>3. /\ Len(loading) = Len(answers) + Len(reading) + Len(requests) /\ Len(reading) <= 1
  BY <1>1 DEF Channel
<1>4. Len(reading) \in {0, 1}
  <2> DEFINE n == Len(reading)
  <2>1. n \in Nat /\ n <= 1
    BY <1>2, <1>3
  <2> HIDE DEF n
  <2>2. n \in {0, 1}
    BY <2>1
  <2> QED  BY <2>2 DEF n
<1>5. \A S : \A s \in Seq(S) : s = <<>> <=> Len(s) = 0
  OBVIOUS
<1>6. /\ loading = <<>> <=> Len(loading) = 0
      /\ answers = <<>> <=> Len(answers) = 0
      /\ reading = <<>> <=> Len(reading) = 0
      /\ requests = <<>> <=> Len(requests) = 0
  BY <1>1, <1>5, Zenon
<1>7. /\ Len(loading) = 0 => Len(answers) = 0 /\ Len(reading) = 0 /\ Len(requests) = 0
      /\ Len(answers) # 0 => Len(loading) # 0
  BY <1>2, <1>3
<1> QED  BY <1>1, <1>2, <1>3, <1>4, <1>6, <1>7

(* The first answer is taken. *)
LEMMA AnswerTaken ==
    ASSUME IInv, answers # <<>>, answers' = Tail(answers), loading' = Tail(loading),
           UNCHANGED <<reading, requests, kept>>, pc' = "settling" <=> pc = "settling",
           pc' # "idle"
    PROVE  /\ Channel' /\ loading # <<>> /\ Len(answers') = Len(answers) - 1
           /\ 1 \in 1 .. Len(answers) /\ Head(answers) = answers[1] /\ Head(loading) = loading[1]
           /\ Len(loading') = Len(loading) - 1 /\ 1 \in 1 .. Len(loading)
           /\ \A i \in 1 .. Len(loading') :
                loading'[i] = loading[i + 1] /\ i + 1 \in 1 .. Len(loading)
           /\ \A i \in 1 .. Len(answers') : /\ answers'[i] = answers[i + 1]
                                            /\ i + 1 \in 1 .. Len(answers)
                                            /\ i \in 1 .. Len(loading')
<1> DEFINE A == Len(answers)
           R == Len(reading)
           Q == Len(requests)
<1>1. loading # <<>> /\ A \in Nat /\ R \in {0, 1} /\ Q \in Nat /\ Len(loading) = A + R + Q
  BY ChannelIs
<1>2. /\ Len(answers') = A - 1 /\ 1 \in 1 .. A /\ Head(answers) = answers[1] /\ A \in Nat \ {0}
      /\ \A i \in 1 .. A - 1 : answers'[i] = answers[i + 1] /\ i + 1 \in 1 .. A
  BY ChannelIs, Tails
<1>3. /\ Len(loading') = Len(loading) - 1 /\ Head(loading) = loading[1]
      /\ 1 \in 1 .. Len(loading)
      /\ \A i \in 1 .. Len(loading) - 1 :
            loading'[i] = loading[i + 1] /\ i + 1 \in 1 .. Len(loading)
  BY <1>1, ChannelIs, Tails
<1> HIDE DEF A, R, Q
<1>4. \A i \in 1 .. A - 1 : i \in 1 .. (A + R + Q) - 1
  BY <1>1
<1>5. \A r, u : Asks(r, u)' <=> Asks(r, u)
  BY SameAsks
<1>6. ASSUME NEW i \in 1 .. R PROVE Asks(reading[i], loading[Len(answers) + i])'
  <2>1. Asks(reading[i], loading[A + i])
    BY ChannelIs DEF Channel, A, R
  <2>2. /\ A - 1 + i \in 1 .. (A + R + Q) - 1 /\ (A - 1 + i) + 1 = A + i
    BY <1>1, <1>2
  <2>3. loading'[A - 1 + i] = loading[A + i]
    BY <1>1, <1>3, <2>2
  <2> QED  BY <1>2, <1>5, <2>1, <2>3
<1>7. ASSUME NEW i \in 1 .. Q PROVE Asks(requests[i], loading[Len(answers) + Len(reading) + i])'
  <2>1. Asks(requests[i], loading[A + R + i])
    BY ChannelIs DEF Channel, A, R, Q
  <2>2. /\ A - 1 + R + i \in 1 .. (A + R + Q) - 1 /\ (A - 1 + R + i) + 1 = A + R + i
    BY <1>1, <1>2
  <2>3. loading'[A - 1 + R + i] = loading[A + R + i]
    BY <1>1, <1>3, <2>2
  <2>4. Len(reading') = R  BY DEF R
  <2> QED  BY <1>2, <1>5, <2>1, <2>3, <2>4
<1>8. pc' = "settling" => \A i \in 1 .. Len(answers') : answers'[i]
  BY <1>2, ChannelIs DEF Channel, A
<1>9. Channel'
  <2>1. Len(loading') = Len(answers') + Len(reading') + Len(requests') /\ Len(reading') <= 1
    <3>1. Len(reading') = R /\ Len(requests') = Q /\ Len(loading') = (A + R + Q) - 1
      BY <1>1, <1>3 DEF R, Q
    <3>2. R <= 1 /\ (A + R + Q) - 1 = (A - 1) + R + Q
      BY <1>1
    <3> QED  BY <1>2, <3>1, <3>2
  <2> QED  BY <1>6, <1>7, <1>8, <2>1 DEF Channel, R, Q
<1> QED  BY <1>1, <1>2, <1>3, <1>4, <1>9 DEF A

(* The loader is through with what it reads. *)
LEMMA AnswerGiven ==
    ASSUME IInv, reading # <<>>, reading' = <<>>, NEW well \in BOOLEAN,
           answers' = Append(answers, well), UNCHANGED <<loading, requests, kept, pc>>,
           pc = "settling" => well
    PROVE  /\ Channel' /\ Len(answers') = Len(answers) + 1
           /\ Head(reading) = reading[1] /\ Len(reading) = 1
           /\ Len(answers) + 1 \in 1 .. Len(loading)
           /\ Asks(Head(reading), loading[Len(answers) + 1])
           /\ answers'[Len(answers) + 1] = well
           /\ \A i \in 1 .. Len(answers) : answers'[i] = answers[i] /\ i \in 1 .. Len(loading)
           /\ \A i \in 1 .. Len(answers') : i \in 1 .. Len(answers) \/ i = Len(answers) + 1
<1> DEFINE A == Len(answers)
           R == Len(reading)
           Q == Len(requests)
<1>1. A \in Nat /\ R \in {0, 1} /\ Q \in Nat /\ Len(loading) = A + R + Q
  BY ChannelIs
<1>2. R = 1 /\ Head(reading) = reading[1] /\ Asks(Head(reading), loading[A + 1])
  BY ChannelIs, ReadingIs
<1>3. /\ Len(answers') = A + 1 /\ answers'[A + 1] = well
      /\ \A i \in 1 .. A : answers'[i] = answers[i]
      /\ \A i \in 1 .. A + 1 : i \in 1 .. A \/ i = A + 1
  BY ChannelIs, Appends
<1>4. Len(reading') = 0
  BY Empty
<1> HIDE DEF A, R, Q
<1>5. \A r, u : Asks(r, u)' <=> Asks(r, u)
  BY SameAsks
<1>6. ASSUME NEW i \in 1 .. Q PROVE Asks(requests[i], loading[Len(answers) + Len(reading) + i])'
  <2>1. Asks(requests[i], loading[A + R + i])
    BY ChannelIs DEF Channel, A, R, Q
  <2>2. A + 1 + 0 + i = A + R + i
    BY <1>1, <1>2
  <2> QED  BY <1>3, <1>4, <1>5, <2>1, <2>2
<1>7. pc' = "settling" => \A i \in 1 .. Len(answers') : answers'[i]
  BY <1>3, ChannelIs DEF Channel, A
<1>8. Channel'
  <2>1. Len(loading') = Len(answers') + Len(reading') + Len(requests') /\ Len(reading') <= 1
    BY <1>1, <1>2, <1>3, <1>4 DEF Q
  <2>2. pc' = "idle" => loading' = <<>>
    BY ChannelIs DEF Channel
  <2>3. 1 .. Len(reading') = {}
    BY <1>4
  <2> QED  BY <1>6, <1>7, <2>1, <2>2, <2>3 DEF Channel, Q
<1>9. A + 1 \in 1 .. A + R + Q /\ \A i \in 1 .. A : i \in 1 .. A + R + Q
  BY <1>1, <1>2
<1> QED  BY <1>1, <1>2, <1>3, <1>8, <1>9 DEF A, R

(* Nothing is left over when a call begins to settle, so its requests are all there are. *)
LEMMA SettleAsks ==
    ASSUME IInv, Settle
    PROVE  \E n \in 0 .. Len(Candidates) :
             /\ loading' = SubSeq(Candidates, 1, n)
             /\ requests' = [i \in 1 .. n |->
                 Request(Candidates[i],
                         IF Candidates[i] \in Large THEN Halves ELSE {(i - 1) % 2}, FALSE)]
<1>1. PICK n \in 0 .. Len(Candidates) :
        /\ loading' = SubSeq(Candidates, 1, n)
        /\ requests' = requests \o [i \in 1 .. n |->
              Request(Candidates[i],
                      IF Candidates[i] \in Large THEN Halves ELSE {(i - 1) % 2}, FALSE)]
  BY DEF Settle
<1>2. requests \in Seq(Requests) /\ Len(requests) = 0
  <2>1. loading = <<>>
    BY DEF IInv, Channel, Settle
  <2> QED  BY <2>1, ChannelIs, Empty DEF IInv, CardTypes
<1> DEFINE r(i) == Request(Candidates[i], IF Candidates[i] \in Large THEN Halves
                                           ELSE {(i - 1) % 2}, FALSE)
           asked == [i \in 1 .. n |-> r(i)]
<1>3. asked \in Seq({r(i) : i \in 1 .. n})
  <2>1. n \in Nat  BY GivenAre
  <2> HIDE DEF r
  <2> QED  BY <2>1
<1> HIDE DEF r
<1>4. requests = <<>>
  BY <1>2
<1>5. requests' = asked
  <2>1. requests' = requests \o asked  BY <1>1 DEF r
  <2> HIDE DEF asked
  <2> QED  BY <1>3, <1>4, <2>1
<1> QED  BY <1>1, <1>5 DEF r

LEMMA ChannelStays ==
    ASSUME IInv, [Next]_vars, "settle" \notin MayFail
    PROVE  Channel'
<1>0. Channel /\ CallTypes /\ CardTypes
  BY DEF IInv
<1>1. ASSUME UNCHANGED <<loading, answers, reading, requests, kept>>,
             pc' = "settling" <=> pc = "settling", pc' = "idle" => loading = <<>>
      PROVE  Channel'
  BY <1>0, <1>1, SameAsks DEF Channel
<1>2. ASSUME loading = <<>>, UNCHANGED <<loading, answers, reading, requests>>
      PROVE  Channel'
  <2>1. /\ Len(loading) = 0 /\ Len(answers) = 0 /\ Len(reading) = 0 /\ Len(requests) = 0
    BY <1>2, ChannelIs, Empty
  <2>2. 1 .. Len(answers) = {} /\ 1 .. Len(reading) = {} /\ 1 .. Len(requests) = {}
    BY <2>1
  <2> QED  BY <1>2, <2>1, <2>2 DEF Channel
<1>3. CASE LetGo \/ ReadOneMore \/ Settled \/ Return
  <2>1. loading = <<>> /\ UNCHANGED <<loading, answers, reading, requests>>
    BY <1>0, <1>3 DEF LetGo, ReadOneMore, Settled, Return, Channel, MayChange, call, loader
  <2> QED  BY <1>2, <2>1
<1>4. CASE Settle
  <2>1. PICK n \in 0 .. Len(Candidates) :
          /\ loading' = SubSeq(Candidates, 1, n)
          /\ requests' = [i \in 1 .. n |->
              Request(Candidates[i],
                      IF Candidates[i] \in Large THEN Halves ELSE {(i - 1) % 2}, FALSE)]
    BY <1>4, SettleAsks
  <2>2. pc = "idle" /\ pc' = "settling" /\ answers' = answers /\ reading' = reading
    BY <1>4 DEF Settle
  <2>3. loading = <<>> /\ answers = <<>> /\ reading = <<>> /\ Len(answers) = 0 /\ Len(reading) = 0
    BY <1>0, <2>2, ChannelIs DEF Channel
  <2>4. Candidates \in Seq(UnitSet) /\ n \in Nat /\ n <= Len(Candidates)
    BY <2>1, GivenAre
  <2>5. loading' = [i \in 1 .. n |-> Candidates[i]] /\ Len(loading') = n
    <3> HIDE DEF Candidates
    <3> QED  BY <2>1, <2>4
  <2>6. Len(requests') = n
    BY <2>1, <2>4
  <2>7. \A i \in 1 .. n : Asks(requests[i], loading[i])'
    <3> TAKE i \in 1 .. n
    <3>1. requests'[i].unit = Candidates[i] /\ requests'[i].gated = FALSE
      BY <2>1 DEF Request
    <3> QED  BY <2>2, <2>5, <3>1 DEF Asks
  <2>8. \A i \in 1 .. n : 0 + 0 + i = i
    BY <2>4
  <2>9. 1 .. Len(answers') = {} /\ 1 .. Len(reading') = {}
    BY <2>2, <2>3
  <2>10. Len(loading') = Len(answers') + Len(reading') + Len(requests') /\ Len(reading') <= 1
    BY <2>2, <2>3, <2>4, <2>5, <2>6
  <2>11. \A i \in 1 .. n : Asks(requests[i], loading[Len(answers) + Len(reading) + i])'
    BY <2>2, <2>3, <2>7, <2>8
  <2> QED  BY <2>2, <2>6, <2>9, <2>10, <2>11 DEF Channel
<1>5. CASE SettleAnswer
  <2>1. pc = "settling" /\ answers # <<>> /\ answers' = Tail(answers)
        /\ UNCHANGED <<reading, requests, kept>>
    BY <1>5 DEF SettleAnswer, model
  <2>2. Head(answers)
    <3>1. answers \in Seq(BOOLEAN)  BY <1>0 DEF CardTypes
    <3>2. Head(answers) = answers[1] /\ 1 \in 1 .. Len(answers)  BY <2>1, <3>1, Tails
    <3> QED  BY <1>0, <2>1, <3>2 DEF Channel
  <2>3. loading' = Tail(loading) /\ pc' = pc
    BY <1>5, <2>2 DEF SettleAnswer
  <2> QED  BY <2>1, <2>3, AnswerTaken
<1>6. CASE EnterAnswer \/ Drop
  <2>1. /\ answers # <<>> /\ answers' = Tail(answers) /\ loading' = Tail(loading)
        /\ UNCHANGED <<reading, requests, kept>> /\ pc \notin {"settling", "idle"}
        /\ pc' = pc \/ pc' = "failed"
    BY <1>6 DEF EnterAnswer, Drop
  <2> QED  BY <2>1, AnswerTaken
<1>7. CASE Begin
  <2>1. loading = <<>> /\ UNCHANGED <<loading, answers, reading, requests>>
    BY <1>0, <1>7 DEF Begin, Channel, loader
  <2> QED  BY <1>2, <2>1
<1>8. CASE Ask
  <2>1. pc = "asking" /\ pc' \in {"asking", "entering"} /\ UNCHANGED <<kept, answers, reading>>
    BY <1>8 DEF Ask
  <2>2. CASE UNCHANGED <<requests, loading>>
    BY <1>1, <2>1, <2>2
  <2>3. CASE ~UNCHANGED <<requests, loading>>
    <3> DEFINE u == Head(queue)
               m == Request(u, RegionOf(u), TRUE)
               A == Len(answers)
               R == Len(reading)
               Q == Len(requests)
    <3>1. queue # <<>> /\ requests' = Append(requests, m) /\ loading' = Append(loading, u)
      BY <1>8, <2>3 DEF Ask, AskFor
    <3>2. u \in UnitSet
      BY <1>0, <3>1, Tails DEF CallTypes
    <3> HIDE DEF u
    <3>3. m.unit = u /\ m.halves = RegionOf(u) /\ m.gated = TRUE
      BY DEF Request
    <3> HIDE DEF m
    <3>4. A \in Nat /\ R \in {0, 1} /\ Q \in Nat /\ Len(loading) = A + R + Q
      BY ChannelIs
    <3>5. /\ Len(requests') = Q + 1 /\ requests'[Q + 1] = m
          /\ \A i \in 1 .. Q : requests'[i] = requests[i]
      BY <3>1, ChannelIs
    <3>6. /\ Len(loading') = Len(loading) + 1 /\ loading'[Len(loading) + 1] = u
          /\ \A i \in 1 .. Len(loading) : loading'[i] = loading[i]
      BY <3>1, <3>2, ChannelIs
    <3> HIDE DEF A, R, Q
    <3>7. \A r, v : Asks(r, v)' <=> Asks(r, v)
      BY <2>1, SameAsks
    <3>8. ASSUME NEW i \in 1 .. R PROVE Asks(reading[i], loading[Len(answers) + i])'
      <4>1. Asks(reading[i], loading[A + i])  BY <1>0 DEF Channel, A, R
      <4>2. A + i \in 1 .. A + R + Q  BY <3>4
      <4> QED  BY <2>1, <3>4, <3>6, <3>7, <4>1, <4>2 DEF A
    <3>9. ASSUME NEW i \in 1 .. Q + 1
          PROVE  Asks(requests[i], loading[Len(answers) + Len(reading) + i])'
      <4>1. CASE i \in 1 .. Q
        <5>1. Asks(requests[i], loading[A + R + i])  BY <1>0, <4>1 DEF Channel, A, R, Q
        <5>2. A + R + i \in 1 .. A + R + Q  BY <3>4, <4>1
        <5> QED  BY <2>1, <3>4, <3>5, <3>6, <3>7, <4>1, <5>1, <5>2 DEF A, R
      <4>2. CASE i = Q + 1
        <5>1. Asks(m, u)  BY <2>1, <3>3 DEF Asks
        <5>2. A + R + i = Len(loading) + 1  BY <3>4, <4>2
        <5> QED  BY <2>1, <3>5, <3>6, <3>7, <4>2, <5>1, <5>2 DEF A, R
      <4> QED  BY <3>4, <4>1, <4>2
    <3>10. Len(loading') = Len(answers') + Len(reading') + Len(requests') /\ Len(reading') <= 1
      <4>1. Len(answers') = A /\ Len(reading') = R  BY <2>1 DEF A, R
      <4>2. R <= 1 /\ (A + R + Q) + 1 = A + R + (Q + 1)  BY <3>4
      <4> QED  BY <3>4, <3>5, <3>6, <4>1, <4>2
    <3> QED  BY <2>1, <3>5, <3>8, <3>9, <3>10 DEF Channel, R
  <2> QED  BY <2>2, <2>3
<1>9. CASE Launch \/ Leave \/ End \/ Kernel \/ Copy \/ UNCHANGED vars
  <2>1. /\ UNCHANGED <<loading, answers, reading, requests, kept>>
        /\ pc' = pc \/ (pc \in {"entering", "leaving"}
                        /\ pc' \in {"leaving", "failed", "asking", "entering", "ending"})
    BY <1>9 DEF Launch, Leave, End, Kernel, Copy, vars, model, call, loader
  <2>2. pc' = "idle" => loading = <<>>
    BY <1>0, <2>1 DEF Channel
  <2> QED  BY <1>1, <2>1, <2>2
<1>10. CASE Take
  <2> DEFINE A == Len(answers)
             Q == Len(requests)
  <2>1. /\ reading = <<>> /\ requests # <<>> /\ reading' = <<Head(requests)>>
        /\ requests' = Tail(requests) /\ UNCHANGED <<loading, answers, kept, pc>>
    BY <1>10 DEF Take, model, call
  <2>2. /\ Len(reading) = 0 /\ A \in Nat /\ Q \in Nat \ {0} /\ Len(loading) = A + Q
        /\ Head(requests) = requests[1] /\ 1 \in 1 .. Q
        /\ Len(requests') = Q - 1
        /\ \A i \in 1 .. Q - 1 : requests'[i] = requests[i + 1] /\ i + 1 \in 1 .. Q
    <3>1. Len(reading) = 0  BY <2>1, Empty
    <3>2. /\ Q \in Nat \ {0} /\ Head(requests) = requests[1] /\ 1 \in 1 .. Q
          /\ Len(requests') = Q - 1
          /\ \A i \in 1 .. Q - 1 : requests'[i] = requests[i + 1] /\ i + 1 \in 1 .. Q
      BY <2>1, ChannelIs, Tails
    <3>3. A \in Nat /\ Len(loading) = A + Len(reading) + Q /\ Q \in Nat
      BY ChannelIs
    <3> QED  BY <3>1, <3>2, <3>3
  <2>3. Len(reading') = 1 /\ reading'[1] = Head(requests)
    BY <2>1
  <2>4. \A r, v : Asks(r, v)' <=> Asks(r, v)
    BY <2>1, SameAsks
  <2>5. \A i \in 1 .. Q : Asks(requests[i], loading[A + i])
    <3>1. \A i \in 1 .. Q : A + 0 + i = A + i  BY <2>2
    <3> QED  BY <1>0, <2>2, <3>1 DEF Channel
  <2> HIDE DEF A, Q
  <2>6. Asks(reading[1], loading[A + 1])'
    BY <2>1, <2>2, <2>3, <2>4, <2>5 DEF A
  <2>7. ASSUME NEW i \in 1 .. Q - 1 PROVE Asks(requests[i], loading[A + 1 + i])'
    <3>1. A + 1 + i = A + (i + 1)  BY <2>2
    <3> QED  BY <2>1, <2>2, <2>4, <2>5, <3>1 DEF A
  <2>8. Len(loading') = Len(answers') + Len(reading') + Len(requests') /\ Len(reading') <= 1
    BY <2>1, <2>2, <2>3 DEF A
  <2>9. \A i \in 1 .. 1 : i = 1
    OBVIOUS
  <2>10. \A i \in 1 .. Len(reading') : Asks(reading[i], loading[Len(answers) + i])'
    BY <2>1, <2>3, <2>6, <2>9 DEF A
  <2>11. \A i \in 1 .. Len(requests') :
            Asks(requests[i], loading[Len(answers) + Len(reading) + i])'
    BY <2>1, <2>2, <2>3, <2>7 DEF A
  <2>12. (pc' = "idle" => loading' = <<>>)
         /\ (pc' = "settling" => \A i \in 1 .. Len(answers') : answers'[i])
    BY <1>0, <2>1 DEF Channel
  <2> QED  BY <2>8, <2>10, <2>11, <2>12 DEF Channel
<1>11. CASE Load
  <2>1. /\ reading # <<>> /\ reading' = <<>> /\ answers' = Append(answers, TRUE)
        /\ UNCHANGED <<loading, requests, kept, pc>>
    BY <1>11 DEF Load, model, call
  <2>2. TRUE \in BOOLEAN /\ (pc = "settling" => TRUE)
    OBVIOUS
  <2> QED  BY <2>1, <2>2, AnswerGiven
<1>12. CASE LoadFails
  <2>1. /\ reading # <<>> /\ reading' = <<>> /\ answers' = Append(answers, FALSE)
        /\ UNCHANGED <<loading, requests, kept, pc>> /\ Head(reading).gated
    BY <1>12 DEF LoadFails, model, call
  <2>2. pc # "settling"
    BY <1>0, <2>1, ReadingIs DEF Asks
  <2>3. FALSE \in BOOLEAN /\ (pc = "settling" => FALSE)
    BY <2>2
  <2> QED  BY <2>1, <2>3, AnswerGiven
<1> QED  BY <1>3, <1>4, <1>5, <1>6, <1>7, <1>8, <1>9, <1>10, <1>11, <1>12 DEF Next, Host, Loader

-------------------------------------------------------------------------------
(* The regions are taken in turns.                                           *)

LEMMA Among ==
    ASSUME NEW S, NEW s \in Seq(S), NEW u
    PROVE  u \in ToSet(s) <=> \E j \in 1 .. Len(s) : s[j] = u
<1>1. DOMAIN s = 1 .. Len(s)
  OBVIOUS
<1> QED  BY <1>1 DEF ToSet

(* What Turns says of the asked for units, of the regions taken, and of the unit that is run. *)
Apart ==
    \A j \in 1 .. Len(loading) : \A h \in RegionOf(loading[j]) :
        /\ busy[h] = loading[j] /\ holds[h] = None
        /\ \A k \in 1 .. Len(loading) : h \in RegionOf(loading[k]) => k = j

Taking ==
    \A h \in Halves : busy[h] # None =>
        /\ h \in RegionOf(busy[h])
        /\ \A g \in RegionOf(busy[h]) :
             busy[g] = busy[h] /\ (Loading(busy[h]) \/ holds[g] = busy[h])

Running ==
    /\ run # <<>>
    /\ kept[Head(run)] = "read" =>
         ~Loading(Head(run)) /\ \A h \in RegionOf(Head(run)) : busy[h] = Head(run)

LEMMA TurnsAre ==
    ASSUME pc' \in {"idle", "settling"} => busy' = Nobody,
           pc' # "settling" => Apart',
           pc' \in {"asking", "entering", "leaving"} => Taking',
           pc' = "leaving" => Running'
    PROVE  Turns'
<1>1. Nobody' = Nobody
  BY DEF Nobody
<1> QED  BY <1>1 DEF Turns, Apart, Taking, Running

LEMMA NoneApart ==
    ASSUME loading' = <<>>
    PROVE  Apart'
<1>1. 1 .. Len(loading') = {}
  BY Empty
<1> QED  BY <1>1 DEF Apart

(* The first answer is taken, and its unit holds its regions or not. *)
LEMMA ApartTaken ==
    ASSUME IInv, pc # "settling", answers # <<>>, answers' = Tail(answers),
           loading' = Tail(loading), UNCHANGED <<kept, busy>>,
           \A h \in Halves : h \notin RegionOf(Head(loading)) => holds'[h] = holds[h],
           Len(loading') = Len(loading) - 1, Head(loading) = loading[1],
           1 \in 1 .. Len(loading),
           \A i \in 1 .. Len(loading') : loading'[i] = loading[i + 1] /\ i + 1 \in 1 .. Len(loading)
    PROVE  Apart'
<1>1. Apart
  BY DEF IInv, Turns, Apart
<1>2. \A v : RegionOf(v)' = RegionOf(v) /\ RegionOf(v) \subseteq Halves
  BY SameRegions, Regions
<1>3. SUFFICES ASSUME NEW j \in 1 .. Len(loading'), NEW h \in RegionOf(loading'[j])
               PROVE  /\ busy'[h] = loading'[j] /\ holds'[h] = None
                      /\ \A k \in 1 .. Len(loading') : h \in RegionOf(loading'[k]) => k = j
  BY <1>2, SMTT(60) DEF Apart
<1>4. loading'[j] = loading[j + 1] /\ j + 1 \in 1 .. Len(loading) /\ h \in RegionOf(loading[j + 1])
  BY <1>3
<1>5. busy[h] = loading[j + 1] /\ holds[h] = None
      /\ \A k \in 1 .. Len(loading) : h \in RegionOf(loading[k]) => k = j + 1
  BY <1>1, <1>4 DEF Apart
<1>6. j \in Nat /\ j # 0
  OBVIOUS
<1>7. h \notin RegionOf(Head(loading)) /\ h \in Halves
  <2>1. 1 # j + 1  BY <1>6
  <2>2. RegionOf(loading[j + 1]) \subseteq Halves  BY <1>2
  <2> QED  BY <1>4, <1>5, <2>1, <2>2
<1>8. ASSUME NEW k \in 1 .. Len(loading'), h \in RegionOf(loading'[k]) PROVE k = j
  <2>1. k + 1 = j + 1  BY <1>5, <1>8
  <2>2. k \in Nat  OBVIOUS
  <2> QED  BY <1>6, <2>1, <2>2
<1> QED  BY <1>4, <1>5, <1>7, <1>8

LEMMA TurnsStay ==
    ASSUME IInv, [Next]_vars, "settle" \notin MayFail
    PROVE  Turns'
<1>0. /\ Turns /\ CallTypes /\ CardTypes /\ Channel
      /\ loading \in Seq(UnitSet) /\ queue \in Seq(UnitSet) /\ run \in Seq(UnitSet)
      /\ busy \in [Halves -> Int] /\ holds \in [Halves -> Int]
  BY DEF IInv, CallTypes
<1>1. ASSUME UNCHANGED <<call, kept, holds>> PROVE Turns'
  <2>1. \A v : RegionOf(v)' = RegionOf(v)  BY <1>1, SameRegions
  <2>2. UNCHANGED <<pc, run, busy, loading, kept, holds>>
    BY <1>1 DEF call
  <2>3. Apart => Apart'
    BY <2>1, <2>2 DEF Apart
  <2>4. Taking => Taking'
    BY <2>1, <2>2 DEF Taking, Loading
  <2>5. Running => Running'
    BY <2>1, <2>2 DEF Running, Loading
  <2> QED  BY <1>0, <2>2, <2>3, <2>4, <2>5, TurnsAre DEF Turns, Apart, Taking, Running
<1>2. CASE Kernel \/ Copy \/ Loader \/ UNCHANGED vars
  <2>1. UNCHANGED <<call, kept, holds>>
    BY <1>2 DEF Kernel, Copy, Loader, Take, Load, LoadFails, vars, model
  <2> QED  BY <1>1, <2>1
<1>3. CASE LetGo \/ ReadOneMore \/ Settle \/ Settled \/ Return
  <2>1. /\ loading' = <<>> \/ pc' = "settling"
        /\ pc' \in {"idle", "settling"} /\ busy' = Nobody
    BY <1>0, <1>3 DEF LetGo, ReadOneMore, Settle, Settled, Return, MayChange, call, Turns, Channel
  <2>2. loading' = <<>> => Apart'
    BY NoneApart
  <2> QED  BY <2>1, <2>2, TurnsAre
<1>4. CASE SettleAnswer
  <2>1. /\ pc = "settling" /\ UNCHANGED busy
        /\ pc' = "settling" \/ (pc' = "idle" /\ loading' = <<>>)
    BY <1>4 DEF SettleAnswer
  <2>2. loading' = <<>> => Apart'
    BY NoneApart
  <2>3. busy' = Nobody
    BY <1>0, <2>1 DEF Turns
  <2>4. Turns'
    <3>1. pc' \notin {"asking", "entering", "leaving"} /\ pc' # "leaving"  BY <2>1
    <3> QED  BY <2>1, <2>2, <2>3, <3>1, TurnsAre
  <2> QED  BY <2>4
<1>5. CASE Begin
  <2>1. pc' = "asking" /\ loading' = <<>> /\ busy' = Nobody
    BY <1>5 DEF Begin
  <2>2. Apart'
    BY <2>1, NoneApart
  <2>3. Taking'
    BY <2>1 DEF Taking, Loading, Nobody
  <2> QED  BY <2>1, <2>2, <2>3, TurnsAre
<1>6. CASE Ask
  <2>1. pc = "asking" /\ pc' \in {"asking", "entering"} /\ UNCHANGED kept
    BY <1>6 DEF Ask
  <2>2. Apart /\ Taking
    BY <1>0, <2>1 DEF Turns, Apart, Taking
  <2>3. \A v : RegionOf(v)' = RegionOf(v) /\ RegionOf(v) \subseteq Halves
    BY <2>1, SameRegions, Regions
  <2>4. CASE UNCHANGED <<busy, holds, loading>>
    BY <2>1, <2>2, <2>3, <2>4 DEF Turns, Apart, Taking, Loading
  <2>5. CASE ~UNCHANGED <<busy, holds, loading>>
    <3> DEFINE u == Head(queue)
    <3>1. /\ queue # <<>> /\ Free(u) /\ busy' = Taken(u)
          /\ \/ Whole(u) /\ UNCHANGED <<holds, loading>>
             \/ holds' = Unheld(u) /\ loading' = Append(loading, u)
      BY <1>6, <2>5 DEF Ask, AskFor
    <3>2. u \in UnitSet /\ u # None
      BY <1>0, <3>1, Tails, UnitsAre
    <3> HIDE DEF u
    <3>3. \A h \in Halves : /\ h \in RegionOf(u) => busy[h] = None /\ busy'[h] = u
                            /\ h \notin RegionOf(u) => busy'[h] = busy[h]
      BY <3>1 DEF Free, Taken
    <3>4. ASSUME NEW j \in 1 .. Len(loading), NEW h \in RegionOf(loading[j])
          PROVE  h \notin RegionOf(u) /\ h \in Halves
      <4>1. loading[j] \in UnitSet  BY <1>0
      <4>2. busy[h] = loading[j] /\ busy[h] # None  BY <2>2, <4>1, UnitsAre DEF Apart
      <4> QED  BY <2>3, <3>3, <4>2
    <3>5. ASSUME NEW h \in Halves, busy[h] # None, NEW g \in RegionOf(busy[h])
          PROVE  g \notin RegionOf(u) /\ g \in Halves
      <4>1. busy[g] = busy[h]  BY <2>2, <3>5 DEF Taking, Loading
      <4> QED  BY <2>3, <3>3, <3>5, <4>1
    <3>6. CASE Whole(u) /\ UNCHANGED <<holds, loading>>
      <4>1. Apart'
        BY <2>2, <2>3, <3>3, <3>4, <3>6 DEF Apart
      <4>2. ASSUME NEW h \in Halves, busy'[h] # None
            PROVE  /\ h \in RegionOf(busy'[h])
                   /\ \A g \in RegionOf(busy'[h]) :
                        /\ busy'[g] = busy'[h]
                        /\ busy'[h] \in ToSet(loading') \/ holds'[g] = busy'[h]
        <5>1. CASE h \in RegionOf(u)
          BY <2>3, <3>3, <3>6, <5>1 DEF Whole
        <5>2. CASE h \notin RegionOf(u)
          <6>1. busy'[h] = busy[h] /\ busy[h] # None  BY <3>3, <4>2, <5>2
          <6>2. \A g \in RegionOf(busy[h]) : busy'[g] = busy[g]  BY <3>3, <3>5, <6>1
          <6> QED  BY <2>2, <3>6, <6>1, <6>2 DEF Taking, Loading
        <5> QED  BY <5>1, <5>2
      <4>3. Taking'
        BY <2>3, <4>2 DEF Taking, Loading
      <4> QED  BY <2>1, <4>1, <4>3, TurnsAre
    <3>7. CASE holds' = Unheld(u) /\ loading' = Append(loading, u)
      <4> DEFINE n == Len(loading) + 1
      <4>1. /\ Len(loading') = n /\ loading'[n] = u /\ loading' \in Seq(UnitSet)
            /\ \A i \in 1 .. Len(loading) : loading'[i] = loading[i]
            /\ \A i \in 1 .. n : i \in 1 .. Len(loading) \/ i = n
            /\ \A i \in 1 .. Len(loading) : i \in 1 .. n /\ i # n
            /\ n \in 1 .. n
        BY <1>0, <3>2, <3>7
      <4>2. \A h \in Halves : /\ h \in RegionOf(u) => holds'[h] = None
                              /\ h \notin RegionOf(u) => holds'[h] = holds[h]
        BY <3>7 DEF Unheld
      <4> HIDE DEF n
      <4>3. ASSUME NEW j \in 1 .. n, NEW h \in RegionOf(loading'[j])
            PROVE  /\ busy'[h] = loading'[j] /\ holds'[h] = None
                   /\ \A k \in 1 .. n : h \in RegionOf(loading'[k]) => k = j
        <5>1. CASE j = n
          <6>1. h \in RegionOf(u) /\ h \in Halves  BY <2>3, <4>1, <5>1
          <6>2. \A k \in 1 .. Len(loading) : h \notin RegionOf(loading[k])
            BY <3>4, <6>1
          <6> QED  BY <3>3, <4>1, <4>2, <5>1, <6>1, <6>2
        <5>2. CASE j \in 1 .. Len(loading)
          <6>1. loading'[j] = loading[j] /\ h \in RegionOf(loading[j])  BY <4>1, <5>2
          <6>2. h \notin RegionOf(u) /\ h \in Halves  BY <3>4, <5>2, <6>1
          <6>3. busy[h] = loading[j] /\ holds[h] = None
                /\ \A k \in 1 .. Len(loading) : h \in RegionOf(loading[k]) => k = j
            BY <2>2, <5>2, <6>1 DEF Apart
          <6> QED  BY <3>3, <4>1, <4>2, <6>1, <6>2, <6>3
        <5> QED  BY <4>1, <5>1, <5>2
      <4>4. Apart'
        BY <2>3, <4>1, <4>3 DEF Apart
      <4>5. \A v : (v \in ToSet(loading) \/ v = u) => v \in ToSet(loading')
        <5>1. \A v : v \in ToSet(loading) <=> \E j \in 1 .. Len(loading) : loading[j] = v
          BY <1>0, Among DEF Loading
        <5>2. \A v : v \in ToSet(loading') <=> \E j \in 1 .. n : loading'[j] = v
          BY <4>1, Among DEF Loading
        <5> QED  BY <4>1, <5>1, <5>2
      <4>6. ASSUME NEW h \in Halves, busy'[h] # None
            PROVE  /\ h \in RegionOf(busy'[h])
                   /\ \A g \in RegionOf(busy'[h]) :
                        /\ busy'[g] = busy'[h]
                        /\ busy'[h] \in ToSet(loading') \/ holds'[g] = busy'[h]
        <5>1. CASE h \in RegionOf(u)
          BY <2>3, <3>3, <4>5, <5>1
        <5>2. CASE h \notin RegionOf(u)
          <6>1. busy'[h] = busy[h] /\ busy[h] # None  BY <3>3, <4>6, <5>2
          <6>2. \A g \in RegionOf(busy[h]) : busy'[g] = busy[g] /\ holds'[g] = holds[g]
            BY <3>3, <3>5, <4>2, <6>1
          <6> QED  BY <2>2, <4>5, <6>1, <6>2 DEF Taking, Loading
        <5> QED  BY <5>1, <5>2
      <4>7. Taking'
        BY <2>3, <4>6 DEF Taking, Loading
      <4> QED  BY <2>1, <4>4, <4>7, TurnsAre
    <3> QED  BY <3>1, <3>6, <3>7
  <2> QED  BY <2>4, <2>5
<1>7. CASE EnterAnswer
  <2> DEFINE u == Head(loading)
  <2>1. /\ pc = "entering" /\ answers # <<>> /\ answers' = Tail(answers)
        /\ loading' = Tail(loading)
        /\ UNCHANGED <<kept, run, busy, requests, reading>>
        /\ \/ holds' = Held(u, TRUE) /\ pc' = "entering"
           \/ holds' = holds /\ pc' = "failed"
    BY <1>7 DEF EnterAnswer
  <2>2. /\ Len(loading') = Len(loading) - 1 /\ u = loading[1] /\ 1 \in 1 .. Len(loading)
        /\ \A i \in 1 .. Len(loading') : loading'[i] = loading[i + 1] /\ i + 1 \in 1 .. Len(loading)
        /\ loading # <<>>
    BY <2>1, AnswerTaken
  <2> HIDE DEF u
  <2>3. \A h \in Halves : h \notin RegionOf(u) => holds'[h] = holds[h]
    BY <2>1 DEF Held
  <2>4. Apart'
    BY <2>1, <2>2, <2>3, ApartTaken DEF u
  <2>5. CASE pc' = "failed"
    BY <2>4, <2>5, TurnsAre
  <2>6. CASE holds' = Held(u, TRUE) /\ pc' = "entering"
    <3>1. Apart /\ Taking
      BY <1>0, <2>1 DEF Turns, Apart, Taking
    <3>2. \A v : RegionOf(v)' = RegionOf(v) /\ RegionOf(v) \subseteq Halves
      BY <2>1, SameRegions, Regions
    <3>3. \A h \in Halves : h \in RegionOf(u) => holds'[h] = u
      BY <2>6 DEF Held
    <3>4. ASSUME NEW v, v # u, v \in ToSet(loading) PROVE v \in ToSet(loading')
      <4>1. PICK j \in 1 .. Len(loading) : loading[j] = v
        BY <1>0, <3>4, Among DEF Loading
      <4>2. j # 1  BY <2>2, <3>4, <4>1
      <4> DEFINE n == Len(loading)
      <4>3. n \in Nat  BY <1>0
      <4> HIDE DEF n
      <4>4. j - 1 \in 1 .. n - 1 /\ (j - 1) + 1 = j  BY <4>2, <4>3 DEF n
      <4>5. loading'[j - 1] = v /\ j - 1 \in 1 .. Len(loading')  BY <2>2, <4>1, <4>4 DEF n
      <4>6. loading' \in Seq(UnitSet)  BY <1>0, <2>1, <2>2, Tails
      <4> QED  BY <4>5, <4>6, Among DEF Loading
    <3>5. ASSUME NEW h \in Halves, busy[h] # None
          PROVE  /\ h \in RegionOf(busy[h])
                 /\ \A g \in RegionOf(busy[h]) :
                      busy[g] = busy[h] /\ (busy[h] \in ToSet(loading') \/ holds'[g] = busy[h])
      <4>1. /\ h \in RegionOf(busy[h])
            /\ \A g \in RegionOf(busy[h]) :
                 busy[g] = busy[h] /\ (busy[h] \in ToSet(loading) \/ holds[g] = busy[h])
        BY <3>1, <3>5 DEF Taking, Loading
      <4>2. SUFFICES ASSUME NEW g \in RegionOf(busy[h])
                     PROVE  busy[h] \in ToSet(loading') \/ holds'[g] = busy[h]
        BY <4>1
      <4>3. CASE busy[h] = u
        BY <3>2, <3>3, <4>3
      <4>4. CASE busy[h] # u
        <5>1. g \in RegionOf(u) => busy[g] = u  BY <2>2, <3>1 DEF Apart
        <5>2. g \notin RegionOf(u) /\ g \in Halves  BY <3>2, <4>1, <4>4, <5>1
        <5> QED  BY <2>3, <3>4, <4>1, <4>4, <5>2
      <4> QED  BY <4>3, <4>4
    <3>6. Taking'
      BY <2>1, <3>2, <3>5 DEF Taking, Loading
    <3> QED  BY <2>4, <2>6, <3>6, TurnsAre
  <2> QED  BY <2>1, <2>5, <2>6
<1>8. CASE Drop
  <2> DEFINE u == Head(loading)
  <2>1. /\ pc \in {"ending", "failed"} /\ pc' = pc /\ answers # <<>> /\ answers' = Tail(answers)
        /\ loading' = Tail(loading)
        /\ UNCHANGED <<kept, run, busy, requests, reading>>
        /\ holds' = Held(u, Head(answers)) \/ holds' = holds
    BY <1>8 DEF Drop
  <2>2. /\ Len(loading') = Len(loading) - 1 /\ u = loading[1] /\ 1 \in 1 .. Len(loading)
        /\ \A i \in 1 .. Len(loading') : loading'[i] = loading[i + 1] /\ i + 1 \in 1 .. Len(loading)
    BY <2>1, AnswerTaken
  <2> HIDE DEF u
  <2>3. \A h \in Halves : h \notin RegionOf(u) => holds'[h] = holds[h]
    BY <2>1 DEF Held
  <2>4. Apart'
    BY <2>1, <2>2, <2>3, ApartTaken DEF u
  <2> QED  BY <2>1, <2>4, TurnsAre
<1>9. CASE Launch
  <2> DEFINE u == Head(run)
  <2>1. /\ pc = "entering" /\ run # <<>> /\ pc' \in {"leaving", "failed"}
        /\ UNCHANGED <<model, run, queue, busy, loading>>
        /\ kept[u] = "read" => ~Loading(u) /\ \E h \in Halves : busy[h] = u
    BY <1>9 DEF Launch
  <2>2. Apart /\ Taking
    BY <1>0, <2>1 DEF Turns, Apart, Taking
  <2>3. u \in UnitSet /\ u # None
    BY <1>0, <2>1, Tails, UnitsAre
  <2>4. Running
    BY <2>1, <2>2, <2>3 DEF Running, Taking
  <2> HIDE DEF u
  <2>5. UNCHANGED <<kept, holds>> /\ \A v : RegionOf(v)' = RegionOf(v)
    BY <2>1, SameRegions DEF model
  <2>6. (Apart /\ Taking /\ Running)'
    BY <2>1, <2>2, <2>4, <2>5 DEF Apart, Taking, Running, Loading
  <2> QED  BY <2>1, <2>6, TurnsAre
<1>10. CASE Leave
  <2> DEFINE u == Head(run)
  <2>1. /\ pc = "leaving" /\ pc' \in {"asking", "entering"}
        /\ UNCHANGED <<model, queue, loading>>
        /\ \/ /\ kept[u] = "read"
              /\ busy' = [h \in Halves |-> IF h \in RegionOf(u) THEN None ELSE busy[h]]
           \/ busy' = busy
    BY <1>10 DEF Leave
  <2>2. Apart /\ Taking /\ Running
    BY <1>0, <2>1 DEF Turns, Apart, Taking, Running
  <2>3. UNCHANGED <<kept, holds>>
    BY <2>1 DEF model
  <2>4. \A v : RegionOf(v)' = RegionOf(v) /\ RegionOf(v) \subseteq Halves
    BY <2>3, SameRegions, Regions
  <2>5. loading' = loading
    BY <2>1
  <2>6. CASE busy' = busy
    <3>1. (Apart /\ Taking)'
      BY <2>1, <2>2, <2>3, <2>4, <2>5, <2>6 DEF Apart, Taking, Loading
    <3> QED  BY <2>1, <3>1, TurnsAre
  <2>7. CASE /\ kept[u] = "read"
            /\ busy' = [h \in Halves |-> IF h \in RegionOf(u) THEN None ELSE busy[h]]
    <3>1. u \notin ToSet(loading) /\ \A h \in RegionOf(u) : busy[h] = u
      BY <2>2, <2>7 DEF Running, Loading
    <3> HIDE DEF u
    <3>2. \A h \in Halves : /\ h \in RegionOf(u) => busy'[h] = None
                            /\ h \notin RegionOf(u) => busy'[h] = busy[h]
      BY <2>7
    <3>3. ASSUME NEW j \in 1 .. Len(loading), NEW h \in RegionOf(loading[j])
          PROVE  h \notin RegionOf(u) /\ h \in Halves
      <4>1. busy[h] = loading[j]  BY <2>2 DEF Apart
      <4>2. loading[j] # u  BY <1>0, <3>1, Among DEF Loading
      <4> QED  BY <2>4, <3>1, <4>1, <4>2
    <3>4. Apart'
      BY <2>1, <2>2, <2>3, <2>4, <3>2, <3>3 DEF Apart
    <3>5. ASSUME NEW h \in Halves, busy'[h] # None
          PROVE  /\ h \in RegionOf(busy'[h])
                 /\ \A g \in RegionOf(busy'[h]) :
                      busy'[g] = busy'[h] /\ (busy'[h] \in ToSet(loading') \/ holds'[g] = busy'[h])
      <4>1. h \notin RegionOf(u) /\ busy'[h] = busy[h] /\ busy[h] # None
        BY <3>2, <3>5
      <4>2. /\ h \in RegionOf(busy[h])
            /\ \A g \in RegionOf(busy[h]) :
                 busy[g] = busy[h] /\ (busy[h] \in ToSet(loading) \/ holds[g] = busy[h])
        BY <2>2, <4>1 DEF Taking, Loading
      <4>3. \A g \in RegionOf(busy[h]) : g \notin RegionOf(u) /\ g \in Halves
        BY <2>4, <3>1, <4>1, <4>2
      <4> QED  BY <2>3, <2>5, <3>2, <4>1, <4>2, <4>3
    <3>6. Taking'
      BY <2>4, <3>5 DEF Taking, Loading
    <3> QED  BY <2>1, <3>4, <3>6, TurnsAre
  <2> QED  BY <2>1, <2>6, <2>7
<1>11. CASE End
  <2>1. pc = "entering" /\ pc' = "ending" /\ UNCHANGED <<model, run, queue, busy, loading>>
    BY <1>11 DEF End
  <2>2. UNCHANGED <<kept, holds>> /\ \A v : RegionOf(v)' = RegionOf(v)
    BY <2>1, SameRegions DEF model
  <2>3. Apart
    BY <1>0, <2>1 DEF Turns, Apart
  <2>4. Apart'
    BY <2>1, <2>2, <2>3, SMTT(60) DEF Apart
  <2> QED  BY <2>1, <2>4, TurnsAre
<1> QED  BY <1>2, <1>3, <1>4, <1>5, <1>6, <1>7, <1>8, <1>9, <1>10, <1>11 DEF Next, Host

-------------------------------------------------------------------------------
(* What lands in the regions.                                                *)

(* The first copy of the stream is done. *)
LEMMA CopyDone ==
    ASSUME CardTypes, Streams, Copy
    PROVE  /\ Len(copies') = Len(copies) - 1 /\ Len(copies) \in Nat /\ 1 \in 1 .. Len(copies)
           /\ \A i \in 1 .. Len(copies') : copies'[i] = copies[i + 1] /\ i + 1 \in 1 .. Len(copies)
           /\ \A i \in 1 .. Len(copies) : i = 1 \/ i - 1 \in 1 .. Len(copies')
           /\ Copied' = Copied + 1 /\ Copied \in Int /\ Run' = Run /\ Run \in Int
           /\ copies[1].after <= Run
           /\ \A h \in Halves : h \in copies[1].into =>
                /\ region'[h] = copies[1].unit
                /\ \A i \in 1 .. Len(copies) : h \in copies[i].into => i = 1
           /\ \A h \in Halves : h \notin copies[1].into => region'[h] = region[h]
           /\ buffer \subseteq buffer'
           /\ copies[1].into = {} => copies[1].unit \in buffer'
           /\ UNCHANGED <<model, call, calls, loader, kernels, events>>
<1> DEFINE c == Head(copies)
           n == Len(copies)
<1>1. /\ copies # <<>> /\ copies' = Tail(copies) /\ c.after <= Run
      /\ region' = [h \in Halves |-> IF h \in c.into THEN pinned[h] ELSE region[h]]
      /\ buffer' = IF c.into = {} /\ (\A h \in c.through : pinned[h] = c.unit)
                   THEN buffer \cup {c.unit} ELSE buffer
      /\ UNCHANGED <<model, call, calls, loader, kernels, events>>
  BY DEF Copy
<1>2. copies \in Seq(Copies) /\ launched \in Nat /\ issued \in Nat /\ kernels \in Seq(Kernels)
  BY DEF CardTypes
<1>3. /\ Len(copies') = n - 1 /\ n \in Nat \ {0} /\ c = copies[1] /\ 1 \in 1 .. n
      /\ \A i \in 1 .. n - 1 : copies'[i] = copies[i + 1] /\ i + 1 \in 1 .. n
  BY <1>1, <1>2, Tails
<1>4. UNCHANGED <<kernels, launched, issued, pinned>>
  BY <1>1 DEF loader, events
<1>5. Len(kernels) \in Nat
  BY <1>2
<1>6. /\ copies[1].into \in {copies[1].through, {}}
      /\ \A i \in 1 .. n : \A h \in copies[i].through :
            loaded[h] = Copied + i /\ pinned[h] = copies[i].unit
      /\ \A i \in 1 .. n : copies[i].into \in {copies[i].through, {}}
  BY <1>3 DEF Streams
<1> HIDE DEF n, c
<1>7. Copied' = Copied + 1 /\ Copied \in Int /\ Run' = Run /\ Run \in Int
  <2>1. Copied = issued - n /\ Copied' = issued - (n - 1)
    BY <1>3, <1>4 DEF Copied, n
  <2>2. Run' = Run /\ Run \in Int
    BY <1>2, <1>4, <1>5 DEF Run
  <2> QED  BY <1>2, <1>3, <2>1, <2>2
<1>8. \A i \in 1 .. n : i = 1 \/ i - 1 \in 1 .. n - 1
  BY <1>3
<1>9. ASSUME NEW h \in Halves, h \in copies[1].into
      PROVE  /\ region'[h] = copies[1].unit
             /\ \A i \in 1 .. n : h \in copies[i].into => i = 1
  <2>1. h \in copies[1].through /\ pinned[h] = copies[1].unit /\ loaded[h] = Copied + 1
    BY <1>3, <1>6, <1>9
  <2>2. ASSUME NEW i \in 1 .. n, h \in copies[i].into PROVE i = 1
    <3>1. h \in copies[i].through  BY <1>6, <2>2
    <3>2. Copied + i = Copied + 1  BY <1>6, <2>1, <3>1
    <3>3. i \in Int  OBVIOUS
    <3> QED  BY <1>7, <3>2, <3>3
  <2> QED  BY <1>1, <1>3, <1>9, <2>1, <2>2
<1>10. \A h \in Halves : h \notin copies[1].into => region'[h] = region[h]
  BY <1>1, <1>3
<1>11. buffer \subseteq buffer' /\ (copies[1].into = {} => copies[1].unit \in buffer')
  BY <1>1, <1>3, <1>6
<1> QED  BY <1>1, <1>3, <1>7, <1>8, <1>9, <1>10, <1>11 DEF n

(* A copy out of the pinned memory is issued. *)
LEMMA CopyIssued ==
    ASSUME CardTypes, Streams, Channel, Load
    PROVE  /\ Len(copies') = Len(copies) + 1 /\ Len(copies) \in Nat
           /\ \A i \in 1 .. Len(copies) : copies'[i] = copies[i] /\ i \in 1 .. Len(copies')
           /\ \A i \in 1 .. Len(copies') : i \in 1 .. Len(copies) \/ i = Len(copies) + 1
           /\ Len(copies) + 1 \in 1 .. Len(copies')
           /\ copies'[Len(copies) + 1].unit = Head(reading).unit
           /\ Head(reading).gated => copies'[Len(copies) + 1].into = Head(reading).halves
           /\ ~Head(reading).gated => copies'[Len(copies) + 1].into = {}
           /\ copies'[Len(copies) + 1].after = DoneAt(Head(reading))
           /\ \A i \in 1 .. Len(copies) : \A h \in Head(reading).halves : h \notin copies[i].into
           /\ Copied' = Copied /\ Copied \in Int
           /\ reading # <<>> /\ reading' = <<>> /\ answers' = Append(answers, TRUE)
           /\ UNCHANGED <<model, call, calls, requests, kernels, region, buffer, launched, done>>
<1> DEFINE request == Head(reading)
           copy == [unit |-> request.unit, through |-> request.halves,
                    into |-> IF request.gated THEN request.halves ELSE {},
                    after |-> DoneAt(request)]
           n == Len(copies)
<1>1. /\ reading # <<>> /\ \A h \in request.halves : loaded[h] <= Copied
      /\ copies' = Append(copies, copy) /\ issued' = issued + 1
      /\ answers' = Append(answers, TRUE) /\ reading' = <<>>
      /\ UNCHANGED <<model, call, calls, requests, kernels, region, buffer, launched, done>>
  BY DEF Load, PinnedIsFree
<1>2. copies \in Seq(Copies) /\ issued \in Nat
  BY DEF CardTypes
<1>3. /\ copy.unit = request.unit /\ copy.after = DoneAt(request)
      /\ request.gated => copy.into = request.halves
      /\ ~request.gated => copy.into = {}
  OBVIOUS
<1> HIDE DEF request, copy
<1>4. /\ Len(copies') = n + 1 /\ n \in Nat /\ copies'[n + 1] = copy
      /\ \A i \in 1 .. n : copies'[i] = copies[i]
  BY <1>1, <1>2
<1> HIDE DEF n
<1>5. /\ \A i \in 1 .. n + 1 : i \in 1 .. n \/ i = n + 1
      /\ \A i \in 1 .. n : i \in 1 .. n + 1
      /\ n + 1 \in 1 .. n + 1
  BY <1>4
<1>6. Copied' = Copied /\ Copied \in Int
  <2>1. Copied = issued - n /\ Copied' = (issued + 1) - (n + 1)
    BY <1>1, <1>4 DEF Copied, n
  <2> QED  BY <1>2, <1>4, <2>1
<1>7. ASSUME NEW i \in 1 .. n, NEW h \in request.halves PROVE h \notin copies[i].into
  <2>1. h \in copies[i].into => loaded[h] = Copied + i
    BY <1>7 DEF Streams, n
  <2>2. ~(Copied + i <= Copied)
    BY <1>6
  <2> QED  BY <1>1, <2>1, <2>2
<1> QED  BY <1>1, <1>3, <1>4, <1>5, <1>6, <1>7 DEF request, n

LEMMA LandedStays ==
    ASSUME UNCHANGED <<copies, region>>
    PROVE  \A h, u : Landed(h, u)' <=> Landed(h, u)
  BY DEF Landed

LEMMA LandedCopied ==
    ASSUME CardTypes, Streams, Copy, NEW h \in Halves, NEW u, Landed(h, u)
    PROVE  Landed(h, u)'
<1>1. \A i \in 1 .. Len(copies') : h \in copies'[i].into => copies'[i].unit = u
  BY CopyDone DEF Landed
<1>2. ASSUME \A i \in 1 .. Len(copies') : h \notin copies'[i].into
      PROVE  region'[h] = u
  <2>1. CASE h \in copies[1].into
    BY <2>1, CopyDone DEF Landed
  <2>2. CASE h \notin copies[1].into
    <3>1. ASSUME NEW i \in 1 .. Len(copies) PROVE h \notin copies[i].into
      <4>1. CASE i = 1  BY <2>2, <4>1
      <4>2. CASE i # 1
        <5>1. i - 1 \in 1 .. Len(copies')  BY <4>2, CopyDone
        <5>2. copies'[i - 1] = copies[(i - 1) + 1] /\ (i - 1) + 1 = i  BY <5>1, CopyDone
        <5> QED  BY <1>2, <5>1, <5>2
      <4> QED  BY <4>1, <4>2
    <3> QED  BY <2>2, <3>1, CopyDone DEF Landed
  <2> QED  BY <2>1, <2>2
<1> QED  BY <1>1, <1>2 DEF Landed

LEMMA LandedIssued ==
    ASSUME CardTypes, Streams, Channel, Load, NEW h \in Halves, NEW u,
           IF h \in Head(reading).halves /\ Head(reading).gated
           THEN u = Head(reading).unit ELSE Landed(h, u)
    PROVE  Landed(h, u)'
<1> DEFINE n == Len(copies) + 1
<1>1. CASE h \in Head(reading).halves /\ Head(reading).gated
  <2>1. h \in copies'[n].into /\ n \in 1 .. Len(copies') /\ copies'[n].unit = u
    BY <1>1, CopyIssued
  <2>2. \A i \in 1 .. Len(copies') : h \in copies'[i].into => i = n
    BY <1>1, CopyIssued
  <2> HIDE DEF n
  <2> QED  BY <2>1, <2>2 DEF Landed
<1>2. CASE ~(h \in Head(reading).halves /\ Head(reading).gated)
  <2>1. Landed(h, u)
    BY <1>2
  <2>2. h \notin copies'[n].into
    <3>1. reading # <<>>  BY CopyIssued
    <3>2. Head(reading).gated \in BOOLEAN  BY <3>1, ReadingIs
    <3> QED  BY <1>2, <3>2, CopyIssued
  <2>3. /\ \A i \in 1 .. Len(copies') : i \in 1 .. Len(copies) \/ i = n
        /\ \A i \in 1 .. Len(copies) : copies'[i] = copies[i] /\ i \in 1 .. Len(copies')
        /\ region' = region
    BY CopyIssued
  <2> HIDE DEF n
  <2>4. \A i \in 1 .. Len(copies') : h \in copies'[i].into => copies'[i].unit = u
    BY <2>1, <2>2, <2>3 DEF Landed
  <2>5. (\A i \in 1 .. Len(copies') : h \notin copies'[i].into) => region'[h] = u
    BY <2>1, <2>3 DEF Landed
  <2> QED  BY <2>4, <2>5 DEF Landed
<1> QED  BY <1>1, <1>2

LEMMA SettlesWell ==
    ASSUME IInv, pc = "settling", answers # <<>>
    PROVE  Head(answers)
<1>1. answers \in Seq(BOOLEAN) /\ Channel
  BY DEF IInv, CardTypes
<1>2. Head(answers) = answers[1] /\ 1 \in 1 .. Len(answers)
  BY <1>1, Tails
<1> QED  BY <1>1, <1>2 DEF Channel

HoldsLand == \A h \in Halves : holds[h] # None => Landed(h, holds[h])

AnswersLand ==
    \A j \in 1 .. Len(answers) : answers[j] =>
        \A h \in RegionOf(loading[j]) : Landed(h, loading[j])

LEMMA NoAnswersLand ==
    ASSUME IInv, loading = <<>>, answers' = answers
    PROVE  AnswersLand'
<1>1. Len(answers') = 0
  BY ChannelIs, Empty
<1>2. 1 .. Len(answers') = {}
  BY <1>1
<1> QED  BY <1>2 DEF AnswersLand

LEMMA LandsStay ==
    ASSUME IInv, [Next]_vars, "settle" \notin MayFail
    PROVE  Lands'
<1>0. /\ CardTypes /\ CallTypes /\ Streams /\ Channel /\ Turns
      /\ HoldsLand
      /\ pc # "settling" => AnswersLand
  BY DEF IInv, Lands, HoldsLand, AnswersLand
<1>1. SUFFICES HoldsLand' /\ (pc' # "settling" => AnswersLand')
  BY DEF Lands, HoldsLand, AnswersLand
<1>2. ASSUME UNCHANGED <<copies, region>>,
             \A h \in Halves : holds'[h] = None \/ holds'[h] = holds[h]
      PROVE  HoldsLand'
  BY <1>0, <1>2, LandedStays DEF HoldsLand
<1>3. ASSUME UNCHANGED <<copies, region, kept, loading, answers>>, pc # "settling"
      PROVE  AnswersLand'
  <2>1. \A v : RegionOf(v)' = RegionOf(v)  BY <1>3, SameRegions
  <2> QED  BY <1>0, <1>3, <2>1, LandedStays DEF AnswersLand
<1>4. CASE LetGo \/ ReadOneMore \/ Settled
  <2>1. holds' = Nobody /\ loading = <<>> /\ answers' = answers
    BY <1>0, <1>4 DEF LetGo, ReadOneMore, Settled, Forget, MayChange, loader, Channel
  <2>2. HoldsLand'
    BY <2>1 DEF HoldsLand, Nobody
  <2> QED  BY <2>1, <2>2, NoAnswersLand
<1>5. CASE Settle
  <2>1. pc' = "settling" /\ UNCHANGED <<copies, region, holds>>
    BY <1>5 DEF Settle, device, model
  <2> QED  BY <1>2, <2>1
<1>6. CASE SettleAnswer
  <2>1. pc = "settling" /\ answers # <<>> /\ UNCHANGED <<copies, region, holds>>
    BY <1>6 DEF SettleAnswer, device, model
  <2>2. pc' = "settling"
    BY <1>6, <2>1, SettlesWell DEF SettleAnswer
  <2> QED  BY <1>2, <2>1, <2>2
<1>7. CASE Begin \/ Return
  <2>1. loading = <<>> /\ answers' = answers /\ UNCHANGED <<copies, region, holds>>
    BY <1>0, <1>7 DEF Begin, Return, Channel, loader, device, model
  <2> QED  BY <1>2, <2>1, NoAnswersLand
<1>8. CASE Ask
  <2>1. pc = "asking" /\ UNCHANGED <<kept, answers, copies, region>>
    BY <1>8 DEF Ask, device
  <2>2. \/ UNCHANGED <<holds, loading>>
        \/ /\ holds' = Unheld(Head(queue)) /\ loading' = Append(loading, Head(queue))
           /\ queue # <<>>
    BY <1>8 DEF Ask, AskFor
  <2>3. HoldsLand'
    <3>1. \A h \in Halves : holds'[h] = None \/ holds'[h] = holds[h]
      BY <2>2 DEF Unheld
    <3> QED  BY <1>2, <2>1, <3>1
  <2>4. ASSUME NEW j \in 1 .. Len(answers) PROVE loading'[j] = loading[j]
    <3>1. loading \in Seq(UnitSet) /\ j \in 1 .. Len(loading)
      <4> DEFINE A == Len(answers)
                 R == Len(reading)
                 Q == Len(requests)
      <4>1. /\ A \in Nat /\ R \in {0, 1} /\ Q \in Nat /\ Len(loading) = A + R + Q
            /\ loading \in Seq(UnitSet)
        BY ChannelIs
      <4> HIDE DEF A, R, Q
      <4>2. \A i \in 1 .. A : i \in 1 .. A + R + Q
        BY <4>1
      <4> QED  BY <4>1, <4>2 DEF A
    <3>2. CASE UNCHANGED loading
      BY <3>2
    <3>3. CASE loading' = Append(loading, Head(queue)) /\ queue # <<>>
      <4>1. Head(queue) \in UnitSet  BY <1>0, <3>3, Tails DEF CallTypes
      <4> QED  BY <3>1, <3>3, <4>1, Appends
    <3> QED  BY <2>2, <3>2, <3>3
  <2>5. AnswersLand'
    <3>1. \A v : RegionOf(v)' = RegionOf(v)  BY <2>1, SameRegions
    <3> QED  BY <1>0, <2>1, <2>4, <3>1, LandedStays DEF AnswersLand
  <2> QED  BY <2>3, <2>5
<1>9. CASE EnterAnswer \/ Drop
  <2> DEFINE u == Head(loading)
  <2>1. /\ pc \notin {"settling", "idle"} /\ pc' \in {pc, "failed"}
        /\ answers # <<>> /\ answers' = Tail(answers)
        /\ loading' = Tail(loading)
        /\ UNCHANGED <<kept, requests, reading, copies, region>>
        /\ holds' = holds \/ holds' = Held(u, FALSE) \/ (Head(answers) /\ holds' = Held(u, TRUE))
    <3>1. Head(answers) \/ Head(answers) = FALSE
      <4>1. EnterAnswer \/ Drop => answers # <<>>  BY DEF EnterAnswer, Drop
      <4>2. Head(answers) \in BOOLEAN  BY <1>0, <1>9, <4>1, Tails DEF CardTypes
      <4> QED  BY <4>2
    <3>2. \A well : well => Held(u, well) = Held(u, TRUE)
      BY DEF Held
    <3>3. CASE EnterAnswer
      BY <3>1, <3>3 DEF EnterAnswer, device
    <3>4. CASE Drop
      BY <3>1, <3>2, <3>4 DEF Drop, device
    <3> QED  BY <1>9, <3>3, <3>4
  <2>2. /\ Len(answers') = Len(answers) - 1 /\ 1 \in 1 .. Len(answers) /\ Head(answers) = answers[1]
        /\ u = loading[1]
        /\ \A i \in 1 .. Len(loading') : loading'[i] = loading[i + 1]
        /\ \A i \in 1 .. Len(answers') : /\ answers'[i] = answers[i + 1]
                                         /\ i + 1 \in 1 .. Len(answers)
                                         /\ i \in 1 .. Len(loading')
    BY <2>1, AnswerTaken
  <2> HIDE DEF u
  <2>3. HoldsLand'
    <3>1. CASE holds' = holds \/ holds' = Held(u, FALSE)
      <4>1. \A h \in Halves : holds'[h] = None \/ holds'[h] = holds[h]
        BY <3>1 DEF Held
      <4> QED  BY <1>2, <2>1, <4>1
    <3>2. CASE Head(answers) /\ holds' = Held(u, TRUE)
      <4>1. \A h \in RegionOf(u) : Landed(h, u)
        BY <1>0, <2>1, <2>2, <3>2 DEF AnswersLand
      <4>2. \A h \in Halves : IF h \in RegionOf(u) THEN holds'[h] = u ELSE holds'[h] = holds[h]
        BY <3>2 DEF Held
      <4> QED  BY <1>0, <2>1, <4>1, <4>2, LandedStays DEF HoldsLand
    <3> QED  BY <2>1, <3>1, <3>2
  <2>4. AnswersLand'
    <3>1. \A v : RegionOf(v)' = RegionOf(v)  BY <2>1, SameRegions
    <3> QED  BY <1>0, <2>1, <2>2, <3>1, LandedStays DEF AnswersLand
  <2> QED  BY <2>3, <2>4
<1>10. CASE Launch \/ Leave \/ End \/ Take \/ Kernel \/ UNCHANGED vars
  <2>1. UNCHANGED <<copies, region, kept, loading, answers, holds>>
        /\ (pc = "settling" => pc' = "settling")
    BY <1>10 DEF Launch, Leave, End, Take, Kernel, vars, model, call, loader, device
  <2> QED  BY <1>2, <1>3, <2>1
<1>11. CASE Load
  <2> DEFINE request == Head(reading)
             A == Len(answers)
  <2>1. /\ reading # <<>> /\ reading' = <<>> /\ answers' = Append(answers, TRUE)
        /\ UNCHANGED <<loading, requests, kept, pc, holds>>
    BY <1>0, <1>11, CopyIssued DEF model, call
  <2>2. /\ A + 1 \in 1 .. Len(loading)
        /\ Asks(request, loading[A + 1])
        /\ \A i \in 1 .. A : answers'[i] = answers[i] /\ i \in 1 .. Len(loading) /\ i # A + 1
        /\ \A i \in 1 .. Len(answers') : i \in 1 .. A \/ i = A + 1
    <3>1. TRUE \in BOOLEAN /\ (pc = "settling" => TRUE)  OBVIOUS
    <3>2. A \in Nat  BY ChannelIs
    <3> HIDE DEF A
    <3>3. \A i \in 1 .. A : i # A + 1  BY <3>2
    <3> QED  BY <2>1, <3>1, <3>3, AnswerGiven DEF A
  <2>3. request.gated \in BOOLEAN /\ request.halves \subseteq Halves
    BY <1>0, <2>1, ReadingIs
  <2>4. ASSUME NEW h \in Halves, NEW v, Landed(h, v), ~(h \in request.halves /\ request.gated)
        PROVE  Landed(h, v)'
    BY <1>0, <1>11, <2>4, LandedIssued
  <2>5. ASSUME request.gated, NEW h \in request.halves
        PROVE  \A v : v = request.unit => Landed(h, v)'
    <3>1. h \in Halves  BY <2>3
    <3>2. \A v : v = Head(reading).unit => Landed(h, v)'
      BY <1>0, <1>11, <2>5, <3>1, LandedIssued
    <3> QED  BY <3>2
  <2> HIDE DEF request, A
  <2>6. ASSUME request.gated
        PROVE  /\ pc # "settling" /\ request.halves = RegionOf(loading[A + 1])
               /\ request.unit = loading[A + 1]
               /\ \A h \in request.halves : holds[h] = None
               /\ \A h \in request.halves : \A j \in 1 .. Len(loading) :
                    h \in RegionOf(loading[j]) => j = A + 1
    <3>1. pc # "settling" /\ request.halves = RegionOf(loading[A + 1])
          /\ request.unit = loading[A + 1]
      BY <2>2, <2>6 DEF Asks
    <3>2. Apart
      BY <1>0, <3>1 DEF Turns, Apart
    <3>3. A + 1 \in 1 .. Len(loading)
      BY <2>2
    <3>4. ASSUME NEW h \in RegionOf(loading[A + 1])
          PROVE  /\ holds[h] = None
                 /\ \A j \in 1 .. Len(loading) : h \in RegionOf(loading[j]) => j = A + 1
      BY <3>2, <3>3, <3>4 DEF Apart
    <3> QED  BY <3>1, <3>4
  <2>7. HoldsLand'
    BY <1>0, <2>1, <2>4, <2>6 DEF HoldsLand
  <2>8. ASSUME pc' # "settling" PROVE AnswersLand'
    <3>1. \A v : RegionOf(v)' = RegionOf(v) /\ RegionOf(v) \subseteq Halves
      BY <2>1, SameRegions, Regions
    <3>2. request.gated
      BY <2>1, <2>2, <2>3, <2>8 DEF Asks
    <3>3. ASSUME NEW j \in 1 .. Len(answers'), answers'[j], NEW h \in RegionOf(loading[j])
          PROVE  Landed(h, loading[j])'
      <4>1. CASE j \in 1 .. A
        <5>1. answers[j] /\ j \in 1 .. Len(loading) /\ j # A + 1  BY <2>2, <3>3, <4>1
        <5>2. Landed(h, loading[j])  BY <1>0, <2>1, <2>8, <4>1, <5>1 DEF AnswersLand, A
        <5>3. h \notin request.halves  BY <2>6, <3>2, <5>1
        <5>4. \A v : Landed(h, v) => Landed(h, v)'  BY <2>4, <3>1, <5>3
        <5> QED  BY <2>1, <5>2, <5>4
      <4>2. CASE j = A + 1
        BY <2>1, <2>5, <2>6, <3>2, <4>2
      <4> QED  BY <2>2, <4>1, <4>2
    <3> QED  BY <2>1, <3>1, <3>3 DEF AnswersLand
  <2> QED  BY <2>7, <2>8
<1>12. CASE LoadFails
  <2>1. /\ reading # <<>> /\ reading' = <<>> /\ answers' = Append(answers, FALSE)
        /\ UNCHANGED <<loading, requests, kept, pc, holds, copies, region>>
        /\ Head(reading).gated
    BY <1>12 DEF LoadFails, model, call, device
  <2>2. pc # "settling"
    BY <1>0, <2>1, ReadingIs DEF Asks
  <2>3. /\ answers'[Len(answers) + 1] = FALSE
        /\ \A i \in 1 .. Len(answers) : answers'[i] = answers[i]
        /\ \A i \in 1 .. Len(answers') : i \in 1 .. Len(answers) \/ i = Len(answers) + 1
    <3>1. FALSE \in BOOLEAN /\ (pc = "settling" => FALSE)  BY <2>2
    <3> QED  BY <2>1, <3>1, AnswerGiven
  <2>4. \A v : RegionOf(v)' = RegionOf(v)  BY <2>1, SameRegions
  <2>5. AnswersLand'
    BY <1>0, <2>1, <2>2, <2>3, <2>4, LandedStays DEF AnswersLand
  <2> QED  BY <1>2, <2>1, <2>5
<1>13. CASE Copy
  <2>1. UNCHANGED <<kept, holds, pc, loading, answers>>
    BY <1>0, <1>13, CopyDone DEF model, call, loader
  <2>2. \A v : RegionOf(v)' = RegionOf(v) /\ RegionOf(v) \subseteq Halves
    BY <2>1, SameRegions, Regions
  <2>3. \A h \in Halves : \A v : Landed(h, v) => Landed(h, v)'
    BY <1>0, <1>13, LandedCopied
  <2>4. HoldsLand'
    BY <1>0, <2>1, <2>3 DEF HoldsLand
  <2>5. pc' # "settling" => AnswersLand'
    BY <1>0, <2>1, <2>2, <2>3 DEF AnswersLand
  <2> QED  BY <2>4, <2>5
<1> QED  BY <1>4, <1>5, <1>6, <1>7, <1>8, <1>9, <1>10, <1>11, <1>12, <1>13
         DEF Next, Host, Loader

-------------------------------------------------------------------------------
(* What the kernels read.                                                    *)

(* The kernel k, n-th of its stream, finds what it is to read. *)
Finds(k, n) ==
    /\ k.call <= calls
    /\ k.call = calls => \A h \in k.from : Untouched(k, h, n) /\ Guarded(h, n)

LEMMA ReadingAre == Reading <=> \A i \in 1 .. Len(kernels) : Finds(kernels[i], Run + i)
  BY DEF Reading, Finds

LEMMA UntouchedStays ==
    ASSUME UNCHANGED <<copies, region, issued>>
    PROVE  \A k, h, n : Untouched(k, h, n)' <=> Untouched(k, h, n)
  BY DEF Untouched, Landed, Copied

LEMMA UntouchedCopied ==
    ASSUME CardTypes, Streams, Copy, NEW h \in Halves, NEW k, NEW n \in Int, Run < n,
           Untouched(k, h, n)
    PROVE  Untouched(k, h, n)'
<1>1. CASE /\ Landed(h, k.unit)
           /\ \A j \in 1 .. Len(copies) : h \in copies[j].into => Copied + j <= k.after
  <2>1. Landed(h, k.unit)'
    BY <1>1, LandedCopied
  <2>2. ASSUME NEW j \in 1 .. Len(copies'), h \in copies'[j].into
        PROVE  Copied' + j <= k.after
    <3>1. copies'[j] = copies[j + 1] /\ j + 1 \in 1 .. Len(copies)  BY <2>2, CopyDone
    <3>2. Copied + (j + 1) <= k.after  BY <1>1, <2>2, <3>1
    <3>3. Copied' + j = Copied + (j + 1)
      <4>1. Copied' = Copied + 1 /\ Copied \in Int  BY CopyDone
      <4>2. j \in Int  OBVIOUS
      <4> QED  BY <4>1, <4>2
    <3> QED  BY <3>2, <3>3
  <2> QED  BY <2>1, <2>2 DEF Untouched
<1>2. CASE /\ region[h] = k.unit
           /\ \E j \in 1 .. Len(copies) : h \in copies[j].into /\ n <= copies[j].after
  <2>1. PICK j \in 1 .. Len(copies) : h \in copies[j].into /\ n <= copies[j].after
    BY <1>2
  <2>2. j # 1
    <3>1. copies[1].after <= Run /\ Run \in Int /\ copies[1].after \in Nat
      BY CopyDone, CopiesAre
    <3> QED  BY <2>1, <3>1
  <2>3. j - 1 \in 1 .. Len(copies')
    BY <2>2, CopyDone
  <2>4. copies'[j - 1] = copies[j]
    <3>1. (j - 1) + 1 = j  OBVIOUS
    <3> QED  BY <2>3, <3>1, CopyDone
  <2>5. h \notin copies[1].into
    BY <2>1, <2>2, CopyDone
  <2>6. region'[h] = region[h]
    BY <2>5, CopyDone
  <2> QED  BY <1>2, <2>1, <2>3, <2>4, <2>6 DEF Untouched
<1> QED  BY <1>1, <1>2 DEF Untouched

LEMMA UntouchedIssued ==
    ASSUME CardTypes, Streams, Channel, Load, NEW h \in Halves, NEW k, NEW n \in Int,
           Untouched(k, h, n),
           h \in Head(reading).halves /\ Head(reading).gated => n <= done[h]
    PROVE  Untouched(k, h, n)'
<1> DEFINE request == Head(reading)
           m == Len(copies) + 1
<1>1. /\ m \in 1 .. Len(copies')
      /\ request.gated => copies'[m].into = request.halves
      /\ ~request.gated => copies'[m].into = {}
      /\ copies'[m].after = DoneAt(request)
      /\ \A i \in 1 .. Len(copies) : copies'[i] = copies[i] /\ i \in 1 .. Len(copies')
      /\ \A i \in 1 .. Len(copies') : i \in 1 .. Len(copies) \/ i = m
      /\ \A i \in 1 .. Len(copies) : \A g \in request.halves : g \notin copies[i].into
      /\ Copied' = Copied /\ region' = region
  BY CopyIssued
<1>2. request.gated \in BOOLEAN /\ request.halves \subseteq Halves
      /\ (request.gated => request.halves # {})
  <2>1. reading # <<>>  BY CopyIssued
  <2> QED  BY <2>1, ReadingIs
<1>3. DoneAt(request) \in Nat
      /\ (request.gated => \A g \in request.halves : done[g] <= DoneAt(request))
  <2> HIDE DEF request
  <2> QED  BY <1>2, DoneIs
<1>4. done[h] \in Nat
  BY DEF CardTypes
<1>5. CASE /\ region[h] = k.unit
           /\ \E j \in 1 .. Len(copies) : h \in copies[j].into /\ n <= copies[j].after
  <2> HIDE DEF request, m
  <2>1. PICK j \in 1 .. Len(copies) : h \in copies[j].into /\ n <= copies[j].after
    BY <1>5
  <2>2. j \in 1 .. Len(copies') /\ copies'[j] = copies[j]
    BY <1>1
  <2> QED  BY <1>1, <1>5, <2>1, <2>2 DEF Untouched
<1>6. CASE /\ Landed(h, k.unit)
           /\ \A j \in 1 .. Len(copies) : h \in copies[j].into => Copied + j <= k.after
  <2>1. CASE h \in request.halves /\ request.gated
    <3>1. region[h] = k.unit
      <4> HIDE DEF request, m
      <4> QED  BY <1>1, <1>6, <2>1 DEF Landed
    <3>2. n <= DoneAt(request)
      <4>1. n <= done[h] /\ done[h] <= DoneAt(request)  BY <1>3, <2>1
      <4> HIDE DEF request
      <4> QED  BY <1>3, <1>4, <4>1
    <3> HIDE DEF request, m
    <3>3. region'[h] = k.unit /\ h \in copies'[m].into /\ n <= copies'[m].after
      BY <1>1, <2>1, <3>1, <3>2
    <3> QED  BY <1>1, <3>3 DEF Untouched
  <2>2. CASE ~(h \in request.halves /\ request.gated)
    <3>1. Landed(h, k.unit)'
      BY <1>6, <2>2, LandedIssued
    <3> HIDE DEF request, m
    <3>2. h \notin copies'[m].into
      BY <1>1, <1>2, <2>2
    <3>3. \A j \in 1 .. Len(copies') : h \in copies'[j].into => Copied' + j <= k.after
      BY <1>1, <1>6, <3>2
    <3> QED  BY <3>1, <3>3 DEF Untouched
  <2> QED  BY <2>1, <2>2
<1> QED  BY <1>5, <1>6 DEF Untouched

(* The place of a kernel in its stream. *)
LEMMA Places ==
    ASSUME CardTypes, Streams, NEW i \in 1 .. Len(kernels)
    PROVE  /\ Run \in Int /\ Run + i \in Int /\ Run < Run + i /\ Run + i <= launched
           /\ kernels[i].from \subseteq Halves /\ kernels[i].call \in Nat
<1> DEFINE n == Len(kernels)
<1>1. n \in Nat /\ launched \in Nat /\ Run = launched - n
  <2>1. kernels \in Seq(Kernels)  BY DEF CardTypes
  <2> QED  BY <2>1 DEF CardTypes, Run
<1>2. i \in 1 .. n
  OBVIOUS
<1> HIDE DEF n
<1>3. Run \in Int /\ Run + i \in Int /\ Run < Run + i /\ Run + i <= launched
  BY <1>1, <1>2
<1> QED  BY <1>3, KernelsAre

(* A step of the host or the loader alone, that keeps clear of what the kernels read. *)
LEMMA ReadingKept ==
    ASSUME CardTypes, Streams, Reading,
           UNCHANGED <<kernels, launched, calls, copies, region, issued>>,
           \A h \in Halves : \A n \in Int :
               n <= launched /\ Guarded(h, n) => Guarded(h, n)'
    PROVE  Reading'
<1>1. Run' = Run
  BY DEF Run
<1>2. ASSUME NEW i \in 1 .. Len(kernels), NEW n \in Int, n = Run + i PROVE Finds(kernels[i], n)'
  <2>1. Finds(kernels[i], n)
    BY <1>2, ReadingAre
  <2>2. /\ n <= launched /\ kernels[i].from \subseteq Halves
    BY <1>2, Places
  <2>3. kernels[i].call = calls =>
           \A h \in kernels[i].from : Untouched(kernels[i], h, n)' /\ Guarded(h, n)'
    BY <2>1, <2>2, UntouchedStays DEF Finds
  <2> QED  BY <2>1, <2>3 DEF Finds
<1>3. \A i \in 1 .. Len(kernels) : Run + i \in Int
  BY Places
<1>4. \A i \in 1 .. Len(kernels) : Finds(kernels[i], Run + i)'
  BY <1>1, <1>2, <1>3
<1> QED  BY <1>4 DEF Reading, Finds

LEMMA ReadingStay ==
    ASSUME IInv, [Next]_vars, "settle" \notin MayFail
    PROVE  Reading'
<1>0. CardTypes /\ CallTypes /\ Streams /\ Channel /\ Turns /\ Lands /\ Reading
  BY DEF IInv
<1>1. /\ requests \in Seq(Requests) /\ reading \in Seq(Requests)
      /\ done \in [Halves -> Nat] /\ launched \in Nat /\ calls \in Nat
  BY <1>0 DEF CardTypes, CallTypes
<1>2. CASE LetGo \/ ReadOneMore \/ Settled \/ Return
  <2>1. /\ UNCHANGED <<kernels, launched, calls, copies, region, issued>>
        /\ UNCHANGED <<requests, reading, done>> /\ pc' = "idle"
    BY <1>2 DEF LetGo, ReadOneMore, Settled, Return, MayChange, call, loader, device, events
  <2>2. \A h, n : Guarded(h, n) => Guarded(h, n)'
    BY <2>1 DEF Guarded
  <2> QED  BY <1>0, <2>1, <2>2, ReadingKept
<1>3. CASE Settle
  <2>1. /\ UNCHANGED <<kernels, launched, calls, copies, region, issued>>
        /\ UNCHANGED <<reading, done>> /\ pc' = "settling"
    BY <1>3 DEF Settle, device, events
  <2>2. PICK m \in 0 .. Len(Candidates) :
          requests' = [i \in 1 .. m |->
              Request(Candidates[i],
                      IF Candidates[i] \in Large THEN Halves ELSE {(i - 1) % 2}, FALSE)]
    BY <1>3, SettleAsks
  <2>3. \A i \in 1 .. Len(requests') : requests'[i].gated = FALSE
    <3>1. m \in Nat  BY GivenAre
    <3> DEFINE halves(i) == IF Candidates[i] \in Large THEN Halves ELSE {(i - 1) % 2}
    <3>2. requests' = [i \in 1 .. m |-> Request(Candidates[i], halves(i), FALSE)]
      BY <2>2
    <3> HIDE DEF halves, Candidates
    <3>3. Len(requests') = m
      BY <3>1, <3>2
    <3> QED  BY <3>2, <3>3 DEF Request
  <2>4. \A h, n : Guarded(h, n) => Guarded(h, n)'
    BY <2>1, <2>3 DEF Guarded
  <2> QED  BY <1>0, <2>1, <2>4, ReadingKept
<1>4. CASE SettleAnswer \/ EnterAnswer \/ Drop \/ End
  <2>1. /\ UNCHANGED <<kernels, launched, copies, region, issued>>
        /\ UNCHANGED <<requests, reading, done>>
    BY <1>4 DEF SettleAnswer, EnterAnswer, Drop, End, loader, device, events
  <2>2. calls' = calls /\ (pc' \in {pc, "failed"} \/ (pc = "entering" /\ pc' = "ending"))
        /\ pc' # "leaving"
    <3>1. CASE SettleAnswer
      <4>1. Head(answers)  BY <1>0, <3>1, SettlesWell DEF SettleAnswer
      <4> QED  BY <3>1, <4>1 DEF SettleAnswer
    <3>2. CASE EnterAnswer \/ Drop \/ End
      BY <3>2 DEF EnterAnswer, Drop, End
    <3> QED  BY <1>4, <3>1, <3>2
  <2>3. \A h, n : Guarded(h, n) => Guarded(h, n)'
    BY <2>1, <2>2 DEF Guarded
  <2> QED  BY <1>0, <2>1, <2>2, <2>3, ReadingKept
<1>5. CASE Begin
  <2>1. UNCHANGED kernels /\ calls' = calls + 1
    BY <1>5 DEF Begin, device
  <2>2. \A i \in 1 .. Len(kernels) : kernels[i].call <= calls /\ kernels[i].call \in Nat
    BY <1>0, KernelsAre DEF Reading
  <2>3. \A i \in 1 .. Len(kernels') : kernels'[i].call <= calls' /\ kernels'[i].call # calls'
    BY <1>1, <2>1, <2>2
  <2> QED  BY <2>3 DEF Reading
<1>6. CASE Ask
  <2>1. /\ UNCHANGED <<kernels, launched, calls, copies, region, issued>>
        /\ UNCHANGED <<reading, done>> /\ pc = "asking" /\ pc' \in {"asking", "entering"}
    BY <1>6 DEF Ask, device, events
  <2>2. UNCHANGED requests \/ \E m : requests' = Append(requests, m)
    BY <1>6 DEF Ask, AskFor
  <2>3. ASSUME NEW h \in Halves, NEW n \in Int, Guarded(h, n) PROVE Guarded(h, n)'
    <3>1. n <= done[h]
      BY <2>1, <2>3 DEF Guarded
    <3> QED  BY <2>1, <3>1 DEF Guarded
  <2> QED  BY <1>0, <2>1, <2>3, ReadingKept
<1>7. CASE Launch
  <2> DEFINE u == Head(run)
             from == IF kept[u] = "read" THEN RegionOf(u) ELSE {}
             kernel == [unit |-> u, call |-> calls, from |-> from, after |-> LoadedAt(u)]
             m == Len(kernels) + 1
  <2>0. PICK k : k = kernel
    OBVIOUS
  <2>1. /\ pc = "entering" /\ run # <<>> /\ kernels' = Append(kernels, k)
        /\ launched' = launched + 1 /\ pc' \in {"leaving", "failed"}
        /\ UNCHANGED <<calls, kept, run, requests, reading, done, copies, region, issued>>
        /\ kept[u] = "read" => ~Loading(u) /\ \E h \in Halves : busy[h] = u
    BY <1>7, <2>0 DEF Launch, model, loader
  <2>2. u \in UnitSet /\ u # None
    BY <1>0, <2>1, Tails, UnitsAre DEF CallTypes
  <2>3. k.unit = u /\ k.call = calls /\ k.from = from /\ k.after = LoadedAt(u)
    BY <2>0
  <2>4. kept[u] = "read" => \A h \in RegionOf(u) :
            h \in Halves /\ busy[h] = u /\ u \notin ToSet(loading) /\ holds[h] = u
    <3> HIDE DEF u
    <3>1. Taking
      BY <1>0, <2>1 DEF Turns, Taking
    <3> QED  BY <2>1, <2>2, <3>1, Regions DEF Taking, Loading
  <2>5. kernels \in Seq(Kernels) /\ k \in Kernels
    <3> HIDE DEF u
    <3>1. from \in SUBSET Halves  BY Regions
    <3>2. LoadedAt(u) \in Nat  BY <1>0, LoadedIs
    <3> HIDE DEF from
    <3>3. k \in Kernels  BY <1>1, <2>0, <2>2, <3>1, <3>2 DEF Kernels
    <3> QED  BY <1>0, <3>3 DEF CardTypes
  <2> HIDE DEF u, from, kernel
  <2>6. /\ Len(kernels') = m /\ kernels'[m] = k /\ m - 1 \in Nat /\ Len(kernels) = m - 1
        /\ \A i \in 1 .. Len(kernels) : kernels'[i] = kernels[i]
        /\ \A i \in 1 .. m : i \in 1 .. Len(kernels) \/ i = m
    BY <2>1, <2>5, Appends
  <2> HIDE DEF m
  <2>7. Run' = Run /\ Run \in Int /\ Run + m = launched + 1
    <3>1. Run = launched - (m - 1) /\ Run' = (launched + 1) - m
      BY <2>1, <2>6 DEF Run
    <3> QED  BY <1>1, <2>6, <3>1
  <2>8. ASSUME NEW i \in 1 .. Len(kernels), NEW n \in Int, n = Run + i
        PROVE  Finds(kernels[i], n)'
    <3>1. Finds(kernels[i], n)
      BY <1>0, <2>8, ReadingAre
    <3>2. \A h \in Halves : Guarded(h, n) => Guarded(h, n)'
      BY <2>1 DEF Guarded
    <3>3. kernels[i].from \subseteq Halves
      BY <1>0, Places
    <3> QED  BY <2>1, <2>6, <3>1, <3>2, <3>3, UntouchedStays DEF Finds
  <2>9. ASSUME NEW h \in from, NEW n \in Int
        PROVE  Untouched(k, h, n)' /\ Guarded(h, n)'
    <3>1. /\ kept[u] = "read" /\ h \in RegionOf(u) /\ h \in Halves /\ busy[h] = u
          /\ u \notin ToSet(loading) /\ holds[h] = u
      BY <2>4, <2>9 DEF from
    <3>2. Landed(h, u)
      BY <1>0, <2>2, <3>1 DEF Lands
    <3>3. ASSUME NEW j \in 1 .. Len(copies), h \in copies[j].into
          PROVE  Copied + j <= k.after
      <4>1. loaded[h] = Copied + j  BY <1>0, <3>3 DEF Streams
      <4>2. loaded[h] <= LoadedAt(u)  BY <1>0, <3>1, LoadedIs
      <4> QED  BY <2>3, <4>1, <4>2
    <3>4. Untouched(k, h, n)'
      <4>1. Untouched(k, h, n)  BY <2>3, <3>2, <3>3 DEF Untouched
      <4> QED  BY <2>1, <4>1, UntouchedStays
    <3>5. \A i \in 1 .. Len(loading) : h \notin RegionOf(loading[i])
      <4>1. Apart  BY <1>0, <2>1 DEF Turns, Apart
      <4>2. \A i \in 1 .. Len(loading) : loading[i] # u
        <5>1. loading \in Seq(UnitSet)  BY <1>0 DEF CallTypes
        <5> QED  BY <3>1, <5>1, Among
      <4> QED  BY <3>1, <4>1, <4>2 DEF Apart
    <3>6. /\ \A j \in 1 .. Len(reading) : ~(h \in reading[j].halves /\ reading[j].gated)
          /\ \A j \in 1 .. Len(requests) : ~(h \in requests[j].halves /\ requests[j].gated)
      <4> DEFINE A == Len(answers)
                 R == Len(reading)
                 Q == Len(requests)
      <4>1. A \in Nat /\ R \in {0, 1} /\ Q \in Nat /\ Len(loading) = A + R + Q
        BY <1>0, ChannelIs
      <4> HIDE DEF A, R, Q
      <4>2. /\ \A j \in 1 .. R : A + j \in 1 .. A + R + Q
            /\ \A j \in 1 .. Q : A + R + j \in 1 .. A + R + Q
        BY <4>1
      <4>3. /\ \A j \in 1 .. R : Asks(reading[j], loading[A + j])
            /\ \A j \in 1 .. Q : Asks(requests[j], loading[A + R + j])
        BY <1>0 DEF Channel, A, R, Q
      <4>4. \A j \in 1 .. R : ~(h \in reading[j].halves /\ reading[j].gated)
        BY <3>5, <4>1, <4>2, <4>3 DEF Asks
      <4>5. \A j \in 1 .. Q : ~(h \in requests[j].halves /\ requests[j].gated)
        BY <3>5, <4>1, <4>2, <4>3 DEF Asks
      <4> QED  BY <4>4, <4>5 DEF R, Q
    <3>7. RegionOf(Head(run))' = RegionOf(u) /\ kept'[Head(run')] = "read"
      BY <2>1, <3>1, SameRegions DEF u
    <3>8. Guarded(h, n)'
      BY <2>1, <3>1, <3>6, <3>7 DEF Guarded
    <3> QED  BY <3>4, <3>8
  <2>10. \A n \in Int : Finds(k, n)'
    BY <1>1, <2>1, <2>3, <2>9 DEF Finds
  <2>11. \A i \in 1 .. Len(kernels') : Finds(kernels[i], Run + i)'
    <3>1. ASSUME NEW i \in 1 .. Len(kernels') PROVE Finds(kernels[i], Run + i)'
      <4>1. Run + i \in Int  BY <2>7
      <4> QED  BY <2>6, <2>7, <2>8, <2>10, <3>1, <4>1
    <3> QED  BY <3>1
  <2> QED  BY <2>11 DEF Reading, Finds
<1>8. CASE Leave
  <2>1. /\ UNCHANGED <<kernels, launched, calls, copies, region, issued>>
        /\ UNCHANGED <<requests, reading, kept>> /\ pc = "leaving"
        /\ \/ /\ kept[Head(run)] = "read" /\ pc' = "asking"
              /\ done' = [h \in Halves |-> IF h \in RegionOf(Head(run)) THEN launched ELSE done[h]]
           \/ kept[Head(run)] # "read" /\ pc' = "entering" /\ done' = done
    BY <1>8 DEF Leave, DoneNow, device, events, model, loader
  <2>2. ASSUME NEW h \in Halves, NEW n \in Int, n <= launched, Guarded(h, n)
        PROVE  Guarded(h, n)'
    <3>1. done[h] <= launched /\ done[h] \in Nat
      BY <1>0, <1>1 DEF Streams
    <3>2. done'[h] = launched \/ (done'[h] = done[h] /\
            ~(kept[Head(run)] = "read" /\ h \in RegionOf(Head(run))))
      BY <2>1
    <3>3. n <= done'[h]
      BY <2>1, <2>2, <3>1, <3>2 DEF Guarded
    <3> QED  BY <2>1, <3>3 DEF Guarded
  <2> QED  BY <1>0, <2>1, <2>2, ReadingKept
<1>9. CASE Take
  <2>1. /\ UNCHANGED <<kernels, launched, calls, copies, region, issued>>
        /\ UNCHANGED <<done, pc, run, kept>>
        /\ requests # <<>> /\ reading' = <<Head(requests)>> /\ requests' = Tail(requests)
    BY <1>9 DEF Take, device, events, model, call
  <2>2. /\ Head(requests) = requests[1] /\ 1 \in 1 .. Len(requests)
        /\ Len(requests') = Len(requests) - 1
        /\ \A i \in 1 .. Len(requests') :
             requests'[i] = requests[i + 1] /\ i + 1 \in 1 .. Len(requests)
    BY <1>1, <2>1, Tails
  <2>3. Len(reading') = 1 /\ reading'[1] = requests[1] /\ \A i \in 1 .. 1 : i = 1
    BY <2>1, <2>2
  <2>4. \A v : RegionOf(v)' = RegionOf(v)
    BY <2>1, SameRegions
  <2>5. ASSUME NEW h \in Halves, NEW n \in Int, Guarded(h, n) PROVE Guarded(h, n)'
    BY <2>1, <2>2, <2>3, <2>4, <2>5 DEF Guarded
  <2> QED  BY <1>0, <2>1, <2>5, ReadingKept
<1>10. CASE LoadFails
  <2>1. /\ UNCHANGED <<kernels, launched, calls, copies, region, issued>>
        /\ UNCHANGED <<done, pc, run, kept, requests>> /\ reading' = <<>>
    BY <1>10 DEF LoadFails, device, events, model, call
  <2>2. 1 .. Len(reading') = {}
    BY <2>1, Empty
  <2>3. \A v : RegionOf(v)' = RegionOf(v)
    BY <2>1, SameRegions
  <2>4. ASSUME NEW h \in Halves, NEW n \in Int, Guarded(h, n) PROVE Guarded(h, n)'
    BY <2>1, <2>2, <2>3, <2>4 DEF Guarded
  <2> QED  BY <1>0, <2>1, <2>4, ReadingKept
<1>11. CASE Load
  <2>1. /\ UNCHANGED <<kernels, launched, calls, done, pc, run, kept, requests>>
        /\ reading # <<>> /\ reading' = <<>>
    BY <1>0, <1>11, CopyIssued DEF model, call
  <2>2. 1 .. Len(reading') = {}
    BY <2>1, Empty
  <2>3. \A v : RegionOf(v)' = RegionOf(v)
    BY <2>1, SameRegions
  <2>4. ASSUME NEW h \in Halves, NEW n \in Int, Guarded(h, n) PROVE Guarded(h, n)'
    BY <2>1, <2>2, <2>3, <2>4 DEF Guarded
  <2>5. ASSUME NEW h \in Halves, NEW n \in Int, Guarded(h, n)
        PROVE  h \in Head(reading).halves /\ Head(reading).gated => n <= done[h]
    <3>1. Head(reading) = reading[1] /\ Len(reading) = 1  BY <1>0, <2>1, ReadingIs
    <3>2. 1 \in 1 .. Len(reading)  BY <3>1
    <3> QED  BY <2>5, <3>1, <3>2 DEF Guarded
  <2>6. \A k : \A h \in Halves : \A n \in Int :
            Untouched(k, h, n) /\ Guarded(h, n) => Untouched(k, h, n)'
    BY <1>0, <1>11, <2>5, UntouchedIssued
  <2>7. Run' = Run
    BY <2>1 DEF Run
  <2>8. ASSUME NEW i \in 1 .. Len(kernels), NEW n \in Int, n = Run + i
        PROVE  Finds(kernels[i], n)'
    <3>1. Finds(kernels[i], n)
      BY <1>0, <2>8, ReadingAre
    <3>2. kernels[i].from \subseteq Halves
      BY <1>0, Places
    <3> QED  BY <2>1, <2>4, <2>6, <3>1, <3>2 DEF Finds
  <2>9. \A i \in 1 .. Len(kernels) : Run + i \in Int
    BY <1>0, Places
  <2>10. \A i \in 1 .. Len(kernels') : Finds(kernels[i], Run + i)'
    BY <2>1, <2>7, <2>8, <2>9
  <2> QED  BY <2>10 DEF Reading, Finds
<1>12. CASE Kernel
  <2>1. /\ kernels # <<>> /\ kernels' = Tail(kernels)
        /\ UNCHANGED <<launched, calls, done, pc, run, kept, requests, reading>>
        /\ UNCHANGED <<copies, region, issued>>
    BY <1>12 DEF Kernel, events, model, call, loader
  <2>2. kernels \in Seq(Kernels)
    BY <1>0 DEF CardTypes
  <2>3. /\ Len(kernels') = Len(kernels) - 1 /\ Len(kernels) \in Nat
        /\ \A i \in 1 .. Len(kernels') : kernels'[i] = kernels[i + 1] /\ i + 1 \in 1 .. Len(kernels)
    BY <2>1, <2>2, Tails
  <2>4. Run' = Run + 1 /\ Run \in Int
    <3> DEFINE m == Len(kernels)
    <3>1. Run = launched - m /\ Run' = launched - (m - 1)
      BY <2>1, <2>3 DEF Run
    <3>2. m \in Nat  BY <2>3
    <3> HIDE DEF m
    <3> QED  BY <1>1, <3>1, <3>2
  <2>5. \A v : RegionOf(v)' = RegionOf(v)
    BY <2>1, SameRegions
  <2>6. \A h, n : Guarded(h, n)' <=> Guarded(h, n)
    BY <2>1, <2>5 DEF Guarded
  <2>7. \A k, n : Finds(k, n) => Finds(k, n)'
    BY <2>1, <2>6, UntouchedStays DEF Finds
  <2>8. \A i \in 1 .. Len(kernels') : Finds(kernels[i], Run + i)'
    <3>1. ASSUME NEW i \in 1 .. Len(kernels') PROVE Finds(kernels[i], Run + i)'
      <4>1. Run' + i = Run + (i + 1)
        <5>1. i \in Int  OBVIOUS
        <5> QED  BY <2>4, <5>1
      <4>2. Finds(kernels[i + 1], Run + (i + 1))
        BY <1>0, <2>3, ReadingAre
      <4>3. Finds(kernels'[i], Run' + i)
        BY <2>3, <4>1, <4>2
      <4> QED  BY <2>7, <4>3
    <3> QED  BY <3>1
  <2> QED  BY <2>8 DEF Reading, Finds
<1>13. CASE Copy
  <2>1. UNCHANGED <<kernels, calls, done, pc, run, kept, requests, reading>> /\ Run' = Run
    BY <1>0, <1>13, CopyDone DEF model, call, loader, events
  <2>2. \A v : RegionOf(v)' = RegionOf(v)
    BY <2>1, SameRegions
  <2>3. \A h, n : Guarded(h, n)' <=> Guarded(h, n)
    BY <2>1, <2>2 DEF Guarded
  <2>4. \A k : \A h \in Halves : \A n \in Int :
            Untouched(k, h, n) /\ Run < n => Untouched(k, h, n)'
    BY <1>0, <1>13, UntouchedCopied
  <2>5. ASSUME NEW i \in 1 .. Len(kernels), NEW n \in Int, n = Run + i
        PROVE  Finds(kernels[i], n)'
    <3>1. Finds(kernels[i], n)
      BY <1>0, <2>5, ReadingAre
    <3>2. kernels[i].from \subseteq Halves /\ Run < n
      BY <1>0, <2>5, Places
    <3> QED  BY <2>1, <2>3, <2>4, <3>1, <3>2 DEF Finds
  <2>6. \A i \in 1 .. Len(kernels) : Run + i \in Int
    BY <1>0, Places
  <2>7. \A i \in 1 .. Len(kernels') : Finds(kernels[i], Run + i)'
    BY <2>1, <2>5, <2>6
  <2> QED  BY <2>7 DEF Reading, Finds
<1>14. CASE UNCHANGED vars
  <2>1. /\ UNCHANGED <<kernels, launched, calls, copies, region, issued>>
        /\ UNCHANGED <<done, pc, run, kept, requests, reading>>
    BY <1>14 DEF vars, model, call, loader, device, events
  <2>2. \A v : RegionOf(v)' = RegionOf(v)
    BY <2>1, SameRegions
  <2>3. \A h, n : Guarded(h, n) => Guarded(h, n)'
    BY <2>1, <2>2 DEF Guarded
  <2> QED  BY <1>0, <2>1, <2>3, ReadingKept
<1> QED  BY <1>2, <1>3, <1>4, <1>5, <1>6, <1>7, <1>8, <1>9, <1>10, <1>11, <1>12, <1>13, <1>14
         DEF Next, Host, Loader

-------------------------------------------------------------------------------
(* What is kept back.                                                        *)

LEMMA BroughtCopied ==
    ASSUME CardTypes, Streams, Copy, NEW u, Brought(u)
    PROVE  Brought(u)'
<1>1. CASE u \in buffer
  BY <1>1, CopyDone DEF Brought
<1>2. CASE \E i \in 1 .. Len(copies) : copies[i].unit = u /\ copies[i].into = {}
  <2>1. PICK i \in 1 .. Len(copies) : copies[i].unit = u /\ copies[i].into = {}
    BY <1>2
  <2>2. CASE i = 1
    BY <2>1, <2>2, CopyDone DEF Brought
  <2>3. CASE i # 1
    <3>1. i - 1 \in 1 .. Len(copies')  BY <2>3, CopyDone
    <3>2. copies'[i - 1] = copies[i]
      <4>1. (i - 1) + 1 = i  OBVIOUS
      <4> QED  BY <3>1, <4>1, CopyDone
    <3> QED  BY <2>1, <3>1, <3>2 DEF Brought
  <2> QED  BY <2>2, <2>3
<1> QED  BY <1>1, <1>2 DEF Brought

LEMMA BacksStay ==
    ASSUME IInv, [Next]_vars, "settle" \notin MayFail
    PROVE  Backs'
<1>0. CardTypes /\ CallTypes /\ Streams /\ Channel /\ Backs
  BY DEF IInv
<1>1. /\ \A u \in UnitSet : kept[u] = "buffer" => u \in buffer
      /\ \A i \in 1 .. Len(copies) : copies[i].into = {} => pc = "settling"
      /\ pc = "settling" => /\ \A i \in 1 .. Len(queue) : Brought(queue[i])
                            /\ \A i \in 1 .. Len(answers) : Brought(loading[i])
      /\ kept \in [UnitSet -> {"tensors", "buffer", "read"}]
  BY <1>0 DEF Backs, CallTypes
<1>2. CASE LetGo
  <2>1. pc = "idle" /\ pc' = "idle" /\ copies' = copies /\ \A u \in UnitSet : kept'[u] = "read"
    BY <1>2 DEF LetGo, MayChange, call
  <2> QED  BY <1>1, <2>1 DEF Backs
<1>3. CASE ReadOneMore
  <2>1. pc = "idle" /\ pc' = "idle" /\ UNCHANGED <<copies, buffer>>
    BY <1>3 DEF ReadOneMore, MayChange, call, device
  <2>2. \A u \in UnitSet : kept'[u] = "read" \/ kept'[u] = kept[u]
    BY <1>1, <1>3 DEF ReadOneMore
  <2> QED  BY <1>1, <2>1, <2>2 DEF Backs
<1>4. CASE Settle
  <2>1. /\ pc = "idle" /\ pc' = "settling" /\ UNCHANGED <<copies, buffer, kept, answers>>
        /\ queue' = <<>>
    BY <1>4 DEF Settle, model, device
  <2>2. answers = <<>>
    BY <1>0, <2>1, ChannelIs DEF Channel
  <2>3. 1 .. Len(queue') = {} /\ 1 .. Len(answers') = {}
    BY <2>1, <2>2, Empty
  <2> QED  BY <1>1, <2>1, <2>3 DEF Backs
<1>5. CASE SettleAnswer
  <2> DEFINE u == Head(loading)
             n == Len(queue) + 1
  <2>1. /\ pc = "settling" /\ answers # <<>> /\ answers' = Tail(answers) /\ loading # <<>>
        /\ UNCHANGED <<copies, buffer, kept, requests, reading>>
    BY <1>5 DEF SettleAnswer, model, device
  <2>2. loading' = Tail(loading) /\ queue' = Append(queue, u) /\ pc' = pc
    BY <1>0, <1>5, <2>1, SettlesWell DEF SettleAnswer
  <2>3. /\ Len(answers') = Len(answers) - 1 /\ 1 \in 1 .. Len(answers)
        /\ u = loading[1]
        /\ \A i \in 1 .. Len(loading') : loading'[i] = loading[i + 1]
        /\ \A i \in 1 .. Len(answers') : i + 1 \in 1 .. Len(answers) /\ i \in 1 .. Len(loading')
    BY <2>1, <2>2, AnswerTaken
  <2>4. Brought(u)
    BY <1>1, <2>1, <2>3
  <2>5. /\ Len(queue') = n /\ queue'[n] = u
        /\ \A i \in 1 .. Len(queue) : queue'[i] = queue[i]
        /\ \A i \in 1 .. n : i \in 1 .. Len(queue) \/ i = n
    <3>1. queue \in Seq(UnitSet) /\ u \in UnitSet
      BY <1>0, <2>1, Tails DEF CallTypes
    <3> HIDE DEF u
    <3> QED  BY <2>2, <3>1, Appends
  <2> HIDE DEF u, n
  <2>6. \A v : Brought(v)' <=> Brought(v)
    BY <2>1 DEF Brought
  <2>7. \A i \in 1 .. Len(queue') : Brought(queue[i])'
    BY <1>1, <2>1, <2>4, <2>5, <2>6
  <2>8. \A i \in 1 .. Len(answers') : Brought(loading[i])'
    BY <1>1, <2>1, <2>3, <2>6
  <2> QED  BY <1>1, <2>1, <2>2, <2>7, <2>8 DEF Backs
<1>6. CASE Settled
  <2>1. /\ pc = "settling" /\ pc' = "idle" /\ copies = <<>> /\ UNCHANGED <<copies, buffer>>
        /\ kept' = [u \in UnitSet |-> IF u \in ToSet(queue) THEN "buffer" ELSE kept[u]]
    BY <1>6 DEF Settled, device
  <2>2. 1 .. Len(copies) = {}
    BY <2>1, Empty
  <2>3. \A i \in 1 .. Len(queue) : queue[i] \in buffer
    BY <1>1, <2>1, <2>2 DEF Brought
  <2>4. \A u \in ToSet(queue) : u \in buffer
    <3>1. queue \in Seq(UnitSet)  BY <1>0 DEF CallTypes
    <3> QED  BY <2>3, <3>1, Among
  <2>5. \A u \in UnitSet : kept'[u] = "buffer" => u \in buffer'
    BY <1>1, <2>1, <2>4
  <2> QED  BY <2>1, <2>2, <2>5 DEF Backs
<1>7. CASE \/ Begin \/ Ask \/ EnterAnswer \/ Launch \/ Leave \/ End \/ Drop \/ Return
  <2>1. pc # "settling" /\ pc' # "settling" /\ UNCHANGED <<copies, buffer, kept>>
    BY <1>7 DEF Begin, Ask, EnterAnswer, Launch, Leave, End, Drop, Return, model, device
  <2> QED  BY <1>1, <2>1 DEF Backs
<1>8. CASE Take \/ Kernel \/ UNCHANGED vars
  <2>1. UNCHANGED <<pc, copies, buffer, kept, queue, answers, loading>>
    BY <1>8 DEF Take, Kernel, vars, model, call, device, loader
  <2> QED  BY <1>1, <2>1 DEF Backs, Brought
<1>9. CASE LoadFails
  <2>1. /\ reading # <<>> /\ UNCHANGED <<pc, copies, buffer, kept>> /\ Head(reading).gated
    BY <1>9 DEF LoadFails, model, call, device
  <2>2. pc # "settling"
    BY <1>0, <2>1, ReadingIs DEF Asks
  <2> QED  BY <1>1, <2>1, <2>2 DEF Backs
<1>10. CASE Load
  <2> DEFINE request == Head(reading)
             A == Len(answers)
             n == Len(copies) + 1
  <2>1. /\ reading # <<>> /\ reading' = <<>> /\ answers' = Append(answers, TRUE)
        /\ UNCHANGED <<loading, requests, kept, pc, queue, buffer>>
    BY <1>0, <1>10, CopyIssued DEF model, call
  <2>2. /\ Asks(request, loading[A + 1])
        /\ \A i \in 1 .. Len(answers') : i \in 1 .. A \/ i = A + 1
    <3>1. TRUE \in BOOLEAN /\ (pc = "settling" => TRUE)  OBVIOUS
    <3> QED  BY <2>1, <3>1, AnswerGiven
  <2>3. request.gated \in BOOLEAN /\ (request.gated => request.halves # {})
    BY <1>0, <2>1, ReadingIs
  <2>4. /\ \A i \in 1 .. Len(copies) : copies'[i] = copies[i] /\ i \in 1 .. Len(copies')
        /\ \A i \in 1 .. Len(copies') : i \in 1 .. Len(copies) \/ i = n
        /\ n \in 1 .. Len(copies')
        /\ copies'[n].unit = request.unit
        /\ request.gated => copies'[n].into = request.halves
        /\ ~request.gated => copies'[n].into = {}
    BY <1>0, <1>10, CopyIssued
  <2> HIDE DEF request, A, n
  <2>5. \A v : Brought(v) => Brought(v)'
    BY <2>1, <2>4 DEF Brought
  <2>6. \A i \in 1 .. Len(copies') : copies'[i].into = {} => pc' = "settling"
    BY <1>1, <2>1, <2>2, <2>3, <2>4 DEF Asks
  <2>7. ASSUME pc = "settling" PROVE \A v : v = loading[A + 1] => Brought(v)'
    <3>1. request.unit = loading[A + 1] /\ ~request.gated
      BY <2>2, <2>7 DEF Asks
    <3>2. \A v : v = request.unit => Brought(v)'
      BY <2>4, <3>1 DEF Brought
    <3> QED  BY <3>1, <3>2
  <2>8. pc' = "settling" => /\ \A i \in 1 .. Len(queue') : Brought(queue[i])'
                            /\ \A i \in 1 .. Len(answers') : Brought(loading[i])'
    <3>1. ASSUME NEW i \in 1 .. Len(answers'), pc = "settling" PROVE Brought(loading[i])'
      <4>1. i \in 1 .. A => Brought(loading[i])  BY <1>1, <3>1 DEF A
      <4>2. \A v : v = loading[i] => Brought(v)'  BY <2>2, <2>5, <2>7, <3>1, <4>1
      <4> QED  BY <2>1, <4>2
    <3>2. ASSUME NEW i \in 1 .. Len(queue'), pc = "settling" PROVE Brought(queue[i])'
      BY <1>1, <2>1, <2>5, <3>2
    <3> QED  BY <2>1, <3>1, <3>2
  <2> QED  BY <1>1, <2>1, <2>6, <2>8 DEF Backs
<1>11. CASE Copy
  <2>1. UNCHANGED <<pc, kept, queue, answers, loading>> /\ buffer \subseteq buffer'
    BY <1>0, <1>11, CopyDone DEF model, call, loader
  <2>2. \A v : Brought(v) => Brought(v)'
    BY <1>0, <1>11, BroughtCopied
  <2>3. \A i \in 1 .. Len(copies') : copies'[i].into = {} => pc' = "settling"
    BY <1>0, <1>1, <1>11, <2>1, CopyDone
  <2>4. pc' = "settling" => /\ \A i \in 1 .. Len(queue') : Brought(queue[i])'
                            /\ \A i \in 1 .. Len(answers') : Brought(loading[i])'
    BY <1>1, <2>1, <2>2
  <2> QED  BY <1>1, <2>1, <2>3, <2>4 DEF Backs
<1> QED  BY <1>2, <1>3, <1>4, <1>5, <1>6, <1>7, <1>8, <1>9, <1>10, <1>11
         DEF Next, Host, Loader

-------------------------------------------------------------------------------
(* The invariant.                                                            *)

LEMMA Starting ==
    ASSUME Init
    PROVE  IInv
<1>1. /\ kept = [u \in UnitSet |-> "tensors"] /\ holds = Nobody /\ pc = "idle"
      /\ run = <<>> /\ queue = <<>> /\ busy = Nobody /\ loading = <<>> /\ calls = 0
      /\ requests = <<>> /\ answers = <<>> /\ reading = <<>> /\ pinned = Nobody
      /\ kernels = <<>> /\ copies = <<>> /\ launched = 0 /\ issued = 0
      /\ done = [h \in Halves |-> 0] /\ loaded = [h \in Halves |-> 0]
      /\ region = Nobody /\ buffer = {}
  BY DEF Init, Starts
<1>2. \A s : s = <<>> => 1 .. Len(s) = {} /\ Len(s) = 0
  BY Empty
<1>3. Nobody \in [Halves -> Int] /\ \A h \in Halves : Nobody[h] = None
  BY UnitsAre DEF Nobody
<1>4. CallTypes
  BY <1>1, <1>3, Empty DEF CallTypes
<1>5. CardTypes
  BY <1>1, <1>3, Empty DEF CardTypes
<1>6. Streams
  BY <1>1, <1>2 DEF Streams, Copied
<1>7. Channel
  BY <1>1, <1>2 DEF Channel
<1>8. Turns
  BY <1>1, <1>2 DEF Turns
<1>9. Lands
  BY <1>1, <1>2, <1>3 DEF Lands
<1>10. Reading
  BY <1>1, <1>2 DEF Reading
<1>11. Backs
  BY <1>1, <1>2 DEF Backs
<1> QED  BY <1>4, <1>5, <1>6, <1>7, <1>8, <1>9, <1>10, <1>11 DEF IInv

LEMMA Inductive ==
    ASSUME "settle" \notin MayFail
    PROVE  Spec => []IInv
<1>1. Init => IInv
  BY Starting
<1>2. IInv /\ [Next]_vars => IInv'
  <2>1. ASSUME IInv, [Next]_vars PROVE IInv'
    BY <2>1, CallTypesStay, CardTypesStay, StreamsStay, ChannelStays, TurnsStay, LandsStay,
       ReadingStay, BacksStay DEF IInv
  <2> QED  BY <2>1
<1> QED  BY <1>1, <1>2, PTL DEF Spec

LEMMA KernelsFind == IInv => KernelsReadTheirUnit
<1>1. SUFFICES ASSUME IInv, kernels # <<>>, Head(kernels).call = calls,
                      Head(kernels).after <= Copied, NEW h \in Head(kernels).from
               PROVE  region[h] = Head(kernels).unit
  BY DEF KernelsReadTheirUnit
<1> DEFINE k == Head(kernels)
<1>2. CardTypes /\ Streams /\ Reading /\ kernels \in Seq(Kernels) /\ issued \in Nat
  BY <1>1 DEF IInv, CardTypes
<1>3. k = kernels[1] /\ 1 \in 1 .. Len(kernels)
  BY <1>1, <1>2, Tails
<1>4. Untouched(k, h, Run + 1) /\ Run \in Int /\ k.after \in Nat
  BY <1>1, <1>2, <1>3, Places, KernelsAre DEF Reading
<1> HIDE DEF k
<1>5. Copied \in Int
  <2>1. Len(copies) \in Nat
    <3>1. copies \in Seq(Copies)  BY <1>2 DEF CardTypes
    <3> QED  BY <3>1
  <2> QED  BY <1>2, <2>1 DEF Copied
<1>6. CASE /\ Landed(h, k.unit)
           /\ \A j \in 1 .. Len(copies) : h \in copies[j].into => Copied + j <= k.after
  <2>1. \A j \in 1 .. Len(copies) : ~(Copied + j <= Copied) /\ Copied + j \in Int
    BY <1>5
  <2>2. \A j \in 1 .. Len(copies) : h \notin copies[j].into
    <3>1. k.after <= Copied  BY <1>1 DEF k
    <3>2. \A j \in 1 .. Len(copies) : Copied + j <= k.after => Copied + j <= Copied
      BY <1>4, <1>5, <2>1, <3>1
    <3> QED  BY <1>6, <2>1, <3>2
  <2> QED  BY <1>6, <2>2 DEF Landed, k
<1>7. CASE region[h] = k.unit
  BY <1>7 DEF k
<1> QED  BY <1>4, <1>6, <1>7 DEF Untouched

LEMMA WhatItSays == IInv => HoldsWhatItSays
<1>1. SUFFICES ASSUME IInv, NEW h \in Halves, holds[h] # None, loaded[h] <= Copied
               PROVE  region[h] = holds[h]
  BY DEF HoldsWhatItSays, IInv, Backs
<1>2. CardTypes /\ Streams /\ Lands /\ loaded[h] \in Nat /\ issued \in Nat /\ copies \in Seq(Copies)
  BY <1>1 DEF IInv, CardTypes
<1>3. Copied \in Int
  <2>1. Len(copies) \in Nat  BY <1>2
  <2> QED  BY <1>2, <2>1 DEF Copied
<1>4. ASSUME NEW i \in 1 .. Len(copies) PROVE h \notin copies[i].into
  <2>1. h \in copies[i].into => loaded[h] = Copied + i  BY <1>2 DEF Streams
  <2>2. ~(Copied + i <= Copied)  BY <1>3
  <2> QED  BY <1>1, <2>1, <2>2
<1> QED  BY <1>1, <1>2, <1>4 DEF Lands, Landed

LEMMA NothingIsOwed == IInv => NothingOwed
<1>1. SUFFICES ASSUME IInv, pc = "idle" PROVE requests = <<>> /\ answers = <<>> /\ reading = <<>>
  BY DEF NothingOwed
<1>2. loading = <<>>
  BY <1>1 DEF IInv, Channel
<1> QED  BY <1>1, <1>2, ChannelIs

-------------------------------------------------------------------------------
(* A kernel that may start, of a call that is not given up, finds the weights *)
(* of its own unit in the regions it reads, however the host, the loader and  *)
(* the two streams take turns, and whatever order a call runs the units in.   *)
THEOREM KernelsFindTheirUnit ==
    ASSUME "settle" \notin MayFail
    PROVE  Spec => []KernelsReadTheirUnit
  BY Inductive, KernelsFind, PTL

(* A unit that counts as kept back was copied there whole, and a region that  *)
(* counts as holding a unit does once the copies under way have landed: a     *)
(* call that reads neither again runs from what is there.                     *)
THEOREM WhatIsHeldIsThere ==
    ASSUME "settle" \notin MayFail
    PROVE  Spec => []HoldsWhatItSays
  BY Inductive, WhatItSays, PTL

(* Between two calls the loader has nothing left to read and nothing left to  *)
(* answer, whether the call before ended or failed.                           *)
THEOREM CallsOweNothing ==
    ASSUME "settle" \notin MayFail
    PROVE  Spec => []NothingOwed
  BY Inductive, NothingIsOwed, PTL
===============================================================================
