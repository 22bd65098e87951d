-------------------------- MODULE MetalStreamingProofs --------------------------
(***************************************************************************)
(* That every operation on the GPU reads the weights, the buffer the host  *)
(* filled and the output it was encoded over, for any number of units,     *)
(* calls, patches, regions, batches in flight and buffers, whichever units *)
(* are kept back, and whatever of what MetalStreaming lets fail does.      *)
(*                                                                         *)
(* The invariant has two parts that do not touch.  Of the regions: what is *)
(* held is not read over (HeldStays, TensorsHold), what was asked for is   *)
(* what comes (Asked), and a region is at one place at a time: spare, to   *)
(* be read into, read, or under a unit's tensors (OneTaker, OwnUnits,      *)
(* OneAsk).  Of the buffers: operations run in the order of their kernels  *)
(* (InOrder, AllPast), a buffer is in one list of the pool's at most       *)
(* (OnePlace), none that may still be read is free (FreeOfUse), which the  *)
(* order of the batches says of those that are let go of later (Numbered), *)
(* and so each operation finds its own input and the output of the one     *)
(* before it, or that one is still to run (OwnInput, Apart, Chained).      *)
(***************************************************************************)
EXTENDS MetalStreaming, FiniteSetTheorems, WellFoundedInduction, TLAPS

-------------------------------------------------------------------------------
(* Where things may stand *)

RegionSet == Turns \cup {Own(u) : u \in MetalUnits}
Places == RegionSet \cup {Nowhere}
Written == MetalUnits \X Nat
Operations == [region : RegionSet, unit : Written, kernel : Nat \X MetalUnits, input : Buffers,
               from : Buffers \cup {NoBuffer}, out : Buffers]

Hosts == [at : {"idle", "settle", "settling", "open", "request", "enter", "starved", "encode",
                "leave", "read", "ending", "failing"},
          call : Nat, unit : MetalUnits, work : Nat, limit : Nat, batch : Nat,
          then : {"enter", "encode"}, from : Buffers \cup {NoBuffer}]
Streams == [kept : SUBSET MetalUnits, there : SUBSET MetalUnits, settled : Nat,
            spare : Seq(RegionSet), used : Seq(RegionSet), regions : Int, version : Nat,
            patches : Nat]
Passes == [queue : Seq(MetalUnits), next : Nat \ {0}, loading : Seq(MetalUnits),
           ready : [MetalUnits -> Places]]
Readers == [requests : Seq([unit : MetalUnits, region : RegionSet]), answers : Seq(Places)]

HostTypes ==
    /\ host \in Hosts /\ stream \in Streams /\ pass \in Passes /\ reader \in Readers
    /\ content \in [RegionSet -> Written \cup {Torn, <<0, 1>>}]
    /\ tensors \in [MetalUnits -> Places]
GpuTypes ==
    /\ encoding \in Seq(Operations)
    /\ batches \in Seq([number : Nat, ops : Seq(Operations), ran : Nat])
    /\ \A k \in DOMAIN batches : batches[k].ran <= Len(batches[k].ops)
    /\ waits \in Seq([number : Nat, retired : Seq(Buffers)])
    /\ pool \in [free : Seq(Buffers), retired : Seq(Buffers)]
    /\ data \in [Buffers -> Nat \X Nat]

-------------------------------------------------------------------------------
(* The regions *)

(* No pass is open, and: the tensors of the unit the host is at are those to encode over. *)
Settling == host.at \in {"idle", "settle", "settling", "open"}
Entered == host.at = "encode" \/ (host.at = "request" /\ host.then = "encode")

(* What batches hold, those that are done too until they are let go of, is as it was. *)
Held == ToSet(encoding) \cup UNION {ToSet(batches[k].ops) : k \in DOMAIN batches}
HeldStays == \A op \in Held : content[op.region] = op.unit

(* What a unit's tensors lie over is a unit's, and the unit's as it is now where the stream
   says it is there, or the host is about to encode over it.                               *)
TensorsHold ==
    /\ \A u \in MetalUnits : tensors[u] # Nowhere => content[tensors[u]] \in Written
    /\ \A u \in stream.there : tensors[u] # Nowhere /\ content[tensors[u]] = Inside(u)
    /\ Entered => tensors[host.unit] # Nowhere /\ content[tensors[host.unit]] = Inside(host.unit)

(* What the host waits for has been read or is asked for, in this order. *)
Asked ==
    /\ Len(pass.loading) = Len(reader.answers) + Len(reader.requests)
    /\ \A j \in DOMAIN reader.requests :
         reader.requests[j].unit = pass.loading[Len(reader.answers) + j]
    /\ \A j \in DOMAIN reader.answers :
         reader.answers[j] # Nowhere => content[reader.answers[j]] = Inside(pass.loading[j])
    /\ \A u \in MetalUnits : pass.ready[u] # Nowhere => content[pass.ready[u]] = Inside(u)

ToRead(r) == \E j \in DOMAIN reader.requests : reader.requests[j].region = r
ReadInto(r) == r \in ToSet(reader.answers) \/ \E u \in MetalUnits : pass.ready[u] = r
Spared(r) == r \in ToSet(stream.spare) \cup ToSet(stream.used)

(* A region to be read into is one request's, and neither read nor spare, nor is one read
   spare; and a region is spare once.                                                     *)
OneTaker ==
    /\ \A i, j \in DOMAIN reader.requests :
         reader.requests[i].region = reader.requests[j].region => i = j
    /\ \A r \in RegionSet : ToRead(r) => ~ReadInto(r)
    /\ \A r \in RegionSet : Spared(r) => ~ToRead(r) /\ ~ReadInto(r)
    /\ IsInjective(stream.spare) /\ IsInjective(stream.used)
    /\ ToSet(stream.spare) \cap ToSet(stream.used) = {}

(* The region of a unit kept back is read into for that unit alone. *)
OwnUnits ==
    /\ ToSet(stream.spare) \cup ToSet(stream.used) \subseteq Turns
    /\ \A j \in DOMAIN reader.requests :
         \/ reader.requests[j].region \in Turns
         \/ /\ reader.requests[j].region = Own(reader.requests[j].unit)
            /\ reader.requests[j].unit \in stream.kept
    /\ \A j \in DOMAIN reader.answers :
         \/ reader.answers[j] \in Turns \cup {Nowhere}
         \/ reader.answers[j] = Own(pass.loading[j]) /\ pass.loading[j] \in stream.kept
    /\ \A u \in MetalUnits :
         \/ pass.ready[u] \in Turns \cup {Nowhere}
         \/ pass.ready[u] = Own(u) /\ u \in stream.kept

(* A unit is asked for once in a pass, and none is while no pass is open. *)
OneAsk ==
    /\ IsInjective(pass.queue) /\ IsInjective(pass.loading)
    /\ \A i \in DOMAIN pass.loading : pass.ready[pass.loading[i]] = Nowhere
    /\ \A i \in DOMAIN pass.queue : i >= pass.next =>
         pass.queue[i] \notin ToSet(pass.loading) /\ pass.ready[pass.queue[i]] = Nowhere
    /\ Settling => pass.loading = <<>> /\ pass.ready = NoPass.ready
    /\ host.at = "starved" =>
         /\ pass.loading = <<>> /\ pass.ready[host.unit] = Nowhere
         /\ pass.queue[pass.next] = host.unit

RegionsInv == HeldStays /\ TensorsHold /\ Asked /\ OneTaker /\ OwnUnits /\ OneAsk

-------------------------------------------------------------------------------
(* The buffers *)

Before(a, b) == a[1] < b[1] \/ (a[1] = b[1] /\ a[2] < b[2])
Pred(kernel) == <<kernel[1], kernel[2] - 1>>
Uses(op) == {op.input, op.from, op.out}

(* The operations still to run. *)
Pending ==
    ToSet(encoding)
    \cup UNION {{batches[k].ops[j] : j \in batches[k].ran + 1 .. Len(batches[k].ops)}
                  : k \in DOMAIN batches}

(* They run in the order of their kernels, batch after batch, ... *)
InOrder ==
    /\ \A i, j \in DOMAIN encoding : i < j => Before(encoding[i].kernel, encoding[j].kernel)
    /\ \A k \in DOMAIN batches : \A i, j \in DOMAIN batches[k].ops :
         i < j => Before(batches[k].ops[i].kernel, batches[k].ops[j].kernel)
    /\ \A k \in DOMAIN batches : \A i \in DOMAIN batches[k].ops : \A j \in DOMAIN encoding :
         Before(batches[k].ops[i].kernel, encoding[j].kernel)
    /\ \A k, l \in DOMAIN batches : k < l =>
         \A i \in DOMAIN batches[k].ops : \A j \in DOMAIN batches[l].ops :
           Before(batches[k].ops[i].kernel, batches[l].ops[j].kernel)

(* ... and the host is past all of them. *)
Past(kernel) ==
    /\ kernel[1] <= host.call
    /\ host.at \in {"settle", "settling", "open"} => kernel[1] < host.call
    /\ host.at \in {"request", "enter", "starved", "encode"} => Before(kernel, MetalKernel)
    /\ host.at = "leave" => kernel[1] < host.call \/ kernel[2] <= host.unit
AllPast ==
    /\ \A k \in DOMAIN encoding : Past(encoding[k].kernel)
    /\ \A k \in DOMAIN batches : \A j \in DOMAIN batches[k].ops : Past(batches[k].ops[j].kernel)

(* A batch that is not done is waited for, under its number, in order. *)
Numbered ==
    /\ \A k \in DOMAIN batches : batches[k].number <= host.batch
    /\ \A k \in DOMAIN waits : waits[k].number <= host.batch
    /\ \A k, l \in DOMAIN waits : k < l => waits[k].number < waits[l].number
    /\ \A k \in DOMAIN batches : batches[k].ran < Len(batches[k].ops) =>
         \E l \in DOMAIN waits : waits[l].number = batches[k].number
    /\ host.at \in {"settling", "starved", "ending"} => encoding = <<>> /\ host.limit = 0

(* A buffer is free, retired or held back by a wait, once, and the host's own is none of it. *)
Pooled(b) == b \in ToSet(pool.free) \/ b \in ToSet(pool.retired)
             \/ \E k \in DOMAIN waits : b \in ToSet(waits[k].retired)
OnePlace ==
    /\ IsInjective(pool.free) /\ IsInjective(pool.retired)
    /\ \A k \in DOMAIN waits : IsInjective(waits[k].retired)
    /\ ToSet(pool.free) \cap ToSet(pool.retired) = {}
    /\ \A k \in DOMAIN waits :
         ToSet(waits[k].retired) \cap (ToSet(pool.free) \cup ToSet(pool.retired)) = {}
    /\ \A k, l \in DOMAIN waits : k # l =>
         ToSet(waits[k].retired) \cap ToSet(waits[l].retired) = {}
    /\ ~Pooled(host.from)

(* What an operation still to run uses is not free, nor held back by the wait for a batch
   before its own.                                                                        *)
FreeOfUse ==
    /\ \A op \in Pending : \A b \in Uses(op) : b \notin ToSet(pool.free)
    /\ \A k \in DOMAIN waits : \A b \in ToSet(waits[k].retired) :
         /\ \A j \in DOMAIN encoding : b \notin Uses(encoding[j])
         /\ \A l \in DOMAIN batches : waits[k].number < batches[l].number =>
              \A j \in batches[l].ran + 1 .. Len(batches[l].ops) :
                b \notin Uses(batches[l].ops[j])

(* Each operation finds what the host filled for it, which no other uses, ... *)
Apart == \A o, p \in Pending : o # p => o.input \notin Uses(p)
OwnInput == \A o \in Pending : o.input \notin {o.from, o.out} /\ data[o.input] = o.kernel

(* ... and what the unit before it put out, unless that is still to run. *)
Earlier(o, p) == Before(o.kernel, p.kernel)
Chained ==
    \A p \in Pending : p.from # NoBuffer =>
       \/ \E o \in Pending : o.kernel = Pred(p.kernel) /\ o.out = p.from
       \/ data[p.from] = Pred(p.kernel) /\ \A q \in Pending : q = p \/ Earlier(p, q)

(* So it is with the buffer the host has for the unit to come. *)
LastKernel == IF host.at = "leave" THEN MetalKernel ELSE Pred(MetalKernel)
HostHas ==
    /\ host.at \in {"request", "enter", "starved", "encode", "leave"} /\ host.from # NoBuffer =>
         \/ \E o \in Pending : o.kernel = LastKernel /\ o.out = host.from
         \/ data[host.from] = LastKernel /\ Pending = {}
    /\ \A o \in Pending : o.input # host.from
    /\ Settling => host.from = NoBuffer
    /\ host.at \in {"request", "enter", "starved", "encode"} /\ host.unit = 1 =>
         host.from = NoBuffer
    /\ host.at \in {"leave", "read", "ending"} => host.from # NoBuffer

BuffersInv ==
    /\ InOrder /\ AllPast /\ Numbered /\ OnePlace /\ FreeOfUse
    /\ Apart /\ OwnInput /\ Chained /\ HostHas

IInv == HostTypes /\ GpuTypes /\ RegionsInv /\ BuffersInv

-------------------------------------------------------------------------------
(* Sequences, and the region taken from the end of a list *)

LEMMA LeastNat ==
    ASSUME NEW T, T \subseteq Nat, T # {}
    PROVE  \E n \in T : \A m \in T : n <= m
<1>1. PICK n \in T : \A m \in T : ~ (<<m, n>> \in OpToRel(<, Nat))
  BY NatLessThanWellFounded, WFMin
<1>2. \A m \in T : ~(m < n)
  BY <1>1 DEF OpToRel
<1> QED  BY <1>2

(* f starts at a and goes from each value to the next by g. *)
Iterates(f, n, V, a, g) ==
    /\ f \in [0 .. n -> V]
    /\ f[0] = a
    /\ \A i \in 1 .. n : f[i] = g[i][f[i - 1]]

LEMMA Recursion ==
    ASSUME NEW n \in Nat, NEW V, NEW a \in V, NEW g \in [1 .. n -> [V -> V]]
    PROVE  \E f : Iterates(f, n, V, a, g)
<1> DEFINE Solves(f, k) ==
             f \in [0 .. k -> V] /\ f[0] = a /\ \A i \in 1 .. k : f[i] = g[i][f[i - 1]]
           T == {k \in 0 .. n : ~ \E f : Solves(f, k)}
<1>1. ASSUME T # {} PROVE FALSE
  <2>1. PICK k \in T : \A m \in T : k <= m
    <3>1. T \subseteq Nat  OBVIOUS
    <3> HIDE DEF T
    <3> QED  BY <1>1, <3>1, LeastNat
  <2>2. k \in 0 .. n /\ ~ \E f : Solves(f, k)
    OBVIOUS
  <2>3. k # 0
    <3>1. Solves([i \in 0 .. 0 |-> a], 0)
      OBVIOUS
    <3> QED  BY <2>2, <3>1
  <2>4. k - 1 \in 0 .. n /\ k - 1 \notin T
    <3>1. k - 1 \in 0 .. n /\ ~(k <= k - 1)  BY <2>2, <2>3
    <3> HIDE DEF T
    <3> QED  BY <2>1, <3>1
  <2>5. PICK f : Solves(f, k - 1)
    BY <2>4
  <2> DEFINE h == [i \in 0 .. k |-> IF i = k THEN g[k][f[k - 1]] ELSE f[i]]
  <2>6. h \in [0 .. k -> V]
    <3>1. f \in [0 .. k - 1 -> V] /\ k \in 1 .. n  BY <2>2, <2>3, <2>5
    <3>2. f[k - 1] \in V /\ g[k] \in [V -> V]  BY <2>4, <3>1
    <3>3. ASSUME NEW i \in 0 .. k PROVE h[i] \in V
      BY <3>1, <3>2
    <3> QED  BY <3>3
  <2>7. h[0] = a
    BY <2>2, <2>3, <2>5
  <2>8. ASSUME NEW i \in 1 .. k PROVE h[i] = g[i][h[i - 1]]
    <3>1. CASE i = k
      <4>1. i # 0 /\ i - 1 # k /\ k - 1 \in 0 .. k  BY <2>2, <2>8, <3>1
      <4> QED  BY <3>1, <4>1
    <3>2. CASE i # k
      <4>1. i \in 1 .. k - 1 /\ i \in 0 .. k /\ i - 1 \in 0 .. k /\ i - 1 # k
        BY <2>2, <2>8, <3>2
      <4>2. h[i] = f[i] /\ h[i - 1] = f[i - 1]  BY <3>2, <4>1
      <4> QED  BY <2>5, <4>1, <4>2
    <3> QED  BY <3>1, <3>2
  <2>9. Solves(h, k)
    <3> HIDE DEF h
    <3> QED  BY <2>6, <2>7, <2>8
  <2> QED  BY <2>2, <2>9
<1>2. T = {} /\ n \in 0 .. n
  BY <1>1
<1>3. PICK f : Solves(f, n)
  BY <1>2
<1> QED  BY <1>3 DEF Iterates

LEMMA Tails ==
    ASSUME NEW S, NEW q \in Seq(S), q # <<>>
    PROVE  /\ Tail(q) \in Seq(S) /\ Len(Tail(q)) = Len(q) - 1
           /\ \A i \in 1 .. Len(q) - 1 : Tail(q)[i] = q[i + 1] /\ i + 1 \in 1 .. Len(q)
           /\ Head(q) = q[1] /\ Head(q) \in S /\ Len(q) \in Nat \ {0}
           /\ 1 \in 1 .. Len(q)
<1>1. Len(q) \in Nat \ {0} /\ Head(q) = q[1] /\ Head(q) \in S
  OBVIOUS
<1>2. Tail(q) \in Seq(S) /\ Len(Tail(q)) = Len(q) - 1
  OBVIOUS
<1>3. \A i \in 1 .. Len(q) - 1 : Tail(q)[i] = q[i + 1]
  BY <1>1, <1>2
<1>4. \A i \in 1 .. Len(q) - 1 : i + 1 \in 1 .. Len(q)
  BY <1>1, <1>2
<1>5. 1 \in 1 .. Len(q)
  BY <1>1
<1> QED  BY <1>1, <1>2, <1>3, <1>4, <1>5

LEMMA Appends ==
    ASSUME NEW S, NEW q \in Seq(S), NEW m \in S
    PROVE  /\ Append(q, m) \in Seq(S) /\ Len(Append(q, m)) = Len(q) + 1 /\ Len(q) \in Nat
           /\ \A i \in 1 .. Len(q) : Append(q, m)[i] = q[i]
           /\ Append(q, m)[Len(q) + 1] = m
           /\ \A i \in 1 .. Len(q) + 1 : i \in 1 .. Len(q) \/ i = Len(q) + 1
  OBVIOUS

LEMMA Empty == Len(<<>>) = 0 /\ 1 .. 0 = {} /\ \A S : <<>> \in Seq(S)
  OBVIOUS

LEMMA InSet == ASSUME NEW S, NEW s \in Seq(S)
               PROVE  /\ ToSet(s) \subseteq S
                      /\ \A i \in 1 .. Len(s) : s[i] \in ToSet(s)
                      /\ \A x \in ToSet(s) : \E i \in 1 .. Len(s) : s[i] = x
                      /\ DOMAIN s = 1 .. Len(s) /\ Len(s) \in Nat
  BY DEF ToSet

(* One more at the end. *)
LEMMA OneMore ==
    ASSUME NEW S, NEW s \in Seq(S), NEW x \in S
    PROVE  /\ ToSet(Append(s, x)) = ToSet(s) \cup {x}
           /\ IsInjective(s) /\ x \notin ToSet(s) => IsInjective(Append(s, x))
<1> DEFINE t == Append(s, x)
<1>1. /\ t \in Seq(S) /\ Len(t) = Len(s) + 1 /\ Len(s) \in Nat
      /\ \A i \in 1 .. Len(s) : t[i] = s[i]
      /\ t[Len(s) + 1] = x
      /\ \A i \in 1 .. Len(s) + 1 : i \in 1 .. Len(s) \/ i = Len(s) + 1
      /\ DOMAIN t = 1 .. Len(s) + 1 /\ DOMAIN s = 1 .. Len(s)
  OBVIOUS
<1> HIDE DEF t
<1>2. ToSet(t) = ToSet(s) \cup {x}
  <2>1. ASSUME NEW y \in ToSet(t) PROVE y \in ToSet(s) \cup {x}
    BY <1>1, <2>1 DEF ToSet
  <2>2. ASSUME NEW y \in ToSet(s) PROVE y \in ToSet(t)
    <3>1. PICK i \in 1 .. Len(s) : s[i] = y  BY <1>1, <2>2 DEF ToSet
    <3>2. i \in 1 .. Len(s) + 1 /\ t[i] = y  BY <1>1, <3>1
    <3> QED  BY <1>1, <3>2 DEF ToSet
  <2>3. x \in ToSet(t)
    <3>1. Len(s) + 1 \in DOMAIN t  BY <1>1
    <3> QED  BY <1>1, <3>1 DEF ToSet
  <2> QED  BY <2>1, <2>2, <2>3
<1>3. ASSUME IsInjective(s), x \notin ToSet(s) PROVE IsInjective(t)
  <2>1. \A i \in 1 .. Len(s) : t[i] # x
    BY <1>1, <1>3 DEF ToSet
  <2>2. \A i, j \in 1 .. Len(s) : t[i] = t[j] => i = j
    BY <1>1, <1>3 DEF IsInjective
  <2> QED  BY <1>1, <2>1, <2>2 DEF IsInjective
<1> QED  BY <1>2, <1>3 DEF t

LEMMA Fronts ==
    ASSUME NEW S, NEW s \in Seq(S), s # <<>>
    PROVE  /\ Front(s) \in Seq(S) /\ Last(s) \in ToSet(s) /\ Last(s) \in S
           /\ \A x \in ToSet(Front(s)) : x \in ToSet(s)
           /\ IsInjective(s) => IsInjective(Front(s)) /\ Last(s) \notin ToSet(Front(s))
<1> DEFINE t == Front(s)
<1>1. /\ Len(s) \in Nat \ {0} /\ DOMAIN s = 1 .. Len(s)
      /\ Last(s) = s[Len(s)] /\ Len(s) \in 1 .. Len(s)
  BY DEF Last
<1>2. /\ t \in Seq(S) /\ DOMAIN t = 1 .. Len(s) - 1
      /\ \A i \in 1 .. Len(s) - 1 : t[i] = s[i] /\ i \in 1 .. Len(s) /\ i # Len(s)
  <2> DEFINE m == Len(s) - 1
  <2>1. m \in 0 .. Len(s) /\ t = SubSeq(s, 1, m)  BY <1>1 DEF Front
  <2>2. t \in Seq(S) /\ Len(t) = m /\ \A i \in 1 .. m : t[i] = s[i]
    <3>1. \A i \in 1 .. m : i \in 1 .. Len(s)  BY <1>1
    <3>2. SubSeq(s, 1, m) = [i \in 1 .. m |-> s[i]]
      <4>1. 1 .. m = 1 .. (m - 1 + 1) /\ \A i \in 1 .. m : s[i] = s[1 + i - 1]  BY <1>1
      <4> QED  BY <1>1, <2>1
    <3>3. \A i \in 1 .. m : s[i] \in S  BY <3>1
    <3> HIDE DEF m, t
    <3> QED  BY <1>1, <2>1, <3>2, <3>3
  <2>3. \A i \in 1 .. m : i \in 1 .. Len(s) /\ i # Len(s)
    <3>1. \A n \in Nat : \A i \in 1 .. n - 1 : i \in 1 .. n /\ i # n  OBVIOUS
    <3> QED  BY <1>1, <3>1
  <2> QED  BY <2>2, <2>3
<1> HIDE DEF t
<1>3. Last(s) \in ToSet(s) /\ Last(s) \in S
  BY <1>1 DEF ToSet
<1>4. \A x \in ToSet(t) : x \in ToSet(s)
  BY <1>1, <1>2 DEF ToSet
<1>5. ASSUME IsInjective(s) PROVE IsInjective(t) /\ Last(s) \notin ToSet(t)
  <2>1. IsInjective(t)
    BY <1>1, <1>2, <1>5 DEF IsInjective
  <2>2. \A i \in 1 .. Len(s) - 1 : t[i] # s[Len(s)]
    BY <1>1, <1>2, <1>5 DEF IsInjective
  <2> QED  BY <1>1, <1>2, <2>1, <2>2 DEF ToSet
<1> QED  BY <1>2, <1>3, <1>4, <1>5 DEF t

LEMMA Removed ==
    ASSUME NEW S, NEW s \in Seq(S), NEW k \in 1 .. Len(s)
    PROVE  /\ RemoveAt(s, k) \in Seq(S)
           /\ Len(RemoveAt(s, k)) = Len(s) - 1 /\ Len(s) \in Nat \ {0}
           /\ \A i \in 1 .. Len(s) - 1 :
                RemoveAt(s, k)[i] = IF i < k THEN s[i] ELSE s[i + 1]
<1> DEFINE before == SubSeq(s, 1, k - 1)
           after == SubSeq(s, k + 1, Len(s))
<1>1. Len(s) \in Nat \ {0} /\ k \in Nat \ {0} /\ k <= Len(s)
  OBVIOUS
<1>2. before \in Seq(S) /\ Len(before) = k - 1 /\ \A i \in 1 .. k - 1 : before[i] = s[i]
  BY <1>1
<1>3. after \in Seq(S) /\ Len(after) = Len(s) - k /\ \A i \in 1 .. Len(s) - k : after[i] = s[k + i]
  BY <1>1
<1> HIDE DEF before, after
<1>4. /\ before \o after \in Seq(S) /\ Len(before \o after) = Len(s) - 1
      /\ \A i \in 1 .. Len(s) - 1 :
           (before \o after)[i] = IF i <= k - 1 THEN before[i] ELSE after[i - (k - 1)]
  <2>0. before \in Seq(S) /\ after \in Seq(S)  BY <1>2, <1>3
  <2>1. \A i \in 1 .. Len(before) + Len(after) :
          (before \o after)[i] = IF i <= Len(before) THEN before[i] ELSE after[i - Len(before)]
    BY <2>0
  <2>2. before \o after \in Seq(S) /\ Len(before \o after) = Len(before) + Len(after)
    BY <2>0
  <2>3. Len(before) + Len(after) = Len(s) - 1
    BY <1>1, <1>2, <1>3
  <2> QED  BY <1>2, <2>1, <2>2, <2>3
<1>5. ASSUME NEW i \in 1 .. Len(s) - 1
      PROVE  (before \o after)[i] = IF i < k THEN s[i] ELSE s[i + 1]
  <2>1. CASE i < k
    <3>1. i \in 1 .. k - 1 /\ i <= k - 1  BY <1>1, <1>5, <2>1
    <3> QED  BY <1>2, <1>4, <1>5, <2>1, <3>1
  <2>2. CASE ~(i < k)
    <3>1. i - (k - 1) \in 1 .. Len(s) - k /\ ~(i <= k - 1) /\ k + (i - (k - 1)) = i + 1
      BY <1>1, <1>5, <2>2
    <3>2. after[i - (k - 1)] = s[i + 1]  BY <1>3, <3>1
    <3> QED  BY <1>4, <1>5, <2>2, <3>1, <3>2
  <2> QED  BY <2>1, <2>2
<1> QED  BY <1>1, <1>4, <1>5 DEF RemoveAt, before, after

LEMMA RemovedSet ==
    ASSUME NEW S, NEW s \in Seq(S), NEW k \in 1 .. Len(s)
    PROVE  /\ \A x \in ToSet(RemoveAt(s, k)) : x \in ToSet(s)
           /\ \A i \in 1 .. Len(s) : i # k => s[i] \in ToSet(RemoveAt(s, k))
           /\ IsInjective(s) => IsInjective(RemoveAt(s, k)) /\ s[k] \notin ToSet(RemoveAt(s, k))
<1> DEFINE t == RemoveAt(s, k)
           Was(i) == IF i < k THEN i ELSE i + 1
<1>1. /\ DOMAIN t = 1 .. Len(s) - 1 /\ DOMAIN s = 1 .. Len(s) /\ Len(s) \in Nat \ {0}
      /\ \A i \in 1 .. Len(s) - 1 : t[i] = s[Was(i)] /\ Was(i) \in 1 .. Len(s) /\ Was(i) # k
      /\ \A i, j \in 1 .. Len(s) - 1 : Was(i) = Was(j) => i = j
  BY Removed
<1>2. \A i \in 1 .. Len(s) : i # k => \E j \in 1 .. Len(s) - 1 : Was(j) = i
  <2>1. ASSUME NEW i \in 1 .. Len(s), i # k PROVE \E j \in 1 .. Len(s) - 1 : Was(j) = i
    <3>1. CASE i < k
      <4>1. i \in 1 .. Len(s) - 1 /\ Was(i) = i  BY <3>1
      <4> QED  BY <4>1
    <3>2. CASE ~(i < k)
      <4>1. i - 1 \in 1 .. Len(s) - 1 /\ Was(i - 1) = i  BY <2>1, <3>2
      <4> QED  BY <4>1
    <3> QED  BY <3>1, <3>2
  <2> QED  BY <2>1
<1> HIDE DEF t, Was
<1>3. ASSUME NEW x \in ToSet(t) PROVE x \in ToSet(s)
  <2>1. PICK i \in 1 .. Len(s) - 1 : t[i] = x  BY <1>1 DEF ToSet
  <2>2. Was(i) \in DOMAIN s /\ s[Was(i)] = x  BY <1>1, <2>1
  <2> QED  BY <2>2 DEF ToSet
<1>4. ASSUME NEW i \in 1 .. Len(s), i # k PROVE s[i] \in ToSet(t)
  <2>1. PICK j \in 1 .. Len(s) - 1 : Was(j) = i  BY <1>2, <1>4
  <2>2. j \in DOMAIN t /\ t[j] = s[i]  BY <1>1, <2>1
  <2> QED  BY <2>2 DEF ToSet
<1>5. ASSUME IsInjective(s) PROVE IsInjective(t) /\ s[k] \notin ToSet(t)
  <2>1. IsInjective(t)  BY <1>1, <1>5 DEF IsInjective
  <2>2. \A i \in 1 .. Len(s) - 1 : t[i] # s[k]  BY <1>1, <1>5 DEF IsInjective
  <2> QED  BY <1>1, <2>1, <2>2 DEF ToSet
<1> QED  BY <1>3, <1>4, <1>5 DEF t

LEMMA JoinedSet ==
    ASSUME NEW S, NEW s \in Seq(S), NEW t \in Seq(S)
    PROVE  /\ s \o t \in Seq(S) /\ ToSet(s \o t) = ToSet(s) \cup ToSet(t)
           /\ IsInjective(s) /\ IsInjective(t) /\ ToSet(s) \cap ToSet(t) = {} => IsInjective(s \o t)
<1> DEFINE w == s \o t
<1>1. /\ w \in Seq(S) /\ Len(s) \in Nat /\ Len(t) \in Nat
      /\ DOMAIN w = 1 .. Len(s) + Len(t) /\ DOMAIN s = 1 .. Len(s) /\ DOMAIN t = 1 .. Len(t)
      /\ \A i \in 1 .. Len(s) : w[i] = s[i] /\ i \in DOMAIN w
      /\ \A i \in 1 .. Len(t) : w[Len(s) + i] = t[i] /\ Len(s) + i \in DOMAIN w
  OBVIOUS
<1>2. \A i \in DOMAIN w :
        i \in 1 .. Len(s) \/ (i - Len(s) \in 1 .. Len(t) /\ i = Len(s) + (i - Len(s)))
  BY <1>1
<1> HIDE DEF w
<1>3. \A i \in DOMAIN w :
        \/ i \in 1 .. Len(s) /\ w[i] = s[i]
        \/ i - Len(s) \in 1 .. Len(t) /\ w[i] = t[i - Len(s)]
  BY <1>1, <1>2
<1>4. \A x \in ToSet(w) : x \in ToSet(s) \cup ToSet(t)
  BY <1>1, <1>3 DEF ToSet
<1>5. \A x \in ToSet(s) \cup ToSet(t) : x \in ToSet(w)
  BY <1>1 DEF ToSet
<1>6. ASSUME IsInjective(s), IsInjective(t), ToSet(s) \cap ToSet(t) = {} PROVE IsInjective(w)
  <2>1. \A i \in 1 .. Len(s), j \in 1 .. Len(t) : s[i] # t[j]
    BY <1>1, <1>6 DEF ToSet
  <2>2. ASSUME NEW i \in DOMAIN w, NEW j \in DOMAIN w, w[i] = w[j] PROVE i = j
    <3>1. CASE i \in 1 .. Len(s) /\ j \in 1 .. Len(s)
      BY <1>1, <1>6, <2>2, <3>1 DEF IsInjective
    <3>2. CASE i - Len(s) \in 1 .. Len(t) /\ j - Len(s) \in 1 .. Len(t)
      <4>1. i - Len(s) = j - Len(s)  BY <1>1, <1>2, <1>3, <1>6, <2>2, <3>2 DEF IsInjective
      <4> QED  BY <1>1, <2>2, <4>1
    <3> QED  BY <1>1, <1>3, <2>1, <2>2, <3>1, <3>2
  <2> QED  BY <2>2 DEF IsInjective
<1> QED  BY <1>1, <1>4, <1>5, <1>6 DEF w

LEMMA UnreadIs ==
    Unread[U] \in Seq(MetalUnits) /\ IsInjective(Unread[U])
<1> DEFINE V == Seq(MetalUnits)
           Step(n, s) == IF n \in stream.there THEN s ELSE Append(s, n)
           g == [n \in 1 .. U |-> [s \in V |-> Step(n, s)]]
           IsUpto(f) == f = [n \in 0 .. U |-> IF n = 0 THEN <<>> ELSE Step(n, f[n - 1])]
<1>0. U \in Nat /\ <<>> \in V
  BY MetalStreamingAssumption
<1>1. ASSUME NEW n \in 1 .. U, NEW s \in V PROVE Step(n, s) \in V
  <2>1. n \in MetalUnits  BY DEF MetalUnits
  <2>2. Append(s, n) \in V  BY <2>1
  <2> QED  BY <2>2
<1>2. Unread = CHOOSE f : IsUpto(f)
  BY DEF Unread
<1> HIDE DEF Step
<1>3. g \in [1 .. U -> [V -> V]]
  BY <1>1
<1>4. PICK f : f \in [0 .. U -> V] /\ f[0] = <<>> /\ \A i \in 1 .. U : f[i] = g[i][f[i - 1]]
  <2> HIDE DEF g, V, IsUpto
  <2>1. \E f : Iterates(f, U, V, <<>>, g)
    BY <1>0, <1>3, Recursion, Zenon
  <2> QED  BY <2>1 DEF Iterates
<1>5. ASSUME NEW i \in 1 .. U
      PROVE  i - 1 \in 0 .. U /\ f[i - 1] \in V /\ f[i] = Step(i, f[i - 1])
  <2>1. i - 1 \in 0 .. U  BY <1>0, <1>5
  <2>2. f[i - 1] \in V  BY <1>4, <2>1
  <2> HIDE DEF V
  <2>3. g[i][f[i - 1]] = Step(i, f[i - 1])  BY <1>5, <2>2
  <2> QED  BY <1>4, <2>1, <2>2, <2>3
<1>6. IsUpto(f)
  <2>1. \A i \in 0 .. U : i = 0 \/ i \in 1 .. U
    BY <1>0
  <2>2. \A i \in 0 .. U : f[i] = IF i = 0 THEN <<>> ELSE Step(i, f[i - 1])
    BY <1>4, <1>5, <2>1
  <2> HIDE DEF V
  <2> QED  BY <1>4, <2>2
<1>8. IsUpto(Unread)
  BY <1>2, <1>6
<1> HIDE DEF g
<1>9. Unread[0] = <<>> /\ \A i \in 1 .. U : Unread[i] = Step(i, Unread[i - 1])
  <2>1. \A i \in 1 .. U : i \in 0 .. U /\ i # 0
    BY <1>0
  <2>2. 0 \in 0 .. U
    BY <1>0
  <2> QED  BY <1>0, <1>8, <2>1, <2>2
<1> HIDE DEF IsUpto
<1> DEFINE Good(n) == /\ Unread[n] \in V /\ IsInjective(Unread[n])
                      /\ \A x \in ToSet(Unread[n]) : x <= n
           T == {k \in 0 .. U : ~Good(k)}
<1>10. ASSUME NEW k \in 1 .. U, Good(k - 1) PROVE Good(k)
  <2>1. CASE k \in stream.there
    <3>1. Unread[k] = Unread[k - 1]  BY <1>9, <2>1 DEF Step
    <3>2. \A x \in ToSet(Unread[k]) : x \in MetalUnits  BY <1>10, <3>1, InSet
    <3> QED  BY <1>10, <3>1, <3>2 DEF MetalUnits
  <2>2. CASE k \notin stream.there
    <3>1. Unread[k] = Append(Unread[k - 1], k)  BY <1>9, <2>2 DEF Step
    <3>2. k \notin ToSet(Unread[k - 1])  BY <1>10
    <3>3. k \in MetalUnits  BY DEF MetalUnits
    <3>4. /\ ToSet(Unread[k]) = ToSet(Unread[k - 1]) \cup {k}
          /\ IsInjective(Unread[k]) /\ Unread[k] \in V
      BY <1>10, <3>1, <3>2, <3>3, OneMore
    <3>5. \A x \in ToSet(Unread[k - 1]) : x \in MetalUnits /\ x <= k - 1  BY <1>10, InSet
    <3>6. \A x \in ToSet(Unread[k]) : x <= k
      BY <3>4, <3>5 DEF MetalUnits
    <3> QED  BY <3>4, <3>6
  <2> QED  BY <2>1, <2>2
<1>11. Good(0)
  BY <1>0, <1>9 DEF IsInjective, ToSet
<1>12. ASSUME T # {} PROVE FALSE
  <2>1. T \subseteq Nat  OBVIOUS
  <2>2. PICK k \in T : \A m \in T : k <= m
    <3> HIDE DEF T
    <3> QED  BY <1>12, <2>1, LeastNat
  <2> HIDE DEF Good
  <2>3. k \in 0 .. U /\ ~Good(k) /\ k # 0
    BY <1>11
  <2>4. k \in 1 .. U /\ k - 1 \in 0 .. U /\ ~(k <= k - 1)
    BY <1>0, <2>3
  <2>5. Good(k - 1)
    BY <2>2, <2>4
  <2> QED  BY <1>10, <2>3, <2>4, <2>5
<1> HIDE DEF Good
<1>13. Good(U)
  BY <1>0, <1>12
<1> QED  BY <1>13 DEF Good

LEMMA NothingTwice == IsInjective(<<>>) /\ ToSet(<<>>) = {}
  BY DEF IsInjective, ToSet

LEMMA FreeRegionsGives ==
    ASSUME HostTypes, IsInjective(stream.spare), IsInjective(stream.used),
           ToSet(stream.spare) \cap ToSet(stream.used) = {}
    PROVE  /\ FreeRegions.spare \in Seq(RegionSet) /\ FreeRegions.used \in Seq(RegionSet)
           /\ FreeRegions.got \in Places
           /\ IsInjective(FreeRegions.spare) /\ IsInjective(FreeRegions.used)
           /\ ToSet(FreeRegions.spare) \cap ToSet(FreeRegions.used) = {}
           /\ \A r \in ToSet(FreeRegions.spare) : Spared(r)
           /\ \A r \in ToSet(FreeRegions.used) : Spared(r)
           /\ FreeRegions.got # Nowhere =>
                /\ Spared(FreeRegions.got) /\ FreeRegions.got \notin ToSet(FreeRegions.spare)
                /\ FreeRegions.got \notin ToSet(FreeRegions.used)
           /\ FreeRegions.got \notin RegionSet => FreeRegions.used = stream.used
<1> DEFINE at == SelectInSeq(stream.used, LAMBDA r : ~IsOver(r))
           used == IF at = 0 THEN stream.used ELSE RemoveAt(stream.used, at)
           spare == IF at = 0 THEN stream.spare ELSE Append(stream.spare, stream.used[at])
           I == {i \in 1 .. Len(stream.used) : ~IsOver(stream.used[i])}
<1>0. stream.used \in Seq(RegionSet) /\ stream.spare \in Seq(RegionSet)
  BY DEF HostTypes, Streams
<1>1. at = 0 \/ at \in 1 .. Len(stream.used)
  <2>1. at = IF I # {} THEN Min(I) ELSE 0
    BY DEF SelectInSeq
  <2>2. I \subseteq 1 .. Len(stream.used) /\ Len(stream.used) \in Nat
    BY <1>0
  <2>3. I # {} => Min(I) \in I
    <3>1. I \subseteq Nat  BY <2>2
    <3> HIDE DEF I
    <3> QED  BY <3>1, LeastNat DEF Min
  <2> HIDE DEF I, at
  <2> QED  BY <2>1, <2>2, <2>3
<1>2. FreeRegions = IF spare = <<>> THEN [spare |-> <<>>, used |-> used, got |-> Nowhere]
                    ELSE [spare |-> Front(spare), used |-> used, got |-> Last(spare)]
  BY DEF FreeRegions
<1> HIDE DEF at
<1>3. /\ used \in Seq(RegionSet) /\ spare \in Seq(RegionSet)
      /\ IsInjective(used) /\ IsInjective(spare) /\ ToSet(spare) \cap ToSet(used) = {}
      /\ \A r \in ToSet(spare) : Spared(r)
      /\ \A r \in ToSet(used) : Spared(r)
      /\ spare = <<>> => used = stream.used
  <2>1. CASE at = 0
    BY <1>0, <2>1 DEF Spared
  <2>2. CASE at # 0
    <3>1. at \in 1 .. Len(stream.used)  BY <1>1, <2>2
    <3>2. stream.used[at] \in RegionSet /\ stream.used[at] \in ToSet(stream.used)
      BY <1>0, <3>1, InSet
    <3>3. /\ used \in Seq(RegionSet) /\ IsInjective(used) /\ stream.used[at] \notin ToSet(used)
          /\ \A x \in ToSet(used) : x \in ToSet(stream.used)
      BY <1>0, <2>2, <3>1, Removed, RemovedSet
    <3>4. stream.used[at] \notin ToSet(stream.spare)
      BY <3>2
    <3>5. /\ spare \in Seq(RegionSet) /\ ToSet(spare) = ToSet(stream.spare) \cup {stream.used[at]}
          /\ IsInjective(spare)
      BY <1>0, <2>2, <3>2, <3>4, OneMore
    <3>6. spare # <<>>
      <4>1. stream.used[at] \in ToSet(spare)  BY <3>5
      <4> HIDE DEF spare
      <4> QED  BY <4>1, NothingTwice
    <3> HIDE DEF used, spare
    <3> QED  BY <3>2, <3>3, <3>5, <3>6 DEF Spared
  <2> QED  BY <2>1, <2>2
<1> HIDE DEF used, spare
<1>4. CASE spare = <<>>
  <2>1. FreeRegions = [spare |-> <<>>, used |-> used, got |-> Nowhere]
    BY <1>2, <1>4
  <2>2. ToSet(<<>>) \cap ToSet(used) = {} /\ \A r \in ToSet(<<>>) : Spared(r)
    BY NothingTwice
  <2> QED  BY <1>3, <1>4, <2>1, <2>2, NothingTwice DEF Places
<1>5. CASE spare # <<>>
  <2>1. FreeRegions = [spare |-> Front(spare), used |-> used, got |-> Last(spare)]
    BY <1>2, <1>5
  <2>2. /\ Front(spare) \in Seq(RegionSet) /\ Last(spare) \in ToSet(spare)
        /\ Last(spare) \in RegionSet
        /\ \A x \in ToSet(Front(spare)) : x \in ToSet(spare)
        /\ IsInjective(Front(spare)) /\ Last(spare) \notin ToSet(Front(spare))
    BY <1>3, <1>5, Fronts
  <2>3. FreeRegions.got \in RegionSet
    BY <2>1, <2>2
  <2> QED  BY <1>3, <2>1, <2>2, <2>3 DEF Places
<1> QED  BY <1>4, <1>5

LEMMA InASequence ==
    ASSUME NEW S, IsFiniteSet(S)
    PROVE  SetToSeq(S) \in Seq(S) /\ IsInjective(SetToSeq(S))
<1> DEFINE n == Cardinality(S)
           Lists(f) == f \in [1 .. n -> S] /\ IsInjective(f)
<1>1. n \in Nat /\ ExistsBijection(1 .. n, S)
  BY FS_CardinalityType
<1>2. \E f : Lists(f)
  BY <1>1 DEF ExistsBijection, Bijection, Injection
<1>3. SetToSeq(S) = CHOOSE f : Lists(f)
  BY DEF SetToSeq
<1> HIDE DEF Lists
<1>4. Lists(SetToSeq(S))
  BY <1>2, <1>3
<1> HIDE DEF n
<1> QED  BY <1>1, <1>4 DEF Lists

LEMMA TakenBack ==
    ASSUME HostTypes
    PROVE  LET back == {pass.ready[u] : u \in MetalUnits \ stream.kept} \ {Nowhere}
           IN SetToSeq(back) \in Seq(back) /\ IsInjective(SetToSeq(back))
<1> DEFINE D == MetalUnits \ stream.kept
           all == {pass.ready[u] : u \in D}
           f == [u \in D |-> pass.ready[u]]
<1>1. IsFiniteSet(MetalUnits)
  BY MetalStreamingAssumption, FS_Interval DEF MetalUnits
<1>2. IsFiniteSet(D)
  BY <1>1, FS_Subset
<1>3. f \in Surjection(D, all)
  BY DEF Surjection
<1>4. IsFiniteSet(all)
  <2> HIDE DEF D, all, f
  <2> QED  BY <1>2, <1>3, FS_Surjection DEF ExistsSurjection
<1>5. IsFiniteSet(all \ {Nowhere})
  BY <1>4, FS_Subset
<1> QED  BY <1>5, InASequence

-------------------------------------------------------------------------------
(* What the state is made of *)

LEMMA ConstantsAre ==
    /\ U \in Nat \ {0} /\ Regions \in Nat \ {0} /\ InFlight \in Nat \ {0} /\ BatchOps \in Nat \ {0}
    /\ MetalCalls \in Nat \ {0} /\ Patches \in Nat
    /\ 1 \in MetalUnits /\ MetalUnits \subseteq Nat \ {0}
    /\ NoBuffer = 0 /\ NoBuffer \notin Buffers /\ Buffers \subseteq Nat \ {0}
  BY MetalStreamingAssumption DEF MetalUnits, NoBuffer

LEMMA RegionsAre ==
    /\ Nowhere \notin RegionSet /\ Torn \notin Written
    /\ \A u \in MetalUnits : Own(u) \in RegionSet /\ Own(u) \notin Turns
    /\ \A u, v \in MetalUnits : Own(u) = Own(v) => u = v
    /\ Turns \subseteq RegionSet
    /\ \A r \in Places : r # Nowhere => r \in RegionSet
<1>1. \A k \in 1 .. (Patches + 1) * Regions : <<"turn", k>> # <<"none", 0>>  OBVIOUS
<1>2. Nowhere \notin RegionSet
  BY <1>1 DEF Nowhere, RegionSet, Turns, Own
<1>3. Torn \notin Written
  BY ConstantsAre DEF Torn, Written
<1>4. \A u \in MetalUnits : Own(u) \in RegionSet /\ Own(u) \notin Turns
  BY DEF Own, RegionSet, Turns
<1>5. \A u, v \in MetalUnits : Own(u) = Own(v) => u = v
  BY DEF Own
<1> QED  BY <1>2, <1>3, <1>4, <1>5 DEF RegionSet, Places

LEMMA HostIs ==
    ASSUME HostTypes
    PROVE  /\ host.call \in Nat /\ host.unit \in MetalUnits /\ host.work \in Nat
           /\ host.limit \in Nat /\ host.batch \in Nat /\ host.then \in {"enter", "encode"}
           /\ host.from \in Buffers \cup {NoBuffer}
  BY DEF HostTypes, Hosts

LEMMA StreamIs ==
    ASSUME HostTypes
    PROVE  /\ stream.kept \subseteq MetalUnits /\ stream.there \subseteq MetalUnits
           /\ stream.settled \in Nat /\ stream.regions \in Int /\ stream.version \in Nat
           /\ stream.patches \in Nat
           /\ stream.spare \in Seq(RegionSet) /\ stream.used \in Seq(RegionSet)
  BY DEF HostTypes, Streams

LEMMA PassIs ==
    ASSUME HostTypes
    PROVE  /\ pass.queue \in Seq(MetalUnits) /\ pass.next \in Nat \ {0}
           /\ pass.loading \in Seq(MetalUnits) /\ pass.ready \in [MetalUnits -> Places]
           /\ reader.requests \in Seq([unit : MetalUnits, region : RegionSet])
           /\ reader.answers \in Seq(Places)
           /\ content \in [RegionSet -> Written \cup {Torn, <<0, 1>>}]
           /\ tensors \in [MetalUnits -> Places]
  BY DEF HostTypes, Passes, Readers

LEMMA NothingIs == NoPass \in Passes /\ NoPass.loading = <<>> /\ NoPass.queue = <<>>
                   /\ NoPass.ready = [u \in MetalUnits |-> Nowhere] /\ NoPass.next = 1
  BY DEF NoPass, Passes, Places

LEMMA UnmadeAre ==
    ASSUME NEW r \in Unmade
    PROVE  /\ r \in Turns /\ ~IsOver(r) /\ ~Spared(r) /\ ~ToRead(r) /\ ~ReadInto(r)
  BY DEF Unmade, Spared, ToRead, ReadInto

(* A unit u is asked for into r. *)
LEMMA SentTypes ==
    ASSUME HostTypes, NEW u \in MetalUnits, NEW r \in RegionSet, Sent(u, r)
    PROVE  /\ pass' \in Passes /\ reader' \in Readers
           /\ pass'.queue = pass.queue /\ pass'.next = pass.next + 1
           /\ pass'.loading = Append(pass.loading, u) /\ pass'.ready = pass.ready
           /\ reader'.requests = Append(reader.requests, [unit |-> u, region |-> r])
           /\ reader'.answers = reader.answers
<1>1. /\ reader' = [reader EXCEPT !.requests = Append(@, [unit |-> u, region |-> r])]
      /\ pass' = [pass EXCEPT !.loading = Append(@, u), !.next = @ + 1]
  BY DEF Sent
<1>2. pass \in Passes /\ reader \in Readers
  BY DEF HostTypes
<1>3. Append(pass.loading, u) \in Seq(MetalUnits) /\ pass.next + 1 \in Nat \ {0}
  BY PassIs
<1>4. Append(reader.requests, [unit |-> u, region |-> r])
        \in Seq([unit : MetalUnits, region : RegionSet])
  <2>1. [unit |-> u, region |-> r] \in [unit : MetalUnits, region : RegionSet]  OBVIOUS
  <2> QED  BY <2>1, PassIs
<1> QED  BY <1>1, <1>2, <1>3, <1>4 DEF Passes, Readers

(* What a step of the host's that asks for a region makes of the regions. *)
LEMMA TakeTypes ==
    ASSUME HostTypes, OneTaker, NEW u \in MetalUnits, MetalTake(u)
    PROVE  stream' \in Streams /\ pass' \in Passes /\ reader' \in Readers /\ host' \in Hosts
<1> DEFINE free == FreeRegions
<1>1. host \in Hosts /\ stream \in Streams /\ pass \in Passes /\ reader \in Readers
  BY DEF HostTypes
<1>2. free.spare \in Seq(RegionSet) /\ free.used \in Seq(RegionSet) /\ free.got \in Places
  BY FreeRegionsGives DEF OneTaker
<1> HIDE DEF free
<1>3. CASE u \in stream.kept
  <2>1. Sent(u, Own(u)) /\ UNCHANGED <<stream, host>>
    BY <1>3 DEF MetalTake
  <2> QED  BY <1>1, <2>1, SentTypes, RegionsAre
<1>4. CASE u \notin stream.kept /\ free.got # Nowhere
  <2>1. /\ Sent(u, free.got)
        /\ stream' = [stream EXCEPT !.spare = free.spare, !.used = free.used]
        /\ UNCHANGED host
    BY <1>4 DEF MetalTake, free
  <2>2. stream' \in Streams
    BY <1>1, <1>2, <2>1 DEF Streams
  <2> QED  BY <1>1, <1>2, <1>4, <2>1, <2>2, SentTypes, RegionsAre
<1>5. CASE u \notin stream.kept /\ free.got = Nowhere
  <2>1. /\ stream' = [stream EXCEPT !.regions = @ + 1, !.used = free.used]
        /\ \/ (\E r \in Unmade : Sent(u, r)) /\ UNCHANGED host
           \/ "region" \in MetalMayFail /\ Fail /\ UNCHANGED <<pass, reader>>
    BY <1>5 DEF MetalTake, free
  <2>2. stream' \in Streams
    <3>1. stream' = [stream EXCEPT !.regions = stream.regions + 1, !.used = free.used]  BY <2>1
    <3>2. stream.regions + 1 \in Int  BY StreamIs
    <3> QED  BY <1>1, <1>2, <3>1, <3>2 DEF Streams
  <2>3. CASE (\E r \in Unmade : Sent(u, r)) /\ UNCHANGED host
    <3>1. PICK r \in Unmade : Sent(u, r)  BY <2>3
    <3>2. r \in RegionSet  BY UnmadeAre, RegionsAre
    <3> QED  BY <1>1, <2>2, <2>3, <3>1, <3>2, SentTypes
  <2>4. CASE Fail /\ UNCHANGED <<pass, reader>>
    <3>1. host' \in Hosts  BY <1>1, <2>4 DEF Fail, Hosts
    <3> QED  BY <1>1, <2>2, <2>4, <3>1
  <2> QED  BY <2>1, <2>3, <2>4
<1> QED  BY <1>3, <1>4, <1>5

-------------------------------------------------------------------------------
(* The host's types *)

Still == UNCHANGED <<stream, pass, reader, content, tensors>>

LEMMA FlushHost ==
    ASSUME HostTypes, NEW limit \in Nat,
           NEW at \in {"settling", "starved", "encode", "leave", "ending"}, Flush(limit, at)
    PROVE  /\ host' \in Hosts /\ host'.at = at /\ host'.limit = limit
           /\ host'.call = host.call /\ host'.unit = host.unit /\ host'.from = host.from
           /\ host'.then = host.then
           /\ host'.batch = IF encoding = <<>> THEN host.batch ELSE host.batch + 1
<1>1. host \in Hosts /\ host.batch \in Nat
  BY HostIs DEF HostTypes
<1>2. host' = [host EXCEPT !.at = at, !.limit = limit,
                           !.batch = host.batch + (IF encoding = <<>> THEN 0 ELSE 1)]
  BY DEF Flush
<1> DEFINE b == host.batch + (IF encoding = <<>> THEN 0 ELSE 1)
<1>3. b \in Nat /\ b = IF encoding = <<>> THEN host.batch ELSE host.batch + 1
  BY <1>1
<1> HIDE DEF b
<1>4. host' = [host EXCEPT !.at = at, !.limit = limit, !.batch = b]
  BY <1>2 DEF b
<1> QED  BY <1>1, <1>3, <1>4 DEF Hosts

LEMMA HostTypesStay ==
    ASSUME HostTypes, GpuTypes, OneTaker, MetalNext
    PROVE  HostTypes'
<1>0. /\ host \in Hosts /\ stream \in Streams /\ pass \in Passes /\ reader \in Readers
      /\ content \in [RegionSet -> Written \cup {Torn, <<0, 1>>}]
      /\ tensors \in [MetalUnits -> Places]
  BY DEF HostTypes
<1>1. ASSUME Still, host' \in Hosts PROVE HostTypes'
  BY <1>0, <1>1 DEF HostTypes, Still
<1>2. ASSUME LetGoOfKept PROVE tensors' \in [MetalUnits -> Places]
  BY <1>0, <1>2 DEF LetGoOfKept, Places
<1>3. CASE MetalBegin
  <2>1. host' \in Hosts /\ Still
    <3>1. PICK work \in 1 .. 2 :
            host' = [host EXCEPT !.call = @ + 1,
                                 !.at = IF stream.settled >= work THEN "open" ELSE "settle",
                                 !.work = IF stream.settled >= work THEN stream.settled ELSE work]
      BY <1>3 DEF MetalBegin
    <3>2. host.call + 1 \in Nat /\ work \in Nat /\ stream.settled \in Nat
      BY HostIs, StreamIs
    <3>3. host' \in Hosts
      BY <1>0, <3>1, <3>2 DEF Hosts
    <3> QED  BY <1>3, <3>3 DEF MetalBegin, Still
  <2> QED  BY <1>1, <2>1
<1>4. CASE LetGoFirst
  <2>1. /\ LetGoOfKept /\ stream' = [stream EXCEPT !.kept = {}, !.there = {}]
        /\ Flush(0, "settling") /\ UNCHANGED <<pass, reader, content>>
    BY <1>4 DEF LetGoFirst
  <2>2. stream' \in Streams
    BY <1>0, <2>1 DEF Streams
  <2>3. host' \in Hosts
    BY <2>1, FlushHost
  <2> QED  BY <1>0, <1>2, <2>1, <2>2, <2>3 DEF HostTypes
<1>5. CASE MetalSettle
  <2>1. PICK n \in Keeps : stream' = [stream EXCEPT !.kept = 1 .. n, !.settled = host.work]
    BY <1>5 DEF MetalSettle
  <2>2. 1 .. n \subseteq MetalUnits
    BY MetalStreamingAssumption DEF MetalUnits
  <2>3. stream' \in Streams
    BY <1>0, <2>1, <2>2, HostIs DEF Streams
  <2>4. host' = [host EXCEPT !.at = "open", !.limit = InFlight]
        /\ UNCHANGED <<pass, reader, content, tensors>>
    BY <1>5 DEF MetalSettle
  <2>5. host' \in Hosts
    BY <1>0, <2>4, ConstantsAre DEF Hosts
  <2> QED  BY <1>0, <2>3, <2>4, <2>5 DEF HostTypes
<1>6. CASE OpenPass
  <2>1. /\ pass' = [NoPass EXCEPT !.queue = Unread[U]]
        /\ host' = [host EXCEPT !.at = "request", !.then = "enter", !.unit = 1]
        /\ UNCHANGED <<stream, reader, content, tensors>>
    BY <1>6 DEF OpenPass
  <2>2. pass' \in Passes
    BY <2>1, NothingIs, UnreadIs DEF Passes
  <2>3. host' \in Hosts
    BY <1>0, <2>1, ConstantsAre DEF Hosts
  <2> QED  BY <1>0, <2>1, <2>2, <2>3 DEF HostTypes
<1>7. CASE MetalRequest
  <2>1. UNCHANGED <<content, tensors>>
    BY <1>7 DEF MetalRequest
  <2>2. CASE pass.next <= Len(pass.queue) /\ CanTake(pass.queue[pass.next])
    <3>1. MetalTake(pass.queue[pass.next])
      BY <1>7, <2>2 DEF MetalRequest
    <3>2. pass.queue[pass.next] \in MetalUnits
      BY <2>2, PassIs
    <3> QED  BY <1>0, <2>1, <3>1, <3>2, TakeTypes DEF HostTypes
  <2>3. CASE ~(pass.next <= Len(pass.queue) /\ CanTake(pass.queue[pass.next]))
    <3>1. host' = [host EXCEPT !.at = host.then] /\ UNCHANGED <<stream, pass, reader>>
      BY <1>7, <2>3 DEF MetalRequest
    <3>2. host' \in Hosts
      BY <1>0, <3>1, HostIs DEF Hosts
    <3> QED  BY <1>0, <2>1, <3>1, <3>2 DEF HostTypes
  <2> QED  BY <2>2, <2>3
<1>8. CASE Enter
  <2> DEFINE u == host.unit
             r == pass.ready[u]
  <2>1. u \in MetalUnits /\ r \in Places
    BY HostIs, PassIs
  <2>2. UNCHANGED <<reader, content>>
    BY <1>8 DEF Enter
  <2>3. CASE u \in stream.there
    <3>1. /\ u \in stream.there /\ host' = [host EXCEPT !.at = "encode"]
          /\ UNCHANGED <<stream, pass, tensors>>
      BY <1>8, <2>3 DEF Enter
    <3>2. host' \in Hosts
      BY <1>0, <3>1 DEF Hosts
    <3> QED  BY <1>0, <2>2, <3>1, <3>2 DEF HostTypes
  <2>4. CASE u \notin stream.there
    <3>1. /\ r # Nowhere /\ pass' = [pass EXCEPT !.ready[u] = Nowhere]
          /\ \/ /\ tensors' = [tensors EXCEPT ![u] = r]
                /\ stream' = IF u \in stream.kept
                             THEN [stream EXCEPT !.there = @ \cup {u}]
                             ELSE [stream EXCEPT !.used = Append(@, r)]
                /\ host' = [host EXCEPT !.at = "request", !.then = "encode"]
             \/ Fail /\ UNCHANGED <<stream, tensors>>
      BY <1>8, <2>4 DEF Enter
    <3>2. r \in RegionSet
      BY <2>1, <3>1, RegionsAre
    <3>3. pass' \in Passes
      <4>1. pass' = [pass EXCEPT !.ready = [pass.ready EXCEPT ![u] = Nowhere]]
        BY <1>0, <3>1 DEF Passes
      <4>2. [pass.ready EXCEPT ![u] = Nowhere] \in [MetalUnits -> Places]
        BY <2>1, PassIs DEF Places
      <4> HIDE DEF u
      <4> QED  BY <1>0, <4>1, <4>2 DEF Passes
    <3> HIDE DEF r, u
    <3>4. CASE /\ tensors' = [tensors EXCEPT ![u] = r]
               /\ stream' = IF u \in stream.kept
                            THEN [stream EXCEPT !.there = @ \cup {u}]
                            ELSE [stream EXCEPT !.used = Append(@, r)]
               /\ host' = [host EXCEPT !.at = "request", !.then = "encode"]
      <4>1. tensors' \in [MetalUnits -> Places]
        BY <1>0, <2>1, <3>4
      <4>2. stream.there \cup {u} \subseteq MetalUnits /\ Append(stream.used, r) \in Seq(RegionSet)
        BY <2>1, <3>2, StreamIs
      <4>3. stream' \in Streams
        <5>1. CASE u \in stream.kept
          BY <1>0, <3>4, <4>2, <5>1 DEF Streams
        <5>2. CASE u \notin stream.kept
          BY <1>0, <3>4, <4>2, <5>2 DEF Streams
        <5> QED  BY <5>1, <5>2
      <4>4. host' \in Hosts
        BY <1>0, <3>4 DEF Hosts
      <4> QED  BY <1>0, <2>2, <3>3, <4>1, <4>3, <4>4 DEF HostTypes
    <3>5. CASE Fail /\ UNCHANGED <<stream, tensors>>
      <4>1. host' \in Hosts
        BY <1>0, <3>5 DEF Hosts, Fail
      <4> QED  BY <1>0, <2>2, <3>3, <3>5, <4>1 DEF HostTypes
    <3> QED  BY <3>1, <3>4, <3>5 DEF r, u
  <2> QED  BY <2>3, <2>4
<1>9. CASE Answer
  <2> DEFINE u == Head(pass.loading)
             r == Head(reader.answers)
  <2>1. /\ pass.loading # <<>> /\ reader.answers # <<>>
        /\ pass' = [pass EXCEPT !.loading = Tail(@), !.ready[u] = r]
        /\ IF r # Nowhere THEN UNCHANGED <<host, stream>>
           ELSE /\ stream' = IF u \in stream.kept THEN stream
                             ELSE [stream EXCEPT !.regions = @ - 1]
                /\ Fail
        /\ reader' = [reader EXCEPT !.answers = Tail(@)]
        /\ UNCHANGED <<content, tensors>>
    BY <1>9 DEF Answer
  <2>2. u \in MetalUnits /\ r \in Places /\ Tail(pass.loading) \in Seq(MetalUnits)
        /\ Tail(reader.answers) \in Seq(Places)
    BY <2>1, PassIs
  <2> HIDE DEF u, r
  <2>3. [pass.ready EXCEPT ![u] = r] \in [MetalUnits -> Places]
    BY <2>2, PassIs
  <2>4. pass' \in Passes
    BY <1>0, <2>1, <2>2, <2>3 DEF Passes
  <2>5. reader' \in Readers
    BY <1>0, <2>1, <2>2 DEF Readers
  <2>6. stream' \in Streams /\ host' \in Hosts
    <3>1. CASE r # Nowhere
      BY <1>0, <2>1, <3>1
    <3>2. CASE r = Nowhere
      <4>1. host' \in Hosts
        BY <1>0, <2>1, <3>2 DEF Hosts, Fail
      <4>2. stream.regions - 1 \in Int
        BY StreamIs
      <4>3. stream' = stream \/ stream' = [stream EXCEPT !.regions = stream.regions - 1]
        BY <2>1, <3>2
      <4> QED  BY <1>0, <4>1, <4>2, <4>3 DEF Streams
    <3> QED  BY <3>1, <3>2
  <2> QED  BY <1>0, <2>1, <2>4, <2>5, <2>6 DEF HostTypes
<1>10. CASE Starve
  <2>1. Still /\ Flush(0, "starved")
    BY <1>10 DEF Starve, Still
  <2> QED  BY <1>1, <2>1, FlushHost
<1>11. CASE WaitForRegion
  <2> DEFINE free == FreeRegions
             made == free.got = Nowhere
  <2>1. UNCHANGED <<content, tensors>>
    BY <1>11 DEF WaitForRegion
  <2>2. free.spare \in Seq(RegionSet) /\ free.used \in Seq(RegionSet) /\ free.got \in Places
    BY FreeRegionsGives DEF OneTaker
  <2>3. CASE CanTake(host.unit)
    <3>1. /\ stream' = [stream EXCEPT !.spare = free.spare, !.used = free.used,
                                      !.regions = @ + (IF made THEN 1 ELSE 0)]
          /\ \E r \in IF made THEN Unmade ELSE {free.got} : Sent(host.unit, r)
          /\ host' = [host EXCEPT !.at = "enter", !.limit = InFlight]
      BY <1>11, <2>3 DEF WaitForRegion
    <3> HIDE DEF free
    <3>2. stream.regions + (IF made THEN 1 ELSE 0) \in Int
      BY StreamIs
    <3>3. stream' \in Streams
      <4> HIDE DEF made
      <4> QED  BY <1>0, <2>2, <3>1, <3>2 DEF Streams
    <3>4. PICK r \in RegionSet : Sent(host.unit, r)
      BY <2>2, <3>1, UnmadeAre, RegionsAre
    <3>5. host' \in Hosts
      BY <1>0, <3>1, ConstantsAre DEF Hosts
    <3> QED  BY <1>0, <2>1, <3>3, <3>4, <3>5, SentTypes, HostIs DEF HostTypes
  <2>4. CASE ~CanTake(host.unit)
    <3>1. host' = [host EXCEPT !.at = "failing", !.limit = InFlight]
          /\ UNCHANGED <<stream, pass, reader>>
      BY <1>11, <2>4 DEF WaitForRegion
    <3>2. host' \in Hosts
      BY <1>0, <3>1, ConstantsAre DEF Hosts
    <3> QED  BY <1>0, <2>1, <3>1, <3>2 DEF HostTypes
  <2> QED  BY <2>3, <2>4
<1>12. CASE OutOfMemory \/ BlockFails
  <2>1. Fail /\ Still
    BY <1>12 DEF OutOfMemory, BlockFails, Still
  <2>2. host' \in Hosts
    BY <1>0, <2>1 DEF Fail, Hosts
  <2> QED  BY <1>1, <2>1, <2>2
<1>13. CASE Encode
  <2>1. Still
    BY <1>13 DEF Encode, Still
  <2>2. PICK input, out : out \in MetalGiven(Popped(pool.free), {input})
                          /\ host' = [host EXCEPT !.at = "leave", !.from = out, !.limit = InFlight]
    BY <1>13 DEF Encode
  <2>3. out \in Buffers
    <3>1. pool.free \in Seq(Buffers)
      BY DEF GpuTypes
    <3>2. Popped(pool.free) \in Seq(Buffers)
      BY <3>1, Fronts DEF Popped
    <3> QED  BY <2>2, <3>2, Fronts DEF MetalGiven
  <2>4. host' \in Hosts
    BY <1>0, <2>2, <2>3, ConstantsAre DEF Hosts
  <2> QED  BY <1>1, <2>1, <2>4
<1>14. CASE MetalLeave
  <2>1. UNCHANGED <<stream, pass, reader, content>>
    BY <1>14 DEF MetalLeave
  <2>2. CASE Len(encoding) >= BatchOps
    <3>1. Flush(InFlight, "leave") /\ UNCHANGED tensors
      BY <1>14, <2>2 DEF MetalLeave
    <3>2. host' \in Hosts
      BY <3>1, ConstantsAre, FlushHost
    <3> QED  BY <1>0, <2>1, <3>1, <3>2 DEF HostTypes
  <2>3. CASE ~(Len(encoding) >= BatchOps)
    <3>1. /\ tensors' = IF host.unit \in stream.there THEN tensors
                        ELSE [tensors EXCEPT ![host.unit] = Nowhere]
          /\ host' = [host EXCEPT !.at = IF host.unit = U THEN "read" ELSE "enter",
                                  !.unit = IF host.unit = U THEN 1 ELSE @ + 1]
      BY <1>14, <2>3 DEF MetalLeave
    <3>2. tensors' \in [MetalUnits -> Places]
      BY <1>0, <3>1 DEF Places
    <3>3. (IF host.unit = U THEN 1 ELSE host.unit + 1) \in MetalUnits
      BY HostIs, ConstantsAre DEF MetalUnits
    <3>4. host' \in Hosts
      BY <1>0, <3>1, <3>3 DEF Hosts
    <3> QED  BY <1>0, <2>1, <3>2, <3>4 DEF HostTypes
  <2> QED  BY <2>2, <2>3
<1>15. CASE ReadBack
  <2>1. Still /\ Flush(0, "ending")
    BY <1>15 DEF ReadBack, Still
  <2> QED  BY <1>1, <2>1, FlushHost
<1>16. CASE TakeBack
  <2> DEFINE u == Head(pass.loading)
             r == Head(reader.answers)
  <2>1. /\ pass.loading # <<>> /\ reader.answers # <<>>
        /\ stream' = IF u \in stream.kept THEN stream
                     ELSE IF r = Nowhere THEN [stream EXCEPT !.regions = @ - 1]
                     ELSE [stream EXCEPT !.spare = Append(@, r)]
        /\ pass' = [pass EXCEPT !.loading = Tail(@)]
        /\ reader' = [reader EXCEPT !.answers = Tail(@)]
        /\ UNCHANGED <<host, content, tensors>>
    BY <1>16 DEF TakeBack
  <2>2. r \in Places /\ Tail(pass.loading) \in Seq(MetalUnits)
        /\ Tail(reader.answers) \in Seq(Places)
    BY <2>1, PassIs
  <2> HIDE DEF u, r
  <2>3. pass' \in Passes
    BY <1>0, <2>1, <2>2 DEF Passes
  <2>4. reader' \in Readers
    BY <1>0, <2>1, <2>2 DEF Readers
  <2>5. stream' \in Streams
    <3>1. stream.regions - 1 \in Int /\ (r # Nowhere => Append(stream.spare, r) \in Seq(RegionSet))
      BY <2>2, StreamIs, RegionsAre
    <3>2. \/ stream' = stream
          \/ stream' = [stream EXCEPT !.regions = stream.regions - 1]
          \/ r # Nowhere /\ stream' = [stream EXCEPT !.spare = Append(stream.spare, r)]
      BY <2>1
    <3> QED  BY <1>0, <3>1, <3>2 DEF Streams
  <2> QED  BY <1>0, <2>1, <2>3, <2>4, <2>5 DEF HostTypes
<1>17. CASE Close
  <2> DEFINE all == {pass.ready[u] : u \in MetalUnits \ stream.kept} \ {Nowhere}
  <2>1. /\ stream' = [stream EXCEPT !.spare = @ \o SetToSeq(all)]
        /\ pass' = NoPass
        /\ host' = [host EXCEPT !.at = "idle", !.limit = InFlight, !.from = NoBuffer]
        /\ UNCHANGED <<reader, content, tensors>>
    BY <1>17 DEF Close
  <2>2. SetToSeq(all) \in Seq(all)
    BY TakenBack
  <2>3. all \subseteq RegionSet
    BY PassIs, RegionsAre
  <2> HIDE DEF all
  <2>4. SetToSeq(all) \in Seq(RegionSet)
    BY <2>2, <2>3
  <2>5. stream.spare \o SetToSeq(all) \in Seq(RegionSet)
    BY <2>4, StreamIs
  <2>6. stream' \in Streams
    BY <1>0, <2>1, <2>5 DEF Streams
  <2>7. host' \in Hosts
    BY <1>0, <2>1, ConstantsAre DEF Hosts
  <2> QED  BY <1>0, <2>1, <2>6, <2>7, NothingIs DEF HostTypes
<1>18. CASE Wait \/ MetalRun \/ MetalLetGo
  BY <1>0, <1>1, <1>18 DEF Wait, MetalRun, MetalLetGo, Still
<1>19. CASE Patch
  <2>1. /\ LetGoOfKept /\ UNCHANGED <<host, pass, reader, content>>
        /\ stream' = [kept |-> {}, there |-> {}, settled |-> 0, spare |-> <<>>, used |-> <<>>,
                      regions |-> 0, version |-> stream.version + 1,
                      patches |-> stream.patches + 1]
    BY <1>19 DEF Patch
  <2>2. stream.version + 1 \in Nat /\ stream.patches + 1 \in Nat
    BY StreamIs
  <2>3. stream' \in Streams
    BY <2>1, <2>2 DEF Streams
  <2> QED  BY <1>0, <1>2, <2>1, <2>3 DEF HostTypes
<1>20. CASE MakeWay
  <2>1. Still /\ Flush(1, "encode")
    BY <1>20 DEF MakeWay, Still
  <2> QED  BY <1>1, <2>1, FlushHost
<1>21. CASE Read
  <2> DEFINE ask == Head(reader.requests)
  <2>1. UNCHANGED <<host, stream, pass, tensors>>
    BY <1>21 DEF Read
  <2>2. /\ reader.requests # <<>>
        /\ \/ content' = [content EXCEPT ![ask.region] = Torn] /\ UNCHANGED reader
           \/ /\ content' = [content EXCEPT ![ask.region] = Inside(ask.unit)]
              /\ reader' = [requests |-> Tail(reader.requests),
                            answers |-> Append(reader.answers, ask.region)]
           \/ /\ reader' = [requests |-> Tail(reader.requests),
                            answers |-> Append(reader.answers, Nowhere)]
              /\ UNCHANGED content
    BY <1>21 DEF Read
  <2>3. /\ ask \in [unit : MetalUnits, region : RegionSet]
        /\ Tail(reader.requests) \in Seq([unit : MetalUnits, region : RegionSet])
    <3> DEFINE Asks == [unit : MetalUnits, region : RegionSet]
    <3>1. reader.requests \in Seq(Asks) /\ reader.requests # <<>>  BY <2>2, PassIs
    <3> HIDE DEF Asks
    <3>2. ask \in Asks /\ Tail(reader.requests) \in Seq(Asks)  BY <3>1, Tails
    <3> QED  BY <3>2 DEF Asks
  <2>4. ask.region \in RegionSet /\ ask.unit \in MetalUnits
    BY <2>3
  <2> HIDE DEF ask
  <2>5. /\ Inside(ask.unit) \in Written
        /\ Append(reader.answers, ask.region) \in Seq(Places)
        /\ Append(reader.answers, Nowhere) \in Seq(Places)
    BY <2>4, PassIs, StreamIs DEF Inside, Written, Places
  <2>6. content' \in [RegionSet -> Written \cup {Torn, <<0, 1>>}]
    BY <1>0, <2>2, <2>4, <2>5
  <2>7. reader' \in Readers
    <3> DEFINE given == [requests |-> Tail(reader.requests),
                         answers |-> Append(reader.answers, ask.region)]
               failed == [requests |-> Tail(reader.requests),
                          answers |-> Append(reader.answers, Nowhere)]
    <3>1. given \in Readers /\ failed \in Readers
      BY <2>3, <2>5 DEF Readers
    <3>2. reader' = reader \/ reader' = given \/ reader' = failed
      BY <2>2
    <3> HIDE DEF given, failed
    <3> QED  BY <1>0, <3>1, <3>2
  <2> QED  BY <1>0, <2>1, <2>6, <2>7 DEF HostTypes
<1> QED  BY <1>3, <1>4, <1>5, <1>6, <1>7, <1>8, <1>9, <1>10, <1>11, <1>12, <1>13, <1>14, <1>15,
            <1>16, <1>17, <1>18, <1>19, <1>20, <1>21 DEF MetalNext, MetalHost

-------------------------------------------------------------------------------
(* What a step makes of the operations *)

Batch == [number : Nat, ops : Seq(Operations), ran : Nat]

LEMMA GpuIs ==
    ASSUME GpuTypes
    PROVE  /\ encoding \in Seq(Operations) /\ DOMAIN encoding = 1 .. Len(encoding)
           /\ Len(encoding) \in Nat
           /\ batches \in Seq(Batch) /\ DOMAIN batches = 1 .. Len(batches) /\ Len(batches) \in Nat
           /\ \A k \in DOMAIN batches :
                /\ batches[k] \in Batch /\ batches[k].number \in Nat
                /\ batches[k].ops \in Seq(Operations)
                /\ DOMAIN batches[k].ops = 1 .. Len(batches[k].ops)
                /\ batches[k].ran \in Nat /\ Len(batches[k].ops) \in Nat
                /\ batches[k].ran <= Len(batches[k].ops)
           /\ waits \in Seq([number : Nat, retired : Seq(Buffers)])
           /\ DOMAIN waits = 1 .. Len(waits) /\ Len(waits) \in Nat
           /\ \A k \in DOMAIN waits : waits[k].number \in Nat /\ waits[k].retired \in Seq(Buffers)
           /\ pool.free \in Seq(Buffers) /\ pool.retired \in Seq(Buffers)
           /\ data \in [Buffers -> Nat \X Nat]
<1>1. encoding \in Seq(Operations) /\ batches \in Seq(Batch)
      /\ waits \in Seq([number : Nat, retired : Seq(Buffers)])
      /\ pool \in [free : Seq(Buffers), retired : Seq(Buffers)]
      /\ data \in [Buffers -> Nat \X Nat]
  BY DEF GpuTypes, Batch
<1>2. ASSUME NEW k \in DOMAIN batches
      PROVE  /\ batches[k] \in Batch /\ batches[k].number \in Nat
             /\ batches[k].ops \in Seq(Operations)
             /\ DOMAIN batches[k].ops = 1 .. Len(batches[k].ops)
             /\ batches[k].ran \in Nat /\ Len(batches[k].ops) \in Nat
             /\ batches[k].ran <= Len(batches[k].ops)
  <2>1. batches[k] \in Batch  BY <1>1
  <2> QED  BY <2>1 DEF Batch, GpuTypes
<1>3. ASSUME NEW k \in DOMAIN waits
      PROVE  waits[k].number \in Nat /\ waits[k].retired \in Seq(Buffers)
  <2>1. waits[k] \in [number : Nat, retired : Seq(Buffers)]
    <3> DEFINE X == [number : Nat, retired : Seq(Buffers)]
    <3>1. waits \in Seq(X)  BY <1>1
    <3> HIDE DEF X
    <3>2. waits[k] \in X  BY <1>3, <3>1
    <3> QED  BY <3>2 DEF X
  <2> QED  BY <2>1
<1>4. pool.free \in Seq(Buffers) /\ pool.retired \in Seq(Buffers)
  BY <1>1
<1>5. /\ DOMAIN encoding = 1 .. Len(encoding) /\ Len(encoding) \in Nat
      /\ DOMAIN batches = 1 .. Len(batches) /\ Len(batches) \in Nat
      /\ DOMAIN waits = 1 .. Len(waits) /\ Len(waits) \in Nat
  BY <1>1
<1> QED  BY <1>1, <1>2, <1>3, <1>4, <1>5

LEMMA HeldAre ==
    ASSUME GpuTypes
    PROVE  /\ \A k \in DOMAIN encoding : encoding[k] \in Held
           /\ \A k \in DOMAIN batches : \A j \in DOMAIN batches[k].ops : batches[k].ops[j] \in Held
           /\ \A op \in Held :
                \/ \E k \in DOMAIN encoding : encoding[k] = op
                \/ \E k \in DOMAIN batches : \E j \in DOMAIN batches[k].ops : batches[k].ops[j] = op
           /\ Held \subseteq Operations
<1>1. /\ \A k \in DOMAIN encoding : encoding[k] \in Held
      /\ \A k \in DOMAIN batches : \A j \in DOMAIN batches[k].ops : batches[k].ops[j] \in Held
  BY DEF Held, ToSet
<1>2. \A op \in Held :
        \/ \E k \in DOMAIN encoding : encoding[k] = op
        \/ \E k \in DOMAIN batches : \E j \in DOMAIN batches[k].ops : batches[k].ops[j] = op
  BY DEF Held, ToSet
<1>3. \A k \in DOMAIN encoding : encoding[k] \in Operations
  BY GpuIs
<1>4. \A k \in DOMAIN batches : \A j \in DOMAIN batches[k].ops : batches[k].ops[j] \in Operations
  BY GpuIs
<1> QED  BY <1>1, <1>2, <1>3, <1>4

Left(batch) == batch.ran + 1 .. Len(batch.ops)

LEMMA PendingAre ==
    ASSUME GpuTypes
    PROVE  /\ \A k \in DOMAIN encoding : encoding[k] \in Pending
           /\ \A k \in DOMAIN batches : \A j \in Left(batches[k]) :
                batches[k].ops[j] \in Pending /\ j \in DOMAIN batches[k].ops
           /\ \A op \in Pending :
                \/ \E k \in DOMAIN encoding : encoding[k] = op
                \/ \E k \in DOMAIN batches : \E j \in Left(batches[k]) : batches[k].ops[j] = op
           /\ Pending \subseteq Held /\ Pending \subseteq Operations
<1>1. /\ \A k \in DOMAIN encoding : encoding[k] \in Pending
      /\ \A k \in DOMAIN batches : \A j \in Left(batches[k]) : batches[k].ops[j] \in Pending
  BY DEF Pending, ToSet, Left
<1>2. ASSUME NEW k \in DOMAIN batches, NEW j \in Left(batches[k])
      PROVE  j \in DOMAIN batches[k].ops
  <2>1. batches[k].ran \in Nat /\ Len(batches[k].ops) \in Nat
        /\ DOMAIN batches[k].ops = 1 .. Len(batches[k].ops)
    BY GpuIs
  <2> QED  BY <2>1 DEF Left
<1>3. \A op \in Pending :
        \/ \E k \in DOMAIN encoding : encoding[k] = op
        \/ \E k \in DOMAIN batches : \E j \in Left(batches[k]) : batches[k].ops[j] = op
  BY DEF Pending, ToSet, Left
<1>4. Pending \subseteq Held
  BY <1>2, <1>3, HeldAre
<1> QED  BY <1>1, <1>2, <1>3, <1>4, HeldAre

LEMMA OverIs ==
    ASSUME GpuTypes, NEW r
    PROVE  /\ (\E op \in Held : op.region = r) => IsOver(r)
           /\ \A u \in MetalUnits : tensors[u] = r => IsOver(r)
<1>1. ASSUME NEW op \in Held, op.region = r PROVE r \in HeldBy(Over)
  <2>1. CASE \E k \in DOMAIN encoding : encoding[k] = op
    BY <1>1, <2>1 DEF HeldBy, Over
  <2>2. CASE \E k \in DOMAIN batches : \E j \in DOMAIN batches[k].ops : batches[k].ops[j] = op
    <3>1. PICK k \in DOMAIN batches : \E j \in DOMAIN batches[k].ops : batches[k].ops[j] = op
      BY <2>2
    <3>2. r \in Over(batches[k].ops)
      BY <1>1, <3>1 DEF Over
    <3> QED  BY <3>2 DEF HeldBy
  <2> QED  BY <2>1, <2>2, HeldAre
<1> QED  BY <1>1 DEF IsOver

LEMMA SameOps ==
    ASSUME UNCHANGED <<encoding, batches>>
    PROVE  Held' = Held /\ Pending' = Pending
  BY DEF Held, Pending

LEMMA CommitOps ==
    ASSUME GpuTypes, NEW n \in Nat, encoding' = <<>>,
           batches' = Append(batches, [number |-> n, ops |-> encoding, ran |-> 0])
    PROVE  /\ Held' = Held /\ Pending' = Pending
           /\ batches' \in Seq(Batch) /\ Len(batches') = Len(batches) + 1
           /\ DOMAIN batches' = 1 .. Len(batches) + 1
           /\ \A k \in DOMAIN batches : batches'[k] = batches[k] /\ k \in DOMAIN batches'
           /\ batches'[Len(batches) + 1] = [number |-> n, ops |-> encoding, ran |-> 0]
           /\ \A k \in DOMAIN batches' : k \in DOMAIN batches \/ k = Len(batches) + 1
<1> DEFINE new == [number |-> n, ops |-> encoding, ran |-> 0]
           last == Len(batches) + 1
<1>1. new \in Batch /\ new.ops = encoding /\ new.ran = 0 /\ Len(encoding) \in Nat
      /\ DOMAIN encoding = 1 .. Len(encoding)
  BY GpuIs DEF Batch
<1>2. Left(new) = DOMAIN encoding
  BY <1>1 DEF Left
<1> HIDE DEF new
<1>3. /\ batches' \in Seq(Batch) /\ Len(batches') = Len(batches) + 1
      /\ DOMAIN batches' = 1 .. Len(batches) + 1
      /\ \A k \in DOMAIN batches : batches'[k] = batches[k] /\ k \in DOMAIN batches'
      /\ batches'[last] = new /\ last \in DOMAIN batches'
      /\ \A k \in DOMAIN batches' : k \in DOMAIN batches \/ k = last
  <2>1. batches \in Seq(Batch) /\ DOMAIN batches = 1 .. Len(batches)
        /\ batches' = Append(batches, new)
    BY GpuIs DEF new
  <2> QED  BY <1>1, <2>1
<1> HIDE DEF last
<1>4. \A k \in DOMAIN encoding' : FALSE
  OBVIOUS
<1>5. \A op : op \in Held' <=> op \in Held
  BY <1>1, <1>3, <1>4 DEF Held, ToSet
<1>6. \A op : op \in Pending' <=>
              \/ \E k \in DOMAIN encoding' : encoding'[k] = op
              \/ \E k \in DOMAIN batches' : \E j \in Left(batches'[k]) : batches'[k].ops[j] = op
  BY DEF Pending, ToSet, Left
<1>7. \A op : op \in Pending <=>
              \/ \E k \in DOMAIN encoding : encoding[k] = op
              \/ \E k \in DOMAIN batches : \E j \in Left(batches[k]) : batches[k].ops[j] = op
  BY DEF Pending, ToSet, Left
<1>8. \A op : op \in Pending' <=> op \in Pending
  <2>1. ASSUME NEW op \in Pending' PROVE op \in Pending
    BY <1>1, <1>2, <1>3, <1>4, <1>6, <1>7
  <2>2. ASSUME NEW op \in Pending PROVE op \in Pending'
    BY <1>1, <1>2, <1>3, <1>6, <1>7
  <2> QED  BY <2>1, <2>2
<1>9. Held' = Held /\ Pending' = Pending
  BY <1>5, <1>8
<1> QED  BY <1>3, <1>9 DEF new, last

LEMMA LetGoOps ==
    ASSUME GpuTypes, NEW k \in DOMAIN batches, batches[k].ran = Len(batches[k].ops),
           batches' = RemoveAt(batches, k), encoding' = encoding
    PROVE  /\ Held' \subseteq Held /\ Pending' = Pending
           /\ batches' \in Seq(Batch) /\ DOMAIN batches' = 1 .. Len(batches) - 1
           /\ \A i \in DOMAIN batches' :
                LET was == IF i < k THEN i ELSE i + 1
                IN batches'[i] = batches[was] /\ was \in DOMAIN batches
<1> DEFINE Was(i) == IF i < k THEN i ELSE i + 1
<1>1. batches \in Seq(Batch) /\ DOMAIN batches = 1 .. Len(batches) /\ Len(batches) \in Nat
  BY GpuIs
<1>2. /\ batches' \in Seq(Batch) /\ DOMAIN batches' = 1 .. Len(batches) - 1
      /\ \A i \in DOMAIN batches' : batches'[i] = batches[Was(i)]
  <2>1. k \in 1 .. Len(batches)  BY <1>1
  <2>2. /\ RemoveAt(batches, k) \in Seq(Batch)
        /\ Len(RemoveAt(batches, k)) = Len(batches) - 1
        /\ \A i \in 1 .. Len(batches) - 1 :
             RemoveAt(batches, k)[i] = IF i < k THEN batches[i] ELSE batches[i + 1]
    <3> HIDE DEF Was
    <3> QED  BY <1>1, <2>1, Removed
  <2>3. DOMAIN batches' = 1 .. Len(batches) - 1
    BY <2>2
  <2> QED  BY <2>2, <2>3
<1>3. \A i \in DOMAIN batches' : Was(i) \in DOMAIN batches
  BY <1>1, <1>2
<1>4. \A i \in DOMAIN batches : i # k => \E j \in DOMAIN batches' : Was(j) = i
  <2>1. ASSUME NEW i \in DOMAIN batches, i # k PROVE \E j \in DOMAIN batches' : Was(j) = i
    <3>1. CASE i < k
      <4>1. i \in DOMAIN batches' /\ Was(i) = i  BY <1>1, <1>2, <3>1
      <4> QED  BY <4>1
    <3>2. CASE ~(i < k)
      <4>1. i - 1 \in DOMAIN batches' /\ Was(i - 1) = i  BY <1>1, <1>2, <2>1, <3>2
      <4> QED  BY <4>1
    <3> QED  BY <3>1, <3>2
  <2> QED  BY <2>1
<1> HIDE DEF Was
<1>5. Left(batches[k]) = {}
  <2>1. batches[k].ran \in Nat  BY GpuIs
  <2> QED  BY <2>1 DEF Left
<1>6. ASSUME NEW op \in Held' PROVE op \in Held
  <2>1. CASE \E i \in DOMAIN encoding : encoding[i] = op
    BY <2>1, HeldAre
  <2>2. CASE \E i \in DOMAIN batches' : \E j \in DOMAIN batches'[i].ops : batches'[i].ops[j] = op
    BY <1>2, <1>3, <2>2, HeldAre
  <2> QED  BY <1>6, <2>1, <2>2 DEF Held, ToSet
<1>7. \A op : op \in Pending' <=>
              \/ \E i \in DOMAIN encoding' : encoding'[i] = op
              \/ \E i \in DOMAIN batches' : \E j \in Left(batches'[i]) : batches'[i].ops[j] = op
  BY DEF Pending, ToSet, Left
<1>8. ASSUME NEW op \in Pending' PROVE op \in Pending
  BY <1>2, <1>3, <1>7, <1>8, PendingAre
<1>9. ASSUME NEW op \in Pending PROVE op \in Pending'
  <2>1. CASE \E i \in DOMAIN encoding : encoding[i] = op
    BY <1>7, <2>1
  <2>2. CASE \E i \in DOMAIN batches : \E j \in Left(batches[i]) : batches[i].ops[j] = op
    <3>1. PICK i \in DOMAIN batches : \E j \in Left(batches[i]) : batches[i].ops[j] = op
      BY <2>2
    <3>2. i # k  BY <1>5, <3>1
    <3>3. PICK m \in DOMAIN batches' : Was(m) = i  BY <1>4, <3>2
    <3>4. batches'[m] = batches[i]  BY <1>2, <3>3
    <3> QED  BY <1>7, <3>1, <3>4
  <2> QED  BY <1>9, <2>1, <2>2, PendingAre
<1>10. Pending' = Pending
  BY <1>8, <1>9
<1> QED  BY <1>2, <1>3, <1>6, <1>10 DEF Was

Ran(k) ==
    /\ k \in DOMAIN batches /\ batches[k].ran < Len(batches[k].ops)
    /\ batches' = [batches EXCEPT ![k].ran = @ + 1]
    /\ UNCHANGED encoding

NextOp(k) == batches[k].ops[batches[k].ran + 1]

LEMMA RunOps ==
    ASSUME GpuTypes, NEW k, Ran(k)
    PROVE  /\ Held' = Held
           /\ batches' \in Seq(Batch) /\ DOMAIN batches' = DOMAIN batches
           /\ \A i \in DOMAIN batches :
                /\ batches'[i].ops = batches[i].ops /\ batches'[i].number = batches[i].number
                /\ batches'[i].ran = IF i = k THEN batches[i].ran + 1 ELSE batches[i].ran
                /\ batches'[i].ran <= Len(batches'[i].ops)
           /\ batches[k].ran + 1 \in Left(batches[k])
           /\ \A i \in DOMAIN batches : \A j : j \in Left(batches'[i]) <=>
                j \in Left(batches[i]) /\ ~(i = k /\ j = batches[k].ran + 1)
           /\ NextOp(k) \in Pending /\ Pending' \subseteq Pending
           /\ \A op \in Pending : op = NextOp(k) \/ op \in Pending'
<1>1. /\ batches \in Seq(Batch) /\ DOMAIN batches = 1 .. Len(batches)
      /\ \A i \in DOMAIN batches :
           /\ batches[i] \in Batch /\ batches[i].ran \in Nat /\ Len(batches[i].ops) \in Nat
           /\ batches[i].ops \in Seq(Operations) /\ batches[i].ran <= Len(batches[i].ops)
      /\ k \in DOMAIN batches /\ batches[k].ran < Len(batches[k].ops)
  BY GpuIs DEF Ran
<1>2. batches' = [batches EXCEPT ![k] = [batches[k] EXCEPT !.ran = batches[k].ran + 1]]
  BY DEF Ran
<1>3. [batches[k] EXCEPT !.ran = batches[k].ran + 1] \in Batch
  <2>1. batches[k].ran + 1 \in Nat  BY <1>1
  <2> QED  BY <1>1, <2>1 DEF Batch
<1>4. batches' \in Seq(Batch) /\ DOMAIN batches' = DOMAIN batches
  BY <1>1, <1>2, <1>3
<1>5. ASSUME NEW i \in DOMAIN batches
      PROVE  /\ batches'[i].ops = batches[i].ops /\ batches'[i].number = batches[i].number
             /\ batches'[i].ran = IF i = k THEN batches[i].ran + 1 ELSE batches[i].ran
  <2>1. CASE i = k
    <3>1. batches'[i] = [batches[k] EXCEPT !.ran = batches[k].ran + 1]  BY <1>1, <1>2, <2>1
    <3>2. batches[k] \in Batch  BY <1>1
    <3> QED  BY <2>1, <3>1, <3>2 DEF Batch
  <2>2. CASE i # k
    BY <1>1, <1>2, <2>2
  <2> QED  BY <2>1, <2>2
<1>6. \A i \in DOMAIN batches : batches'[i].ran <= Len(batches'[i].ops)
  BY <1>1, <1>5
<1>7. batches[k].ran + 1 \in Left(batches[k])
  BY <1>1 DEF Left
<1>8. ASSUME NEW i \in DOMAIN batches, NEW j
      PROVE  j \in Left(batches'[i]) <=>
               j \in Left(batches[i]) /\ ~(i = k /\ j = batches[k].ran + 1)
  <2>1. batches'[i].ops = batches[i].ops /\ batches[i].ran \in Nat /\ Len(batches[i].ops) \in Nat
        /\ batches'[i].ran = IF i = k THEN batches[i].ran + 1 ELSE batches[i].ran
    BY <1>1, <1>5
  <2> QED  BY <2>1 DEF Left
<1>9. \A op : op \in Pending' <=>
              \/ \E i \in DOMAIN encoding' : encoding'[i] = op
              \/ \E i \in DOMAIN batches' : \E j \in Left(batches'[i]) : batches'[i].ops[j] = op
  BY DEF Pending, ToSet, Left
<1>10. encoding' = encoding
  BY DEF Ran
<1>11. Pending' \subseteq Pending
  BY <1>4, <1>5, <1>8, <1>9, <1>10, PendingAre
<1>12. ASSUME NEW op \in Pending, op # NextOp(k) PROVE op \in Pending'
  <2>1. CASE \E i \in DOMAIN encoding : encoding[i] = op
    BY <1>9, <1>10, <2>1
  <2>2. CASE \E i \in DOMAIN batches : \E j \in Left(batches[i]) : batches[i].ops[j] = op
    <3>1. PICK i \in DOMAIN batches : \E j \in Left(batches[i]) : batches[i].ops[j] = op
      BY <2>2
    <3>2. PICK j \in Left(batches[i]) : batches[i].ops[j] = op
      BY <3>1
    <3>3. ~(i = k /\ j = batches[k].ran + 1)
      BY <1>12, <3>2 DEF NextOp
    <3>4. j \in Left(batches'[i]) /\ batches'[i].ops[j] = op
      BY <1>5, <1>8, <3>2, <3>3
    <3> QED  BY <1>4, <1>9, <3>4
  <2> QED  BY <1>12, <2>1, <2>2, PendingAre
<1>13. NextOp(k) \in Pending
  BY <1>1, <1>7, PendingAre DEF NextOp
<1>14. Held' = Held
  BY <1>4, <1>5, <1>10 DEF Held, ToSet
<1> QED  BY <1>4, <1>5, <1>6, <1>7, <1>8, <1>11, <1>12, <1>13, <1>14

LEMMA EncodeOps ==
    ASSUME GpuTypes, NEW op \in Operations, encoding' = Append(encoding, op), batches' = batches
    PROVE  /\ Held' = Held \cup {op} /\ Pending' = Pending \cup {op}
           /\ encoding' \in Seq(Operations) /\ DOMAIN encoding' = 1 .. Len(encoding) + 1
           /\ \A k \in DOMAIN encoding : encoding'[k] = encoding[k]
           /\ encoding'[Len(encoding) + 1] = op
           /\ \A k \in DOMAIN encoding' : k \in DOMAIN encoding \/ k = Len(encoding) + 1
<1>1. encoding \in Seq(Operations) /\ DOMAIN encoding = 1 .. Len(encoding)
  BY GpuIs
<1>2. ToSet(encoding') = ToSet(encoding) \cup {op}
  BY <1>1, OneMore
<1>3. Held' = Held \cup {op} /\ Pending' = Pending \cup {op}
  BY <1>2 DEF Held, Pending
<1> QED  BY <1>1, <1>3

Encoded(input, out) ==
    [region |-> tensors[host.unit], unit |-> Inside(host.unit), kernel |-> MetalKernel,
     input |-> input, from |-> host.from, out |-> out]

LEMMA GivenAre ==
    ASSUME GpuTypes, NEW input \in MetalGiven(pool.free, {}),
           NEW out \in MetalGiven(Popped(pool.free), {input})
    PROVE  input \in Buffers /\ out \in Buffers
<1>1. pool.free \in Seq(Buffers)
  BY GpuIs
<1>2. Popped(pool.free) \in Seq(Buffers)
  BY <1>1, Fronts DEF Popped
<1>3. input \in Buffers
  BY <1>1, Fronts DEF MetalGiven
<1>4. out \in Buffers
  BY <1>2, Fronts DEF MetalGiven
<1> QED  BY <1>3, <1>4

LEMMA EncodedIs ==
    ASSUME HostTypes, host.at = "encode", TensorsHold, NEW input \in Buffers, NEW out \in Buffers
    PROVE  Encoded(input, out) \in Operations
<1>1. tensors[host.unit] \in RegionSet
  BY HostIs, PassIs, RegionsAre DEF TensorsHold, Entered
<1>2. Inside(host.unit) \in Written
  BY HostIs, StreamIs DEF Inside, Written
<1>3. MetalKernel \in Nat \X MetalUnits
  BY HostIs DEF MetalKernel
<1> QED  BY <1>1, <1>2, <1>3, HostIs DEF Encoded, Operations

(* What a step does to the operations. *)
SameGpu == UNCHANGED <<encoding, batches>>
Committed ==
    /\ encoding # <<>> /\ encoding' = <<>>
    /\ batches' = Append(batches, [number |-> host.batch + 1, ops |-> encoding, ran |-> 0])
    /\ waits' = Append(waits, [number |-> host.batch + 1, retired |-> pool.retired])
    /\ pool' = [pool EXCEPT !.retired = <<>>]
    /\ UNCHANGED data
Went(k) ==
    /\ k \in DOMAIN batches /\ batches[k].ran = Len(batches[k].ops)
    /\ batches' = RemoveAt(batches, k) /\ encoding' = encoding
    /\ UNCHANGED <<waits, pool, data>>

LEMMA FlushGpu ==
    ASSUME NEW limit, NEW at, Flush(limit, at), UNCHANGED data
    PROVE  \/ encoding = <<>> /\ UNCHANGED gpu
           \/ Committed
  BY DEF Flush, Commit, Committed, gpu, commands

LEMMA Shapes ==
    ASSUME MetalNext
    PROVE  \/ SameGpu
           \/ Committed
           \/ \E k : Ran(k)
           \/ \E k : Went(k)
           \/ /\ Encode
              /\ \E input \in MetalGiven(pool.free, {}) :
                 \E out \in MetalGiven(Popped(pool.free), {input}) :
                   encoding' = Append(encoding, Encoded(input, out)) /\ batches' = batches
<1>1. CASE LetGoFirst
  BY <1>1, FlushGpu DEF LetGoFirst, gpu, commands, SameGpu
<1>2. CASE Starve
  BY <1>2, FlushGpu DEF Starve, gpu, commands, SameGpu
<1>3. CASE MetalLeave
  BY <1>3, FlushGpu DEF MetalLeave, gpu, commands, SameGpu
<1>4. CASE ReadBack
  BY <1>4, FlushGpu DEF ReadBack, gpu, commands, SameGpu
<1>5. CASE MakeWay
  BY <1>5, FlushGpu DEF MakeWay, gpu, commands, SameGpu
<1>6. CASE MetalRun
  BY <1>6 DEF MetalRun, Ran
<1>7. CASE MetalLetGo
  BY <1>7 DEF MetalLetGo, Went
<1>8. CASE Encode
  BY <1>8 DEF Encode, Encoded
<1>9. CASE MetalBegin \/ MetalSettle \/ OpenPass \/ MetalRequest \/ Enter \/ Answer
  BY <1>9 DEF MetalBegin, MetalSettle, OpenPass, MetalRequest, Enter, Answer, gpu, commands, SameGpu
<1>10. CASE WaitForRegion \/ OutOfMemory \/ TakeBack \/ Close \/ Wait \/ Patch \/ BlockFails \/ Read
  BY <1>10 DEF WaitForRegion, OutOfMemory, TakeBack, Close, Wait, Patch, BlockFails, Read, gpu,
     commands, SameGpu
<1> QED  BY <1>1, <1>2, <1>3, <1>4, <1>5, <1>6, <1>7, <1>8, <1>9, <1>10 DEF MetalNext, MetalHost

-------------------------------------------------------------------------------
(* What is held stays as it was *)

InHand == Asked /\ OneTaker /\ OwnUnits /\ OneAsk

LEMMA ContentStays ==
    ASSUME HostTypes, GpuTypes, HeldStays, TensorsHold, MetalNext, NEW r \in RegionSet
    PROVE  \/ content'[r] = content[r]
           \/ /\ ToRead(r) /\ \A op \in Held : op.region # r
              /\ \A u \in MetalUnits : tensors[u] # r
<1>1. CASE ~Read
  BY <1>1 DEF MetalNext, MetalHost, MetalBegin, LetGoFirst, MetalSettle, OpenPass, MetalRequest,
     Enter, Answer, Starve, WaitForRegion, OutOfMemory, Encode, MetalLeave, ReadBack, TakeBack,
     Close, Wait, Patch, MakeWay, BlockFails, MetalRun, MetalLetGo
<1>2. CASE Read
  <2> DEFINE ask == Head(reader.requests)
  <2>1. /\ reader.requests # <<>>
        /\ \/ /\ content[ask.region] # Torn /\ ~IsOver(ask.region)
              /\ content' = [content EXCEPT ![ask.region] = Torn]
           \/ /\ content[ask.region] = Torn
              /\ content' = [content EXCEPT ![ask.region] = Inside(ask.unit)]
           \/ content' = content
    BY <1>2 DEF Read
  <2>2. ToRead(ask.region)
    <3>1. 1 \in DOMAIN reader.requests /\ ask = reader.requests[1]
      <4> DEFINE Asks == [unit : MetalUnits, region : RegionSet]
      <4>1. reader.requests \in Seq(Asks)  BY PassIs
      <4> HIDE DEF Asks
      <4> QED  BY <2>1, <4>1
    <3> QED  BY <3>1 DEF ToRead
  <2>3. content[ask.region] = Torn \/ ~IsOver(ask.region) =>
          /\ \A op \in Held : op.region # ask.region
          /\ \A u \in MetalUnits : tensors[u] # ask.region
    <3> HIDE DEF ask
    <3>1. CASE ~IsOver(ask.region)
      BY <3>1, OverIs
    <3>2. CASE content[ask.region] = Torn
      <4>1. ASSUME NEW op \in Held, op.region = ask.region PROVE FALSE
        <5>1. op \in Operations  BY HeldAre
        <5>2. op.unit \in Written  BY <5>1 DEF Operations
        <5> QED  BY <3>2, <4>1, <5>2, RegionsAre DEF HeldStays
      <4>2. ASSUME NEW u \in MetalUnits, tensors[u] = ask.region PROVE FALSE
        <5>1. tensors[u] \in Places  BY PassIs
        <5>2. CASE tensors[u] # Nowhere
          BY <3>2, <4>2, <5>2, RegionsAre DEF TensorsHold
        <5>3. CASE tensors[u] = Nowhere
          <6> DEFINE Asks == [unit : MetalUnits, region : RegionSet]
          <6>1. reader.requests \in Seq(Asks)  BY PassIs
          <6> HIDE DEF Asks
          <6>2. ask \in Asks  BY <2>1, <6>1 DEF ask
          <6>3. ask.region \in RegionSet  BY <6>2 DEF Asks
          <6> QED  BY <4>2, <5>3, <6>3, RegionsAre
        <5> QED  BY <5>2, <5>3
      <4> QED  BY <4>1, <4>2
    <3> QED  BY <3>1, <3>2
  <2>4. content \in [RegionSet -> Written \cup {Torn, <<0, 1>>}]
    BY PassIs
  <2> HIDE DEF ask
  <2>5. CASE r = ask.region
    BY <2>1, <2>2, <2>3, <2>5
  <2>6. CASE r # ask.region
    BY <2>1, <2>4, <2>6
  <2> QED  BY <2>5, <2>6
<1> QED  BY <1>1, <1>2

LEMMA HeldStaysOn ==
    ASSUME HostTypes, GpuTypes, HeldStays, TensorsHold, MetalNext
    PROVE  HeldStays'
<1>1. ASSUME NEW op \in Held PROVE content'[op.region] = op.unit
  <2>1. op.region \in RegionSet
    BY HeldAre DEF Operations
  <2> QED  BY <1>1, <2>1, ContentStays DEF HeldStays
<1>2. CASE SameGpu
  BY <1>1, <1>2, SameOps DEF HeldStays, SameGpu
<1>3. CASE Committed
  <2>1. host.batch + 1 \in Nat  BY HostIs
  <2>2. Held' = Held  BY <1>3, <2>1, CommitOps DEF Committed
  <2> QED  BY <1>1, <2>2 DEF HeldStays
<1>4. CASE \E k : Ran(k)
  BY <1>1, <1>4, RunOps DEF HeldStays
<1>5. CASE \E k : Went(k)
  <2>1. Held' \subseteq Held  BY <1>5, LetGoOps DEF Went
  <2> QED  BY <1>1, <2>1 DEF HeldStays
<1>6. ASSUME Encode, NEW input \in MetalGiven(pool.free, {}),
             NEW out \in MetalGiven(Popped(pool.free), {input}),
             encoding' = Append(encoding, Encoded(input, out)), batches' = batches
      PROVE  HeldStays'
  <2>1. host.at = "encode" /\ content' = content
    BY <1>6 DEF Encode
  <2>2. Encoded(input, out) \in Operations
    BY <1>6, <2>1, EncodedIs, GivenAre
  <2>3. Held' = Held \cup {Encoded(input, out)}
    BY <1>6, <2>2, EncodeOps
  <2>4. content[tensors[host.unit]] = Inside(host.unit)
    BY <2>1 DEF TensorsHold, Entered
  <2>5. content'[Encoded(input, out).region] = Encoded(input, out).unit
    BY <2>1, <2>4 DEF Encoded
  <2> QED  BY <1>1, <2>3, <2>5 DEF HeldStays
<1> QED  BY <1>2, <1>3, <1>4, <1>5, <1>6, Shapes

LEMMA TensorsKept ==
    ASSUME HostTypes, TensorsHold,
           \A u \in MetalUnits : tensors[u] # Nowhere => content'[tensors[u]] = content[tensors[u]],
           \A u \in MetalUnits : tensors'[u] \in {tensors[u], Nowhere},
           stream'.there \subseteq stream.there,
           \A u \in stream'.there : tensors'[u] = tensors[u],
           stream'.version = stream.version \/ (stream'.there = {} /\ ~Entered'),
           Entered' => Entered /\ host'.unit = host.unit /\ tensors'[host.unit] = tensors[host.unit]
    PROVE  TensorsHold'
<1>1. \A u \in MetalUnits : tensors'[u] # Nowhere => content'[tensors'[u]] \in Written
  BY DEF TensorsHold
<1>2. \A u \in stream'.there : u \in MetalUnits /\ u \in stream.there
  BY StreamIs
<1>3. ASSUME NEW u \in stream'.there
      PROVE  tensors'[u] # Nowhere /\ content'[tensors'[u]] = <<u, stream'.version>>
  BY <1>2, <1>3 DEF TensorsHold, Inside
<1>4. ASSUME Entered'
      PROVE  /\ tensors'[host'.unit] # Nowhere
             /\ content'[tensors'[host'.unit]] = <<host'.unit, stream'.version>>
  BY <1>4, HostIs DEF TensorsHold, Inside
<1> QED  BY <1>1, <1>3, <1>4 DEF TensorsHold, Inside

LEMMA TensorsHoldOn ==
    ASSUME HostTypes, GpuTypes, HeldStays, TensorsHold, Asked, MetalNext
    PROVE  TensorsHold'
<1>1. ASSUME NEW u \in MetalUnits, tensors[u] # Nowhere
      PROVE  content'[tensors[u]] = content[tensors[u]]
  <2>1. tensors[u] \in RegionSet  BY <1>1, PassIs, RegionsAre
  <2> QED  BY <2>1, ContentStays
<1>2. ASSUME tensors' = tensors, stream'.there = stream.there, stream'.version = stream.version,
             Entered' => Entered /\ host'.unit = host.unit
      PROVE  TensorsHold'
  BY <1>1, <1>2, TensorsKept
<1>3. CASE MetalBegin
  <2>1. UNCHANGED <<stream, tensors>> /\ host'.at \in {"open", "settle"}
    BY <1>3 DEF MetalBegin, HostTypes, Hosts
  <2>2. ~Entered'
    BY <2>1 DEF Entered
  <2> QED  BY <1>2, <2>1, <2>2
<1>4. ASSUME LetGoOfKept, stream'.there = {}, ~Entered'
      PROVE  TensorsHold'
  <2>1. \A u \in MetalUnits : tensors'[u] \in {tensors[u], Nowhere}
    BY <1>4 DEF LetGoOfKept
  <2> QED  BY <1>1, <1>4, <2>1, TensorsKept
<1>5. CASE LetGoFirst
  <2>1. LetGoOfKept /\ stream'.there = {}
    BY <1>5 DEF LetGoFirst, HostTypes, Streams
  <2>2. host'.at = "settling"
    BY <1>5, FlushHost DEF LetGoFirst
  <2> QED  BY <1>4, <2>1, <2>2 DEF Entered
<1>6. CASE Patch
  <2>1. LetGoOfKept /\ stream'.there = {} /\ host' = host /\ host.at = "idle"
    BY <1>6 DEF Patch
  <2> QED  BY <1>4, <2>1 DEF Entered
<1>7. CASE MetalSettle
  <2>1. tensors' = tensors /\ stream'.there = stream.there /\ stream'.version = stream.version
        /\ host'.at = "open"
    BY <1>7 DEF MetalSettle, HostTypes, Streams, Hosts
  <2> QED  BY <1>2, <2>1 DEF Entered
<1>8. CASE OpenPass
  <2>1. UNCHANGED <<stream, tensors>> /\ host'.at = "request" /\ host'.then = "enter"
    BY <1>8 DEF OpenPass, HostTypes, Hosts
  <2> QED  BY <1>2, <2>1 DEF Entered
<1>9. CASE MetalRequest
  <2>0. host.at = "request" /\ tensors' = tensors /\ host \in Hosts /\ stream \in Streams
    BY <1>9 DEF MetalRequest, HostTypes
  <2>1. CASE MetalTake(pass.queue[pass.next])
    <3>1. stream'.there = stream.there /\ stream'.version = stream.version
      BY <2>0, <2>1 DEF MetalTake, Streams
    <3>2. host' = host \/ host'.at = "failing"
      BY <2>0, <2>1 DEF MetalTake, Fail, Hosts
    <3>3. Entered' => Entered /\ host'.unit = host.unit
      BY <3>2 DEF Entered
    <3> QED  BY <1>2, <2>0, <3>1, <3>3
  <2>2. CASE host' = [host EXCEPT !.at = host.then] /\ UNCHANGED <<stream, pass, reader>>
    <3>1. host'.at = host.then /\ host'.then = host.then /\ host'.unit = host.unit
          /\ host.then \in {"enter", "encode"}
      BY <2>0, <2>2 DEF Hosts
    <3>2. Entered' => Entered
      BY <2>0, <3>1 DEF Entered
    <3> QED  BY <1>2, <2>0, <2>2, <3>1, <3>2
  <2> QED  BY <1>9, <2>1, <2>2 DEF MetalRequest
<1>10. CASE Enter
  <2> DEFINE u == host.unit
             r == pass.ready[u]
  <2>0. /\ host \in Hosts /\ stream \in Streams /\ u \in MetalUnits /\ content' = content
        /\ tensors \in [MetalUnits -> Places]
    BY <1>10, HostIs, PassIs DEF Enter, HostTypes
  <2>1. CASE /\ u \in stream.there /\ host' = [host EXCEPT !.at = "encode"]
             /\ UNCHANGED <<stream, pass, tensors>>
    <3>1. host'.unit = u
      BY <2>0, <2>1 DEF Hosts
    <3>2. tensors[u] # Nowhere /\ content[tensors[u]] = Inside(u)
      BY <2>1 DEF TensorsHold
    <3> QED  BY <2>0, <2>1, <3>1, <3>2 DEF TensorsHold, Inside
  <2>2. CASE /\ u \notin stream.there /\ r # Nowhere
             /\ tensors' = [tensors EXCEPT ![u] = r]
             /\ stream' = IF u \in stream.kept
                          THEN [stream EXCEPT !.there = @ \cup {u}]
                          ELSE [stream EXCEPT !.used = Append(@, r)]
             /\ host' = [host EXCEPT !.at = "request", !.then = "encode"]
    <3>1. host'.unit = u
      BY <2>0, <2>2 DEF Hosts
    <3>2. stream'.version = stream.version /\ stream'.there \subseteq stream.there \cup {u}
      BY <2>0, <2>2 DEF Streams
    <3>3. content[r] = Inside(u) /\ Inside(u) \in Written
      BY <2>0, <2>2, StreamIs DEF Asked, Inside, Written
    <3>4. tensors'[u] = r /\ \A v \in MetalUnits : v # u => tensors'[v] = tensors[v]
      BY <2>0, <2>2
    <3> HIDE DEF u, r
    <3>5. \A v \in MetalUnits : tensors'[v] # Nowhere => content'[tensors'[v]] \in Written
      BY <2>0, <3>3, <3>4 DEF TensorsHold
    <3>6. ASSUME NEW v \in stream'.there
          PROVE  tensors'[v] # Nowhere /\ content'[tensors'[v]] = <<v, stream'.version>>
      <4>1. v = u \/ v \in stream.there  BY <3>2, <3>6
      <4>2. CASE v = u
        BY <2>0, <2>2, <3>2, <3>3, <3>4, <4>2 DEF Inside
      <4>3. CASE v # u
        <5>1. v \in MetalUnits /\ v \in stream.there  BY <4>1, <4>3, StreamIs
        <5> QED  BY <2>0, <3>2, <3>4, <4>3, <5>1 DEF TensorsHold, Inside
      <4> QED  BY <4>2, <4>3
    <3>7. tensors'[host'.unit] # Nowhere
          /\ content'[tensors'[host'.unit]] = <<host'.unit, stream'.version>>
      BY <2>0, <2>2, <3>1, <3>2, <3>3, <3>4 DEF Inside
    <3> QED  BY <3>5, <3>6, <3>7 DEF TensorsHold, Inside
  <2>3. CASE Fail /\ UNCHANGED <<stream, tensors>>
    <3>1. host'.at = "failing"
      BY <2>0, <2>3 DEF Fail, Hosts
    <3> QED  BY <1>2, <2>3, <3>1 DEF Entered
  <2> QED  BY <1>10, <2>1, <2>2, <2>3 DEF Enter
<1>11. CASE Answer
  <2>1. tensors' = tensors /\ host.at = "enter" /\ host \in Hosts /\ stream \in Streams
    BY <1>11 DEF Answer, HostTypes
  <2>2. (UNCHANGED <<host, stream>>) \/
        (Fail /\ (stream' = stream \/ stream' = [stream EXCEPT !.regions = @ - 1]))
    BY <1>11 DEF Answer
  <2>3. stream'.there = stream.there /\ stream'.version = stream.version
    BY <2>1, <2>2 DEF Streams
  <2>4. ~Entered'
    BY <2>1, <2>2 DEF Fail, Hosts, Entered
  <2> QED  BY <1>2, <2>1, <2>3, <2>4
<1>12. CASE Starve \/ ReadBack
  <2>1. UNCHANGED <<stream, tensors>> /\ host'.at \in {"starved", "ending"}
    BY <1>12, FlushHost DEF Starve, ReadBack
  <2> QED  BY <1>2, <2>1 DEF Entered
<1>13. CASE WaitForRegion
  <2>1. tensors' = tensors /\ host \in Hosts /\ stream \in Streams
    BY <1>13 DEF WaitForRegion, HostTypes
  <2>2. host'.at \in {"enter", "failing"}
    BY <1>13, <2>1 DEF WaitForRegion, Hosts
  <2>3. stream'.there = stream.there /\ stream'.version = stream.version
    BY <1>13, <2>1 DEF WaitForRegion, Streams
  <2> QED  BY <1>2, <2>1, <2>2, <2>3 DEF Entered
<1>14. CASE OutOfMemory \/ BlockFails
  <2>1. UNCHANGED <<stream, tensors>> /\ host'.at = "failing"
    BY <1>14 DEF OutOfMemory, BlockFails, Fail, HostTypes, Hosts
  <2> QED  BY <1>2, <2>1 DEF Entered
<1>15. CASE Encode
  <2>1. UNCHANGED <<stream, tensors>> /\ host'.at = "leave"
    BY <1>15 DEF Encode, HostTypes, Hosts
  <2> QED  BY <1>2, <2>1 DEF Entered
<1>16. CASE MetalLeave
  <2>0. stream' = stream /\ host \in Hosts /\ tensors \in [MetalUnits -> Places]
    BY <1>16 DEF MetalLeave, HostTypes
  <2>1. CASE Flush(InFlight, "leave") /\ UNCHANGED tensors
    <3>1. host'.at = "leave"
      BY <2>1, FlushHost, ConstantsAre
    <3> QED  BY <1>2, <2>0, <2>1, <3>1 DEF Entered
  <2>2. CASE /\ tensors' = IF host.unit \in stream.there THEN tensors
                           ELSE [tensors EXCEPT ![host.unit] = Nowhere]
             /\ host' = [host EXCEPT !.at = IF host.unit = U THEN "read" ELSE "enter",
                                     !.unit = IF host.unit = U THEN 1 ELSE @ + 1]
    <3>1. host'.at \in {"read", "enter"}
      BY <2>0, <2>2 DEF Hosts
    <3>2. \A u \in MetalUnits : tensors'[u] \in {tensors[u], Nowhere}
      BY <2>0, <2>2
    <3>3. \A u \in stream'.there : tensors'[u] = tensors[u]
      <4>1. stream.there \subseteq MetalUnits  BY StreamIs
      <4> QED  BY <2>0, <2>2, <4>1
    <3> QED  BY <1>1, <2>0, <3>1, <3>2, <3>3, TensorsKept DEF Entered
  <2> QED  BY <1>16, <2>1, <2>2 DEF MetalLeave
<1>17. CASE TakeBack
  <2>1. UNCHANGED <<host, tensors>> /\ stream \in Streams
    BY <1>17 DEF TakeBack, HostTypes
  <2>2. stream'.there = stream.there /\ stream'.version = stream.version
    BY <1>17, <2>1 DEF TakeBack, Streams
  <2> QED  BY <1>2, <2>1, <2>2 DEF Entered
<1>18. CASE Close
  <2>1. tensors' = tensors /\ stream \in Streams /\ host \in Hosts
    BY <1>18 DEF Close, HostTypes
  <2>2. stream'.there = stream.there /\ stream'.version = stream.version /\ host'.at = "idle"
    BY <1>18, <2>1 DEF Close, Streams, Hosts
  <2> QED  BY <1>2, <2>1, <2>2 DEF Entered
<1>19. CASE Wait \/ MetalRun \/ MetalLetGo \/ Read
  <2>1. UNCHANGED <<host, stream, tensors>>
    BY <1>19 DEF Wait, MetalRun, MetalLetGo, Read
  <2> QED  BY <1>2, <2>1 DEF Entered
<1>20. CASE MakeWay
  <2>1. UNCHANGED <<stream, tensors>> /\ host'.unit = host.unit /\ host.at = "encode"
    BY <1>20, FlushHost DEF MakeWay
  <2> QED  BY <1>2, <2>1 DEF Entered
<1> QED  BY <1>3, <1>5, <1>6, <1>7, <1>8, <1>9, <1>10, <1>11, <1>12, <1>13, <1>14, <1>15, <1>16,
            <1>17, <1>18, <1>19, <1>20 DEF MetalNext, MetalHost

-------------------------------------------------------------------------------
(* The regions, step by step *)

Sparing ==
    /\ IsInjective(stream.spare) /\ IsInjective(stream.used)
    /\ ToSet(stream.spare) \cap ToSet(stream.used) = {}
    /\ ToSet(stream.spare) \cup ToSet(stream.used) \subseteq Turns

Hungry ==
    /\ pass.loading = <<>> /\ pass.ready[host.unit] = Nowhere
    /\ pass.queue[pass.next] = host.unit

LEMMA QueuesAre ==
    ASSUME HostTypes
    PROVE  /\ DOMAIN pass.queue = 1 .. Len(pass.queue) /\ Len(pass.queue) \in Nat
           /\ DOMAIN pass.loading = 1 .. Len(pass.loading) /\ Len(pass.loading) \in Nat
           /\ DOMAIN reader.requests = 1 .. Len(reader.requests) /\ Len(reader.requests) \in Nat
           /\ DOMAIN reader.answers = 1 .. Len(reader.answers) /\ Len(reader.answers) \in Nat
           /\ \A j \in DOMAIN pass.queue : pass.queue[j] \in MetalUnits
           /\ \A j \in DOMAIN pass.loading : pass.loading[j] \in MetalUnits
           /\ \A j \in DOMAIN reader.requests :
                reader.requests[j].unit \in MetalUnits /\ reader.requests[j].region \in RegionSet
           /\ \A j \in DOMAIN reader.answers : reader.answers[j] \in Places
<1> DEFINE Asks == [unit : MetalUnits, region : RegionSet]
<1>1. /\ reader.requests \in Seq(Asks)
      /\ \A a \in Asks : a.unit \in MetalUnits /\ a.region \in RegionSet
  BY PassIs
<1>2. pass.queue \in Seq(MetalUnits) /\ pass.loading \in Seq(MetalUnits)
      /\ reader.answers \in Seq(Places)
  BY PassIs
<1> HIDE DEF Asks
<1>3. /\ DOMAIN reader.requests = 1 .. Len(reader.requests) /\ Len(reader.requests) \in Nat
      /\ \A j \in DOMAIN reader.requests : reader.requests[j] \in Asks
  BY <1>1
<1> QED  BY <1>1, <1>2, <1>3

LEMMA HandsLess ==
    ASSUME HostTypes, InHand, Sparing', reader' = reader,
           pass'.queue = pass.queue, pass'.next = pass.next, pass'.loading = pass.loading,
           \A u \in MetalUnits : pass'.ready[u] \in {pass.ready[u], Nowhere},
           stream'.kept = stream.kept, stream'.version = stream.version,
           \A r \in RegionSet : ReadInto(r) => content'[r] = content[r],
           \A r \in RegionSet : Spared(r)' => ~ToRead(r) /\ ~ReadInto(r)',
           Settling' => pass'.loading = <<>> /\ pass'.ready = NoPass.ready,
           host'.at = "starved" => Hungry'
    PROVE  InHand'
<1>0. /\ Asked /\ OneTaker /\ OwnUnits /\ OneAsk
  BY DEF InHand
<1>1. \A r : ToRead(r)' <=> ToRead(r)
  BY DEF ToRead
<1>2. \A r \in RegionSet : ReadInto(r)' => ReadInto(r)
  BY RegionsAre DEF ReadInto
<1>3. Asked'
  <2>1. \A j \in DOMAIN reader.answers : reader.answers[j] # Nowhere =>
          content'[reader.answers[j]] = content[reader.answers[j]]
    <3>1. \A j \in DOMAIN reader.answers : reader.answers[j] \in ToSet(reader.answers)
      BY DEF ToSet
    <3> QED  BY <3>1, QueuesAre, RegionsAre DEF ReadInto
  <2>2. \A u \in MetalUnits : pass.ready[u] # Nowhere =>
          content'[pass.ready[u]] = content[pass.ready[u]]
    BY PassIs, RegionsAre DEF ReadInto
  <2>3. \A u \in MetalUnits : Inside(u)' = Inside(u)
    BY DEF Inside
  <2>4. \A j \in DOMAIN reader.answers : pass.loading[j] \in MetalUnits
    <3>1. \A n, m \in Nat : \A j \in 1 .. n : j \in 1 .. n + m
      OBVIOUS
    <3> QED  BY <1>0, <3>1, QueuesAre DEF Asked
  <2>5. \A j \in DOMAIN reader'.answers : reader'.answers[j] # Nowhere =>
          content'[reader'.answers[j]] = Inside(pass.loading[j])'
    BY <1>0, <2>1, <2>3, <2>4 DEF Asked
  <2>6. \A u \in MetalUnits : pass'.ready[u] # Nowhere =>
          content'[pass'.ready[u]] = Inside(u)'
    BY <1>0, <2>2, <2>3 DEF Asked
  <2> QED  BY <1>0, <2>5, <2>6 DEF Asked
<1>4. OneTaker'
  BY <1>0, <1>1, <1>2 DEF OneTaker, Sparing
<1>5. OwnUnits'
  BY <1>0 DEF OwnUnits, Sparing
<1>6. OneAsk'
  <2>1. \A j \in DOMAIN pass.queue : pass.queue[j] \in MetalUnits
    BY QueuesAre
  <2>2. \A j \in DOMAIN pass.loading : pass.loading[j] \in MetalUnits
    BY QueuesAre
  <2>3. NoPass.ready' = NoPass.ready
    BY DEF NoPass
  <2>4. IsInjective(pass'.queue) /\ IsInjective(pass'.loading)
    BY <1>0 DEF OneAsk
  <2>5. \A i \in DOMAIN pass'.loading : pass'.ready[pass'.loading[i]] = Nowhere
    BY <1>0, <2>2 DEF OneAsk
  <2>6. \A i \in DOMAIN pass'.queue : i >= pass'.next =>
          pass'.queue[i] \notin ToSet(pass'.loading) /\ pass'.ready[pass'.queue[i]] = Nowhere
    BY <1>0, <2>1 DEF OneAsk
  <2>7. Settling' => (pass.loading = <<>> /\ pass.ready = NoPass.ready)'
    BY <2>3
  <2>8. host'.at = "starved" => Hungry'
    OBVIOUS
  <2>9. ToSet(pass'.loading) = ToSet(pass.loading)'
    OBVIOUS
  <2> QED  BY <2>4, <2>5, <2>6, <2>7, <2>8 DEF OneAsk, Hungry
<1> QED  BY <1>3, <1>4, <1>5, <1>6 DEF InHand

LEMMA NothingAsked ==
    ASSUME HostTypes, Asked, pass.loading = <<>>
    PROVE  reader.requests = <<>> /\ reader.answers = <<>>
<1>1. Len(reader.requests) \in Nat /\ Len(reader.answers) \in Nat /\ Len(pass.loading) = 0
  BY QueuesAre
<1>5. Len(pass.loading) = Len(reader.answers) + Len(reader.requests)
  BY DEF Asked
<1>2. Len(reader.requests) = 0 /\ Len(reader.answers) = 0
  <2>1. \A a, b \in Nat : 0 = a + b => a = 0 /\ b = 0
    OBVIOUS
  <2>2. 0 = Len(reader.answers) + Len(reader.requests)
    BY <1>1, <1>5
  <2> QED  BY <1>1, <2>1, <2>2
<1>3. reader.answers \in Seq(Places)
  BY PassIs
<1> DEFINE Asks == [unit : MetalUnits, region : RegionSet]
<1>4. reader.requests \in Seq(Asks)
  BY PassIs
<1> HIDE DEF Asks
<1> QED  BY <1>2, <1>3, <1>4

LEMMA HandsEmpty ==
    ASSUME Sparing', pass'.loading = <<>>, pass'.ready = NoPass.ready,
           pass'.queue \in Seq(MetalUnits),
           IsInjective(pass'.queue),
           reader'.requests = <<>>, reader'.answers = <<>>, host'.at # "starved"
    PROVE  InHand'
<1>0. \A u \in MetalUnits : pass'.ready[u] = Nowhere
  BY DEF NoPass
<1>1. DOMAIN reader'.requests = {} /\ DOMAIN reader'.answers = {} /\ DOMAIN pass'.loading = {}
      /\ Len(<<>>) = 0
  OBVIOUS
<1>2. ToSet(reader'.answers) = {} /\ ToSet(pass'.loading) = {}
  BY NothingTwice
<1>3. \A r \in RegionSet : ~ToRead(r)' /\ ~ReadInto(r)'
  BY <1>0, <1>1, <1>2, RegionsAre DEF ToRead, ReadInto
<1>4. Asked'
  BY <1>0, <1>1 DEF Asked
<1>5. OneTaker'
  BY <1>1, <1>3 DEF OneTaker, Sparing
<1>6. OwnUnits'
  BY <1>0, <1>1 DEF OwnUnits, Sparing
<1>7. OneAsk'
  <2>1. NoPass.ready' = NoPass.ready
    BY DEF NoPass
  <2>2. \A i \in DOMAIN pass'.queue : i >= pass'.next => pass'.ready[pass'.queue[i]] = Nowhere
    BY <1>0
  <2> QED  BY <1>0, <1>1, <1>2, <2>1, <2>2, NothingTwice DEF OneAsk
<1> QED  BY <1>4, <1>5, <1>6, <1>7 DEF InHand

LEMMA AskedOf ==
    ASSUME HostTypes, Asked
    PROVE  /\ \A j \in DOMAIN reader.answers : j \in DOMAIN pass.loading
           /\ \A j \in DOMAIN reader.requests : Len(reader.answers) + j \in DOMAIN pass.loading
<1>1. \A a, m \in Nat : /\ \A j \in 1 .. a : j \in 1 .. a + m
                        /\ \A j \in 1 .. m : a + j \in 1 .. a + m
  OBVIOUS
<1>2. Len(pass.loading) = Len(reader.answers) + Len(reader.requests)
  BY DEF Asked
<1> QED  BY <1>1, <1>2, QueuesAre

LEMMA HandsMore ==
    ASSUME HostTypes, InHand, NEW u \in MetalUnits, NEW r \in RegionSet, Sent(u, r),
           Sparing', ~Spared(r)', \A x \in RegionSet : Spared(x)' => Spared(x),
           ~ToRead(r), ~ReadInto(r),
           stream'.kept = stream.kept, stream'.version = stream.version, content' = content,
           u \notin ToSet(pass.loading), pass.ready[u] = Nowhere,
           \A i \in DOMAIN pass.queue : i > pass.next => pass.queue[i] # u,
           r \in Turns \/ (r = Own(u) /\ u \in stream.kept),
           ~Settling', host'.at # "starved"
    PROVE  InHand'
<1> DEFINE ask == [unit |-> u, region |-> r]
           Asks == [unit : MetalUnits, region : RegionSet]
           m == Len(reader.requests)
           l == Len(pass.loading)
           a == Len(reader.answers)
<1>0. /\ Asked /\ OneTaker /\ OwnUnits /\ OneAsk
      /\ pass'.queue = pass.queue /\ pass'.next = pass.next + 1 /\ pass.next \in Nat
      /\ pass'.loading = Append(pass.loading, u) /\ pass'.ready = pass.ready
      /\ reader'.requests = Append(reader.requests, ask) /\ reader'.answers = reader.answers
  BY SentTypes, PassIs DEF InHand
<1>1. ask.unit = u /\ ask.region = r /\ ask \in Asks
  OBVIOUS
<1>2. /\ reader.requests \in Seq(Asks) /\ pass.loading \in Seq(MetalUnits)
      /\ reader.answers \in Seq(Places)
  BY PassIs
<1> HIDE DEF ask, Asks
<1>3. /\ DOMAIN reader.requests = 1 .. m /\ m \in Nat
      /\ DOMAIN reader'.requests = 1 .. m + 1 /\ Len(reader'.requests) = m + 1
      /\ \A j \in 1 .. m : reader'.requests[j] = reader.requests[j]
      /\ reader'.requests[m + 1] = ask
      /\ \A j \in 1 .. m + 1 : j \in 1 .. m \/ j = m + 1
  <2>1. PICK old : old = reader.requests
    OBVIOUS
  <2>2. reader'.requests = Append(old, ask) /\ old \in Seq(Asks) /\ ask \in Asks /\ m = Len(old)
    BY <1>0, <1>1, <1>2, <2>1
  <2> HIDE DEF m
  <2>3. /\ Append(old, ask) \in Seq(Asks) /\ Len(Append(old, ask)) = m + 1 /\ m \in Nat
        /\ \A i \in 1 .. m : Append(old, ask)[i] = old[i]
        /\ Append(old, ask)[m + 1] = ask
        /\ \A j \in 1 .. m + 1 : j \in 1 .. m \/ j = m + 1
    BY <2>2, Appends
  <2>4. DOMAIN old = 1 .. m /\ DOMAIN Append(old, ask) = 1 .. m + 1
    BY <2>2, <2>3
  <2> QED  BY <2>1, <2>2, <2>3, <2>4
<1>4. /\ DOMAIN pass.loading = 1 .. l /\ l \in Nat
      /\ DOMAIN pass'.loading = 1 .. l + 1 /\ Len(pass'.loading) = l + 1
      /\ \A j \in 1 .. l : pass'.loading[j] = pass.loading[j]
      /\ pass'.loading[l + 1] = u
      /\ \A j \in 1 .. l + 1 : j \in 1 .. l \/ j = l + 1
      /\ ToSet(pass'.loading) = ToSet(pass.loading) \cup {u}
      /\ IsInjective(pass'.loading)
  BY <1>0, <1>2, OneMore DEF OneAsk
<1>5. DOMAIN reader.answers = 1 .. a /\ a \in Nat /\ l = a + m
  BY <1>0, <1>2 DEF Asked
<1> HIDE DEF m, l, a
<1>6. \A x \in RegionSet : ToRead(x)' => ToRead(x) \/ x = r
  BY <1>1, <1>3 DEF ToRead
<1>7. \A x \in RegionSet : ReadInto(x)' <=> ReadInto(x)
  BY <1>0 DEF ReadInto
<1>8. Asked'
  <2>1. Len(pass'.loading) = Len(reader'.answers) + Len(reader'.requests)
    <3>1. l + 1 = a + (m + 1)
      BY <1>3, <1>4, <1>5
    <3>2. Len(reader'.answers) = a
      BY <1>0 DEF a
    <3> QED  BY <1>3, <1>4, <3>1, <3>2
  <2>2. ASSUME NEW j \in DOMAIN reader'.requests
        PROVE  reader'.requests[j].unit = pass'.loading[Len(reader'.answers) + j]
    <3>1. CASE j \in 1 .. m
      <4>1. a + j \in 1 .. l  BY <1>3, <1>5, <3>1
      <4>2. reader.requests[j].unit = pass.loading[a + j]
        BY <1>0, <1>3, <3>1 DEF Asked, a
      <4> QED  BY <1>0, <1>3, <1>4, <3>1, <4>1, <4>2 DEF a
    <3>2. CASE j = m + 1
      <4>1. a + j = l + 1  BY <1>3, <1>5, <3>2
      <4> QED  BY <1>0, <1>1, <1>3, <1>4, <3>2, <4>1 DEF a
    <3> QED  BY <1>3, <2>2, <3>1, <3>2
  <2>3. ASSUME NEW j \in DOMAIN reader'.answers, reader'.answers[j] # Nowhere
        PROVE  content'[reader'.answers[j]] = <<pass'.loading[j], stream'.version>>
    <3>1. j \in DOMAIN reader.answers /\ j \in 1 .. l  BY <1>0, <1>4, <2>3, AskedOf
    <3>2. content[reader.answers[j]] = <<pass.loading[j], stream.version>>
      BY <1>0, <2>3, <3>1 DEF Asked, Inside
    <3> QED  BY <1>0, <1>4, <3>1, <3>2
  <2>4. \A v \in MetalUnits : pass'.ready[v] # Nowhere =>
          content'[pass'.ready[v]] = <<v, stream'.version>>
    BY <1>0 DEF Asked, Inside
  <2> QED  BY <2>1, <2>2, <2>3, <2>4 DEF Asked, Inside
<1>9. OneTaker'
  <2>1. \A i \in 1 .. m : reader.requests[i].region # r
    BY <1>3 DEF ToRead
  <2>2. \A i, j \in DOMAIN reader'.requests :
          reader'.requests[i].region = reader'.requests[j].region => i = j
    BY <1>0, <1>1, <1>3, <2>1 DEF OneTaker
  <2>3. \A x \in RegionSet : ToRead(x)' => ~ReadInto(x)'
    BY <1>0, <1>6, <1>7 DEF OneTaker
  <2>4. \A x \in RegionSet : Spared(x)' => ~ToRead(x)' /\ ~ReadInto(x)'
    BY <1>0, <1>6, <1>7 DEF OneTaker
  <2> QED  BY <2>2, <2>3, <2>4 DEF OneTaker, Sparing
<1>10. OwnUnits'
  <2>1. ASSUME NEW j \in DOMAIN reader'.requests
        PROVE  \/ reader'.requests[j].region \in Turns
               \/ /\ reader'.requests[j].region = Own(reader'.requests[j].unit)
                  /\ reader'.requests[j].unit \in stream'.kept
    <3>1. CASE j \in 1 .. m
      BY <1>0, <1>3, <3>1 DEF OwnUnits
    <3>2. CASE j = m + 1
      BY <1>1, <1>3, <3>2
    <3> QED  BY <1>3, <2>1, <3>1, <3>2
  <2>2. ASSUME NEW j \in DOMAIN reader'.answers
        PROVE  \/ reader'.answers[j] \in Turns \cup {Nowhere}
               \/ reader'.answers[j] = Own(pass'.loading[j]) /\ pass'.loading[j] \in stream'.kept
    <3>1. j \in DOMAIN reader.answers /\ j \in 1 .. l  BY <1>0, <1>3, <1>5, <2>2
    <3> QED  BY <1>0, <1>4, <3>1 DEF OwnUnits
  <2>3. ASSUME NEW v \in MetalUnits
        PROVE  \/ pass'.ready[v] \in Turns \cup {Nowhere}
               \/ pass'.ready[v] = Own(v) /\ v \in stream'.kept
    BY <1>0 DEF OwnUnits
  <2> QED  BY <2>1, <2>2, <2>3 DEF OwnUnits, Sparing
<1>11. OneAsk'
  <2>1. \A i \in DOMAIN pass'.loading : pass'.ready[pass'.loading[i]] = Nowhere
    BY <1>0, <1>4 DEF OneAsk
  <2>2. ASSUME NEW i \in DOMAIN pass'.queue, i >= pass'.next
        PROVE  pass'.queue[i] \notin ToSet(pass'.loading) /\ pass'.ready[pass'.queue[i]] = Nowhere
    <3>1. i \in DOMAIN pass.queue /\ i \in Nat
      BY <1>0, <2>2, QueuesAre
    <3>2. i >= pass.next /\ i > pass.next
      BY <1>0, <2>2, <3>1
    <3> QED  BY <1>0, <1>4, <2>2, <3>1, <3>2 DEF OneAsk
  <2>3. IsInjective(pass'.queue)
    BY <1>0 DEF OneAsk
  <2> QED  BY <1>4, <2>1, <2>2, <2>3 DEF OneAsk
<1> QED  BY <1>8, <1>9, <1>10, <1>11 DEF InHand

(* A region of the unit's own is nobody else's. *)
LEMMA OwnIsFree ==
    ASSUME HostTypes, InHand, NEW u \in stream.kept, u \notin ToSet(pass.loading),
           pass.ready[u] = Nowhere
    PROVE  ~ToRead(Own(u)) /\ ~ReadInto(Own(u)) /\ ~Spared(Own(u)) /\ Own(u) \in RegionSet
<1>0. u \in MetalUnits /\ Own(u) \notin Turns /\ Own(u) \in RegionSet /\ Own(u) # Nowhere
      /\ \A v \in MetalUnits : Own(v) = Own(u) => v = u
  BY StreamIs, RegionsAre
<1>1. ASSUME NEW j \in DOMAIN reader.requests, reader.requests[j].region = Own(u) PROVE FALSE
  <2>1. reader.requests[j].unit = u
    BY <1>0, <1>1, QueuesAre DEF InHand, OwnUnits
  <2>2. Len(reader.answers) + j \in DOMAIN pass.loading
    BY <1>1, AskedOf DEF InHand
  <2>3. u \in ToSet(pass.loading)
    BY <1>1, <2>1, <2>2 DEF InHand, Asked, ToSet
  <2> QED  BY <2>3
<1>2. ASSUME NEW j \in DOMAIN reader.answers, reader.answers[j] = Own(u) PROVE FALSE
  <2>1. j \in DOMAIN pass.loading
    BY <1>2, AskedOf DEF InHand
  <2>2. pass.loading[j] = u
    BY <1>0, <1>2, <2>1, QueuesAre DEF InHand, OwnUnits
  <2> QED  BY <2>1, <2>2 DEF ToSet
<1>3. ASSUME NEW v \in MetalUnits, pass.ready[v] = Own(u) PROVE FALSE
  BY <1>0, <1>3 DEF InHand, OwnUnits
<1>4. ~Spared(Own(u))
  BY <1>0 DEF Spared, InHand, OwnUnits
<1>5. \A x \in ToSet(reader.answers) : \E j \in DOMAIN reader.answers : reader.answers[j] = x
  BY DEF ToSet
<1> QED  BY <1>0, <1>1, <1>2, <1>3, <1>4, <1>5 DEF ToRead, ReadInto

LEMMA HandsRead ==
    ASSUME HostTypes, InHand, reader.requests # <<>>,
           NEW x, x = Head(reader.requests).region \/ x = Nowhere,
           reader' = [requests |-> Tail(reader.requests), answers |-> Append(reader.answers, x)],
           UNCHANGED <<host, stream, pass>>,
           \A r \in RegionSet : r # Head(reader.requests).region => content'[r] = content[r],
           x # Nowhere => content'[x] = Inside(Head(reader.requests).unit)
    PROVE  InHand'
<1> DEFINE ask == Head(reader.requests)
           Asks == [unit : MetalUnits, region : RegionSet]
           m == Len(reader.requests)
           a == Len(reader.answers)
           l == Len(pass.loading)
<1>0. /\ Asked /\ OneTaker /\ OwnUnits /\ OneAsk
      /\ reader'.requests = Tail(reader.requests) /\ reader'.answers = Append(reader.answers, x)
  BY DEF InHand
<1>1. reader.requests \in Seq(Asks) /\ reader.answers \in Seq(Places)
      /\ \A q \in Asks : q.unit \in MetalUnits /\ q.region \in RegionSet
  BY PassIs
<1> HIDE DEF Asks
<1>2. /\ ask = reader.requests[1] /\ ask \in Asks /\ m \in Nat \ {0}
      /\ DOMAIN reader.requests = 1 .. m /\ 1 \in 1 .. m
      /\ DOMAIN reader'.requests = 1 .. m - 1 /\ Len(reader'.requests) = m - 1
      /\ \A j \in 1 .. m - 1 : reader'.requests[j] = reader.requests[j + 1] /\ j + 1 \in 1 .. m
  BY <1>0, <1>1, Tails
<1>3. ask.unit \in MetalUnits /\ ask.region \in RegionSet
      /\ (x = ask.region \/ x = Nowhere) /\ x \in Places
      /\ (x # Nowhere => content'[x] = Inside(ask.unit))
      /\ \A r \in RegionSet : r # ask.region => content'[r] = content[r]
  BY <1>1, <1>2 DEF Places
<1> HIDE DEF ask
<1>4. /\ DOMAIN reader.answers = 1 .. a /\ a \in Nat
      /\ DOMAIN reader'.answers = 1 .. a + 1 /\ Len(reader'.answers) = a + 1
      /\ \A j \in 1 .. a : reader'.answers[j] = reader.answers[j]
      /\ reader'.answers[a + 1] = x
      /\ \A j \in 1 .. a + 1 : j \in 1 .. a \/ j = a + 1
      /\ ToSet(reader'.answers) = ToSet(reader.answers) \cup {x}
      /\ \A j \in 1 .. a : reader.answers[j] \in ToSet(reader.answers)
      /\ \A j \in 1 .. a : reader.answers[j] \in Places
  BY <1>0, <1>1, <1>3, OneMore, InSet
<1>5. DOMAIN pass.loading = 1 .. l /\ l \in Nat /\ l = a + m
  BY <1>0, QueuesAre DEF Asked
<1>6. ask.unit = pass.loading[a + 1]
  BY <1>0, <1>2 DEF Asked
<1> HIDE DEF m, a, l
<1>7. ToRead(ask.region)
  BY <1>2 DEF ToRead
<1>8. \A r \in RegionSet : ToRead(r)' => ToRead(r) /\ r # ask.region
  <2>1. ASSUME NEW j \in 1 .. m - 1
        PROVE  /\ j + 1 \in DOMAIN reader.requests /\ j + 1 # 1
               /\ reader'.requests[j] = reader.requests[j + 1]
    <3>1. j + 1 # 1  BY <1>2, <2>1
    <3> QED  BY <1>2, <2>1, <3>1
  <2>2. \A i \in DOMAIN reader.requests : i # 1 => reader.requests[i].region # ask.region
    BY <1>0, <1>2 DEF OneTaker
  <2>3. ASSUME NEW r \in RegionSet, ToRead(r)'
        PROVE  ToRead(r) /\ r # ask.region
    <3>1. PICK j \in 1 .. m - 1 : reader'.requests[j].region = r
      BY <1>2, <2>3 DEF ToRead
    <3>2. j + 1 \in DOMAIN reader.requests /\ j + 1 # 1 /\ reader.requests[j + 1].region = r
      BY <2>1, <3>1
    <3> QED  BY <2>2, <3>2 DEF ToRead
  <2> QED  BY <2>3
<1>9. \A r \in RegionSet : ReadInto(r)' => ReadInto(r) \/ r = ask.region
  BY <1>3, <1>4, RegionsAre DEF ReadInto
<1>10. \A r \in RegionSet : ReadInto(r) => content'[r] = content[r]
  BY <1>0, <1>3, <1>7 DEF OneTaker
<1>11. Asked'
  <2>1. Len(pass'.loading) = Len(reader'.answers) + Len(reader'.requests)
    <3>1. l = (a + 1) + (m - 1)  BY <1>2, <1>4, <1>5
    <3> QED  BY <1>2, <1>4, <3>1 DEF l
  <2>2. ASSUME NEW j \in DOMAIN reader'.requests
        PROVE  reader'.requests[j].unit = pass'.loading[Len(reader'.answers) + j]
    <3>1. j + 1 \in DOMAIN reader.requests /\ reader'.requests[j] = reader.requests[j + 1]
      BY <1>2, <2>2
    <3>2. reader.requests[j + 1].unit = pass.loading[a + (j + 1)]
      BY <1>0, <3>1 DEF Asked, a
    <3>3. a + (j + 1) = (a + 1) + j
      <4>1. j \in 1 .. m - 1  BY <1>2, <2>2
      <4>2. j \in Nat /\ a \in Nat  BY <1>2, <1>4, <4>1
      <4> QED  BY <4>2
    <3> QED  BY <1>4, <3>1, <3>2, <3>3
  <2>3. ASSUME NEW j \in DOMAIN reader'.answers, reader'.answers[j] # Nowhere
        PROVE  content'[reader'.answers[j]] = <<pass'.loading[j], stream'.version>>
    <3>1. CASE j \in 1 .. a
      <4>1. reader'.answers[j] = reader.answers[j] /\ reader.answers[j] \in RegionSet
            /\ ReadInto(reader.answers[j])
        BY <1>4, <2>3, <3>1, RegionsAre DEF ReadInto
      <4>2. content[reader.answers[j]] = <<pass.loading[j], stream.version>>
        BY <1>0, <1>4, <2>3, <3>1, <4>1 DEF Asked, Inside
      <4> QED  BY <1>10, <4>1, <4>2
    <3>2. CASE j = a + 1
      BY <1>3, <1>4, <1>6, <2>3, <3>2 DEF Inside
    <3> QED  BY <1>4, <2>3, <3>1, <3>2
  <2>4. ASSUME NEW v \in MetalUnits, pass'.ready[v] # Nowhere
        PROVE  content'[pass'.ready[v]] = <<v, stream'.version>>
    <3>1. pass.ready[v] \in RegionSet /\ ReadInto(pass.ready[v])
      BY <2>4, PassIs, RegionsAre DEF ReadInto
    <3> QED  BY <1>0, <1>10, <2>4, <3>1 DEF Asked, Inside
  <2> QED  BY <2>1, <2>2, <2>3, <2>4 DEF Asked, Inside
<1>12. OneTaker'
  <2>1. ASSUME NEW i \in DOMAIN reader'.requests, NEW j \in DOMAIN reader'.requests,
               reader'.requests[i].region = reader'.requests[j].region
        PROVE  i = j
    <3>0. i \in 1 .. m - 1 /\ j \in 1 .. m - 1
      BY <1>2, <2>1
    <3>2. /\ i + 1 \in DOMAIN reader.requests /\ j + 1 \in DOMAIN reader.requests
          /\ reader.requests[i + 1].region = reader.requests[j + 1].region
      BY <1>2, <2>1, <3>0
    <3>1. i + 1 = j + 1
      BY <1>0, <3>2 DEF OneTaker
    <3> QED  BY <3>0, <3>1
  <2>2. \A r \in RegionSet : ToRead(r)' => ~ReadInto(r)'
    BY <1>0, <1>8, <1>9 DEF OneTaker
  <2>3. \A r \in RegionSet : Spared(r)' => ~ToRead(r)' /\ ~ReadInto(r)'
    <3>1. \A r \in RegionSet : Spared(r)' <=> Spared(r)
      BY DEF Spared
    <3> QED  BY <1>0, <1>7, <1>8, <1>9, <3>1 DEF OneTaker
  <2> QED  BY <1>0, <2>1, <2>2, <2>3 DEF OneTaker
<1>13. OwnUnits'
  <2>1. ASSUME NEW j \in DOMAIN reader'.requests
        PROVE  \/ reader'.requests[j].region \in Turns
               \/ /\ reader'.requests[j].region = Own(reader'.requests[j].unit)
                  /\ reader'.requests[j].unit \in stream'.kept
    <3>1. j \in 1 .. m - 1  BY <1>2, <2>1
    <3>2. j + 1 \in DOMAIN reader.requests /\ reader'.requests[j] = reader.requests[j + 1]
      BY <1>2, <3>1
    <3> QED  BY <1>0, <3>2 DEF OwnUnits
  <2>2. ASSUME NEW j \in DOMAIN reader'.answers
        PROVE  \/ reader'.answers[j] \in Turns \cup {Nowhere}
               \/ reader'.answers[j] = Own(pass'.loading[j]) /\ pass'.loading[j] \in stream'.kept
    <3>1. CASE j \in 1 .. a
      BY <1>0, <1>4, <3>1 DEF OwnUnits
    <3>2. CASE j = a + 1
      <4>1. \/ ask.region \in Turns
            \/ ask.region = Own(ask.unit) /\ ask.unit \in stream.kept
        BY <1>0, <1>2 DEF OwnUnits
      <4> QED  BY <1>3, <1>4, <1>6, <3>2, <4>1
    <3> QED  BY <1>4, <2>2, <3>1, <3>2
  <2> QED  BY <1>0, <2>1, <2>2 DEF OwnUnits
<1>14. OneAsk'
  <2>1. Settling' <=> Settling
    BY DEF Settling
  <2>2. NoPass.ready' = NoPass.ready
    BY DEF NoPass
  <2>3. (Settling => pass.loading = <<>> /\ pass.ready = NoPass.ready)'
    BY <1>0, <2>1, <2>2 DEF OneAsk
  <2> QED  BY <1>0, <2>3 DEF OneAsk
<1> QED  BY <1>11, <1>12, <1>13, <1>14 DEF InHand

(* The oldest answer is taken. *)
LEMMA HandsTaken ==
    ASSUME HostTypes, InHand, pass.loading # <<>>, reader.answers # <<>>,
           reader'.requests = reader.requests, reader'.answers = Tail(reader.answers),
           pass'.queue = pass.queue, pass'.next = pass.next, pass'.loading = Tail(pass.loading),
           \A v \in MetalUnits : \/ pass'.ready[v] = pass.ready[v]
                                 \/ v = Head(pass.loading) /\ pass'.ready[v] = Head(reader.answers),
           stream'.kept = stream.kept, stream'.version = stream.version, content' = content,
           Sparing', \A r \in RegionSet : Spared(r)' => ~ToRead(r)' /\ ~ReadInto(r)',
           ~Settling', host'.at # "starved"
    PROVE  InHand'
<1> DEFINE a == Len(reader.answers)
           l == Len(pass.loading)
           u == Head(pass.loading)
           x == Head(reader.answers)
<1>0. Asked /\ OneTaker /\ OwnUnits /\ OneAsk
  BY DEF InHand
<1>1. /\ DOMAIN reader.answers = 1 .. a /\ a \in Nat \ {0} /\ 1 \in 1 .. a
      /\ DOMAIN reader'.answers = 1 .. a - 1 /\ Len(reader'.answers) = a - 1
      /\ \A j \in 1 .. a - 1 : reader'.answers[j] = reader.answers[j + 1] /\ j + 1 \in 1 .. a
      /\ x = reader.answers[1] /\ x \in Places
  BY PassIs, Tails
<1>2. /\ DOMAIN pass.loading = 1 .. l /\ l \in Nat \ {0} /\ 1 \in 1 .. l
      /\ DOMAIN pass'.loading = 1 .. l - 1 /\ Len(pass'.loading) = l - 1
      /\ \A j \in 1 .. l - 1 : pass'.loading[j] = pass.loading[j + 1] /\ j + 1 \in 1 .. l
      /\ u = pass.loading[1] /\ u \in MetalUnits
  BY PassIs, Tails
<1>3. l = a + Len(reader.requests) /\ Len(reader.requests) \in Nat
  BY <1>0, QueuesAre DEF Asked
<1>4. \A j \in DOMAIN reader'.answers : j \in DOMAIN pass'.loading
  <2>1. \A b, c \in Nat \ {0} : \A d \in Nat : c = b + d => \A j \in 1 .. b - 1 : j \in 1 .. c - 1
    OBVIOUS
  <2> QED  BY <1>1, <1>2, <1>3, <2>1
<1>5. /\ \A v \in MetalUnits : pass'.ready[v] = pass.ready[v] \/ (v = u /\ pass'.ready[v] = x)
      /\ x # Nowhere => content[x] = Inside(u)
      /\ x \in Turns \cup {Nowhere} \/ (x = Own(u) /\ u \in stream.kept)
  BY <1>0, <1>1, <1>2 DEF Asked, OwnUnits
<1> HIDE DEF u, x
<1>6. \A v \in MetalUnits : v # u => pass'.ready[v] = pass.ready[v]
  BY <1>5
<1>7. \A r \in RegionSet : ReadInto(r)' => ReadInto(r)
  <2>1. \A r \in ToSet(reader'.answers) : r \in ToSet(reader.answers)
    BY <1>1 DEF ToSet
  <2>2. x \in ToSet(reader.answers)
    BY <1>1 DEF ToSet
  <2> QED  BY <1>5, <2>1, <2>2 DEF ReadInto
<1>8. Asked'
  <2>1. Len(pass'.loading) = Len(reader'.answers) + Len(reader'.requests)
    <3>1. l - 1 = (a - 1) + Len(reader.requests)
      BY <1>1, <1>2, <1>3
    <3> QED  BY <1>1, <1>2, <3>1
  <2>2. ASSUME NEW j \in DOMAIN reader'.requests
        PROVE  reader'.requests[j].unit = pass'.loading[Len(reader'.answers) + j]
    <3>1. j \in DOMAIN reader.requests /\ reader.requests[j].unit = pass.loading[a + j]
      BY <1>0, <2>2 DEF Asked
    <3>2. (a - 1) + j \in 1 .. l - 1 /\ a + j = ((a - 1) + j) + 1
      <4>1. j \in 1 .. Len(reader.requests)  BY <3>1, QueuesAre
      <4>2. \A b \in Nat \ {0} : \A c \in Nat : \A i \in 1 .. c :
              (b - 1) + i \in 1 .. (b + c) - 1 /\ b + i = ((b - 1) + i) + 1
        OBVIOUS
      <4> QED  BY <1>1, <1>3, <4>1, <4>2
    <3> QED  BY <1>1, <1>2, <3>1, <3>2
  <2>3. ASSUME NEW j \in DOMAIN reader'.answers, reader'.answers[j] # Nowhere
        PROVE  content'[reader'.answers[j]] = <<pass'.loading[j], stream'.version>>
    <3>1. j + 1 \in DOMAIN reader.answers /\ j \in 1 .. l - 1
      BY <1>1, <1>2, <1>4, <2>3
    <3>2. content[reader.answers[j + 1]] = <<pass.loading[j + 1], stream.version>>
      BY <1>0, <1>1, <2>3, <3>1 DEF Asked, Inside
    <3> QED  BY <1>1, <1>2, <2>3, <3>1, <3>2
  <2>4. ASSUME NEW v \in MetalUnits, pass'.ready[v] # Nowhere
        PROVE  content'[pass'.ready[v]] = <<v, stream'.version>>
    BY <1>0, <1>5, <2>4 DEF Asked, Inside
  <2> QED  BY <2>1, <2>2, <2>3, <2>4 DEF Asked, Inside
<1>9. OneTaker'
  <2>1. \A r : ToRead(r)' <=> ToRead(r)
    BY DEF ToRead
  <2> QED  BY <1>0, <1>7, <2>1 DEF OneTaker, Sparing
<1>10. OwnUnits'
  <2>1. ASSUME NEW j \in DOMAIN reader'.answers
        PROVE  \/ reader'.answers[j] \in Turns \cup {Nowhere}
               \/ reader'.answers[j] = Own(pass'.loading[j]) /\ pass'.loading[j] \in stream'.kept
    <3>1. j + 1 \in DOMAIN reader.answers /\ j \in 1 .. l - 1
      BY <1>1, <1>2, <1>4, <2>1
    <3> QED  BY <1>0, <1>1, <1>2, <2>1, <3>1 DEF OwnUnits
  <2>2. \A v \in MetalUnits :
          pass'.ready[v] \in Turns \cup {Nowhere} \/ (pass'.ready[v] = Own(v) /\ v \in stream'.kept)
    BY <1>0, <1>5 DEF OwnUnits
  <2> QED  BY <1>0, <2>1, <2>2 DEF OwnUnits, Sparing
<1>11. OneAsk'
  <2>1. IsInjective(pass'.loading) /\ \A j \in 1 .. l - 1 : pass'.loading[j] # u
    <3>1. \A i, j \in 1 .. l : pass.loading[i] = pass.loading[j] => i = j
      BY <1>0, <1>2 DEF OneAsk, IsInjective
    <3>2. \A i, j \in 1 .. l - 1 : pass'.loading[i] = pass'.loading[j] => i + 1 = j + 1
      BY <1>2, <3>1
    <3>3. \A i, j \in 1 .. l - 1 : i + 1 = j + 1 => i = j
      BY <1>2
    <3>4. \A i, j \in 1 .. l - 1 : pass'.loading[i] = pass'.loading[j] => i = j
      BY <3>2, <3>3
    <3>5. \A j \in 1 .. l - 1 : j + 1 # 1
      BY <1>2
    <3>6. \A j \in 1 .. l - 1 : pass'.loading[j] # u
      BY <1>2, <3>1, <3>5
    <3> QED  BY <1>2, <3>4, <3>6 DEF IsInjective
  <2>2. \A v \in ToSet(pass'.loading) : v \in ToSet(pass.loading)
    BY <1>2 DEF ToSet
  <2>3. u \in ToSet(pass.loading)
    BY <1>2 DEF ToSet
  <2>4. ASSUME NEW i \in DOMAIN pass'.loading
        PROVE  pass'.ready[pass'.loading[i]] = Nowhere
    <3>1. i + 1 \in DOMAIN pass.loading /\ pass'.loading[i] = pass.loading[i + 1]
      BY <1>2, <2>4
    <3>2. pass.loading[i + 1] \in MetalUnits /\ pass.ready[pass.loading[i + 1]] = Nowhere
      BY <1>0, <3>1, QueuesAre DEF OneAsk
    <3> QED  BY <1>2, <1>6, <2>1, <2>4, <3>1, <3>2
  <2>5. ASSUME NEW i \in DOMAIN pass'.queue, i >= pass'.next
        PROVE  pass'.queue[i] \notin ToSet(pass'.loading) /\ pass'.ready[pass'.queue[i]] = Nowhere
    <3>1. /\ pass.queue[i] \notin ToSet(pass.loading) /\ pass.ready[pass.queue[i]] = Nowhere
          /\ pass.queue[i] \in MetalUnits
      BY <1>0, <2>5, QueuesAre DEF OneAsk
    <3> QED  BY <1>6, <2>2, <2>3, <3>1
  <2>6. IsInjective(pass'.queue)
    BY <1>0 DEF OneAsk
  <2> QED  BY <2>1, <2>4, <2>5, <2>6 DEF OneAsk
<1> QED  BY <1>8, <1>9, <1>10, <1>11 DEF InHand

LEMMA SparingNow ==
    ASSUME InHand PROVE Sparing
  BY DEF InHand, OneTaker, OwnUnits, Sparing

LEMMA HandsSame ==
    ASSUME HostTypes, InHand, UNCHANGED <<pass, reader>>,
           stream'.spare = stream.spare, stream'.used = stream.used,
           stream'.kept = stream.kept, stream'.version = stream.version,
           \A r \in RegionSet : ReadInto(r) => content'[r] = content[r],
           Settling' => Settling,
           host'.at = "starved" => Hungry'
    PROVE  InHand'
<1>1. Sparing'
  BY SparingNow DEF Sparing
<1>2. \A r \in RegionSet : Spared(r)' => ~ToRead(r) /\ ~ReadInto(r)'
  BY DEF Spared, ReadInto, InHand, OneTaker
<1>3. Settling' => pass'.loading = <<>> /\ pass'.ready = NoPass.ready
  BY DEF InHand, OneAsk
<1> QED  BY <1>1, <1>2, <1>3, HandsLess

(* What an answer or a unit that was read holds, nothing else does. *)
LEMMA OneHolder ==
    ASSUME HostTypes, InHand
    PROVE  /\ \A i, j \in DOMAIN reader.answers :
                reader.answers[i] # Nowhere /\ reader.answers[i] = reader.answers[j] => i = j
           /\ \A j \in DOMAIN reader.answers : \A u \in MetalUnits :
                reader.answers[j] # Nowhere => pass.ready[u] # reader.answers[j]
           /\ \A u, v \in MetalUnits :
                pass.ready[u] # Nowhere /\ pass.ready[u] = pass.ready[v] => u = v
<1>0. \A u, v \in MetalUnits : Inside(u) = Inside(v) => u = v
  BY DEF Inside
<1>1. \A j \in DOMAIN reader.answers :
        /\ j \in DOMAIN pass.loading /\ pass.loading[j] \in MetalUnits
        /\ pass.ready[pass.loading[j]] = Nowhere
        /\ reader.answers[j] # Nowhere => content[reader.answers[j]] = Inside(pass.loading[j])
  BY AskedOf, QueuesAre DEF InHand, Asked, OneAsk
<1>2. \A u \in MetalUnits : pass.ready[u] # Nowhere => content[pass.ready[u]] = Inside(u)
  BY DEF InHand, Asked
<1>3. \A i, j \in DOMAIN pass.loading : pass.loading[i] = pass.loading[j] => i = j
  BY DEF InHand, OneAsk, IsInjective
<1>4. ASSUME NEW i \in DOMAIN reader.answers, NEW j \in DOMAIN reader.answers,
             reader.answers[i] # Nowhere, reader.answers[i] = reader.answers[j]
      PROVE  i = j
  <2>1. Inside(pass.loading[i]) = Inside(pass.loading[j])  BY <1>1, <1>4
  <2>2. pass.loading[i] = pass.loading[j]  BY <1>0, <1>1, <2>1
  <2> QED  BY <1>1, <1>3, <2>2
<1>5. ASSUME NEW j \in DOMAIN reader.answers, NEW u \in MetalUnits,
             reader.answers[j] # Nowhere, pass.ready[u] = reader.answers[j]
      PROVE  FALSE
  <2>1. Inside(pass.loading[j]) = Inside(u)  BY <1>1, <1>2, <1>5
  <2>2. pass.loading[j] = u  BY <1>0, <1>1, <2>1
  <2> QED  BY <1>1, <1>5, <2>2
<1>6. ASSUME NEW u \in MetalUnits, NEW v \in MetalUnits,
             pass.ready[u] # Nowhere, pass.ready[u] = pass.ready[v]
      PROVE  u = v
  <2>1. Inside(u) = Inside(v)  BY <1>2, <1>6
  <2> QED  BY <1>0, <2>1
<1> QED  BY <1>4, <1>5, <1>6

(* A region is found for a unit that nothing was asked for. *)
LEMMA TakeHands ==
    ASSUME HostTypes, InHand, NEW u \in MetalUnits, MetalTake(u), content' = content,
           u \notin ToSet(pass.loading), pass.ready[u] = Nowhere,
           \A i \in DOMAIN pass.queue : i > pass.next => pass.queue[i] # u,
           host.at = "request"
    PROVE  InHand'
<1> DEFINE free == FreeRegions
<1>0. stream \in Streams /\ host \in Hosts /\ OneTaker /\ Sparing
  BY SparingNow DEF HostTypes, InHand
<1>1. /\ free.got \in Places /\ IsInjective(free.spare) /\ IsInjective(free.used)
      /\ ToSet(free.spare) \cap ToSet(free.used) = {}
      /\ \A r \in ToSet(free.spare) : Spared(r)
      /\ \A r \in ToSet(free.used) : Spared(r)
      /\ free.got # Nowhere =>
           /\ Spared(free.got) /\ free.got \notin ToSet(free.spare)
           /\ free.got \notin ToSet(free.used)
      /\ free.got \notin RegionSet => free.used = stream.used
  BY <1>0, FreeRegionsGives DEF OneTaker
<1> HIDE DEF free
<1>2. \A r : Spared(r) => r \in Turns
  BY <1>0 DEF Spared, Sparing
<1>3. CASE u \in stream.kept
  <2>1. Sent(u, Own(u)) /\ UNCHANGED <<stream, host>>
    BY <1>3 DEF MetalTake
  <2>2. ~ToRead(Own(u)) /\ ~ReadInto(Own(u)) /\ ~Spared(Own(u)) /\ Own(u) \in RegionSet
    BY <1>3, OwnIsFree
  <2>3. Sparing' /\ ~Spared(Own(u))' /\ \A x \in RegionSet : Spared(x)' => Spared(x)
    BY <1>0, <2>1, <2>2 DEF Sparing, Spared
  <2>4. ~Settling' /\ host'.at # "starved"
    BY <2>1 DEF Settling
  <2> QED  BY <1>3, <2>1, <2>2, <2>3, <2>4, HandsMore
<1>4. CASE u \notin stream.kept /\ free.got # Nowhere
  <2>1. /\ Sent(u, free.got) /\ UNCHANGED host
        /\ stream' = [stream EXCEPT !.spare = free.spare, !.used = free.used]
    BY <1>4 DEF MetalTake, free
  <2>2. stream'.spare = free.spare /\ stream'.used = free.used /\ stream'.kept = stream.kept
        /\ stream'.version = stream.version
    BY <1>0, <2>1 DEF Streams
  <2>3. PICK r : r = free.got
    OBVIOUS
  <2>4. Sparing'
    BY <1>1, <1>2, <2>2 DEF Sparing
  <2>5. ~Spared(r)'
    BY <1>1, <1>4, <2>2, <2>3 DEF Spared
  <2>6. \A x : Spared(x)' => x \in ToSet(free.spare) \/ x \in ToSet(free.used)
    BY <2>2 DEF Spared
  <2>7. \A x \in RegionSet : Spared(x)' => Spared(x)
    BY <1>1, <2>6
  <2>8. r \in RegionSet /\ r \in Turns /\ ~ToRead(r) /\ ~ReadInto(r)
    BY <1>0, <1>1, <1>2, <1>4, <2>3, RegionsAre DEF OneTaker
  <2>9. ~Settling' /\ host'.at # "starved"
    BY <2>1 DEF Settling
  <2>10. Sent(u, r)
    BY <2>1, <2>3
  <2> QED  BY <2>2, <2>4, <2>5, <2>7, <2>8, <2>9, <2>10, HandsMore
<1>5. CASE u \notin stream.kept /\ free.got = Nowhere
  <2>1. /\ stream' = [stream EXCEPT !.regions = @ + 1, !.used = free.used]
        /\ \/ (\E r \in Unmade : Sent(u, r)) /\ UNCHANGED host
           \/ Fail /\ UNCHANGED <<pass, reader>>
    BY <1>5 DEF MetalTake, free
  <2>2. stream'.spare = stream.spare /\ stream'.used = free.used /\ stream'.kept = stream.kept
        /\ stream'.version = stream.version
    BY <1>0, <2>1 DEF Streams
  <2>3. free.used = stream.used
    BY <1>1, <1>5, RegionsAre
  <2>4. Sparing' /\ \A r \in RegionSet : Spared(r)' <=> Spared(r)
    BY <1>0, <2>2, <2>3 DEF Sparing, Spared
  <2>5. CASE (\E r \in Unmade : Sent(u, r)) /\ UNCHANGED host
    <3>1. PICK r \in Unmade : Sent(u, r)
      BY <2>5
    <3>2. r \in RegionSet /\ r \in Turns /\ ~ToRead(r) /\ ~ReadInto(r) /\ ~Spared(r)
      BY <3>1, UnmadeAre, RegionsAre
    <3>3. ~Spared(r)'
      BY <2>4, <3>2
    <3>4. ~Settling' /\ host'.at # "starved"
      BY <2>5 DEF Settling
    <3> QED  BY <2>2, <2>4, <3>1, <3>2, <3>3, <3>4, HandsMore
  <2>6. CASE Fail /\ UNCHANGED <<pass, reader>>
    <3>1. host'.at = "failing"
      BY <1>0, <2>6 DEF Fail, Hosts
    <3>2. stream'.used = stream.used
      BY <2>2, <2>3
    <3> QED  BY <2>2, <2>6, <3>1, <3>2, HandsSame DEF Settling
  <2> QED  BY <2>1, <2>5, <2>6
<1> QED  BY <1>3, <1>4, <1>5

LEMMA EnterHands ==
    ASSUME HostTypes, InHand, Enter
    PROVE  InHand'
<1> DEFINE u == host.unit
           r == pass.ready[u]
<1>0. /\ host \in Hosts /\ stream \in Streams /\ pass \in Passes /\ u \in MetalUnits
      /\ r \in Places /\ content' = content /\ reader' = reader
      /\ pass.ready \in [MetalUnits -> Places]
  BY HostIs, PassIs DEF HostTypes, Enter
<1>1. CASE host' = [host EXCEPT !.at = "encode"] /\ UNCHANGED <<stream, pass>>
  <2>1. host'.at = "encode"
    BY <1>0, <1>1 DEF Hosts
  <2> QED  BY <1>0, <1>1, <2>1, HandsSame DEF Settling
<1>2. CASE /\ r # Nowhere /\ pass' = [pass EXCEPT !.ready[u] = Nowhere]
           /\ \/ /\ stream' = IF u \in stream.kept
                              THEN [stream EXCEPT !.there = @ \cup {u}]
                              ELSE [stream EXCEPT !.used = Append(@, r)]
                 /\ host' = [host EXCEPT !.at = "request", !.then = "encode"]
              \/ Fail /\ UNCHANGED <<stream, tensors>>
  <2>1. host'.at \in {"request", "failing"}
    BY <1>0, <1>2 DEF Fail, Hosts
  <2>2. /\ pass'.queue = pass.queue /\ pass'.next = pass.next /\ pass'.loading = pass.loading
        /\ pass'.ready = [pass.ready EXCEPT ![u] = Nowhere]
    BY <1>0, <1>2 DEF Passes
  <2>3. \A v \in MetalUnits : pass'.ready[v] = IF v = u THEN Nowhere ELSE pass.ready[v]
    BY <1>0, <2>2
  <2>4. stream'.kept = stream.kept /\ stream'.version = stream.version
        /\ stream'.spare = stream.spare
    BY <1>0, <1>2 DEF Streams
  <2>5. stream'.used = stream.used
        \/ (u \notin stream.kept /\ stream'.used = Append(stream.used, r))
    BY <1>0, <1>2 DEF Streams
  <2>6. r \in RegionSet /\ (u \notin stream.kept => r \in Turns)
    BY <1>0, <1>2, RegionsAre DEF InHand, OwnUnits
  <2>7. PICK x : x = r
    OBVIOUS
  <2>8. ReadInto(x) /\ ~Spared(x) /\ ~ToRead(x)
    BY <1>0, <2>6, <2>7 DEF ReadInto, InHand, OneTaker
  <2>9. ~ReadInto(x)'
    <3>1. \A v \in MetalUnits : pass'.ready[v] # x
      BY <1>0, <1>2, <2>3, <2>7, OneHolder
    <3>2. x \notin ToSet(reader.answers)
      BY <1>0, <1>2, <2>7, OneHolder DEF ToSet
    <3> QED  BY <1>0, <3>1, <3>2 DEF ReadInto
  <2> HIDE DEF u, r
  <2>10. Sparing' /\ \A y \in RegionSet : Spared(y)' => Spared(y) \/ y = x
    <3>1. CASE stream'.used = stream.used
      BY <2>4, <3>1, SparingNow DEF Sparing, Spared
    <3>2. CASE u \notin stream.kept /\ stream'.used = Append(stream.used, r)
      <4>1. x \in RegionSet /\ x \in Turns /\ x \notin ToSet(stream.used)
            /\ x \notin ToSet(stream.spare)
        BY <2>6, <2>7, <2>8, <3>2 DEF Spared
      <4>2. ToSet(stream'.used) = ToSet(stream.used) \cup {x} /\ IsInjective(stream'.used)
        BY <2>7, <3>2, <4>1, OneMore, StreamIs, SparingNow DEF Sparing
      <4> QED  BY <2>4, <4>1, <4>2, SparingNow DEF Sparing, Spared
    <3> QED  BY <2>5, <3>1, <3>2
  <2>11. \A y \in RegionSet : ReadInto(y)' => ReadInto(y)
    BY <1>0, <2>3, RegionsAre DEF ReadInto
  <2>12. \A y \in RegionSet : Spared(y)' => ~ToRead(y) /\ ~ReadInto(y)'
    BY <2>8, <2>9, <2>10, <2>11 DEF InHand, OneTaker
  <2> QED  BY <1>0, <2>1, <2>2, <2>3, <2>4, <2>10, <2>12, HandsLess DEF Settling
<1> QED  BY <1>1, <1>2 DEF Enter

LEMMA AnswerHands ==
    ASSUME HostTypes, InHand, Answer
    PROVE  InHand'
<1> DEFINE u == Head(pass.loading)
           x == Head(reader.answers)
<1>0. /\ host \in Hosts /\ stream \in Streams /\ pass \in Passes /\ reader \in Readers
      /\ pass.ready \in [MetalUnits -> Places]
  BY PassIs DEF HostTypes
<1>1. /\ pass.loading # <<>> /\ reader.answers # <<>> /\ host.at = "enter"
      /\ pass' = [pass EXCEPT !.loading = Tail(@), !.ready[u] = x]
      /\ IF x # Nowhere THEN UNCHANGED <<host, stream>>
         ELSE /\ stream' = IF u \in stream.kept THEN stream
                           ELSE [stream EXCEPT !.regions = @ - 1]
              /\ Fail
      /\ reader' = [reader EXCEPT !.answers = Tail(@)]
      /\ content' = content
  BY DEF Answer
<1>2. /\ u \in MetalUnits
      /\ \A y \in ToSet(Tail(reader.answers)) : y \in ToSet(reader.answers)
      /\ x \in ToSet(reader.answers)
  <2>1. reader.answers \in Seq(Places) /\ pass.loading \in Seq(MetalUnits)
    BY PassIs
  <2>2. DOMAIN Tail(reader.answers) = 1 .. Len(reader.answers) - 1
        /\ DOMAIN reader.answers = 1 .. Len(reader.answers)
    BY <1>1, <2>1, Tails
  <2> QED  BY <1>1, <2>1, <2>2, Tails DEF ToSet
<1> HIDE DEF u, x
<1>3. /\ pass'.queue = pass.queue /\ pass'.next = pass.next /\ pass'.loading = Tail(pass.loading)
      /\ pass'.ready = [pass.ready EXCEPT ![u] = x]
      /\ reader'.requests = reader.requests /\ reader'.answers = Tail(reader.answers)
  BY <1>0, <1>1 DEF Passes, Readers
<1>4. \A v \in MetalUnits : pass'.ready[v] = IF v = u THEN x ELSE pass.ready[v]
  BY <1>0, <1>3
<1>5. /\ stream'.kept = stream.kept /\ stream'.version = stream.version
      /\ stream'.spare = stream.spare /\ stream'.used = stream.used
  <2>1. stream' = stream \/ stream' = [stream EXCEPT !.regions = stream.regions - 1]
    BY <1>1
  <2> QED  BY <1>0, <2>1 DEF Streams
<1>6. host'.at \in {"enter", "failing"}
  BY <1>0, <1>1 DEF Fail, Hosts
<1>7. Sparing' /\ \A y : Spared(y)' <=> Spared(y)
  BY <1>5, SparingNow DEF Sparing, Spared
<1>8. \A y \in RegionSet : (ReadInto(y)' => ReadInto(y)) /\ (ToRead(y)' => ToRead(y))
  <2>1. ASSUME NEW y \in RegionSet, ReadInto(y)' PROVE ReadInto(y)
    <3>1. CASE y \in ToSet(reader'.answers)
      BY <1>2, <1>3, <3>1 DEF ReadInto
    <3>2. CASE y \notin ToSet(reader'.answers)
      <4>1. PICK v \in MetalUnits : pass'.ready[v] = y
        BY <2>1, <3>2 DEF ReadInto
      <4>2. CASE v = u
        <5>1. pass'.ready[v] = x
          BY <1>4, <4>2
        <5>2. y \in ToSet(reader.answers)
          BY <1>2, <4>1, <5>1
        <5> QED  BY <5>2 DEF ReadInto
      <4>3. CASE v # u
        BY <1>4, <4>1, <4>3 DEF ReadInto
      <4> QED  BY <4>2, <4>3
    <3> QED  BY <3>1, <3>2
  <2>2. ASSUME NEW y \in RegionSet, ToRead(y)' PROVE ToRead(y)
    BY <1>3, <2>2 DEF ToRead
  <2> QED  BY <2>1, <2>2
<1>9. \A y \in RegionSet : Spared(y)' => ~ToRead(y)' /\ ~ReadInto(y)'
  BY <1>7, <1>8 DEF InHand, OneTaker
<1> QED  BY <1>1, <1>3, <1>4, <1>5, <1>6, <1>7, <1>9, HandsTaken DEF u, x, Settling

LEMMA TakeBackHands ==
    ASSUME HostTypes, InHand, TakeBack
    PROVE  InHand'
<1> DEFINE u == Head(pass.loading)
           r == Head(reader.answers)
<1>0. stream \in Streams /\ pass \in Passes /\ reader \in Readers
  BY DEF HostTypes
<1>1. /\ host.at \in {"ending", "failing"} /\ host' = host /\ content' = content
      /\ pass.loading # <<>> /\ reader.answers # <<>>
      /\ stream' = IF u \in stream.kept THEN stream
                   ELSE IF r = Nowhere THEN [stream EXCEPT !.regions = @ - 1]
                   ELSE [stream EXCEPT !.spare = Append(@, r)]
      /\ pass' = [pass EXCEPT !.loading = Tail(@)]
      /\ reader' = [reader EXCEPT !.answers = Tail(@)]
  BY DEF TakeBack
<1>2. /\ reader.answers \in Seq(Places) /\ pass.loading \in Seq(MetalUnits)
      /\ 1 \in DOMAIN reader.answers /\ r = reader.answers[1] /\ u = pass.loading[1]
      /\ r \in Places
      /\ DOMAIN Tail(reader.answers) = 1 .. Len(reader.answers) - 1
      /\ Len(reader.answers) \in Nat \ {0}
      /\ \A i \in 1 .. Len(reader.answers) - 1 :
           /\ Tail(reader.answers)[i] = reader.answers[i + 1]
           /\ i + 1 \in DOMAIN reader.answers
  <2>1. reader.answers \in Seq(Places) /\ pass.loading \in Seq(MetalUnits)
    BY PassIs
  <2> QED  BY <1>1, <2>1, Tails
<1> HIDE DEF u, r
<1>3. /\ pass'.queue = pass.queue /\ pass'.next = pass.next /\ pass'.loading = Tail(pass.loading)
      /\ pass'.ready = pass.ready
      /\ reader'.requests = reader.requests /\ reader'.answers = Tail(reader.answers)
  BY <1>0, <1>1 DEF Passes, Readers
<1>4. /\ stream'.kept = stream.kept /\ stream'.version = stream.version
      /\ stream'.used = stream.used
      /\ \/ stream'.spare = stream.spare
         \/ u \notin stream.kept /\ r # Nowhere /\ stream'.spare = Append(stream.spare, r)
  <2>1. \/ stream' = stream \/ stream' = [stream EXCEPT !.regions = stream.regions - 1]
        \/ /\ u \notin stream.kept /\ r # Nowhere
           /\ stream' = [stream EXCEPT !.spare = Append(stream.spare, r)]
    BY <1>1
  <2> QED  BY <1>0, <2>1 DEF Streams
<1>5. \A y \in ToSet(Tail(reader.answers)) :
        y \in ToSet(reader.answers) /\ (r # Nowhere => y # r)
  <2>1. ASSUME NEW i \in 1 .. Len(reader.answers) - 1, r # Nowhere
        PROVE  reader.answers[i + 1] # r
    <3>1. i + 1 # 1  BY <1>2, <2>1
    <3> QED  BY <1>2, <2>1, <3>1, OneHolder
  <2> QED  BY <1>2, <2>1 DEF ToSet
<1>6. \A y \in RegionSet : (ReadInto(y)' => ReadInto(y)) /\ (ToRead(y)' <=> ToRead(y))
  BY <1>3, <1>5 DEF ReadInto, ToRead
<1>7. Sparing' /\ \A y \in RegionSet : Spared(y)' => ~ToRead(y)' /\ ~ReadInto(y)'
  <2>1. CASE stream'.spare = stream.spare
    BY <1>4, <1>6, <2>1, SparingNow DEF Sparing, Spared, InHand, OneTaker
  <2>2. CASE u \notin stream.kept /\ r # Nowhere /\ stream'.spare = Append(stream.spare, r)
    <3>1. r \in RegionSet /\ r \in Turns /\ r \in ToSet(reader.answers)
      BY <1>2, <2>2, RegionsAre DEF InHand, OwnUnits, ToSet
    <3>2. PICK x : x = r
      OBVIOUS
    <3>3. ReadInto(x) /\ ~Spared(x) /\ ~ToRead(x)
      BY <3>1, <3>2 DEF ReadInto, InHand, OneTaker
    <3>4. \A v \in MetalUnits : pass.ready[v] # x
      BY <1>2, <2>2, <3>2, OneHolder
    <3>5. ~ReadInto(x)'
      BY <1>3, <1>5, <2>2, <3>2, <3>4 DEF ReadInto
    <3>6. ToSet(stream'.spare) = ToSet(stream.spare) \cup {x} /\ IsInjective(stream'.spare)
      BY <2>2, <3>1, <3>2, <3>3, OneMore, StreamIs, SparingNow DEF Sparing, Spared
    <3>7. x \notin ToSet(stream.used)
      BY <3>3 DEF Spared
    <3>8. Sparing'
      BY <1>4, <3>1, <3>2, <3>6, <3>7, SparingNow DEF Sparing
    <3>9. \A y \in RegionSet : Spared(y)' => Spared(y) \/ y = x
      BY <1>4, <3>6 DEF Spared
    <3>10. ~ToRead(x)'
      BY <1>6, <3>1, <3>2, <3>3
    <3>11. \A y \in RegionSet : Spared(y) => ~ToRead(y)' /\ ~ReadInto(y)'
      BY <1>6 DEF InHand, OneTaker
    <3> QED  BY <3>5, <3>8, <3>9, <3>10, <3>11
  <2> QED  BY <1>4, <2>1, <2>2
<1>8. ~Settling' /\ host'.at # "starved"
  BY <1>1 DEF Settling
<1> QED  BY <1>1, <1>3, <1>4, <1>7, <1>8, HandsTaken

LEMMA CloseHands ==
    ASSUME HostTypes, InHand, Close
    PROVE  InHand'
<1> DEFINE all == {pass.ready[u] : u \in MetalUnits \ stream.kept} \ {Nowhere}
           back == SetToSeq(all)
<1>0. stream \in Streams /\ host \in Hosts
  BY DEF HostTypes
<1>1. /\ stream' = [stream EXCEPT !.spare = @ \o back]
      /\ pass.loading = <<>> /\ pass' = NoPass /\ reader' = reader
      /\ host' = [host EXCEPT !.at = "idle", !.limit = InFlight, !.from = NoBuffer]
  BY DEF Close
<1>2. back \in Seq(all) /\ IsInjective(back)
  BY TakenBack
<1>3. \A r \in all : r \in Turns /\ r \in RegionSet /\ ReadInto(r)
  BY RegionsAre DEF InHand, OwnUnits, ReadInto
<1> HIDE DEF all, back
<1>4. \A r \in ToSet(back) : r \in all
  BY <1>2, InSet
<1>5. back \in Seq(RegionSet)
  BY <1>2, <1>3
<1>6. \A r \in ToSet(back) : ~Spared(r) /\ r \in Turns
  BY <1>3, <1>4 DEF InHand, OneTaker
<1>7. stream'.spare = stream.spare \o back /\ stream'.used = stream.used
  BY <1>0, <1>1 DEF Streams
<1>8. ToSet(stream'.spare) = ToSet(stream.spare) \cup ToSet(back) /\ IsInjective(stream'.spare)
  BY <1>2, <1>5, <1>6, <1>7, JoinedSet, StreamIs, SparingNow DEF Sparing, Spared
<1>9. Sparing'
  BY <1>6, <1>7, <1>8, SparingNow DEF Sparing, Spared
<1>10. host'.at = "idle"
  BY <1>0, <1>1 DEF Hosts
<1>11. reader.requests = <<>> /\ reader.answers = <<>>
  BY <1>1, NothingAsked DEF InHand
<1> QED  BY <1>1, <1>9, <1>10, <1>11, HandsEmpty, NothingIs, NothingTwice

LEMMA HandsQuiet ==
    ASSUME HostTypes, InHand, UNCHANGED <<stream, pass, reader, content>>,
           Settling' => Settling, host'.at = "starved" => Hungry'
    PROVE  InHand'
  BY HandsSame

(* The stream is made anew, or chosen again, between two passes. *)
LEMMA HandsBetween ==
    ASSUME HostTypes, InHand, Settling, reader' = reader, Sparing', host'.at # "starved",
           pass' = pass \/ pass' = [NoPass EXCEPT !.queue = Unread[U]]
    PROVE  InHand'
<1>1. pass.loading = <<>> /\ pass.ready = NoPass.ready /\ IsInjective(pass.queue)
  BY DEF InHand, OneAsk
<1>2. reader.requests = <<>> /\ reader.answers = <<>>
  BY <1>1, NothingAsked DEF InHand
<1>3. pass'.loading = <<>> /\ pass'.ready = NoPass.ready
      /\ pass'.queue \in Seq(MetalUnits) /\ IsInjective(pass'.queue)
  <2>1. CASE pass' = pass
    BY <1>1, <2>1, PassIs
  <2>2. CASE pass' = [NoPass EXCEPT !.queue = Unread[U]]
    BY <2>2, UnreadIs, NothingIs DEF Passes
  <2> QED  BY <2>1, <2>2
<1> QED  BY <1>2, <1>3, HandsEmpty

LEMMA SettleHands ==
    ASSUME HostTypes, InHand, MetalBegin \/ LetGoFirst \/ MetalSettle \/ OpenPass \/ Patch
    PROVE  InHand'
<1>0. host \in Hosts /\ stream \in Streams /\ Sparing
  BY SparingNow DEF HostTypes
<1>1. CASE MetalBegin
  <2>1. host'.at \in {"open", "settle"} /\ host.at = "idle"
    BY <1>0, <1>1 DEF MetalBegin, Hosts
  <2> QED  BY <1>1, <2>1, HandsQuiet DEF MetalBegin, Settling
<1>2. CASE LetGoFirst
  <2>1. stream'.spare = stream.spare /\ stream'.used = stream.used
    BY <1>0, <1>2 DEF LetGoFirst, Streams
  <2>2. host.at = "settle" /\ host'.at = "settling" /\ UNCHANGED <<pass, reader>>
    BY <1>2, FlushHost DEF LetGoFirst
  <2> QED  BY <1>0, <2>1, <2>2, HandsBetween DEF Settling, Sparing
<1>3. CASE MetalSettle
  <2>1. stream'.spare = stream.spare /\ stream'.used = stream.used
    BY <1>0, <1>3 DEF MetalSettle, Streams
  <2>2. host.at = "settling" /\ host'.at = "open" /\ UNCHANGED <<pass, reader>>
    BY <1>0, <1>3 DEF MetalSettle, Hosts
  <2> QED  BY <1>0, <2>1, <2>2, HandsBetween DEF Settling, Sparing
<1>4. CASE OpenPass
  <2>1. host.at = "open" /\ host'.at = "request" /\ UNCHANGED <<stream, reader>>
        /\ pass' = [NoPass EXCEPT !.queue = Unread[U]]
    BY <1>0, <1>4 DEF OpenPass, Hosts
  <2> QED  BY <1>0, <2>1, HandsBetween DEF Settling, Sparing
<1>5. CASE Patch
  <2>1. stream'.spare = <<>> /\ stream'.used = <<>>
    BY <1>5 DEF Patch
  <2>2. host.at = "idle" /\ host'.at # "starved" /\ UNCHANGED <<pass, reader>>
    BY <1>5 DEF Patch
  <2>3. Sparing'
    BY <2>1, NothingTwice DEF Sparing
  <2> QED  BY <2>2, <2>3, HandsBetween DEF Settling
<1> QED  BY <1>1, <1>2, <1>3, <1>4, <1>5

LEMMA RequestHands ==
    ASSUME HostTypes, InHand, MetalRequest
    PROVE  InHand'
<1> DEFINE u == pass.queue[pass.next]
<1>0. host \in Hosts /\ host.at = "request" /\ content' = content /\ pass.next \in Nat \ {0}
  BY PassIs DEF MetalRequest, HostTypes
<1>1. CASE pass.next <= Len(pass.queue) /\ MetalTake(u)
  <2>1. pass.next \in DOMAIN pass.queue
    BY <1>0, <1>1, QueuesAre
  <2>2. u \in MetalUnits /\ u \notin ToSet(pass.loading) /\ pass.ready[u] = Nowhere
    BY <1>0, <2>1, QueuesAre DEF InHand, OneAsk
  <2>3. \A i \in DOMAIN pass.queue : i > pass.next => pass.queue[i] # u
    BY <1>0, <2>1, QueuesAre DEF InHand, OneAsk, IsInjective
  <2> QED  BY <1>0, <1>1, <2>2, <2>3, TakeHands
<1>2. CASE host' = [host EXCEPT !.at = host.then] /\ UNCHANGED <<stream, pass, reader>>
  <2>1. host'.at \in {"enter", "encode"}
    BY <1>0, <1>2, HostIs DEF Hosts
  <2> QED  BY <1>0, <1>2, <2>1, HandsQuiet DEF Settling
<1> QED  BY <1>1, <1>2 DEF MetalRequest

LEMMA StarveHands ==
    ASSUME HostTypes, InHand, Starve
    PROVE  InHand'
<1>1. /\ pass.ready[host.unit] = Nowhere /\ pass.loading = <<>>
      /\ pass.queue[pass.next] = host.unit /\ Flush(0, "starved")
      /\ UNCHANGED <<stream, pass, reader, content>>
  BY DEF Starve
<1>2. host'.unit = host.unit /\ host'.at = "starved"
  BY <1>1, FlushHost
<1> QED  BY <1>1, <1>2, HandsQuiet DEF Hungry, Settling

LEMMA WaitForRegionHands ==
    ASSUME HostTypes, InHand, WaitForRegion
    PROVE  InHand'
<1> DEFINE free == FreeRegions
           made == free.got = Nowhere
           u == host.unit
<1>0. stream \in Streams /\ host \in Hosts /\ OneTaker /\ Sparing /\ u \in MetalUnits
      /\ content' = content
  BY SparingNow, HostIs DEF HostTypes, InHand, WaitForRegion
<1>1. /\ free.got \in Places /\ IsInjective(free.spare) /\ IsInjective(free.used)
      /\ ToSet(free.spare) \cap ToSet(free.used) = {}
      /\ \A r \in ToSet(free.spare) : Spared(r)
      /\ \A r \in ToSet(free.used) : Spared(r)
      /\ free.got # Nowhere =>
           /\ Spared(free.got) /\ free.got \notin ToSet(free.spare)
           /\ free.got \notin ToSet(free.used)
  BY <1>0, FreeRegionsGives DEF OneTaker
<1>2. pass.loading = <<>> /\ pass.ready[u] = Nowhere /\ pass.queue[pass.next] = u
  BY DEF WaitForRegion, InHand, OneAsk
<1>3. CASE /\ stream' = [stream EXCEPT !.spare = free.spare, !.used = free.used,
                                       !.regions = @ + (IF made THEN 1 ELSE 0)]
           /\ \E r \in IF made THEN Unmade ELSE {free.got} : Sent(u, r)
           /\ host' = [host EXCEPT !.at = "enter", !.limit = InFlight]
  <2>1. PICK r \in IF made THEN Unmade ELSE {free.got} : Sent(u, r)
    BY <1>3
  <2>2. /\ stream'.spare = free.spare /\ stream'.used = free.used
        /\ stream'.kept = stream.kept /\ stream'.version = stream.version
    BY <1>0, <1>3 DEF Streams
  <2>3. host'.at = "enter"
    BY <1>0, <1>3 DEF Hosts
  <2> HIDE DEF free
  <2>4. \A x : Spared(x) => x \in Turns
    BY <1>0 DEF Spared, Sparing
  <2>5. Sparing' /\ \A x \in RegionSet : Spared(x)' => Spared(x)
    BY <1>1, <2>2, <2>4 DEF Sparing, Spared
  <2>6. r \in Turns /\ r \in RegionSet /\ ~Spared(r)' /\ ~ToRead(r) /\ ~ReadInto(r)
    <3>1. CASE made
      <4>1. r \in Turns /\ ~Spared(r) /\ ~ToRead(r) /\ ~ReadInto(r)
        BY <2>1, <3>1, UnmadeAre
      <4>2. r \in RegionSet
        BY <4>1, RegionsAre
      <4> QED  BY <2>5, <4>1, <4>2
    <3>2. CASE ~made
      <4>1. r = free.got /\ Spared(r) /\ r \notin ToSet(free.spare) /\ r \notin ToSet(free.used)
        BY <1>1, <2>1, <3>2
      <4>2. r \in Turns /\ r \in RegionSet
        BY <2>4, <4>1, RegionsAre
      <4> QED  BY <1>0, <2>2, <4>1, <4>2 DEF OneTaker, Spared
    <3> QED  BY <3>1, <3>2
  <2>7. u \notin ToSet(pass.loading) /\ pass.next \in Nat \ {0}
    BY <1>2, NothingTwice, PassIs
  <2>8. ASSUME NEW i \in DOMAIN pass.queue, i > pass.next PROVE pass.queue[i] # u
    <3>1. pass.next \in DOMAIN pass.queue /\ i # pass.next
      BY <2>7, <2>8, QueuesAre
    <3> QED  BY <1>2, <2>8, <3>1 DEF InHand, OneAsk, IsInjective
  <2> HIDE DEF u
  <2> QED  BY <1>0, <1>2, <2>1, <2>2, <2>3, <2>5, <2>6, <2>7, <2>8, HandsMore DEF Settling
<1>4. CASE host' = [host EXCEPT !.at = "failing", !.limit = InFlight]
           /\ UNCHANGED <<stream, pass, reader>>
  <2>1. host'.at = "failing"
    BY <1>0, <1>4 DEF Hosts
  <2> QED  BY <1>0, <1>4, <2>1, HandsQuiet DEF Settling
<1> QED  BY <1>3, <1>4 DEF WaitForRegion

(* A region that is being read into is nobody's to hold. *)
LEMMA ReadHands ==
    ASSUME HostTypes, InHand, Read
    PROVE  InHand'
<1> DEFINE ask == Head(reader.requests)
           r == ask.region
<1>1. /\ reader.requests # <<>> /\ UNCHANGED <<host, stream, pass>>
      /\ \/ content' = [content EXCEPT ![r] = Torn] /\ UNCHANGED reader
         \/ /\ content' = [content EXCEPT ![r] = Inside(ask.unit)]
            /\ reader' = [requests |-> Tail(reader.requests),
                          answers |-> Append(reader.answers, r)]
         \/ /\ reader' = [requests |-> Tail(reader.requests),
                          answers |-> Append(reader.answers, Nowhere)]
            /\ UNCHANGED content
  BY DEF Read
<1>2. 1 \in DOMAIN reader.requests /\ ask = reader.requests[1] /\ r \in RegionSet
  BY <1>1, PassIs, QueuesAre, Tails
<1>3. ToRead(r) /\ ~ReadInto(r)
  BY <1>2 DEF ToRead, InHand, OneTaker
<1>4. DOMAIN content = RegionSet /\ Nowhere \notin RegionSet
  BY PassIs, RegionsAre
<1>5. CASE content' = [content EXCEPT ![r] = Torn] /\ UNCHANGED reader
  <2>1. \A x \in RegionSet : ReadInto(x) => content'[x] = content[x]
    BY <1>3, <1>4, <1>5
  <2>2. host'.at = "starved" => Hungry'
    BY <1>1 DEF InHand, OneAsk, Hungry
  <2> QED  BY <1>1, <1>5, <2>1, <2>2, HandsSame DEF Settling
<1>6. CASE /\ content' = [content EXCEPT ![r] = Inside(ask.unit)]
           /\ reader' = [requests |-> Tail(reader.requests),
                         answers |-> Append(reader.answers, r)]
  <2>1. content'[r] = Inside(ask.unit) /\ \A x \in RegionSet : x # r => content'[x] = content[x]
    BY <1>2, <1>4, <1>6
  <2> QED  BY <1>1, <1>6, <2>1, HandsRead
<1>7. CASE /\ reader' = [requests |-> Tail(reader.requests),
                         answers |-> Append(reader.answers, Nowhere)]
           /\ UNCHANGED content
  BY <1>1, <1>7, HandsRead
<1> QED  BY <1>1, <1>5, <1>6, <1>7

LEMMA HandsStay ==
    ASSUME HostTypes, InHand, MetalNext
    PROVE  InHand'
<1>0. host \in Hosts /\ (host.at = "starved" => Hungry)
  BY DEF HostTypes, InHand, OneAsk, Hungry
<1>1. CASE MetalBegin \/ LetGoFirst \/ MetalSettle \/ OpenPass \/ Patch
  BY <1>1, SettleHands
<1>2. CASE MetalRequest \/ Starve \/ WaitForRegion \/ Read
  BY <1>2, RequestHands, StarveHands, WaitForRegionHands, ReadHands
<1>3. CASE Enter \/ Answer \/ TakeBack \/ Close
  BY <1>3, EnterHands, AnswerHands, TakeBackHands, CloseHands
<1>4. CASE OutOfMemory \/ BlockFails
  <2>1. host'.at = "failing" /\ UNCHANGED <<stream, pass, reader, content>>
    BY <1>0, <1>4 DEF OutOfMemory, BlockFails, Fail, Hosts
  <2> QED  BY <2>1, HandsQuiet DEF Settling
<1>5. CASE Encode
  <2>1. host'.at = "leave" /\ UNCHANGED <<stream, pass, reader, content>>
    BY <1>0, <1>5 DEF Encode, Hosts
  <2> QED  BY <2>1, HandsQuiet DEF Settling
<1>6. CASE MetalLeave
  <2>1. host'.at \in {"leave", "read", "enter"} /\ UNCHANGED <<stream, pass, reader, content>>
    <3>1. CASE Flush(InFlight, "leave")
      BY <1>6, <3>1, FlushHost, ConstantsAre DEF MetalLeave
    <3>2. CASE ~Flush(InFlight, "leave")
      BY <1>0, <1>6, <3>2 DEF MetalLeave, Hosts
    <3> QED  BY <3>1, <3>2
  <2> QED  BY <2>1, HandsQuiet DEF Settling
<1>7. CASE ReadBack \/ MakeWay
  <2>1. host'.at \in {"ending", "encode"} /\ UNCHANGED <<stream, pass, reader, content>>
    BY <1>7, FlushHost DEF ReadBack, MakeWay
  <2> QED  BY <2>1, HandsQuiet DEF Settling
<1>8. CASE Wait \/ MetalRun \/ MetalLetGo
  <2>1. UNCHANGED <<host, stream, pass, reader, content>>
    BY <1>8 DEF Wait, MetalRun, MetalLetGo
  <2> QED  BY <1>0, <2>1, HandsQuiet DEF Settling, Hungry
<1> QED  BY <1>1, <1>2, <1>3, <1>4, <1>5, <1>6, <1>7, <1>8 DEF MetalNext, MetalHost

-------------------------------------------------------------------------------
(* The order operations run in *)

LEMMA BeforeIs ==
    ASSUME NEW a \in Nat \X MetalUnits, NEW b \in Nat \X MetalUnits, NEW c \in Nat \X MetalUnits
    PROVE  /\ ~Before(a, a)
           /\ Before(a, b) /\ Before(b, c) => Before(a, c)
           /\ a = b \/ Before(a, b) \/ Before(b, a)
           /\ Before(Pred(a), b) => b = a \/ Before(a, b)
           /\ Before(Pred(a), a)
<1>1. \A x \in Nat \X MetalUnits : x[1] \in Nat /\ x[2] \in Nat
  BY ConstantsAre
<1>2. Pred(a)[1] = a[1] /\ Pred(a)[2] = a[2] - 1
  BY DEF Pred
<1>3. a[1] = b[1] /\ a[2] = b[2] => a = b
  <2>1. \A s, t \in Nat, u, v \in MetalUnits : s = t /\ u = v => <<s, u>> = <<t, v>>
    OBVIOUS
  <2>2. PICK s \in Nat, u \in MetalUnits : a = <<s, u>>
    OBVIOUS
  <2>3. PICK t \in Nat, v \in MetalUnits : b = <<t, v>>
    OBVIOUS
  <2> QED  BY <2>1, <2>2, <2>3
<1>4. ~Before(a, a) /\ (Before(a, b) /\ Before(b, c) => Before(a, c))
  <2>1. /\ a[1] \in Nat /\ a[2] \in Nat /\ b[1] \in Nat /\ b[2] \in Nat
        /\ c[1] \in Nat /\ c[2] \in Nat
    BY <1>1
  <2> QED  BY <2>1 DEF Before
<1>5. a = b \/ Before(a, b) \/ Before(b, a)
  BY <1>1, <1>3 DEF Before
<1>6. Before(Pred(a), b) => b = a \/ Before(a, b)
  BY <1>1, <1>2, <1>3 DEF Before
<1>7. Before(Pred(a), a)
  BY <1>1, <1>2 DEF Before
<1> QED  BY <1>4, <1>5, <1>6, <1>7

LEMMA OpsAre ==
    ASSUME NEW o \in Operations
    PROVE  /\ o.kernel \in Nat \X MetalUnits /\ o.input \in Buffers /\ o.out \in Buffers
           /\ o.from \in Buffers \cup {NoBuffer} /\ o.region \in RegionSet
           /\ Uses(o) = {o.input, o.from, o.out}
  BY DEF Operations, Uses

(* Where the operations pending stand. *)
AtEncoding(o, i) == i \in DOMAIN encoding /\ encoding[i] = o
AtBatch(o, k, j) == k \in DOMAIN batches /\ j \in Left(batches[k]) /\ batches[k].ops[j] = o

LEMMA PlacesOf ==
    ASSUME GpuTypes, NEW o \in Pending
    PROVE  /\ (\E i : AtEncoding(o, i)) \/ (\E k, j : AtBatch(o, k, j))
           /\ \A k, j : AtBatch(o, k, j) => j \in DOMAIN batches[k].ops
           /\ o \in Operations
  BY PendingAre DEF AtEncoding, AtBatch

LEMMA OneAfterAnother ==
    ASSUME GpuTypes, InOrder, NEW o \in Pending, NEW p \in Pending
    PROVE  o = p \/ Earlier(o, p) \/ Earlier(p, o)
<1>0. /\ (\E i : AtEncoding(o, i)) \/ (\E k, j : AtBatch(o, k, j))
      /\ (\E i : AtEncoding(p, i)) \/ (\E k, j : AtBatch(p, k, j))
      /\ \A k, j : AtBatch(o, k, j) => k \in DOMAIN batches /\ j \in DOMAIN batches[k].ops
      /\ \A k, j : AtBatch(p, k, j) => k \in DOMAIN batches /\ j \in DOMAIN batches[k].ops
  BY PlacesOf DEF AtBatch
<1>1. ASSUME NEW i, AtEncoding(o, i), NEW j, AtEncoding(p, j)
      PROVE  o = p \/ Earlier(o, p) \/ Earlier(p, o)
  <2>1. i \in Nat /\ j \in Nat /\ i \in DOMAIN encoding /\ j \in DOMAIN encoding
    BY <1>1, GpuIs DEF AtEncoding
  <2>2. i < j \/ j < i \/ i = j
    BY <2>1
  <2> QED  BY <1>1, <2>1, <2>2 DEF AtEncoding, InOrder, Earlier
<1>2. ASSUME NEW i, AtEncoding(o, i), NEW k, NEW j, AtBatch(p, k, j)
      PROVE  Earlier(p, o)
  BY <1>0, <1>2 DEF AtEncoding, AtBatch, InOrder, Earlier
<1>3. ASSUME NEW i, AtEncoding(p, i), NEW k, NEW j, AtBatch(o, k, j)
      PROVE  Earlier(o, p)
  BY <1>0, <1>3 DEF AtEncoding, AtBatch, InOrder, Earlier
<1>4. ASSUME NEW k, NEW i, AtBatch(o, k, i), NEW l, NEW j, AtBatch(p, l, j)
      PROVE  o = p \/ Earlier(o, p) \/ Earlier(p, o)
  <2>1. /\ k \in DOMAIN batches /\ i \in DOMAIN batches[k].ops /\ batches[k].ops[i] = o
        /\ l \in DOMAIN batches /\ j \in DOMAIN batches[l].ops /\ batches[l].ops[j] = p
    BY <1>0, <1>4 DEF AtBatch
  <2>2. k \in Nat /\ l \in Nat /\ i \in Nat /\ j \in Nat
    BY <2>1, GpuIs
  <2>3. CASE k = l
    <3>1. i < j \/ j < i \/ i = j
      BY <2>2
    <3> QED  BY <2>1, <2>3, <3>1 DEF InOrder, Earlier
  <2>4. CASE k # l
    <3>1. k < l \/ l < k
      BY <2>2, <2>4
    <3> QED  BY <2>1, <3>1 DEF InOrder, Earlier
  <2> QED  BY <2>3, <2>4
<1> QED  BY <1>0, <1>1, <1>2, <1>3, <1>4

(* Two operations pending are one if their kernels are. *)
LEMMA OfOneKernel ==
    ASSUME GpuTypes, InOrder, NEW o \in Pending, NEW p \in Pending, o.kernel = p.kernel
    PROVE  o = p
<1>1. o.kernel \in Nat \X MetalUnits
  BY PendingAre, OpsAre
<1> QED  BY <1>1, OneAfterAnother, BeforeIs DEF Earlier

LEMMA NonePending ==
    ASSUME GpuTypes, Numbered, encoding = <<>>, waits = <<>>
    PROVE  Pending = {}
<1>1. ASSUME NEW o \in Pending PROVE FALSE
  <2>1. \A i : ~AtEncoding(o, i)
    BY DEF AtEncoding
  <2>2. PICK k, j : AtBatch(o, k, j)
    BY <2>1, PlacesOf
  <2>3. /\ k \in DOMAIN batches /\ batches[k].ran \in Nat /\ Len(batches[k].ops) \in Nat
        /\ j \in batches[k].ran + 1 .. Len(batches[k].ops)
    BY <2>2, GpuIs DEF AtBatch, Left
  <2>4. batches[k].ran < Len(batches[k].ops)
    BY <2>3
  <2> QED  BY <2>3, <2>4 DEF Numbered
<1> QED  BY <1>1

(* The next to run is the first of those pending, and it is pending once. *)
FirstIs(k) == \A j \in 1 .. k - 1 : batches[j].ran = Len(batches[j].ops)

LEMMA FirstToRun ==
    ASSUME GpuTypes, InOrder, NEW k \in DOMAIN batches, FirstIs(k),
           batches[k].ran + 1 \in Left(batches[k])
    PROVE  \A q \in Pending : q = NextOp(k) \/ Earlier(NextOp(k), q)
<1> DEFINE op == NextOp(k)
           n == batches[k].ran + 1
<1>0. /\ k \in DOMAIN batches /\ k \in Nat /\ n \in Nat /\ n \in DOMAIN batches[k].ops
      /\ batches[k].ops[n] = op
  BY PendingAre, GpuIs DEF NextOp
<1>1. SUFFICES ASSUME NEW q \in Pending PROVE q = op \/ Earlier(op, q)
  OBVIOUS
<1>2. ASSUME NEW i, AtEncoding(q, i) PROVE Earlier(op, q)
  BY <1>0, <1>2 DEF AtEncoding, InOrder, Earlier
<1>3. ASSUME NEW l, NEW j, AtBatch(q, l, j) PROVE q = op \/ Earlier(op, q)
  <2>1. /\ l \in DOMAIN batches /\ l \in Nat /\ j \in DOMAIN batches[l].ops
        /\ batches[l].ops[j] = q /\ j \in batches[l].ran + 1 .. Len(batches[l].ops)
        /\ batches[l].ran \in Nat /\ Len(batches[l].ops) \in Nat
    BY <1>3, PlacesOf, GpuIs DEF AtBatch, Left
  <2>2. batches[l].ran < Len(batches[l].ops) /\ l >= 1
    BY <2>1, GpuIs
  <2>3. ~(l < k)
    <3>1. l < k => l \in 1 .. k - 1
      BY <1>0, <2>1, <2>2
    <3> QED  BY <2>2, <3>1 DEF FirstIs
  <2>4. CASE l = k
    <3>1. j = n \/ n < j
      BY <1>0, <2>1, <2>4
    <3> HIDE DEF n, op
    <3> QED  BY <1>0, <2>1, <2>4, <3>1 DEF InOrder, Earlier
  <2>5. CASE l # k
    <3>1. k < l
      BY <1>0, <2>1, <2>3, <2>5
    <3> HIDE DEF n, op
    <3> QED  BY <1>0, <2>1, <3>1 DEF InOrder, Earlier
  <2> QED  BY <2>4, <2>5
<1> QED  BY <1>2, <1>3, PlacesOf

LEMMA RunsFirst ==
    ASSUME GpuTypes, InOrder, NEW k, Ran(k), FirstIs(k)
    PROVE  \A q \in Pending : q = NextOp(k) \/ Earlier(NextOp(k), q)
<1>1. k \in DOMAIN batches /\ batches[k].ran + 1 \in Left(batches[k])
  BY RunOps DEF Ran
<1> QED  BY <1>1, FirstToRun

LEMMA OrderStays ==
    ASSUME GpuTypes, InOrder, NEW k, Ran(k)
    PROVE  InOrder' /\ NextOp(k) \notin Pending'
<1>1. InOrder'
  BY RunOps DEF InOrder, Ran
<1> DEFINE n == batches[k].ran + 1
<1>2. /\ k \in DOMAIN batches /\ k \in Nat /\ n \in Nat /\ n \in DOMAIN batches[k].ops
      /\ batches[k].ops[n] = NextOp(k)
  <2>1. n \in Left(batches[k]) /\ k \in DOMAIN batches
    BY RunOps DEF Ran
  <2> QED  BY <2>1, PendingAre, GpuIs DEF NextOp
<1>3. PICK op : op = NextOp(k)
  OBVIOUS
<1>4. op.kernel \in Nat \X MetalUnits
  BY <1>2, <1>3, RunOps, PendingAre, OpsAre
<1>5. ASSUME op \in Pending' PROVE FALSE
  <2>1. \/ \E i \in DOMAIN encoding : encoding[i] = op
        \/ \E l \in DOMAIN batches : \E j \in Left(batches'[l]) : batches[l].ops[j] = op
    <3>1. encoding' = encoding /\ DOMAIN batches' = DOMAIN batches
          /\ \A l \in DOMAIN batches : batches'[l].ops = batches[l].ops
      BY RunOps DEF Ran
    <3>2. op \in ToSet(encoding') \cup UNION {{batches'[l].ops[j] : j \in Left(batches'[l])}
                                                : l \in DOMAIN batches'}
      BY <1>5 DEF Pending, Left
    <3> QED  BY <3>1, <3>2 DEF ToSet
  <2>2. CASE \E i \in DOMAIN encoding : encoding[i] = op
    BY <1>2, <1>3, <1>4, <2>2, BeforeIs DEF InOrder
  <2>3. CASE \E l \in DOMAIN batches : \E j \in Left(batches'[l]) : batches[l].ops[j] = op
    <3>1. PICK l \in DOMAIN batches : \E j \in Left(batches'[l]) : batches[l].ops[j] = op
      BY <2>3
    <3>2. PICK j \in Left(batches'[l]) : batches[l].ops[j] = op
      BY <3>1
    <3>3. j \in Left(batches[l]) /\ ~(l = k /\ j = n)
      BY <3>2, RunOps
    <3>4. j \in DOMAIN batches[l].ops /\ j \in Nat /\ l \in Nat
      BY <3>3, PendingAre, GpuIs
    <3>5. ~Before(op.kernel, op.kernel)
      BY <1>4, BeforeIs
    <3> HIDE DEF n
    <3>6. CASE l = k
      <4>1. j < n \/ n < j
        BY <1>2, <3>3, <3>4, <3>6
      <4> QED  BY <1>2, <1>3, <3>2, <3>4, <3>5, <3>6, <4>1 DEF InOrder
    <3>7. CASE l # k
      <4>1. l < k \/ k < l
        BY <1>2, <3>4, <3>7
      <4> QED  BY <1>2, <1>3, <3>2, <3>4, <3>5, <4>1 DEF InOrder
    <3> QED  BY <3>6, <3>7
  <2> QED  BY <2>1, <2>2, <2>3
<1> QED  BY <1>1, <1>3, <1>5

-------------------------------------------------------------------------------
(* The buffers, step by step *)

Under == {"request", "enter", "starved", "encode", "leave"}

(* A step of the host's keeps what the buffers are, and no operation gets ahead of it. *)
Onward ==
    /\ host'.from = host.from
    /\ \A kernel \in Nat \X MetalUnits : Past(kernel) => Past(kernel)'
    /\ host'.at \in Under => host.from = NoBuffer \/ (host.at \in Under /\ LastKernel' = LastKernel)
    /\ Settling' => host.from = NoBuffer
    /\ host'.at \in Under \ {"leave"} /\ host'.unit = 1 => host.from = NoBuffer
    /\ host'.at \in {"leave", "read", "ending"} => host.from # NoBuffer
Drained == host.at \in {"settling", "starved", "ending"} => encoding = <<>> /\ host.limit = 0

LEMMA PastStays ==
    ASSUME GpuTypes, AllPast, Onward, NEW o \in Held PROVE Past(o.kernel)'
<1>1. o.kernel \in Nat \X MetalUnits
  BY HeldAre, OpsAre
<1>2. PICK kernel : kernel = o.kernel
  OBVIOUS
<1>3. Past(kernel)
  <2>1. (\E k \in DOMAIN encoding : encoding[k] = o)
        \/ (\E k \in DOMAIN batches : \E j \in DOMAIN batches[k].ops : batches[k].ops[j] = o)
    BY HeldAre
  <2> QED  BY <1>2, <2>1 DEF AllPast
<1> QED  BY <1>1, <1>2, <1>3 DEF Onward, Past, MetalKernel

LEMMA AllPastStays ==
    ASSUME GpuTypes, AllPast, Onward, Held' \subseteq Held PROVE AllPast'
<1>1. \A o \in Held' : Past(o.kernel)'
  BY PastStays
<1>2. /\ \A k \in DOMAIN encoding' : encoding'[k] \in Held'
      /\ \A k \in DOMAIN batches' : \A j \in DOMAIN batches'[k].ops : batches'[k].ops[j] \in Held'
  BY DEF Held, ToSet
<1> QED  BY <1>1, <1>2 DEF AllPast

LEMMA HostHasStays ==
    ASSUME HostHas, Onward, Pending' = Pending, data' = data PROVE HostHas'
<1>1. PICK mine : mine = LastKernel
  OBVIOUS
<1>2. /\ host.at \in Under /\ host.from # NoBuffer =>
           \/ \E o \in Pending : o.kernel = mine /\ o.out = host.from
           \/ data[host.from] = mine /\ Pending = {}
      /\ \A o \in Pending : o.input # host.from
  BY <1>1 DEF HostHas, Under
<1>3. /\ host'.from = host.from
      /\ host'.at \in Under => host.from = NoBuffer \/ (host.at \in Under /\ LastKernel' = mine)
      /\ Settling' => host.from = NoBuffer
      /\ host'.at \in Under \ {"leave"} /\ host'.unit = 1 => host.from = NoBuffer
      /\ host'.at \in {"leave", "read", "ending"} => host.from # NoBuffer
  BY <1>1 DEF Onward
<1>4. host'.at \in Under /\ host'.from # NoBuffer =>
         \/ \E o \in Pending' : o.kernel = LastKernel' /\ o.out = host'.from
         \/ data'[host'.from] = LastKernel' /\ Pending' = {}
  BY <1>2, <1>3
<1>5. \A o \in Pending' : o.input # host'.from
  BY <1>2, <1>3
<1>6. Settling' => host'.from = NoBuffer
  BY <1>3
<1>7. /\ host'.at \in Under \ {"leave"} /\ host'.unit = 1 => host'.from = NoBuffer
      /\ host'.at \in {"leave", "read", "ending"} => host'.from # NoBuffer
  BY <1>3
<1> QED  BY <1>4, <1>5, <1>6, <1>7 DEF HostHas, Under

LEMMA QuietGpu ==
    ASSUME HostTypes, GpuTypes, BuffersInv, UNCHANGED gpu, Onward, Drained',
           host'.batch = host.batch
    PROVE  GpuTypes' /\ BuffersInv'
<1>1. /\ encoding' = encoding /\ batches' = batches /\ waits' = waits
      /\ pool' = pool /\ data' = data
      /\ host'.from = host.from
  BY DEF gpu, commands, Onward
<1>2. Held' = Held /\ Pending' = Pending
  BY <1>1, SameOps
<1>3. GpuTypes'
  BY <1>1 DEF GpuTypes
<1>4. InOrder'
  BY <1>1 DEF BuffersInv, InOrder
<1>5. AllPast'
  BY <1>2, <1>3, AllPastStays DEF BuffersInv
<1>6. Numbered'
  BY <1>1 DEF BuffersInv, Numbered, Drained
<1>7. OnePlace'
  BY <1>1 DEF BuffersInv, OnePlace, Pooled
<1>8. FreeOfUse' /\ Apart' /\ OwnInput'
  BY <1>1, <1>2 DEF BuffersInv, FreeOfUse, Apart, OwnInput, Uses
<1>9. Chained'
  BY <1>1, <1>2 DEF BuffersInv, Chained, Earlier, Before, Pred
<1>10. HostHas'
  BY <1>1, <1>2, HostHasStays DEF BuffersInv
<1> QED  BY <1>3, <1>4, <1>5, <1>6, <1>7, <1>8, <1>9, <1>10 DEF BuffersInv

(* With nothing encoded and nothing under way, everything let go of is free. *)
LEMMA SettledGpu ==
    ASSUME HostTypes, GpuTypes, BuffersInv, UNCHANGED <<commands, data>>, pool' = MetalSettled,
           encoding = <<>>, waits = <<>>, Onward, Drained', host'.batch = host.batch
    PROVE  GpuTypes' /\ BuffersInv'
<1>1. /\ encoding' = encoding /\ batches' = batches /\ waits' = waits /\ data' = data
      /\ host'.from = host.from
      /\ pool'.free = pool.free \o pool.retired /\ pool'.retired = <<>>
  BY DEF commands, Onward, MetalSettled
<1>2. Held' = Held /\ Pending' = Pending /\ Pending = {}
  BY <1>1, SameOps, NonePending DEF BuffersInv
<1>3. /\ pool.free \in Seq(Buffers) /\ pool.retired \in Seq(Buffers)
      /\ IsInjective(pool.free) /\ IsInjective(pool.retired)
      /\ ToSet(pool.free) \cap ToSet(pool.retired) = {}
  BY GpuIs DEF BuffersInv, OnePlace
<1>4. /\ pool'.free \in Seq(Buffers) /\ IsInjective(pool'.free)
      /\ ToSet(pool'.free) = ToSet(pool.free) \cup ToSet(pool.retired)
      /\ ToSet(pool'.retired) = {} /\ IsInjective(pool'.retired)
  BY <1>1, <1>3, JoinedSet, NothingTwice
<1>5. DOMAIN waits = {}
  BY Empty
<1>6. GpuTypes'
  <2>1. pool' \in [free : Seq(Buffers), retired : Seq(Buffers)]
    BY <1>1, <1>4, Empty DEF MetalSettled
  <2> QED  BY <1>1, <2>1 DEF GpuTypes
<1>7. InOrder'
  BY <1>1 DEF BuffersInv, InOrder
<1>8. AllPast'
  BY <1>2, <1>6, AllPastStays DEF BuffersInv
<1>9. Numbered'
  BY <1>1 DEF BuffersInv, Numbered, Drained
<1>10. OnePlace'
  BY <1>1, <1>4, <1>5 DEF BuffersInv, OnePlace, Pooled
<1>11. FreeOfUse' /\ Apart' /\ OwnInput' /\ Chained'
  BY <1>1, <1>2, <1>5 DEF FreeOfUse, Apart, OwnInput, Chained
<1>12. HostHas'
  BY <1>1, <1>2, HostHasStays DEF BuffersInv
<1> QED  BY <1>6, <1>7, <1>8, <1>9, <1>10, <1>11, <1>12 DEF BuffersInv

LEMMA CommitTypes ==
    ASSUME HostTypes, GpuTypes, Committed
    PROVE  /\ GpuTypes' /\ Held' = Held /\ Pending' = Pending
           /\ LET n == host.batch + 1
                  last == Len(batches) + 1
                  end == Len(waits) + 1
              IN /\ n \in Nat /\ last \in DOMAIN batches' /\ end \in DOMAIN waits'
                 /\ \A k \in DOMAIN batches : batches'[k] = batches[k] /\ k \in DOMAIN batches'
                                               /\ k < last
                 /\ batches'[last].number = n /\ batches'[last].ops = encoding
                 /\ batches'[last].ran = 0
                 /\ \A k \in DOMAIN batches' : k \in DOMAIN batches \/ k = last
                 /\ \A k \in DOMAIN waits : waits'[k] = waits[k] /\ k \in DOMAIN waits' /\ k < end
                 /\ waits'[end].number = n /\ waits'[end].retired = pool.retired
                 /\ \A k \in DOMAIN waits' : k \in DOMAIN waits \/ k = end
<1> DEFINE n == host.batch + 1
           last == Len(batches) + 1
           end == Len(waits) + 1
           W == [number : Nat, retired : Seq(Buffers)]
           wait == [number |-> n, retired |-> pool.retired]
<1>1. /\ n \in Nat /\ encoding' = <<>>
      /\ batches' = Append(batches, [number |-> n, ops |-> encoding, ran |-> 0])
      /\ waits' = Append(waits, wait) /\ pool' = [pool EXCEPT !.retired = <<>>] /\ data' = data
  BY HostIs DEF Committed
<1>2. /\ waits \in Seq(W) /\ wait \in W /\ batches \in Seq(Batch)
      /\ pool \in [free : Seq(Buffers), retired : Seq(Buffers)]
      /\ \A k \in DOMAIN batches : batches[k].ran <= Len(batches[k].ops)
      /\ DOMAIN waits = 1 .. Len(waits) /\ Len(waits) \in Nat
      /\ DOMAIN batches = 1 .. Len(batches) /\ Len(batches) \in Nat
      /\ Len(encoding) \in Nat
  BY <1>1, GpuIs DEF GpuTypes
<1>3. /\ Held' = Held /\ Pending' = Pending
      /\ batches' \in Seq(Batch) /\ DOMAIN batches' = 1 .. last
      /\ \A k \in DOMAIN batches : batches'[k] = batches[k] /\ k \in DOMAIN batches'
      /\ batches'[last] = [number |-> n, ops |-> encoding, ran |-> 0]
      /\ \A k \in DOMAIN batches' : k \in DOMAIN batches \/ k = last
  <2> HIDE DEF n
  <2> QED  BY <1>1, CommitOps
<1> HIDE DEF n, wait, W
<1>4. /\ waits' \in Seq(W) /\ DOMAIN waits' = 1 .. end
      /\ \A k \in DOMAIN waits : waits'[k] = waits[k] /\ k \in DOMAIN waits'
      /\ waits'[end] = wait
      /\ \A k \in DOMAIN waits' : k \in DOMAIN waits \/ k = end
  BY <1>1, <1>2, Appends
<1>5. /\ last \in DOMAIN batches' /\ end \in DOMAIN waits'
      /\ \A k \in DOMAIN batches : k < last
      /\ \A k \in DOMAIN waits : k < end
  BY <1>2, <1>3, <1>4
<1>6. GpuTypes'
  <2>1. \A k \in DOMAIN batches' : batches'[k].ran <= Len(batches'[k].ops)
    <3>1. \A k \in DOMAIN batches : batches'[k].ran <= Len(batches'[k].ops)
      BY <1>2, <1>3
    <3>2. batches'[last].ran <= Len(batches'[last].ops)
      BY <1>2, <1>3
    <3> QED  BY <1>3, <3>1, <3>2
  <2>2. pool' \in [free : Seq(Buffers), retired : Seq(Buffers)]
    BY <1>1, <1>2, Empty
  <2>3. encoding' \in Seq(Operations)
    BY <1>1, Empty
  <2>4. data' \in [Buffers -> Nat \X Nat]
    BY <1>1 DEF GpuTypes
  <2> QED  BY <1>3, <1>4, <2>1, <2>2, <2>3, <2>4 DEF GpuTypes, Batch, W
<1> QED  BY <1>1, <1>3, <1>4, <1>5, <1>6 DEF n, wait

(* What was encoded is committed: nothing more is free, ... *)
LEMMA CommitGpu ==
    ASSUME HostTypes, GpuTypes, BuffersInv, Committed, Onward, Drained',
           host'.batch = host.batch + 1
    PROVE  GpuTypes' /\ BuffersInv'
<1> DEFINE n == host.batch + 1
           last == Len(batches) + 1
           end == Len(waits) + 1
<1>0. /\ GpuTypes' /\ Held' = Held /\ Pending' = Pending
      /\ n \in Nat /\ last \in DOMAIN batches' /\ end \in DOMAIN waits'
      /\ \A k \in DOMAIN batches : batches'[k] = batches[k] /\ k \in DOMAIN batches' /\ k < last
      /\ batches'[last].number = n /\ batches'[last].ops = encoding /\ batches'[last].ran = 0
      /\ \A k \in DOMAIN batches' : k \in DOMAIN batches \/ k = last
      /\ \A k \in DOMAIN waits : waits'[k] = waits[k] /\ k \in DOMAIN waits' /\ k < end
      /\ waits'[end].number = n /\ waits'[end].retired = pool.retired
      /\ \A k \in DOMAIN waits' : k \in DOMAIN waits \/ k = end
  BY CommitTypes
<1>1. /\ encoding' = <<>> /\ data' = data /\ pool'.free = pool.free /\ pool'.retired = <<>>
      /\ host'.batch = n /\ host.batch \in Nat /\ host.batch < n /\ host'.from = host.from
  <2>1. pool \in [free : Seq(Buffers), retired : Seq(Buffers)]
    BY DEF GpuTypes
  <2> QED  BY <2>1, HostIs DEF Committed, Onward
<1>2. /\ last \in Nat /\ end \in Nat /\ DOMAIN batches \subseteq Nat /\ DOMAIN waits \subseteq Nat
      /\ DOMAIN encoding' = {} /\ ToSet(pool'.retired) = {} /\ IsInjective(pool'.retired)
  BY <1>1, GpuIs, Empty, NothingTwice
<1> HIDE DEF n, last, end
<1>3. InOrder'
  <2>1. ASSUME NEW k \in DOMAIN batches', NEW i \in DOMAIN batches'[k].ops,
               NEW j \in DOMAIN batches'[k].ops, i < j
        PROVE  Before(batches'[k].ops[i].kernel, batches'[k].ops[j].kernel)
    BY <1>0, <2>1 DEF BuffersInv, InOrder
  <2>2. ASSUME NEW k \in DOMAIN batches', NEW l \in DOMAIN batches', k < l,
               NEW i \in DOMAIN batches'[k].ops, NEW j \in DOMAIN batches'[l].ops
        PROVE  Before(batches'[k].ops[i].kernel, batches'[l].ops[j].kernel)
    <3>1. k \in DOMAIN batches
      <4>1. k = last => l \in DOMAIN batches \/ l = last
        BY <1>0
      <4>2. k # last
        BY <1>0, <1>2, <2>2, <4>1
      <4> QED  BY <1>0, <4>2
    <3>2. CASE l \in DOMAIN batches
      BY <1>0, <2>2, <3>1, <3>2 DEF BuffersInv, InOrder
    <3>3. CASE l = last
      BY <1>0, <2>2, <3>1, <3>3 DEF BuffersInv, InOrder
    <3> QED  BY <1>0, <3>2, <3>3
  <2> QED  BY <1>2, <2>1, <2>2 DEF InOrder, Before
<1>4. AllPast'
  BY <1>0, AllPastStays DEF BuffersInv
<1>5. Numbered'
  <2>1. \A k \in DOMAIN batches' : batches'[k].number <= host'.batch
    <3>1. \A k \in DOMAIN batches : batches[k].number <= host.batch /\ batches[k].number \in Nat
      BY GpuIs DEF BuffersInv, Numbered
    <3>2. \A k \in DOMAIN batches : batches[k].number <= n
      BY <1>0, <1>1, <3>1
    <3> QED  BY <1>0, <1>1, <3>2
  <2>2. \A k \in DOMAIN waits : waits[k].number < n /\ waits[k].number <= n
    <3>1. \A k \in DOMAIN waits : waits[k].number <= host.batch /\ waits[k].number \in Nat
      BY GpuIs DEF BuffersInv, Numbered
    <3> QED  BY <1>0, <1>1, <3>1
  <2>3. \A k \in DOMAIN waits' : waits'[k].number <= host'.batch
    BY <1>0, <1>1, <2>2
  <2>4. ASSUME NEW k \in DOMAIN waits', NEW l \in DOMAIN waits', k < l
        PROVE  waits'[k].number < waits'[l].number
    <3>1. k \in DOMAIN waits
      BY <1>0, <1>2, <2>4
    <3>2. CASE l \in DOMAIN waits
      BY <1>0, <2>4, <3>1, <3>2 DEF BuffersInv, Numbered
    <3>3. CASE l = end
      BY <1>0, <2>2, <3>1, <3>3
    <3> QED  BY <1>0, <3>2, <3>3
  <2>5. ASSUME NEW k \in DOMAIN batches', batches'[k].ran < Len(batches'[k].ops)
        PROVE  \E l \in DOMAIN waits' : waits'[l].number = batches'[k].number
    <3>1. CASE k \in DOMAIN batches
      <4>1. PICK l \in DOMAIN waits : waits[l].number = batches[k].number
        BY <1>0, <2>5, <3>1 DEF BuffersInv, Numbered
      <4> QED  BY <1>0, <3>1, <4>1
    <3>2. CASE k = last
      BY <1>0, <3>2
    <3> QED  BY <1>0, <3>1, <3>2
  <2> QED  BY <2>1, <2>3, <2>4, <2>5 DEF Numbered, Drained
<1>6. OnePlace'
  <2>1. \A b : Pooled(b)' => Pooled(b)
    BY <1>0, <1>1, <1>2 DEF Pooled
  <2>2. ~Pooled(host.from)'
    BY <1>1, <2>1 DEF BuffersInv, OnePlace
  <2>3. \A k \in DOMAIN waits' : IsInjective(waits'[k].retired)
    BY <1>0 DEF BuffersInv, OnePlace
  <2>4. \A k \in DOMAIN waits' :
          ToSet(waits'[k].retired) \cap (ToSet(pool'.free) \cup ToSet(pool'.retired)) = {}
    BY <1>0, <1>1, <1>2 DEF BuffersInv, OnePlace
  <2>5. ASSUME NEW k \in DOMAIN waits', NEW l \in DOMAIN waits', k # l
        PROVE  ToSet(waits'[k].retired) \cap ToSet(waits'[l].retired) = {}
    BY <1>0, <2>5 DEF BuffersInv, OnePlace
  <2> QED  BY <1>1, <1>2, <2>2, <2>3, <2>4, <2>5 DEF BuffersInv, OnePlace
<1>7. FreeOfUse'
  <2>1. \A op \in Pending' : \A b \in Uses(op) : b \notin ToSet(pool'.free)
    BY <1>0, <1>1 DEF BuffersInv, FreeOfUse
  <2>2. ASSUME NEW k \in DOMAIN waits', NEW b \in ToSet(waits'[k].retired),
               NEW l \in DOMAIN batches', waits'[k].number < batches'[l].number,
               NEW j \in batches'[l].ran + 1 .. Len(batches'[l].ops)
        PROVE  b \notin Uses(batches'[l].ops[j])
    <3>1. k \in DOMAIN waits
      <4>1. \A m \in DOMAIN batches : batches[m].number <= host.batch /\ batches[m].number \in Nat
        BY GpuIs DEF BuffersInv, Numbered
      <4>2. batches'[l].number \in Nat /\ batches'[l].number <= n
        BY <1>0, <1>1, <4>1
      <4> QED  BY <1>0, <2>2, <4>2
    <3>2. CASE l \in DOMAIN batches
      BY <1>0, <2>2, <3>1, <3>2 DEF BuffersInv, FreeOfUse
    <3>3. CASE l = last
      <4>1. j \in DOMAIN encoding
        BY <1>0, <2>2, <3>3, GpuIs
      <4> QED  BY <1>0, <2>2, <3>1, <3>3, <4>1 DEF BuffersInv, FreeOfUse
    <3> QED  BY <1>0, <3>2, <3>3
  <2> QED  BY <1>2, <2>1, <2>2 DEF FreeOfUse, Uses
<1>8. Apart' /\ OwnInput'
  BY <1>0, <1>1 DEF BuffersInv, Apart, OwnInput, Uses
<1>9. Chained'
  BY <1>0, <1>1 DEF BuffersInv, Chained, Earlier, Before, Pred
<1>10. HostHas'
  BY <1>0, <1>1, HostHasStays DEF BuffersInv
<1> QED  BY <1>0, <1>3, <1>4, <1>5, <1>6, <1>7, <1>8, <1>9, <1>10 DEF BuffersInv

(* ... the next operation runs, ... *)
LEMMA RunGpu ==
    ASSUME HostTypes, GpuTypes, BuffersInv, MetalRun
    PROVE  GpuTypes' /\ BuffersInv'
<1>1. PICK k \in DOMAIN batches :
        /\ Ran(k) /\ FirstIs(k)
        /\ data' = [data EXCEPT ![NextOp(k).out] = NextOp(k).kernel]
  BY DEF MetalRun, Ran, FirstIs, NextOp
<1>2. host' = host /\ encoding' = encoding /\ waits' = waits /\ pool' = pool
  BY DEF MetalRun
<1>3. /\ Held' = Held /\ batches' \in Seq(Batch) /\ DOMAIN batches' = DOMAIN batches
      /\ \A i \in DOMAIN batches :
           /\ batches'[i].ops = batches[i].ops /\ batches'[i].number = batches[i].number
           /\ batches'[i].ran <= Len(batches'[i].ops)
           /\ batches'[i].ran < Len(batches'[i].ops) => batches[i].ran < Len(batches[i].ops)
           /\ Left(batches'[i]) \subseteq Left(batches[i])
      /\ NextOp(k) \in Pending /\ Pending' \subseteq Pending
      /\ \A op \in Pending : op = NextOp(k) \/ op \in Pending'
  <2>1. \A i \in DOMAIN batches :
           /\ batches'[i].ran = IF i = k THEN batches[i].ran + 1 ELSE batches[i].ran
           /\ batches'[i].ops = batches[i].ops
    BY <1>1, RunOps
  <2>2. ASSUME NEW i \in DOMAIN batches, batches'[i].ran < Len(batches'[i].ops)
        PROVE  batches[i].ran < Len(batches[i].ops)
    <3>1. batches[i].ran \in Nat /\ Len(batches[i].ops) \in Nat
          /\ batches'[i].ran \in {batches[i].ran, batches[i].ran + 1}
          /\ batches'[i].ops = batches[i].ops
      BY <2>1, GpuIs
    <3> QED  BY <2>2, <3>1
  <2>3. \A i \in DOMAIN batches : Left(batches'[i]) \subseteq Left(batches[i])
    BY <1>1, RunOps
  <2> QED  BY <1>1, <2>2, <2>3, RunOps
<1>4. PICK op : op = NextOp(k)
  OBVIOUS
<1>5. /\ op \in Pending /\ op \in Operations /\ op \notin Pending'
      /\ \A q \in Pending : q = op \/ Earlier(op, q)
      /\ \A q \in Pending' : q \in Pending /\ q # op /\ Earlier(op, q) /\ q \in Operations
      /\ \A q \in Pending : q = op \/ q \in Pending'
      /\ InOrder'
  BY <1>1, <1>3, <1>4, RunsFirst, OrderStays, PendingAre DEF BuffersInv
<1>6. /\ op.kernel \in Nat \X MetalUnits /\ op.out \in Buffers
      /\ data \in [Buffers -> Nat \X Nat] /\ op.kernel \in Nat \X Nat
  <2>1. MetalUnits \subseteq Nat
    BY ConstantsAre
  <2> QED  BY <1>5, <2>1, OpsAre, GpuIs
<1>7. data' = [data EXCEPT ![op.out] = op.kernel]
  BY <1>1, <1>4
<1>8. data'[op.out] = op.kernel /\ \A b \in Buffers : b # op.out => data'[b] = data[b]
  BY <1>6, <1>7
<1>9. GpuTypes'
  <2>1. data' \in [Buffers -> Nat \X Nat]
    BY <1>6, <1>7
  <2> QED  BY <1>2, <1>3, <2>1 DEF GpuTypes, Batch
<1>10. AllPast'
  BY <1>2, <1>3 DEF BuffersInv, AllPast, Past, MetalKernel
<1>11. Numbered'
  BY <1>2, <1>3 DEF BuffersInv, Numbered
<1>12. OnePlace'
  BY <1>2 DEF BuffersInv, OnePlace, Pooled
<1>13. FreeOfUse'
  <2>1. \A q \in Pending' : \A b \in Uses(q) : b \notin ToSet(pool'.free)
    BY <1>2, <1>3 DEF BuffersInv, FreeOfUse
  <2>2. ASSUME NEW l \in DOMAIN waits, NEW b \in ToSet(waits[l].retired),
               NEW i \in DOMAIN batches, waits[l].number < batches[i].number,
               NEW j \in Left(batches[i])
        PROVE  b \notin Uses(batches[i].ops[j])
    BY <2>2 DEF BuffersInv, FreeOfUse, Left
  <2>3. ASSUME NEW l \in DOMAIN waits', NEW b \in ToSet(waits'[l].retired),
               NEW i \in DOMAIN batches', waits'[l].number < batches'[i].number,
               NEW j \in Left(batches'[i])
        PROVE  b \notin Uses(batches'[i].ops[j])
    BY <1>2, <1>3, <2>2, <2>3
  <2>4. \A l \in DOMAIN waits' : \A b \in ToSet(waits'[l].retired) :
          \A j \in DOMAIN encoding' : b \notin Uses(encoding'[j])
    BY <1>2 DEF BuffersInv, FreeOfUse
  <2> QED  BY <2>1, <2>3, <2>4 DEF FreeOfUse, Left, Uses
<1>14. Apart'
  BY <1>3 DEF BuffersInv, Apart, Uses
<1>15. OwnInput'
  <2>1. ASSUME NEW o \in Pending'
        PROVE  o.input \notin {o.from, o.out} /\ data'[o.input] = o.kernel
    <3>1. o.input # op.out /\ o.input \in Buffers
      BY <1>5, OpsAre DEF BuffersInv, Apart, Uses
    <3> QED  BY <1>3, <1>8, <3>1 DEF BuffersInv, OwnInput
  <2> QED  BY <2>1 DEF OwnInput
<1>16. Chained'
  <2>1. ASSUME NEW p \in Pending', p.from # NoBuffer
        PROVE  \/ \E o \in Pending' : o.kernel = Pred(p.kernel) /\ o.out = p.from
               \/ data'[p.from] = Pred(p.kernel) /\ \A q \in Pending' : q = p \/ Earlier(p, q)
    <3>1. CASE \E o \in Pending : o.kernel = Pred(p.kernel) /\ o.out = p.from
      <4>1. PICK o \in Pending : o.kernel = Pred(p.kernel) /\ o.out = p.from
        BY <3>1
      <4>2. CASE o # op
        BY <1>5, <4>1, <4>2
      <4>3. CASE o = op
        <5>1. data'[p.from] = Pred(p.kernel)
          BY <1>8, <4>1, <4>3
        <5>2. ASSUME NEW q \in Pending' PROVE q = p \/ Earlier(p, q)
          <6>1. Before(Pred(p.kernel), q.kernel)
            BY <1>5, <4>1, <4>3 DEF Earlier
          <6>2. p.kernel \in Nat \X MetalUnits /\ q.kernel \in Nat \X MetalUnits
            BY <1>5, OpsAre
          <6>3. q.kernel = p.kernel \/ Before(p.kernel, q.kernel)
            BY <6>1, <6>2, BeforeIs
          <6>4. q.kernel = p.kernel => q = p
            BY <1>5, OfOneKernel DEF BuffersInv
          <6> QED  BY <6>3, <6>4 DEF Earlier
        <5> QED  BY <5>1, <5>2
      <4> QED  BY <4>2, <4>3
    <3>2. CASE \A q \in Pending : q = p \/ Earlier(p, q)
      <4>1. Earlier(p, op) /\ Earlier(op, p)
        BY <1>5, <3>2
      <4>2. p.kernel \in Nat \X MetalUnits
        BY <1>5, OpsAre
      <4> QED  BY <1>6, <4>1, <4>2, BeforeIs DEF Earlier
    <3> QED  BY <1>3, <2>1, <3>1, <3>2 DEF BuffersInv, Chained
  <2> QED  BY <2>1 DEF Chained, Earlier, Pred, Before
<1>17. HostHas'
  <2>1. PICK mine : mine = LastKernel
    OBVIOUS
  <2>2. mine = LastKernel'
    BY <1>2, <2>1 DEF LastKernel, MetalKernel, Pred
  <2>3. ASSUME host.at \in Under, host.from # NoBuffer
        PROVE  \/ \E o \in Pending' : o.kernel = mine /\ o.out = host.from
               \/ data'[host.from] = mine /\ Pending' = {}
    <3>1. PICK o \in Pending : o.kernel = mine /\ o.out = host.from
      BY <1>5, <2>1, <2>3 DEF BuffersInv, HostHas, Under
    <3>2. CASE o # op
      BY <1>5, <3>1, <3>2
    <3>3. CASE o = op
      <4>1. data'[host.from] = mine
        BY <1>8, <3>1, <3>3
      <4>2. ASSUME NEW q \in Pending' PROVE FALSE
        <5>1. Before(mine, q.kernel) /\ q.kernel \in Nat \X MetalUnits
          BY <1>5, <3>1, <3>3, OpsAre DEF Earlier
        <5>2. Past(q.kernel)
          <6>1. q \in Held
            BY <1>5, PendingAre
          <6>2. (\E i \in DOMAIN encoding : encoding[i] = q)
                \/ \E i \in DOMAIN batches :
                     \E j \in DOMAIN batches[i].ops : batches[i].ops[j] = q
            BY <6>1, HeldAre
          <6> QED  BY <6>2 DEF BuffersInv, AllPast
        <5>3. MetalKernel \in Nat \X MetalUnits /\ MetalKernel = <<host.call, host.unit>>
          BY HostIs DEF MetalKernel
        <5>4. CASE host.at = "leave"
          <6>1. Before(MetalKernel, q.kernel)
            BY <2>1, <5>1, <5>4 DEF LastKernel
          <6>2. q.kernel[1] \in Nat /\ q.kernel[2] \in Nat /\ host.call \in Nat /\ host.unit \in Nat
            BY <5>1, HostIs, ConstantsAre
          <6> QED  BY <5>2, <5>3, <5>4, <6>1, <6>2 DEF Past, Before
        <5>5. CASE host.at # "leave"
          <6>1. Before(Pred(MetalKernel), q.kernel) /\ Before(q.kernel, MetalKernel)
            BY <2>1, <2>3, <5>1, <5>2, <5>5 DEF LastKernel, Past, Under
          <6>2. q.kernel = MetalKernel \/ Before(MetalKernel, q.kernel)
            BY <5>1, <5>3, <6>1, BeforeIs
          <6> QED  BY <5>1, <5>3, <6>1, <6>2, BeforeIs
        <5> QED  BY <5>4, <5>5
      <4> QED  BY <4>1, <4>2
    <3> QED  BY <3>2, <3>3
  <2>4. \A o \in Pending' : o.input # host'.from
    BY <1>2, <1>3 DEF BuffersInv, HostHas
  <2> QED  BY <1>2, <2>2, <2>3, <2>4 DEF BuffersInv, HostHas, Under, Settling
<1> QED  BY <1>5, <1>9, <1>10, <1>11, <1>12, <1>13, <1>14, <1>15, <1>16, <1>17 DEF BuffersInv

(* ... a batch that is done lets go of what it holds, ... *)
LEMMA LetGoGpu ==
    ASSUME HostTypes, GpuTypes, BuffersInv, MetalLetGo
    PROVE  GpuTypes' /\ BuffersInv'
<1>1. PICK k \in DOMAIN batches :
        batches[k].ran = Len(batches[k].ops) /\ batches' = RemoveAt(batches, k)
  BY DEF MetalLetGo
<1>2. host' = host /\ encoding' = encoding /\ waits' = waits /\ pool' = pool /\ data' = data
  BY DEF MetalLetGo
<1> DEFINE Was(i) == IF i < k THEN i ELSE i + 1
<1>3. /\ Held' \subseteq Held /\ Pending' = Pending
      /\ batches' \in Seq(Batch) /\ DOMAIN batches' = 1 .. Len(batches) - 1
      /\ \A i \in DOMAIN batches' : batches'[i] = batches[Was(i)] /\ Was(i) \in DOMAIN batches
  BY <1>1, <1>2, LetGoOps
<1>4. \A i, j \in DOMAIN batches' : i < j => Was(i) < Was(j)
  <2>1. k \in Nat /\ Len(batches) \in Nat
    BY GpuIs
  <2> QED  BY <1>3, <2>1
<1> HIDE DEF Was
<1>5. GpuTypes'
  BY <1>2, <1>3 DEF GpuTypes, Batch
<1>6. InOrder'
  <2>1. \A i, j \in DOMAIN encoding' : i < j => Before(encoding'[i].kernel, encoding'[j].kernel)
    BY <1>2 DEF BuffersInv, InOrder
  <2>2. ASSUME NEW l \in DOMAIN batches', NEW i \in DOMAIN batches'[l].ops
        PROVE  /\ \A j \in DOMAIN batches'[l].ops :
                    i < j => Before(batches'[l].ops[i].kernel, batches'[l].ops[j].kernel)
               /\ \A j \in DOMAIN encoding' :
                    Before(batches'[l].ops[i].kernel, encoding'[j].kernel)
    BY <1>2, <1>3, <2>2 DEF BuffersInv, InOrder
  <2>3. ASSUME NEW l \in DOMAIN batches', NEW m \in DOMAIN batches', l < m,
               NEW i \in DOMAIN batches'[l].ops, NEW j \in DOMAIN batches'[m].ops
        PROVE  Before(batches'[l].ops[i].kernel, batches'[m].ops[j].kernel)
    BY <1>3, <1>4, <2>3 DEF BuffersInv, InOrder
  <2> QED  BY <2>1, <2>2, <2>3 DEF InOrder, Before
<1>7. AllPast'
  BY <1>2, <1>3 DEF BuffersInv, AllPast, Past, MetalKernel
<1>8. Numbered'
  BY <1>2, <1>3 DEF BuffersInv, Numbered
<1>9. OnePlace'
  BY <1>2 DEF BuffersInv, OnePlace, Pooled
<1>10. FreeOfUse'
  <2>1. ASSUME NEW l \in DOMAIN waits', NEW b \in ToSet(waits'[l].retired),
               NEW i \in DOMAIN batches', waits'[l].number < batches'[i].number,
               NEW j \in batches'[i].ran + 1 .. Len(batches'[i].ops)
        PROVE  b \notin Uses(batches'[i].ops[j])
    BY <1>2, <1>3, <2>1 DEF BuffersInv, FreeOfUse
  <2>2. \A l \in DOMAIN waits' : \A b \in ToSet(waits'[l].retired) :
          \A j \in DOMAIN encoding' : b \notin Uses(encoding'[j])
    BY <1>2 DEF BuffersInv, FreeOfUse
  <2>3. \A q \in Pending' : \A b \in Uses(q) : b \notin ToSet(pool'.free)
    BY <1>2, <1>3 DEF BuffersInv, FreeOfUse
  <2> QED  BY <2>1, <2>2, <2>3 DEF FreeOfUse, Uses
<1>11. Apart' /\ OwnInput'
  BY <1>2, <1>3 DEF BuffersInv, Apart, OwnInput, Uses
<1>12. Chained'
  BY <1>2, <1>3 DEF BuffersInv, Chained, Earlier, Before, Pred
<1>13. HostHas'
  BY <1>2, <1>3 DEF BuffersInv, HostHas, LastKernel, MetalKernel, Pred, Settling
<1> QED  BY <1>5, <1>6, <1>7, <1>8, <1>9, <1>10, <1>11, <1>12, <1>13 DEF BuffersInv

(* ... and what the oldest batch held back is free once it is done. *)
LEMMA WaitGpu ==
    ASSUME HostTypes, GpuTypes, BuffersInv, Wait
    PROVE  GpuTypes' /\ BuffersInv'
<1>1. /\ host.limit < Len(waits)
      /\ \A k \in DOMAIN batches :
           batches[k].number = waits[1].number => batches[k].ran = Len(batches[k].ops)
      /\ waits' = Tail(waits) /\ pool' = [pool EXCEPT !.free = @ \o waits[1].retired]
      /\ host' = host /\ encoding' = encoding /\ batches' = batches /\ data' = data
  BY DEF Wait
<1> DEFINE m == Len(waits)
           W == [number : Nat, retired : Seq(Buffers)]
           oldest == waits[1].retired
<1>2. /\ waits \in Seq(W) /\ pool \in [free : Seq(Buffers), retired : Seq(Buffers)]
      /\ \A k \in DOMAIN waits : waits[k].number \in Nat /\ waits[k].retired \in Seq(Buffers)
      /\ m \in Nat /\ DOMAIN waits = 1 .. m
  BY GpuIs DEF GpuTypes
<1>3. m > 0 /\ waits # <<>> /\ 1 \in DOMAIN waits /\ oldest \in Seq(Buffers)
  <2>1. m > 0
    BY <1>1, <1>2, HostIs
  <2>2. waits # <<>>
    BY <2>1, Empty
  <2>3. 1 \in DOMAIN waits
    BY <1>2, <2>1
  <2> QED  BY <1>2, <2>1, <2>2, <2>3
<1> HIDE DEF W
<1>4. /\ waits' \in Seq(W) /\ DOMAIN waits' = 1 .. m - 1
      /\ \A k \in DOMAIN waits' : waits'[k] = waits[k + 1] /\ k + 1 \in DOMAIN waits
  BY <1>1, <1>2, <1>3, Tails
<1>5. \A k \in DOMAIN waits' : k + 1 # 1 /\ k \in Nat /\ k + 1 > 1
  BY <1>2, <1>4
<1>6. \A k \in DOMAIN waits : k = 1 \/ \E i \in DOMAIN waits' : i + 1 = k
  <2>1. \A k \in 1 .. m : k = 1 \/ (k - 1 \in 1 .. m - 1 /\ (k - 1) + 1 = k)
    BY <1>2
  <2> QED  BY <1>2, <1>4, <2>1
<1>7. Held' = Held /\ Pending' = Pending
  BY <1>1, SameOps
<1> HIDE DEF m, oldest
<1>8. /\ pool'.free = pool.free \o oldest /\ pool'.retired = pool.retired
      /\ pool.free \in Seq(Buffers) /\ pool.retired \in Seq(Buffers)
      /\ pool' \in [free : Seq(Buffers), retired : Seq(Buffers)]
  <2>1. pool.free \o oldest \in Seq(Buffers)
    BY <1>2, <1>3, JoinedSet
  <2> QED  BY <1>1, <1>2, <2>1 DEF oldest
<1>9. /\ IsInjective(pool'.free) /\ ToSet(pool'.free) = ToSet(pool.free) \cup ToSet(oldest)
      /\ ToSet(oldest) \cap ToSet(pool.retired) = {}
  <2>1. /\ IsInjective(pool.free) /\ IsInjective(oldest) /\ ToSet(oldest) \cap ToSet(pool.free) = {}
        /\ ToSet(oldest) \cap ToSet(pool.retired) = {}
    BY <1>3 DEF BuffersInv, OnePlace, oldest
  <2> QED  BY <1>3, <1>8, <2>1, JoinedSet
<1>10. GpuTypes'
  BY <1>1, <1>4, <1>8 DEF GpuTypes, W
<1>11. InOrder'
  BY <1>1 DEF BuffersInv, InOrder
<1>12. AllPast'
  BY <1>1 DEF BuffersInv, AllPast, Past, MetalKernel
<1>13. \A k, l \in DOMAIN waits : k < l => waits[k].number < waits[l].number
  BY DEF BuffersInv, Numbered
<1>14. ASSUME NEW k \in DOMAIN batches, batches[k].ran < Len(batches[k].ops)
       PROVE  /\ waits[1].number < batches[k].number
              /\ \E l \in DOMAIN waits' : waits'[l].number = batches[k].number
  <2>1. PICK l \in DOMAIN waits : waits[l].number = batches[k].number
    BY <1>14 DEF BuffersInv, Numbered
  <2>2. batches[k].ran # Len(batches[k].ops)
    BY <1>14, GpuIs
  <2>3. l # 1
    BY <1>1, <2>1, <2>2
  <2>4. PICK i \in DOMAIN waits' : i + 1 = l
    BY <1>6, <2>3
  <2> QED  BY <1>3, <1>4, <1>5, <1>13, <2>1, <2>4
<1>15. Numbered'
  <2>1. /\ \A k \in DOMAIN batches : batches[k].number <= host.batch
        /\ \A k \in DOMAIN waits : waits[k].number <= host.batch
        /\ Drained
    BY DEF BuffersInv, Numbered, Drained
  <2>2. \A k \in DOMAIN waits' : waits'[k].number <= host'.batch
    BY <1>1, <1>4, <2>1
  <2>3. \A k, l \in DOMAIN waits' : k < l => waits'[k].number < waits'[l].number
    BY <1>4, <1>5, <1>13
  <2> QED  BY <1>1, <1>14, <2>1, <2>2, <2>3 DEF Numbered, Drained
<1>16. OnePlace'
  <2>1. \A b : Pooled(b)' => Pooled(b)
    BY <1>3, <1>4, <1>8, <1>9 DEF Pooled, oldest
  <2>2. ~Pooled(host.from)'
    BY <1>1, <2>1 DEF BuffersInv, OnePlace
  <2>3. \A k \in DOMAIN waits' : IsInjective(waits'[k].retired)
    BY <1>4 DEF BuffersInv, OnePlace
  <2>4. \A k \in DOMAIN waits' :
          ToSet(waits'[k].retired) \cap (ToSet(pool'.free) \cup ToSet(pool'.retired)) = {}
    BY <1>3, <1>4, <1>5, <1>8, <1>9 DEF BuffersInv, OnePlace, oldest
  <2>5. ASSUME NEW k \in DOMAIN waits', NEW l \in DOMAIN waits', k # l
        PROVE  ToSet(waits'[k].retired) \cap ToSet(waits'[l].retired) = {}
    <3>1. k + 1 # l + 1
      BY <1>5, <2>5
    <3> QED  BY <1>4, <3>1 DEF BuffersInv, OnePlace
  <2>6. IsInjective(pool'.retired) /\ ToSet(pool'.free) \cap ToSet(pool'.retired) = {}
    BY <1>8, <1>9 DEF BuffersInv, OnePlace
  <2> QED  BY <1>1, <1>9, <2>2, <2>3, <2>4, <2>5, <2>6 DEF OnePlace
<1>17. FreeOfUse'
  <2>1. ASSUME NEW q \in Pending, NEW b \in Uses(q), b \in ToSet(oldest) PROVE FALSE
    <3>1. CASE \E i : AtEncoding(q, i)
      BY <1>3, <2>1, <3>1 DEF BuffersInv, FreeOfUse, AtEncoding, oldest
    <3>2. CASE \E k, j : AtBatch(q, k, j)
      <4>1. PICK k, j : AtBatch(q, k, j)
        BY <3>2
      <4>2. /\ k \in DOMAIN batches /\ batches[k].ops[j] = q
            /\ j \in batches[k].ran + 1 .. Len(batches[k].ops)
            /\ batches[k].ran \in Nat /\ Len(batches[k].ops) \in Nat
        BY <4>1, GpuIs DEF AtBatch, Left
      <4>3. batches[k].ran < Len(batches[k].ops)
        BY <4>2
      <4>4. waits[1].number < batches[k].number
        BY <1>14, <4>2, <4>3
      <4> QED  BY <1>3, <2>1, <4>2, <4>4 DEF BuffersInv, FreeOfUse, oldest
    <3> QED  BY <2>1, <3>1, <3>2, PlacesOf
  <2>2. \A q \in Pending' : \A b \in Uses(q) : b \notin ToSet(pool'.free)
    BY <1>7, <1>9, <2>1 DEF BuffersInv, FreeOfUse
  <2>3. ASSUME NEW l \in DOMAIN waits', NEW b \in ToSet(waits'[l].retired)
        PROVE  /\ \A j \in DOMAIN encoding' : b \notin Uses(encoding'[j])
               /\ \A i \in DOMAIN batches' : waits'[l].number < batches'[i].number =>
                    \A j \in batches'[i].ran + 1 .. Len(batches'[i].ops) :
                      b \notin Uses(batches'[i].ops[j])
    <3>1. PICK n \in DOMAIN waits : waits[n] = waits'[l]
      BY <1>4
    <3>2. /\ \A j \in DOMAIN encoding : b \notin Uses(encoding[j])
          /\ \A i \in DOMAIN batches : waits[n].number < batches[i].number =>
               \A j \in batches[i].ran + 1 .. Len(batches[i].ops) : b \notin Uses(batches[i].ops[j])
      BY <2>3, <3>1 DEF BuffersInv, FreeOfUse
    <3> QED  BY <1>1, <3>1, <3>2
  <2> QED  BY <2>2, <2>3 DEF FreeOfUse, Uses
<1>18. Apart' /\ OwnInput'
  BY <1>1, <1>7 DEF BuffersInv, Apart, OwnInput, Uses
<1>19. Chained'
  BY <1>1, <1>7 DEF BuffersInv, Chained, Earlier, Before, Pred
<1>20. HostHas'
  BY <1>1, <1>7 DEF BuffersInv, HostHas, LastKernel, MetalKernel, Pred, Settling
<1> QED  BY <1>10, <1>11, <1>12, <1>15, <1>16, <1>17, <1>18, <1>19, <1>20 DEF BuffersInv

LEMMA PoppedIs ==
    ASSUME NEW S, NEW s \in Seq(S)
    PROVE  /\ Popped(s) \in Seq(S) /\ ToSet(Popped(s)) \subseteq ToSet(s)
           /\ IsInjective(s) => IsInjective(Popped(s))
           /\ s # <<>> => /\ Last(s) \in ToSet(s) /\ Last(s) \in S
                          /\ IsInjective(s) => Last(s) \notin ToSet(Popped(s))
<1>1. CASE s = <<>>
  BY <1>1, NothingTwice DEF Popped
<1>2. CASE s # <<>>
  <2>1. Popped(s) = Front(s)
    BY <1>2 DEF Popped
  <2> QED  BY <1>2, <2>1, Fronts
<1> QED  BY <1>1, <1>2

LEMMA ReadsThem ==
    ASSUME NEW ops, NEW j \in DOMAIN ops, NEW b \in Uses(ops[j]), b # NoBuffer
    PROVE  b \in MetalReads(ops)
<1> DEFINE all == UNION {{ops[k].input, ops[k].from, ops[k].out} : k \in DOMAIN ops}
<1>1. b \in {ops[j].input, ops[j].from, ops[j].out}
  BY DEF Uses
<1>2. b \in all
  BY <1>1
<1>3. MetalReads(ops) = all \ {NoBuffer}
  BY DEF MetalReads
<1> HIDE DEF all
<1> QED  BY <1>2, <1>3

LEMMA HeldReads ==
    ASSUME GpuTypes, NEW b \in Buffers, b \notin HeldBy(MetalReads)
    PROVE  \A q \in Held : b \notin Uses(q)
<1>1. ASSUME NEW q \in Held, b \in Uses(q) PROVE b \in HeldBy(MetalReads)
  <2>1. b # NoBuffer
    BY ConstantsAre
  <2>2. CASE \E k \in DOMAIN encoding : encoding[k] = q
    <3>1. b \in MetalReads(encoding)
      BY <1>1, <2>1, <2>2, ReadsThem
    <3> QED  BY <3>1 DEF HeldBy
  <2>3. CASE \E k \in DOMAIN batches : \E j \in DOMAIN batches[k].ops : batches[k].ops[j] = q
    <3>1. PICK k \in DOMAIN batches : \E j \in DOMAIN batches[k].ops : batches[k].ops[j] = q
      BY <2>3
    <3>2. b \in MetalReads(batches[k].ops)
      BY <1>1, <2>1, <3>1, ReadsThem
    <3> QED  BY <3>2 DEF HeldBy
  <2> QED  BY <2>2, <2>3, HeldAre
<1> QED  BY <1>1

(* A buffer that is given is nobody's. *)
Unused(b) ==
    /\ b \in Buffers /\ b # host.from /\ b \notin ToSet(pool.retired)
    /\ \A q \in Pending : b \notin Uses(q)
    /\ \A k \in DOMAIN waits : b \notin ToSet(waits[k].retired)

LEMMA FreeIsUnused ==
    ASSUME HostTypes, GpuTypes, BuffersInv, NEW b \in ToSet(pool.free)
    PROVE  Unused(b)
<1>1. b \in Buffers
  BY GpuIs, InSet
<1>2. b # host.from
  BY DEF BuffersInv, OnePlace, Pooled
<1> QED  BY <1>1, <1>2 DEF BuffersInv, OnePlace, FreeOfUse, Unused

LEMMA GivenIsUnused ==
    ASSUME HostTypes, GpuTypes, BuffersInv, NEW free, NEW taken, NEW b \in MetalGiven(free, taken)
    PROVE  \/ free # <<>> /\ b = Last(free)
           \/ free = <<>> /\ Unused(b) /\ b \notin taken /\ b \notin ToSet(pool.free)
<1>1. CASE free # <<>>
  BY <1>1 DEF MetalGiven
<1>2. CASE free = <<>>
  <2>1. b \in Buffers \ (HeldBy(MetalReads) \cup ToSet(pool.free) \cup ToSet(pool.retired)
                         \cup {host.from} \cup taken
                         \cup UNION {ToSet(waits[k].retired) : k \in DOMAIN waits})
    BY <1>2 DEF MetalGiven
  <2>2. \A q \in Pending : b \notin Uses(q)
    <3>1. Pending \subseteq Held
      BY PendingAre
    <3> QED  BY <2>1, <3>1, HeldReads
  <2> QED  BY <1>2, <2>1, <2>2 DEF Unused
<1> QED  BY <1>1, <1>2

LEMMA TwoGiven ==
    ASSUME HostTypes, GpuTypes, BuffersInv, NEW input \in MetalGiven(pool.free, {}),
           NEW out \in MetalGiven(Popped(pool.free), {input})
    PROVE  LET left == Popped(Popped(pool.free))
           IN /\ left \in Seq(Buffers) /\ IsInjective(left)
              /\ ToSet(left) \subseteq ToSet(pool.free)
              /\ input \notin ToSet(left) /\ out \notin ToSet(left)
              /\ Unused(input) /\ Unused(out) /\ input # out
<1> DEFINE once == Popped(pool.free)
           left == Popped(once)
<1>1. /\ once \in Seq(Buffers) /\ ToSet(once) \subseteq ToSet(pool.free) /\ IsInjective(once)
      /\ pool.free # <<>> =>
           Last(pool.free) \in ToSet(pool.free) /\ Last(pool.free) \notin ToSet(once)
      /\ pool.free = <<>> => once = <<>>
  <2>1. pool.free \in Seq(Buffers) /\ IsInjective(pool.free)
    BY GpuIs DEF BuffersInv, OnePlace
  <2>2. pool.free = <<>> => once = <<>>
    BY DEF Popped
  <2> QED  BY <2>1, <2>2, PoppedIs
<1>2. Unused(input) /\ input \notin ToSet(once)
  <2>1. CASE pool.free # <<>> /\ input = Last(pool.free)
    BY <1>1, <2>1, FreeIsUnused
  <2>2. CASE pool.free = <<>> /\ Unused(input)
    BY <1>1, <2>2, NothingTwice
  <2> QED  BY <2>1, <2>2, GivenIsUnused
<1> HIDE DEF once
<1>3. /\ left \in Seq(Buffers) /\ ToSet(left) \subseteq ToSet(once) /\ IsInjective(left)
      /\ once # <<>> => Last(once) \in ToSet(once) /\ Last(once) \notin ToSet(left)
      /\ once = <<>> => left = <<>>
  <2>1. once = <<>> => left = <<>>
    BY DEF Popped
  <2> QED  BY <1>1, <2>1, PoppedIs
<1> HIDE DEF left
<1>4. Unused(out) /\ out # input /\ out \notin ToSet(left)
  <2>1. CASE once # <<>> /\ out = Last(once)
    BY <1>1, <1>2, <1>3, <2>1, FreeIsUnused
  <2>2. CASE once = <<>> /\ Unused(out) /\ out \notin {input}
    BY <1>3, <2>2, NothingTwice
  <2>3. out \in MetalGiven(once, {input})
    BY DEF once
  <2> QED  BY <2>1, <2>2, <2>3, GivenIsUnused
<1> QED  BY <1>1, <1>2, <1>3, <1>4 DEF left, once

(* What the host lets go of goes behind what it let go of before. *)
LetGoOf(b) == IF b = NoBuffer THEN <<>> ELSE <<b>>

LEMMA LetGoBehind ==
    ASSUME NEW s \in Seq(Buffers), IsInjective(s), NEW b \in Buffers \cup {NoBuffer},
           b \notin ToSet(s)
    PROVE  /\ s \o LetGoOf(b) \in Seq(Buffers) /\ IsInjective(s \o LetGoOf(b))
           /\ \A c \in ToSet(s \o LetGoOf(b)) : c \in ToSet(s) \/ (c = b /\ b # NoBuffer)
<1>1. CASE b = NoBuffer
  <2>1. s \o LetGoOf(b) = s
    BY <1>1 DEF LetGoOf
  <2> QED  BY <2>1
<1>2. CASE b # NoBuffer
  <2>1. b \in Buffers
    BY <1>2
  <2> DEFINE t == LetGoOf(b)
  <2>2. t \in Seq(Buffers) /\ IsInjective(t) /\ ToSet(t) = {b}
    BY <1>2, <2>1 DEF LetGoOf, IsInjective, ToSet
  <2> HIDE DEF t
  <2>3. s \o t \in Seq(Buffers) /\ ToSet(s \o t) = ToSet(s) \cup ToSet(t) /\ IsInjective(s \o t)
    BY <2>2, JoinedSet
  <2> QED  BY <1>2, <2>2, <2>3 DEF t
<1> QED  BY <1>1, <1>2

LEMMA EncodeGpu ==
    ASSUME HostTypes, GpuTypes, TensorsHold, BuffersInv, Encode
    PROVE  GpuTypes' /\ BuffersInv'
<1>1. PICK input \in MetalGiven(pool.free, {}) : \E out \in MetalGiven(Popped(pool.free), {input}) :
         /\ data' = [data EXCEPT ![input] = MetalKernel]
         /\ encoding' = Append(encoding, Encoded(input, out))
         /\ pool' = [free |-> Popped(Popped(pool.free)),
                     retired |-> pool.retired \o LetGoOf(host.from)]
         /\ host' = [host EXCEPT !.at = "leave", !.from = out, !.limit = InFlight]
  BY DEF Encode, Encoded, LetGoOf
<1>2. PICK out \in MetalGiven(Popped(pool.free), {input}) :
         /\ data' = [data EXCEPT ![input] = MetalKernel]
         /\ encoding' = Append(encoding, Encoded(input, out))
         /\ pool' = [free |-> Popped(Popped(pool.free)),
                     retired |-> pool.retired \o LetGoOf(host.from)]
         /\ host' = [host EXCEPT !.at = "leave", !.from = out, !.limit = InFlight]
  BY <1>1
<1>3. host.at = "encode" /\ batches' = batches /\ waits' = waits
  BY DEF Encode
<1>4. /\ pool'.free \in Seq(Buffers) /\ IsInjective(pool'.free)
      /\ ToSet(pool'.free) \subseteq ToSet(pool.free)
      /\ input \notin ToSet(pool'.free) /\ out \notin ToSet(pool'.free)
      /\ Unused(input) /\ Unused(out) /\ input # out
      /\ pool'.retired = pool.retired \o LetGoOf(host.from)
  BY <1>2, TwoGiven
<1>5. /\ host'.at = "leave" /\ host'.from = out /\ host'.call = host.call /\ host'.unit = host.unit
      /\ host'.batch = host.batch /\ host.from \in Buffers \cup {NoBuffer}
  BY <1>2, HostIs DEF HostTypes, Hosts
<1>6. input \in Buffers /\ out \in Buffers /\ NoBuffer \notin Buffers
  BY <1>4, ConstantsAre DEF Unused
<1>7. ~Pooled(host.from)
  BY DEF BuffersInv, OnePlace
<1>8. /\ pool'.retired \in Seq(Buffers) /\ IsInjective(pool'.retired)
      /\ \A b \in ToSet(pool'.retired) :
           b \in ToSet(pool.retired) \/ (b = host.from /\ host.from # NoBuffer)
  <2>1. /\ pool.retired \in Seq(Buffers) /\ IsInjective(pool.retired)
        /\ host.from \notin ToSet(pool.retired)
    BY <1>7, GpuIs DEF BuffersInv, OnePlace, Pooled
  <2> QED  BY <1>4, <1>5, <2>1, LetGoBehind
<1>9. PICK op : op = Encoded(input, out)
  OBVIOUS
<1>10. /\ op \in Operations /\ op.input = input /\ op.out = out /\ op.from = host.from
       /\ op.kernel = MetalKernel /\ Uses(op) = {input, host.from, out}
  <2>1. op \in Operations
    BY <1>3, <1>6, <1>9, EncodedIs
  <2> QED  BY <1>9, <2>1 DEF Encoded, Uses
<1>11. encoding' = Append(encoding, op)
  BY <1>2, <1>9
<1> DEFINE last == Len(encoding) + 1
<1>12. /\ Held' = Held \cup {op} /\ Pending' = Pending \cup {op}
       /\ encoding' \in Seq(Operations) /\ DOMAIN encoding' = 1 .. last
       /\ \A k \in DOMAIN encoding : encoding'[k] = encoding[k]
       /\ encoding'[last] = op
       /\ \A k \in DOMAIN encoding' : k \in DOMAIN encoding \/ k = last
  BY <1>3, <1>10, <1>11, EncodeOps
<1>13. \A k \in DOMAIN encoding : k < last /\ k \in Nat
  BY GpuIs
<1> HIDE DEF last
<1>14. /\ MetalKernel \in Nat \X MetalUnits /\ MetalKernel \in Nat \X Nat
       /\ data \in [Buffers -> Nat \X Nat]
  BY HostIs, GpuIs, ConstantsAre DEF MetalKernel
<1>15. data'[input] = MetalKernel /\ \A b \in Buffers : b # input => data'[b] = data[b]
  BY <1>2, <1>6, <1>14
<1>16. /\ \A q \in Held : Past(q.kernel)
       /\ \A q \in Held : Before(q.kernel, MetalKernel)
  <2>1. ASSUME NEW q \in Held PROVE Past(q.kernel)
    <3>1. (\E k \in DOMAIN encoding : encoding[k] = q)
          \/ (\E k \in DOMAIN batches : \E j \in DOMAIN batches[k].ops : batches[k].ops[j] = q)
      BY HeldAre
    <3> QED  BY <3>1 DEF BuffersInv, AllPast
  <2> QED  BY <1>3, <2>1 DEF Past
<1>17. /\ \A k \in DOMAIN encoding : encoding[k] \in Held
       /\ \A k \in DOMAIN batches : \A j \in DOMAIN batches[k].ops : batches[k].ops[j] \in Held
       /\ \A q \in Pending : q \in Held /\ q \in Operations
  BY HeldAre, PendingAre
<1>18. GpuTypes'
  <2>1. data' \in [Buffers -> Nat \X Nat]
    BY <1>2, <1>14
  <2>2. pool' \in [free : Seq(Buffers), retired : Seq(Buffers)]
    BY <1>2, <1>4, <1>8
  <2> QED  BY <1>3, <1>12, <2>1, <2>2 DEF GpuTypes
<1>19. InOrder'
  <2>1. ASSUME NEW i \in DOMAIN encoding', NEW j \in DOMAIN encoding', i < j
        PROVE  Before(encoding'[i].kernel, encoding'[j].kernel)
    <3>1. i \in DOMAIN encoding
      <4>1. j \in DOMAIN encoding \/ j = last
        BY <1>12
      <4>2. last \in Nat
        BY GpuIs DEF last
      <4>3. i # last
        BY <1>13, <2>1, <4>1, <4>2
      <4> QED  BY <1>12, <4>3
    <3>2. CASE j \in DOMAIN encoding
      BY <1>12, <2>1, <3>1, <3>2 DEF BuffersInv, InOrder
    <3>3. CASE j = last
      BY <1>10, <1>12, <1>16, <1>17, <3>1, <3>3
    <3> QED  BY <1>12, <3>2, <3>3
  <2>2. ASSUME NEW k \in DOMAIN batches, NEW i \in DOMAIN batches[k].ops, NEW j \in DOMAIN encoding'
        PROVE  Before(batches[k].ops[i].kernel, encoding'[j].kernel)
    <3>1. CASE j \in DOMAIN encoding
      BY <1>12, <3>1 DEF BuffersInv, InOrder
    <3>2. CASE j = last
      BY <1>10, <1>12, <1>16, <1>17, <3>2
    <3> QED  BY <1>12, <3>1, <3>2
  <2> QED  BY <1>3, <2>1, <2>2 DEF BuffersInv, InOrder, Before
<1>20. AllPast'
  <2>1. ASSUME NEW q \in Held' PROVE Past(q.kernel)'
    <3>1. q \in Operations
      BY <1>10, <1>12, HeldAre
    <3>2. PICK kernel : kernel = q.kernel
      OBVIOUS
    <3>3. kernel[1] \in Nat /\ kernel[2] \in Nat /\ host.call \in Nat /\ host.unit \in Nat
      BY <3>1, <3>2, OpsAre, HostIs, ConstantsAre
    <3>4. Before(kernel, MetalKernel) \/ kernel = MetalKernel
      BY <1>10, <1>12, <1>16, <3>2
    <3>5. kernel[1] <= host.call /\ (kernel[1] < host.call \/ kernel[2] <= host.unit)
      BY <3>3, <3>4 DEF Before, MetalKernel
    <3> QED  BY <1>5, <3>2, <3>5 DEF Past
  <2>2. /\ \A k \in DOMAIN encoding' : encoding'[k] \in Held'
        /\ \A k \in DOMAIN batches' : \A j \in DOMAIN batches'[k].ops : batches'[k].ops[j] \in Held'
    BY DEF Held, ToSet
  <2> QED  BY <2>1, <2>2 DEF AllPast
<1>21. Numbered'
  BY <1>3, <1>5 DEF BuffersInv, Numbered
<1>22. \A k \in DOMAIN waits : host.from \notin ToSet(waits[k].retired)
  BY <1>7 DEF Pooled
<1>23. OnePlace'
  <2>1. ToSet(pool'.free) \cap ToSet(pool'.retired) = {}
    BY <1>4, <1>7, <1>8 DEF BuffersInv, OnePlace, Pooled
  <2>2. \A k \in DOMAIN waits :
           ToSet(waits[k].retired) \cap (ToSet(pool'.free) \cup ToSet(pool'.retired)) = {}
    BY <1>4, <1>8, <1>22 DEF BuffersInv, OnePlace
  <2>3. ~Pooled(host.from)'
    <3>1. out # host.from /\ out \notin ToSet(pool.retired)
          /\ \A k \in DOMAIN waits : out \notin ToSet(waits[k].retired)
      BY <1>4 DEF Unused
    <3> QED  BY <1>3, <1>4, <1>5, <1>8, <3>1 DEF Pooled
  <2> QED  BY <1>3, <1>4, <1>8, <2>1, <2>2, <2>3 DEF BuffersInv, OnePlace
<1>24. \A q \in Pending : input \notin Uses(q) /\ out \notin Uses(q)
  BY <1>4 DEF Unused
<1>25. \A q \in Pending' : q \in Pending \/ q = op
  BY <1>12
<1>26. FreeOfUse'
  <2>1. ASSUME NEW q \in Pending', NEW b \in Uses(q) PROVE b \notin ToSet(pool'.free)
    <3>1. CASE q \in Pending
      BY <1>4, <2>1, <3>1 DEF BuffersInv, FreeOfUse
    <3>2. CASE q = op
      <4>1. b = input \/ b = out \/ b = host.from
        BY <1>10, <2>1, <3>2
      <4>2. host.from \notin ToSet(pool'.free)
        BY <1>4, <1>7 DEF Pooled
      <4> QED  BY <1>4, <4>1, <4>2
    <3> QED  BY <1>25, <3>1, <3>2
  <2>2. ASSUME NEW k \in DOMAIN waits, NEW b \in ToSet(waits[k].retired), NEW j \in DOMAIN encoding'
        PROVE  b \notin Uses(encoding'[j])
    <3>1. CASE j \in DOMAIN encoding
      BY <1>12, <3>1 DEF BuffersInv, FreeOfUse
    <3>2. CASE j = last
      BY <1>4, <1>10, <1>12, <1>22, <3>2 DEF Unused
    <3> QED  BY <1>12, <3>1, <3>2
  <2>3. ASSUME NEW k \in DOMAIN waits, NEW b \in ToSet(waits[k].retired), NEW l \in DOMAIN batches,
               waits[k].number < batches[l].number,
               NEW j \in batches[l].ran + 1 .. Len(batches[l].ops)
        PROVE  b \notin Uses(batches[l].ops[j])
    BY <2>3 DEF BuffersInv, FreeOfUse
  <2>4. ASSUME NEW k \in DOMAIN waits', NEW b \in ToSet(waits'[k].retired)
        PROVE  /\ \A j \in DOMAIN encoding' : b \notin Uses(encoding'[j])
               /\ \A i \in DOMAIN batches' : waits'[k].number < batches'[i].number =>
                    \A j \in batches'[i].ran + 1 .. Len(batches'[i].ops) :
                      b \notin Uses(batches'[i].ops[j])
    BY <1>3, <2>2, <2>3, <2>4
  <2> QED  BY <2>1, <2>4 DEF FreeOfUse, Uses
<1>27. Apart'
  <2>1. ASSUME NEW o \in Pending', NEW p \in Pending', o # p PROVE o.input \notin Uses(p)
    <3>1. CASE o \in Pending /\ p \in Pending
      BY <2>1, <3>1 DEF BuffersInv, Apart
    <3>2. CASE o = op /\ p \in Pending
      BY <1>10, <1>24, <3>2
    <3>3. CASE o \in Pending /\ p = op
      <4>1. o.input # input /\ o.input # out /\ o.input # host.from
        BY <1>24, <3>3 DEF Uses, BuffersInv, HostHas
      <4> QED  BY <1>10, <3>3, <4>1
    <3> QED  BY <1>25, <2>1, <3>1, <3>2, <3>3
  <2> QED  BY <2>1 DEF Apart, Uses
<1>28. OwnInput'
  <2>1. ASSUME NEW o \in Pending'
        PROVE  o.input \notin {o.from, o.out} /\ data'[o.input] = o.kernel
    <3>1. CASE o \in Pending
      <4>1. o.input # input /\ o.input \in Buffers
        BY <1>17, <1>24, <3>1, OpsAre DEF Uses
      <4> QED  BY <1>15, <3>1, <4>1 DEF BuffersInv, OwnInput
    <3>2. CASE o = op
      BY <1>4, <1>10, <1>15, <3>2 DEF Unused
    <3> QED  BY <1>25, <3>1, <3>2
  <2> QED  BY <2>1 DEF OwnInput
<1>29. Chained'
  <2>1. ASSUME NEW p \in Pending', p.from # NoBuffer
        PROVE  \/ \E o \in Pending' : o.kernel = Pred(p.kernel) /\ o.out = p.from
               \/ data'[p.from] = Pred(p.kernel) /\ \A q \in Pending' : q = p \/ Earlier(p, q)
    <3>1. CASE p \in Pending
      <4>1. CASE \E o \in Pending : o.kernel = Pred(p.kernel) /\ o.out = p.from
        BY <1>12, <4>1
      <4>2. CASE data[p.from] = Pred(p.kernel) /\ \A q \in Pending : q = p \/ Earlier(p, q)
        <5>1. p.from # input /\ p.from \in Buffers
          BY <1>17, <1>24, <2>1, <3>1, OpsAre DEF Uses
        <5>2. Earlier(p, op)
          BY <1>10, <1>16, <1>17, <3>1 DEF Earlier
        <5> QED  BY <1>15, <1>25, <4>2, <5>1, <5>2
      <4> QED  BY <2>1, <3>1, <4>1, <4>2 DEF BuffersInv, Chained
    <3>2. CASE p = op
      <4>1. host.from # NoBuffer /\ host.from \in Buffers /\ host.from # input
        BY <1>4, <1>5, <1>10, <2>1, <3>2 DEF Unused
      <4>2. LastKernel = Pred(op.kernel)
        BY <1>3, <1>10 DEF LastKernel
      <4>3. \/ \E o \in Pending : o.kernel = LastKernel /\ o.out = host.from
            \/ data[host.from] = LastKernel /\ Pending = {}
        BY <1>3, <4>1 DEF BuffersInv, HostHas
      <4>4. CASE \E o \in Pending : o.kernel = LastKernel /\ o.out = host.from
        BY <1>10, <1>12, <3>2, <4>2, <4>4
      <4>5. CASE data[host.from] = LastKernel /\ Pending = {}
        BY <1>10, <1>15, <1>25, <3>2, <4>1, <4>2, <4>5
      <4> QED  BY <4>3, <4>4, <4>5
    <3> QED  BY <1>25, <3>1, <3>2
  <2> QED  BY <2>1 DEF Chained, Earlier, Pred, Before
<1>30. HostHas'
  <2>1. LastKernel' = MetalKernel
    BY <1>5 DEF LastKernel, MetalKernel
  <2>2. \E o \in Pending' : o.kernel = LastKernel' /\ o.out = host'.from
    BY <1>5, <1>10, <1>12, <2>1
  <2>3. ASSUME NEW o \in Pending' PROVE o.input # host'.from
    BY <1>4, <1>5, <1>10, <1>24, <1>25, <2>3 DEF Uses
  <2>4. host'.from # NoBuffer
    BY <1>5, <1>6
  <2> QED  BY <1>5, <2>2, <2>3, <2>4 DEF HostHas, Settling
<1> QED  BY <1>18, <1>19, <1>20, <1>21, <1>23, <1>26, <1>27, <1>28, <1>29, <1>30 DEF BuffersInv

(* What the host let go of at the end of a pass is free, or waits for what may still read it. *)
LEMMA ClosePool ==
    ASSUME HostTypes, GpuTypes, BuffersInv, Close
    PROVE  /\ pool'.free \in Seq(Buffers) /\ IsInjective(pool'.free)
           /\ pool'.retired \in Seq(Buffers) /\ IsInjective(pool'.retired)
           /\ pool' \in [free : Seq(Buffers), retired : Seq(Buffers)]
           /\ ToSet(pool'.free) \cap ToSet(pool'.retired) = {}
           /\ \A b \in ToSet(pool'.free) \cup ToSet(pool'.retired) :
                \/ b \in ToSet(pool.free) \cup ToSet(pool.retired)
                \/ b = host.from /\ b # NoBuffer
           /\ Pending = {} \/ pool'.free = pool.free
<1>0. /\ pool.free \in Seq(Buffers) /\ IsInjective(pool.free)
      /\ pool.retired \in Seq(Buffers) /\ IsInjective(pool.retired)
      /\ ToSet(pool.free) \cap ToSet(pool.retired) = {}
      /\ host.from \notin ToSet(pool.free) /\ host.from \notin ToSet(pool.retired)
      /\ pool \in [free : Seq(Buffers), retired : Seq(Buffers)]
      /\ host.from \in Buffers \cup {NoBuffer}
  BY GpuIs, HostIs DEF BuffersInv, OnePlace, Pooled, GpuTypes
<1>1. CASE host.at = "ending"
  <2>1. encoding = <<>> /\ waits = <<>>
    <3>1. encoding = <<>> /\ host.limit = 0 /\ Len(waits) <= host.limit
      BY <1>1 DEF Close, Ready, BuffersInv, Numbered
    <3> QED  BY <3>1, GpuIs
  <2>2. Pending = {}
    BY <2>1, NonePending DEF BuffersInv
  <2>3. host.from \in Buffers /\ host.from # NoBuffer
    BY <1>0, <1>1 DEF BuffersInv, HostHas
  <2> DEFINE both == pool.free \o pool.retired
             t == <<host.from>>
  <2>4. pool' = [free |-> both \o t, retired |-> <<>>]
    BY <1>1 DEF Close, MetalSettled
  <2>5. both \in Seq(Buffers) /\ ToSet(both) = ToSet(pool.free) \cup ToSet(pool.retired)
        /\ IsInjective(both)
    BY <1>0, JoinedSet
  <2>6. t \in Seq(Buffers) /\ ToSet(t) = {host.from} /\ IsInjective(t)
    BY <2>3 DEF IsInjective, ToSet
  <2> HIDE DEF both, t
  <2>7. ToSet(both) \cap ToSet(t) = {}
    BY <1>0, <2>5, <2>6
  <2>8. both \o t \in Seq(Buffers) /\ ToSet(both \o t) = ToSet(both) \cup ToSet(t)
        /\ IsInjective(both \o t)
    BY <2>5, <2>6, <2>7, JoinedSet
  <2>9. pool'.free = both \o t /\ pool'.retired = <<>> /\ <<>> \in Seq(Buffers)
        /\ ToSet(pool'.retired) = {} /\ IsInjective(pool'.retired)
    BY <2>4, Empty, NothingTwice
  <2> QED  BY <2>2, <2>3, <2>4, <2>5, <2>6, <2>8, <2>9
<1>2. CASE host.at # "ending"
  <2>1. pool' = Recycled(host.from)
    BY <1>2 DEF Close
  <2>2. CASE host.from = NoBuffer
    <3>1. pool' = pool
      BY <2>1, <2>2 DEF Recycled
    <3> QED  BY <1>0, <3>1
  <2>3. CASE host.from # NoBuffer /\ encoding = <<>> /\ waits = <<>>
    <3>1. pool' = [pool EXCEPT !.free = Append(pool.free, host.from)] /\ host.from \in Buffers
      BY <1>0, <2>1, <2>3 DEF Recycled
    <3>2. Pending = {}
      BY <2>3, NonePending DEF BuffersInv
    <3>3. /\ Append(pool.free, host.from) \in Seq(Buffers)
          /\ ToSet(Append(pool.free, host.from)) = ToSet(pool.free) \cup {host.from}
          /\ IsInjective(Append(pool.free, host.from))
      BY <1>0, <3>1, OneMore, Appends
    <3>4. pool'.free = Append(pool.free, host.from) /\ pool'.retired = pool.retired
      BY <1>0, <3>1
    <3> QED  BY <1>0, <2>3, <3>1, <3>2, <3>3, <3>4
  <2>4. CASE host.from # NoBuffer /\ ~(encoding = <<>> /\ waits = <<>>)
    <3>1. pool' = [pool EXCEPT !.retired = Append(pool.retired, host.from)] /\ host.from \in Buffers
      BY <1>0, <2>1, <2>4 DEF Recycled
    <3>3. /\ Append(pool.retired, host.from) \in Seq(Buffers)
          /\ ToSet(Append(pool.retired, host.from)) = ToSet(pool.retired) \cup {host.from}
          /\ IsInjective(Append(pool.retired, host.from))
      BY <1>0, <3>1, OneMore, Appends
    <3>4. pool'.retired = Append(pool.retired, host.from) /\ pool'.free = pool.free
      BY <1>0, <3>1
    <3> QED  BY <1>0, <2>4, <3>1, <3>3, <3>4
  <2> QED  BY <2>2, <2>3, <2>4
<1> QED  BY <1>1, <1>2

LEMMA CloseGpu ==
    ASSUME HostTypes, GpuTypes, BuffersInv, Close
    PROVE  GpuTypes' /\ BuffersInv'
<1>1. /\ encoding' = encoding /\ batches' = batches /\ waits' = waits /\ data' = data
      /\ host' = [host EXCEPT !.at = "idle", !.limit = InFlight, !.from = NoBuffer]
  BY DEF Close, commands
<1>2. /\ host'.at = "idle" /\ host'.from = NoBuffer
      /\ host'.call = host.call /\ host'.batch = host.batch
  BY <1>1 DEF HostTypes, Hosts
<1>3. Held' = Held /\ Pending' = Pending
  BY <1>1, SameOps
<1>4. /\ pool'.free \in Seq(Buffers) /\ IsInjective(pool'.free)
      /\ pool'.retired \in Seq(Buffers) /\ IsInjective(pool'.retired)
      /\ pool' \in [free : Seq(Buffers), retired : Seq(Buffers)]
      /\ ToSet(pool'.free) \cap ToSet(pool'.retired) = {}
      /\ \A b \in ToSet(pool'.free) \cup ToSet(pool'.retired) :
           \/ b \in ToSet(pool.free) \cup ToSet(pool.retired)
           \/ b = host.from /\ b # NoBuffer
      /\ Pending = {} \/ pool'.free = pool.free
  BY ClosePool
<1>5. GpuTypes'
  BY <1>1, <1>4 DEF GpuTypes
<1>6. InOrder'
  BY <1>1 DEF BuffersInv, InOrder
<1>7. AllPast'
  BY <1>1, <1>2 DEF BuffersInv, AllPast, Past
<1>8. Numbered'
  BY <1>1, <1>2 DEF BuffersInv, Numbered
<1>9. OnePlace'
  <2>1. \A k \in DOMAIN waits : host.from \notin ToSet(waits[k].retired)
    BY DEF BuffersInv, OnePlace, Pooled
  <2>2. \A k \in DOMAIN waits :
           ToSet(waits[k].retired) \cap (ToSet(pool'.free) \cup ToSet(pool'.retired)) = {}
    BY <1>4, <2>1 DEF BuffersInv, OnePlace
  <2>3. ~Pooled(host.from)'
    <3>1. ToSet(pool'.free) \subseteq Buffers /\ ToSet(pool'.retired) \subseteq Buffers
      BY <1>4, InSet
    <3>2. \A k \in DOMAIN waits : ToSet(waits[k].retired) \subseteq Buffers
      BY GpuIs, InSet
    <3> QED  BY <1>1, <1>2, <3>1, <3>2, ConstantsAre DEF Pooled
  <2> QED  BY <1>1, <1>4, <2>2, <2>3 DEF BuffersInv, OnePlace
<1>10. FreeOfUse'
  <2>1. \A q \in Pending' : \A b \in Uses(q) : b \notin ToSet(pool'.free)
    BY <1>3, <1>4 DEF BuffersInv, FreeOfUse
  <2> QED  BY <1>1, <2>1 DEF BuffersInv, FreeOfUse, Uses
<1>11. Apart' /\ OwnInput'
  BY <1>1, <1>3 DEF BuffersInv, Apart, OwnInput, Uses
<1>12. Chained'
  BY <1>1, <1>3 DEF BuffersInv, Chained, Earlier, Before, Pred
<1>13. HostHas'
  <2>1. \A o \in Pending : o.input # NoBuffer
    BY PendingAre, OpsAre, ConstantsAre
  <2> QED  BY <1>2, <1>3, <2>1 DEF HostHas, Settling
<1> QED  BY <1>5, <1>6, <1>7, <1>8, <1>9, <1>10, <1>11, <1>12, <1>13 DEF BuffersInv

(* The host goes on to its next wait, or fails. *)
LEMMA OnwardFrom ==
    ASSUME HostTypes, HostHas,
           host'.from = host.from, host'.call = host.call, host'.unit = host.unit,
           \/ host'.at = host.at
           \/ host.at = "settle" /\ host'.at = "settling"
           \/ host.at = "settling" /\ host'.at = "open"
           \/ /\ host.at \in {"request", "enter", "starved", "encode"}
              /\ host'.at \in {"request", "enter", "starved", "encode"}
           \/ host.at = "read" /\ host'.at = "ending"
           \/ host'.at = "failing"
    PROVE  Onward
<1>1. LastKernel' = IF host'.at = "leave" THEN MetalKernel ELSE Pred(MetalKernel)
  BY DEF LastKernel, MetalKernel, Pred
<1>2. ASSUME NEW kernel \in Nat \X MetalUnits, Past(kernel) PROVE Past(kernel)'
  BY <1>2 DEF Past, MetalKernel
<1>3. host'.at \in Under => host.at \in Under /\ LastKernel' = LastKernel
  BY <1>1 DEF Under, LastKernel
<1>4. /\ Settling' => host.from = NoBuffer
      /\ host'.at \in Under \ {"leave"} /\ host'.unit = 1 => host.from = NoBuffer
      /\ host'.at \in {"leave", "read", "ending"} => host.from # NoBuffer
  BY DEF HostHas, Settling, Under
<1> QED  BY <1>2, <1>3, <1>4 DEF Onward

-------------------------------------------------------------------------------
(* Together *)

LEMMA FlushBuffers ==
    ASSUME HostTypes, GpuTypes, BuffersInv, Onward, data' = data, NEW limit \in Nat,
           NEW at \in {"settling", "starved", "encode", "leave", "ending"}, Flush(limit, at),
           at \in {"settling", "starved", "ending"} => limit = 0
    PROVE  GpuTypes' /\ BuffersInv'
<1>1. /\ host'.at = at /\ host'.limit = limit
      /\ host'.batch = IF encoding = <<>> THEN host.batch ELSE host.batch + 1
  BY FlushHost
<1>2. CASE encoding = <<>> /\ UNCHANGED gpu
  <2>1. Drained' /\ host'.batch = host.batch
    BY <1>1, <1>2 DEF Drained, gpu, commands
  <2> QED  BY <1>2, <2>1, QuietGpu
<1>3. CASE Committed
  <2>1. Drained' /\ host'.batch = host.batch + 1
    BY <1>1, <1>3 DEF Drained, Committed
  <2> QED  BY <1>3, <2>1, CommitGpu
<1> QED  BY <1>2, <1>3, FlushGpu

(* A step of the host's that leaves the GPU alone. *)
LEMMA HostBuffers ==
    ASSUME HostTypes, GpuTypes, BuffersInv, UNCHANGED gpu,
           host'.from = host.from, host'.call = host.call, host'.unit = host.unit,
           host'.batch = host.batch,
           \/ host' = host
           \/ /\ host.at \in {"request", "enter", "starved", "encode"}
              /\ host'.at \in {"request", "enter", "encode"}
           \/ host'.at = "failing"
    PROVE  GpuTypes' /\ BuffersInv'
<1>1. Onward
  BY OnwardFrom DEF BuffersInv
<1>2. Drained'
  <2>1. Drained
    BY DEF BuffersInv, Numbered, Drained
  <2>2. CASE host' = host
    BY <2>1, <2>2 DEF Drained, gpu, commands
  <2>3. CASE host'.at \in {"request", "enter", "encode", "failing"}
    BY <2>3 DEF Drained
  <2> QED  BY <2>2, <2>3
<1> QED  BY <1>1, <1>2, QuietGpu

LEMMA BeginBuffers ==
    ASSUME HostTypes, GpuTypes, BuffersInv, MetalBegin \/ OpenPass
    PROVE  GpuTypes' /\ BuffersInv'
<1>0. host \in Hosts /\ host.from = NoBuffer
  <2>1. Settling
    BY DEF MetalBegin, OpenPass, Settling
  <2> QED  BY <2>1 DEF HostTypes, BuffersInv, HostHas
<1>1. UNCHANGED gpu
  BY DEF MetalBegin, OpenPass
<1>2. CASE MetalBegin
  <2>1. /\ host'.at \in {"open", "settle"} /\ host'.call = host.call + 1 /\ host'.from = host.from
        /\ host'.batch = host.batch /\ host.call \in Nat
    BY <1>0, <1>2, HostIs DEF MetalBegin, Hosts
  <2>2. ASSUME NEW kernel \in Nat \X MetalUnits, Past(kernel) PROVE Past(kernel)'
    <3>1. kernel[1] \in Nat /\ kernel[1] <= host.call
      BY <2>2 DEF Past
    <3>2. kernel[1] < host'.call
      BY <2>1, <3>1
    <3> QED  BY <2>1, <3>1, <3>2 DEF Past
  <2>3. Onward /\ Drained'
    BY <1>0, <2>1, <2>2 DEF Onward, Drained, Under
  <2> QED  BY <1>1, <2>1, <2>3, QuietGpu
<1>3. CASE OpenPass
  <2>1. /\ host.at = "open" /\ host'.at = "request" /\ host'.call = host.call /\ host'.unit = 1
        /\ host'.from = host.from /\ host'.batch = host.batch
    BY <1>0, <1>3 DEF OpenPass, Hosts
  <2>2. ASSUME NEW kernel \in Nat \X MetalUnits, Past(kernel) PROVE Past(kernel)'
    <3>1. kernel[1] < host.call /\ kernel[1] <= host.call
      BY <2>1, <2>2 DEF Past
    <3>2. MetalKernel' = <<host.call, 1>>
      BY <2>1 DEF MetalKernel
    <3>3. Before(kernel, <<host.call, 1>>)
      BY <3>1 DEF Before
    <3> QED  BY <2>1, <3>1, <3>2, <3>3 DEF Past, Before
  <2>3. Onward /\ Drained'
    BY <1>0, <2>1, <2>2 DEF Onward, Drained, Under, Settling
  <2> QED  BY <1>1, <2>1, <2>3, QuietGpu
<1> QED  BY <1>2, <1>3

LEMMA LeaveBuffers ==
    ASSUME HostTypes, GpuTypes, BuffersInv, MetalLeave
    PROVE  GpuTypes' /\ BuffersInv'
<1>0. host \in Hosts /\ host.at = "leave" /\ data' = data /\ host.from # NoBuffer
  BY DEF HostTypes, MetalLeave, BuffersInv, HostHas
<1>1. CASE Flush(InFlight, "leave")
  <2>1. InFlight \in Nat
    BY ConstantsAre
  <2>2. host'.at = "leave" /\ host'.call = host.call /\ host'.unit = host.unit
        /\ host'.from = host.from
    BY <1>1, <2>1, FlushHost
  <2>3. Onward
    BY <1>0, <2>2, OnwardFrom DEF BuffersInv
  <2> QED  BY <1>0, <1>1, <2>1, <2>3, FlushBuffers
<1>2. CASE /\ host' = [host EXCEPT !.at = IF host.unit = U THEN "read" ELSE "enter",
                                   !.unit = IF host.unit = U THEN 1 ELSE @ + 1]
           /\ UNCHANGED <<commands, pool>>
  <2>1. /\ host'.call = host.call /\ host'.from = host.from /\ host'.batch = host.batch
        /\ host.call \in Nat /\ host.unit \in Nat \ {0}
        /\ \/ host'.at = "read" /\ host'.unit = 1
           \/ host'.at = "enter" /\ host'.unit = host.unit + 1
    BY <1>0, <1>2, HostIs, ConstantsAre DEF Hosts
  <2>2. UNCHANGED gpu
    BY <1>0, <1>2 DEF gpu
  <2>3. ASSUME NEW kernel \in Nat \X MetalUnits, Past(kernel) PROVE Past(kernel)'
    <3>1. kernel[1] \in Nat /\ kernel[2] \in Nat /\ kernel[1] <= host.call
          /\ (kernel[1] < host.call \/ kernel[2] <= host.unit)
      BY <1>0, <2>3, ConstantsAre DEF Past
    <3>2. CASE host'.at = "read"
      BY <2>1, <3>1, <3>2 DEF Past
    <3>3. CASE host'.at = "enter" /\ host'.unit = host.unit + 1
      <4>1. kernel[1] < host.call \/ (kernel[1] = host.call /\ kernel[2] < host.unit + 1)
        BY <2>1, <3>1
      <4> QED  BY <2>1, <3>1, <3>3, <4>1 DEF Past, Before, MetalKernel
    <3> QED  BY <2>1, <3>2, <3>3
  <2>4. host'.at = "enter" => LastKernel' = LastKernel
    <3>1. ASSUME host'.at = "enter" PROVE LastKernel' = LastKernel
      <4>1. host'.unit = host.unit + 1 /\ (host.unit + 1) - 1 = host.unit
        BY <2>1, <3>1
      <4>2. LastKernel = <<host.call, host.unit>>
        BY <1>0 DEF LastKernel, MetalKernel
      <4>3. LastKernel' = <<host'.call, host'.unit - 1>>
        BY <3>1 DEF LastKernel, MetalKernel, Pred
      <4> QED  BY <2>1, <4>1, <4>2, <4>3
    <3> QED  BY <3>1
  <2>5. host'.at = "enter" => host'.unit # 1
    BY <2>1
  <2>6. Onward /\ Drained'
    BY <1>0, <2>1, <2>3, <2>4, <2>5 DEF Onward, Drained, Under, Settling
  <2> QED  BY <2>1, <2>2, <2>6, QuietGpu
<1> QED  BY <1>1, <1>2 DEF MetalLeave

LEMMA BuffersStay ==
    ASSUME HostTypes, GpuTypes, TensorsHold, BuffersInv, MetalNext
    PROVE  GpuTypes' /\ BuffersInv'
<1>0. host \in Hosts
  BY DEF HostTypes
<1>1. CASE MetalBegin \/ OpenPass
  BY <1>1, BeginBuffers
<1>2. CASE LetGoFirst \/ Starve \/ ReadBack \/ MakeWay
  <2>1. PICK limit \in {0, 1}, at \in {"settling", "starved", "encode", "ending"} :
          /\ Flush(limit, at) /\ data' = data /\ (at # "encode" => limit = 0)
          /\ \/ host.at = "settle" /\ at = "settling"
             \/ host.at = "enter" /\ at = "starved"
             \/ host.at = "read" /\ at = "ending"
             \/ host.at = "encode" /\ at = "encode"
    BY <1>2 DEF LetGoFirst, Starve, ReadBack, MakeWay
  <2>2. limit \in Nat /\ at \in {"settling", "starved", "encode", "leave", "ending"}
    OBVIOUS
  <2>3. host'.at = at /\ host'.call = host.call /\ host'.unit = host.unit /\ host'.from = host.from
    BY <2>1, <2>2, FlushHost
  <2>4. Onward
    BY <2>1, <2>3, OnwardFrom DEF BuffersInv
  <2>5. at \in {"settling", "starved", "ending"} => limit = 0
    BY <2>1
  <2> QED  BY <2>1, <2>2, <2>4, <2>5, FlushBuffers
<1>3. CASE MetalSettle \/ WaitForRegion
  <2>1. /\ host.at \in {"settling", "starved"} /\ Ready
        /\ UNCHANGED <<commands, data>> /\ pool' = MetalSettled
        /\ \/ host.at = "settling" /\ host' = [host EXCEPT !.at = "open", !.limit = InFlight]
           \/ host.at = "starved" /\ host' = [host EXCEPT !.at = "enter", !.limit = InFlight]
           \/ host' = [host EXCEPT !.at = "failing", !.limit = InFlight]
    BY <1>3 DEF MetalSettle, WaitForRegion
  <2>2. encoding = <<>> /\ waits = <<>>
    <3>1. encoding = <<>> /\ host.limit = 0 /\ Len(waits) <= host.limit
      BY <2>1 DEF Ready, BuffersInv, Numbered
    <3> QED  BY <3>1, GpuIs
  <2>3. /\ host'.call = host.call /\ host'.unit = host.unit /\ host'.from = host.from
        /\ host'.batch = host.batch
        /\ \/ host.at = "settling" /\ host'.at = "open"
           \/ host.at = "starved" /\ host'.at = "enter"
           \/ host'.at = "failing"
    BY <1>0, <2>1 DEF Hosts
  <2>4. Onward
    BY <2>3, OnwardFrom DEF BuffersInv
  <2>5. Drained'
    BY <2>3 DEF Drained
  <2> QED  BY <2>1, <2>2, <2>3, <2>4, <2>5, SettledGpu
<1>4. CASE MetalRequest \/ Enter \/ Answer \/ OutOfMemory \/ BlockFails
  <2>1. UNCHANGED gpu
    BY <1>4 DEF MetalRequest, Enter, Answer, OutOfMemory, BlockFails
  <2>2. \/ host' = host
        \/ /\ host.at \in {"request", "enter"}
           /\ \/ host' = [host EXCEPT !.at = host.then]
              \/ host' = [host EXCEPT !.at = "encode"]
              \/ host' = [host EXCEPT !.at = "request", !.then = "encode"]
        \/ host' = [host EXCEPT !.at = "failing"]
    BY <1>4 DEF MetalRequest, MetalTake, Enter, Answer, OutOfMemory, BlockFails, Fail
  <2>3. /\ host'.call = host.call /\ host'.unit = host.unit /\ host'.from = host.from
        /\ host'.batch = host.batch
        /\ \/ host' = host
           \/ host.at \in {"request", "enter"} /\ host'.at \in {"request", "enter", "encode"}
           \/ host'.at = "failing"
    BY <1>0, <2>2, HostIs DEF Hosts
  <2> QED  BY <2>1, <2>3, HostBuffers
<1>5. CASE TakeBack \/ Patch \/ Read
  BY <1>5, HostBuffers DEF TakeBack, Patch, Read
<1>6. CASE MetalLeave
  BY <1>6, LeaveBuffers
<1>7. CASE Encode \/ Close \/ Wait \/ MetalRun \/ MetalLetGo
  BY <1>7, EncodeGpu, CloseGpu, WaitGpu, RunGpu, LetGoGpu
<1> QED  BY <1>1, <1>2, <1>3, <1>4, <1>5, <1>6, <1>7 DEF MetalNext, MetalHost

-------------------------------------------------------------------------------

LEMMA MetalBeginsRight == MetalInit => IInv
<1> SUFFICES ASSUME MetalInit PROVE IInv
  OBVIOUS
<1>1. /\ host = [at |-> "idle", call |-> 0, unit |-> 1, work |-> 0, limit |-> InFlight,
                 batch |-> 0, then |-> "enter", from |-> NoBuffer]
      /\ stream = [kept |-> {}, there |-> {}, settled |-> 0, spare |-> <<>>, used |-> <<>>,
                   regions |-> 0, version |-> 1, patches |-> 0]
      /\ pass = NoPass
      /\ reader = [requests |-> <<>>, answers |-> <<>>]
      /\ content = [r \in RegionSet |-> <<0, 1>>]
      /\ tensors = [u \in MetalUnits |-> Nowhere]
      /\ encoding = <<>> /\ batches = <<>> /\ waits = <<>>
      /\ pool = [free |-> <<>>, retired |-> <<>>]
      /\ data = [b \in Buffers |-> <<0, 0>>]
  BY DEF MetalInit, MetalStarts, RegionSet
<1>2. HostTypes
  <2>1. host \in Hosts
    BY <1>1, ConstantsAre DEF Hosts
  <2>2. stream \in Streams
    BY <1>1, Empty DEF Streams
  <2>3. pass \in Passes
    BY <1>1, NothingIs
  <2>4. reader \in Readers
    BY <1>1, Empty DEF Readers
  <2>5. content \in [RegionSet -> Written \cup {Torn, <<0, 1>>}]
    BY <1>1
  <2>6. tensors \in [MetalUnits -> Places]
    BY <1>1 DEF Places
  <2> QED  BY <2>1, <2>2, <2>3, <2>4, <2>5, <2>6 DEF HostTypes
<1>3. GpuTypes
  <2>1. pool \in [free : Seq(Buffers), retired : Seq(Buffers)]
    BY <1>1, Empty
  <2>2. data \in [Buffers -> Nat \X Nat]
    BY <1>1
  <2>3. DOMAIN batches = {}
    BY <1>1, Empty
  <2> QED  BY <1>1, <2>1, <2>2, <2>3, Empty DEF GpuTypes
<1>4. DOMAIN encoding = {} /\ DOMAIN batches = {} /\ DOMAIN waits = {}
  BY <1>1, Empty
<1>5. Held = {} /\ Pending = {}
  BY <1>3, <1>4, HeldAre, PendingAre
<1>6. HeldStays
  BY <1>5 DEF HeldStays
<1>7. TensorsHold
  BY <1>1 DEF TensorsHold, Entered
<1>8. InHand
  <2>1. pass.loading = <<>> /\ pass.ready = [u \in MetalUnits |-> Nowhere] /\ pass.queue = <<>>
    BY <1>1, NothingIs
  <2>2. /\ Len(<<>>) = 0 /\ DOMAIN <<>> = {} /\ IsInjective(<<>>) /\ ToSet(<<>>) = {}
    BY NothingTwice, Empty
  <2>3. stream.spare = <<>> /\ stream.used = <<>> /\ reader.requests = <<>> /\ reader.answers = <<>>
        /\ host.at = "idle"
    BY <1>1
  <2>4. \A r : ~ToRead(r) /\ ~Spared(r)
    BY <2>2, <2>3 DEF ToRead, Spared
  <2>5. \A u \in MetalUnits : pass.ready[u] = Nowhere
    BY <2>1
  <2>6. Asked
    BY <2>1, <2>2, <2>3, <2>5 DEF Asked
  <2>7. OneTaker
    BY <2>2, <2>3, <2>4 DEF OneTaker
  <2>8. OwnUnits
    BY <2>2, <2>3, <2>5 DEF OwnUnits
  <2>9. OneAsk
    BY <1>1, <2>1, <2>2, <2>3 DEF OneAsk
  <2> QED  BY <2>6, <2>7, <2>8, <2>9 DEF InHand
<1>9. BuffersInv
  <2>1. host.at = "idle" /\ host.from = NoBuffer /\ pool.free = <<>> /\ pool.retired = <<>>
    BY <1>1
  <2>2. ToSet(pool.free) = {} /\ ToSet(pool.retired) = {} /\ IsInjective(pool.free)
        /\ IsInjective(pool.retired)
    BY <2>1, NothingTwice
  <2>3. InOrder /\ AllPast /\ Numbered
    BY <1>4, <2>1 DEF InOrder, AllPast, Numbered
  <2>4. OnePlace
    BY <1>4, <2>2 DEF OnePlace, Pooled
  <2>5. FreeOfUse /\ Apart /\ OwnInput /\ Chained
    BY <1>4, <1>5 DEF FreeOfUse, Apart, OwnInput, Chained
  <2>6. HostHas
    BY <1>5, <2>1 DEF HostHas
  <2> QED  BY <2>3, <2>4, <2>5, <2>6 DEF BuffersInv
<1> QED  BY <1>2, <1>3, <1>6, <1>7, <1>8, <1>9 DEF IInv, RegionsInv, InHand

LEMMA MetalGoesOn ==
    ASSUME IInv, [MetalNext]_metalVars
    PROVE  IInv'
<1>0. HostTypes /\ GpuTypes /\ HeldStays /\ TensorsHold /\ InHand /\ BuffersInv
  BY DEF IInv, RegionsInv, InHand
<1>1. CASE MetalNext
  <2>1. HostTypes'
    BY <1>0, <1>1, HostTypesStay DEF InHand
  <2>2. GpuTypes' /\ BuffersInv'
    BY <1>0, <1>1, BuffersStay
  <2>3. Asked
    BY DEF IInv, RegionsInv
  <2>4. HeldStays' /\ TensorsHold'
    BY <1>0, <1>1, <2>3, HeldStaysOn, TensorsHoldOn
  <2>5. InHand'
    BY <1>0, <1>1, HandsStay
  <2> QED  BY <2>1, <2>2, <2>4, <2>5 DEF IInv, RegionsInv, InHand
<1>2. CASE UNCHANGED metalVars
  <2>1. /\ host' = host /\ stream' = stream /\ pass' = pass /\ reader' = reader
        /\ content' = content
        /\ tensors' = tensors /\ UNCHANGED gpu
    BY <1>2 DEF metalVars
  <2>2. encoding' = encoding /\ batches' = batches
    BY <2>1 DEF gpu, commands
  <2>3. HostTypes'
    BY <1>0, <2>1 DEF HostTypes
  <2>4. GpuTypes' /\ BuffersInv'
    BY <1>0, <2>1, HostBuffers
  <2>5. HeldStays'
    BY <1>0, <2>1, <2>2, SameOps DEF HeldStays
  <2>6. TensorsHold'
    BY <1>0, <2>1 DEF TensorsHold, Entered, Inside
  <2>7. InHand'
    <3>1. host'.at = "starved" => Hungry'
      BY <1>0, <2>1 DEF InHand, OneAsk, Hungry
    <3> QED  BY <1>0, <2>1, <3>1, HandsQuiet DEF Settling
  <2> QED  BY <2>3, <2>4, <2>5, <2>6, <2>7 DEF IInv, RegionsInv, InHand
<1> QED  BY <1>1, <1>2

LEMMA KernelsFindTheirOwn ==
    ASSUME IInv
    PROVE  KernelsReadTheirOwn
<1>0. HostTypes /\ GpuTypes /\ HeldStays /\ BuffersInv
  BY DEF IInv, RegionsInv
<1>1. \A k \in DOMAIN encoding : content[encoding[k].region] = encoding[k].unit
  BY <1>0, HeldAre DEF HeldStays
<1>2. ASSUME NEW k \in DOMAIN batches, NEW j \in Left(batches[k])
      PROVE  content[batches[k].ops[j].region] = batches[k].ops[j].unit
  BY <1>0, PendingAre, HeldAre DEF HeldStays
<1>3. ASSUME NEW k \in DOMAIN batches, NEW j \in Left(batches[k]), j = batches[k].ran + 1,
             FirstIs(k)
      PROVE  /\ data[batches[k].ops[j].input] = batches[k].ops[j].kernel
             /\ batches[k].ops[j].from # NoBuffer =>
                  data[batches[k].ops[j].from] = Pred(batches[k].ops[j].kernel)
  <2>1. PICK op : op = batches[k].ops[j]
    OBVIOUS
  <2>2. op \in Pending /\ op \in Operations
    BY <1>0, <2>1, PendingAre
  <2>3. \A q \in Pending : q = op \/ Earlier(op, q)
    <3>1. op = NextOp(k) /\ batches[k].ran + 1 \in Left(batches[k]) /\ InOrder
      BY <1>0, <1>3, <2>1 DEF NextOp, BuffersInv
    <3>2. \A q \in Pending : q = NextOp(k) \/ Earlier(NextOp(k), q)
      BY <1>0, <1>3, <3>1, FirstToRun
    <3> QED  BY <3>1, <3>2
  <2>4. data[op.input] = op.kernel
    BY <1>0, <2>2 DEF BuffersInv, OwnInput
  <2>5. ASSUME op.from # NoBuffer PROVE data[op.from] = Pred(op.kernel)
    <3>1. ASSUME NEW o \in Pending, o.kernel = Pred(op.kernel) PROVE FALSE
      <4>1. op.kernel \in Nat \X MetalUnits /\ o.kernel \in Nat \X MetalUnits
        BY <1>0, <2>2, PendingAre, OpsAre
      <4>2. Before(o.kernel, op.kernel)
        BY <3>1, <4>1, BeforeIs
      <4> QED  BY <2>3, <4>1, <4>2, BeforeIs DEF Earlier
    <3> QED  BY <1>0, <2>2, <2>5, <3>1 DEF BuffersInv, Chained
  <2> QED  BY <2>1, <2>4, <2>5
<1> QED  BY <1>1, <1>2, <1>3 DEF KernelsReadTheirOwn, Left, FirstIs, Pred

LEMMA MetalInvariant == MetalSpec => []IInv
<1>1. MetalInit => IInv
  BY MetalBeginsRight
<1>2. IInv /\ [MetalNext]_metalVars => IInv'
  BY MetalGoesOn
<1> QED  BY <1>1, <1>2, PTL DEF MetalSpec

(* Bytes are read into a region only when nothing but the stream holds it (Stream::free_region):
   what a batch holds, encoded or committed, running or done, is what it was encoded over.     *)
THEOREM NothingIsReadOver == MetalSpec => []HeldStays
<1>1. IInv => HeldStays
  BY DEF IInv, RegionsInv
<1> QED  BY <1>1, MetalInvariant, PTL

(* Every operation that may run next reads its unit's weights as they are meant to be, the
   buffer the host filled for it and the output of the unit before it, however far the GPU is
   behind the host and whichever reads and buffers fail.                                      *)
THEOREM EveryKernelReadsItsOwn == MetalSpec => []KernelsReadTheirOwn
<1>1. IInv => KernelsReadTheirOwn
  BY KernelsFindTheirOwn
<1> QED  BY <1>1, MetalInvariant, PTL
===============================================================================
