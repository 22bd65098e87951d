------------------------------- MODULE Shares -------------------------------
(***************************************************************************)
(* How a step is cut among its ranks and put together again                *)
(* (src/crates/mmh3-core/src/shard.rs).  A share is [start, end) of the    *)
(* tokens or of the heads; the weights are whole numbers.                  *)
(***************************************************************************)
EXTENDS Integers, SequencesExt, FiniteSetsExt, Functions

Share(start, end) == [start |-> start, end |-> end]

Size(share) == share.end - share.start

AtMost(a, b) == IF a < b THEN a ELSE b

AtLeast(a, b) == IF a > b THEN a ELSE b

Total(counts) == FoldLeft(LAMBDA a, b : a + b, 0, counts)

\* Equal shares; the last takes the rest.
Even(count, total) ==
    LET each == total \div count
    IN [i \in 1..count |-> Share((i - 1) * each, IF i = count THEN total ELSE i * each)]

\* The last of the largest weights.
Fastest(weights) ==
    Max({i \in DOMAIN weights : \A j \in DOMAIN weights : weights[i] >= weights[j]})

\* At least one each, by weight where any rank has some.
Portions(weights, total) ==
    LET sum == Total(weights)
    IN [i \in DOMAIN weights |->
          AtLeast(IF sum > 0 THEN (total * weights[i]) \div sum ELSE total \div Len(weights), 1)]

\* The fastest takes what is left and gives back what is overdrawn.
Counts(weights, total) ==
    LET portions == Portions(weights, total)
        left == total - Total(portions)
    IN [i \in DOMAIN weights |->
          IF i = Fastest(weights) THEN AtLeast(0, portions[i] + left) ELSE portions[i]]

Weighted(weights, total) ==
    LET counts == Counts(weights, total)
        before(i) == AtMost(Total(SubSeq(counts, 1, i - 1)), total)
    IN [i \in DOMAIN weights |->
          Share(before(i), IF i = Len(weights) THEN total
                           ELSE AtMost(before(i) + counts[i], total))]

\* What a rank accepts of the cuts it is sent.
Accepts(shares, ranks, total) == Len(shares) = ranks /\ Last(shares).end = total

(***************************************************************************)
(* A rank answers with its rows of a segment; the leader puts the parts    *)
(* together, or fails when one is of another length or they do not cover   *)
(* the segment.                                                            *)
(***************************************************************************)
Within(share, segment) ==
    Share(AtLeast(segment.start, share.start), AtMost(segment.end, share.end))

Part(share, segment, value(_)) ==
    LET own == Within(share, segment)
    IN [share |-> share,
        rows |-> IF own.start >= own.end THEN <<>>
                 ELSE [r \in 1..Size(own) |-> value(own.start - segment.start + r)]]

Gap == <<"gap">>

Gather(parts, segment) ==
    LET own(i) == Within(parts[i].share, segment)
        carries == {i \in DOMAIN parts : own(i).start < own(i).end}
        from(r) == {i \in carries : own(i).start < segment.start + r
                                    /\ segment.start + r <= own(i).end}
        row(r) == LET i == Max(from(r))
                  IN parts[i].rows[r + segment.start - own(i).start]
        covered == MapThenSumSet(LAMBDA i : Size(own(i)), carries)
    IN [ok |-> (\A i \in carries : Len(parts[i].rows) = Size(own(i))) /\ covered = Size(segment),
        rows |-> [r \in 1..Size(segment) |-> IF from(r) = {} THEN Gap ELSE row(r)]]

(***************************************************************************)
(* VSA keeps the rows of the video tile after tile; this stands for its    *)
(* order, every second row first.                                          *)
(***************************************************************************)
TileOrder(length) ==
    LET odd == (length + 1) \div 2
    IN [r \in 1..length |-> IF r <= odd THEN 2 * r - 1 ELSE 2 * (r - odd)]

Restored(rows, order) == [r \in 1..Len(order) |-> rows[CHOOSE p \in DOMAIN order : order[p] = r]]

\* Together the shares are the whole, each row and each head once, in the order of the ranks.
Partitions(shares, total) ==
    /\ shares[1].start = 0 /\ Last(shares).end = total
    /\ \A i \in DOMAIN shares : shares[i].start <= shares[i].end
    /\ \A i \in 1..(Len(shares) - 1) : shares[i].end = shares[i + 1].start
=============================================================================
