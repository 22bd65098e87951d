----------------------------- MODULE VideoPlans -----------------------------
(***************************************************************************)
(* How the video VAE cuts a latent or a clip in time and in space, on      *)
(* every backend (src/crates/mmh3-core/src/vae.rs), and what the blending  *)
(* of overlapping tiles comes to.  Lengths are in latent positions.        *)
(***************************************************************************)
EXTENDS Terms, FiniteSetsExt, SequencesExt, Functions

CONSTANTS
    TileSize,      \* side of a tile
    OverlapMin     \* least overlap of neighboring tiles

ClipLength == 17

TemporalRatio == 4

TokenDrop == 3

CeilDiv(a, b) == (a + b - 1) \div b

ChunkTokens == CeilDiv(ClipLength, TemporalRatio)

AtMost(a, b) == IF a < b THEN a ELSE b

\* Tiles along one axis.
SplitTiles(length) ==
    IF TileSize >= length THEN [starts |-> <<0>>, length |-> length, overlaps |-> <<>>]
    ELSE LET covered(n) == TileSize * n - OverlapMin * (n - 1)
             count == Min({n \in CeilDiv(length, TileSize)..length : covered(n) >= length})
             units(i) == {unit \in 1..covered(count) - length : (unit - 1) % (count - 1) = i - 1}
             overlaps == [i \in 1..count - 1 |-> OverlapMin + Cardinality(units(i))]
         IN [length |-> TileSize, overlaps |-> overlaps,
             starts |-> [i \in 1..count |->
                 (i - 1) * TileSize - MapThenSumSet(LAMBDA j : overlaps[j], 1..i - 1)]]

Grid(latent) == [rows |-> SplitTiles(latent.height), columns |-> SplitTiles(latent.width)]

Tiles(grid) == (DOMAIN grid.rows.starts) \X (DOMAIN grid.columns.starts)

Cells(latent) == (0..latent.height - 1) \X (0..latent.width - 1)

\* A cell of a canvas, from the tiles whose answers `at` gives, by their place in the canvas.
BlendedCell(grid, at, cell) ==
    LET covers(axis, p) == {i \in DOMAIN axis.starts : /\ axis.starts[i] <= p
                                                       /\ p < axis.starts[i] + axis.length}
        own == <<Max(covers(grid.rows, cell[1])), Max(covers(grid.columns, cell[2]))>>
        pixel(tile) == <<"pixel", at[tile], cell>>
        weight(axis, i, p) == <<p - axis.starts[i], axis.overlaps[i - 1]>>
        down(value) ==
            IF Cardinality(covers(grid.rows, cell[1])) = 1 THEN value
            ELSE Mix(pixel(<<own[1] - 1, own[2]>>), value, weight(grid.rows, own[1], cell[1]))
        across(value) ==
            IF Cardinality(covers(grid.columns, cell[2])) = 1 THEN value
            ELSE Mix(pixel(<<own[1], own[2] - 1>>), value, weight(grid.columns, own[2], cell[2]))
    IN across(down(pixel(own)))

\* The canvas of the answers `at` of the tiles: each blended with the unblended tile above it and
\* then the one to its left, and kept up to the next tile.
BlendEncodedTiles(grid, at, cells) ==
    LET kept(axis, k) == axis.length - (IF k \in DOMAIN axis.overlaps THEN axis.overlaps[k] ELSE 0)
        extent(axis, k) == IF k = 1 THEN 0 ELSE AtMost(axis.overlaps[k - 1], axis.length)
        owner(axis, p) == CHOOSE k \in DOMAIN axis.starts :
                              p \in axis.starts[k]..axis.starts[k] + kept(axis, k) - 1
        pixel(i, j, y, x) ==
            <<"pixel", at[<<i, j>>], <<grid.rows.starts[i] + y, grid.columns.starts[j] + x>>>>
        down(i, j, y, x) ==
            LET e == extent(grid.rows, i)
            IN IF y < e THEN Mix(pixel(i - 1, j, grid.rows.length - e + y, x), pixel(i, j, y, x),
                                 <<y, e>>)
               ELSE pixel(i, j, y, x)
        across(i, j, y, x) ==
            LET e == extent(grid.columns, j)
            IN IF x < e THEN Mix(pixel(i, j - 1, y, grid.columns.length - e + x), down(i, j, y, x),
                                 <<x, e>>)
               ELSE down(i, j, y, x)
    IN [cell \in cells |->
            LET i == owner(grid.rows, cell[1])
                j == owner(grid.columns, cell[2])
            IN across(i, j, cell[1] - grid.rows.starts[i], cell[2] - grid.columns.starts[j])]
=============================================================================
