------------------------------- MODULE TileDiff -------------------------------
(***************************************************************************)
(* What a refinement update carries and how the browser draws it:          *)
(* changed_tiles and encode_tiles of host/src/desktop_tiles.rs, and        *)
(* parseTiles, parseCopies and #commit of web/src/desktop-tiles.ts.        *)
(*                                                                         *)
(* A desktop is a function from its pixels <<x, y>>; a tile is compared,   *)
(* copied from where a scroll moved it from, or sent. The scroll offset is *)
(* only a hint, so it is any offset.                                       *)
(***************************************************************************)
EXTENDS Integers, FiniteSets, FiniteSetsExt

CONSTANTS
    Shapes,     \* the <<width, height>> of the desktops
    Colors,     \* of a pixel
    TileSize,   \* TILE
    Offsets,    \* the scroll offsets that may be guessed
    CopyLimit,  \* the most copies of an update
    NoDesktop   \* there is no baseline yet

ASSUME TileAssumption ==
    /\ Shapes \subseteq (Nat \ {0}) \X (Nat \ {0})
    /\ TileSize \in Nat \ {0} /\ CopyLimit \in Nat /\ Offsets \subseteq Int

Pixels(shape) == (0..shape[1] - 1) \X (0..shape[2] - 1)

DesktopsOf(shape) == [shape : {shape}, rgb : [Pixels(shape) -> Colors]]

-----------------------------------------------------------------------------
(* The Host *)

Smaller(a, b) == IF a < b THEN a ELSE b

\* The tiles of a desktop, those at its edges cut to size.
TilesOf(shape) ==
    {[x |-> x, y |-> y, width |-> Smaller(TileSize, shape[1] - x),
      height |-> Smaller(TileSize, shape[2] - y)] :
        x \in {i * TileSize : i \in 0..(shape[1] - 1) \div TileSize},
        y \in {i * TileSize : i \in 0..(shape[2] - 1) \div TileSize}}

Area(t) == {<<x, y>> : x \in t.x..t.x + t.width - 1, y \in t.y..t.y + t.height - 1}

Before(s, t) == s.y < t.y \/ (s.y = t.y /\ s.x < t.x)

Damaged(p, c) ==
    {t \in TilesOf(c.shape) : p = NoDesktop \/ \E q \in Area(t) : p.rgb[q] # c.rgb[q]}

\* Every byte of a tile that is said to have moved by dy is verified.
Moved(p, c, dy, t) ==
    /\ p # NoDesktop /\ dy # 0
    /\ t.y + dy >= 0 /\ t.y + dy + t.height <= c.shape[2]
    /\ \A q \in Area(t) : c.rgb[q] = p.rgb[<<q[1], q[2] + dy>>]

\* The first ones in the order of the scan.
Copied(p, c, dy) ==
    LET movable == {t \in Damaged(p, c) : Moved(p, c, dy, t)}
    IN {t \in movable : Cardinality({s \in movable : Before(s, t)}) < CopyLimit}

SentTile(c, t) == [tile |-> t, png |-> [q \in Area(t) |-> c.rgb[q]]]

CopyRect(t, dy) == [tile |-> t, source_y |-> t.y + dy]

Baseline(p, c) == IF p # NoDesktop /\ p.shape = c.shape THEN p ELSE NoDesktop

\* What the motion estimate of scroll_offset may be, 0 for none.
ScrollOffsets == Offsets \cup {0}

ChangedTiles(prev, c, dy) ==
    LET p == Baseline(prev, c)
        copied == Copied(p, c, dy)
    IN [shape |-> c.shape,
        copies |-> {CopyRect(t, dy) : t \in copied},
        tiles |-> {SentTile(c, t) : t \in Damaged(p, c) \ copied}]

-----------------------------------------------------------------------------
(* The browser *)

Inside(t, shape) == t.x + t.width <= shape[1] /\ t.y + t.height <= shape[2]

\* The update is not empty and within the desktop; the first picture, or one of
\* another size, consists of all its tiles.
Accepts(base, u) ==
    /\ u.tiles # {} \/ u.copies # {}
    /\ \A s \in u.tiles : Inside(s.tile, u.shape)
    /\ \A r \in u.copies : /\ Inside(r.tile, u.shape)
                           /\ r.source_y >= 0
                           /\ r.source_y + r.tile.height <= u.shape[2]
    /\ base = NoDesktop \/ base.shape # u.shape =>
          /\ u.copies = {}
          /\ {s.tile : s \in u.tiles} =
                {[x |-> i * TileSize, y |-> j * TileSize,
                  width |-> Smaller(TileSize, u.shape[1] - i * TileSize),
                  height |-> Smaller(TileSize, u.shape[2] - j * TileSize)] :
                    i \in 0..(u.shape[1] - 1) \div TileSize,
                    j \in 0..(u.shape[2] - 1) \div TileSize}


\* A mutant: a copy reads what other copies of the update have drawn already.
DrawInPlace(base, u) ==
    LET one(rgb, r) == [q \in Pixels(u.shape) |->
            IF q \in Area(r.tile)
            THEN rgb[<<q[1], q[2] + r.source_y - r.tile.y>>] ELSE rgb[q]]
        copied == FoldSet(LAMBDA r, rgb : one(rgb, r), base.rgb, u.copies)
        sent(q) == {s \in u.tiles : q \in Area(s.tile)}
    IN [shape |-> u.shape,
        rgb |-> [q \in Pixels(u.shape) |->
            IF sent(q) # {} THEN (CHOOSE s \in sent(q) : TRUE).png[q]
            ELSE copied[q]]]

\* Copies are read from the committed baseline, then the tiles are drawn.
Draw(base, u) ==
    LET sent(q) == {s \in u.tiles : q \in Area(s.tile)}
        copy(q) == {r \in u.copies : q \in Area(r.tile)}
    IN [shape |-> u.shape,
        rgb |-> [q \in Pixels(u.shape) |->
            IF sent(q) # {} THEN (CHOOSE s \in sent(q) : TRUE).png[q]
            ELSE IF copy(q) # {}
            THEN LET r == CHOOSE r \in copy(q) : TRUE
                 IN base.rgb[<<q[1], q[2] + r.source_y - r.tile.y>>]
            ELSE base.rgb[q]]]

-----------------------------------------------------------------------------
(* Properties *)

AllDesktops == UNION {DesktopsOf(s) : s \in Shapes}

\* A baseline, possibly none, a capture that differs from it and a scroll offset.
Cases ==
    {k \in (AllDesktops \cup {NoDesktop}) \X AllDesktops \X ScrollOffsets : k[1] # k[2]}

AllAccepted == \A k \in Cases : Accepts(k[1], ChangedTiles(k[1], k[2], k[3]))

AllDrawn ==
    \A k \in Cases :
        LET u == ChangedTiles(k[1], k[2], k[3]) IN Accepts(k[1], u) => Draw(k[1], u) = k[2]

\* Both once for all: TLC keeps the value of a definition without parameters.
UpdatesAccepted == AllAccepted
UpdatesDrawn == AllDrawn
=============================================================================
