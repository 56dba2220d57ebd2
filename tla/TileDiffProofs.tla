---------------------------- MODULE TileDiffProofs ----------------------------
(* The updates of the lossless picture, for desktops, tiles and offsets of any *)
(* size: what changed_tiles makes of two captures is accepted by the browser's *)
(* parser, and its drawing makes the second of the first.                      *)
EXTENDS RefinementTiles, TLAPS

-----------------------------------------------------------------------------
(* Tiles *)

Shape == (Nat \ {0}) \X (Nat \ {0})
Rows(n) == 0..(n - 1) \div TileSize

LEMMA ShapeType ==
    ASSUME NEW shape \in Shape
    PROVE  shape[1] \in Nat \ {0} /\ shape[2] \in Nat \ {0}
  BY DEF Shape

\* A tile along one side: it begins within it and is cut at its end.
LEMMA TileAlong ==
    ASSUME NEW n \in Nat \ {0}, NEW i \in Rows(n)
    PROVE  /\ i * TileSize \in Nat /\ i * TileSize < n
           /\ Smaller(TileSize, n - i * TileSize) \in Nat
           /\ Smaller(TileSize, n - i * TileSize) > 0
           /\ i * TileSize + Smaller(TileSize, n - i * TileSize) <= n
  <1>1. TileSize \in Nat \ {0}
    BY TileAssumption
  <1> DEFINE q == (n - 1) \div TileSize
  <1>2. q \in Int /\ TileSize * q <= n - 1 /\ n - 1 < TileSize * q + TileSize
    BY <1>1
  <1>3. i \in Int /\ i >= 0 /\ i <= q
    BY <1>2 DEF Rows
  <1> HIDE DEF q
  <1>4. i * TileSize <= TileSize * q
    BY <1>1, <1>2, <1>3
  <1>5. i * TileSize \in Nat
    BY <1>1, <1>3
  <1>6. i * TileSize <= n - 1
    BY <1>1, <1>2, <1>4, <1>5
  <1>. QED  BY <1>1, <1>5, <1>6 DEF Smaller

\* Every place on a side is in one of its tiles.
LEMMA PlaceInTile ==
    ASSUME NEW n \in Nat \ {0}, NEW x \in 0..n - 1
    PROVE  \E i \in Rows(n) :
              x \in i * TileSize..i * TileSize + Smaller(TileSize, n - i * TileSize) - 1
  <1>1. TileSize \in Nat \ {0}
    BY TileAssumption
  <1> DEFINE i == x \div TileSize  q == (n - 1) \div TileSize
  <1>2. i \in Int /\ TileSize * i <= x /\ x < TileSize * i + TileSize /\ i >= 0
    BY <1>1
  <1>3. q \in Int /\ TileSize * q <= n - 1 /\ n - 1 < TileSize * q + TileSize
    BY <1>1
  <1> HIDE DEF i, q
  <1>4. i <= q
    <2>1. TileSize * i < TileSize * (q + 1)
      <3>1. TileSize * (q + 1) = TileSize * q + TileSize
        BY <1>1, <1>3
      <3>. QED  BY <1>1, <1>2, <1>3, <3>1
    <2>. QED  BY <1>1, <1>2, <1>3, <2>1
  <1>5. i \in Rows(n)
    BY <1>2, <1>3, <1>4 DEF Rows, q
  <1>6. i * TileSize = TileSize * i /\ i * TileSize \in Int
    BY <1>1, <1>2
  <1>7. x \in i * TileSize..i * TileSize + Smaller(TileSize, n - i * TileSize) - 1
    BY <1>1, <1>2, <1>6 DEF Smaller
  <1>. QED  BY <1>5, <1>7

\* The tile in column i and row j
TileAt(shape, i, j) ==
    [x |-> i * TileSize, y |-> j * TileSize,
     width |-> Smaller(TileSize, shape[1] - i * TileSize),
     height |-> Smaller(TileSize, shape[2] - j * TileSize)]

LEMMA TilesAre ==
    ASSUME NEW shape
    PROVE  TilesOf(shape) = {TileAt(shape, i, j) : i \in Rows(shape[1]), j \in Rows(shape[2])}
  BY DEF TilesOf, TileAt, Rows

Tile == [x : Nat, y : Nat, width : Nat \ {0}, height : Nat \ {0}]

LEMMA TilesFit ==
    ASSUME NEW shape \in Shape, NEW t \in TilesOf(shape)
    PROVE  t \in Tile /\ Inside(t, shape) /\ Area(t) \subseteq Pixels(shape)
  <1>1. shape[1] \in Nat \ {0} /\ shape[2] \in Nat \ {0}
    BY ShapeType
  <1>2. PICK i \in Rows(shape[1]), j \in Rows(shape[2]) : t = TileAt(shape, i, j)
    BY TilesAre
  <1>3. t \in Tile /\ t.x + t.width <= shape[1] /\ t.y + t.height <= shape[2]
    BY <1>1, <1>2, TileAlong DEF TileAt, Tile
  <1>4. Area(t) \subseteq Pixels(shape)
    BY <1>1, <1>3 DEF Area, Pixels, Tile
  <1>. QED  BY <1>3, <1>4 DEF Inside

LEMMA PixelInTile ==
    ASSUME NEW shape \in Shape, NEW q \in Pixels(shape)
    PROVE  \E t \in TilesOf(shape) : q \in Area(t)
  <1>1. shape[1] \in Nat \ {0} /\ shape[2] \in Nat \ {0}
    BY ShapeType
  <1>2. q = <<q[1], q[2]>> /\ q[1] \in 0..shape[1] - 1 /\ q[2] \in 0..shape[2] - 1
    BY DEF Pixels
  <1>3. PICK i \in Rows(shape[1]) :
           q[1] \in i * TileSize..i * TileSize + Smaller(TileSize, shape[1] - i * TileSize) - 1
    BY <1>1, <1>2, PlaceInTile
  <1>4. PICK j \in Rows(shape[2]) :
           q[2] \in j * TileSize..j * TileSize + Smaller(TileSize, shape[2] - j * TileSize) - 1
    BY <1>1, <1>2, PlaceInTile
  <1>5. q \in Area(TileAt(shape, i, j))
    BY <1>2, <1>3, <1>4 DEF Area, TileAt
  <1>. QED  BY <1>5, TilesAre

-----------------------------------------------------------------------------
(* Two captures *)

LEMMA DesktopType ==
    ASSUME NEW c \in AllDesktops
    PROVE  /\ c.shape \in Shape /\ c.rgb \in [Pixels(c.shape) -> Colors]
           /\ c = [shape |-> c.shape, rgb |-> c.rgb]
  <1>1. PICK s \in Shapes : c \in [shape : {s}, rgb : [Pixels(s) -> Colors]]
    BY DEF AllDesktops, DesktopsOf
  <1>2. s \in Shape
    BY TileAssumption DEF Shape
  <1>. QED  BY <1>1, <1>2

\* The baseline is the desktop before, if it has the same shape.
LEMMA BaselineType ==
    ASSUME NEW prev \in AllDesktops \cup {NoDesktop}, NEW c \in AllDesktops,
           Baseline(prev, c) # NoDesktop
    PROVE  Baseline(prev, c) = prev /\ prev \in AllDesktops /\ prev.shape = c.shape
  BY DEF Baseline

LEMMA WithoutBaseline ==
    ASSUME NEW p, NEW c, NEW dy, p = NoDesktop
    PROVE  Damaged(p, c) = TilesOf(c.shape) /\ Copied(p, c, dy) = {}
  BY DEF Damaged, Copied, Moved

\* A pixel outside the damaged tiles has not changed.
LEMMA UndamagedPixel ==
    ASSUME NEW p, NEW c \in AllDesktops, NEW q \in Pixels(c.shape),
           \A t \in Damaged(p, c) : q \notin Area(t)
    PROVE  p # NoDesktop /\ p.rgb[q] = c.rgb[q]
  <1>1. PICK t \in TilesOf(c.shape) : q \in Area(t)
    BY DesktopType, PixelInTile
  <1>2. t \notin Damaged(p, c)
    BY <1>1
  <1>. QED  BY <1>1, <1>2 DEF Damaged

LEMMA SomethingDamaged ==
    ASSUME NEW prev \in AllDesktops \cup {NoDesktop}, NEW c \in AllDesktops, prev # c
    PROVE  Damaged(Baseline(prev, c), c) # {}
  <1> DEFINE p == Baseline(prev, c)
  <1>1. SUFFICES ASSUME Damaged(p, c) = {} PROVE FALSE
    OBVIOUS
  <1>2. \A q \in Pixels(c.shape) : p # NoDesktop /\ p.rgb[q] = c.rgb[q]
    BY <1>1, UndamagedPixel
  <1>3. c.shape \in Shape /\ c.rgb \in [Pixels(c.shape) -> Colors]
        /\ c = [shape |-> c.shape, rgb |-> c.rgb]
    BY DesktopType
  <1>4. <<0, 0>> \in Pixels(c.shape)
    <2>1. c.shape[1] \in Nat \ {0} /\ c.shape[2] \in Nat \ {0}
      BY <1>3, ShapeType
    <2>2. 0 \in 0..c.shape[1] - 1 /\ 0 \in 0..c.shape[2] - 1
      BY <2>1
    <2>. QED  BY <2>2 DEF Pixels
  <1>5. p # NoDesktop
    BY <1>2, <1>4
  <1>6. p = prev /\ prev \in AllDesktops /\ prev.shape = c.shape
    BY <1>5, BaselineType
  <1>7. prev.rgb \in [Pixels(c.shape) -> Colors] /\ prev = [shape |-> prev.shape, rgb |-> prev.rgb]
    BY <1>6, DesktopType
  <1>8. prev.rgb = c.rgb
    BY <1>2, <1>3, <1>6, <1>7
  <1>. QED  BY <1>3, <1>6, <1>7, <1>8

\* What an update consists of
LEMMA CopiedTiles ==
    ASSUME NEW p, NEW c, NEW dy, NEW t \in Copied(p, c, dy)
    PROVE  t \in Damaged(p, c) /\ Moved(p, c, dy, t)
  BY DEF Copied

LEMMA DamagedAreTiles ==
    ASSUME NEW p, NEW c
    PROVE  Damaged(p, c) \subseteq TilesOf(c.shape)
  BY DEF Damaged

LEMMA UpdateIs ==
    ASSUME NEW prev, NEW c, NEW dy
    PROVE  LET u == ChangedTiles(prev, c, dy)
               p == Baseline(prev, c)
           IN /\ u.shape = c.shape
              /\ u.copies = {CopyRect(t, dy) : t \in Copied(p, c, dy)}
              /\ u.tiles = {SentTile(c, t) : t \in Damaged(p, c) \ Copied(p, c, dy)}
  BY DEF ChangedTiles

-----------------------------------------------------------------------------
(* The parser accepts it *)

LEMMA UpdateAccepted ==
    ASSUME NEW prev \in AllDesktops \cup {NoDesktop}, NEW c \in AllDesktops, NEW dy \in Int,
           prev # c
    PROVE  Accepts(prev, ChangedTiles(prev, c, dy))
  <1> DEFINE u == ChangedTiles(prev, c, dy)
             p == Baseline(prev, c)
             copied == Copied(p, c, dy)
             sent == Damaged(p, c) \ copied
  <1>1. u.shape = c.shape /\ u.copies = {CopyRect(t, dy) : t \in copied}
        /\ u.tiles = {SentTile(c, t) : t \in sent}
    BY UpdateIs
  <1>2. c.shape \in Shape
    BY DesktopType
  <1>3. copied \subseteq TilesOf(c.shape) /\ sent \subseteq TilesOf(c.shape)
        /\ \A t \in copied : Moved(p, c, dy, t)
    BY CopiedTiles, DamagedAreTiles
  <1>4. Damaged(p, c) # {}
    BY SomethingDamaged
  <1>5. copied # {} \/ sent # {}
    BY <1>4
  <1>6. p = NoDesktop => copied = {} /\ sent = TilesOf(c.shape)
    BY WithoutBaseline
  <1> HIDE DEF u, p, copied, sent
  <1>7. u.tiles # {} \/ u.copies # {}
    BY <1>1, <1>5
  <1>8. \A s \in u.tiles : Inside(s.tile, u.shape)
    <2>1. \A t \in sent : Inside(t, c.shape)
      BY <1>2, <1>3, TilesFit
    <2>. QED  BY <1>1, <2>1 DEF SentTile
  <1>9. \A r \in u.copies : /\ Inside(r.tile, u.shape)
                            /\ r.source_y >= 0
                            /\ r.source_y + r.tile.height <= u.shape[2]
    <2>1. \A t \in copied : Inside(t, c.shape) /\ t.y + dy >= 0
                            /\ t.y + dy + t.height <= c.shape[2]
      BY <1>2, <1>3, TilesFit DEF Moved
    <2>. QED  BY <1>1, <2>1 DEF CopyRect
  <1>10. ASSUME prev = NoDesktop \/ prev.shape # u.shape
         PROVE  /\ u.copies = {}
                /\ {s.tile : s \in u.tiles} = TilesOf(c.shape)
    <2>1. p = NoDesktop
      BY <1>1, <1>10 DEF p, Baseline
    <2>2. u.tiles = {SentTile(c, t) : t \in TilesOf(c.shape)}
      BY <1>1, <1>6, <2>1
    <2>3. {s.tile : s \in u.tiles} = TilesOf(c.shape)
      <3>1. \A t : SentTile(c, t).tile = t
        BY DEF SentTile
      <3>. QED  BY <2>2, <3>1
    <2>. QED  BY <1>1, <1>6, <2>1, <2>3
  <1>11. TilesOf(c.shape) =
            {[x |-> i * TileSize, y |-> j * TileSize,
              width |-> Smaller(TileSize, u.shape[1] - i * TileSize),
              height |-> Smaller(TileSize, u.shape[2] - j * TileSize)] :
                i \in 0..(u.shape[1] - 1) \div TileSize,
                j \in 0..(u.shape[2] - 1) \div TileSize}
    BY <1>1, TilesAre DEF TileAt, Rows
  <1>12. Accepts(prev, u)
    BY <1>7, <1>8, <1>9, <1>10, <1>11 DEF Accepts
  <1>. QED  BY <1>12 DEF u

-----------------------------------------------------------------------------
(* The canvas draws it *)

LEMMA UpdateDrawn ==
    ASSUME NEW prev \in AllDesktops \cup {NoDesktop}, NEW c \in AllDesktops, NEW dy \in Int
    PROVE  Draw(prev, ChangedTiles(prev, c, dy)) = c
  <1> DEFINE u == ChangedTiles(prev, c, dy)
             p == Baseline(prev, c)
             copied == Copied(p, c, dy)
             sent == Damaged(p, c) \ copied
             sentAt(q) == {s \in u.tiles : q \in Area(s.tile)}
             copyAt(q) == {r \in u.copies : q \in Area(r.tile)}
             drawn(q) == IF sentAt(q) # {} THEN (CHOOSE s \in sentAt(q) : TRUE).png[q]
                         ELSE IF copyAt(q) # {}
                         THEN LET r == CHOOSE r \in copyAt(q) : TRUE
                              IN prev.rgb[<<q[1], q[2] + r.source_y - r.tile.y>>]
                         ELSE prev.rgb[q]
  <1>1. u.shape = c.shape /\ u.copies = {CopyRect(t, dy) : t \in copied}
        /\ u.tiles = {SentTile(c, t) : t \in sent}
    BY UpdateIs
  <1>2. c.shape \in Shape /\ c.rgb \in [Pixels(c.shape) -> Colors]
        /\ c = [shape |-> c.shape, rgb |-> c.rgb]
    BY DesktopType
  <1>3. copied \subseteq TilesOf(c.shape) /\ \A t \in copied : Moved(p, c, dy, t)
    BY CopiedTiles, DamagedAreTiles
  <1>4. Draw(prev, u) = [shape |-> u.shape, rgb |-> [q \in Pixels(u.shape) |-> drawn(q)]]
    BY DEF Draw
  <1>5. ASSUME NEW q \in Pixels(c.shape) PROVE drawn(q) = c.rgb[q]
    <2>1. CASE sentAt(q) # {}
      <3> DEFINE s == CHOOSE s \in sentAt(q) : TRUE
      <3>1. s \in sentAt(q)
        BY <2>1
      <3> HIDE DEF s
      <3>2. s \in u.tiles /\ q \in Area(s.tile)
        BY <3>1
      <3>3. PICK t \in sent : s = [tile |-> t, png |-> [x \in Area(t) |-> c.rgb[x]]]
        BY <1>1, <3>2 DEF SentTile
      <3>4. s.png[q] = c.rgb[q]
        BY <3>2, <3>3
      <3>. QED  BY <2>1, <3>4 DEF s
    <2>2. CASE sentAt(q) = {} /\ copyAt(q) # {}
      <3> DEFINE r == CHOOSE r \in copyAt(q) : TRUE
      <3>1. r \in copyAt(q)
        BY <2>2
      <3> HIDE DEF r
      <3>2. r \in u.copies /\ q \in Area(r.tile)
        BY <3>1
      <3>3. PICK t \in copied : r = [tile |-> t, source_y |-> t.y + dy]
        BY <1>1, <3>2 DEF CopyRect
      <3>4. p # NoDesktop /\ c.rgb[q] = p.rgb[<<q[1], q[2] + dy>>]
        BY <1>3, <3>2, <3>3 DEF Moved
      <3>5. p = prev
        BY <3>4, BaselineType
      <3>6. q[2] + r.source_y - r.tile.y = q[2] + dy
        <4>1. t \in Tile
          BY <1>2, <1>3, <3>3, TilesFit
        <4>2. t.y \in Nat /\ q[2] \in Int
          BY <1>2, <4>1, ShapeType DEF Tile, Pixels
        <4>. QED  BY <3>3, <4>2
      <3>7. drawn(q) = prev.rgb[<<q[1], q[2] + r.source_y - r.tile.y>>]
        BY <2>2 DEF r
      <3>. QED  BY <3>4, <3>5, <3>6, <3>7
    <2>3. CASE sentAt(q) = {} /\ copyAt(q) = {}
      <3>1. \A t \in Damaged(p, c) : q \notin Area(t)
        <4>1. \A t \in sent : SentTile(c, t) \in u.tiles /\ SentTile(c, t).tile = t
          BY <1>1 DEF SentTile
        <4>2. \A t \in copied : CopyRect(t, dy) \in u.copies /\ CopyRect(t, dy).tile = t
          BY <1>1 DEF CopyRect
        <4>. QED  BY <2>3, <4>1, <4>2
      <3>2. p # NoDesktop /\ p.rgb[q] = c.rgb[q]
        BY <3>1, UndamagedPixel
      <3>3. p = prev
        BY <3>2, BaselineType
      <3>. QED  BY <2>3, <3>2, <3>3
    <2>. QED  BY <2>1, <2>2, <2>3
  <1> HIDE DEF drawn, u
  <1>6. [q \in Pixels(c.shape) |-> drawn(q)] = c.rgb
    BY <1>2, <1>5
  <1>7. Draw(prev, u) = c
    BY <1>1, <1>2, <1>4, <1>6
  <1>. QED  BY <1>7 DEF u

-----------------------------------------------------------------------------

LEMMA CasesAre ==
    ASSUME NEW k \in Cases
    PROVE  k[1] \in AllDesktops \cup {NoDesktop} /\ k[2] \in AllDesktops /\ k[3] \in Int
           /\ k[1] # k[2]
  <1>1. k \in (AllDesktops \cup {NoDesktop}) \X AllDesktops \X ScrollOffsets /\ k[1] # k[2]
    BY DEF Cases
  <1>2. ScrollOffsets \subseteq Int
    BY TileAssumption DEF ScrollOffsets
  <1>. QED  BY <1>1, <1>2

\* For desktops of any shape and colors, tiles of any size and any number of copies:
\* every update is one the browser accepts, and draws as the desktop that was
\* captured, whatever it had drawn before (changed_tiles, parseTiles, #commit).
THEOREM UpdatesAlwaysArrive == Spec => []UpdatesArrive
  <1>1. UpdatesAccepted
    BY CasesAre, UpdateAccepted DEF UpdatesAccepted, AllAccepted
  <1>2. UpdatesDrawn
    BY CasesAre, UpdateDrawn DEF UpdatesDrawn, AllDrawn
  <1>3. UpdatesArrive
    BY <1>1, <1>2 DEF UpdatesArrive
  <1>. QED  BY <1>3, PTL
=============================================================================
