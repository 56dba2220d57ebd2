------------------------------ MODULE VideoSize ------------------------------
(***************************************************************************)
(* The size and the bitrate of a session's video: what the launcher writes *)
(* into the Host's configuration (stream_dimensions), what a session makes *)
(* of it for the display of the moment and the browser's viewport          *)
(* (host/src/config.rs, refresh_display and for_viewport), and the smaller *)
(* stream shown during input (interaction_video).                          *)
(*                                                                         *)
(* Sizes are scaled in f64: a product that is exactly a whole number may   *)
(* come out just below it, and floor then loses one.  So a scaled size is  *)
(* one of a set.                                                           *)
(***************************************************************************)
EXTENDS Integers

CONSTANTS
    Edges,              \* widths and heights of displays and viewports
    MaxWidths,          \* what --max-width may be
    Bitrate,            \* bitrate
    LeastBitrate,       \* 8_000_000
    InteractionEdges,   \* interaction_max_edge
    InteractionBitrate

ASSUME VideoAssumption ==
    /\ Edges \cup MaxWidths \subseteq Nat \ {0}
    /\ {Bitrate, LeastBitrate, InteractionBitrate} \subseteq Nat \ {0}
    /\ InteractionEdges \subseteq Nat \ {0, 1}

Less(a, b) == IF a < b THEN a ELSE b
More(a, b) == IF a > b THEN a ELSE b
CeilDiv(a, b) == (a + b - 1) \div b

\* value & !1
EvenBelow(n) == 2 * (n \div 2)

Size == [w : Nat, h : Nat]
Displays == [w : Edges, h : Edges]

-----------------------------------------------------------------------------
(* The configuration *)

\* stream_dimensions, 0: no limit
StreamDimensions(display, limit) ==
    IF limit = 0 \/ display.w <= limit THEN display
    ELSE [w |-> EvenBelow(limit), h |-> EvenBelow(More(2, (display.h * limit) \div display.w))]

\* What load accepts of it
Loads(size) == size.w # 0 /\ size.h # 0

\* A configuration: the encoder's ceiling, and what is captured
Config(size, capture) == [w |-> size.w, h |-> size.h, cw |-> capture.w, ch |-> capture.h,
                          bitrate |-> Bitrate]

\* with_display_size
WithDisplaySize(c, display) ==
    IF display.w < 2 \/ display.h < 2 THEN c
    ELSE [c EXCEPT !.w = EvenBelow(display.w), !.h = EvenBelow(display.h),
                   !.cw = display.w, !.ch = display.h]

-----------------------------------------------------------------------------
(* for_viewport *)

AtMost(r, q) == r.n * q.d <= q.n * r.d

\* The smallest of these ratios, none of them above 1.
Scale(c, viewport) ==
    LET ratios == {[n |-> viewport.w, d |-> c.cw], [n |-> viewport.h, d |-> c.ch],
                   [n |-> c.w, d |-> c.cw], [n |-> c.h, d |-> c.ch], [n |-> 1, d |-> 1]}
    IN CHOOSE r \in ratios : \A q \in ratios : AtMost(r, q)

\* floor of n * scale
Floors(n, scale) ==
    {(n * scale.n) \div scale.d}
        \cup (IF (n * scale.n) % scale.d = 0 THEN {(n * scale.n) \div scale.d - 1} ELSE {})

\* A mutant: sizes are rounded up.
EvenAbove(n) == 2 * ((More(n, 2) + 1) \div 2)

Even(n) == 2 * (More(n, 2) \div 2)

BitrateFor(c, w, h) ==
    Less(More(CeilDiv(c.bitrate * w * h, c.w * c.h), Less(c.bitrate, LeastBitrate)), c.bitrate)

\* The session with another size
Resized(c, w, h) == [c EXCEPT !.w = w, !.h = h, !.bitrate = BitrateFor(c, w, h)]

\* The sessions a viewport may get; a side of 0: it is not known.
ForViewport(c, viewport) ==
    IF viewport.w = 0 \/ viewport.h = 0 THEN {c}
    ELSE LET scale == Scale(c, viewport)
         IN {Resized(c, Even(w), Even(h)) : w \in Floors(c.cw, scale), h \in Floors(c.ch, scale)}

-----------------------------------------------------------------------------
(* interaction_video *)

ToLimit(side, longest, limit) == More(EvenBelow((side * limit) \div longest), 2)

InteractionVideo(c, limit) ==
    LET longest == More(c.w, c.h)
        small == IF longest > limit
                 THEN [c EXCEPT !.w = ToLimit(c.w, longest, limit), !.h = ToLimit(c.h, longest, limit)]
                 ELSE c
    IN [small EXCEPT !.bitrate = Less(@, InteractionBitrate)]

-----------------------------------------------------------------------------
(* Properties *)

\* The configurations sessions are made from: as the launcher wrote them for one
\* display, or refreshed for another.
Configs ==
    LET written == {Config(StreamDimensions(display, limit), display) :
                        display \in Displays, limit \in MaxWidths \cup {0}}
        loaded == {c \in written : Loads(c)}
    IN loaded \cup {WithDisplaySize(c, display) : c \in loaded, display \in Displays}

\* An even size that fits, of which no side could grow by more than the rounding
\* of two sizes, in the aspect of what is captured up to that.
Fits(s, c, viewport) ==
    LET boundW == Less(viewport.w, Less(c.w, c.cw))
        boundH == Less(viewport.h, Less(c.h, c.ch))
    IN /\ {s.w % 2, s.h % 2} = {0}
       /\ s.w \in 2..More(2, boundW) /\ s.h \in 2..More(2, boundH)
       /\ s.w + 4 > boundW \/ s.h + 4 > boundH
       /\ s.w > 2 => s.w * c.ch <= (s.h + 3) * c.cw
       /\ s.h > 2 => s.h * c.cw <= (s.w + 3) * c.ch
       /\ s.bitrate \in Less(Bitrate, LeastBitrate)..Bitrate

AllSessionsFit ==
    \A c \in Configs, viewport \in Displays : \A s \in ForViewport(c, viewport) : Fits(s, c, viewport)

\* What an even size is reduced to: within the limit, in the same aspect, and no
\* further by doing it again.
Reduced(i, s, limit) ==
    /\ {i.w % 2, i.h % 2} = {0} /\ i.w >= 2 /\ i.h >= 2
    /\ i.w <= limit /\ i.h <= limit /\ i.w <= s.w /\ i.h <= s.h
    /\ i.w > 2 => i.w * s.h <= (i.h + 2) * s.w
    /\ i.h > 2 => i.h * s.w <= (i.w + 2) * s.h
    /\ i.bitrate <= InteractionBitrate
    /\ InteractionVideo(i, limit) = i

AllInteractionFits ==
    \A c \in Configs, viewport \in Displays, limit \in InteractionEdges :
        \A s \in ForViewport(c, viewport) : Reduced(InteractionVideo(s, limit), s, limit)

\* Both once for all: TLC keeps the value of a definition without parameters.
ViewportsFit == AllSessionsFit
ReductionsFit == AllInteractionFits
=============================================================================
