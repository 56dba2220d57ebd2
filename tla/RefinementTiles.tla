--------------------------- MODULE RefinementTiles ---------------------------
(* The worker and the canvas (Refinement) and what an update between them is *)
(* made of (TileDiff).                                                       *)
EXTENDS Refinement, TileDiff

\* Whatever desktops stand for the two of an update on its way, also if it is the
\* first or changes the size: the canvas accepts it, and what it draws of it is
\* the desktop captured, byte by byte, whatever the scroll offset that was guessed
\* and however its copies overlap.
UpdatesArrive == update # None => UpdatesAccepted /\ UpdatesDrawn
=============================================================================
