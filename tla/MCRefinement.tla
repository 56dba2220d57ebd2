---------------------------- MODULE MCRefinement ----------------------------
(* Refinement for TLC, and the updates it sends (TileDiff) over all desktops *)
(* of a few pixels: one of more than two rows of tiles, one of two columns.  *)
EXTENDS RefinementTiles

MCShapes == {<<1, 5>>, <<3, 2>>}
MCOffsets == -3..3
=============================================================================
