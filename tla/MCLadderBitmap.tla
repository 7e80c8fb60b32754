--------------------------- MODULE MCLadderBitmap ---------------------------
(***************************************************************************)
(* LadderBitmap for TLC, with the abstract book.                           *)
(***************************************************************************)
EXTENDS LadderBitmap, OrderBookRefinement
=============================================================================
