------------------------------ MODULE MCBitmap ------------------------------
(***************************************************************************)
(* Bitmap for TLC: two bytes of three bits and the byte behind them, asked *)
(* for one bit, for a few in a row and for one more than the map has.      *)
(***************************************************************************)
EXTENDS Bitmap

MCCount == {1, 2, 3, 7}

=============================================================================
