--------------------------- MODULE MCStreamScanner ---------------------------
(* Small instances of StreamScanner for TLC. *)
EXTENDS StreamScanner, TLC
=============================================================================
