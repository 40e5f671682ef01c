--------------------------- MODULE MCAccessCache ---------------------------
(* Model values for checking AccessCache.                                  *)
EXTENDS AccessCache

CONSTANTS p1, p2
=============================================================================
