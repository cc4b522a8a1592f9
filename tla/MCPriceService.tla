--------------------------- MODULE MCPriceService ---------------------------
(* A small instance of PriceService for TLC.                               *)
EXTENDS PriceService

CONSTANTS r1, r2
=============================================================================
