--------------------------- MODULE MCMarketClient ---------------------------
(* A small instance of MarketClient for TLC.                               *)
EXTENDS MarketClient
=============================================================================
