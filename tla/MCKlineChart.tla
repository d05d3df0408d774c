---------------------------- MODULE MCKlineChart -----------------------------
(* TLC instances of KlineChart: a crypto spot market and another market.   *)
EXTENDS KlineChart

CONSTANTS btc, xau

AllContexts == {btc, xau}
SpotMarkets == {btc}
=============================================================================
