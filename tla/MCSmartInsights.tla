--------------------------- MODULE MCSmartInsights ---------------------------
(* TLC instances of SmartInsights: two languages.                          *)
EXTENDS SmartInsights, TLC

CONSTANTS en, vi

AllLanguages == {en, vi}
=============================================================================
