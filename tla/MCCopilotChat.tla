---------------------------- MODULE MCCopilotChat ----------------------------
(* TLC instances of CopilotChat.                                           *)
EXTENDS CopilotChat

AllTasks == {"monitor_setup", "market_diagnosis", "strategy_design"}
=============================================================================
