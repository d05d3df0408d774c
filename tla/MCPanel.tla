------------------------------- MODULE MCPanel -------------------------------
(* TLC instances of DeepAnalysisPanel: two assets; one lacks the report    *)
(* artifact of its older run.                                              *)
EXTENDS DeepAnalysisPanel

CONSTANTS a, b

AllContexts == {a, b}
SomeReported == {Today(a), Old(a), Today(b)}
=============================================================================
