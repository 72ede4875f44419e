------------------------- MODULE ContentOrchestratorMC -------------------------
(* Instances of the orchestrator: one translation language, two products. *)
EXTENDS ContentOrchestrator, TLC

CONSTANTS A, B

TwoProducts == {A, B}
OneLang == <<"EN">>
NoLang == << >>
Interchangeable == Permutations(TwoProducts)
=============================================================================
