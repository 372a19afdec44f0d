-------------------------- MODULE MCScreeningGraph --------------------------
(* ScreeningGraph on small instances.                                      *)
EXTENDS ScreeningGraph

AnyDossier == SUBSET Documents

=============================================================================
