--------------------------- MODULE MCRulePromotion ---------------------------
(* PromotionHistory, hence RulePromotion, on small instances.              *)
EXTENDS PromotionHistory

(* Ages and capitals on both sides of every bound. Of the seeds, an old    *)
(* rich company, one registered before it was founded, and a dossier with  *)
(* no registry.                                                            *)
SeedDossiers ==
  { [registry |-> TRUE,  age |-> 3,  capital |-> 9],
    [registry |-> TRUE,  age |-> -1, capital |-> 9],
    [registry |-> FALSE, age |-> 0,  capital |-> 9] }

(* The operator may generate no corpus, or one of a young company of       *)
(* ordinary capital.                                                       *)
GeneratedCorpora == { {}, {[registry |-> TRUE, age |-> 1, capital |-> 2]} }

(* No dossier of the gate is of a company within its first days.           *)
NoYoungCompany == {{[registry |-> TRUE, age |-> 3, capital |-> 2]}}

=============================================================================
