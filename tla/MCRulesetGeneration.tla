------------------------- MODULE MCRulesetGeneration --------------------------
(* The model-checked instances of RulesetGeneration.                       *)
EXTENDS RulesetGeneration

(* Generations may end in every way the server has.                        *)
MCEndings == AllEndings
===============================================================================
