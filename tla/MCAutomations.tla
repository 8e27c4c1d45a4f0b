--------------------------- MODULE MCAutomations ---------------------------
(* Instances of Automations: one automation recurs every minute.           *)
EXTENDS Automations

CONSTANTS often, seldom

MCPeriod == [x \in Automation |-> IF x = often THEN 1 ELSE 2]
=============================================================================
