----------------------------- MODULE MCPentest -----------------------------
(* One engagement, overlapping operations, leads in and out of scope, and  *)
(* the rules of engagement that differ for some gate.                      *)
EXTENDS Pentest, TLC

CONSTANTS c1, c2, in1, in2, out

Symmetry == Permutations(Calls)

Roe(m, consent, production, env) ==
  [mode |-> m, consent |-> consent, production |-> production, env |-> env]

MCRules ==
  {Roe("passive", FALSE, FALSE, "production"),
   Roe("active", FALSE, TRUE, "staging"),      \* never authorized
   Roe("active", TRUE, FALSE, "production"),   \* every exploit refused
   Roe("deep", TRUE, TRUE, "production")}
=============================================================================
