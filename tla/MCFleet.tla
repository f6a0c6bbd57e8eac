------------------------------ MODULE MCFleet ------------------------------
(* A wide plan, whose first wave is larger than the worker limit, and a    *)
(* deep one of three waves.                                                *)
EXTENDS Fleet

Chunk(tier, route, class) == [tier |-> tier, route |-> route, class |-> class]

MCPairs == {[route |-> "r1", class |-> "xss"], [route |-> "r2", class |-> "xss"]}

MCPlans ==
  {<<Chunk("auth", "home", "none"), Chunk("seed", "r1", "xss"), Chunk("seed", "r2", "xss"),
     Chunk("seed", "r1", "xss")>>,
   <<Chunk("seed", "r1", "xss"), Chunk("seed", "r1", "xss"), Chunk("seed", "r1", "xss"),
     Chunk("residual", "r2", "none")>>}
=============================================================================
