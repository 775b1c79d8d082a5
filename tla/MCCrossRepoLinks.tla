-------------------------- MODULE MCCrossRepoLinks --------------------------
(*****************************************************************************)
(* Two repositories share the service name "api": the shop refers to one of  *)
(* its own, the bank takes the node over. The bank calls the shop by service *)
(* name with a route and by repository name without one, and consumes a      *)
(* topic through a Google subscription.                                      *)
(*****************************************************************************)
EXTENDS CrossRepoLinks, TLC

CONSTANTS s1, s2, v1, v2

MCComponents == "shop" :> {"web", "api"} @@ "bank" :> {"api"}
MCDeclared == "shop" :> {"shop"} @@ "bank" :> {"bank"}

Call(repo, service, host, by, route) ==
  [repo |-> repo, service |-> service, host |-> host, by |-> by, route |-> route]
MCCalls ==
  {Call("bank", "api", "web", "url", TRUE), Call("bank", "api", "shop", "service variable", FALSE),
   Call("shop", "api", "api", "url", FALSE), Call("shop", "web", "bank", "variable", FALSE)}
MCPairs == {<<"shop", "bank">>}

Mention(repo, service, type, topic, google) ==
  [repo |-> repo, service |-> service, type |-> type, topic |-> topic, google |-> google]
MCMentions ==
  {Mention("bank", "api", "CONSUMES", "orders-sub", TRUE)}
MCStrip == [t \in {"orders", "orders-sub"} |-> "orders"]

Symmetry == Permutations(Scans)
MCShows == [v \in Lists |-> IF v = v1 THEN "shop" ELSE "bank"]
=============================================================================
