------------------------- MODULE MCModernizeSession -------------------------
(***************************************************************************)
(* Two runs of one repository in one minute and one of another. The shop    *)
(* has two capabilities, infrastructure files and a package that two        *)
(* manifests declare; the bank has neither capabilities nor dependencies.   *)
(***************************************************************************)
EXTENDS ModernizeSession

CONSTANTS t1, t2, t3

MCStarted == <<t1, t3, t2>>
MCLabel == [t \in Threads |-> IF t = t3 THEN "bank 10:00" ELSE "shop 10:00"]

Shop ==
  [capabilities |-> <<[id |-> "orders", files |-> {"orders.py"}], [id |-> "stock", files |-> {"stock.py"}]>>,
   services |-> <<>>, infra |-> {"Dockerfile"}, disk |-> {"orders.py", "stock.py", "Dockerfile"},
   fields |-> [f \in {"orders.py"} |-> {"total", "status", "items"}],
   deps |-> <<[name |-> "redis", eco |-> "npm"], [name |-> "flask", eco |-> "pypi"], [name |-> "redis", eco |-> "pypi"]>>]
Bank ==
  [capabilities |-> <<>>, services |-> <<[id |-> "bank", files |-> {"main.py"}]>>, infra |-> {},
   disk |-> {"main.py"}, fields |-> [f \in {"main.py"} |-> {"balance"}], deps |-> <<>>]
MCFactsOf == [t \in Threads |-> IF t = t3 THEN Bank ELSE Shop]

File(path, kept) == [path |-> path, kept |-> kept]
MCReplies ==
  {\* another language, one package replaced, a path shared by a unit and the infrastructure
   [same |-> FALSE, mappings |-> {[name |-> "redis", target |-> "ioredis", eco |-> "npm"],
                                  [name |-> "flask", target |-> "flusk", eco |-> "npm"]},
    files |-> [u \in {"orders", "stock", "infra"} |->
                 IF u = "orders" THEN {File("orders.ts", {})}
                 ELSE {File("package.json", {}), File("stock.ts", {})}]],
   \* the same language: a field lost for the shop, nothing usable for the bank
   [same |-> TRUE, mappings |-> {}, files |-> [u \in {"orders"} |-> {File("app.py", {"total"})}]]}

MCRegistry == {<<"npm", "ioredis">>, <<"pypi", "flask">>}
MCEdits == {<<"axios", "npm">>}
MCGraphNodes ==
  {[repo |-> "shop", about |-> {"q"}, files |-> {"orders.py"}, name |-> "orders", widens |-> {"stock"}],
   [repo |-> "shop", about |-> {}, files |-> {"stock.py"}, name |-> "stock", widens |-> {}],
   [repo |-> "bank", about |-> {"q"}, files |-> {"main.py"}, name |-> "ledger", widens |-> {}]}
=============================================================================
