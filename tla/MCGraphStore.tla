---------------------------- MODULE MCGraphStore ----------------------------
(***************************************************************************)
(* Two repositories that share a folder, a file and a function name, two    *)
(* versions of each. Their batches are what the analysis makes of them.     *)
(***************************************************************************)
EXTENDS GraphStore, Findings

CONSTANTS p1, p2, p3

Fn(name) ==
  [kind |-> "function", name |-> name, outer |-> 0, first |-> 1, last |-> 2, orm |-> FALSE,
   fields |-> <<>>, params |-> <<>>, returns |-> "", routes |-> {}]
Site(in, callee) == [in |-> in, callee |-> callee]
File(path, folder, mod, defs, sites) ==
  [path |-> path, folder |-> folder, mod |-> mod, lang |-> "python", test |-> FALSE,
   imports |-> {}, defs |-> defs, sites |-> sites]
Main(sites) == File("src/main.py", "src", <<"src", "main">>, <<Fn("f"), Fn("g")>>, sites)
Rates == File("lib/rates.py", "lib", <<"lib", "rates">>, <<Fn("h")>>, <<>>)

Repository(name, sources) ==
  [repo |-> name, files |-> {s.path : s \in {sources[k] : k \in DOMAIN sources}},
   sources |-> sources, agents |-> {"hld_builder"}, tables |-> {}, contracts |-> {}, rules |-> {},
   terms |-> {}, gaps |-> {}, controls |-> {}, conflicts |-> {}]

Versions ==
  {Repository("shop", <<Main(<<Site(1, "g")>>)>>),
   Repository("shop", <<Main(<<Site(1, "h"), Site(2, "f")>>), Rates>>),
   Repository("bank", <<Main(<<Site(2, "h")>>), Rates>>),
   Repository("bank", <<Main(<<>>)>>)}

\* `repo_id` of write_batch is the repository node's own key.
BatchOf(v) ==
  LET b == BuildGraphBatch(AllFindings(v, {})) IN [repo |-> v.repo, nodes |-> b.nodes, edges |-> b.edges]

MCRepos == {"shop", "bank"}
MCBatches == {BatchOf(v) : v \in Versions}
MCNodes == UNION {b.nodes : b \in MCBatches} \cup UNION {{e[2], e[3]} : e \in UNION {b.edges : b \in MCBatches}}
MCEdges == UNION {b.edges : b \in MCBatches}
MCRoot == [r \in MCRepos |-> Node("Repository", r)]
=============================================================================
