----------------------------- MODULE GraphStore -----------------------------
(***************************************************************************)
(* The knowledge graph: one Neo4j instance into which the runs of every     *)
(* repository merge their batches, node by natural key, edge by its ends.   *)
(* Nothing is ever deleted, a node belongs to whoever wrote it last, and    *)
(* documents are generated from the nodes that carry a repository's id.     *)
(***************************************************************************)
EXTENDS Naturals, FiniteSets

CONSTANTS Repos,      \* repository ids
          Nodes,      \* natural keys
          Edges,      \* <<type, source, target>>
          Runs,       \* calls of write_batch
          Batches,    \* what a run of a repository may write
          Root,       \* the Repository node of each repository
          NoRepo, NoRun

Batch == [repo : Repos, nodes : SUBSET Nodes, edges : SUBSET Edges]

\* Every batch has its repository's node, and it is keyed by the repository's id.
ASSUME StoreAssumption ==
  /\ NoRepo \notin Repos /\ NoRun \notin Runs
  /\ \A e \in Edges : e[2] \in Nodes /\ e[3] \in Nodes
  /\ Root \in [Repos -> Nodes]
  /\ Batches \subseteq Batch
  /\ \A b \in Batches, r \in Repos : Root[r] \in b.nodes <=> r = b.repo

VARIABLES owner,      \* repo_id of each node, NoRepo when it does not exist
          verified,   \* last_verified of each node
          edges,      \* edges in the store
          phase, job, started,  \* of each run: where it is, its batch (an input), its run_timestamp
          clock,      \* time.time()
          asked,      \* history: repositories whose runs wrote an edge
          holder,     \* history: repositories whose runs wrote a node
          latest      \* history: the run that merged nodes last

vars == <<owner, verified, edges, phase, job, started, clock, asked, holder, latest>>
history == <<asked, holder, latest>>

Phases == {"idle", "begun", "merged", "done", "failed"}

TypeOK ==
  /\ owner \in [Nodes -> Repos \cup {NoRepo}]
  /\ verified \in [Nodes -> Nat]
  /\ edges \subseteq Edges
  /\ phase \in [Runs -> Phases]
  /\ job \in [Runs -> Batches]
  /\ started \in [Runs -> Nat]
  /\ clock \in Nat \ {0}
  /\ asked \in [Edges -> SUBSET Repos]
  /\ holder \in [Nodes -> SUBSET Repos]
  /\ latest \in Runs \cup {NoRun}

Init ==
  /\ owner = [n \in Nodes |-> NoRepo]
  /\ verified = [n \in Nodes |-> 0]
  /\ edges = {}
  /\ phase = [p \in Runs |-> "idle"]
  /\ job \in [Runs -> Batches]
  /\ started = [p \in Runs |-> 0]
  /\ clock = 1
  /\ asked = [e \in Edges |-> {}]
  /\ holder = [n \in Nodes |-> {}]
  /\ latest = NoRun

(***************************************************************************)
(* write_batch. The two transactions of a run may have those of other runs  *)
(* before, between and after them. Two runs never read the same time.       *)
(***************************************************************************)
WriteBatch(p) ==
  /\ phase[p] = "idle"
  /\ phase' = [phase EXCEPT ![p] = "begun"]
  /\ started' = [started EXCEPT ![p] = clock]
  /\ clock' = clock + 1
  /\ UNCHANGED <<owner, verified, edges, job, history>>

\* Mutant: repo_id is set only when the node is created.
SetPropertiesOnCreate(n, b) == IF owner[n] = NoRepo THEN b.repo ELSE owner[n]

\* SET n += properties: repo_id as well, whoever had the node before.
SetProperties(n, b) == b.repo

\* Mutant: last_verified is set only when the node is created.
StampOnCreate(n, p) == IF owner[n] = NoRepo THEN started[p] ELSE verified[n]

Stamp(n, p) == started[p]

MergeNodes(p) ==
  /\ phase[p] = "begun"
  /\ owner' = [n \in Nodes |-> IF n \in job[p].nodes THEN SetProperties(n, job[p]) ELSE owner[n]]
  /\ verified' = [n \in Nodes |-> IF n \in job[p].nodes THEN Stamp(n, p) ELSE verified[n]]
  /\ phase' = [phase EXCEPT ![p] = "merged"]
  /\ holder' = [n \in Nodes |-> IF n \in job[p].nodes THEN holder[n] \cup {job[p].repo} ELSE holder[n]]
  /\ latest' = p
  /\ UNCHANGED <<edges, job, started, clock, asked>>

Exists(n) == owner[n] # NoRepo

\* MATCH finds an end by its key, whoever owns it; an edge without both ends is skipped.
Matched(b) == {e \in b.edges : Exists(e[2]) /\ Exists(e[3])}

MergeEdges(p) ==
  /\ phase[p] = "merged"
  /\ edges' = edges \cup Matched(job[p])
  /\ asked' = [e \in Edges |-> IF e \in Matched(job[p]) THEN asked[e] \cup {job[p].repo} ELSE asked[e]]
  /\ phase' = [phase EXCEPT ![p] = "done"]
  /\ UNCHANGED <<owner, verified, job, started, clock, holder, latest>>

\* A transaction fails: what the other one did stays.
Fail(p) ==
  /\ phase[p] \in {"begun", "merged"}
  /\ phase' = [phase EXCEPT ![p] = "failed"]
  /\ UNCHANGED <<owner, verified, edges, job, started, clock, history>>

Next == \E p \in Runs : WriteBatch(p) \/ MergeNodes(p) \/ MergeEdges(p) \/ Fail(p)

Spec == Init /\ [][Next]_vars

(***************************************************************************)
(* What documents are generated from (docgen/graph_facts.py)               *)
(***************************************************************************)
NodeFacts(r) == {n \in Nodes : owner[n] = r}

\* Mutant: only the source is filtered.
EdgeFactsOfSource(r) == {e \in edges : owner[e[2]] = r}

\* Relationship queries filter both ends.
EdgeFacts(r) == {e \in edges : owner[e[2]] = r /\ owner[e[3]] = r}

(***************************************************************************)
(* Properties                                                              *)
(***************************************************************************)
\* What the last run to merge nodes wrote is all there for its documents once it is done:
\* every node, and every edge between its nodes, whatever other runs did in between.
LatestRunIsDocumented ==
  \A p \in Runs :
    latest = p /\ phase[p] = "done" =>
      /\ job[p].nodes \subseteq NodeFacts(job[p].repo)
      /\ {e \in job[p].edges : {e[2], e[3]} \subseteq job[p].nodes} \subseteq EdgeFacts(job[p].repo)

\* Leftovers can be told: among the nodes of a repository, exactly those of the run that
\* merged its nodes last carry the time its Repository node carries (last_verified,
\* neo4j_writer.py). The others are of earlier batches and were found by no later run.
LeftoversRecognisable ==
  \A r \in Repos : Exists(Root[r]) =>
    \E p \in Runs :
      /\ job[p].repo = r /\ started[p] = verified[Root[r]] /\ phase[p] \notin {"idle", "begun"}
      /\ \A n \in NodeFacts(r) : verified[n] = verified[Root[r]] <=> n \in job[p].nodes

\* Facts of two repositories blend only through the keys they share: an edge that a
\* document shows for a repository is one that some run asked for, between two keys that
\* runs of this repository have written, though perhaps not the edge itself.
BlendThroughSharedKeys ==
  \A r \in Repos : \A e \in EdgeFacts(r) : asked[e] # {} /\ r \in holder[e[2]] \cap holder[e[3]]
=============================================================================
