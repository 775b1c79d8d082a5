--------------------------- MODULE CrossRepoLinks ---------------------------
(***************************************************************************)
(* Links between repositories: `atlaz link-services` reads two ingested     *)
(* runs, finds calls and messages between their services and writes them    *)
(* one query at a time as unconfirmed edges, while repositories are         *)
(* ingested again, other scans run, and reviewers confirm or reject links   *)
(* from lists they loaded before.                                           *)
(* Names are taken up to normalize_name.                                    *)
(***************************************************************************)
EXTENDS Naturals, FiniteSets, Functions

CONSTANTS Repos,
          Names,       \* service names, the natural keys of Service nodes
          Components,  \* the components hld_builder finds in each repository
          Declared,    \* repository and declared compose/k8s names of each repository
          Calls,       \* places in the repositories that name a host: a URL or an environment variable
          Mentions,    \* places that publish or consume
          Topics,
          Strip,       \* a subscription name without its suffix
          Pairs,       \* repositories of the two runs a call of link-services may name
          MinConfidence,  \* values of --min-confidence, in percent
          Scans,       \* calls of link-services --write
          Lists,       \* cached lists of the review page
          Shows,       \* the repository each list is for
          None

ASSUME LinkAssumption ==
  /\ Components \in [Repos -> SUBSET Names]
  /\ \A r \in Repos : Components[r] # {}
  /\ Calls \subseteq [repo : Repos, service : Names, host : (UNION Range(Declared)) \cup Names,
                     by : {"url", "service variable", "variable"}, route : BOOLEAN]
  /\ Mentions \subseteq [repo : Repos, service : Names, type : {"PUBLISHES", "CONSUMES"}, topic : Topics, google : BOOLEAN]
  /\ Pairs \subseteq Repos \X Repos
  /\ Strip \in [Topics -> Topics]
  /\ Shows \in [Lists -> Repos]
  /\ None \notin Repos \cup Scans \cup Lists

VARIABLES owner,    \* repo_id of each Service node, None when there is no such node
          links,    \* properties of the link edges, by <<type, source, target>>
          scan,     \* of each call of link-services: where it is and what it has read
          list,     \* the links in each list (st.session_state["review::..."])
          answers,  \* history: answers given through each list that nobody has overwritten
          last,     \* history: the scan that wrote each edge last
          found,    \* history: the repositories a scan found the edge between
          moved     \* history: edges one of whose services changed its owner since a scan wrote them

vars == <<owner, links, scan, list, answers, last, found, moved>>

Types == {"CALLS_SERVICE", "PUBLISHES", "CONSUMES"}
Keys == Types \X Names \X (Names \cup Topics)
Idle == [at |-> "idle", a |-> None, b |-> None, near |-> {}, todo |-> {},
         wrote |-> {}, changed |-> {}]

Init ==
  /\ owner = [n \in Names |-> None]
  /\ links = <<>>
  /\ scan = [s \in Scans |-> Idle]
  /\ list = [v \in Lists |-> {}]
  /\ answers = [v \in Lists |-> <<>>]
  /\ last = <<>> /\ found = <<>> /\ moved = {}

Exists(k) == k \in DOMAIN links
Ends(k) == {k[2]} \cup IF k[1] = "CALLS_SERVICE" THEN {k[3]} ELSE {}

\* An ingestion of r merges its Service nodes by name: shared ones change their owner.
Ingest(r) ==
  /\ owner' = [n \in Names |-> IF n \in Components[r] THEN r ELSE owner[n]]
  /\ LET changed == {n \in Names : owner'[n] # owner[n]} IN
     /\ moved' = moved \cup {k \in DOMAIN links : Ends(k) \cap changed # {}}
     /\ scan' = [s \in Scans |-> IF scan[s].at \in {"read", "found", "write"}
                                THEN [scan[s] EXCEPT !.changed = @ \cup changed] ELSE scan[s]]
  /\ UNCHANGED <<links, list, answers, last, found>>

(***************************************************************************)
(* Finding: correlate and scan                                             *)
(***************************************************************************)
\* Mutant: the facts of every repository.
AllServices(r) == {n \in Names : owner[n] # None}

\* Service nodes that carry the repository's id (fetch_project_facts).
Services(r) == {n \in Names : owner[n] = r}

\* The service of `services` that a host names; repository and declared names stand for a
\* lone service.
Target(host, r, services) ==
  IF host \in services THEN {host}
  ELSE IF Cardinality(services) = 1 /\ host \in Declared[r] THEN services ELSE {}

\* A variable whose name has no service suffix names no host.
OutboundCalls(r) == {c \in Calls : c.repo = r /\ c.by # "variable"}

PubSubSignals(r) == {m \in Mentions : m.repo = r}

\* Only a URL has a path that can overlap a route of the target.
Confidence(c) == IF c.by = "url" /\ c.route THEN 85 ELSE 55

\* Call sites in files of a known service of a, to services of b.
Correlate(a, ofA, b, ofB) ==
  UNION {{[key |-> <<"CALLS_SERVICE", c.service, t>>, from |-> a, to |-> b,
           confidence |-> Confidence(c)] : t \in Target(c.host, b, ofB)}
         : c \in {c \in OutboundCalls(a) : c.service \in ofA}}

\* Only a Google subscription carries a suffix that its topic has not.
NormalizeTopic(m) == IF m.google /\ m.type = "CONSUMES" THEN Strip[m.topic] ELSE m.topic

Findings(r, services) ==
  {[key |-> <<m.type, m.service, NormalizeTopic(m)>>, from |-> r, to |-> r, confidence |-> 70]
   : m \in {m \in PubSubSignals(r) : m.service \in services}}

\* find_candidates needs an audit row of both runs, which a run that has not written its
\* services, or has lost them, has too.  It reads the graph of the first run ...
ReadFirst(s, a, b) ==
  /\ scan[s].at = "idle"
  /\ scan' = [scan EXCEPT ![s] = [Idle EXCEPT !.at = "read", !.a = a, !.b = b, !.near = Services(a)]]
  /\ UNCHANGED <<owner, links, list, answers, last, found, moved>>

\* ... then that of the second, and correlates both ways ...
ReadSecond(s) ==
  LET a == scan[s].a  b == scan[s].b  far == Services(b) IN
  /\ scan[s].at = "read"
  /\ scan' = [scan EXCEPT ![s].at = "found",
       ![s].near = {}, ![s].todo = Correlate(a, scan[s].near, b, far) \cup Correlate(b, far, a, scan[s].near)]
  /\ UNCHANGED <<owner, links, list, answers, last, found, moved>>

\* ... and PubSubLinkService.scan reads each again; then findings are filtered.
ScanTopics(s, min) ==
  LET topics == UNION {Findings(r, Services(r)) : r \in {scan[s].a, scan[s].b}} IN
  /\ scan[s].at = "found"
  /\ scan' = [scan EXCEPT ![s].at = "write",
                          ![s].todo = {c \in @ \cup topics : c.confidence >= min}]
  /\ UNCHANGED <<owner, links, list, answers, last, found, moved>>

(***************************************************************************)
(* Writing                                                                 *)
(***************************************************************************)
\* Mutant: the strongest candidate last.
WeakestFirst(todo) ==
  LET calls == {c \in todo : c.key[1] = "CALLS_SERVICE"}
      first == IF calls # {} THEN calls ELSE todo
  IN  {c \in first : \A d \in first : c.confidence <= d.confidence}

\* Calls before messages, the strongest candidate first.
NextToWrite(todo) ==
  LET calls == {c \in todo : c.key[1] = "CALLS_SERVICE"}
      first == IF calls # {} THEN calls ELSE todo
  IN  {c \in first : \A d \in first : c.confidence >= d.confidence}

\* Mutant: services are matched by name alone, as Neo4jWriter does.
MatchedByName(c) == \A n \in Ends(c.key) : owner[n] # None

\* MATCH on (name, repo_id): both services of a call, the one of a message, whose Event node
\* is merged with the edge.
CallMatches(c) == owner[c.key[2]] = c.from /\ owner[c.key[3]] = c.to
MessageMatches(c) == owner[c.key[2]] = c.from
Matched(c) == IF c.key[1] = "CALLS_SERVICE" THEN CallMatches(c) ELSE MessageMatches(c)

Forget(given, k) == Restrict(given, DOMAIN given \ {k})
Put(f, k, value) == [j \in DOMAIN f \cup {k} |-> IF j = k THEN value ELSE f[j]]

\* MERGE keeps one edge between two nodes; SET r += overwrites what it carries. A write
\* whose MATCH finds nothing changes nothing and is counted all the same.
WriteLink(s) ==
  /\ scan[s].at = "write"
  /\ \E c \in NextToWrite(scan[s].todo) :
       /\ scan' = [scan EXCEPT ![s].todo = @ \ {c}, ![s].wrote = @ \cup {c}]
       /\ IF Matched(c)
          THEN /\ links' = Put(links, c.key, [status |-> "unconfirmed", confidence |-> c.confidence])
               /\ answers' = [v \in Lists |-> Forget(answers[v], c.key)]
               /\ last' = Put(last, c.key, s)
               /\ found' = Put(found, c.key, <<c.from, c.to>>)
               /\ moved' = moved \ {c.key}
          ELSE UNCHANGED <<links, answers, last, found, moved>>
  /\ UNCHANGED <<owner, list>>

\* Both counts are printed, or a query failed and the command stopped.
FinishScan(s) ==
  /\ \/ /\ scan[s].at = "write" /\ scan[s].todo = {}
        /\ scan' = [scan EXCEPT ![s].at = "done"]
     \/ /\ scan[s].at \in {"read", "found", "write"}
        /\ scan' = [scan EXCEPT ![s] = [Idle EXCEPT !.at = "failed"]]
  /\ UNCHANGED <<owner, links, list, answers, last, found, moved>>

(***************************************************************************)
(* Reviewing                                                               *)
(***************************************************************************)
\* Unconfirmed links of either end's repository; messages have one repository.
Touches(k, r) == \E n \in Ends(k) : owner[n] = r

FetchUnconfirmed(v) ==
  /\ list' = [list EXCEPT ![v] =
       {k \in DOMAIN links : links[k].status = "unconfirmed" /\ Touches(k, Shows[v])}]
  /\ UNCHANGED <<owner, links, scan, answers, last, found, moved>>

\* Mutant: the link leaves the list whether or not the graph was updated.
RemovedAlways(v, k, stored) == [list EXCEPT ![v] = @ \ {k}]

Removed(v, k, stored) == IF stored THEN [list EXCEPT ![v] = @ \ {k}] ELSE list

\* A button of a listed link: set_status by relationship id, whatever its status is by now.
\* When the graph cannot be reached the list stays as it was.
Resolve(v, k, status) ==
  /\ k \in list[v]
  /\ \E stored \in BOOLEAN :
       /\ list' = Removed(v, k, stored)
       /\ links' = IF stored THEN [links EXCEPT ![k].status = status] ELSE links
       /\ answers' = [w \in Lists |-> IF w = v /\ k \notin list'[v] THEN Put(answers[v], k, status)
                                     ELSE IF stored THEN Forget(answers[w], k) ELSE answers[w]]
  /\ UNCHANGED <<owner, scan, last, found, moved>>

Next ==
  \/ \E r \in Repos : Ingest(r)
  \/ \E s \in Scans : \/ \E p \in Pairs : ReadFirst(s, p[1], p[2])
                      \/ ReadSecond(s)
                      \/ \E min \in MinConfidence : ScanTopics(s, min)
                      \/ WriteLink(s)
                      \/ FinishScan(s)
  \/ \E v \in Lists : \/ FetchUnconfirmed(v)
                      \/ \E k \in list[v], status \in {"confirmed", "rejected"} : Resolve(v, k, status)

Spec == Init /\ [][Next]_vars

(***************************************************************************)
(* Properties                                                              *)
(***************************************************************************)
TypeOK ==
  /\ owner \in [Names -> Repos \cup {None}]
  /\ DOMAIN links \subseteq Keys /\ DOMAIN last = DOMAIN links /\ DOMAIN found = DOMAIN links
  /\ \A k \in DOMAIN links : /\ links[k].status \in {"unconfirmed", "confirmed", "rejected"}
                             /\ links[k].confidence \in {55, 70, 85}
  /\ \A v \in Lists : list[v] \subseteq DOMAIN links /\ DOMAIN answers[v] \subseteq DOMAIN links

\* An edge is between services of the repositories it was found between (service.py:63-66),
\* unless one of the services has been taken over by another repository since.
ShownAsFound ==
  \A k \in DOMAIN links \ moved :
    /\ owner[k[2]] = found[k][1]
    /\ k[1] = "CALLS_SERVICE" => owner[k[3]] = found[k][2]

\* What `link-services --write` counts as written is in the graph, unless a service changed
\* its owner while the command ran.
ReportedIsWritten ==
  \A s \in Scans : \A c \in scan[s].wrote : Exists(c.key) \/ Ends(c.key) \cap scan[s].changed # {}

\* Of several candidates for one pair the graph ends with the weakest, whatever strong
\* evidence (cli.py sorts by falling confidence) the command printed first.
WeakestEvidenceShown ==
  \A s \in Scans : scan[s].at = "done" =>
    \A c \in scan[s].wrote :
      /\ Exists(c.key) /\ last[c.key] = s
      /\ Ends(c.key) \cap scan[s].changed = {}
      => links[c.key].confidence <= c.confidence

\* A link that has left a list was decided, and the decision stands in the graph until a
\* scan writes the link again or somebody else decides it: both happen.
ReviewedLinksAreDecided ==
  \A v \in Lists : \A k \in DOMAIN answers[v] : links[k].status = answers[v][k]
=============================================================================
