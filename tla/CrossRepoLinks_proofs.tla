------------------------ MODULE CrossRepoLinks_proofs ------------------------
(***************************************************************************)
(* What links and decisions can be relied on, for any repositories, call    *)
(* sites, ingestions, and any number of scans and review pages.             *)
(***************************************************************************)
EXTENDS CrossRepoLinks, TLAPS

(* ------------------------------- candidates ----------------------------- *)

\* What a scan may find: a call joins two services, a message has one.
Candidate ==
  {c \in [key : Keys, from : Repos, to : Repos, confidence : {55, 70, 85}] :
     c.key[1] = "CALLS_SERVICE" => c.key[3] \in Names}

\* A call candidate joins services of the repositories it was correlated for.
LEMMA CorrelateFinds ==
  ASSUME NEW a \in Repos, NEW b \in Repos, NEW ofA \in SUBSET Names, NEW ofB \in SUBSET Names,
         NEW c \in Correlate(a, ofA, b, ofB)
  PROVE  /\ c \in Candidate /\ c.from = a /\ c.to = b
         /\ c.key[1] = "CALLS_SERVICE" /\ c.key[2] \in ofA /\ c.key[3] \in ofB
<1>1. PICK call \in Calls : call.service \in ofA /\
        c \in {[key |-> <<"CALLS_SERVICE", call.service, t>>, from |-> a, to |-> b,
                confidence |-> Confidence(call)] : t \in Target(call.host, b, ofB)}
  BY DEF Correlate, OutboundCalls
<1>2. PICK t \in Target(call.host, b, ofB) :
        c = [key |-> <<"CALLS_SERVICE", call.service, t>>, from |-> a, to |-> b,
             confidence |-> Confidence(call)]
  BY <1>1
<1>3. t \in ofB
  BY DEF Target
<1>4. Confidence(call) \in {55, 70, 85}
  BY DEF Confidence
<1>5. <<"CALLS_SERVICE", call.service, t>> \in Keys
  BY <1>1, <1>3 DEF Keys, Types
<1>. QED
  BY <1>1, <1>2, <1>3, <1>4, <1>5 DEF Candidate

\* A message candidate belongs to a service of the repository it was found in.
LEMMA FindingsFind ==
  ASSUME NEW r \in Repos, NEW services \in SUBSET Names, NEW c \in Findings(r, services)
  PROVE  c \in Candidate /\ c.from = r /\ c.key[1] # "CALLS_SERVICE" /\ c.key[2] \in services
<1>1. PICK m \in Mentions : m.service \in services /\
        c = [key |-> <<m.type, m.service, NormalizeTopic(m)>>, from |-> r, to |-> r, confidence |-> 70]
  BY DEF Findings, PubSubSignals
<1>2. m.topic \in Topics /\ m.type \in {"PUBLISHES", "CONSUMES"}
  BY LinkAssumption
<1>3. NormalizeTopic(m) \in Topics
  BY <1>2, LinkAssumption DEF NormalizeTopic
<1>4. <<m.type, m.service, NormalizeTopic(m)>> \in Keys
  BY <1>1, <1>2, <1>3 DEF Keys, Types
<1>. QED
  BY <1>1, <1>2, <1>4 DEF Candidate

(* --------------------------------- typing ------------------------------- *)

At == {"idle", "read", "found", "write", "done", "failed"}
ScanType ==
  [at : At, a : Repos \cup {None}, b : Repos \cup {None}, near : SUBSET Names,
   todo : SUBSET Candidate, wrote : SUBSET Candidate, changed : SUBSET Names]

TypeInv ==
  /\ TypeOK
  /\ scan \in [Scans -> ScanType]
  /\ \A s \in Scans : scan[s].at \in {"read", "found", "write"} => scan[s].a \in Repos /\ scan[s].b \in Repos
  /\ \A s \in Scans : scan[s].at \notin {"write", "done"} => scan[s].wrote = {}
  /\ list \in [Lists -> SUBSET Keys]
  /\ DOMAIN answers = Lists
  /\ \A k \in DOMAIN links : k[1] = "CALLS_SERVICE" => k[3] \in Names

\* Typing is kept by every step, with what scans and lists hold.
LEMMA LinksTyped == TypeInv /\ [Next]_vars => TypeInv'
<1>. SUFFICES ASSUME TypeInv, [Next]_vars PROVE TypeInv'
  OBVIOUS
<1>1. ASSUME NEW r \in Repos, Ingest(r) PROVE TypeInv'
  <2>1. owner' \in [Names -> Repos \cup {None}]
    BY <1>1 DEF Ingest, TypeInv, TypeOK
  <2>2. PICK changed \in SUBSET Names :
          scan' = [s \in Scans |-> IF scan[s].at \in {"read", "found", "write"}
                                   THEN [scan[s] EXCEPT !.changed = @ \cup changed] ELSE scan[s]]
    BY <1>1 DEF Ingest
  <2>3. \A s \in Scans :
          /\ scan'[s] \in ScanType /\ scan'[s].at = scan[s].at /\ scan'[s].a = scan[s].a
          /\ scan'[s].b = scan[s].b /\ scan'[s].wrote = scan[s].wrote
    BY <2>2 DEF TypeInv, ScanType
  <2>4. scan' \in [Scans -> ScanType]
    BY <2>2, <2>3
  <2>. QED
    BY <1>1, <2>1, <2>3, <2>4 DEF Ingest, TypeInv, TypeOK
<1>2. ASSUME NEW s \in Scans, NEW p \in Pairs, ReadFirst(s, p[1], p[2]) PROVE TypeInv'
  <2>1. p[1] \in Repos /\ p[2] \in Repos /\ Services(p[1]) \in SUBSET Names
    BY LinkAssumption DEF Services
  <2>2. scan' = [scan EXCEPT ![s] = [Idle EXCEPT !.at = "read", !.a = p[1], !.b = p[2], !.near = Services(p[1])]]
    BY <1>2 DEF ReadFirst
  <2>3. [Idle EXCEPT !.at = "read", !.a = p[1], !.b = p[2], !.near = Services(p[1])] \in ScanType
    BY <2>1 DEF Idle, ScanType, At
  <2>. QED
    BY <1>2, <2>1, <2>2, <2>3 DEF ReadFirst, Idle, TypeInv, TypeOK
<1>3. ASSUME NEW s \in Scans, ReadSecond(s) PROVE TypeInv'
  <2>. DEFINE a == scan[s].a   b == scan[s].b   near == scan[s].near   far == Services(b)
              todo == Correlate(a, near, b, far) \cup Correlate(b, far, a, near)
  <2>1. scan[s].at = "read" /\ scan' = [scan EXCEPT ![s].at = "found", ![s].near = {}, ![s].todo = todo]
    BY <1>3 DEF ReadSecond
  <2>2. a \in Repos /\ b \in Repos /\ near \in SUBSET Names /\ far \in SUBSET Names
    BY <2>1 DEF TypeInv, ScanType, Services
  <2>3. todo \subseteq Candidate
    BY <2>2, CorrelateFinds
  <2>4. scan'[s] \in ScanType /\ scan'[s].at = "found" /\ scan'[s].a = a /\ scan'[s].b = b /\ scan'[s].wrote = {}
    BY <2>1, <2>3 DEF TypeInv, ScanType, At
  <2>. QED
    BY <1>3, <2>1, <2>2, <2>4 DEF ReadSecond, TypeInv, TypeOK
<1>4. ASSUME NEW s \in Scans, NEW min \in MinConfidence, ScanTopics(s, min) PROVE TypeInv'
  <2>. DEFINE topics == UNION {Findings(r, Services(r)) : r \in {scan[s].a, scan[s].b}}
              todo == {c \in scan[s].todo \cup topics : c.confidence >= min}
  <2>1. scan[s].at = "found" /\ scan' = [scan EXCEPT ![s].at = "write", ![s].todo = todo]
    BY <1>4 DEF ScanTopics
  <2>2. \A r \in Repos : Findings(r, Services(r)) \subseteq Candidate
    BY FindingsFind DEF Services
  <2>3. scan[s].a \in Repos /\ scan[s].b \in Repos /\ scan[s].todo \subseteq Candidate
    BY <2>1 DEF TypeInv, ScanType
  <2>4. todo \subseteq Candidate
    BY <2>2, <2>3
  <2>5. scan'[s] \in ScanType /\ scan'[s].at = "write" /\ scan'[s].a = scan[s].a /\ scan'[s].b = scan[s].b
    BY <2>1, <2>4 DEF TypeInv, ScanType, At
  <2>. QED
    BY <1>4, <2>1, <2>3, <2>5 DEF ScanTopics, TypeInv, TypeOK
<1>5. ASSUME NEW s \in Scans, WriteLink(s) PROVE TypeInv'
  <2>1. PICK c \in NextToWrite(scan[s].todo) :
          /\ scan' = [scan EXCEPT ![s].todo = @ \ {c}, ![s].wrote = @ \cup {c}]
          /\ \/ /\ links' = Put(links, c.key, [status |-> "unconfirmed", confidence |-> c.confidence])
                /\ answers' = [v \in Lists |-> Forget(answers[v], c.key)]
                /\ last' = Put(last, c.key, s) /\ found' = Put(found, c.key, <<c.from, c.to>>)
             \/ UNCHANGED <<links, answers, last, found, moved>>
    BY <1>5 DEF WriteLink
  <2>2. scan[s].at = "write" /\ owner' = owner /\ list' = list
    BY <1>5 DEF WriteLink
  <2>3. /\ c \in Candidate /\ c.key \in Keys /\ c.confidence \in {55, 70, 85}
        /\ c.key[1] = "CALLS_SERVICE" => c.key[3] \in Names
    BY <2>1 DEF NextToWrite, TypeInv, ScanType, Candidate
  <2>4. scan'[s] \in ScanType /\ scan'[s].at = "write" /\ scan'[s].a = scan[s].a /\ scan'[s].b = scan[s].b
    <3>1. scan[s] \in ScanType /\ s \in DOMAIN scan
      BY DEF TypeInv
    <3>2. scan'[s] = [scan[s] EXCEPT !.todo = @ \ {c}, !.wrote = @ \cup {c}]
      BY <2>1, <3>1
    <3>3. scan[s].todo \ {c} \in SUBSET Candidate /\ scan[s].wrote \cup {c} \in SUBSET Candidate
      BY <2>3, <3>1 DEF ScanType
    <3>4. scan'[s] \in ScanType
      BY <3>1, <3>2, <3>3 DEF ScanType
    <3>. QED
      BY <2>2, <3>1, <3>2, <3>4 DEF ScanType
  <2>5. /\ scan' \in [Scans -> ScanType] /\ \A t \in Scans \ {s} : scan'[t] = scan[t]
    BY <2>1, <2>4 DEF TypeInv
  <2>6. CASE UNCHANGED <<links, answers, last, found, moved>>
    BY <2>2, <2>4, <2>5, <2>6 DEF TypeInv, TypeOK
  <2>7. CASE /\ links' = Put(links, c.key, [status |-> "unconfirmed", confidence |-> c.confidence])
             /\ answers' = [v \in Lists |-> Forget(answers[v], c.key)]
             /\ last' = Put(last, c.key, s) /\ found' = Put(found, c.key, <<c.from, c.to>>)
    <3>1. /\ DOMAIN links' = DOMAIN links \cup {c.key}
          /\ links'[c.key] = [status |-> "unconfirmed", confidence |-> c.confidence]
          /\ \A j \in DOMAIN links \ {c.key} : links'[j] = links[j]
      BY <2>7 DEF Put
    <3>2. DOMAIN last' = DOMAIN last \cup {c.key} /\ DOMAIN found' = DOMAIN found \cup {c.key}
      BY <2>7 DEF Put
    <3>3. \A v \in Lists : DOMAIN answers'[v] \subseteq DOMAIN answers[v]
      BY <2>7 DEF Forget, Restrict
    <3>4. \A k \in DOMAIN links' : /\ links'[k].status \in {"unconfirmed", "confirmed", "rejected"}
                                   /\ links'[k].confidence \in {55, 70, 85}
      BY <2>3, <3>1 DEF TypeInv, TypeOK
    <3>5. TypeOK'
      BY <2>2, <2>3, <3>1, <3>2, <3>3, <3>4 DEF TypeInv, TypeOK
    <3>. QED
      BY <2>2, <2>3, <2>4, <2>5, <2>7, <3>1, <3>5 DEF TypeInv
  <2>. QED
    BY <2>1, <2>6, <2>7
<1>6. ASSUME NEW s \in Scans, FinishScan(s) PROVE TypeInv'
  <2>1. \/ scan' = [scan EXCEPT ![s].at = "done"] /\ scan[s].at = "write"
        \/ scan' = [scan EXCEPT ![s] = [Idle EXCEPT !.at = "failed"]]
    BY <1>6 DEF FinishScan
  <2>2. [Idle EXCEPT !.at = "failed"] \in ScanType
    BY DEF Idle, ScanType, At
  <2>3. scan'[s] \in ScanType /\ scan'[s].at \in {"done", "failed"} /\ (scan'[s].at = "failed" => scan'[s].wrote = {})
    BY <2>1, <2>2 DEF TypeInv, ScanType, At, Idle
  <2>. QED
    BY <1>6, <2>1, <2>3 DEF FinishScan, TypeInv, TypeOK
<1>7. ASSUME NEW v \in Lists, FetchUnconfirmed(v) PROVE TypeInv'
  BY <1>7 DEF FetchUnconfirmed, TypeInv, TypeOK
<1>8. ASSUME NEW v \in Lists, NEW k \in list[v], NEW status \in {"confirmed", "rejected"}, Resolve(v, k, status)
      PROVE TypeInv'
  <2>1. PICK stored \in BOOLEAN :
          /\ list' = Removed(v, k, stored)
          /\ links' = IF stored THEN [links EXCEPT ![k].status = status] ELSE links
          /\ answers' = [w \in Lists |-> IF w = v /\ k \notin list'[v] THEN Put(answers[v], k, status)
                                        ELSE IF stored THEN Forget(answers[w], k) ELSE answers[w]]
    BY <1>8 DEF Resolve
  <2>2. UNCHANGED <<owner, scan, last, found, moved>> /\ k \in DOMAIN links
    BY <1>8 DEF Resolve, TypeInv, TypeOK
  <2>3. list' \in [Lists -> SUBSET Keys] /\ \A w \in Lists : list'[w] \subseteq list[w]
    BY <2>1 DEF Removed, TypeInv
  <2>4. /\ DOMAIN links' = DOMAIN links
        /\ \A j \in DOMAIN links : /\ links'[j].status \in {"unconfirmed", "confirmed", "rejected"}
                                   /\ links'[j].confidence \in {55, 70, 85}
    BY <2>1, <2>2 DEF TypeInv, TypeOK
  <2>5. \A w \in Lists : DOMAIN answers'[w] \subseteq DOMAIN answers[w] \cup {k}
    BY <2>1 DEF Put, Forget, Restrict
  <2>. QED
    BY <2>1, <2>2, <2>3, <2>4, <2>5 DEF TypeInv, TypeOK
<1>9. CASE UNCHANGED vars
  BY <1>9 DEF vars, TypeInv, TypeOK
<1>. QED
  BY <1>1, <1>2, <1>3, <1>4, <1>5, <1>6, <1>7, <1>8, <1>9 DEF Next

\* Links, lists and answers are well typed, and lists and answers name edges that exist.
THEOREM LinksTypeCorrect == Spec => []TypeOK
<1>1. Init => TypeInv
  BY DEF Init, Idle, TypeInv, TypeOK, ScanType, At
<1>2. TypeInv => TypeOK
  BY DEF TypeInv
<1>. QED
  BY <1>1, <1>2, LinksTyped, PTL DEF Spec

(* -------------------------------- decisions ----------------------------- *)

\* A link that has left a list is decided in the graph as it was answered.
THEOREM DecisionsStand == Spec => []ReviewedLinksAreDecided
<1>1. Init => TypeInv /\ ReviewedLinksAreDecided
  BY DEF Init, Idle, TypeInv, TypeOK, ScanType, At, ReviewedLinksAreDecided
<1>2. TypeInv /\ ReviewedLinksAreDecided /\ [Next]_vars => ReviewedLinksAreDecided'
  <2>. SUFFICES ASSUME TypeInv, ReviewedLinksAreDecided, [Next]_vars PROVE ReviewedLinksAreDecided'
    OBVIOUS
  <2>1. CASE UNCHANGED <<links, answers>>
    BY <2>1 DEF ReviewedLinksAreDecided
  <2>2. ASSUME NEW s \in Scans, WriteLink(s) PROVE ReviewedLinksAreDecided'
    <3>1. PICK c \in NextToWrite(scan[s].todo) :
            \/ /\ links' = Put(links, c.key, [status |-> "unconfirmed", confidence |-> c.confidence])
               /\ answers' = [v \in Lists |-> Forget(answers[v], c.key)]
            \/ UNCHANGED <<links, answers>>
      BY <2>2 DEF WriteLink
    <3>2. CASE /\ links' = Put(links, c.key, [status |-> "unconfirmed", confidence |-> c.confidence])
               /\ answers' = [v \in Lists |-> Forget(answers[v], c.key)]
      <4>1. \A j \in DOMAIN links : j # c.key => links'[j] = links[j]
        BY <3>2 DEF Put
      <4>2. \A v \in Lists : \A j \in DOMAIN answers'[v] :
              j # c.key /\ j \in DOMAIN answers[v] /\ answers'[v][j] = answers[v][j]
        BY <3>2 DEF Forget, Restrict
      <4>. QED
        BY <4>1, <4>2 DEF ReviewedLinksAreDecided, TypeInv, TypeOK
    <3>. QED
      BY <2>1, <3>1, <3>2
  <2>3. ASSUME NEW v \in Lists, NEW k \in list[v], NEW status \in {"confirmed", "rejected"}, Resolve(v, k, status)
        PROVE ReviewedLinksAreDecided'
    <3>1. PICK stored \in BOOLEAN :
            /\ list' = Removed(v, k, stored)
            /\ links' = IF stored THEN [links EXCEPT ![k].status = status] ELSE links
            /\ answers' = [w \in Lists |-> IF w = v /\ k \notin list'[v] THEN Put(answers[v], k, status)
                                          ELSE IF stored THEN Forget(answers[w], k) ELSE answers[w]]
      BY <2>3 DEF Resolve
    <3>2. k \in DOMAIN links
      BY DEF TypeInv, TypeOK
    <3>3. CASE stored
      <4>1. \A j \in DOMAIN links : links'[j].status = IF j = k THEN status ELSE links[j].status
        BY <3>1, <3>2, <3>3 DEF TypeInv, TypeOK
      <4>2. \A w \in Lists : \A j \in DOMAIN answers'[w] :
              \/ j = k /\ answers'[w][j] = status
              \/ j # k /\ j \in DOMAIN answers[w] /\ answers'[w][j] = answers[w][j]
        BY <3>1, <3>3 DEF Put, Forget, Restrict
      <4>. QED
        BY <3>2, <4>1, <4>2 DEF ReviewedLinksAreDecided, TypeInv, TypeOK
    <3>4. CASE ~stored
      <4>1. links' = links /\ \A w \in Lists : answers'[w] = answers[w]
        BY <3>1, <3>4 DEF Removed
      <4>. QED
        BY <4>1 DEF ReviewedLinksAreDecided
    <3>. QED
      BY <3>3, <3>4
  <2>. QED
    BY <2>1, <2>2, <2>3
    DEF Next, vars, Ingest, ReadFirst, ReadSecond, ScanTopics, FinishScan, FetchUnconfirmed
<1>. QED
  BY <1>1, <1>2, LinksTyped, PTL DEF Spec

(* ---------------------------------- edges -------------------------------- *)

\* An edge joins services of the repositories it was found between, until one is taken over.
THEOREM EdgesAsFound == Spec => []ShownAsFound
<1>1. Init => TypeInv /\ ShownAsFound
  BY DEF Init, Idle, TypeInv, TypeOK, ScanType, At, ShownAsFound
<1>2. TypeInv /\ ShownAsFound /\ [Next]_vars => ShownAsFound'
  <2>. SUFFICES ASSUME TypeInv, ShownAsFound, [Next]_vars PROVE ShownAsFound'
    OBVIOUS
  <2>1. CASE UNCHANGED <<owner, found, moved>> /\ DOMAIN links' = DOMAIN links
    BY <2>1 DEF ShownAsFound
  <2>2. ASSUME NEW r \in Repos, Ingest(r) PROVE ShownAsFound'
    <3>. SUFFICES ASSUME NEW k \in DOMAIN links' \ moved'
                  PROVE  /\ owner'[k[2]] = found'[k][1]
                         /\ k[1] = "CALLS_SERVICE" => owner'[k[3]] = found'[k][2]
      BY DEF ShownAsFound
    <3>1. k \in DOMAIN links /\ k \notin moved /\ k \in Keys /\ found' = found
      BY <2>2 DEF Ingest, TypeInv, TypeOK
    <3>2. \A n \in Names : owner'[n] # owner[n] => n \notin Ends(k)
      BY <2>2, <3>1 DEF Ingest
    <3>3. k[2] \in Names /\ (k[1] = "CALLS_SERVICE" => k[3] \in Names)
      BY <3>1 DEF Keys, TypeInv
    <3>. QED
      BY <3>1, <3>2, <3>3 DEF Ends, ShownAsFound
  <2>3. ASSUME NEW s \in Scans, WriteLink(s) PROVE ShownAsFound'
    <3>1. PICK c \in NextToWrite(scan[s].todo) :
            \/ /\ Matched(c) /\ moved' = moved \ {c.key}
               /\ links' = Put(links, c.key, [status |-> "unconfirmed", confidence |-> c.confidence])
               /\ found' = Put(found, c.key, <<c.from, c.to>>)
            \/ UNCHANGED <<links, found, moved>>
      BY <2>3 DEF WriteLink
    <3>2. owner' = owner
      BY <2>3 DEF WriteLink
    <3>. QED
      BY <2>1, <3>1, <3>2
      DEF Put, Matched, CallMatches, MessageMatches, ShownAsFound, TypeInv, TypeOK
  <2>4. ASSUME NEW v \in Lists, NEW k \in list[v], NEW status \in {"confirmed", "rejected"}, Resolve(v, k, status)
        PROVE ShownAsFound'
    BY <2>1, <2>4 DEF Resolve
  <2>. QED
    BY <2>1, <2>2, <2>3, <2>4
    DEF Next, vars, ReadFirst, ReadSecond, ScanTopics, FinishScan, FetchUnconfirmed
<1>. QED
  BY <1>1, <1>2, LinksTyped, PTL DEF Spec

(* --------------------------------- reports ------------------------------- *)

\* What a scan has found holds, but for services whose owner changed since it began.
StillFound(s, c) ==
  /\ owner[c.key[2]] = c.from \/ c.key[2] \in scan[s].changed
  /\ c.key[1] = "CALLS_SERVICE" => owner[c.key[3]] = c.to \/ c.key[3] \in scan[s].changed

Fresh ==
  \A s \in Scans :
    /\ scan[s].at = "read" => \A n \in scan[s].near : owner[n] = scan[s].a \/ n \in scan[s].changed
    /\ scan[s].at \in {"found", "write"} => \A c \in scan[s].todo : StillFound(s, c)

\* The ends of a candidate are services, but for the topic of a message.
LEMMA CandidateEnds ==
  ASSUME NEW c \in Candidate
  PROVE  c.key[2] \in Names /\ (c.key[1] = "CALLS_SERVICE" => c.key[3] \in Names)
BY DEF Candidate, Keys

\* Ingestions record what they take over in the scans that run, so findings stay accounted for.
LEMMA FreshStays == TypeInv /\ Fresh /\ [Next]_vars => Fresh'
<1>. SUFFICES ASSUME TypeInv, Fresh, [Next]_vars PROVE Fresh'
  OBVIOUS
<1>1. CASE UNCHANGED <<owner, scan>>
  BY <1>1 DEF Fresh, StillFound
<1>2. ASSUME NEW r \in Repos, Ingest(r) PROVE Fresh'
  <2>. DEFINE changed == {n \in Names : owner'[n] # owner[n]}
  <2>1. scan' = [s \in Scans |-> IF scan[s].at \in {"read", "found", "write"}
                                THEN [scan[s] EXCEPT !.changed = @ \cup changed] ELSE scan[s]]
    BY <1>2 DEF Ingest
  <2>. SUFFICES ASSUME NEW s \in Scans, scan[s].at \in {"read", "found", "write"}
                PROVE  /\ scan'[s].at = "read" =>
                            \A n \in scan'[s].near : owner'[n] = scan'[s].a \/ n \in scan'[s].changed
                       /\ scan'[s].at \in {"found", "write"} => \A c \in scan'[s].todo : StillFound(s, c)'
    BY <2>1 DEF Fresh
  <2>2. scan'[s].changed = scan[s].changed \cup changed
    BY <2>1 DEF TypeInv, ScanType
  <2>3. scan'[s].at = scan[s].at /\ scan'[s].a = scan[s].a /\ scan'[s].near = scan[s].near /\ scan'[s].todo = scan[s].todo
    BY <2>1 DEF TypeInv, ScanType
  <2>4. scan[s].near \subseteq Names /\ scan[s].todo \subseteq Candidate
    BY DEF TypeInv, ScanType
  <2>. HIDE DEF changed
  <2>5. \A n \in Names : n \in changed \/ owner'[n] = owner[n]
    BY DEF changed
  <2>6. \A c \in scan[s].todo : StillFound(s, c) => StillFound(s, c)'
    BY <2>2, <2>4, <2>5, CandidateEnds DEF StillFound
  <2>. QED
    BY <2>2, <2>3, <2>4, <2>5, <2>6 DEF Fresh
<1>3. ASSUME NEW s \in Scans, NEW p \in Pairs, ReadFirst(s, p[1], p[2]) PROVE Fresh'
  <2>1. /\ owner' = owner /\ \A t \in Scans \ {s} : scan'[t] = scan[t]
        /\ scan'[s].at = "read" /\ scan'[s].a = p[1] /\ scan'[s].near = Services(p[1])
    BY <1>3 DEF ReadFirst, Idle, TypeInv
  <2>. QED
    BY <2>1 DEF Fresh, StillFound, Services
<1>4. ASSUME NEW s \in Scans, ReadSecond(s) PROVE Fresh'
  <2>. DEFINE a == scan[s].a   b == scan[s].b   near == scan[s].near   far == Services(b)
  <2>1. scan[s].at = "read" /\ owner' = owner
    BY <1>4 DEF ReadSecond
  <2>2. /\ \A t \in Scans \ {s} : scan'[t] = scan[t]
        /\ scan'[s].at = "found" /\ scan'[s].changed = scan[s].changed
        /\ scan'[s].todo = Correlate(a, near, b, far) \cup Correlate(b, far, a, near)
    BY <1>4 DEF ReadSecond, TypeInv, ScanType
  <2>3. a \in Repos /\ b \in Repos /\ near \in SUBSET Names /\ far \in SUBSET Names
    BY <2>1 DEF TypeInv, ScanType, Services
  <2>4. \A n \in near : owner[n] = a \/ n \in scan[s].changed
    BY <2>1 DEF Fresh
  <2>5. \A n \in far : owner[n] = b
    BY DEF Services
  <2>6. \A c \in Correlate(a, near, b, far) : StillFound(s, c)'
    BY <2>1, <2>2, <2>3, <2>4, <2>5, CorrelateFinds DEF StillFound
  <2>7. \A c \in Correlate(b, far, a, near) : StillFound(s, c)'
    BY <2>1, <2>2, <2>3, <2>4, <2>5, CorrelateFinds DEF StillFound
  <2>8. \A t \in Scans \ {s} : \A c : StillFound(t, c) => StillFound(t, c)'
    BY <2>1, <2>2 DEF StillFound
  <2>. QED
    BY <2>1, <2>2, <2>6, <2>7, <2>8 DEF Fresh
<1>5. ASSUME NEW s \in Scans, NEW min \in MinConfidence, ScanTopics(s, min) PROVE Fresh'
  <2>. DEFINE topics == UNION {Findings(r, Services(r)) : r \in {scan[s].a, scan[s].b}}
  <2>1. scan[s].at = "found" /\ owner' = owner
    BY <1>5 DEF ScanTopics
  <2>2. /\ \A t \in Scans \ {s} : scan'[t] = scan[t]
        /\ scan'[s].at = "write" /\ scan'[s].changed = scan[s].changed
        /\ scan'[s].todo \subseteq scan[s].todo \cup topics
    BY <1>5 DEF ScanTopics, TypeInv, ScanType
  <2>3. scan[s].a \in Repos /\ scan[s].b \in Repos /\ \A r \in Repos : Services(r) \in SUBSET Names
    BY <2>1 DEF TypeInv, Services
  <2>4. \A c \in topics : StillFound(s, c)'
    <3>. SUFFICES ASSUME NEW r \in Repos, NEW c \in Findings(r, Services(r)) PROVE StillFound(s, c)'
      BY <2>3
    <3>. QED
      BY <2>1, <2>3, FindingsFind DEF StillFound, Services
  <2>5. \A t \in Scans : \A c : StillFound(t, c) => StillFound(t, c)'
    BY <2>1, <2>2 DEF StillFound
  <2>. QED
    BY <2>1, <2>2, <2>4, <2>5 DEF Fresh
<1>6. ASSUME NEW s \in Scans, WriteLink(s) PROVE Fresh'
  <2>1. /\ owner' = owner /\ \A t \in Scans \ {s} : scan'[t] = scan[t]
        /\ scan[s].at = "write" /\ scan'[s].at = "write" /\ scan'[s].changed = scan[s].changed
        /\ scan'[s].todo \subseteq scan[s].todo
    BY <1>6 DEF WriteLink, TypeInv, ScanType
  <2>. QED
    BY <2>1 DEF Fresh, StillFound
<1>7. ASSUME NEW s \in Scans, FinishScan(s) PROVE Fresh'
  <2>1. /\ owner' = owner /\ \A t \in Scans \ {s} : scan'[t] = scan[t]
        /\ scan'[s].at \in {"done", "failed"}
    BY <1>7 DEF FinishScan, Idle, TypeInv, ScanType
  <2>. QED
    BY <2>1 DEF Fresh, StillFound
<1>. QED
  BY <1>1, <1>2, <1>3, <1>4, <1>5, <1>6, <1>7 DEF Next, vars, FetchUnconfirmed, Resolve

\* Only the scan itself adds to what it has written; edges stay, and so does what is known to
\* have changed while anything is written.
LEMMA WrittenGrows ==
  ASSUME TypeInv, [Next]_vars, NEW s \in Scans
  PROVE  /\ DOMAIN links \subseteq DOMAIN links'
         /\ scan'[s].wrote # {} => scan[s].changed \subseteq scan'[s].changed
         /\ WriteLink(s) \/ scan'[s].wrote \subseteq scan[s].wrote
<1>. DEFINE Grows == /\ DOMAIN links \subseteq DOMAIN links'
                     /\ scan'[s].wrote # {} => scan[s].changed \subseteq scan'[s].changed
                     /\ WriteLink(s) \/ scan'[s].wrote \subseteq scan[s].wrote
<1>1. CASE scan' = scan /\ DOMAIN links' = DOMAIN links
  BY <1>1
<1>2. ASSUME NEW r \in Repos, Ingest(r) PROVE Grows
  BY <1>2 DEF Ingest, TypeInv, ScanType
<1>3. ASSUME NEW t \in Scans, NEW p \in Pairs, ReadFirst(t, p[1], p[2]) PROVE Grows
  BY <1>3 DEF ReadFirst, Idle, TypeInv, ScanType
<1>4. ASSUME NEW t \in Scans, ReadSecond(t) PROVE Grows
  BY <1>4 DEF ReadSecond, TypeInv, ScanType
<1>5. ASSUME NEW t \in Scans, NEW min \in MinConfidence, ScanTopics(t, min) PROVE Grows
  BY <1>5 DEF ScanTopics, TypeInv, ScanType
<1>6. ASSUME NEW t \in Scans, WriteLink(t) PROVE Grows
  <2>1. PICK c \in NextToWrite(scan[t].todo) :
          /\ scan' = [scan EXCEPT ![t].todo = @ \ {c}, ![t].wrote = @ \cup {c}]
          /\ links' = links \/ links' = Put(links, c.key, [status |-> "unconfirmed", confidence |-> c.confidence])
    BY <1>6 DEF WriteLink
  <2>2. DOMAIN links \subseteq DOMAIN links'
    BY <2>1 DEF Put
  <2>3. scan'[s].changed = scan[s].changed /\ (t # s => scan'[s] = scan[s])
    BY <2>1 DEF TypeInv, ScanType
  <2>. QED
    BY <1>6, <2>2, <2>3
<1>7. ASSUME NEW t \in Scans, FinishScan(t) PROVE Grows
  BY <1>7 DEF FinishScan, Idle, TypeInv, ScanType
<1>8. ASSUME NEW v \in Lists, NEW k \in list[v], NEW status \in {"confirmed", "rejected"}, Resolve(v, k, status)
      PROVE  Grows
  BY <1>8 DEF Resolve
<1>. QED
  BY <1>1, <1>2, <1>3, <1>4, <1>5, <1>6, <1>7, <1>8 DEF Next, vars, FetchUnconfirmed

\* A write that matches leaves its edge, with its confidence and its scan; one that does not
\* concerns a service that changed hands.
LEMMA WriteMatches ==
  ASSUME TypeInv, Fresh, NEW s \in Scans, WriteLink(s)
  PROVE  \E c \in NextToWrite(scan[s].todo) :
           /\ scan'[s].wrote = scan[s].wrote \cup {c} /\ scan'[s].todo = scan[s].todo \ {c}
           /\ scan'[s].changed = scan[s].changed /\ scan'[s].at = "write"
           /\ \/ /\ links' = Put(links, c.key, [status |-> "unconfirmed", confidence |-> c.confidence])
                 /\ last' = Put(last, c.key, s)
              \/ /\ Ends(c.key) \cap scan[s].changed # {}
                 /\ UNCHANGED <<links, last>>
<1>1. PICK c \in NextToWrite(scan[s].todo) :
        /\ scan' = [scan EXCEPT ![s].todo = @ \ {c}, ![s].wrote = @ \cup {c}]
        /\ \/ /\ links' = Put(links, c.key, [status |-> "unconfirmed", confidence |-> c.confidence])
              /\ last' = Put(last, c.key, s)
           \/ ~Matched(c) /\ UNCHANGED <<links, last>>
  BY DEF WriteLink
<1>2. scan[s].at = "write" /\ c \in scan[s].todo
  BY <1>1 DEF WriteLink, NextToWrite
<1>3. ~Matched(c) => Ends(c.key) \cap scan[s].changed # {}
  BY <1>2 DEF Fresh, StillFound, Matched, CallMatches, MessageMatches, Ends
<1>4. /\ scan'[s].wrote = scan[s].wrote \cup {c} /\ scan'[s].todo = scan[s].todo \ {c}
      /\ scan'[s].changed = scan[s].changed /\ scan'[s].at = scan[s].at
  BY <1>1 DEF TypeInv, ScanType
<1>. QED
  BY <1>1, <1>2, <1>3, <1>4

\* What link-services counts as written is in the graph, but for services that changed hands.
THEOREM CountsAreTrue == Spec => []ReportedIsWritten
<1>1. Init => TypeInv /\ Fresh /\ ReportedIsWritten
  BY DEF Init, Idle, TypeInv, TypeOK, ScanType, At, Fresh, ReportedIsWritten
<1>2. TypeInv /\ Fresh /\ ReportedIsWritten /\ [Next]_vars => ReportedIsWritten'
  <2>. SUFFICES ASSUME TypeInv, Fresh, ReportedIsWritten, [Next]_vars, NEW s \in Scans, NEW c \in scan'[s].wrote
                PROVE  c.key \in DOMAIN links' \/ Ends(c.key) \cap scan'[s].changed # {}
    BY DEF ReportedIsWritten, Ends, Exists
  <2>1. DOMAIN links \subseteq DOMAIN links' /\ scan[s].changed \subseteq scan'[s].changed
    BY WrittenGrows
  <2>2. CASE c \in scan[s].wrote
    BY <2>1, <2>2 DEF ReportedIsWritten, Exists
  <2>3. CASE c \notin scan[s].wrote
    <3>1. WriteLink(s)
      BY <2>3, WrittenGrows
    <3>2. PICK d \in NextToWrite(scan[s].todo) :
            /\ scan'[s].wrote = scan[s].wrote \cup {d} /\ scan'[s].changed = scan[s].changed
            /\ \/ links' = Put(links, d.key, [status |-> "unconfirmed", confidence |-> d.confidence])
               \/ Ends(d.key) \cap scan[s].changed # {}
      BY <3>1, WriteMatches
    <3>3. c = d
      BY <2>3, <3>2
    <3>. QED
      BY <3>2, <3>3 DEF Put
  <2>. QED
    BY <2>2, <2>3
<1>. QED
  BY <1>1, <1>2, LinksTyped, FreshStays, PTL DEF Spec

(* ---------------------------------- order -------------------------------- *)

\* What a scan has still to write is no stronger than what it wrote to the same edge.
Falling ==
  \A s \in Scans : scan[s].at = "write" =>
    \A c \in scan[s].wrote, d \in scan[s].todo : c.key = d.key => d.confidence <= c.confidence

\* The next candidate written is the strongest that is left.
LEMMA FallingStays == TypeInv /\ Fresh /\ Falling /\ [Next]_vars => Falling'
<1>. SUFFICES ASSUME TypeInv, Fresh, Falling, [Next]_vars, NEW s \in Scans, scan'[s].at = "write",
                     NEW c \in scan'[s].wrote, NEW d \in scan'[s].todo, c.key = d.key
              PROVE  d.confidence <= c.confidence
  BY DEF Falling
<1>1. CASE /\ scan'[s].wrote = scan[s].wrote /\ scan'[s].todo = scan[s].todo /\ scan'[s].at = scan[s].at
  BY <1>1 DEF Falling
<1>2. ASSUME NEW r \in Repos, Ingest(r) PROVE d.confidence <= c.confidence
  <2>1. scan'[s].wrote = scan[s].wrote /\ scan'[s].todo = scan[s].todo /\ scan'[s].at = scan[s].at
    BY <1>2 DEF Ingest, TypeInv, ScanType
  <2>. QED
    BY <1>1, <2>1
<1>3. ASSUME NEW t \in Scans, NEW p \in Pairs, ReadFirst(t, p[1], p[2]) PROVE d.confidence <= c.confidence
  BY <1>1, <1>3 DEF ReadFirst, Idle, TypeInv, ScanType
<1>4. ASSUME NEW t \in Scans, ReadSecond(t) PROVE d.confidence <= c.confidence
  BY <1>1, <1>4 DEF ReadSecond, TypeInv, ScanType
<1>5. ASSUME NEW t \in Scans, NEW min \in MinConfidence, ScanTopics(t, min) PROVE d.confidence <= c.confidence
  <2>1. scan[t].wrote = {} /\ scan'[t].wrote = scan[t].wrote /\ (t # s => scan'[s] = scan[s])
    BY <1>5 DEF ScanTopics, TypeInv, ScanType
  <2>. QED
    BY <1>1, <2>1
<1>6. ASSUME NEW t \in Scans, WriteLink(t) PROVE d.confidence <= c.confidence
  <2>1. CASE t # s
    <3>1. scan'[s] = scan[s]
      BY <1>6, <2>1 DEF WriteLink, TypeInv
    <3>. QED
      BY <1>1, <3>1
  <2>2. CASE t = s
    <3>1. PICK e \in NextToWrite(scan[s].todo) :
            scan'[s].wrote = scan[s].wrote \cup {e} /\ scan'[s].todo = scan[s].todo \ {e}
      BY <1>6, <2>2, WriteMatches
    <3>2. d \in scan[s].todo /\ scan[s].at = "write"
      BY <1>6, <2>2, <3>1 DEF WriteLink
    <3>3. CASE c = e
      BY <3>1, <3>2, <3>3 DEF NextToWrite
    <3>4. CASE c # e
      BY <3>1, <3>2, <3>4 DEF Falling
    <3>. QED
      BY <3>3, <3>4
  <2>. QED
    BY <2>1, <2>2
<1>7. ASSUME NEW t \in Scans, FinishScan(t) PROVE d.confidence <= c.confidence
  BY <1>1, <1>7 DEF FinishScan, Idle, TypeInv, ScanType
<1>8. CASE UNCHANGED scan
  BY <1>1, <1>8
<1>. QED
  BY <1>2, <1>3, <1>4, <1>5, <1>6, <1>7, <1>8 DEF Next, vars, FetchUnconfirmed, Resolve

\* At any time, not only when the scan is done.
Weakest ==
  \A s \in Scans : \A c \in scan[s].wrote :
    c.key \in DOMAIN links /\ last[c.key] = s /\ Ends(c.key) \cap scan[s].changed = {}
    => links[c.key].confidence <= c.confidence

\* The last write to an edge is the weakest its scan has made.
LEMMA WeakestStays == TypeInv /\ Fresh /\ Falling /\ Weakest /\ [Next]_vars => Weakest'
<1>. SUFFICES ASSUME TypeInv, Fresh, Falling, Weakest, [Next]_vars, NEW s \in Scans, NEW c \in scan'[s].wrote,
                     c.key \in DOMAIN links', last'[c.key] = s, Ends(c.key) \cap scan'[s].changed = {}
              PROVE  links'[c.key].confidence <= c.confidence
  BY DEF Weakest, Ends
<1>1. Ends(c.key) \cap scan[s].changed = {}
  BY WrittenGrows
<1>2. ASSUME c \in scan[s].wrote, c.key \in DOMAIN links, last[c.key] = s,
             links'[c.key].confidence = links[c.key].confidence
      PROVE  links'[c.key].confidence <= c.confidence
  BY <1>1, <1>2 DEF Weakest
<1>3. CASE WriteLink(s)
  <2>1. PICK d \in NextToWrite(scan[s].todo) :
          /\ scan'[s].wrote = scan[s].wrote \cup {d}
          /\ \/ /\ links' = Put(links, d.key, [status |-> "unconfirmed", confidence |-> d.confidence])
                /\ last' = Put(last, d.key, s)
             \/ Ends(d.key) \cap scan[s].changed # {} /\ UNCHANGED <<links, last>>
    BY <1>3, WriteMatches
  <2>2. CASE c.key = d.key
    <3>1. links'[c.key].confidence = d.confidence
      BY <1>1, <2>1, <2>2 DEF Put
    <3>2. d \in scan[s].todo /\ scan[s].at = "write" /\ d.confidence \in {55, 70, 85}
      BY <1>3, <2>1 DEF WriteLink, NextToWrite, TypeInv, ScanType, Candidate
    <3>. QED
      BY <2>1, <2>2, <3>1, <3>2 DEF Falling
  <2>3. CASE c.key # d.key
    <3>1. /\ c.key \in DOMAIN links /\ links'[c.key] = links[c.key]
          /\ c.key \in DOMAIN last /\ last'[c.key] = last[c.key]
      BY <2>1, <2>3 DEF Put, TypeInv, TypeOK
    <3>. QED
      BY <1>2, <2>1, <2>3, <3>1
  <2>. QED
    BY <2>2, <2>3
<1>4. CASE ~WriteLink(s)
  <2>1. c \in scan[s].wrote
    BY <1>4, WrittenGrows
  <2>2. CASE UNCHANGED <<links, last>>
    BY <1>2, <2>1, <2>2
  <2>3. ASSUME NEW t \in Scans, WriteLink(t) PROVE links'[c.key].confidence <= c.confidence
    <3>1. PICK d \in NextToWrite(scan[t].todo) :
            \/ /\ links' = Put(links, d.key, [status |-> "unconfirmed", confidence |-> d.confidence])
               /\ last' = Put(last, d.key, t)
            \/ UNCHANGED <<links, last>>
      BY <2>3, WriteMatches
    <3>2. CASE /\ links' = Put(links, d.key, [status |-> "unconfirmed", confidence |-> d.confidence])
               /\ last' = Put(last, d.key, t)
      <4>1. c.key # d.key
        BY <1>4, <2>3, <3>2 DEF Put
      <4>2. /\ c.key \in DOMAIN links /\ links'[c.key] = links[c.key]
            /\ c.key \in DOMAIN last /\ last'[c.key] = last[c.key]
        BY <3>2, <4>1 DEF Put, TypeInv, TypeOK
      <4>. QED
        BY <1>2, <2>1, <4>2
    <3>. QED
      BY <2>2, <3>1, <3>2
  <2>4. ASSUME NEW v \in Lists, NEW k \in list[v], NEW status \in {"confirmed", "rejected"}, Resolve(v, k, status)
        PROVE  links'[c.key].confidence <= c.confidence
    <3>1. DOMAIN links' = DOMAIN links /\ last' = last /\ c.key \in DOMAIN links
      BY <2>4 DEF Resolve
    <3>2. links'[c.key].confidence = links[c.key].confidence
      BY <2>4, <3>1 DEF Resolve, TypeInv, TypeOK
    <3>. QED
      BY <1>2, <2>1, <3>1, <3>2
  <2>. QED
    BY <2>2, <2>3, <2>4
    DEF Next, vars, Ingest, ReadFirst, ReadSecond, ScanTopics, FinishScan, FetchUnconfirmed
<1>. QED
  BY <1>3, <1>4

\* An edge ends with the weakest of the candidates a scan had for it.
THEOREM WeakestWins == Spec => []WeakestEvidenceShown
<1>1. Init => TypeInv /\ Fresh /\ Falling /\ Weakest
  BY DEF Init, Idle, TypeInv, TypeOK, ScanType, At, Fresh, Falling, Weakest
<1>2. Weakest => WeakestEvidenceShown
  BY DEF Weakest, WeakestEvidenceShown, Exists
<1>. QED
  BY <1>1, <1>2, LinksTyped, FreshStays, FallingStays, WeakestStays, PTL DEF Spec
=============================================================================
