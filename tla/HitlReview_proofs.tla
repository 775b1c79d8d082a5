-------------------------- MODULE HitlReview_proofs ---------------------------
(***************************************************************************)
(* What review leaves of the findings, for any names, any room, any list of *)
(* requests and any setting of the processes.                               *)
(***************************************************************************)
EXTENDS HitlReview, SequenceFacts

(***************************************************************************)
(* What a request list makes of the queue                                  *)
(***************************************************************************)
\* The entries with an id, the item a request for it is resolved with, the
\* policy's resolution of one item.
At(s, d) == {i \in 1..Len(s) : s[i].id = d}
Mentioned(reqs, d) == \E j \in DOMAIN reqs : reqs[j].id = d
ItemFor(items, d) == items[IF At(items, d) # {} THEN Max(At(items, d)) ELSE 0]
AutoOne(item) ==
  IF item.kind = "gap_confirmation" THEN Resolution(item.id, "reject", "none")
  ELSE Resolution(item.id, "accept", item.subject)

\* Every item is resolved.  The first resolution of a mentioned one is the
\* answer to the first request about it, the last one to the last; an item
\* nobody mentions has only resolutions of the policy.
SettledAs(items, reqs, out, d) ==
  /\ At(out, d) # {}
  /\ Mentioned(reqs, d) =>
       /\ out[Max(At(out, d))] = BuildOne(ItemFor(items, d), reqs[Max(At(reqs, d))])
       /\ out[Min(At(out, d))] = BuildOne(ItemFor(items, d), reqs[Min(At(reqs, d))])
  /\ ~Mentioned(reqs, d) =>
       \A k \in At(out, d) : \E i \in At(items, d) : out[k] = AutoOne(items[i])
Settled(items, reqs, out) ==
  /\ out \in Seq({out[k] : k \in DOMAIN out})
  /\ \A i \in DOMAIN items : SettledAs(items, reqs, out, items[i].id)

\* The first and the last entry with an id are entries with it.
LEMMA EndsOfAt ==
  ASSUME NEW T, NEW s \in Seq(T), NEW d, At(s, d) # {}
  PROVE  /\ Max(At(s, d)) \in At(s, d) /\ \A j \in At(s, d) : j <= Max(At(s, d))
         /\ Min(At(s, d)) \in At(s, d) /\ \A j \in At(s, d) : Min(At(s, d)) <= j
         /\ At(s, d) \subseteq DOMAIN s /\ At(s, d) \subseteq Nat
<1>1. At(s, d) \subseteq 1..Len(s) /\ Len(s) \in Nat /\ DOMAIN s = 1..Len(s)
  BY DEF At
<1>2. 1..Len(s) \subseteq Nat
  OBVIOUS
<1>. QED
  BY <1>1, <1>2, Extremes

\* The policy settles a queue without requests.
LEMMA PolicySettles ==
  ASSUME NEW T, NEW items \in Seq(T)
  PROVE  Settled(items, <<>>, AutoResolve(items))
<1>. DEFINE out == AutoResolve(items)
<1>1. /\ Len(items) \in Nat /\ DOMAIN items = 1..Len(items)
      /\ out = [i \in 1..Len(items) |-> AutoOne(items[i])]
  BY DEF AutoResolve, AutoOne
<1>. HIDE DEF out
<1>2. DOMAIN out = 1..Len(items) /\ \A i \in 1..Len(items) : out[i] = AutoOne(items[i])
  BY <1>1
<1>3. out \in Seq({out[k] : k \in DOMAIN out}) /\ Len(out) = Len(items)
  BY <1>1, <1>2
<1>4. \A i : AutoOne(items[i]).id = items[i].id
  BY DEF AutoOne, Resolution
<1>5. \A d : At(out, d) = At(items, d)
  BY <1>2, <1>3, <1>4 DEF At
<1>6. ASSUME NEW i \in DOMAIN items PROVE SettledAs(items, <<>>, out, items[i].id)
  <2>1. i \in At(items, items[i].id)
    BY <1>1 DEF At
  <2>2. \A k \in At(items, items[i].id) : out[k] = AutoOne(items[k])
    BY <1>2 DEF At
  <2>3. ~Mentioned(<<>>, items[i].id)
    BY DEF Mentioned
  <2>. QED
    BY <1>5, <2>1, <2>2, <2>3 DEF SettledAs
<1>. QED
  BY <1>3, <1>6 DEF Settled, out

\* The first n resolutions answer requests, the k-th one request p[k], in their
\* order; the others come from the policy.
LaidOut(items, reqs, out, n, p) ==
  /\ n \in Nat
  /\ n <= Len(out)
  /\ \A k \in 1..n : /\ p[k] \in DOMAIN reqs /\ At(items, reqs[p[k]].id) # {}
                     /\ out[k] = BuildOne(ItemFor(items, reqs[p[k]].id), reqs[p[k]])
  /\ \A k, l \in 1..n : k < l => p[k] < p[l]
  /\ \A j \in DOMAIN reqs : At(items, reqs[j].id) # {} => \E k \in 1..n : p[k] = j
  /\ \A k \in DOMAIN out : k > n =>
       \E i \in DOMAIN items : /\ ~Mentioned(reqs, items[i].id)
                               /\ out[k] = AutoOne(items[i])
  /\ \A i \in DOMAIN items : ~Mentioned(reqs, items[i].id) =>
       \E k \in DOMAIN out : k > n /\ out[k] = AutoOne(items[i])

\* build_resolutions answers the requests about queued items in their order,
\* then lets the policy answer for the items without one.
LEMMA ResolutionsLaidOut ==
  ASSUME NEW T, NEW items \in Seq(T), NEW U, NEW reqs \in Seq(U), NEW out,
         out = BuildResolutions(items, reqs)
  PROVE  /\ out \in Seq({out[k] : k \in DOMAIN out})
         /\ \E n, p : LaidOut(items, reqs, out, n, p)
<1>. DEFINE inQueue == {i \in DOMAIN reqs : \E k \in DOMAIN items : items[k].id = reqs[i].id}
            known == Entries(reqs, inQueue)
            covered == {known[i].id : i \in DOMAIN known}
            open == {i \in DOMAIN items : items[i].id \notin covered}
            rest == Entries(items, open)
            built == [i \in DOMAIN known |-> BuildOne(ItemFor(items, known[i].id), known[i])]
            auto == AutoResolve(rest)
            n == Len(known)
<1>1. out = built \o auto
  BY DEF BuildResolutions, SelectLastInSeq, ItemFor, At
<1>2. known \in Seq(U) /\ rest \in Seq(T) /\ inQueue \subseteq DOMAIN reqs /\ open \subseteq DOMAIN items
  BY EntriesInOrder
<1>19. PICK p : InOrder(reqs, inQueue, known, p)
  BY EntriesInOrder
<1>3. /\ p \in [DOMAIN known -> inQueue]
      /\ \A k \in DOMAIN known : known[k] = reqs[p[k]]
      /\ \A k, l \in DOMAIN known : k < l => p[k] < p[l]
      /\ \A i \in inQueue : \E k \in DOMAIN known : p[k] = i
  BY <1>19 DEF InOrder
<1>20. PICK q : InOrder(items, open, rest, q)
  <2>. HIDE DEF open
  <2>. QED
    BY <1>2, EntriesInOrder
<1>4. /\ q \in [DOMAIN rest -> open]
      /\ \A k \in DOMAIN rest : rest[k] = items[q[k]]
      /\ \A i \in open : \E k \in DOMAIN rest : q[k] = i
  <2>. HIDE DEF open, rest
  <2>. QED
    BY <1>20 DEF InOrder
<1>5. \A j \in DOMAIN reqs : j \in inQueue <=> At(items, reqs[j].id) # {}
  BY DEF At
<1>6. \A j \in DOMAIN items : j \in open <=> ~Mentioned(reqs, items[j].id)
  <2>1. ASSUME NEW j \in DOMAIN items, Mentioned(reqs, items[j].id) PROVE items[j].id \in covered
    <3>1. PICK i \in DOMAIN reqs : reqs[i].id = items[j].id
      BY <2>1 DEF Mentioned
    <3>2. i \in inQueue
      BY <3>1
    <3>. HIDE DEF inQueue, known
    <3>3. PICK k \in DOMAIN known : p[k] = i
      BY <1>3, <3>2
    <3>4. known[k].id = items[j].id
      BY <1>3, <3>1, <3>3
    <3>. QED
      BY <3>4
  <2>2. ASSUME NEW j \in DOMAIN items, items[j].id \in covered PROVE Mentioned(reqs, items[j].id)
    <3>. HIDE DEF known
    <3>1. PICK k \in DOMAIN known : known[k].id = items[j].id
      BY <2>2
    <3>2. p[k] \in DOMAIN reqs /\ known[k] = reqs[p[k]]
      BY <1>2, <1>3
    <3>. QED
      BY <3>1, <3>2 DEF Mentioned
  <2>. HIDE DEF covered
  <2>. QED
    BY <2>1, <2>2
<1>7. /\ n \in Nat /\ DOMAIN known = 1..n
      /\ DOMAIN built = 1..n /\ \A k \in 1..n : built[k] = BuildOne(ItemFor(items, known[k].id), known[k])
      /\ built = [k \in 1..n |-> built[k]]
  <2>. HIDE DEF known
  <2>. QED
    BY <1>2
<1>8. /\ Len(rest) \in Nat /\ DOMAIN rest = 1..Len(rest) /\ DOMAIN auto = 1..Len(rest)
      /\ \A k \in 1..Len(rest) : auto[k] = AutoOne(rest[k])
      /\ auto = [k \in 1..Len(rest) |-> auto[k]]
  <2>. HIDE DEF rest
  <2>. QED
    BY <1>2 DEF AutoResolve, AutoOne
<1>. HIDE DEF known, rest, built, auto, inQueue, open, covered, n
<1>. DEFINE V == {built[k] : k \in 1..n} \cup {auto[k] : k \in 1..Len(rest)}
<1>9. built \in Seq(V) /\ auto \in Seq(V) /\ Len(built) = n /\ Len(auto) = Len(rest)
  <2>1. \A k \in 1..n : built[k] \in V
    OBVIOUS
  <2>2. \A k \in 1..Len(rest) : auto[k] \in V
    OBVIOUS
  <2>. HIDE DEF V
  <2>3. built \in Seq(V) /\ Len(built) = n
    BY <1>7, <2>1, Arranged
  <2>4. auto \in Seq(V) /\ Len(auto) = Len(rest)
    BY <1>8, <2>2, Arranged
  <2>. QED
    BY <2>3, <2>4
<1>10. /\ out \in Seq(V) /\ Len(out) = n + Len(rest)
       /\ \A k \in 1..n : out[k] = built[k]
       /\ \A k \in 1..Len(rest) : out[n + k] = auto[k]
  <2>. HIDE DEF V
  <2>. QED
    BY <1>1, <1>7, <1>8, <1>9
<1>11. out \in Seq({out[k] : k \in DOMAIN out})
  <2>. HIDE DEF V
  <2>. QED
    BY <1>10
<1>12. DOMAIN out = 1..(n + Len(rest))
  <2>. HIDE DEF V
  <2>. QED
    BY <1>10
<1>. HIDE DEF V
<1>13. \A k \in 1..n : /\ p[k] \in DOMAIN reqs /\ At(items, reqs[p[k]].id) # {}
                       /\ out[k] = BuildOne(ItemFor(items, reqs[p[k]].id), reqs[p[k]])
  BY <1>2, <1>3, <1>5, <1>7, <1>10
<1>14. \A j \in DOMAIN reqs : At(items, reqs[j].id) # {} => \E k \in 1..n : p[k] = j
  BY <1>3, <1>5, <1>7
<1>15. ASSUME NEW k \in DOMAIN out, k > n
       PROVE  \E i \in DOMAIN items : ~Mentioned(reqs, items[i].id) /\ out[k] = AutoOne(items[i])
  <2>1. k - n \in 1..Len(rest) /\ k = n + (k - n)
    BY <1>7, <1>8, <1>12, <1>15
  <2>2. out[k] = auto[k - n] /\ auto[k - n] = AutoOne(items[q[k - n]])
    BY <1>4, <1>8, <1>10, <2>1
  <2>3. q[k - n] \in DOMAIN items /\ q[k - n] \in open
    BY <1>2, <1>4, <1>8, <2>1
  <2>. QED
    BY <1>6, <2>2, <2>3
<1>16. ASSUME NEW i \in DOMAIN items, ~Mentioned(reqs, items[i].id)
       PROVE  \E k \in DOMAIN out : k > n /\ out[k] = AutoOne(items[i])
  <2>1. PICK k \in DOMAIN rest : q[k] = i
    BY <1>4, <1>6, <1>16
  <2>2. k \in 1..Len(rest) /\ n + k \in DOMAIN out /\ n + k > n
    BY <1>7, <1>8, <1>12
  <2>3. out[n + k] = AutoOne(items[i])
    BY <1>4, <1>8, <1>10, <2>1, <2>2
  <2>. QED
    BY <2>2, <2>3
<1>17. n <= Len(out)
  BY <1>7, <1>8, <1>10
<1>18. \A k, l \in 1..n : k < l => p[k] < p[l]
  BY <1>3, <1>7
<1>21. LaidOut(items, reqs, out, n, p)
  BY <1>7, <1>13, <1>14, <1>15, <1>16, <1>17, <1>18 DEF LaidOut
<1>. QED
  BY <1>11, <1>21

\* A request list settles a queue.
LEMMA RequestsSettle ==
  ASSUME NEW T, NEW items \in Seq(T), NEW U, NEW reqs \in Seq(U)
  PROVE  Settled(items, reqs, BuildResolutions(items, reqs))
<1>. DEFINE out == BuildResolutions(items, reqs)
<1>0. out = BuildResolutions(items, reqs)
  OBVIOUS
<1>. HIDE DEF out
<1>1. out \in Seq({out[k] : k \in DOMAIN out})
  BY <1>0, ResolutionsLaidOut
<1>9. PICK n, p : LaidOut(items, reqs, out, n, p)
  BY <1>0, ResolutionsLaidOut
<1>2. /\ n \in Nat
      /\ n <= Len(out)
      /\ \A k \in 1..n : /\ p[k] \in DOMAIN reqs /\ At(items, reqs[p[k]].id) # {}
                         /\ out[k] = BuildOne(ItemFor(items, reqs[p[k]].id), reqs[p[k]])
      /\ \A k, l \in 1..n : k < l => p[k] < p[l]
      /\ \A j \in DOMAIN reqs : At(items, reqs[j].id) # {} => \E k \in 1..n : p[k] = j
      /\ \A k \in DOMAIN out : k > n =>
           \E i \in DOMAIN items : /\ ~Mentioned(reqs, items[i].id)
                                   /\ out[k] = AutoOne(items[i])
      /\ \A i \in DOMAIN items : ~Mentioned(reqs, items[i].id) =>
           \E k \in DOMAIN out : k > n /\ out[k] = AutoOne(items[i])
  BY <1>9 DEF LaidOut
<1>3. ASSUME NEW item, NEW r PROVE BuildOne(item, r).id = item.id /\ AutoOne(item).id = item.id
  BY DEF BuildOne, AutoOne, Resolution
<1>4. ASSUME NEW d, At(items, d) # {} PROVE ItemFor(items, d).id = d
  <2>1. Max(At(items, d)) \in At(items, d)
    BY <1>4, EndsOfAt
  <2>. QED
    BY <1>4, <2>1 DEF ItemFor, At
<1>5. ASSUME NEW k \in 1..n PROVE out[k].id = reqs[p[k]].id
  <2>1. /\ At(items, reqs[p[k]].id) # {}
        /\ out[k] = BuildOne(ItemFor(items, reqs[p[k]].id), reqs[p[k]])
    BY <1>2
  <2>2. out[k].id = ItemFor(items, reqs[p[k]].id).id
    BY <1>3, <2>1
  <2>. QED
    BY <1>4, <2>1, <2>2
<1>6. DOMAIN out = 1..Len(out) /\ Len(out) \in Nat /\ DOMAIN reqs = 1..Len(reqs) /\ DOMAIN items = 1..Len(items)
  BY <1>1
<1>7. \A k \in DOMAIN out : k \in 1..n \/ k > n
  BY <1>2, <1>6
<1>8. ASSUME NEW i \in DOMAIN items PROVE SettledAs(items, reqs, out, items[i].id)
  <2>. DEFINE d == items[i].id
  <2>0. i \in At(items, d)
    BY <1>6 DEF At
  <2>. HIDE DEF d
  <2>1. CASE Mentioned(reqs, d)
    <3>1. At(reqs, d) # {} /\ At(reqs, d) \subseteq DOMAIN reqs /\ At(reqs, d) \subseteq Nat
      BY <1>6, <2>1 DEF Mentioned, At
    <3>2. \A k \in At(out, d) : k \in 1..n /\ p[k] \in At(reqs, d)
      <4>1. ASSUME NEW k \in At(out, d) PROVE k \in 1..n
        <5>1. k \in DOMAIN out /\ out[k].id = d
          BY <1>6 DEF At
        <5>2. ASSUME k > n PROVE FALSE
          <6>1. PICK j \in DOMAIN items : ~Mentioned(reqs, items[j].id) /\ out[k] = AutoOne(items[j])
            BY <1>2, <5>1, <5>2
          <6>2. items[j].id = d
            BY <1>3, <5>1, <6>1
          <6>. QED
            BY <2>1, <6>1, <6>2
        <5>. QED
          BY <1>7, <5>1, <5>2
      <4>2. ASSUME NEW k \in At(out, d) PROVE p[k] \in At(reqs, d)
        BY <1>2, <1>5, <1>6, <4>1 DEF At
      <4>. QED
        BY <4>1, <4>2
    <3>3. ASSUME NEW j \in At(reqs, d) PROVE \E k \in At(out, d) : p[k] = j
      <4>1. j \in DOMAIN reqs /\ reqs[j].id = d
        BY <1>6 DEF At
      <4>2. PICK k \in 1..n : p[k] = j
        BY <1>2, <2>0, <4>1
      <4>3. k \in 1..Len(out) /\ out[k].id = d
        BY <1>2, <1>5, <1>6, <4>1, <4>2
      <4>. QED
        BY <4>2, <4>3 DEF At
    <3>4. At(out, d) # {}
      BY <3>1, <3>3
    <3>. DEFINE x == Max(At(out, d))
                y == Min(At(out, d))
                a == Max(At(reqs, d))
                b == Min(At(reqs, d))
    <3>5. /\ x \in At(out, d) /\ \A j \in At(out, d) : j <= x
          /\ y \in At(out, d) /\ \A j \in At(out, d) : y <= j
      BY <1>1, <3>4, EndsOfAt
    <3>6. /\ a \in At(reqs, d) /\ \A j \in At(reqs, d) : j <= a
          /\ b \in At(reqs, d) /\ \A j \in At(reqs, d) : b <= j
      BY <3>1, EndsOfAt
    <3>. HIDE DEF x, y, a, b
    <3>7. p[x] = a
      <4>1. PICK k \in At(out, d) : p[k] = a
        BY <3>3, <3>6
      <4>2. k \in 1..n /\ x \in 1..n /\ k <= x /\ p[x] <= a /\ p[x] \in Nat /\ a \in Nat
        BY <3>1, <3>2, <3>5, <3>6
      <4>3. k < x => p[k] < p[x]
        BY <1>2, <4>2
      <4>4. k = x \/ k < x
        BY <1>2, <4>2
      <4>. QED
        BY <4>1, <4>2, <4>3, <4>4
    <3>8. p[y] = b
      <4>1. PICK k \in At(out, d) : p[k] = b
        BY <3>3, <3>6
      <4>2. k \in 1..n /\ y \in 1..n /\ y <= k /\ b <= p[y] /\ p[y] \in Nat /\ b \in Nat
        BY <3>1, <3>2, <3>5, <3>6
      <4>3. y < k => p[y] < p[k]
        BY <1>2, <4>2
      <4>4. k = y \/ y < k
        BY <1>2, <4>2
      <4>. QED
        BY <4>1, <4>2, <4>3, <4>4
    <3>9. reqs[a].id = d /\ reqs[b].id = d /\ x \in 1..n /\ y \in 1..n
      BY <3>2, <3>5, <3>6 DEF At
    <3>10. out[x] = BuildOne(ItemFor(items, d), reqs[a]) /\ out[y] = BuildOne(ItemFor(items, d), reqs[b])
      BY <1>2, <3>7, <3>8, <3>9
    <3>. QED
      BY <2>1, <3>4, <3>10 DEF SettledAs, d, x, y, a, b
  <2>2. CASE ~Mentioned(reqs, d)
    <3>1. PICK k \in DOMAIN out : out[k] = AutoOne(items[i])
      BY <1>2, <2>2 DEF d
    <3>2. k \in At(out, d)
      BY <1>3, <1>6, <3>1 DEF At, d
    <3>3. ASSUME NEW l \in At(out, d) PROVE \E j \in At(items, d) : out[l] = AutoOne(items[j])
      <4>1. l \in DOMAIN out /\ out[l].id = d
        BY <1>6 DEF At
      <4>2. ASSUME l \in 1..n PROVE FALSE
        <5>1. p[l] \in DOMAIN reqs /\ reqs[p[l]].id = d
          BY <1>2, <1>5, <4>1, <4>2
        <5>. QED
          BY <2>2, <5>1 DEF Mentioned
      <4>3. PICK j \in DOMAIN items : out[l] = AutoOne(items[j])
        BY <1>2, <1>7, <4>1, <4>2
      <4>4. j \in At(items, d)
        BY <1>3, <1>6, <4>1, <4>3 DEF At
      <4>. QED
        BY <4>3, <4>4
    <3>. QED
      BY <2>2, <3>2, <3>3 DEF SettledAs, d
  <2>. QED
    BY <2>1, <2>2 DEF d
<1>. QED
  BY <1>1, <1>8 DEF Settled, out

(***************************************************************************)
(* The queue                                                               *)
(***************************************************************************)
Findable == UNION {Finding(l) : l \in Lists}
Items == {GapItem} \cup {LowItem(f) : f \in Findable}

ExtractedOk ==
  /\ extracted = [l \in Lists |-> extracted[l]]
  /\ \A l \in Lists : extracted[l] \in Seq(Finding(l))
  /\ Len(extracted["hld"]) = 1

\* The lists' names.
LEMMA ListNames ==
  /\ Lists = {"capability_clusters", "glossary_terms", "frd_claims", "hld", "security"}
  /\ "domain_a" \notin Lists /\ "hld" \in Lists
  /\ DOMAIN ReviewOrder = 1..5 /\ Len(ReviewOrder) = 5
  /\ \A i \in 1..5 : ReviewOrder[i] \in Lists
  /\ \A l \in Lists : \E i \in 1..5 : ReviewOrder[i] = l
<1>1. /\ DOMAIN ReviewOrder = 1..5 /\ Len(ReviewOrder) = 5
      /\ ReviewOrder[1] = "capability_clusters" /\ ReviewOrder[2] = "glossary_terms"
      /\ ReviewOrder[3] = "frd_claims" /\ ReviewOrder[4] = "hld" /\ ReviewOrder[5] = "security"
  BY DEF ReviewOrder
<1>2. 1..5 = {1, 2, 3, 4, 5}
  OBVIOUS
<1>3. Lists = {ReviewOrder[i] : i \in {1, 2, 3, 4, 5}}
  BY <1>1, <1>2 DEF Lists, ToSet
<1>4. Lists = {"capability_clusters", "glossary_terms", "frd_claims", "hld", "security"}
  BY <1>1, <1>3
<1>. QED
  BY <1>1, <1>2, <1>3, <1>4

\* What the items of findings are, and that no finding's item is the gap's.
LEMMA ItemIds ==
  ASSUME NEW f \in Findable, NEW g \in Findable
  PROVE  /\ LowItem(f).kind = "low_confidence_finding" /\ GapItem.kind = "gap_confirmation"
         /\ LowItem(f).key = NaturalKey(f) /\ LowItem(f).subject = f
         /\ LowItem(f).id # GapItem.id
         /\ LowItem(f).id = LowItem(g).id => NaturalKey(f) = NaturalKey(g)
<1>1. f.kind \in Lists
  BY DEF Findable, Finding
<1>2. LowItem(f).id = <<f.kind, f.key>> /\ LowItem(g).id = <<g.kind, g.key>> /\ GapItem.id = <<"domain_a", "gap">>
  BY DEF LowItem, GapItem
<1>3. LowItem(f).id # GapItem.id
  BY <1>1, <1>2, ListNames
<1>4. f.kind = g.kind /\ f.key = g.key => NaturalKey(f) = NaturalKey(g)
  BY DEF NaturalKey
<1>5. LowItem(f).id = LowItem(g).id => NaturalKey(f) = NaturalKey(g)
  BY <1>2, <1>4
<1>. QED
  BY <1>3, <1>5 DEF LowItem, GapItem

\* The low-confidence findings of a list, item by item.
LEMMA LowItemsOf ==
  ASSUME NEW s \in Seq(Findable)
  PROVE  /\ LowItems(s) \in Seq(Items)
         /\ ToSet(LowItems(s)) = {LowItem(f) : f \in {x \in ToSet(s) : x.low}}
<1>. DEFINE seqs == [i \in DOMAIN s |-> IF s[i].low THEN <<LowItem(s[i])>> ELSE <<>>]
            n == Len(s)
<1>1. n \in Nat /\ DOMAIN s = 1..n /\ DOMAIN seqs = 1..n /\ seqs = [i \in 1..n |-> seqs[i]]
      /\ \A i \in 1..n : s[i] \in Findable
  OBVIOUS
<1>2. \A i \in 1..n : seqs[i] = IF s[i].low THEN <<LowItem(s[i])>> ELSE <<>>
  BY <1>1
<1>3. LowItems(s) = FlattenSeq(seqs)
  BY DEF LowItems
<1>. HIDE DEF seqs, n
<1>4. \A i \in 1..n : LowItem(s[i]) \in Items
  BY <1>1 DEF Items
<1>5. \A x \in Items : <<x>> \in Seq(Items) /\ ToSet(<<x>>) = {x}
  BY DEF ToSet
<1>6. <<>> \in Seq(Items) /\ ToSet(<<>>) = {}
  BY DEF ToSet
<1>7. \A i \in 1..n : seqs[i] \in Seq(Items)
  BY <1>2, <1>4, <1>5, <1>6
<1>8. seqs \in Seq(Seq(Items))
  BY <1>1, <1>7, Arranged
<1>9. /\ FlattenSeq(seqs) \in Seq(Items)
      /\ ToSet(FlattenSeq(seqs)) = UNION {ToSet(seqs[i]) : i \in 1..n}
  BY <1>1, <1>8, FlattenedSet
<1>10. \A i \in 1..n : ToSet(seqs[i]) = IF s[i].low THEN {LowItem(s[i])} ELSE {}
  BY <1>2, <1>4, <1>5, <1>6
<1>11. ToSet(s) = {s[i] : i \in 1..n}
  BY <1>1 DEF ToSet
<1>12. UNION {ToSet(seqs[i]) : i \in 1..n} = {LowItem(f) : f \in {x \in ToSet(s) : x.low}}
  <2>1. ASSUME NEW x, x \in UNION {ToSet(seqs[i]) : i \in 1..n}
        PROVE  x \in {LowItem(f) : f \in {y \in ToSet(s) : y.low}}
    <3>1. PICK i \in 1..n : x \in ToSet(seqs[i])
      BY <2>1
    <3>2. s[i].low /\ x = LowItem(s[i]) /\ s[i] \in ToSet(s)
      BY <1>10, <1>11, <3>1
    <3>. QED
      BY <3>2
  <2>2. ASSUME NEW x, x \in {LowItem(f) : f \in {y \in ToSet(s) : y.low}}
        PROVE  x \in UNION {ToSet(seqs[i]) : i \in 1..n}
    <3>1. PICK i \in 1..n : s[i].low /\ x = LowItem(s[i])
      BY <1>11, <2>2
    <3>2. x \in ToSet(seqs[i])
      BY <1>10, <3>1
    <3>. QED
      BY <3>2
  <2>. QED
    BY <2>1, <2>2
<1>. QED
  BY <1>3, <1>9, <1>12

\* The queue holds the gap, if there is one, and the low-confidence findings.
LEMMA QueueHolds ==
  ASSUME ExtractedOk, NEW g \in BOOLEAN
  PROVE  /\ CollectFlaggedItems(extracted, g) \in Seq(Items)
         /\ ToSet(CollectFlaggedItems(extracted, g)) =
              (IF g THEN {GapItem} ELSE {}) \cup {LowItem(f) : f \in {x \in AllFindings : x.low}}
         /\ AllFindings \subseteq Findable
<1>. DEFINE head == IF g THEN <<GapItem>> ELSE <<>>
            seqs == [i \in DOMAIN ReviewOrder |-> LowItems(extracted[ReviewOrder[i]])]
            Low(S) == {LowItem(f) : f \in {x \in S : x.low}}
<1>1. CollectFlaggedItems(extracted, g) = head \o FlattenSeq(seqs)
  BY DEF CollectFlaggedItems
<1>2. /\ DOMAIN seqs = 1..5 /\ seqs = [i \in 1..5 |-> seqs[i]]
      /\ \A i \in 1..5 : seqs[i] = LowItems(extracted[ReviewOrder[i]])
  BY ListNames
<1>3. head \in Seq(Items) /\ ToSet(head) = IF g THEN {GapItem} ELSE {}
  <2>1. GapItem \in Items
    BY DEF Items
  <2>2. \A x \in Items : <<x>> \in Seq(Items) /\ ToSet(<<x>>) = {x}
    BY DEF ToSet
  <2>3. <<>> \in Seq(Items) /\ ToSet(<<>>) = {}
    BY DEF ToSet
  <2>4. CASE g
    BY <2>1, <2>2, <2>4
  <2>5. CASE ~g
    BY <2>3, <2>5
  <2>. QED
    BY <2>4, <2>5
<1>. HIDE DEF seqs, head
<1>4. \A l \in Lists : extracted[l] \in Seq(Findable)
  <2>1. ASSUME NEW l \in Lists PROVE extracted[l] \in Seq(Findable)
    <3>1. extracted[l] \in Seq(Finding(l)) /\ Finding(l) \subseteq Findable
      BY DEF ExtractedOk, Findable
    <3>. QED
      BY <3>1
  <2>. QED
    BY <2>1
<1>5. \A i \in 1..5 : seqs[i] \in Seq(Items) /\ ToSet(seqs[i]) = Low(ToSet(extracted[ReviewOrder[i]]))
  <2>1. \A l \in Lists : /\ LowItems(extracted[l]) \in Seq(Items)
                         /\ ToSet(LowItems(extracted[l])) = Low(ToSet(extracted[l]))
    BY <1>4, LowItemsOf
  <2>. HIDE DEF Low
  <2>. QED
    BY <1>2, <2>1, ListNames
<1>6. seqs \in Seq(Seq(Items))
  BY <1>2, <1>5, Arranged
<1>7. /\ FlattenSeq(seqs) \in Seq(Items)
      /\ ToSet(FlattenSeq(seqs)) = UNION {ToSet(seqs[i]) : i \in 1..5}
  BY <1>2, <1>6, FlattenedSet
<1>8. UNION {ToSet(seqs[i]) : i \in 1..5} = UNION {Low(ToSet(extracted[l])) : l \in Lists}
  <2>. HIDE DEF Low
  <2>. QED
    BY <1>5, ListNames
<1>9. UNION {Low(ToSet(extracted[l])) : l \in Lists} = Low(AllFindings)
  BY DEF AllFindings
<1>10. AllFindings \subseteq Findable
  <2>1. \A l \in Lists : ToSet(extracted[l]) \subseteq Findable
    BY <1>4 DEF ToSet
  <2>. QED
    BY <2>1 DEF AllFindings
<1>11. /\ head \o FlattenSeq(seqs) \in Seq(Items)
       /\ ToSet(head \o FlattenSeq(seqs)) = ToSet(head) \cup ToSet(FlattenSeq(seqs))
  BY <1>3, <1>7, JoinedSet
<1>. QED
  BY <1>1, <1>3, <1>7, <1>8, <1>9, <1>10, <1>11

(***************************************************************************)
(* The inductive invariant: what each position of the graph has made of    *)
(* what was extracted.                                                     *)
(***************************************************************************)
After == [l \in Lists |-> IF l = "hld" THEN ApplyToDiagram(extracted[l])
                          ELSE ApplyLowConfidenceResolutions(extracted[l])]

HInv ==
  /\ ExtractedOk /\ gap \in BOOLEAN
  /\ phase \in {"collect_flagged_items", "hitl_gate", "apply_hitl_resolutions",
                "write_knowledge_graph", "done"}
  /\ domains = IF Applied THEN After ELSE extracted
  /\ phase # "collect_flagged_items" => flagged = CollectFlaggedItems(extracted, gap)
  /\ IF phase \in {"collect_flagged_items", "hitl_gate"} THEN requests = <<>> /\ resolutions = <<>>
     ELSE requests \in Seq(Requests) /\ Settled(flagged, requests, resolutions)
  /\ phase = "done" => answer = GapAnswer

\* A bounded sequence is a sequence.
LEMMA BoundedIsSeq ==
  ASSUME NEW S, NEW n \in Nat
  PROVE  BoundedSeq(S, n) \subseteq Seq(S)
<1>1. ASSUME NEW s \in BoundedSeq(S, n) PROVE s \in Seq(S)
  <2>1. PICK m \in 0..n : s \in [1..m -> S]
    BY DEF BoundedSeq, SeqOf
  <2>2. m \in Nat
    OBVIOUS
  <2>. QED
    BY <2>1, <2>2
<1>. QED
  BY <1>1

\* The extracted lists are lists of findings.
LEMMA InitHolds == Init => HInv
<1>. SUFFICES ASSUME Init PROVE HInv
  OBVIOUS
<1>1. \A l \in Lists : Extractions(l) \subseteq Seq(Finding(l))
  <2>1. ASSUME NEW l \in Lists PROVE Extractions(l) \subseteq Seq(Finding(l))
    <3>1. Room[l] \in Nat
      BY RoomAssumption
    <3>. QED
      BY <3>1, BoundedIsSeq DEF Extractions
  <2>. QED
    BY <2>1
<1>2. /\ extracted = [l \in Lists |-> extracted[l]]
      /\ \A l \in Lists : extracted[l] \in Extractions(l)
  <2>1. domains \in [capability_clusters : Extractions("capability_clusters"),
                     glossary_terms : Extractions("glossary_terms"),
                     frd_claims : Extractions("frd_claims"),
                     hld : Extractions("hld"),
                     security : Extractions("security")]
    BY DEF Init
  <2>. HIDE DEF Extractions
  <2>2. \A l \in Lists : domains[l] \in Extractions(l)
    BY <2>1, ListNames
  <2>3. domains = [l \in Lists |-> domains[l]]
    BY <2>1, ListNames
  <2>. QED
    BY <2>2, <2>3 DEF Init
<1>3. Len(extracted["hld"]) = 1
  BY <1>2, ListNames DEF Extractions
<1>4. ExtractedOk
  BY <1>1, <1>2, <1>3 DEF ExtractedOk
<1>. QED
  BY <1>4 DEF HInv, Init, Applied

\* What a list becomes and how the gap is answered depend on the queue and the
\* resolutions alone.
LEMMA FoldIsStable ==
  ASSUME UNCHANGED <<flagged, resolutions, extracted>>
  PROVE  After' = After /\ GapAnswer' = GapAnswer
<1>1. GapAnswer' = GapAnswer
  BY DEF GapAnswer, SelectInSeq
<1>2. ASSUME NEW f PROVE Outcome(f)' = Outcome(f)
  BY DEF Outcome, ItemByKey, ResolutionById, SelectLastInSeq
<1>3. After' = After
  BY <1>2 DEF After, ApplyToDiagram, ApplyLowConfidenceResolutions
<1>. QED
  BY <1>1, <1>3

\* HInv is inductive.
LEMMA StepHolds == HInv /\ [Next]_vars => HInv'
<1>. SUFFICES ASSUME HInv, [Next]_vars PROVE HInv'
  OBVIOUS
<1>0. extracted' = extracted /\ gap' = gap /\ ExtractedOk' /\ gap' \in BOOLEAN
  <2>1. extracted' = extracted /\ gap' = gap
    BY DEF Next, Collect, AutoGate, ReviewGate, Apply, WriteGap, vars
  <2>. QED
    BY <2>1 DEF HInv, ExtractedOk
<1>1. CASE Collect
  <2>1. flagged' = CollectFlaggedItems(extracted, gap) /\ domains' = extracted
        /\ requests' = <<>> /\ resolutions' = <<>>
    BY <1>1 DEF Collect, HInv, Applied
  <2>2. flagged' \in Seq(Items)
    BY <2>1, QueueHolds DEF HInv
  <2>3. CollectFlaggedItems(extracted, gap)' = CollectFlaggedItems(extracted, gap)
    BY <1>0 DEF CollectFlaggedItems
  <2>4. CASE flagged' = <<>>
    <3>1. Settled(flagged', <<>>, <<>>) /\ <<>> \in Seq(Requests)
      BY <2>4 DEF Settled
    <3>2. phase' = "apply_hitl_resolutions"
      BY <1>1, <2>4 DEF Collect
    <3>. QED
      BY <1>0, <2>1, <2>3, <3>1, <3>2 DEF HInv, Applied
  <2>5. CASE flagged' # <<>>
    <3>1. phase' = "hitl_gate"
      BY <1>1, <2>5 DEF Collect
    <3>. QED
      BY <1>0, <2>1, <2>3, <3>1 DEF HInv, Applied
  <2>. QED
    BY <2>4, <2>5
<1>2. CASE AutoGate
  <2>1. /\ phase = "hitl_gate" /\ phase' = "apply_hitl_resolutions" /\ domains' = extracted
        /\ flagged' = flagged /\ flagged = CollectFlaggedItems(extracted, gap)
        /\ requests' = <<>> /\ resolutions' = AutoResolve(flagged)
    BY <1>2 DEF AutoGate, HInv, Applied
  <2>2. flagged \in Seq(Items)
    BY <2>1, QueueHolds DEF HInv
  <2>3. CollectFlaggedItems(extracted, gap)' = CollectFlaggedItems(extracted, gap)
    BY <1>0 DEF CollectFlaggedItems
  <2>4. Settled(flagged', requests', resolutions') /\ requests' \in Seq(Requests)
    BY <2>1, <2>2, PolicySettles
  <2>. QED
    BY <1>0, <2>1, <2>3, <2>4 DEF HInv, Applied
<1>3. CASE ReviewGate
  <2>1. /\ phase = "hitl_gate" /\ phase' = "apply_hitl_resolutions" /\ domains' = extracted
        /\ flagged' = flagged /\ flagged = CollectFlaggedItems(extracted, gap)
        /\ requests' \in BoundedSeq(Requests, MaxRequests)
        /\ resolutions' = BuildResolutions(flagged, requests')
    BY <1>3 DEF ReviewGate, HInv, Applied
  <2>2. flagged \in Seq(Items) /\ requests' \in Seq(Requests)
    BY <2>1, QueueHolds, BoundedIsSeq, RoomAssumption DEF HInv
  <2>3. CollectFlaggedItems(extracted, gap)' = CollectFlaggedItems(extracted, gap)
    BY <1>0 DEF CollectFlaggedItems
  <2>4. Settled(flagged', requests', resolutions')
    BY <2>1, <2>2, RequestsSettle
  <2>. QED
    BY <1>0, <2>1, <2>2, <2>3, <2>4 DEF HInv, Applied
<1>4. CASE Apply
  <2>1. /\ phase = "apply_hitl_resolutions" /\ phase' = "write_knowledge_graph"
        /\ UNCHANGED <<flagged, resolutions, extracted, requests>>
        /\ domains' = [l \in Lists |-> IF l = "hld" THEN ApplyToDiagram(domains[l])
                                       ELSE ApplyLowConfidenceResolutions(domains[l])]
    BY <1>4 DEF Apply
  <2>2. domains = extracted
    BY <2>1 DEF HInv, Applied
  <2>3. domains' = After'
    BY <2>1, <2>2, FoldIsStable DEF After
  <2>4. CollectFlaggedItems(extracted, gap)' = CollectFlaggedItems(extracted, gap)
    BY <1>0 DEF CollectFlaggedItems
  <2>. QED
    BY <1>0, <2>1, <2>3, <2>4 DEF HInv, Applied
<1>5. CASE WriteGap
  <2>1. /\ phase = "write_knowledge_graph" /\ phase' = "done" /\ answer' = GapAnswer
        /\ UNCHANGED <<domains, flagged, resolutions, extracted, requests>>
    BY <1>5 DEF WriteGap
  <2>2. After' = After /\ GapAnswer' = GapAnswer
    BY <2>1, FoldIsStable
  <2>3. CollectFlaggedItems(extracted, gap)' = CollectFlaggedItems(extracted, gap)
    BY <1>0 DEF CollectFlaggedItems
  <2>. QED
    BY <1>0, <2>1, <2>2, <2>3 DEF HInv, Applied
<1>6. CASE UNCHANGED vars
  <2>1. After' = After /\ GapAnswer' = GapAnswer
    BY <1>6, FoldIsStable DEF vars
  <2>2. CollectFlaggedItems(extracted, gap)' = CollectFlaggedItems(extracted, gap)
    BY <1>0 DEF CollectFlaggedItems
  <2>. QED
    BY <1>0, <1>6, <2>1, <2>2 DEF HInv, Applied, vars
<1>. QED
  BY <1>1, <1>2, <1>3, <1>4, <1>5, <1>6 DEF Next

\* HInv holds throughout a run.
LEMMA HInvariant == Spec => []HInv
BY InitHolds, StepHolds, PTL DEF Spec

(***************************************************************************)
(* What the pass makes of one finding, and of the lists                    *)
(***************************************************************************)
\* Once the queue is resolved it holds items only, one for the gap if there is
\* one and one for each low-confidence finding.
LEMMA QueueIs ==
  ASSUME HInv, Applied
  PROVE  /\ flagged \in Seq(Items) /\ Settled(flagged, requests, resolutions)
         /\ requests \in Seq(Requests) /\ AllFindings \subseteq Findable
         /\ \A k \in DOMAIN flagged :
              \/ gap /\ flagged[k] = GapItem
              \/ \E f \in AllFindings : f.low /\ flagged[k] = LowItem(f)
         /\ \A f \in AllFindings : f.low => \E k \in DOMAIN flagged : flagged[k] = LowItem(f)
         /\ gap => \E k \in DOMAIN flagged : flagged[k] = GapItem
<1>1. flagged = CollectFlaggedItems(extracted, gap) /\ ExtractedOk /\ gap \in BOOLEAN
      /\ Settled(flagged, requests, resolutions) /\ requests \in Seq(Requests)
  BY DEF HInv, Applied
<1>2. /\ flagged \in Seq(Items) /\ AllFindings \subseteq Findable
      /\ ToSet(flagged) = (IF gap THEN {GapItem} ELSE {}) \cup {LowItem(f) : f \in {x \in AllFindings : x.low}}
  BY <1>1, QueueHolds
<1>3. \A k \in DOMAIN flagged : flagged[k] \in ToSet(flagged)
  BY DEF ToSet
<1>4. \A x \in ToSet(flagged) : \E k \in DOMAIN flagged : flagged[k] = x
  BY DEF ToSet
<1>5. \A x \in ToSet(flagged) : (gap /\ x = GapItem) \/ \E f \in AllFindings : f.low /\ x = LowItem(f)
  BY <1>2
<1>6. /\ \A f \in AllFindings : f.low => LowItem(f) \in ToSet(flagged)
      /\ gap => GapItem \in ToSet(flagged)
  BY <1>2
<1>. QED
  BY <1>1, <1>2, <1>3, <1>4, <1>5, <1>6

\* What the client last said, in terms of positions; the same for what the pass
\* looks up by id.
LEMMA Lookups ==
  ASSUME NEW d
  PROVE  /\ LastWord(d) = IF At(requests, d) = {} \/ Max(At(requests, d)) = 0 THEN "none"
                          ELSE requests[Max(At(requests, d))].action
         /\ ResolutionById(d) = IF At(resolutions, d) # {} THEN Max(At(resolutions, d)) ELSE 0
BY DEF LastWord, ResolutionById, SelectLastInSeq, At

\* A finding whose natural key no low-confidence finding has is kept.  Another
\* one gives way to what its key's item was resolved to: nothing if the client's
\* last word on the item was "reject", and otherwise a finding with the item's id.
LEMMA OutcomeIs ==
  ASSUME HInv, Applied, NEW f \in AllFindings
  PROVE  \/ /\ \A g \in AllFindings : g.low => NaturalKey(g) # NaturalKey(f)
            /\ Outcome(f) = <<f>>
         \/ \E g, h \in AllFindings :
              /\ g.low /\ h.low /\ NaturalKey(g) = NaturalKey(f) /\ LowItem(h).id = LowItem(g).id
              /\ Outcome(f) = IF LastWord(LowItem(g).id) = "reject" THEN <<>> ELSE <<h>>
<1>. DEFINE K == {i \in 1..Len(flagged) : flagged[i].kind = "low_confidence_finding"
                                          /\ flagged[i].key = NaturalKey(f)}
            item == ItemByKey(NaturalKey(f))
<1>1. /\ flagged \in Seq(Items) /\ Settled(flagged, requests, resolutions)
      /\ requests \in Seq(Requests) /\ AllFindings \subseteq Findable
      /\ \A k \in DOMAIN flagged : \/ gap /\ flagged[k] = GapItem
                                   \/ \E g \in AllFindings : g.low /\ flagged[k] = LowItem(g)
      /\ \A g \in AllFindings : g.low => \E k \in DOMAIN flagged : flagged[k] = LowItem(g)
      /\ DOMAIN flagged = 1..Len(flagged) /\ Len(flagged) \in Nat
  BY QueueIs
<1>2. item = IF K # {} THEN Max(K) ELSE 0
  BY DEF ItemByKey, SelectLastInSeq
<1>3. \A g \in AllFindings : LowItem(g).kind = "low_confidence_finding" /\ LowItem(g).key = NaturalKey(g)
  BY <1>1, ItemIds
<1>4. CASE K = {}
  <2>1. item = 0
    BY <1>2, <1>4
  <2>2. ASSUME NEW g \in AllFindings, g.low, NaturalKey(g) = NaturalKey(f) PROVE FALSE
    <3>1. PICK k \in DOMAIN flagged : flagged[k] = LowItem(g)
      BY <1>1, <2>2
    <3>2. k \in K
      BY <1>1, <1>3, <2>2, <3>1
    <3>. QED
      BY <1>4, <3>2
  <2>3. Outcome(f) = <<f>>
    BY <2>1 DEF Outcome
  <2>. QED
    BY <2>2, <2>3
<1>5. CASE K # {}
  <2>1. item \in K
    <3>1. K \subseteq 1..Len(flagged)
      OBVIOUS
    <3>. HIDE DEF K
    <3>. QED
      BY <1>1, <1>2, <1>5, <3>1, Extremes
  <2>2. /\ item \in DOMAIN flagged /\ flagged[item].kind = "low_confidence_finding"
        /\ flagged[item].key = NaturalKey(f)
    BY <1>1, <2>1
  <2>. HIDE DEF K, item
  <2>3. PICK g \in AllFindings : g.low /\ flagged[item] = LowItem(g)
    <3>1. GapItem.kind = "gap_confirmation"
      BY DEF GapItem
    <3>2. flagged[item] # GapItem
      BY <2>2, <3>1
    <3>. QED
      BY <1>1, <2>2, <3>2
  <2>. DEFINE d == LowItem(g).id
              out == resolutions
  <2>4. flagged[item].id = d /\ NaturalKey(g) = NaturalKey(f) /\ item # 0
    BY <1>1, <1>3, <2>2, <2>3
  <2>5. SettledAs(flagged, requests, out, d)
    BY <1>1, <2>2, <2>4 DEF Settled
  <2>6. out \in Seq({out[k] : k \in DOMAIN out}) /\ At(out, d) # {}
    BY <1>1, <2>5 DEF Settled, SettledAs
  <2>. DEFINE x == Max(At(out, d))
  <2>7. x \in At(out, d) /\ x # 0
    <3>1. x \in At(out, d) /\ At(out, d) \subseteq DOMAIN out
      BY <2>6, EndsOfAt
    <3>. QED
      BY <2>6, <3>1
  <2>8. ResolutionById(d) = x
    BY <2>6, Lookups
  <2>9. Outcome(f) = IF resolutions[x].action = "reject" THEN <<>> ELSE <<resolutions[x].value>>
    BY <2>4, <2>7, <2>8 DEF Outcome, item
  <2>. HIDE DEF d
  <2>10. ASSUME NEW k \in At(flagged, d)
         PROVE  \E h \in AllFindings : h.low /\ flagged[k] = LowItem(h) /\ LowItem(h).id = d
    <3>1. k \in DOMAIN flagged /\ flagged[k].id = d
      BY <1>1 DEF At
    <3>2. flagged[k] # GapItem
      BY <1>1, <2>3, <3>1, ItemIds DEF d
    <3>. QED
      BY <1>1, <3>1, <3>2
  <2>11. CASE Mentioned(requests, d)
    <3>. DEFINE r == requests[Max(At(requests, d))]
    <3>1. out[x] = BuildOne(ItemFor(flagged, d), r)
      BY <2>5, <2>11 DEF SettledAs
    <3>2. At(flagged, d) # {} /\ At(requests, d) # {}
      BY <1>1, <2>2, <2>4, <2>11 DEF At, Mentioned
    <3>3. Max(At(flagged, d)) \in At(flagged, d) /\ Max(At(requests, d)) \in At(requests, d)
          /\ At(requests, d) \subseteq DOMAIN requests
      BY <1>1, <3>2, EndsOfAt
    <3>4. PICK h \in AllFindings : h.low /\ ItemFor(flagged, d) = LowItem(h) /\ LowItem(h).id = d
      BY <2>10, <3>2, <3>3 DEF ItemFor
    <3>5. LowItem(h).kind = "low_confidence_finding" /\ LowItem(h).subject = h
      BY <1>1, ItemIds
    <3>6. out[x] = IF r.action = "reject" THEN Resolution(d, "reject", "none")
                   ELSE Resolution(d, "accept", h)
      BY <3>1, <3>4, <3>5 DEF BuildOne
    <3>7. Max(At(requests, d)) # 0
      BY <1>1, <3>3
    <3>8. LastWord(d) = r.action
      BY <3>2, <3>7, Lookups
    <3>. HIDE DEF r, x
    <3>9. Outcome(f) = IF LastWord(d) = "reject" THEN <<>> ELSE <<h>>
      BY <2>9, <3>6, <3>8 DEF Resolution
    <3>. QED
      BY <2>3, <2>4, <3>4, <3>9 DEF d
  <2>12. CASE ~Mentioned(requests, d)
    <3>1. PICK k \in At(flagged, d) : out[x] = AutoOne(flagged[k])
      BY <2>5, <2>7, <2>12 DEF SettledAs
    <3>2. PICK h \in AllFindings : h.low /\ flagged[k] = LowItem(h) /\ LowItem(h).id = d
      BY <2>10
    <3>3. LowItem(h).kind = "low_confidence_finding" /\ LowItem(h).subject = h
      BY <1>1, ItemIds
    <3>4. out[x] = Resolution(d, "accept", h)
      BY <3>1, <3>2, <3>3 DEF AutoOne
    <3>5. At(requests, d) = {}
      BY <1>1, <2>12 DEF At, Mentioned
    <3>6. LastWord(d) = "none"
      BY <3>5, Lookups
    <3>. HIDE DEF x
    <3>7. Outcome(f) = IF LastWord(d) = "reject" THEN <<>> ELSE <<h>>
      BY <2>9, <3>4, <3>6 DEF Resolution
    <3>. QED
      BY <2>3, <2>4, <3>2, <3>7 DEF d
  <2>. QED
    BY <2>11, <2>12
<1>. QED
  BY <1>4, <1>5

\* The list a finding was extracted into.
LEMMA Belongs ==
  ASSUME HInv, NEW l \in Lists
  PROVE  /\ extracted[l] \in Seq(AllFindings) /\ After[l] = IF l = "hld" THEN ApplyToDiagram(extracted[l])
                                                          ELSE ApplyLowConfidenceResolutions(extracted[l])
         /\ \A i \in DOMAIN extracted[l] : extracted[l][i].kind = l
         /\ l = "hld" => Len(extracted[l]) = 1
<1>1. extracted[l] \in Seq(Finding(l)) /\ (l = "hld" => Len(extracted[l]) = 1)
  BY DEF HInv, ExtractedOk
<1>2. \A i \in DOMAIN extracted[l] : extracted[l][i] \in Finding(l) /\ extracted[l][i] \in AllFindings
  BY <1>1 DEF AllFindings, ToSet
<1>3. \A i \in DOMAIN extracted[l] : extracted[l][i].kind = l
  BY <1>2 DEF Finding
<1>4. extracted[l] \in Seq(AllFindings)
  BY <1>1, <1>2
<1>. QED
  BY <1>1, <1>3, <1>4 DEF After

\* The pass joins what it makes of the findings, one after the other.
LEMMA PassIs ==
  ASSUME HInv, Applied, NEW s \in Seq(AllFindings), NEW seqs, seqs = [i \in DOMAIN s |-> Outcome(s[i])]
  PROVE  /\ seqs \in Seq(Seq(AllFindings)) /\ Len(seqs) = Len(s)
         /\ ApplyLowConfidenceResolutions(s) = FlattenSeq(seqs)
         /\ \A i \in DOMAIN s : seqs[i] = Outcome(s[i])
<1>. DEFINE n == Len(s)
<1>1. n \in Nat /\ DOMAIN s = 1..n /\ \A i \in 1..n : s[i] \in AllFindings
  OBVIOUS
<1>2. \A i \in 1..n : seqs[i] = Outcome(s[i])
  BY <1>1
<1>3. seqs = [i \in 1..n |-> seqs[i]]
  BY <1>1
<1>4. \A f \in AllFindings : <<f>> \in Seq(AllFindings)
  OBVIOUS
<1>5. <<>> \in Seq(AllFindings)
  OBVIOUS
<1>. HIDE DEF n
<1>6. \A i \in 1..n : seqs[i] \in Seq(AllFindings)
  <2>1. ASSUME NEW i \in 1..n PROVE Outcome(s[i]) \in Seq(AllFindings)
    BY <1>1, <1>4, <1>5, OutcomeIs
  <2>. QED
    BY <1>2, <2>1
<1>7. seqs \in Seq(Seq(AllFindings)) /\ Len(seqs) = n
  BY <1>1, <1>3, <1>6, Arranged
<1>8. ApplyLowConfidenceResolutions(s) = FlattenSeq(seqs)
  BY DEF ApplyLowConfidenceResolutions
<1>. QED
  BY <1>1, <1>2, <1>7, <1>8 DEF n

\* FlattenSeq of one sequence is that sequence.
LEMMA FlattenOne ==
  ASSUME NEW T, NEW seqs \in Seq(Seq(T)), Len(seqs) = 1
  PROVE  FlattenSeq(seqs) = seqs[1]
<1>. DEFINE n == Len(seqs)
<1>1. DOMAIN seqs = 1..n /\ n \in Nat /\ n = 1
  OBVIOUS
<1>. HIDE DEF n
<1>2. n # 0
  BY <1>1
<1>3. PICK f : /\ f[1] = seqs[1] /\ \A i \in 1..(n - 1) : f[i + 1] = f[i] \o seqs[i + 1]
               /\ FlattenSeq(seqs) = f[n]
  BY <1>1, <1>2, FlattenJoins
<1>. QED
  BY <1>1, <1>3

\* Whatever keys collide, a finding whose natural key no flagged finding has
\* is in its list afterwards (apply_low_confidence_resolutions).
THEOREM UnsharedKept == Spec => []UnsharedKeysUntouched
<1>1. HInv => UnsharedKeysUntouched
  <2>. SUFFICES ASSUME HInv, Applied, NEW f \in AllFindings,
                       \A g \in AllFindings : g.low => NaturalKey(g) # NaturalKey(f)
                PROVE  f \in ToSet(domains[f.kind])
    BY DEF UnsharedKeysUntouched
  <2>1. PICK l \in Lists : f \in ToSet(extracted[l])
    BY DEF AllFindings
  <2>2. PICK i \in DOMAIN extracted[l] : f = extracted[l][i]
    BY <2>1 DEF ToSet
  <2>. DEFINE s == extracted[l]
              seqs == [k \in DOMAIN s |-> Outcome(s[k])]
  <2>3. s \in Seq(AllFindings) /\ f.kind = l /\ (l = "hld" => Len(s) = 1)
    BY <2>2, Belongs
  <2>4. domains[l] = IF l = "hld" THEN ApplyToDiagram(s) ELSE ApplyLowConfidenceResolutions(s)
    BY Belongs DEF HInv
  <2>5. /\ seqs \in Seq(Seq(AllFindings)) /\ Len(seqs) = Len(s)
        /\ ApplyLowConfidenceResolutions(s) = FlattenSeq(seqs) /\ \A k \in DOMAIN s : seqs[k] = Outcome(s[k])
    <3>. HIDE DEF s
    <3>. QED
      BY <2>3, PassIs
  <2>6. Outcome(f) = <<f>>
    BY OutcomeIs
  <2>. HIDE DEF seqs
  <2>7. seqs[i] = <<f>> /\ i \in DOMAIN seqs
    BY <2>2, <2>3, <2>5, <2>6
  <2>8. f \in ToSet(seqs[i])
    BY <2>7 DEF ToSet
  <2>9. f \in ToSet(ApplyLowConfidenceResolutions(s))
    BY <2>5, <2>7, <2>8, FlattenedSet
  <2>10. ApplyLowConfidenceResolutions(s) # <<>>
    BY <2>9 DEF ToSet
  <2>11. f \in ToSet(domains[l])
    BY <2>4, <2>9, <2>10 DEF ApplyToDiagram
  <2>. QED
    BY <2>3, <2>11
<1>. QED
  BY <1>1, HInvariant, PTL

\* The client's last word is a word of a request.
LEMMA LastWordIsSaid ==
  ASSUME HInv, Applied, NEW d
  PROVE  LastWord(d) = "none" \/ \E i \in DOMAIN requests : LastWord(d) = requests[i].action
<1>1. requests \in Seq(Requests)
  BY QueueIs
<1>2. CASE At(requests, d) = {}
  BY <1>2, Lookups
<1>3. CASE At(requests, d) # {}
  <2>1. Max(At(requests, d)) \in DOMAIN requests
    BY <1>1, <1>3, EndsOfAt
  <2>. QED
    BY <1>3, <2>1, Lookups
<1>. QED
  BY <1>2, <1>3

\* Whatever keys collide, a list gets shorter only if a client request said
\* "reject": the policy and the matching by key lose no entry.
THEOREM NothingLostUnasked == Spec => []OnlyRejectionsShorten
<1>1. HInv => OnlyRejectionsShorten
  <2>. SUFFICES ASSUME HInv, Applied, \A i \in DOMAIN requests : requests[i].action = "accept",
                       NEW l \in Lists
                PROVE  Len(domains[l]) = Len(extracted[l])
    BY DEF OnlyRejectionsShorten
  <2>. DEFINE s == extracted[l]
              seqs == [k \in DOMAIN s |-> Outcome(s[k])]
  <2>3. s \in Seq(AllFindings) /\ (l = "hld" => Len(s) = 1)
    BY Belongs
  <2>4. domains[l] = IF l = "hld" THEN ApplyToDiagram(s) ELSE ApplyLowConfidenceResolutions(s)
    BY Belongs DEF HInv
  <2>. HIDE DEF s
  <2>5. /\ seqs \in Seq(Seq(AllFindings)) /\ Len(seqs) = Len(s)
        /\ ApplyLowConfidenceResolutions(s) = FlattenSeq(seqs) /\ \A k \in DOMAIN s : seqs[k] = Outcome(s[k])
    BY <2>3, PassIs
  <2>6. \A d : LastWord(d) # "reject"
    BY LastWordIsSaid
  <2>7. \A f \in AllFindings : Len(Outcome(f)) = 1
    <3>1. ASSUME NEW f \in AllFindings PROVE \E h : Outcome(f) = <<h>>
      BY <2>6, OutcomeIs
    <3>. QED
      BY <3>1
  <2>. HIDE DEF seqs
  <2>8. DOMAIN seqs = DOMAIN s /\ \A i \in DOMAIN s : s[i] \in AllFindings
    BY <2>3, <2>5
  <2>9. \A i \in DOMAIN seqs : Len(seqs[i]) = 1
    BY <2>5, <2>7, <2>8
  <2>10. Len(ApplyLowConfidenceResolutions(s)) = Len(s)
    BY <2>5, <2>9, FlattenedOnes
  <2>11. CASE l = "hld"
    <3>1. ApplyLowConfidenceResolutions(s) # <<>>
      BY <2>3, <2>10, <2>11
    <3>. QED
      BY <2>4, <2>10, <2>11, <3>1 DEF ApplyToDiagram, s
  <2>12. CASE l # "hld"
    BY <2>4, <2>10, <2>12 DEF s
  <2>. QED
    BY <2>11, <2>12
<1>. QED
  BY <1>1, HInvariant, PTL

\* With distinct keys every finding has its own fate: it stays, itself and in
\* its place among the others, unless it was flagged and the client's last word
\* on it was "reject"; the diagram stays whatever was said.
THEOREM EachOnItsOwn == Spec => []EachItemOnItsOwn
<1>1. HInv => EachItemOnItsOwn
  <2>. DEFINE Stays(l, f) == l = "hld" \/ ~f.low \/ LastWord(LowItem(f).id) # "reject"
  <2>. SUFFICES ASSUME HInv, Applied, KeysDistinct, NEW l \in Lists
                PROVE  domains[l] = Entries(extracted[l],
                         {i \in DOMAIN extracted[l] : Stays(l, extracted[l][i])})
    BY DEF EachItemOnItsOwn
  <2>. DEFINE s == extracted[l]
              seqs == [k \in DOMAIN s |-> Outcome(s[k])]
              at == {i \in DOMAIN s : Stays(l, s[i])}
              ones == [i \in DOMAIN s |-> IF i \in at THEN <<s[i]>> ELSE <<>>]
  <2>3. s \in Seq(AllFindings) /\ (l = "hld" => Len(s) = 1)
    BY Belongs
  <2>4. domains[l] = IF l = "hld" THEN ApplyToDiagram(s) ELSE ApplyLowConfidenceResolutions(s)
    BY Belongs DEF HInv
  <2>1. Entries(s, at) = FlattenSeq(ones)
    BY DEF Entries
  <2>2. \A i \in DOMAIN s : ones[i] = IF Stays(l, s[i]) THEN <<s[i]>> ELSE <<>>
    OBVIOUS
  <2>. HIDE DEF s
  <2>5. /\ seqs \in Seq(Seq(AllFindings)) /\ Len(seqs) = Len(s)
        /\ ApplyLowConfidenceResolutions(s) = FlattenSeq(seqs) /\ \A k \in DOMAIN s : seqs[k] = Outcome(s[k])
    BY <2>3, PassIs
  <2>6. ASSUME NEW f \in AllFindings
        PROVE  Outcome(f) = IF f.low /\ LastWord(LowItem(f).id) = "reject" THEN <<>> ELSE <<f>>
    <3>1. CASE \A g \in AllFindings : g.low => NaturalKey(g) # NaturalKey(f)
      <4>1. ~f.low
        BY <3>1
      <4>2. Outcome(f) = <<f>>
        BY <3>1, OutcomeIs
      <4>. QED
        BY <4>1, <4>2
    <3>2. CASE ~\A g \in AllFindings : g.low => NaturalKey(g) # NaturalKey(f)
      <4>1. PICK g \in AllFindings, h \in AllFindings :
              /\ g.low /\ h.low /\ NaturalKey(g) = NaturalKey(f) /\ LowItem(h).id = LowItem(g).id
              /\ Outcome(f) = IF LastWord(LowItem(g).id) = "reject" THEN <<>> ELSE <<h>>
        BY <3>2, OutcomeIs
      <4>2. g = f
        BY <4>1 DEF KeysDistinct
      <4>3. NaturalKey(h) = NaturalKey(g)
        BY <4>1, ItemIds, QueueIs
      <4>4. h = g
        BY <4>3 DEF KeysDistinct
      <4>. QED
        BY <4>1, <4>2, <4>4
    <3>. QED
      BY <3>1, <3>2
  <2>. HIDE DEF Stays
  <2>7. CASE l # "hld"
    <3>1. \A i \in DOMAIN s : seqs[i] = ones[i]
      BY <2>2, <2>3, <2>5, <2>6, <2>7 DEF Stays
    <3>2. seqs = [i \in DOMAIN s |-> seqs[i]] /\ ones = [i \in DOMAIN s |-> ones[i]]
      OBVIOUS
    <3>. HIDE DEF seqs, ones
    <3>3. seqs = ones
      BY <3>1, <3>2
    <3>. QED
      BY <2>1, <2>4, <2>5, <2>7, <3>3 DEF s
  <2>8. CASE l = "hld"
    <3>1. 1 \in DOMAIN s /\ DOMAIN s = 1..1 /\ s[1] \in AllFindings /\ Len(s) = 1
      BY <2>3, <2>8
    <3>2. s = <<s[1]>>
      BY <2>3, <3>1
    <3>3. ones[1] = <<s[1]>> /\ DOMAIN ones = 1..1
      BY <2>2, <2>8, <3>1 DEF Stays
    <3>4. ones = [i \in 1..1 |-> ones[i]] /\ \A i \in 1..1 : ones[i] \in Seq(AllFindings)
      BY <3>1, <3>3
    <3>. HIDE DEF ones, seqs
    <3>5. FlattenSeq(ones) = s
      <4>1. ones \in Seq(Seq(AllFindings)) /\ Len(ones) = 1
        BY <3>4, Arranged
      <4>. QED
        BY <3>2, <3>3, <4>1, FlattenOne
    <3>6. ApplyLowConfidenceResolutions(s) = Outcome(s[1])
      BY <2>5, <3>1, FlattenOne
    <3>7. ApplyToDiagram(s) = s
      <4>1. Outcome(s[1]) = <<>> \/ Outcome(s[1]) = <<s[1]>>
        BY <2>6, <3>1
      <4>. QED
        BY <3>2, <3>6, <4>1 DEF ApplyToDiagram
    <3>. QED
      BY <2>1, <2>4, <2>8, <3>5, <3>7 DEF s
  <2>. QED
    BY <2>7, <2>8
<1>. QED
  BY <1>1, HInvariant, PTL

\* The graph's gap is answered exactly when the run had one and a client
\* accepted it with an answer, in its first request about it
\* (find_gap_resolution, build_resolutions): no other path makes an answer up.
THEOREM GapIsAnsweredByClient == Spec => []GapAnsweredByClient
<1>1. HInv => GapAnsweredByClient
  <2>. SUFFICES ASSUME HInv, phase = "done"
                PROVE  answer = "text" <=>
                         /\ gap
                         /\ LET i == SelectInSeq(requests, LAMBDA r : r.id = GapItem.id)
                            IN  i # 0 /\ requests[i].action = "accept" /\ requests[i].answer = "text"
    BY DEF GapAnsweredByClient
  <2>. DEFINE G == {i \in 1..Len(flagged) : flagged[i].kind = "gap_confirmation"}
              item == IF G # {} THEN Min(G) ELSE 0
              d == GapItem.id
              i == SelectInSeq(requests, LAMBDA r : r.id = GapItem.id)
              res == IF At(resolutions, flagged[item].id) # {} THEN Min(At(resolutions, flagged[item].id)) ELSE 0
  <2>1. Applied /\ answer = GapAnswer
    BY DEF HInv, Applied
  <2>2. GapAnswer = LET x == IF item = 0 THEN 0 ELSE res
                    IN  IF x # 0 /\ resolutions[x].action = "accept" THEN resolutions[x].value ELSE "none"
    BY DEF GapAnswer, SelectInSeq, At
  <2>3. i = IF At(requests, d) # {} THEN Min(At(requests, d)) ELSE 0
    BY DEF SelectInSeq, At
  <2>4. /\ flagged \in Seq(Items) /\ Settled(flagged, requests, resolutions)
        /\ requests \in Seq(Requests) /\ AllFindings \subseteq Findable
        /\ \A k \in DOMAIN flagged : \/ gap /\ flagged[k] = GapItem
                                     \/ \E f \in AllFindings : f.low /\ flagged[k] = LowItem(f)
        /\ gap => \E k \in DOMAIN flagged : flagged[k] = GapItem
        /\ DOMAIN flagged = 1..Len(flagged) /\ Len(flagged) \in Nat
    BY <2>1, QueueIs
  <2>5. \A f \in AllFindings : LowItem(f).kind # "gap_confirmation" /\ LowItem(f).id # d
    <3>1. \A f \in AllFindings : LowItem(f).kind = "low_confidence_finding" /\ LowItem(f).id # GapItem.id
      BY <2>4, ItemIds
    <3>. QED
      BY <3>1
  <2>6. GapItem.kind = "gap_confirmation"
    BY DEF GapItem
  <2>. HIDE DEF i
  <2>7. CASE ~gap
    <3>1. G = {}
      BY <2>4, <2>5, <2>7
    <3>2. GapAnswer = "none"
      BY <2>2, <3>1
    <3>. QED
      BY <2>1, <2>7, <3>2
  <2>8. CASE gap
    <3>1. \A k \in DOMAIN flagged : (k \in G <=> flagged[k] = GapItem)
      BY <2>4, <2>5, <2>6
    <3>2. item \in G /\ item # 0
      <4>1. G # {} /\ G \subseteq 1..Len(flagged)
        BY <2>4, <2>8, <3>1
      <4>. HIDE DEF G
      <4>2. item \in G
        BY <2>4, <4>1, Extremes
      <4>. QED
        BY <2>4, <4>1, <4>2
    <3>3. item \in DOMAIN flagged /\ flagged[item] = GapItem /\ flagged[item].id = d
      BY <2>4, <3>1, <3>2
    <3>. HIDE DEF item, G
    <3>4. SettledAs(flagged, requests, resolutions, d) /\ resolutions \in Seq({resolutions[k] : k \in DOMAIN resolutions})
      BY <2>4, <3>3 DEF Settled
    <3>5. At(resolutions, d) # {} /\ res = Min(At(resolutions, d))
      BY <3>3, <3>4 DEF SettledAs
    <3>6. res \in At(resolutions, d) /\ res # 0
      <4>1. res \in At(resolutions, d) /\ At(resolutions, d) \subseteq DOMAIN resolutions
        BY <3>4, <3>5, EndsOfAt
      <4>. QED
        BY <3>4, <4>1
    <3>. HIDE DEF res, d
    <3>7. GapAnswer = IF resolutions[res].action = "accept" THEN resolutions[res].value ELSE "none"
      BY <2>2, <3>2, <3>6
    <3>8. \A k \in At(flagged, d) : flagged[k] = GapItem
      BY <2>4, <2>5 DEF At
    <3>9. CASE Mentioned(requests, d)
      <4>1. At(flagged, d) # {} /\ At(requests, d) # {}
        BY <2>4, <3>3, <3>9 DEF At, Mentioned
      <4>2. Max(At(flagged, d)) \in At(flagged, d) /\ Min(At(requests, d)) \in At(requests, d)
            /\ At(requests, d) \subseteq DOMAIN requests
        BY <2>4, <4>1, EndsOfAt
      <4>3. ItemFor(flagged, d) = GapItem
        BY <3>8, <4>1, <4>2 DEF ItemFor
      <4>. DEFINE r == requests[i]
      <4>4. i = Min(At(requests, d)) /\ i \in DOMAIN requests /\ i # 0
        BY <2>3, <2>4, <4>1, <4>2
      <4>5. r \in Requests
        BY <2>4, <4>4
      <4>6. resolutions[res] = BuildOne(GapItem, r)
        BY <3>4, <3>5, <3>9, <4>3, <4>4 DEF SettledAs
      <4>7. r.action \in {"accept", "reject"} /\ r.answer \in {"none", "text"}
        BY <4>5 DEF Requests
      <4>. HIDE DEF r
      <4>8. resolutions[res] = IF r.action = "reject" \/ r.answer = "none"
                               THEN Resolution(GapItem.id, "reject", "none")
                               ELSE Resolution(GapItem.id, "accept", r.answer)
        BY <2>6, <4>6 DEF BuildOne
      <4>9. GapAnswer = IF r.action = "reject" \/ r.answer = "none" THEN "none" ELSE r.answer
        BY <3>7, <4>8 DEF Resolution
      <4>. QED
        BY <2>1, <2>8, <4>4, <4>7, <4>9 DEF r, i
    <3>10. CASE ~Mentioned(requests, d)
      <4>1. PICK k \in At(flagged, d) : resolutions[res] = AutoOne(flagged[k])
        BY <3>4, <3>6, <3>10 DEF SettledAs
      <4>2. resolutions[res] = Resolution(GapItem.id, "reject", "none")
        BY <2>6, <3>8, <4>1 DEF AutoOne
      <4>3. GapAnswer = "none"
        BY <3>7, <4>2 DEF Resolution
      <4>4. At(requests, d) = {}
        BY <2>4, <3>10 DEF At, Mentioned
      <4>5. i = 0
        BY <2>3, <4>4
      <4>. QED
        BY <2>1, <4>3, <4>5 DEF i
    <3>. QED
      BY <3>9, <3>10
  <2>. QED
    BY <2>4, <2>7, <2>8 DEF HInv
<1>. QED
  BY <1>1, HInvariant, PTL
=============================================================================
