------------------------ MODULE KnowledgeGraph_proofs ------------------------
(***************************************************************************)
(* What the knowledge graph may be trusted with. First what a run writes,   *)
(* for any repositories, partitions and names; then what the store makes of *)
(* it, for any batches and number of runs, whatever the order of their      *)
(* transactions and failures.                                               *)
(***************************************************************************)
EXTENDS GraphStore, RepositoryGraph, SequenceFacts

(***************************************************************************)
(* Parsing                                                                 *)
(***************************************************************************)
\* A list has places from 1 to its length.
LEMMA Places ==
  ASSUME NEW T, NEW s \in Seq(T)
  PROVE  Len(s) \in Nat /\ DOMAIN s = 1..Len(s) /\ \A i \in 1..Len(s) : s[i] \in T
OBVIOUS

\* What a source file is.
LEMMA SourceIs ==
  ASSUME NEW src, IsSource(src)
  PROVE  /\ Len(src.defs) \in Nat /\ DOMAIN src.defs = 1..Len(src.defs)
         /\ src.mod \in Seq(STRING) /\ src.sites \in Seq(ToSet(src.sites))
         /\ \A i \in DOMAIN src.defs :
              /\ src.defs[i].kind \in {"class", "function", "method"}
              /\ src.defs[i].outer \in 0..(i - 1) /\ src.defs[i].name \in STRING
              /\ src.defs[i].name # NoType /\ (src.defs[i].kind = "class" => src.defs[i].returns = NoType)
<1>1. src.defs \in Seq(ToSet(src.defs))
  BY DEF IsSource
<1>2. Len(src.defs) \in Nat /\ DOMAIN src.defs = 1..Len(src.defs)
  BY <1>1, Places
<1>. QED
  BY <1>2 DEF IsSource

\* Appending keeps a sequence, and what is appended is its last entry.
LEMMA Appended ==
  ASSUME NEW T, NEW s \in Seq(T), NEW x \in T
  PROVE  Append(s, x) \in Seq(T) /\ Append(s, x) # <<>> /\ Last(Append(s, x)) = x
BY DEF Last

\* A qualified name ends with the definition's name.
LEMMA QualifiedNamesEnd ==
  ASSUME NEW src, IsSource(src)
  PROVE  \A i \in DOMAIN src.defs :
           /\ QualifiedNames(src)[i] \in Seq(STRING) /\ QualifiedNames(src)[i] # <<>>
           /\ Last(QualifiedNames(src)[i]) = src.defs[i].name
<1>. DEFINE n == Len(src.defs)
            Of(f, i) == Append(IF src.defs[i].outer = 0 THEN src.mod ELSE f[src.defs[i].outer],
                               src.defs[i].name)
            Named(f, k) == f = [i \in 1..k |-> Of(f, i)]
            S == {k \in Nat : k <= n => \E f : Named(f, k)}
<1>1. /\ n \in Nat /\ DOMAIN src.defs = 1..n
      /\ \A i \in 1..n : src.defs[i].outer \in 0..(i - 1) /\ src.defs[i].name \in STRING
      /\ src.mod \in Seq(STRING)
  BY SourceIs
<1>2. 0 \in S
  <2>1. Named([i \in 1..0 |-> {}], 0)
    OBVIOUS
  <2>. QED
    BY <2>1
<1>3. ASSUME NEW k \in Nat, k \in S PROVE k + 1 \in S
  <2>. SUFFICES ASSUME k + 1 <= n PROVE \E f : Named(f, k + 1)
    <3>. HIDE DEF Named, n
    <3>. QED
      OBVIOUS
  <2>0. \E f : Named(f, k)
    <3>. HIDE DEF Named
    <3>. QED
      BY <1>1, <1>3
  <2>1. PICK f : Named(f, k)
    BY <2>0
  <2>. DEFINE g == [i \in 1..(k + 1) |-> IF i <= k THEN f[i] ELSE Of(f, i)]
  <2>2. \A i \in 1..k : f[i] = Of(f, i)
    <3>. HIDE DEF Of
    <3>. QED
      BY <2>1
  <2>3. \A i \in 1..(k + 1) : g[i] = IF i <= k THEN f[i] ELSE Of(f, i)
    <3>. HIDE DEF Of
    <3>. QED
      OBVIOUS
  <2>4. \A i \in 1..(k + 1) : g[i] = Of(f, i)
    <3>1. \A i \in 1..(k + 1) : (i \in 1..k /\ i <= k) \/ ~(i <= k)
      OBVIOUS
    <3>. HIDE DEF Of, g
    <3>. QED
      BY <2>2, <2>3, <3>1
  <2>5. \A i \in 1..(k + 1) : Of(g, i) = Of(f, i)
    <3>1. \A i \in 1..(k + 1) : src.defs[i].outer = 0 \/ src.defs[i].outer \in 1..k
      <4>1. \A i \in 1..(k + 1) : i \in 1..n
        BY <1>1
      <4>. QED
        BY <1>1, <4>1
    <3>2. \A j \in 1..k : g[j] = f[j]
      <4>. HIDE DEF Of
      <4>. QED
        OBVIOUS
    <3>. HIDE DEF g
    <3>. QED
      BY <3>1, <3>2
  <2>6. g = [i \in 1..(k + 1) |-> g[i]]
    <3>. HIDE DEF Of
    <3>. QED
      OBVIOUS
  <2>7. Named(g, k + 1)
    <3>. HIDE DEF g, Of
    <3>. QED
      BY <2>4, <2>5, <2>6
  <2>. HIDE DEF g, Named
  <2>. QED
    BY <2>7
<1>4. \E f : Named(f, n)
  <2>1. n \in S
    <3>. HIDE DEF S
    <3>1. Nat \subseteq S
      BY <1>2, <1>3, Inductive
    <3>. QED
      BY <1>1, <3>1
  <2>. HIDE DEF Named, n
  <2>. QED
    BY <1>1, <2>1
<1>. DEFINE q == CHOOSE f : Named(f, n)
<1>5. Named(q, n)
  BY <1>4, Zenon
<1>6. QualifiedNames(src) = q
  BY <1>1 DEF QualifiedNames
<1>7. \A i \in 1..n : q[i] = Of(q, i)
  <2>. HIDE DEF q, Of
  <2>. QED
    BY <1>5
<1>. HIDE DEF q, S
<1>. DEFINE R == {k \in Nat : \A i \in 1..n : i <= k => q[i] \in Seq(STRING)}
<1>8. 0 \in R
  OBVIOUS
<1>9. ASSUME NEW k \in Nat, k \in R PROVE k + 1 \in R
  <2>. SUFFICES ASSUME NEW i \in 1..n, i <= k + 1 PROVE q[i] \in Seq(STRING)
    OBVIOUS
  <2>. DEFINE before == IF src.defs[i].outer = 0 THEN src.mod ELSE q[src.defs[i].outer]
  <2>1. before \in Seq(STRING)
    <3>1. CASE src.defs[i].outer = 0
      BY <1>1, <3>1
    <3>2. CASE src.defs[i].outer # 0
      <4>1. src.defs[i].outer \in 1..n /\ src.defs[i].outer <= k
        BY <1>1, <3>2
      <4>. QED
        BY <1>9, <4>1, <3>2
    <3>. QED
      BY <3>1, <3>2
  <2>2. q[i] = Append(before, src.defs[i].name) /\ src.defs[i].name \in STRING
    BY <1>1, <1>7
  <2>. HIDE DEF before
  <2>. QED
    BY <2>1, <2>2
<1>10. n \in R
  <2>. HIDE DEF R
  <2>1. Nat \subseteq R
    BY <1>8, <1>9, Inductive
  <2>. QED
    BY <1>1, <2>1
<1>11. ASSUME NEW i \in 1..n
       PROVE  q[i] \in Seq(STRING) /\ q[i] # <<>> /\ Last(q[i]) = src.defs[i].name
  <2>. DEFINE before == IF src.defs[i].outer = 0 THEN src.mod ELSE q[src.defs[i].outer]
  <2>1. before \in Seq(STRING)
    <3>1. CASE src.defs[i].outer = 0
      BY <1>1, <3>1
    <3>2. CASE src.defs[i].outer # 0
      <4>1. src.defs[i].outer \in 1..n /\ src.defs[i].outer <= n
        BY <1>1, <3>2
      <4>. QED
        BY <1>10, <4>1, <3>2
    <3>. QED
      BY <3>1, <3>2
  <2>2. q[i] = Append(before, src.defs[i].name) /\ src.defs[i].name \in STRING
    BY <1>1, <1>7
  <2>. HIDE DEF before
  <2>. QED
    BY <2>1, <2>2, Appended
<1>. QED
  BY <1>1, <1>6, <1>11


\* The definitions of a file.
IsClass(src, i) == src.defs[i].kind = "class"
SymbolsOf(src) == {Symbol(src, i) : i \in DOMAIN src.defs}

\* What is recorded of a definition.
LEMMA SymbolIs ==
  ASSUME NEW src, IsSource(src), NEW i \in DOMAIN src.defs
  PROVE  /\ Symbol(src, i).qn = QualifiedNames(src)[i] /\ Symbol(src, i).qn # <<>>
         /\ Last(Symbol(src, i).qn) = Symbol(src, i).name
         /\ Symbol(src, i).name # NoType /\ Symbol(src, i).file = src.path
         /\ Symbol(src, i).kind = "class" <=> IsClass(src, i)
         /\ Symbol(src, i).kind = "class" => Symbol(src, i).returns = NoType
<1>. DEFINE parent == IF src.lang = "python" THEN PythonParent(src, i) ELSE GrammarParent(src, i)
<1>1. /\ Symbol(src, i).qn = QualifiedNames(src)[i] /\ Symbol(src, i).name = src.defs[i].name
      /\ Symbol(src, i).kind = Kind(src, i, parent) /\ Symbol(src, i).file = src.path
      /\ Symbol(src, i).returns = IF src.lang = "python" THEN src.defs[i].returns ELSE NoType
  BY DEF Symbol
<1>. HIDE DEF parent
<1>2. /\ src.defs[i].name # NoType /\ src.defs[i].kind \in {"class", "function", "method"}
      /\ src.defs[i].kind = "class" => src.defs[i].returns = NoType
  BY SourceIs
<1>3. Kind(src, i, parent) = "class" <=> IsClass(src, i)
  <2>1. CASE src.defs[i].kind = "class"
    BY <2>1 DEF Kind, IsClass
  <2>2. CASE src.defs[i].kind # "class" /\ src.lang = "python"
    BY <2>2 DEF Kind, IsClass
  <2>3. CASE src.defs[i].kind # "class" /\ src.lang # "python"
    BY <2>3 DEF Kind, IsClass
  <2>. QED
    BY <2>1, <2>2, <2>3
<1>. QED
  BY <1>1, <1>2, <1>3, QualifiedNamesEnd DEF IsClass

\* The places, in order, that satisfy a condition.
PlacesAt(n, at) == Entries([i \in 1..n |-> i], at)

\* PlacesAt lists the places it is given.
LEMMA PlacesAre ==
  ASSUME NEW n \in Nat, NEW at, at \subseteq 1..n
  PROVE  PlacesAt(n, at) \in Seq(1..n) /\ ToSet(PlacesAt(n, at)) = at
<1>. DEFINE s == [i \in 1..n |-> i]
            p == PlacesAt(n, at)
<1>1. s \in Seq(1..n) /\ DOMAIN s = 1..n /\ \A i \in 1..n : s[i] = i
  OBVIOUS
<1>2. p = Entries(s, at)
  BY DEF PlacesAt
<1>. HIDE DEF s, p
<1>3. p \in Seq(1..n) /\ ToSet(p) = {s[i] : i \in at}
  <2>1. s \in Seq(1..n) /\ at \subseteq DOMAIN s
    BY <1>1
  <2>2. /\ Entries(s, at) \in Seq(1..n) /\ ToSet(Entries(s, at)) = {s[i] : i \in at}
    BY <2>1, EntriesSet, Zenon
  <2>. QED
    BY <1>2, <2>2
<1>4. {s[i] : i \in at} = at
  BY <1>1
<1>. QED
  BY <1>3, <1>4 DEF p

\* What is at those places, in a list.
ImageOf(f, at) == {f[i] : i \in at}
Pick(f, n, at) == [k \in DOMAIN PlacesAt(n, at) |-> f[PlacesAt(n, at)[k]]]

\* Pick lists what is at those places.
LEMMA Picked ==
  ASSUME NEW n \in Nat, NEW at, at \subseteq 1..n, NEW V, NEW f, \A i \in 1..n : f[i] \in V
  PROVE  Pick(f, n, at) \in Seq(V) /\ ToSet(Pick(f, n, at)) = ImageOf(f, at)
<1>. DEFINE p == PlacesAt(n, at)
            l == Len(p)
            e == [k \in DOMAIN p |-> f[p[k]]]
<1>1. p \in Seq(1..n) /\ ToSet(p) = at
  BY PlacesAre
<1>. HIDE DEF p
<1>2. l \in Nat /\ DOMAIN p = 1..l /\ \A k \in 1..l : p[k] \in 1..n
  BY <1>1, Places
<1>3. e = [k \in 1..l |-> e[k]] /\ DOMAIN e = 1..l /\ \A k \in 1..l : e[k] = f[p[k]]
  BY <1>2
<1>. HIDE DEF e, l
<1>4. \A k \in 1..l : e[k] \in V
  BY <1>2, <1>3
<1>5. e \in Seq(V)
  BY <1>2, <1>3, <1>4, Arranged
<1>6. ToSet(e) = {f[i] : i \in at}
  <2>1. ToSet(e) = {e[k] : k \in 1..l} /\ at = {p[k] : k \in 1..l}
    BY <1>1, <1>2, <1>3 DEF ToSet
  <2>. QED
    BY <1>3, <2>1
<1>. QED
  BY <1>5, <1>6 DEF e, p, Pick, ImageOf

\* What a parsed file has.
CallsFrom(src) ==
  [caller : {QualifiedNames(src)[i] : i \in {j \in DOMAIN src.defs : ~IsClass(src, j)}},
   callee : {src.sites[k].callee : k \in DOMAIN src.sites}]

\* A function's calls.
LEMMA CallsAre ==
  ASSUME NEW src, IsSource(src), NEW i \in DOMAIN src.defs, ~IsClass(src, i)
  PROVE  CallsOf(src, i) \in Seq(CallsFrom(src))
<1>. DEFINE at == {k \in DOMAIN src.sites : src.sites[k].in # 0 /\ Encloses(src, i, src.sites[k].in)}
            inside == Entries(src.sites, at)
            e == [k \in DOMAIN inside |-> [caller |-> QualifiedNames(src)[i], callee |-> inside[k].callee]]
<1>1. CallsOf(src, i) = e
  BY DEF CallsOf, Having
<1>2. inside \in Seq(ToSet(src.sites))
  <2>1. src.sites \in Seq(ToSet(src.sites)) /\ at \subseteq DOMAIN src.sites
    BY SourceIs
  <2>. HIDE DEF at
  <2>. QED
    BY <2>1, EntriesSet
<1>. HIDE DEF inside
<1>3. /\ Len(inside) \in Nat /\ DOMAIN inside = 1..Len(inside)
      /\ \A k \in 1..Len(inside) : inside[k] \in ToSet(src.sites)
  BY <1>2, Places
<1>4. \A k \in 1..Len(inside) : e[k] \in CallsFrom(src)
  <2>1. ASSUME NEW k \in 1..Len(inside)
        PROVE  \E l \in DOMAIN src.sites : inside[k] = src.sites[l]
    BY <1>3 DEF ToSet
  <2>2. QualifiedNames(src)[i] \in {QualifiedNames(src)[j] : j \in {l \in DOMAIN src.defs : ~IsClass(src, l)}}
    OBVIOUS
  <2>. QED
    BY <1>3, <2>1, <2>2 DEF CallsFrom
<1>5. e = [k \in 1..Len(inside) |-> e[k]]
  BY <1>3
<1>. HIDE DEF e
<1>. QED
  BY <1>1, <1>3, <1>4, <1>5, Arranged

\* A parsed file has the definitions of its source and the calls in its functions.
LEMMA ParsedFile ==
  ASSUME NEW src, IsSource(src)
  PROVE  /\ ParseFile(src).path = src.path /\ ParseFile(src).folder = src.folder
         /\ ParseFile(src).classes \in Seq(SymbolsOf(src))
         /\ ParseFile(src).functions \in Seq(SymbolsOf(src))
         /\ ToSet(ParseFile(src).classes) = {Symbol(src, i) : i \in {j \in DOMAIN src.defs : IsClass(src, j)}}
         /\ ToSet(ParseFile(src).functions) = {Symbol(src, i) : i \in {j \in DOMAIN src.defs : ~IsClass(src, j)}}
         /\ ParseFile(src).calls \in Seq(CallsFrom(src))
<1>. DEFINE n == Len(src.defs)
            f == [i \in 1..n |-> Symbol(src, i)]
            cs == {i \in 1..n : IsClass(src, i)}
            fs == {i \in 1..n : ~IsClass(src, i)}
            classes == PlacesAt(n, cs)
            functions == PlacesAt(n, fs)
            calls == [k \in DOMAIN functions |-> CallsOf(src, functions[k])]
            m == ParseFile(src)
<1>1. n \in Nat /\ DOMAIN src.defs = 1..n
  BY SourceIs
<1>2. /\ m.path = src.path /\ m.folder = src.folder
      /\ m.classes = [k \in DOMAIN classes |-> Symbol(src, classes[k])]
      /\ m.functions = [k \in DOMAIN functions |-> Symbol(src, functions[k])]
      /\ m.calls = FlattenSeq(calls)
  <2>. DEFINE places == [i \in 1..n |-> i]
  <2>1. /\ {i \in DOMAIN places : src.defs[places[i]].kind = "class"} = cs
        /\ {i \in DOMAIN places : ~(src.defs[places[i]].kind = "class")} = fs
    BY DEF IsClass
  <2>2. places = [i \in DOMAIN src.defs |-> i]
    BY <1>1
  <2>. HIDE DEF places, cs, fs
  <2>3. /\ Having(places, LAMBDA i : src.defs[i].kind = "class") = Entries(places, cs)
        /\ Having(places, LAMBDA i : ~(src.defs[i].kind = "class")) = Entries(places, fs)
    BY <2>1 DEF Having
  <2>. QED
    BY <2>2, <2>3 DEF ParseFile, places, PlacesAt
<1>. HIDE DEF m
<1>3. \A i \in 1..n : f[i] \in SymbolsOf(src) /\ f[i] = Symbol(src, i)
  BY <1>1 DEF SymbolsOf
<1>4. /\ classes \in Seq(1..n) /\ functions \in Seq(1..n) /\ ToSet(functions) = fs
      /\ [k \in DOMAIN classes |-> f[classes[k]]] \in Seq(SymbolsOf(src))
      /\ [k \in DOMAIN functions |-> f[functions[k]]] \in Seq(SymbolsOf(src))
      /\ ToSet([k \in DOMAIN classes |-> f[classes[k]]]) = {f[i] : i \in cs}
      /\ ToSet([k \in DOMAIN functions |-> f[functions[k]]]) = {f[i] : i \in fs}
  <2>1. cs \subseteq 1..n /\ fs \subseteq 1..n
    OBVIOUS
  <2>. HIDE DEF cs, fs, f, n
  <2>2. classes \in Seq(1..n) /\ functions \in Seq(1..n) /\ ToSet(functions) = fs
    BY <1>1, <2>1, PlacesAre
  <2>3. \A i \in 1..n : f[i] \in SymbolsOf(src)
    BY <1>3
  <2>4. Pick(f, n, cs) \in Seq(SymbolsOf(src)) /\ ToSet(Pick(f, n, cs)) = ImageOf(f, cs)
    BY <1>1, <2>1, <2>3, Picked
  <2>5. Pick(f, n, fs) \in Seq(SymbolsOf(src)) /\ ToSet(Pick(f, n, fs)) = ImageOf(f, fs)
    BY <1>1, <2>1, <2>3, Picked
  <2>. QED
    BY <2>2, <2>4, <2>5 DEF Pick, ImageOf
<1>. HIDE DEF classes, functions
<1>5. /\ m.classes = [k \in DOMAIN classes |-> f[classes[k]]]
      /\ m.functions = [k \in DOMAIN functions |-> f[functions[k]]]
  <2>1. /\ \A k \in DOMAIN classes : classes[k] \in 1..n
        /\ \A k \in DOMAIN functions : functions[k] \in 1..n
    BY <1>4
  <2>. HIDE DEF f
  <2>. QED
    BY <1>2, <1>3, <2>1
<1>6. m.calls \in Seq(CallsFrom(src))
  <2>1. \A k \in DOMAIN functions : functions[k] \in fs
    BY <1>4 DEF ToSet
  <2>2. Len(functions) \in Nat /\ DOMAIN functions = 1..Len(functions)
    BY <1>4, Places
  <2>3. \A k \in 1..Len(functions) : calls[k] \in Seq(CallsFrom(src))
    BY <1>1, <2>1, <2>2, CallsAre
  <2>4. calls = [k \in 1..Len(functions) |-> calls[k]]
    BY <2>2
  <2>. HIDE DEF calls
  <2>5. calls \in Seq(Seq(CallsFrom(src)))
    BY <2>2, <2>3, <2>4, Arranged
  <2>. QED
    BY <1>2, <2>5, FlattenedSet
<1>7. /\ {f[i] : i \in cs} = {Symbol(src, i) : i \in {j \in DOMAIN src.defs : IsClass(src, j)}}
      /\ {f[i] : i \in fs} = {Symbol(src, i) : i \in {j \in DOMAIN src.defs : ~IsClass(src, j)}}
  <2>. HIDE DEF f
  <2>. QED
    BY <1>1, <1>3
<1>. HIDE DEF f, cs, fs
<1>. QED
  BY <1>2, <1>4, <1>5, <1>6, <1>7 DEF m


(***************************************************************************)
(* Definitions, symbols and calls of a repository                          *)
(***************************************************************************)
DefsOf(r) == UNION {SymbolsOf(r.sources[k]) : k \in DOMAIN r.sources}

\* What a repository and its parsed files are.
LEMMA RepositoryIs ==
  ASSUME NEW r \in Repositories
  PROVE  /\ Len(r.sources) \in Nat /\ DOMAIN r.sources = 1..Len(r.sources)
         /\ \A k \in DOMAIN r.sources : IsSource(r.sources[k]) /\ r.sources[k].path \in r.files
         /\ \A j, k \in DOMAIN r.sources : r.sources[j].path = r.sources[k].path => j = k
         /\ DOMAIN ParsedModules(r) = DOMAIN r.sources
         /\ \A k \in DOMAIN r.sources : ParsedModules(r)[k] = ParseFile(r.sources[k])
         /\ Len(ParsedModules(r)) = Len(r.sources)
<1>1. r.sources \in Seq(ToSet(r.sources))
  BY RepositoryAssumption
<1>2. Len(r.sources) \in Nat /\ DOMAIN r.sources = 1..Len(r.sources)
  BY <1>1, Places
<1>3. /\ \A k \in DOMAIN r.sources : IsSource(r.sources[k]) /\ r.sources[k].path \in r.files
      /\ \A j, k \in DOMAIN r.sources : r.sources[j].path = r.sources[k].path => j = k
  BY RepositoryAssumption
<1>4. /\ DOMAIN ParsedModules(r) = DOMAIN r.sources
      /\ \A k \in DOMAIN r.sources : ParsedModules(r)[k] = ParseFile(r.sources[k])
  BY DEF ParsedModules
<1>5. Len(ParsedModules(r)) = Len(r.sources)
  BY <1>2, <1>4
<1>. QED
  BY <1>2, <1>3, <1>4, <1>5

\* Classes and functions of a file, in either order, are its definitions.
LEMMA DefsOfFile ==
  ASSUME NEW r \in Repositories, NEW k \in DOMAIN r.sources
  PROVE  LET m == ParsedModules(r)[k]
         IN /\ m.classes \o m.functions \in Seq(DefsOf(r))
            /\ m.functions \o m.classes \in Seq(DefsOf(r))
            /\ ToSet(m.classes \o m.functions) = SymbolsOf(r.sources[k])
            /\ ToSet(m.functions \o m.classes) = SymbolsOf(r.sources[k])
            /\ ToSet(m.classes) \cup ToSet(m.functions) = SymbolsOf(r.sources[k])
            /\ m.path = r.sources[k].path
<1>. DEFINE src == r.sources[k]
            m == ParsedModules(r)[k]
            c == m.classes
            f == m.functions
<1>1. IsSource(src) /\ m = ParseFile(src)
  BY RepositoryIs
<1>2. SymbolsOf(src) \subseteq DefsOf(r)
  BY DEF DefsOf
<1>. HIDE DEF src, m
<1>3. /\ c \in Seq(SymbolsOf(src)) /\ f \in Seq(SymbolsOf(src)) /\ m.path = src.path
      /\ ToSet(c) = {Symbol(src, i) : i \in {j \in DOMAIN src.defs : IsClass(src, j)}}
      /\ ToSet(f) = {Symbol(src, i) : i \in {j \in DOMAIN src.defs : ~IsClass(src, j)}}
  BY <1>1, ParsedFile
<1>4. ToSet(c) \cup ToSet(f) = SymbolsOf(src)
  BY <1>3 DEF SymbolsOf
<1>. HIDE DEF c, f
<1>5. c \in Seq(DefsOf(r)) /\ f \in Seq(DefsOf(r))
  BY <1>2, <1>3
<1>6. /\ c \o f \in Seq(DefsOf(r)) /\ ToSet(c \o f) = ToSet(c) \cup ToSet(f)
      /\ f \o c \in Seq(DefsOf(r)) /\ ToSet(f \o c) = ToSet(f) \cup ToSet(c)
  BY <1>5, JoinedSet
<1>7. ToSet(c \o f) = SymbolsOf(src) /\ ToSet(f \o c) = SymbolsOf(src)
  BY <1>4, <1>6
<1>. QED
  BY <1>3, <1>4, <1>6, <1>7 DEF c, f, m, src

\* The lists of all definitions have all definitions, of which there are finitely many.
LEMMA DefsListed ==
  ASSUME NEW r \in Repositories
  PROVE  LET P == ParsedModules(r)
         IN /\ Definitions(P) \in Seq(DefsOf(r)) /\ ToSet(Definitions(P)) = DefsOf(r)
            /\ LLDParser(P) \in Seq(DefsOf(r))
            /\ UNION {ToSet(m.classes \o m.functions) : m \in ToSet(P)} = DefsOf(r)
            /\ IsFiniteSet(DefsOf(r))
<1>. DEFINE P == ParsedModules(r)
            n == Len(r.sources)
            ds == [k \in DOMAIN P |-> P[k].classes \o P[k].functions]
            ls == [k \in DOMAIN P |-> P[k].functions \o P[k].classes]
<1>1. n \in Nat /\ DOMAIN r.sources = 1..n /\ DOMAIN P = 1..n
  BY RepositoryIs
<1>2. \A k \in 1..n : /\ P[k].classes \o P[k].functions \in Seq(DefsOf(r))
                      /\ P[k].functions \o P[k].classes \in Seq(DefsOf(r))
                      /\ ToSet(P[k].classes \o P[k].functions) = SymbolsOf(r.sources[k])
  BY <1>1, DefsOfFile
<1>3. Definitions(P) = FlattenSeq(ds) /\ LLDParser(P) = FlattenSeq(ls)
  BY DEF Definitions, LLDParser
<1>. HIDE DEF P, n
<1>4. /\ ds = [k \in 1..n |-> ds[k]] /\ DOMAIN ds = 1..n
      /\ ls = [k \in 1..n |-> ls[k]]
      /\ \A k \in 1..n : /\ ds[k] \in Seq(DefsOf(r)) /\ ls[k] \in Seq(DefsOf(r))
                         /\ ToSet(ds[k]) = SymbolsOf(r.sources[k])
  BY <1>1, <1>2
<1>. HIDE DEF ds, ls
<1>5. ds \in Seq(Seq(DefsOf(r))) /\ ls \in Seq(Seq(DefsOf(r)))
  BY <1>1, <1>4, Arranged
<1>6. /\ Definitions(P) \in Seq(DefsOf(r)) /\ LLDParser(P) \in Seq(DefsOf(r))
      /\ ToSet(Definitions(P)) = UNION {ToSet(ds[k]) : k \in DOMAIN ds}
  BY <1>3, <1>5, FlattenedSet
<1>7. DefsOf(r) = UNION {ToSet(ds[k]) : k \in DOMAIN ds}
  BY <1>1, <1>4 DEF DefsOf
<1>8. UNION {ToSet(m.classes \o m.functions) : m \in ToSet(P)} = DefsOf(r)
  <2>1. ToSet(P) = {P[k] : k \in 1..n}
    BY <1>1 DEF ToSet
  <2>2. ASSUME NEW x \in DefsOf(r)
        PROVE  \E m \in ToSet(P) : x \in ToSet(m.classes \o m.functions)
    BY <1>1, <1>2, <2>1 DEF DefsOf
  <2>3. ASSUME NEW m \in ToSet(P), NEW x \in ToSet(m.classes \o m.functions)
        PROVE  x \in DefsOf(r)
    <3>1. PICK k \in 1..n : m = P[k]
      BY <2>1
    <3>. QED
      BY <1>1, <1>2, <2>3, <3>1 DEF DefsOf
  <2>. QED
    BY <2>2, <2>3
<1>9. IsFiniteSet(DefsOf(r))
  <2>. DEFINE s == Definitions(P)
              l == Len(s)
  <2>1. s \in Seq(DefsOf(r)) /\ ToSet(s) = DefsOf(r)
    BY <1>6, <1>7
  <2>. HIDE DEF s
  <2>2. l \in Nat /\ DOMAIN s = 1..l /\ s = [i \in 1..l |-> s[i]]
    BY <2>1
  <2>3. DefsOf(r) = {s[i] : i \in 1..l}
    BY <2>1, <2>2 DEF ToSet
  <2>. HIDE DEF l
  <2>. QED
    BY <2>2, <2>3, ImageFinite
<1>. QED
  BY <1>6, <1>7, <1>8, <1>9 DEF P

\* The files' definitions and their names.
LEMMA DefIs ==
  ASSUME NEW r \in Repositories, NEW e \in DefsOf(r)
  PROVE  /\ e.qn # NoName /\ Last(e.qn) = e.name /\ e.name # NoType /\ e.file \in r.files
         /\ e.kind = "class" => e.returns = NoType
         /\ \E k \in DOMAIN r.sources : e \in SymbolsOf(r.sources[k]) /\ e.file = r.sources[k].path
<1>1. PICK k \in DOMAIN r.sources : e \in SymbolsOf(r.sources[k])
  BY DEF DefsOf
<1>. DEFINE src == r.sources[k]
<1>2. IsSource(src) /\ src.path \in r.files /\ e \in SymbolsOf(src)
  BY <1>1, RepositoryIs
<1>. HIDE DEF src
<1>3. PICK i \in DOMAIN src.defs : e = Symbol(src, i)
  BY <1>2 DEF SymbolsOf
<1>4. /\ e.qn # <<>> /\ Last(e.qn) = e.name /\ e.name # NoType /\ e.file = src.path
      /\ e.kind = "class" => e.returns = NoType
  BY <1>2, <1>3, SymbolIs
<1>. QED
  BY <1>1, <1>2, <1>4 DEF src, NoName


\* A finite set with no more than one element.
LEMMA AtMostOne ==
  ASSUME NEW S, IsFiniteSet(S), ~(Cardinality(S) > 1), NEW d \in S, NEW e \in S
  PROVE  d = e
<1>. SUFFICES ASSUME d # e PROVE FALSE
  OBVIOUS
<1>1. /\ IsFiniteSet({d}) /\ Cardinality({d}) = 1
      /\ IsFiniteSet({d} \cup {e}) /\ Cardinality({d} \cup {e}) = 2
  <2>. DEFINE one == {d}
  <2>1. IsFiniteSet(one) /\ Cardinality(one) = 1
    BY FS_Singleton
  <2>2. e \notin one
    OBVIOUS
  <2>. HIDE DEF one
  <2>3. IsFiniteSet(one \cup {e}) /\ Cardinality(one \cup {e}) = Cardinality(one) + 1
    BY <2>1, <2>2, FS_AddElement
  <2>. QED
    BY <2>1, <2>3 DEF one
<1>2. Cardinality({d} \cup {e}) <= Cardinality(S)
  BY FS_Subset
<1>3. Cardinality(S) \in Nat
  BY FS_CardinalityType
<1>. QED
  BY <1>1, <1>2, <1>3

\* A qualified name that is not defined twice has one definition.
LEMMA DefinedOnce ==
  ASSUME repository \in Repositories, NEW d \in DefsOf(repository), NEW e \in DefsOf(repository),
         d.qn = e.qn, ~DefinedTwice(d.qn)
  PROVE  d = e
<1>. DEFINE S == {x \in DefsOf(repository) : x.qn = d.qn}
<1>1. IsFiniteSet(DefsOf(repository)) /\ d \in S /\ e \in S
  BY DefsListed
<1>2. IsFiniteSet(S)
  BY <1>1, FS_Subset
<1>3. ~(Cardinality(S) > 1)
  <2>1. UNION {ToSet(m.classes \o m.functions) : m \in ToSet(ParsedModules(repository))} = DefsOf(repository)
    BY DefsListed
  <2>. QED
    BY <2>1 DEF DefinedTwice, Parsed
<1>. HIDE DEF S
<1>. QED
  BY <1>1, <1>2, <1>3, AtMostOne

\* The last entry with the name of some entry.
LastOf(s, i) == s[SelectLastInSeq(s, LAMBDA e : e.qn = s[i].qn)]

\* It is an entry of that name.
LEMMA LastNamed ==
  ASSUME NEW T, NEW s \in Seq(T), NEW i \in DOMAIN s
  PROVE  LastOf(s, i) \in T /\ LastOf(s, i).qn = s[i].qn
<1>. DEFINE I == {k \in 1..Len(s) : s[k].qn = s[i].qn}
<1>1. Len(s) \in Nat /\ DOMAIN s = 1..Len(s) /\ I \subseteq 1..Len(s) /\ I # {}
  OBVIOUS
<1>2. LastOf(s, i) = s[Max(I)]
  BY <1>1 DEF SelectLastInSeq, LastOf
<1>3. Max(I) \in I
  <2>. HIDE DEF I
  <2>. QED
    BY <1>1, Extremes
<1>. QED
  BY <1>1, <1>2, <1>3

TableOf(s) ==
  LET firsts == Having([i \in DOMAIN s |-> i], LAMBDA i : \A j \in 1..(i - 1) : s[j].qn # s[i].qn)
  IN [k \in DOMAIN firsts |-> LastOf(s, firsts[k])]

\* A symbol table has definitions, and one for every qualified name.
LEMMA SymbolTable ==
  ASSUME NEW r \in Repositories
  PROVE  /\ BuildSymbolTable(ParsedModules(r)) \in Seq(DefsOf(r))
         /\ \A e \in DefsOf(r) : \E x \in ToSet(BuildSymbolTable(ParsedModules(r))) : x.qn = e.qn
<1>. DEFINE P == ParsedModules(r)
            s == Definitions(P)
            n == Len(s)
            at == {i \in 1..n : \A j \in 1..(i - 1) : s[j].qn # s[i].qn}
            g == [i \in 1..n |-> LastOf(s, i)]
            t == BuildSymbolTable(P)
<1>1. s \in Seq(DefsOf(r)) /\ ToSet(s) = DefsOf(r)
  BY DefsListed
<1>2. t = [k \in DOMAIN PlacesAt(n, at) |-> LastOf(s, PlacesAt(n, at)[k])]
  <2>1. DOMAIN s = 1..n
    BY <1>1
  <2>2. t = TableOf(s)
    BY DEF BuildSymbolTable, TableOf, Having, LastOf, SelectLastInSeq
  <2>. HIDE DEF s, n
  <2>3. [i \in DOMAIN s |-> i] = [i \in 1..n |-> i]
    BY <2>1
  <2>4. {i \in DOMAIN [i \in DOMAIN s |-> i] :
           \A j \in 1..([k \in DOMAIN s |-> k][i] - 1) : s[j].qn # s[[k \in DOMAIN s |-> k][i]].qn} = at
    BY <2>1
  <2>. HIDE DEF at, t
  <2>5. Having([i \in DOMAIN s |-> i], LAMBDA i : \A j \in 1..(i - 1) : s[j].qn # s[i].qn) = PlacesAt(n, at)
    BY <2>3, <2>4 DEF Having, PlacesAt
  <2>. QED
    BY <2>2, <2>5 DEF TableOf
<1>3. n \in Nat /\ DOMAIN s = 1..n /\ at \subseteq 1..n
  BY <1>1
<1>. HIDE DEF s, n, t
<1>4. \A i \in 1..n : g[i] = LastOf(s, i) /\ g[i] \in DefsOf(r) /\ g[i].qn = s[i].qn
  BY <1>1, <1>3, LastNamed
<1>5. PlacesAt(n, at) \in Seq(1..n)
  <2>. HIDE DEF at
  <2>. QED
    BY <1>3, PlacesAre
<1>6. \A k \in DOMAIN PlacesAt(n, at) : PlacesAt(n, at)[k] \in 1..n
  <2>. DEFINE p == PlacesAt(n, at)
  <2>1. p \in Seq(1..n)
    BY <1>5
  <2>. HIDE DEF p
  <2>2. \A k \in DOMAIN p : p[k] \in 1..n
    BY <2>1, Places
  <2>. QED
    BY <2>2 DEF p
<1>7. t = Pick(g, n, at)
  <2>. HIDE DEF at, g
  <2>. QED
    BY <1>2, <1>4, <1>6 DEF Pick
<1>. HIDE DEF g
<1>8. t \in Seq(DefsOf(r)) /\ ToSet(t) = ImageOf(g, at)
  <2>. HIDE DEF at
  <2>. QED
    BY <1>3, <1>4, <1>7, Picked
<1>9. ASSUME NEW e \in DefsOf(r) PROVE \E x \in ToSet(t) : x.qn = e.qn
  <2>1. PICK i \in 1..n : s[i] = e
    BY <1>1, <1>3 DEF ToSet
  <2>. DEFINE I == {j \in 1..n : s[j].qn = e.qn}
  <2>2. I \subseteq 1..n /\ I # {}
    BY <2>1
  <2>3. Min(I) \in I /\ \A j \in I : Min(I) <= j
    <3>. HIDE DEF I
    <3>. QED
      BY <1>3, <2>2, Extremes
  <2>. DEFINE k == Min(I)
  <2>. HIDE DEF k
  <2>4. k \in 1..n /\ s[k].qn = e.qn /\ \A j \in 1..n : s[j].qn = e.qn => k <= j
    BY <2>3 DEF k
  <2>5. k \in at
    BY <1>3, <2>4
  <2>6. g[k] \in ImageOf(g, at)
    BY <2>5 DEF ImageOf
  <2>. QED
    BY <1>4, <1>8, <2>4, <2>6
<1>. QED
  BY <1>8, <1>9 DEF t

\* A callee is resolved only to the one definition of its simple name.
LEMMA ResolvedIs ==
  ASSUME NEW r \in Repositories, NEW name, ResolveCallee(ParsedModules(r), name) # NoName
  PROVE  \E e \in DefsOf(r) : /\ e.qn = ResolveCallee(ParsedModules(r), name) /\ e.name = name
                              /\ \A x \in DefsOf(r) : x.name = name => x = e
<1>. DEFINE s == Definitions(ParsedModules(r))
            at == {i \in DOMAIN s : s[i].name = name}
            named == Entries(s, at)
<1>1. s \in Seq(DefsOf(r)) /\ ToSet(s) = DefsOf(r)
  BY DefsListed
<1>2. ResolveCallee(ParsedModules(r), name) = IF Len(named) = 1 THEN named[1].qn ELSE NoName
  BY DEF ResolveCallee, Having
<1>. HIDE DEF s
<1>3. at \subseteq DOMAIN s /\ \A i \in DOMAIN s : s[i] \in DefsOf(r)
  BY <1>1
<1>4. named \in Seq(DefsOf(r)) /\ ToSet(named) = {s[i] : i \in at}
  <2>. HIDE DEF at
  <2>. QED
    BY <1>1, <1>3, EntriesSet
<1>. HIDE DEF named
<1>5. Len(named) = 1 /\ ResolveCallee(ParsedModules(r), name) = named[1].qn
  BY <1>2
<1>6. DOMAIN named = {1} /\ ToSet(named) = {named[1]}
  BY <1>4, <1>5 DEF ToSet
<1>7. \A x \in DefsOf(r) : x.name = name => x = named[1]
  <2>. SUFFICES ASSUME NEW x \in DefsOf(r), x.name = name PROVE x = named[1]
    OBVIOUS
  <2>1. PICK i \in DOMAIN s : x = s[i]
    BY <1>1 DEF ToSet
  <2>2. i \in at
    BY <2>1
  <2>. HIDE DEF at
  <2>3. x \in ToSet(named)
    BY <1>4, <2>1, <2>2
  <2>. QED
    BY <1>6, <2>3
<1>8. named[1] \in DefsOf(r) /\ named[1].name = name
  BY <1>3, <1>4, <1>6
<1>. QED
  BY <1>5, <1>7, <1>8

\* An edge of the call graph: a call in a function of some file, to the one definition of
\* its name.
CallType(r) == [caller : {e.qn : e \in DefsOf(r)}, callee : {e.qn : e \in DefsOf(r)}]
CallSite(r, c, k) ==
  /\ \E e \in SymbolsOf(r.sources[k]) : e.qn = c.caller /\ e.file = r.sources[k].path
  /\ \E x \in ToSet(ParsedModules(r)[k].calls) :
       \E e \in DefsOf(r) : /\ e.qn = c.callee /\ e.name = x.callee
                            /\ \A d \in DefsOf(r) : d.name = x.callee => d = e

\* The call graph has such calls only.
LEMMA CallsFound ==
  ASSUME NEW r \in Repositories
  PROVE  /\ BuildCallGraph(ParsedModules(r)) \in Seq(CallType(r))
         /\ \A c \in ToSet(BuildCallGraph(ParsedModules(r))) :
              \E k \in DOMAIN r.sources : CallSite(r, c, k)
<1>. DEFINE P == ParsedModules(r)
            n == Len(r.sources)
            lists == [k \in DOMAIN P |-> P[k].calls]
            calls == FlattenSeq(lists)
            resolved == [k \in DOMAIN calls |-> [caller |-> calls[k].caller,
                                                 callee |-> ResolveCallee(P, calls[k].callee)]]
            at == {k \in DOMAIN resolved : resolved[k].callee # NoName}
            U == UNION {CallsFrom(r.sources[k]) : k \in DOMAIN r.sources}
            t == BuildCallGraph(P)
<1>1. n \in Nat /\ DOMAIN r.sources = 1..n /\ DOMAIN P = 1..n
  BY RepositoryIs
<1>2. \A k \in 1..n : P[k].calls \in Seq(CallsFrom(r.sources[k]))
  BY <1>1, RepositoryIs, ParsedFile
<1>3. t = Entries(resolved, at)
  BY DEF BuildCallGraph, Having
<1>. HIDE DEF P, n, t
<1>4. lists = [k \in 1..n |-> lists[k]] /\ DOMAIN lists = 1..n /\ \A k \in 1..n : lists[k] = P[k].calls
  BY <1>1
<1>. HIDE DEF lists
<1>5. \A k \in 1..n : lists[k] \in Seq(U)
  <2>1. \A k \in 1..n : CallsFrom(r.sources[k]) \subseteq U
    BY <1>1
  <2>. HIDE DEF U
  <2>. QED
    BY <1>2, <1>4, <2>1
<1>6. lists \in Seq(Seq(U))
  <2>. HIDE DEF U
  <2>. QED
    BY <1>1, <1>4, <1>5, Arranged
<1>7. calls \in Seq(U) /\ ToSet(calls) = UNION {ToSet(lists[k]) : k \in DOMAIN lists}
  <2>. HIDE DEF U
  <2>. QED
    BY <1>6, FlattenedSet
<1>. HIDE DEF calls
<1>8. /\ DOMAIN resolved = DOMAIN calls /\ at \subseteq DOMAIN calls
      /\ \A i \in DOMAIN calls : /\ resolved[i].caller = calls[i].caller
                                 /\ resolved[i].callee = ResolveCallee(P, calls[i].callee)
      /\ \A i \in DOMAIN calls : resolved[i] = [caller |-> calls[i].caller,
                                                 callee |-> ResolveCallee(P, calls[i].callee)]
  OBVIOUS
<1>9. resolved \in Seq({resolved[i] : i \in DOMAIN calls})
  <2>. DEFINE l == Len(calls)
  <2>1. l \in Nat /\ DOMAIN calls = 1..l
    BY <1>7
  <2>. HIDE DEF l
  <2>2. resolved = [i \in 1..l |-> resolved[i]]
    BY <2>1
  <2>3. \A i \in 1..l : resolved[i] \in {resolved[j] : j \in DOMAIN calls}
    BY <2>1
  <2>. HIDE DEF resolved
  <2>. QED
    BY <2>1, <2>2, <2>3, Arranged
<1>10. ASSUME NEW i \in at
       PROVE  resolved[i] \in CallType(r) /\ \E k \in DOMAIN r.sources : CallSite(r, resolved[i], k)
  <2>1. PICK k \in 1..n : calls[i] \in ToSet(lists[k])
    BY <1>4, <1>7 DEF ToSet
  <2>. DEFINE x == calls[i]
              c == resolved[i]
              src == r.sources[k]
  <2>2. x \in ToSet(P[k].calls) /\ x \in CallsFrom(src)
    <3>1. x \in ToSet(P[k].calls)
      BY <1>4, <2>1
    <3>. QED
      BY <1>2, <3>1 DEF ToSet
  <2>3. c.caller = x.caller /\ c.callee = ResolveCallee(P, x.callee) /\ c.callee # NoName
    BY <1>8
  <2>4. c = [caller |-> c.caller, callee |-> c.callee]
    BY <1>8
  <2>. HIDE DEF x, c, src
  <2>5. \E e \in DefsOf(r) : /\ e.qn = c.callee /\ e.name = x.callee
                             /\ \A d \in DefsOf(r) : d.name = x.callee => d = e
    BY <2>3, ResolvedIs DEF P
  <2>6. \E e \in SymbolsOf(src) : e.qn = c.caller /\ e.file = src.path
    <3>1. IsSource(src)
      BY <1>1, RepositoryIs DEF src
    <3>2. PICK i1 \in DOMAIN src.defs : x.caller = QualifiedNames(src)[i1]
      BY <2>2 DEF CallsFrom
    <3>3. Symbol(src, i1).qn = x.caller /\ Symbol(src, i1).file = src.path
      BY <3>1, <3>2, SymbolIs
    <3>. QED
      BY <2>3, <3>3 DEF SymbolsOf
  <2>7. CallSite(r, c, k)
    BY <2>2, <2>5, <2>6 DEF CallSite, src, P
  <2>8. c \in CallType(r)
    <3>1. SymbolsOf(src) \subseteq DefsOf(r)
      BY <1>1 DEF DefsOf, src
    <3>2. c.caller \in {e.qn : e \in DefsOf(r)} /\ c.callee \in {e.qn : e \in DefsOf(r)}
      BY <2>5, <2>6, <3>1
    <3>. QED
      BY <2>4, <3>2 DEF CallType
  <2>. QED
    BY <1>1, <2>7, <2>8 DEF c
<1>. HIDE DEF resolved
<1>11. t \in Seq({resolved[i] : i \in DOMAIN calls}) /\ ToSet(t) = {resolved[i] : i \in at}
  <2>. HIDE DEF at
  <2>. QED
    BY <1>3, <1>8, <1>9, EntriesSet
<1>. HIDE DEF at
<1>12. ASSUME NEW c \in ToSet(t)
       PROVE  c \in CallType(r) /\ \E k \in DOMAIN r.sources : CallSite(r, c, k)
  BY <1>10, <1>11
<1>13. t \in Seq(CallType(r))
  <2>1. Len(t) \in Nat /\ DOMAIN t = 1..Len(t) /\ t = [i \in 1..Len(t) |-> t[i]]
    BY <1>11
  <2>2. \A i \in 1..Len(t) : t[i] \in CallType(r)
    BY <1>12, <2>1 DEF ToSet
  <2>. QED
    BY <2>1, <2>2, Arranged
<1>. QED
  BY <1>12, <1>13 DEF t, P


(***************************************************************************)
(* Walks                                                                   *)
(***************************************************************************)
\* The callees of a method, in a list.
LEMMA CalleesAre ==
  ASSUME NEW T, NEW calls \in Seq(T), NEW q
  PROVE  /\ Len(StaticCallees(calls, q)) \in Nat
         /\ DOMAIN StaticCallees(calls, q) = 1..Len(StaticCallees(calls, q))
         /\ \A k \in DOMAIN StaticCallees(calls, q) :
              \E c \in ToSet(calls) : c.caller = q /\ c.callee = StaticCallees(calls, q)[k]
<1>. DEFINE at == {i \in DOMAIN calls : calls[i].caller = q}
            from == Entries(calls, at)
            s == StaticCallees(calls, q)
<1>1. s = [k \in DOMAIN from |-> from[k].callee]
  BY DEF StaticCallees, Having
<1>2. from \in Seq(T) /\ ToSet(from) = {calls[i] : i \in at}
  <2>1. at \subseteq DOMAIN calls
    OBVIOUS
  <2>. HIDE DEF at
  <2>. QED
    BY <2>1, EntriesSet
<1>. HIDE DEF from, s
<1>3. Len(from) \in Nat /\ DOMAIN from = 1..Len(from)
  BY <1>2, Places
<1>4. DOMAIN s = 1..Len(from) /\ Len(s) = Len(from)
  BY <1>1, <1>3
<1>5. ASSUME NEW k \in DOMAIN s PROVE \E c \in ToSet(calls) : c.caller = q /\ c.callee = s[k]
  <2>1. from[k] \in ToSet(from) /\ s[k] = from[k].callee
    BY <1>1, <1>5 DEF ToSet
  <2>2. PICK i \in at : from[k] = calls[i]
    BY <1>2, <2>1
  <2>. QED
    BY <2>1, <2>2 DEF ToSet
<1>. QED
  BY <1>3, <1>4, <1>5 DEF s

\* A path of calls that visits nothing twice.
IsPath(calls, S, w) ==
  /\ w \in Seq(S) /\ w # <<>>
  /\ \A i, j \in DOMAIN w : w[i] = w[j] => i = j
  /\ \A i \in DOMAIN w : i # 1 => \E c \in ToSet(calls) : c.caller = w[i - 1] /\ c.callee = w[i]

\* One step of a walk.
Hop(calls, steps) ==
  LET callees == StaticCallees(calls, Last(steps))
      k == SelectInSeq(callees, LAMBDA c : c \notin ToSet(steps))
  IN IF k = 0 THEN steps ELSE Append(steps, callees[k])

\* A step extends a path to a path.
LEMMA HopKeepsPath ==
  ASSUME NEW T, NEW calls \in Seq(T), NEW S, \A c \in ToSet(calls) : c.callee \in S,
         NEW w, IsPath(calls, S, w)
  PROVE  IsPath(calls, S, Hop(calls, w))
<1>. DEFINE s == StaticCallees(calls, Last(w))
            I == {i \in 1..Len(s) : s[i] \notin ToSet(w)}
            n == Len(w)
<1>1. /\ Len(s) \in Nat /\ DOMAIN s = 1..Len(s)
      /\ \A k \in DOMAIN s : \E c \in ToSet(calls) : c.caller = Last(w) /\ c.callee = s[k]
  BY CalleesAre
<1>2. Hop(calls, w) = IF I = {} \/ Min(I) = 0 THEN w ELSE Append(w, s[Min(I)])
  BY DEF Hop, SelectInSeq
<1>3. CASE I = {} \/ Min(I) = 0
  BY <1>2, <1>3
<1>4. CASE ~(I = {} \/ Min(I) = 0)
  <2>1. Min(I) \in I
    <3>1. I \subseteq 1..Len(s) /\ I # {}
      BY <1>4
    <3>. HIDE DEF I, s
    <3>. QED
      BY <1>1, <3>1, Extremes
  <2>. DEFINE x == s[Min(I)]
              v == Append(w, x)
  <2>2. x \notin ToSet(w) /\ \E c \in ToSet(calls) : c.caller = Last(w) /\ c.callee = x
    BY <1>1, <2>1
  <2>3. Hop(calls, w) = v
    BY <1>2, <1>4
  <2>. HIDE DEF x, s, I
  <2>4. x \in S
    BY <2>2
  <2>5. w \in Seq(S) /\ n \in Nat /\ n # 0 /\ DOMAIN w = 1..n /\ Last(w) = w[n]
    BY DEF IsPath, Last
  <2>6. /\ v \in Seq(S) /\ v # <<>> /\ DOMAIN v = 1..(n + 1) /\ v[n + 1] = x
        /\ \A i \in 1..n : v[i] = w[i]
    BY <2>4, <2>5
  <2>. HIDE DEF v, n
  <2>7. \A i \in 1..n : w[i] # x
    BY <2>2, <2>5 DEF ToSet
  <2>8. \A i, j \in DOMAIN v : v[i] = v[j] => i = j
    <3>1. \A i \in DOMAIN v : i \in 1..n \/ i = n + 1
      BY <2>5, <2>6
    <3>2. \A i, j \in 1..n : w[i] = w[j] => i = j
      BY <2>5 DEF IsPath
    <3>. QED
      BY <2>6, <2>7, <3>1, <3>2
  <2>9. ASSUME NEW i \in DOMAIN v, i # 1
        PROVE  \E c \in ToSet(calls) : c.caller = v[i - 1] /\ c.callee = v[i]
    <3>1. CASE i = n + 1
      <4>1. i - 1 = n /\ n \in 1..n
        BY <2>5, <3>1
      <4>. QED
        BY <2>2, <2>5, <2>6, <3>1, <4>1
    <3>2. CASE i # n + 1
      <4>1. i \in 1..n /\ i - 1 \in 1..n
        BY <2>5, <2>6, <2>9, <3>2
      <4>. QED
        BY <2>5, <2>6, <2>9, <4>1 DEF IsPath
    <3>. QED
      BY <3>1, <3>2
  <2>. QED
    BY <2>3, <2>6, <2>8, <2>9 DEF IsPath
<1>. QED
  BY <1>3, <1>4

\* A walk is such a path.
LEMMA WalkIsPath ==
  ASSUME NEW T, NEW calls \in Seq(T), NEW S, \A c \in ToSet(calls) : c.callee \in S, NEW start \in S
  PROVE  IsPath(calls, S, Walk(calls, start))
<1>. DEFINE Of(f, n) == IF n = 0 THEN <<start>> ELSE Hop(calls, f[n - 1])
            Walked(f, k) == f = [n \in 0..k |-> Of(f, n)]
            R == {k \in Nat : \E f : Walked(f, k) /\ IsPath(calls, S, f[k])}
<1>1. IsPath(calls, S, <<start>>)
  BY DEF IsPath
<1>2. 0 \in R
  <2>. DEFINE f == [n \in 0..0 |-> <<start>>]
  <2>1. DOMAIN f = 0..0 /\ f[0] = <<start>> /\ \A n \in 0..0 : n = 0 /\ Of(f, n) = f[n]
    OBVIOUS
  <2>2. f = [n \in 0..0 |-> f[n]]
    OBVIOUS
  <2>. HIDE DEF f
  <2>3. Walked(f, 0)
    <3>. HIDE DEF Of
    <3>. QED
      BY <2>1, <2>2
  <2>. HIDE DEF Walked
  <2>. QED
    BY <1>1, <2>1, <2>3
<1>3. ASSUME NEW k \in Nat, k \in R PROVE k + 1 \in R
  <2>1. PICK f : Walked(f, k) /\ IsPath(calls, S, f[k])
    <3>. HIDE DEF Walked
    <3>. QED
      BY <1>3
  <2>. DEFINE g == [n \in 0..(k + 1) |-> IF n <= k THEN f[n] ELSE Hop(calls, f[k])]
  <2>2. /\ \A n \in 0..k : g[n] = f[n]
        /\ g[k + 1] = Hop(calls, f[k])
        /\ g = [n \in 0..(k + 1) |-> g[n]]
    OBVIOUS
  <2>3. \A n \in 0..k : f[n] = Of(f, n)
    <3>. HIDE DEF Of
    <3>. QED
      BY <2>1
  <2>. HIDE DEF g
  <2>4. \A n \in 0..(k + 1) : g[n] = Of(g, n)
    <3>1. \A n \in 0..(k + 1) : n \in 0..k \/ n = k + 1
      OBVIOUS
    <3>2. \A n \in 0..k : n = 0 \/ n - 1 \in 0..k
      OBVIOUS
    <3>3. \A n \in 0..k : Of(g, n) = Of(f, n)
      BY <2>2, <3>2
    <3>4. k \in 0..k /\ (k + 1) - 1 = k /\ k + 1 # 0
      OBVIOUS
    <3>5. Of(g, k + 1) = g[k + 1]
      BY <2>2, <3>4
    <3>. HIDE DEF Of
    <3>. QED
      BY <2>2, <2>3, <3>1, <3>3, <3>5
  <2>5. Walked(g, k + 1)
    <3>. HIDE DEF Of
    <3>. QED
      BY <2>2, <2>4
  <2>6. IsPath(calls, S, g[k + 1])
    BY <2>1, <2>2, HopKeepsPath
  <2>. HIDE DEF Walked
  <2>. QED
    BY <2>5, <2>6
<1>4. MaxDepth \in Nat /\ MaxDepth \in R
  <2>1. MaxDepth \in Nat
    BY DepthAssumption
  <2>. HIDE DEF R
  <2>. QED
    BY <1>2, <1>3, <2>1, Inductive
<1>. DEFINE walk == CHOOSE f : Walked(f, MaxDepth)
<1>5. PICK f : Walked(f, MaxDepth) /\ IsPath(calls, S, f[MaxDepth])
  <2>. HIDE DEF Walked
  <2>. QED
    BY <1>4
<1>6. Walked(walk, MaxDepth)
  BY <1>5, Zenon
<1>7. Walk(calls, start) = walk[MaxDepth]
  BY DEF Walk, Hop
<1>. HIDE DEF walk, R
<1>. DEFINE Q == {k \in Nat : k <= MaxDepth => IsPath(calls, S, walk[k])}
<1>8. \A n \in 0..MaxDepth : walk[n] = Of(walk, n)
  <2>. HIDE DEF Of
  <2>. QED
    BY <1>6
<1>9. 0 \in Q
  BY <1>1, <1>4, <1>8
<1>10. ASSUME NEW k \in Nat, k \in Q PROVE k + 1 \in Q
  <2>. SUFFICES ASSUME k + 1 <= MaxDepth PROVE IsPath(calls, S, walk[k + 1])
    OBVIOUS
  <2>1. k + 1 \in 0..MaxDepth /\ k + 1 # 0 /\ (k + 1) - 1 = k /\ k <= MaxDepth
    BY <1>4
  <2>2. walk[k + 1] = Hop(calls, walk[k])
    BY <1>8, <2>1
  <2>3. IsPath(calls, S, walk[k])
    BY <1>10, <2>1
  <2>. QED
    BY <2>2, <2>3, HopKeepsPath
<1>11. MaxDepth \in Q
  <2>. HIDE DEF Q
  <2>. QED
    BY <1>4, <1>9, <1>10, Inductive
<1>. QED
  BY <1>4, <1>7, <1>11


(***************************************************************************)
(* The batch                                                               *)
(***************************************************************************)
PartsOf(s) ==
  {BuildRepositoryNode(s), BuildFileNodes(s), BuildServiceNodesAndEdges(s),
   BuildClassAndMethodNodes(s), BuildParameterNodesAndEdges(s),
   BuildDefinesAndCallsEdges(s), BuildTableAndDatabaseNodesAndEdges(s),
   BuildFieldNodesAndEdges(s), BuildApiNodesAndEdges(s), BuildMethodReturnsEdges(s),
   BuildBusinessCapabilityNodes(s), BuildFeatureNodesAndEdges(s),
   BuildFeatureImplementedByEdges(s), BuildWorkflowNodesAndEdges(s),
   BuildBusinessRuleNodes(s), BuildBusinessRuleImplementedByEdges(s),
   BuildDomainConceptNodes(s), BuildGapNodeAndEdges(s), BuildRequirementNodes(s),
   BuildTestCaseNodesAndEdges(s), BuildRequirementImplementedByEdges(s),
   BuildSecurityControlNodes(s), BuildConflictEdges(s)}

\* A batch has what its parts have.
LEMMA BatchIs ==
  ASSUME NEW s
  PROVE  /\ \A n : n \in BuildGraphBatch(s).nodes <=> \E p \in PartsOf(s) : n \in p.nodes
         /\ \A e : e \in BuildGraphBatch(s).edges <=> \E p \in PartsOf(s) : e \in p.edges
<1>1. BuildGraphBatch(s) = Part(UNION {p.nodes : p \in PartsOf(s)}, UNION {p.edges : p \in PartsOf(s)})
  BY DEF BuildGraphBatch, PartsOf
<1>. QED
  BY <1>1 DEF Part

\* The parts that write several types of edges.
LEMMA WorkflowPart ==
  ASSUME NEW s
  PROVE  LET workflow(t) == Node("Workflow", t.name)
             step(t, i) == Node("Step", <<t.name, i>>)
         IN /\ \A n : n \in BuildWorkflowNodesAndEdges(s).nodes <=>
                 \/ \E t \in s.traces : n = workflow(t)
                 \/ \E t \in s.traces : \E i \in DOMAIN t.steps : n = step(t, i)
            /\ \A e : e \in BuildWorkflowNodesAndEdges(s).edges <=>
                 \/ \E t \in s.traces : \E c \in t.capability : e = Edge("HAS_WORKFLOW", Node("Feature", c), workflow(t))
                 \/ \E t \in s.traces : \E i \in DOMAIN t.steps : e = Edge("HAS_STEP", workflow(t), step(t, i))
                 \/ \E t \in s.traces : \E i \in DOMAIN t.steps : e = Edge("REALIZED_BY", workflow(t), Method(t.steps[i]))
                 \/ \E t \in s.traces : \E i \in DOMAIN t.steps : e = Edge("EXECUTES", step(t, i), Method(t.steps[i]))
<1>. DEFINE A == {Node("Workflow", t.name) : t \in s.traces}
            B == UNION {{Node("Step", <<t.name, i>>) : i \in DOMAIN t.steps} : t \in s.traces}
            C == UNION {{Edge("HAS_WORKFLOW", Node("Feature", c), Node("Workflow", t.name)) : c \in t.capability} : t \in s.traces}
            D == UNION {{Edge("HAS_STEP", Node("Workflow", t.name), Node("Step", <<t.name, i>>)) : i \in DOMAIN t.steps} : t \in s.traces}
            F == UNION {{Edge("REALIZED_BY", Node("Workflow", t.name), Method(t.steps[i])) : i \in DOMAIN t.steps} : t \in s.traces}
            G == UNION {{Edge("EXECUTES", Node("Step", <<t.name, i>>), Method(t.steps[i])) : i \in DOMAIN t.steps} : t \in s.traces}
<1>1. BuildWorkflowNodesAndEdges(s) = Part(A \cup B, C \cup D \cup F \cup G)
  BY DEF BuildWorkflowNodesAndEdges
<1>2. \A n : n \in A <=> \E t \in s.traces : n = Node("Workflow", t.name)
  OBVIOUS
<1>3. \A n : n \in B <=> \E t \in s.traces : \E i \in DOMAIN t.steps : n = Node("Step", <<t.name, i>>)
  <2>. DEFINE step(t, i) == Node("Step", <<t.name, i>>)
  <2>1. B = UNION {{step(t, i) : i \in DOMAIN t.steps} : t \in s.traces}
    OBVIOUS
  <2>. HIDE DEF step, B
  <2>2. \A n : n \in B <=> \E t \in s.traces : \E i \in DOMAIN t.steps : n = step(t, i)
    BY <2>1
  <2>. QED
    BY <2>2 DEF step
<1>4. \A e : e \in C <=> \E t \in s.traces : \E c \in t.capability :
                           e = Edge("HAS_WORKFLOW", Node("Feature", c), Node("Workflow", t.name))
  OBVIOUS
<1>5. \A e : e \in D <=> \E t \in s.traces : \E i \in DOMAIN t.steps :
                           e = Edge("HAS_STEP", Node("Workflow", t.name), Node("Step", <<t.name, i>>))
  <2>. DEFINE edge(t, i) == Edge("HAS_STEP", Node("Workflow", t.name), Node("Step", <<t.name, i>>))
  <2>1. D = UNION {{edge(t, i) : i \in DOMAIN t.steps} : t \in s.traces}
    OBVIOUS
  <2>. HIDE DEF edge, D
  <2>2. \A e : e \in D <=> \E t \in s.traces : \E i \in DOMAIN t.steps : e = edge(t, i)
    BY <2>1
  <2>. QED
    BY <2>2 DEF edge
<1>6. \A e : e \in F <=> \E t \in s.traces : \E i \in DOMAIN t.steps :
                           e = Edge("REALIZED_BY", Node("Workflow", t.name), Method(t.steps[i]))
  <2>. DEFINE edge(t, i) == Edge("REALIZED_BY", Node("Workflow", t.name), Method(t.steps[i]))
  <2>1. F = UNION {{edge(t, i) : i \in DOMAIN t.steps} : t \in s.traces}
    OBVIOUS
  <2>. HIDE DEF edge, F
  <2>2. \A e : e \in F <=> \E t \in s.traces : \E i \in DOMAIN t.steps : e = edge(t, i)
    BY <2>1
  <2>. QED
    BY <2>2 DEF edge
<1>7. \A e : e \in G <=> \E t \in s.traces : \E i \in DOMAIN t.steps :
                           e = Edge("EXECUTES", Node("Step", <<t.name, i>>), Method(t.steps[i]))
  <2>. DEFINE edge(t, i) == Edge("EXECUTES", Node("Step", <<t.name, i>>), Method(t.steps[i]))
  <2>1. G = UNION {{edge(t, i) : i \in DOMAIN t.steps} : t \in s.traces}
    OBVIOUS
  <2>. HIDE DEF edge, G
  <2>2. \A e : e \in G <=> \E t \in s.traces : \E i \in DOMAIN t.steps : e = edge(t, i)
    BY <2>1
  <2>. QED
    BY <2>2 DEF edge
<1>. HIDE DEF A, B, C, D, F, G
<1>8. /\ BuildWorkflowNodesAndEdges(s).nodes = A \cup B
      /\ BuildWorkflowNodesAndEdges(s).edges = C \cup D \cup F \cup G
  BY <1>1 DEF Part
<1>9. /\ \A n : n \in BuildWorkflowNodesAndEdges(s).nodes <=> n \in A \/ n \in B
      /\ \A e : e \in BuildWorkflowNodesAndEdges(s).edges <=> e \in C \/ e \in D \/ e \in F \/ e \in G
  BY <1>8
<1>. QED
  BY <1>2, <1>3, <1>4, <1>5, <1>6, <1>7, <1>9, Zenon

\* A component contains its files and depends on others.
LEMMA ServicePart ==
  ASSUME NEW s
  PROVE  \A e : e \in BuildServiceNodesAndEdges(s).edges <=>
           \/ \E c \in DOMAIN s.components : e = Edge("CONTAINS", Node("Repository", s.repo), Node("Service", c))
           \/ \E c \in DOMAIN s.components : \E f \in s.components[c] :
                e = Edge("CONTAINS", Node("Service", c), Node("File", f))
           \/ \E d \in s.dependencies : e = Edge("DEPENDS_ON", Node("Service", d[1]), Node("Service", d[2]))
<1>. DEFINE A == {Edge("CONTAINS", Node("Repository", s.repo), Node("Service", c)) : c \in DOMAIN s.components}
            B == UNION {{Edge("CONTAINS", Node("Service", c), Node("File", f)) : f \in s.components[c]} :
                          c \in DOMAIN s.components}
            C == {Edge("DEPENDS_ON", Node("Service", d[1]), Node("Service", d[2])) : d \in s.dependencies}
<1>1. BuildServiceNodesAndEdges(s) = Part(NodesOf("Service", DOMAIN s.components), A \cup B \cup C)
  BY DEF BuildServiceNodesAndEdges
<1>2. \A e : e \in A <=> \E c \in DOMAIN s.components : e = Edge("CONTAINS", Node("Repository", s.repo), Node("Service", c))
  OBVIOUS
<1>3. \A e : e \in B <=> \E c \in DOMAIN s.components : \E f \in s.components[c] :
                           e = Edge("CONTAINS", Node("Service", c), Node("File", f))
  OBVIOUS
<1>4. \A e : e \in C <=> \E d \in s.dependencies : e = Edge("DEPENDS_ON", Node("Service", d[1]), Node("Service", d[2]))
  OBVIOUS
<1>. HIDE DEF A, B, C
<1>6. \A e : e \in BuildServiceNodesAndEdges(s).edges <=> e \in A \/ e \in B \/ e \in C
  BY <1>1 DEF Part
<1>. QED
  BY <1>2, <1>3, <1>4, <1>6, Zenon

\* Tables belong to a database and a component, and refer to one another.
LEMMA TablePart ==
  ASSUME NEW s
  PROVE  \A e : e \in BuildTableAndDatabaseNodesAndEdges(s).edges <=>
           \/ \E t \in s.entities : e = Edge("BELONGS_TO", Node("Table", t.name), Node("Database", s.repo))
           \/ \E t \in s.entities : \E c \in ComponentForFile(s, t.file) :
                e = Edge("OWNS", Node("Service", c), Node("Table", t.name))
           \/ \E t \in s.entities : \E f \in ToSet(t.fields) :
                f.ref # NoRef /\ e = Edge("DEPENDS_ON", Node("Table", t.name), Node("Table", f.ref))
<1>. DEFINE N == {Node("Database", s.repo)} \cup {Node("Table", t.name) : t \in s.entities}
            A == {Edge("BELONGS_TO", Node("Table", t.name), Node("Database", s.repo)) : t \in s.entities}
            B == UNION {{Edge("OWNS", Node("Service", c), Node("Table", t.name)) : c \in ComponentForFile(s, t.file)} :
                          t \in s.entities}
            C == UNION {{Edge("DEPENDS_ON", Node("Table", t.name), Node("Table", f.ref)) :
                           f \in {x \in ToSet(t.fields) : x.ref # NoRef}} : t \in s.entities}
<1>1. BuildTableAndDatabaseNodesAndEdges(s) = Part(N, A \cup B \cup C)
  BY DEF BuildTableAndDatabaseNodesAndEdges
<1>2. \A e : e \in A <=> \E t \in s.entities : e = Edge("BELONGS_TO", Node("Table", t.name), Node("Database", s.repo))
  OBVIOUS
<1>3. \A e : e \in B <=> \E t \in s.entities : \E c \in ComponentForFile(s, t.file) :
                           e = Edge("OWNS", Node("Service", c), Node("Table", t.name))
  OBVIOUS
<1>4. \A e : e \in C <=> \E t \in s.entities : \E f \in ToSet(t.fields) :
                           f.ref # NoRef /\ e = Edge("DEPENDS_ON", Node("Table", t.name), Node("Table", f.ref))
  <2>. DEFINE keys(t) == {x \in ToSet(t.fields) : x.ref # NoRef}
              to(t, f) == Edge("DEPENDS_ON", Node("Table", t.name), Node("Table", f.ref))
  <2>1. C = UNION {{to(t, f) : f \in keys(t)} : t \in s.entities}
    OBVIOUS
  <2>. HIDE DEF keys, to, C
  <2>2. \A e : e \in C <=> \E t \in s.entities : \E f \in keys(t) : e = to(t, f)
    BY <2>1
  <2>. QED
    BY <2>2 DEF keys, to
<1>. HIDE DEF N, A, B, C
<1>5. BuildTableAndDatabaseNodesAndEdges(s).edges = A \cup B \cup C
  BY <1>1 DEF Part
<1>6. \A e : e \in BuildTableAndDatabaseNodesAndEdges(s).edges <=> e \in A \/ e \in B \/ e \in C
  BY <1>5
<1>. QED
  BY <1>2, <1>3, <1>4, <1>6, Zenon

Labelled(p, labels, types) == (\A n \in p.nodes : n[1] \in labels) /\ \A e \in p.edges : e[1] \in types

\* The labels of nodes and the types of edges of each part.
LEMMA PartsLabelled ==
  ASSUME NEW s
  PROVE  /\ Labelled(BuildRepositoryNode(s), {"Repository"}, {})
         /\ Labelled(BuildFileNodes(s), {"File"}, {})
         /\ Labelled(BuildServiceNodesAndEdges(s), {"Service"}, {"CONTAINS", "DEPENDS_ON"})
         /\ Labelled(BuildClassAndMethodNodes(s), {"Class", "Method"}, {})
         /\ Labelled(BuildParameterNodesAndEdges(s), {"Parameter"}, {"HAS_PARAMETER"})
         /\ Labelled(BuildDefinesAndCallsEdges(s), {}, {"DEFINES", "CALLS"})
         /\ Labelled(BuildTableAndDatabaseNodesAndEdges(s), {"Database", "Table"}, {"BELONGS_TO", "OWNS", "DEPENDS_ON"})
         /\ Labelled(BuildFieldNodesAndEdges(s), {"Field"}, {"HAS_FIELD"})
         /\ Labelled(BuildApiNodesAndEdges(s), {"API"}, {"EXPOSES"})
         /\ Labelled(BuildMethodReturnsEdges(s), {}, {"RETURNS"})
         /\ Labelled(BuildBusinessCapabilityNodes(s), {"BusinessCapability"}, {})
         /\ Labelled(BuildFeatureNodesAndEdges(s), {"Feature"}, {"HAS_FEATURE"})
         /\ Labelled(BuildFeatureImplementedByEdges(s), {}, {"IMPLEMENTED_BY"})
         /\ Labelled(BuildWorkflowNodesAndEdges(s), {"Workflow", "Step"}, {"HAS_WORKFLOW", "HAS_STEP", "REALIZED_BY", "EXECUTES"})
         /\ Labelled(BuildBusinessRuleNodes(s), {"BusinessRule"}, {})
         /\ Labelled(BuildBusinessRuleImplementedByEdges(s), {}, {"IMPLEMENTED_BY"})
         /\ Labelled(BuildDomainConceptNodes(s), {"DomainConcept"}, {})
         /\ Labelled(BuildGapNodeAndEdges(s), {"Gap"}, {"HAS_GAP"})
         /\ Labelled(BuildRequirementNodes(s), {"Requirement"}, {})
         /\ Labelled(BuildTestCaseNodesAndEdges(s), {"TestCase"}, {"VALIDATES"})
         /\ Labelled(BuildRequirementImplementedByEdges(s), {}, {"IMPLEMENTS"})
         /\ Labelled(BuildSecurityControlNodes(s), {"SecurityControl"}, {})
         /\ Labelled(BuildConflictEdges(s), {}, {"CONFLICTS_WITH"})
<1>. USE DEF Labelled, Part, Node, Edge
<1>1. Labelled(BuildRepositoryNode(s), {"Repository"}, {})
  BY DEF BuildRepositoryNode
<1>2. Labelled(BuildFileNodes(s), {"File"}, {})
  BY DEF BuildFileNodes, NodesOf
<1>3. Labelled(BuildServiceNodesAndEdges(s), {"Service"}, {"CONTAINS", "DEPENDS_ON"})
  <2>1. \A n \in BuildServiceNodesAndEdges(s).nodes : n[1] \in {"Service"}
    BY DEF BuildServiceNodesAndEdges, NodesOf
  <2>2. \A e \in BuildServiceNodesAndEdges(s).edges : e[1] \in {"CONTAINS", "DEPENDS_ON"}
    BY ServicePart
  <2>. QED
    BY <2>1, <2>2
<1>4. Labelled(BuildClassAndMethodNodes(s), {"Class", "Method"}, {})
  BY DEF BuildClassAndMethodNodes, NodesOf
<1>5. Labelled(BuildParameterNodesAndEdges(s), {"Parameter"}, {"HAS_PARAMETER"})
  BY DEF BuildParameterNodesAndEdges
<1>6. Labelled(BuildDefinesAndCallsEdges(s), {}, {"DEFINES", "CALLS"})
  BY DEF BuildDefinesAndCallsEdges
<1>7. Labelled(BuildTableAndDatabaseNodesAndEdges(s), {"Database", "Table"}, {"BELONGS_TO", "OWNS", "DEPENDS_ON"})
  <2>1. \A n \in BuildTableAndDatabaseNodesAndEdges(s).nodes : n[1] \in {"Database", "Table"}
    BY DEF BuildTableAndDatabaseNodesAndEdges
  <2>2. \A e \in BuildTableAndDatabaseNodesAndEdges(s).edges : e[1] \in {"BELONGS_TO", "OWNS", "DEPENDS_ON"}
    BY TablePart
  <2>. QED
    BY <2>1, <2>2
<1>8. Labelled(BuildFieldNodesAndEdges(s), {"Field"}, {"HAS_FIELD"})
  BY DEF BuildFieldNodesAndEdges
<1>9. Labelled(BuildApiNodesAndEdges(s), {"API"}, {"EXPOSES"})
  BY DEF BuildApiNodesAndEdges
<1>10. Labelled(BuildMethodReturnsEdges(s), {}, {"RETURNS"})
  BY DEF BuildMethodReturnsEdges
<1>11. Labelled(BuildBusinessCapabilityNodes(s), {"BusinessCapability"}, {})
  BY DEF BuildBusinessCapabilityNodes, Capability
<1>12. Labelled(BuildFeatureNodesAndEdges(s), {"Feature"}, {"HAS_FEATURE"})
  BY DEF BuildFeatureNodesAndEdges, Feature
<1>13. Labelled(BuildFeatureImplementedByEdges(s), {}, {"IMPLEMENTED_BY"})
  BY DEF BuildFeatureImplementedByEdges
<1>14. Labelled(BuildWorkflowNodesAndEdges(s), {"Workflow", "Step"}, {"HAS_WORKFLOW", "HAS_STEP", "REALIZED_BY", "EXECUTES"})
  <2>1. \A n \in BuildWorkflowNodesAndEdges(s).nodes : n[1] \in {"Workflow", "Step"}
    BY WorkflowPart DEF Node
  <2>2. \A e \in BuildWorkflowNodesAndEdges(s).edges : e[1] \in {"HAS_WORKFLOW", "HAS_STEP", "REALIZED_BY", "EXECUTES"}
    BY WorkflowPart
  <2>. QED
    BY <2>1, <2>2
<1>15. Labelled(BuildBusinessRuleNodes(s), {"BusinessRule"}, {})
  BY DEF BuildBusinessRuleNodes, NodesOf
<1>16. Labelled(BuildBusinessRuleImplementedByEdges(s), {}, {"IMPLEMENTED_BY"})
  BY DEF BuildBusinessRuleImplementedByEdges
<1>17. Labelled(BuildDomainConceptNodes(s), {"DomainConcept"}, {})
  BY DEF BuildDomainConceptNodes, NodesOf
<1>18. Labelled(BuildGapNodeAndEdges(s), {"Gap"}, {"HAS_GAP"})
  BY DEF BuildGapNodeAndEdges, NodesOf
<1>19. Labelled(BuildRequirementNodes(s), {"Requirement"}, {})
  BY DEF BuildRequirementNodes, NodesOf
<1>20. Labelled(BuildTestCaseNodesAndEdges(s), {"TestCase"}, {"VALIDATES"})
  BY DEF BuildTestCaseNodesAndEdges, NodesOf
<1>21. Labelled(BuildRequirementImplementedByEdges(s), {}, {"IMPLEMENTS"})
  BY DEF BuildRequirementImplementedByEdges
<1>22. Labelled(BuildSecurityControlNodes(s), {"SecurityControl"}, {})
  BY DEF BuildSecurityControlNodes, NodesOf
<1>23. Labelled(BuildConflictEdges(s), {}, {"CONFLICTS_WITH"})
  BY DEF BuildConflictEdges
<1>. HIDE DEF Labelled, Part, Node, Edge
<1>. QED
  BY <1>1, <1>2, <1>3, <1>4, <1>5, <1>6, <1>7, <1>8, <1>9, <1>10, <1>11, <1>12, <1>13, <1>14, <1>15, <1>16, <1>17, <1>18, <1>19, <1>20, <1>21, <1>22, <1>23

\* Who writes the nodes and edges that matter below.
LEMMA Origins ==
  ASSUME NEW s
  PROVE  /\ \A n \in BuildGraphBatch(s).nodes :
              /\ n[1] = "Workflow" => n \in BuildWorkflowNodesAndEdges(s).nodes
              /\ n[1] = "Method" => n \in BuildClassAndMethodNodes(s).nodes
              /\ n[1] = "Repository" => n \in BuildRepositoryNode(s).nodes
         /\ \A e \in BuildGraphBatch(s).edges :
              /\ e[1] \in {"HAS_STEP", "EXECUTES"} => e \in BuildWorkflowNodesAndEdges(s).edges
              /\ e[1] = "CALLS" => e \in BuildDefinesAndCallsEdges(s).edges
<1>1. ASSUME NEW p \in PartsOf(s)
      PROVE  /\ \A n \in p.nodes : /\ n[1] = "Workflow" => p = BuildWorkflowNodesAndEdges(s)
                                   /\ n[1] = "Method" => p = BuildClassAndMethodNodes(s)
                                   /\ n[1] = "Repository" => p = BuildRepositoryNode(s)
             /\ \A e \in p.edges : /\ e[1] \in {"HAS_STEP", "EXECUTES"} => p = BuildWorkflowNodesAndEdges(s)
                                   /\ e[1] = "CALLS" => p = BuildDefinesAndCallsEdges(s)
  BY PartsLabelled DEF PartsOf, Labelled
<1>. QED
  BY <1>1, BatchIs


(***************************************************************************)
(* The invariant                                                           *)
(***************************************************************************)
Fields ==
  {"repo", "files", "symbols", "calls", "entities", "contracts", "components", "dependencies",
   "lld", "requirements", "clusters", "traces", "rules", "terms", "gaps", "controls", "conflicts"}

\* What findings have of a repository, whatever the review rejects.
Analysed(r, f) ==
  LET P == ParsedModules(r)
  IN /\ f.repo = r.repo /\ f.files = r.files
     /\ f.symbols = BuildSymbolTable(P) /\ f.calls = BuildCallGraph(P)
     /\ f.entities = DataEntities(P, r.tables)
     /\ \/ f.components = Components(P) /\ f.dependencies = ComponentEdges(P, Components(P))
        \/ f.components = <<>> /\ f.dependencies = {}
     /\ f.lld = LLDParser(P) \/ f.lld = <<>>
     /\ f.requirements \subseteq FRDExtractor(P)
     /\ \E cs : f.traces = BuildWorkflowTraces(P, cs)
     /\ (f.rules = r.rules /\ f.conflicts = r.conflicts) \/ f.conflicts = {}

RunInv ==
  /\ repository \in Repositories
  /\ stage \in {"ingested", "analysed", "reviewed", "written"}
  /\ stage # "ingested" => DOMAIN found = Fields /\ Analysed(repository, found)
  /\ batch = IF stage = "written" THEN BuildGraphBatch(found) ELSE NoBatch

\* The analysis finds that.
LEMMA AllFindingsAre ==
  ASSUME NEW r, NEW cs
  PROVE  DOMAIN AllFindings(r, cs) = Fields /\ Analysed(r, AllFindings(r, cs))
<1>. DEFINE P == ParsedModules(r)
            f == AllFindings(r, cs)
            hld == IF "hld_builder" \in r.agents THEN HLDBuilder(P) ELSE [components |-> <<>>, edges |-> {}]
<1>1. /\ DOMAIN f = Fields
      /\ f.repo = r.repo /\ f.files = r.files
      /\ f.symbols = BuildSymbolTable(P) /\ f.calls = BuildCallGraph(P)
      /\ f.entities = DataEntities(P, r.tables)
      /\ f.components = hld.components /\ f.dependencies = hld.edges
      /\ f.lld = IF "lld_parser" \in r.agents THEN LLDParser(P) ELSE <<>>
      /\ f.requirements = Enabled(r, "frd_extraction", FRDExtractor(P))
      /\ f.traces = BuildWorkflowTraces(P, cs)
      /\ f.rules = Enabled(r, "business_rule_extraction", r.rules)
      /\ f.conflicts = Enabled(r, "business_rule_extraction", r.conflicts)
  BY DEF AllFindings, Fields
<1>2. \/ hld.components = Components(P) /\ hld.edges = ComponentEdges(P, Components(P))
      \/ hld.components = <<>> /\ hld.edges = {}
  BY DEF HLDBuilder
<1>. HIDE DEF f, hld, P
<1>3. /\ f.requirements \subseteq FRDExtractor(P)
      /\ (f.rules = r.rules /\ f.conflicts = r.conflicts) \/ f.conflicts = {}
  BY <1>1 DEF Enabled
<1>4. /\ \E x : f.traces = BuildWorkflowTraces(P, x)
      /\ f.lld = LLDParser(P) \/ f.lld = <<>>
      /\ \/ f.components = Components(P) /\ f.dependencies = ComponentEdges(P, Components(P))
         \/ f.components = <<>> /\ f.dependencies = {}
  BY <1>1, <1>2
<1>5. Analysed(r, f)
  BY <1>1, <1>3, <1>4 DEF Analysed, P
<1>. QED
  BY <1>1, <1>5 DEF f

\* The invariant is inductive.
LEMMA RunInvariant == RunSpec => []RunInv
<1>1. RunInit => RunInv
  BY DEF RunInit, RunInv
<1>2. RunInv /\ [RunNext]_runVars => RunInv'
  <2>. SUFFICES ASSUME RunInv, [RunNext]_runVars PROVE RunInv'
    OBVIOUS
  <2>1. CASE Analyse
    <3>1. PICK cs : found' = AllFindings(repository, cs)
      BY <2>1 DEF Analyse
    <3>. QED
      BY <2>1, <3>1, AllFindingsAre DEF Analyse, RunInv, NoBatch
  <2>2. CASE ApplyHitlResolutions
    <3>1. /\ stage = "analysed" /\ stage' = "reviewed"
          /\ repository' = repository /\ batch' = batch
      BY <2>2 DEF ApplyHitlResolutions
    <3>2. PICK clusters, terms, controls, requirements :
                 /\ requirements \in {found.requirements, {}}
                 /\ found' = [found EXCEPT !.clusters = clusters, !.terms = terms,
                                           !.controls = controls, !.requirements = requirements]
      BY <2>2 DEF ApplyHitlResolutions
    <3>3. DOMAIN found = Fields /\ Analysed(repository, found) /\ batch = NoBatch
      BY <3>1 DEF RunInv
    <3>4. DOMAIN found' = Fields /\ found'.requirements = requirements
      BY <3>2, <3>3 DEF Fields
    <3>5. \A x \in {"repo", "files", "symbols", "calls", "entities", "components", "dependencies",
                    "lld", "traces", "rules", "conflicts"} : found'[x] = found[x]
      BY <3>2, <3>3 DEF Fields
    <3>6. /\ found'.repo = found.repo /\ found'.files = found.files
          /\ found'.symbols = found.symbols /\ found'.calls = found.calls
          /\ found'.entities = found.entities /\ found'.components = found.components
          /\ found'.dependencies = found.dependencies /\ found'.lld = found.lld
          /\ found'.traces = found.traces /\ found'.rules = found.rules
          /\ found'.conflicts = found.conflicts
      BY <3>5
    <3>7. requirements \subseteq FRDExtractor(ParsedModules(repository))
      BY <3>2, <3>3 DEF Analysed
    <3>8. Analysed(repository, found')
      BY <3>3, <3>4, <3>6, <3>7 DEF Analysed
    <3>. QED
      BY <3>1, <3>3, <3>4, <3>8 DEF RunInv, NoBatch
  <2>3. CASE WriteKnowledgeGraph
    BY <2>3 DEF WriteKnowledgeGraph, RunInv
  <2>4. CASE UNCHANGED runVars
    BY <2>4 DEF runVars, RunInv, NoBatch
  <2>. QED
    BY <2>1, <2>2, <2>3, <2>4 DEF RunNext
<1>. QED
  BY <1>1, <1>2, PTL DEF RunSpec


(***************************************************************************)
(* Workflows                                                               *)
(***************************************************************************)
QNames(r) == {e.qn : e \in DefsOf(r)}

\* A trace is a walk from an entry point, which is a definition.
LEMMA TraceIs ==
  ASSUME NEW r \in Repositories, NEW cs, NEW t \in BuildWorkflowTraces(ParsedModules(r), cs)
  PROVE  \E e \in EntryPoints(ParsedModules(r)) :
           /\ t = [name |-> e.name, entry |-> e.qn,
                   steps |-> Walk(BuildCallGraph(ParsedModules(r)), e.qn),
                   capability |-> {c.name : c \in {x \in cs : e.file \in x.members}}]
           /\ t.name = e.name
           /\ IsPath(BuildCallGraph(ParsedModules(r)), QNames(r), t.steps)
<1>. DEFINE P == ParsedModules(r)
            calls == BuildCallGraph(P)
<1>1. PICK e \in EntryPoints(P) :
             t = [name |-> e.name, entry |-> e.qn, steps |-> Walk(calls, e.qn),
                  capability |-> {c.name : c \in {x \in cs : e.file \in x.members}}]
  BY DEF BuildWorkflowTraces
<1>2. e \in DefsOf(r)
  <2>1. e \in ToSet(BuildSymbolTable(P))
    BY DEF EntryPoints
  <2>. QED
    BY <2>1, SymbolTable DEF ToSet
<1>3. calls \in Seq(CallType(r)) /\ e.qn \in QNames(r)
  BY <1>2, CallsFound DEF QNames
<1>4. \A c \in ToSet(calls) : c.callee \in QNames(r)
  <2>. HIDE DEF calls
  <2>1. \A c \in ToSet(calls) : c \in CallType(r)
    BY <1>3 DEF ToSet
  <2>2. \A c \in CallType(r) : c.callee \in QNames(r)
    BY DEF CallType, QNames
  <2>. QED
    BY <2>1, <2>2
<1>5. IsPath(calls, QNames(r), Walk(calls, e.qn))
  <2>. HIDE DEF calls
  <2>. QED
    BY <1>3, <1>4, WalkIsPath
<1>6. t.name = e.name /\ t.steps = Walk(calls, e.qn)
  BY <1>1
<1>. QED
  BY <1>1, <1>5, <1>6

EntriesNamed(r, name) == {e \in EntryPoints(ParsedModules(r)) : e.name = name}

\* The traces of one name are one, if one entry point has that name.
LEMMA OneTrace ==
  ASSUME NEW r \in Repositories, NEW cs, NEW name, Cardinality(EntriesNamed(r, name)) = 1,
         NEW t \in BuildWorkflowTraces(ParsedModules(r), cs), t.name = name,
         NEW u \in BuildWorkflowTraces(ParsedModules(r), cs), u.name = name
  PROVE  t = u
<1>. DEFINE S == EntriesNamed(r, name)
<1>1. PICK d \in EntryPoints(ParsedModules(r)) :
             /\ t = [name |-> d.name, entry |-> d.qn,
                     steps |-> Walk(BuildCallGraph(ParsedModules(r)), d.qn),
                     capability |-> {c.name : c \in {x \in cs : d.file \in x.members}}]
             /\ t.name = d.name
  BY TraceIs
<1>2. PICK e \in EntryPoints(ParsedModules(r)) :
             /\ u = [name |-> e.name, entry |-> e.qn,
                     steps |-> Walk(BuildCallGraph(ParsedModules(r)), e.qn),
                     capability |-> {c.name : c \in {x \in cs : e.file \in x.members}}]
             /\ u.name = e.name
  BY TraceIs
<1>3. d \in S /\ e \in S
  BY <1>1, <1>2 DEF EntriesNamed
<1>4. IsFiniteSet(S)
  <2>1. ToSet(BuildSymbolTable(ParsedModules(r))) \subseteq DefsOf(r)
    BY SymbolTable DEF ToSet
  <2>2. S \subseteq DefsOf(r)
    BY <2>1 DEF EntryPoints, EntriesNamed
  <2>3. IsFiniteSet(DefsOf(r))
    BY DefsListed
  <2>. QED
    BY <2>2, <2>3, FS_Subset
<1>5. ~(Cardinality(S) > 1)
  OBVIOUS
<1>. HIDE DEF S
<1>6. d = e
  BY <1>3, <1>4, <1>5, AtMostOne
<1>. QED
  BY <1>1, <1>2, <1>6

\* A method has a node if it is one of the symbols.
LEMMA MethodNodes ==
  ASSUME NEW s, NEW q
  PROVE  Method(q) \in BuildGraphBatch(s).nodes <=> q \in {e.qn : e \in Methods(s)}
<1>1. Method(q) \in BuildClassAndMethodNodes(s).nodes <=> q \in {e.qn : e \in Methods(s)}
  BY DEF BuildClassAndMethodNodes, Part, NodesOf, Node, Method
<1>2. Method(q)[1] = "Method" /\ BuildClassAndMethodNodes(s) \in PartsOf(s)
  BY DEF Method, Node, PartsOf
<1>. QED
  BY <1>1, <1>2, Origins, BatchIs

\* A call between two methods has an edge.
LEMMA CallEdges ==
  ASSUME NEW s, NEW c \in ToSet(s.calls),
         Method(c.caller) \in BuildGraphBatch(s).nodes, Method(c.callee) \in BuildGraphBatch(s).nodes
  PROVE  Edge("CALLS", Method(c.caller), Method(c.callee)) \in BuildGraphBatch(s).edges
<1>. DEFINE known == {e.qn : e \in Methods(s)}
<1>1. c.caller \in known /\ c.callee \in known
  BY MethodNodes
<1>. HIDE DEF known
<1>2. Edge("CALLS", Method(c.caller), Method(c.callee)) \in
        {Edge("CALLS", Method(x.caller), Method(x.callee)) :
           x \in {y \in ToSet(s.calls) : y.caller \in known /\ y.callee \in known}}
  BY <1>1
<1>3. Edge("CALLS", Method(c.caller), Method(c.callee)) \in BuildDefinesAndCallsEdges(s).edges
  BY <1>2 DEF BuildDefinesAndCallsEdges, Part, known
<1>4. BuildDefinesAndCallsEdges(s) \in PartsOf(s)
  BY DEF PartsOf
<1>. QED
  BY <1>3, <1>4, BatchIs

\* What the graph has of the workflow of a trace that shares its name with no other.
StepsOf(b, w) == {KeyOf(e[3])[2] : e \in {x \in b.edges : x[1] = "HAS_STEP" /\ x[2] = w}}
Executed(b, w, i) ==
  {KeyOf(e[3]) : e \in {x \in b.edges : x[1] = "EXECUTES" /\ KeyOf(x[2]) = <<KeyOf(w), i>>}}

\* A workflow of the graph has the steps of its trace, in their places.
LEMMA WorkflowIs ==
  ASSUME NEW s, NEW t \in s.traces, \A u \in s.traces : u.name = t.name => u = t
  PROVE  LET b == BuildGraphBatch(s)
             w == Node("Workflow", t.name)
         IN /\ StepsOf(b, w) = DOMAIN t.steps
            /\ \A i \in DOMAIN t.steps : Executed(b, w, i) = {t.steps[i]}
<1>. DEFINE b == BuildGraphBatch(s)
            w == Node("Workflow", t.name)
            step(u, i) == Node("Step", <<u.name, i>>)
            has(u, i) == Edge("HAS_STEP", Node("Workflow", u.name), step(u, i))
            executes(u, i) == Edge("EXECUTES", step(u, i), Method(u.steps[i]))
<1>1. ASSUME NEW u \in s.traces, NEW i \in DOMAIN u.steps
      PROVE  has(u, i) \in b.edges /\ executes(u, i) \in b.edges
  <2>1. /\ has(u, i) \in BuildWorkflowNodesAndEdges(s).edges
        /\ executes(u, i) \in BuildWorkflowNodesAndEdges(s).edges
    BY WorkflowPart
  <2>2. BuildWorkflowNodesAndEdges(s) \in PartsOf(s)
    BY DEF PartsOf
  <2>. QED
    BY <2>1, <2>2, BatchIs
<1>2. ASSUME NEW e \in b.edges, e[1] \in {"HAS_STEP", "EXECUTES"}
      PROVE  \E u \in s.traces : \E i \in DOMAIN u.steps :
               IF e[1] = "HAS_STEP" THEN e = has(u, i) ELSE e = executes(u, i)
  <2>1. e \in BuildWorkflowNodesAndEdges(s).edges
    BY <1>2, Origins
  <2>2. \A x, y : /\ Edge("HAS_WORKFLOW", x, y)[1] = "HAS_WORKFLOW" /\ Edge("HAS_STEP", x, y)[1] = "HAS_STEP"
                  /\ Edge("REALIZED_BY", x, y)[1] = "REALIZED_BY" /\ Edge("EXECUTES", x, y)[1] = "EXECUTES"
    BY DEF Edge
  <2>3. \/ \E u \in s.traces : \E c \in u.capability :
             e = Edge("HAS_WORKFLOW", Node("Feature", c), Node("Workflow", u.name))
        \/ \E u \in s.traces : \E i \in DOMAIN u.steps : e = has(u, i)
        \/ \E u \in s.traces : \E i \in DOMAIN u.steps :
             e = Edge("REALIZED_BY", Node("Workflow", u.name), Method(u.steps[i]))
        \/ \E u \in s.traces : \E i \in DOMAIN u.steps : e = executes(u, i)
    BY <2>1, WorkflowPart
  <2>4. CASE \E u \in s.traces : \E i \in DOMAIN u.steps : e = has(u, i)
    <3>1. e[1] = "HAS_STEP"
      BY <2>2, <2>4
    <3>. HIDE DEF has
    <3>. QED
      BY <2>4, <3>1
  <2>5. CASE \E u \in s.traces : \E i \in DOMAIN u.steps : e = executes(u, i)
    <3>1. e[1] = "EXECUTES"
      BY <2>2, <2>5
    <3>. HIDE DEF executes
    <3>. QED
      BY <2>5, <3>1
  <2>6. CASE \E u \in s.traces : \E c \in u.capability :
               e = Edge("HAS_WORKFLOW", Node("Feature", c), Node("Workflow", u.name))
    BY <1>2, <2>2, <2>6
  <2>7. CASE \E u \in s.traces : \E i \in DOMAIN u.steps :
               e = Edge("REALIZED_BY", Node("Workflow", u.name), Method(u.steps[i]))
    BY <1>2, <2>2, <2>7
  <2>. HIDE DEF has, executes
  <2>. QED
    BY <2>3, <2>4, <2>5, <2>6, <2>7
<1>3. \A u, i : /\ has(u, i)[1] = "HAS_STEP" /\ has(u, i)[2] = Node("Workflow", u.name)
                /\ KeyOf(has(u, i)[3])[2] = i
                /\ executes(u, i)[1] = "EXECUTES" /\ KeyOf(executes(u, i)[2]) = <<u.name, i>>
                /\ KeyOf(executes(u, i)[3]) = u.steps[i]
  BY DEF Edge, Node, Method, KeyOf
<1>4. \A u, v : Node("Workflow", u) = Node("Workflow", v) => u = v
  BY DEF Node
<1>5. KeyOf(w) = t.name
  BY DEF Node, KeyOf
<1>6. \A x, y, i, j : <<x, i>> = <<y, j>> => x = y /\ i = j
  OBVIOUS
<1>. HIDE DEF b, has, executes
<1>7. StepsOf(b, w) = DOMAIN t.steps
  <2>1. ASSUME NEW e \in b.edges, e[1] = "HAS_STEP", e[2] = w PROVE KeyOf(e[3])[2] \in DOMAIN t.steps
    <3>0. PICK u \in s.traces : \E i \in DOMAIN u.steps : e = has(u, i)
      BY <1>2, <2>1
    <3>1. PICK i \in DOMAIN u.steps : e = has(u, i)
      BY <3>0
    <3>2. u = t
      BY <1>3, <1>4, <2>1, <3>1
    <3>. QED
      BY <1>3, <3>1, <3>2
  <2>2. ASSUME NEW i \in DOMAIN t.steps
        PROVE  \E e \in b.edges : e[1] = "HAS_STEP" /\ e[2] = w /\ KeyOf(e[3])[2] = i
    BY <1>1, <1>3
  <2>. HIDE DEF w
  <2>. QED
    BY <2>1, <2>2 DEF StepsOf
<1>8. ASSUME NEW i \in DOMAIN t.steps PROVE Executed(b, w, i) = {t.steps[i]}
  <2>1. ASSUME NEW e \in b.edges, e[1] = "EXECUTES", KeyOf(e[2]) = <<KeyOf(w), i>>
        PROVE  KeyOf(e[3]) = t.steps[i]
    <3>0. PICK u \in s.traces : \E j \in DOMAIN u.steps : e = executes(u, j)
      BY <1>2, <2>1
    <3>1. PICK j \in DOMAIN u.steps : e = executes(u, j)
      BY <3>0
    <3>2. u.name = t.name /\ j = i
      BY <1>3, <1>5, <1>6, <2>1, <3>1
    <3>. QED
      BY <1>3, <3>1, <3>2
  <2>2. \E e \in b.edges : e[1] = "EXECUTES" /\ KeyOf(e[2]) = <<KeyOf(w), i>> /\ KeyOf(e[3]) = t.steps[i]
    <3>1. executes(t, i) \in b.edges
      BY <1>1
    <3>. HIDE DEF w
    <3>. QED
      BY <1>3, <1>5, <3>1
  <2>. DEFINE at == <<KeyOf(w), i>>
  <2>. HIDE DEF w, at
  <2>3. Executed(b, w, i) = {KeyOf(e[3]) : e \in {x \in b.edges : x[1] = "EXECUTES" /\ KeyOf(x[2]) = at}}
    BY DEF Executed, at
  <2>4. /\ \A e \in b.edges : e[1] = "EXECUTES" /\ KeyOf(e[2]) = at => KeyOf(e[3]) = t.steps[i]
        /\ \E e \in b.edges : e[1] = "EXECUTES" /\ KeyOf(e[2]) = at /\ KeyOf(e[3]) = t.steps[i]
    BY <2>1, <2>2 DEF at
  <2>. QED
    BY <2>3, <2>4
<1>. QED
  BY <1>7, <1>8 DEF b


\* Every workflow of the graph whose name is that of one entry point is a path of calls that
\* comes back to nothing: consecutive methods have a CALLS edge when both have nodes.
THEOREM WorkflowsArePaths == RunSpec => []WorkflowsFollowCalls
<1>1. RunInv => WorkflowsFollowCalls
  <2>. SUFFICES ASSUME RunInv, stage = "written", NEW w \in {n \in batch.nodes : n[1] = "Workflow"},
                       Cardinality({e \in EntryPoints(Parsed) : e.name = KeyOf(w)}) = 1
                PROVE  LET of(i) == {KeyOf(e[3]) : e \in {x \in EdgesOf("EXECUTES") : KeyOf(x[2]) = <<KeyOf(w), i>>}}
                           steps == {KeyOf(e[3])[2] : e \in {x \in EdgesOf("HAS_STEP") : x[2] = w}}
                       IN /\ steps = 1 .. Cardinality(steps)
                          /\ \A i \in steps : Cardinality(of(i)) = 1
                          /\ \A i, j \in steps : i # j => of(i) # of(j)
                          /\ \A i \in steps \ {1} : \A a \in of(i - 1), b \in of(i) :
                               \/ Edge("CALLS", Method(a), Method(b)) \in batch.edges
                               \/ Method(a) \notin batch.nodes \/ Method(b) \notin batch.nodes
    BY Zenon DEF WorkflowsFollowCalls
  <2>. DEFINE r == repository
              s == found
              calls == BuildCallGraph(ParsedModules(r))
              of(i) == {KeyOf(e[3]) : e \in {x \in EdgesOf("EXECUTES") : KeyOf(x[2]) = <<KeyOf(w), i>>}}
              steps == {KeyOf(e[3])[2] : e \in {x \in EdgesOf("HAS_STEP") : x[2] = w}}
  <2>0. steps = StepsOf(batch, w) /\ \A i : of(i) = Executed(batch, w, i)
    <3>1. steps = StepsOf(batch, w)
      BY DEF StepsOf, EdgesOf
    <3>2. ASSUME NEW i PROVE of(i) = Executed(batch, w, i)
      <4>. DEFINE at == <<KeyOf(w), i>>
      <4>. HIDE DEF at
      <4>1. {KeyOf(e[3]) : e \in {x \in EdgesOf("EXECUTES") : KeyOf(x[2]) = at}} =
            {KeyOf(e[3]) : e \in {x \in batch.edges : x[1] = "EXECUTES" /\ KeyOf(x[2]) = at}}
        BY DEF EdgesOf
      <4>. QED
        BY <4>1 DEF Executed, at
    <3>. QED
      BY <3>1, <3>2
  <2>1. /\ r \in Repositories /\ batch = BuildGraphBatch(s) /\ s.calls = calls
        /\ \E cs : s.traces = BuildWorkflowTraces(ParsedModules(r), cs)
    BY DEF RunInv, Analysed
  <2>2. PICK t \in s.traces : w = Node("Workflow", t.name)
    <3>1. w \in BuildWorkflowNodesAndEdges(s).nodes
      BY <2>1, Origins
    <3>2. \A k : Node("Step", k)[1] # "Workflow"
      BY DEF Node
    <3>3. \/ \E t \in s.traces : w = Node("Workflow", t.name)
          \/ \E t \in s.traces : \E i \in DOMAIN t.steps : w = Node("Step", <<t.name, i>>)
      BY <3>1, WorkflowPart
    <3>. QED
      BY <3>2, <3>3
  <2>3. KeyOf(w) = t.name
    BY <2>2 DEF KeyOf, Node
  <2>4. ASSUME NEW u \in s.traces, u.name = t.name PROVE u = t
    <3>1. PICK cs : s.traces = BuildWorkflowTraces(ParsedModules(r), cs)
      BY <2>1
    <3>2. Cardinality(EntriesNamed(r, t.name)) = 1
      BY <2>3 DEF Parsed, EntriesNamed
    <3>. HIDE DEF r, s
    <3>. QED
      BY <2>1, <2>4, <3>1, <3>2, OneTrace
  <2>5. steps = DOMAIN t.steps /\ \A i \in DOMAIN t.steps : of(i) = {t.steps[i]}
    <3>. HIDE DEF of, steps
    <3>. QED
      BY <2>0, <2>1, <2>2, <2>4, WorkflowIs
  <2>6. IsPath(calls, QNames(r), t.steps)
    BY <2>1, TraceIs
  <2>7. Len(t.steps) \in Nat /\ DOMAIN t.steps = 1..Len(t.steps)
    BY <2>6, Places DEF IsPath
  <2>. HIDE DEF steps, of, calls, r, s
  <2>8. steps = 1 .. Cardinality(steps)
    <3>1. Cardinality(1..Len(t.steps)) = Len(t.steps)
      BY <2>7, FS_Interval
    <3>. QED
      BY <2>5, <2>7, <3>1
  <2>9. \A i \in steps : Cardinality(of(i)) = 1
    BY <2>5, FS_Singleton
  <2>10. ASSUME NEW i \in steps, NEW j \in steps, i # j PROVE of(i) # of(j)
    <3>1. t.steps[i] # t.steps[j]
      BY <2>5, <2>6, <2>10 DEF IsPath
    <3>. QED
      BY <2>5, <3>1
  <2>11. ASSUME NEW i \in steps \ {1}, NEW a \in of(i - 1), NEW b \in of(i)
         PROVE  \/ Edge("CALLS", Method(a), Method(b)) \in batch.edges
                \/ Method(a) \notin batch.nodes \/ Method(b) \notin batch.nodes
    <3>1. i - 1 \in DOMAIN t.steps /\ i \in DOMAIN t.steps /\ i # 1
      BY <2>5, <2>7
    <3>2. a = t.steps[i - 1] /\ b = t.steps[i]
      BY <2>5, <3>1
    <3>3. PICK c \in ToSet(calls) : c.caller = a /\ c.callee = b
      BY <2>6, <3>1, <3>2 DEF IsPath
    <3>. QED
      BY <2>1, <3>3, CallEdges
  <2>. QED
    BY <2>8, <2>9, <2>10, <2>11, Zenon DEF steps, of
<1>. QED
  BY <1>1, RunInvariant, PTL


(***************************************************************************)
(* The ends of edges                                                       *)
(***************************************************************************)
\* What the findings of a repository have to do with each other.
Coherent(r, s) ==
  /\ \A c \in DOMAIN s.components : s.components[c] \subseteq s.files
  /\ s.dependencies \subseteq (DOMAIN s.components) \X (DOMAIN s.components)
  /\ s.symbols \in Seq(DefsOf(r))
  /\ \A e \in ToSet(s.symbols) : e \in DefsOf(r) /\ e.file \in s.files
  /\ \A e \in DefsOf(r) : \E x \in ToSet(s.symbols) : x.qn = e.qn
  /\ ToSet(s.lld) \subseteq DefsOf(r)
  /\ \A q \in s.requirements : q.file \in s.files
  /\ \A t \in s.traces : \A i \in DOMAIN t.steps : t.steps[i] \in QNames(r)
  /\ \A c \in s.conflicts : /\ \E x \in s.rules : x.id = c.rule
                            /\ \E t \in s.entities : t.name = c.table
  /\ \A t \in s.entities : t.name # NoType

\* A component's members are files that parse, and each is in one component only.
LEMMA ComponentsAre ==
  ASSUME NEW r \in Repositories
  PROVE  LET cs == Components(ParsedModules(r))
         IN /\ \A f \in DOMAIN cs : cs[f] = {r.sources[k].path : k \in {j \in DOMAIN r.sources : r.sources[j].folder = f}}
            /\ \A f \in DOMAIN cs : cs[f] \subseteq r.files
            /\ \A f, g \in DOMAIN cs : f # g => cs[f] \cap cs[g] = {}
<1>. DEFINE P == ParsedModules(r)
            cs == Components(P)
            n == Len(r.sources)
<1>1. /\ n \in Nat /\ DOMAIN r.sources = 1..n /\ DOMAIN P = 1..n
      /\ \A k \in 1..n : r.sources[k].path \in r.files
      /\ \A j, k \in 1..n : r.sources[j].path = r.sources[k].path => j = k
  BY RepositoryIs
<1>2. \A k \in 1..n : P[k].path = r.sources[k].path /\ P[k].folder = r.sources[k].folder
  BY <1>1, RepositoryIs, ParsedFile
<1>3. cs = [f \in {m.folder : m \in ToSet(P)} |-> {m.path : m \in {x \in ToSet(P) : x.folder = f}}]
  BY DEF Components
<1>. HIDE DEF P, cs, n
<1>4. ToSet(P) = {P[k] : k \in 1..n}
  BY <1>1 DEF ToSet
<1>5. ASSUME NEW f \in DOMAIN cs
      PROVE  cs[f] = {r.sources[k].path : k \in {j \in DOMAIN r.sources : r.sources[j].folder = f}}
  <2>1. cs[f] = {m.path : m \in {x \in ToSet(P) : x.folder = f}}
    BY <1>3, <1>5
  <2>. QED
    BY <1>1, <1>2, <1>4, <2>1
<1>6. \A f \in DOMAIN cs : cs[f] \subseteq r.files
  BY <1>1, <1>5
<1>7. \A f, g \in DOMAIN cs : f # g => cs[f] \cap cs[g] = {}
  BY <1>1, <1>5
<1>. QED
  BY <1>5, <1>6, <1>7 DEF cs, P

\* Entities have names.
LEMMA EntitiesNamed ==
  ASSUME NEW r \in Repositories, NEW t \in DataEntities(ParsedModules(r), r.tables)
  PROVE  t.name # NoType
<1>. DEFINE P == ParsedModules(r)
            n == Len(r.sources)
            lists == [k \in DOMAIN P |-> P[k].classes]
            all == FlattenSeq(lists)
            at == {i \in DOMAIN all : all[i].orm}
            orm == Entries(all, at)
<1>1. n \in Nat /\ DOMAIN r.sources = 1..n /\ DOMAIN P = 1..n
  BY RepositoryIs
<1>2. ASSUME NEW k \in 1..n PROVE P[k].classes \in Seq(DefsOf(r))
  <2>1. P[k].classes \in Seq(SymbolsOf(r.sources[k])) /\ SymbolsOf(r.sources[k]) \subseteq DefsOf(r)
    BY <1>1, RepositoryIs, ParsedFile DEF DefsOf
  <2>. HIDE DEF P
  <2>. QED
    BY <2>1
<1>3. \/ \E c \in ToSet(orm) : t.name = c.name
      \/ \E u \in r.tables : t.name = u.name
  <2>. DEFINE last(x) == orm[SelectLastInSeq(orm, LAMBDA c : c.name = x)]
              names == {c.name : c \in ToSet(orm)}
              free == {u \in r.tables : u.name \notin names}
              A == {[name |-> x, file |-> last(x).file, fields |-> last(x).fields] : x \in names}
              B == {[name |-> u.name, file |-> u.file, fields |-> u.fields] : u \in free}
  <2>1. DataEntities(P, r.tables) = A \cup B
    BY DEF DataEntities, Having
  <2>. HIDE DEF last, orm
  <2>2. \A x \in A : \E c \in ToSet(orm) : x.name = c.name
    OBVIOUS
  <2>3. \A x \in B : \E u \in r.tables : x.name = u.name
    OBVIOUS
  <2>. HIDE DEF A, B
  <2>. QED
    BY <2>1, <2>2, <2>3
<1>. HIDE DEF P, n
<1>4. lists = [k \in 1..n |-> lists[k]] /\ DOMAIN lists = 1..n /\ \A k \in 1..n : lists[k] \in Seq(DefsOf(r))
  BY <1>1, <1>2
<1>. HIDE DEF lists
<1>5. lists \in Seq(Seq(DefsOf(r)))
  BY <1>1, <1>4, Arranged
<1>6. all \in Seq(DefsOf(r))
  BY <1>5, FlattenedSet
<1>. HIDE DEF all
<1>7. orm \in Seq(DefsOf(r))
  <2>1. at \subseteq DOMAIN all
    OBVIOUS
  <2>. HIDE DEF at
  <2>. QED
    BY <1>6, <2>1, EntriesSet
<1>. HIDE DEF orm
<1>8. \A c \in ToSet(orm) : c.name # NoType
  <2>1. \A c \in ToSet(orm) : c \in DefsOf(r)
    BY <1>7 DEF ToSet
  <2>. QED
    BY <2>1, DefIs
<1>9. \A u \in r.tables : u.name # NoType
  BY RepositoryAssumption
<1>. QED
  BY <1>3, <1>8, <1>9

\* Requirements are of files of the repository.
LEMMA RequirementsAre ==
  ASSUME NEW r \in Repositories, NEW q \in FRDExtractor(ParsedModules(r))
  PROVE  q.file \in r.files
<1>. DEFINE P == ParsedModules(r)
            n == Len(r.sources)
<1>1. PICK m \in ToSet(P) : \E f \in ToSet(m.functions) : q.file = f.file
  BY DEF FRDExtractor
<1>2. PICK f \in ToSet(m.functions) : q.file = f.file
  BY <1>1
<1>3. n \in Nat /\ DOMAIN r.sources = 1..n /\ DOMAIN P = 1..n
  BY RepositoryIs
<1>4. PICK k \in DOMAIN r.sources : m = P[k]
  BY <1>1, <1>3 DEF ToSet
<1>5. ToSet(m.functions) \subseteq SymbolsOf(r.sources[k])
  BY <1>4, DefsOfFile
<1>6. f \in DefsOf(r)
  BY <1>2, <1>5 DEF DefsOf
<1>. QED
  BY <1>2, <1>6, DefIs

\* What is analysed is coherent.
LEMMA AnalysedCoherent ==
  ASSUME NEW r \in Repositories, NEW s, Analysed(r, s)
  PROVE  Coherent(r, s)
<1>. DEFINE P == ParsedModules(r)
<1>1. \A c \in DOMAIN s.components : s.components[c] \subseteq s.files
  <2>1. CASE s.components = Components(P)
    BY <2>1, ComponentsAre DEF Analysed
  <2>2. CASE s.components = <<>>
    BY <2>2
  <2>. QED
    BY <2>1, <2>2 DEF Analysed
<1>2. s.dependencies \subseteq (DOMAIN s.components) \X (DOMAIN s.components)
  BY DEF Analysed, ComponentEdges
<1>3. ASSUME NEW e \in ToSet(s.symbols) PROVE e \in DefsOf(r) /\ e.file \in s.files
  <2>1. e \in DefsOf(r)
    BY SymbolTable DEF Analysed, ToSet
  <2>. QED
    BY <2>1, DefIs DEF Analysed
<1>4. \A e \in DefsOf(r) : \E x \in ToSet(s.symbols) : x.qn = e.qn
  BY SymbolTable DEF Analysed
<1>5. ToSet(s.lld) \subseteq DefsOf(r)
  <2>1. CASE s.lld = LLDParser(P)
    <3>1. LLDParser(P) \in Seq(DefsOf(r))
      BY DefsListed
    <3>. HIDE DEF P
    <3>. QED
      BY <2>1, <3>1 DEF ToSet
  <2>2. CASE s.lld = <<>>
    BY <2>2 DEF ToSet
  <2>. QED
    BY <2>1, <2>2 DEF Analysed
<1>6. \A q \in s.requirements : q.file \in s.files
  BY RequirementsAre DEF Analysed
<1>7. \A t \in s.traces : \A i \in DOMAIN t.steps : t.steps[i] \in QNames(r)
  <2>1. \A t \in s.traces : IsPath(BuildCallGraph(P), QNames(r), t.steps)
    BY TraceIs DEF Analysed
  <2>. QED
    BY <2>1 DEF IsPath
<1>8. ASSUME NEW c \in s.conflicts
      PROVE  (\E x \in s.rules : x.id = c.rule) /\ (\E t \in s.entities : t.name = c.table)
  <2>1. s.rules = r.rules /\ s.conflicts = r.conflicts /\ s.entities = DataEntities(P, r.tables)
    BY <1>8 DEF Analysed
  <2>2. /\ c.rule \in {x.id : x \in r.rules}
        /\ c.table \in {t.name : t \in DataEntities(P, r.tables)}
    BY <2>1, RepositoryAssumption
  <2>. HIDE DEF P
  <2>. QED
    BY <2>1, <2>2
<1>9. \A t \in s.entities : t.name # NoType
  BY EntitiesNamed DEF Analysed
<1>10. s.symbols \in Seq(DefsOf(r))
  BY SymbolTable DEF Analysed
<1>. QED
  BY <1>1, <1>2, <1>3, <1>4, <1>5, <1>6, <1>7, <1>8, <1>9, <1>10 DEF Coherent


\* The nodes of what was found.
LEMMA NodesThere ==
  ASSUME NEW s
  PROVE  LET N == BuildGraphBatch(s).nodes
         IN /\ Node("Repository", s.repo) \in N /\ Node("Database", s.repo) \in N
            /\ \A f \in s.files : Node("File", f) \in N
            /\ \A c \in DOMAIN s.components : Node("Service", c) \in N
            /\ \A e \in Classes(s) : Node("Class", e.qn) \in N
            /\ \A e \in Methods(s) : Method(e.qn) \in N
            /\ \A t \in s.entities : Node("Table", t.name) \in N
            /\ \A c \in s.clusters : Capability(c) \in N /\ Feature(c) \in N
            /\ \A t \in s.traces : /\ Node("Workflow", t.name) \in N
                                   /\ \A i \in DOMAIN t.steps : Node("Step", <<t.name, i>>) \in N
            /\ \A x \in s.rules : Node("BusinessRule", x.id) \in N
            /\ \A q \in s.requirements : Node("Requirement", q.ref) \in N
<1>. DEFINE N == BuildGraphBatch(s).nodes
<1>1. \A p \in PartsOf(s) : p.nodes \subseteq N
  BY BatchIs
<1>. HIDE DEF N
<1>2. Node("Repository", s.repo) \in N
  <2>1. Node("Repository", s.repo) \in BuildRepositoryNode(s).nodes
    BY DEF BuildRepositoryNode, Part
  <2>2. BuildRepositoryNode(s) \in PartsOf(s)
    BY DEF PartsOf
  <2>. QED
    BY <1>1, <2>1, <2>2
<1>3. Node("Database", s.repo) \in N /\ \A t \in s.entities : Node("Table", t.name) \in N
  <2>1. /\ Node("Database", s.repo) \in BuildTableAndDatabaseNodesAndEdges(s).nodes
        /\ \A t \in s.entities : Node("Table", t.name) \in BuildTableAndDatabaseNodesAndEdges(s).nodes
    BY DEF BuildTableAndDatabaseNodesAndEdges, Part
  <2>2. BuildTableAndDatabaseNodesAndEdges(s) \in PartsOf(s)
    BY DEF PartsOf
  <2>. QED
    BY <1>1, <2>1, <2>2
<1>4. \A f \in s.files : Node("File", f) \in N
  <2>1. \A f \in s.files : Node("File", f) \in BuildFileNodes(s).nodes
    BY DEF BuildFileNodes, Part, NodesOf
  <2>2. BuildFileNodes(s) \in PartsOf(s)
    BY DEF PartsOf
  <2>. QED
    BY <1>1, <2>1, <2>2
<1>5. \A c \in DOMAIN s.components : Node("Service", c) \in N
  <2>1. \A c \in DOMAIN s.components : Node("Service", c) \in BuildServiceNodesAndEdges(s).nodes
    BY DEF BuildServiceNodesAndEdges, Part, NodesOf
  <2>2. BuildServiceNodesAndEdges(s) \in PartsOf(s)
    BY DEF PartsOf
  <2>. QED
    BY <1>1, <2>1, <2>2
<1>6. (\A e \in Classes(s) : Node("Class", e.qn) \in N) /\ \A e \in Methods(s) : Method(e.qn) \in N
  <2>1. /\ \A e \in Classes(s) : Node("Class", e.qn) \in BuildClassAndMethodNodes(s).nodes
        /\ \A e \in Methods(s) : Method(e.qn) \in BuildClassAndMethodNodes(s).nodes
    BY DEF BuildClassAndMethodNodes, Part, NodesOf, Method
  <2>2. BuildClassAndMethodNodes(s) \in PartsOf(s)
    BY DEF PartsOf
  <2>. QED
    BY <1>1, <2>1, <2>2
<1>7. \A c \in s.clusters : Capability(c) \in N /\ Feature(c) \in N
  <2>1. \A c \in s.clusters : /\ Capability(c) \in BuildBusinessCapabilityNodes(s).nodes
                              /\ Feature(c) \in BuildFeatureNodesAndEdges(s).nodes
    BY DEF BuildBusinessCapabilityNodes, BuildFeatureNodesAndEdges, Part
  <2>2. BuildBusinessCapabilityNodes(s) \in PartsOf(s) /\ BuildFeatureNodesAndEdges(s) \in PartsOf(s)
    BY DEF PartsOf
  <2>. QED
    BY <1>1, <2>1, <2>2
<1>8. \A t \in s.traces : /\ Node("Workflow", t.name) \in N
                          /\ \A i \in DOMAIN t.steps : Node("Step", <<t.name, i>>) \in N
  <2>1. BuildWorkflowNodesAndEdges(s) \in PartsOf(s)
    BY DEF PartsOf
  <2>2. BuildWorkflowNodesAndEdges(s).nodes \subseteq N
    BY <1>1, <2>1
  <2>3. ASSUME NEW t \in s.traces
        PROVE  Node("Workflow", t.name) \in BuildWorkflowNodesAndEdges(s).nodes
    BY WorkflowPart
  <2>4. ASSUME NEW t \in s.traces, NEW i \in DOMAIN t.steps
        PROVE  Node("Step", <<t.name, i>>) \in BuildWorkflowNodesAndEdges(s).nodes
    BY WorkflowPart
  <2>. QED
    BY <2>2, <2>3, <2>4
<1>9. \A x \in s.rules : Node("BusinessRule", x.id) \in N
  <2>1. \A x \in s.rules : Node("BusinessRule", x.id) \in BuildBusinessRuleNodes(s).nodes
    BY DEF BuildBusinessRuleNodes, Part, NodesOf
  <2>2. BuildBusinessRuleNodes(s) \in PartsOf(s)
    BY DEF PartsOf
  <2>. QED
    BY <1>1, <2>1, <2>2
<1>10. \A q \in s.requirements : Node("Requirement", q.ref) \in N
  <2>1. \A q \in s.requirements : Node("Requirement", q.ref) \in BuildRequirementNodes(s).nodes
    BY DEF BuildRequirementNodes, Part, NodesOf
  <2>2. BuildRequirementNodes(s) \in PartsOf(s)
    BY DEF PartsOf
  <2>. QED
    BY <1>1, <2>1, <2>2
<1>. QED
  BY <1>2, <1>3, <1>4, <1>5, <1>6, <1>7, <1>8, <1>9, <1>10 DEF N

\* Both ends of an edge have a node.
Ended(s, e) == e[2] \in BuildGraphBatch(s).nodes /\ e[3] \in BuildGraphBatch(s).nodes

\* The edges of parts that bring nodes of their own.
LEMMA OwnEnds ==
  ASSUME NEW r, NEW s, Coherent(r, s)
  PROVE  /\ \A e \in BuildServiceNodesAndEdges(s).edges : Ended(s, e)
         /\ \A e \in BuildParameterNodesAndEdges(s).edges : Ended(s, e)
         /\ \A e \in BuildFieldNodesAndEdges(s).edges : Ended(s, e)
         /\ \A e \in BuildApiNodesAndEdges(s).edges : Ended(s, e)
         /\ \A e \in BuildFeatureNodesAndEdges(s).edges : Ended(s, e)
         /\ \A e \in BuildGapNodeAndEdges(s).edges : Ended(s, e)
         /\ \A e \in BuildTestCaseNodesAndEdges(s).edges : Ended(s, e)
<1>0. \A p \in PartsOf(s) : p.nodes \subseteq BuildGraphBatch(s).nodes
  BY BatchIs
<1>e. \A type, x, y : Edge(type, x, y)[2] = x /\ Edge(type, x, y)[3] = y
  BY DEF Edge
<1>1. ASSUME NEW e \in BuildServiceNodesAndEdges(s).edges PROVE Ended(s, e)
  <2>1. CASE \E c \in DOMAIN s.components : e = Edge("CONTAINS", Node("Repository", s.repo), Node("Service", c))
    BY <1>e, <2>1, NodesThere DEF Ended
  <2>2. CASE \E c \in DOMAIN s.components : \E f \in s.components[c] :
               e = Edge("CONTAINS", Node("Service", c), Node("File", f))
    <3>1. \A c \in DOMAIN s.components : s.components[c] \subseteq s.files
      BY DEF Coherent
    <3>. QED
      BY <1>e, <2>2, <3>1, NodesThere DEF Ended
  <2>3. CASE \E d \in s.dependencies : e = Edge("DEPENDS_ON", Node("Service", d[1]), Node("Service", d[2]))
    <3>1. \A d \in s.dependencies : d[1] \in DOMAIN s.components /\ d[2] \in DOMAIN s.components
      BY DEF Coherent
    <3>. QED
      BY <1>e, <2>3, <3>1, NodesThere DEF Ended
  <2>. QED
    BY <2>1, <2>2, <2>3, ServicePart
<1>2. ASSUME NEW e \in BuildParameterNodesAndEdges(s).edges PROVE Ended(s, e)
  <2>. DEFINE entries == {x \in ToSet(s.lld) : Method(x.qn) \in BuildClassAndMethodNodes(s).nodes}
              places(x) == {i \in DOMAIN x.params : x.params[i] \notin {"self", "cls"}}
              parameter(x, i) == Node("Parameter", <<x.qn, i, x.params[i]>>)
  <2>1. BuildParameterNodesAndEdges(s) =
          Part(UNION {{parameter(x, i) : i \in places(x)} : x \in entries},
               UNION {{Edge("HAS_PARAMETER", Method(x.qn), parameter(x, i)) : i \in places(x)} : x \in entries})
    BY DEF BuildParameterNodesAndEdges
  <2>2. \A x \in entries : Method(x.qn) \in BuildClassAndMethodNodes(s).nodes
    OBVIOUS
  <2>. HIDE DEF entries, places, parameter
  <2>3. PICK x \in entries : \E i \in places(x) : e = Edge("HAS_PARAMETER", Method(x.qn), parameter(x, i))
    BY <2>1 DEF Part
  <2>4. PICK i \in places(x) : e = Edge("HAS_PARAMETER", Method(x.qn), parameter(x, i))
    BY <2>3
  <2>5. parameter(x, i) \in BuildParameterNodesAndEdges(s).nodes
    BY <2>1 DEF Part
  <2>6. BuildClassAndMethodNodes(s) \in PartsOf(s) /\ BuildParameterNodesAndEdges(s) \in PartsOf(s)
    BY DEF PartsOf
  <2>. QED
    BY <1>0, <1>e, <2>2, <2>4, <2>5, <2>6 DEF Ended
<1>3. ASSUME NEW e \in BuildFieldNodesAndEdges(s).edges PROVE Ended(s, e)
  <2>. DEFINE field(t, f) == Node("Field", <<t.name, f.name>>)
  <2>1. BuildFieldNodesAndEdges(s) =
          Part(UNION {{field(t, f) : f \in ToSet(t.fields)} : t \in s.entities},
               UNION {{Edge("HAS_FIELD", Node("Table", t.name), field(t, f)) : f \in ToSet(t.fields)} :
                        t \in s.entities})
    BY DEF BuildFieldNodesAndEdges
  <2>. HIDE DEF field
  <2>2. PICK t \in s.entities : \E f \in ToSet(t.fields) : e = Edge("HAS_FIELD", Node("Table", t.name), field(t, f))
    BY <2>1 DEF Part
  <2>3. PICK f \in ToSet(t.fields) : e = Edge("HAS_FIELD", Node("Table", t.name), field(t, f))
    BY <2>2
  <2>4. field(t, f) \in BuildFieldNodesAndEdges(s).nodes
    BY <2>1 DEF Part
  <2>5. BuildFieldNodesAndEdges(s) \in PartsOf(s)
    BY DEF PartsOf
  <2>. QED
    BY <1>0, <1>e, <2>3, <2>4, <2>5, NodesThere DEF Ended
<1>4. ASSUME NEW e \in BuildApiNodesAndEdges(s).edges PROVE Ended(s, e)
  <2>. DEFINE api(c) == Node("API", <<c.route, c.method>>)
  <2>1. BuildApiNodesAndEdges(s) =
          Part({api(c) : c \in s.contracts},
               UNION {{Edge("EXPOSES", Node("Service", x), api(c)) : x \in ComponentForFile(s, c.file)} :
                        c \in s.contracts})
    BY DEF BuildApiNodesAndEdges
  <2>. HIDE DEF api
  <2>2. PICK c \in s.contracts : \E x \in ComponentForFile(s, c.file) : e = Edge("EXPOSES", Node("Service", x), api(c))
    BY <2>1 DEF Part
  <2>3. PICK x \in ComponentForFile(s, c.file) : e = Edge("EXPOSES", Node("Service", x), api(c))
    BY <2>2
  <2>4. x \in DOMAIN s.components
    BY DEF ComponentForFile
  <2>5. api(c) \in BuildApiNodesAndEdges(s).nodes
    BY <2>1 DEF Part
  <2>6. BuildApiNodesAndEdges(s) \in PartsOf(s)
    BY DEF PartsOf
  <2>. QED
    BY <1>0, <1>e, <2>3, <2>4, <2>5, <2>6, NodesThere DEF Ended
<1>5. ASSUME NEW e \in BuildFeatureNodesAndEdges(s).edges PROVE Ended(s, e)
  <2>1. PICK c \in s.clusters : e = Edge("HAS_FEATURE", Capability(c), Feature(c))
    BY DEF BuildFeatureNodesAndEdges, Part
  <2>. QED
    BY <1>e, <2>1, NodesThere DEF Ended
<1>6. ASSUME NEW e \in BuildGapNodeAndEdges(s).edges PROVE Ended(s, e)
  <2>1. BuildGapNodeAndEdges(s) =
          Part(NodesOf("Gap", s.gaps), {Edge("HAS_GAP", Capability(c), Node("Gap", g)) : c \in s.clusters, g \in s.gaps})
    BY DEF BuildGapNodeAndEdges
  <2>2. PICK c \in s.clusters, g \in s.gaps : e = Edge("HAS_GAP", Capability(c), Node("Gap", g))
    BY <2>1 DEF Part
  <2>3. Node("Gap", g) \in BuildGapNodeAndEdges(s).nodes
    BY <2>1 DEF Part, NodesOf
  <2>4. BuildGapNodeAndEdges(s) \in PartsOf(s)
    BY DEF PartsOf
  <2>. QED
    BY <1>0, <1>e, <2>2, <2>3, <2>4, NodesThere DEF Ended
<1>7. ASSUME NEW e \in BuildTestCaseNodesAndEdges(s).edges PROVE Ended(s, e)
  <2>1. BuildTestCaseNodesAndEdges(s) =
          Part(NodesOf("TestCase", UNION {q.tests : q \in s.requirements}),
               UNION {{Edge("VALIDATES", Node("TestCase", t), Node("Requirement", q.ref)) : t \in q.tests} :
                        q \in s.requirements})
    BY DEF BuildTestCaseNodesAndEdges
  <2>2. PICK q \in s.requirements : \E t \in q.tests : e = Edge("VALIDATES", Node("TestCase", t), Node("Requirement", q.ref))
    BY <2>1 DEF Part
  <2>3. PICK t \in q.tests : e = Edge("VALIDATES", Node("TestCase", t), Node("Requirement", q.ref))
    BY <2>2
  <2>4. Node("TestCase", t) \in BuildTestCaseNodesAndEdges(s).nodes
    BY <2>1 DEF Part, NodesOf
  <2>5. BuildTestCaseNodesAndEdges(s) \in PartsOf(s)
    BY DEF PartsOf
  <2>. QED
    BY <1>0, <1>e, <2>3, <2>4, <2>5, NodesThere DEF Ended
<1>. QED
  BY <1>1, <1>2, <1>3, <1>4, <1>5, <1>6, <1>7


\* The method that encloses a rule is one of the symbols.
LEMMA EnclosingIsMethod ==
  ASSUME NEW r, NEW s, Coherent(r, s), NEW file, NEW line, NEW q \in EnclosingMethod(s, file, line)
  PROVE  \E e \in Methods(s) : q = e.qn
<1>. DEFINE t == s.symbols
            I == {i \in 1..Len(t) : /\ t[i].kind # "class" /\ t[i].file = file
                                    /\ t[i].first <= line /\ line <= t[i].last}
            k == IF I # {} THEN Min(I) ELSE 0
<1>1. q \in IF k = 0 THEN {} ELSE {t[k].qn}
  BY DEF EnclosingMethod, SelectInSeq
<1>2. Len(t) \in Nat /\ DOMAIN t = 1..Len(t)
  BY DEF Coherent
<1>3. I \subseteq 1..Len(t) /\ \A i \in I : t[i].kind # "class"
  OBVIOUS
<1>. HIDE DEF I
<1>4. I # {} => Min(I) \in I
  BY <1>2, <1>3, Extremes
<1>5. k \in I /\ q = t[k].qn
  BY <1>1, <1>4
<1>6. t[k] \in ToSet(t) /\ t[k].kind # "class"
  BY <1>2, <1>3, <1>5 DEF ToSet
<1>. QED
  BY <1>5, <1>6 DEF Methods

\* The edges between nodes of other parts that always have both.
LEMMA OtherEnds ==
  ASSUME NEW r, NEW s, Coherent(r, s)
  PROVE  /\ \A e \in BuildFeatureImplementedByEdges(s).edges : Ended(s, e)
         /\ \A e \in BuildBusinessRuleImplementedByEdges(s).edges : Ended(s, e)
         /\ \A e \in BuildRequirementImplementedByEdges(s).edges : Ended(s, e)
         /\ \A e \in BuildConflictEdges(s).edges : Ended(s, e)
<1>e. \A type, x, y : Edge(type, x, y)[2] = x /\ Edge(type, x, y)[3] = y
  BY DEF Edge
<1>1. ASSUME NEW e \in BuildFeatureImplementedByEdges(s).edges PROVE Ended(s, e)
  <2>1. PICK c \in s.clusters : \E x \in DOMAIN s.components : e = Edge("IMPLEMENTED_BY", Feature(c), Node("Service", x))
    BY DEF BuildFeatureImplementedByEdges, Part
  <2>. QED
    BY <1>e, <2>1, NodesThere DEF Ended
<1>2. ASSUME NEW e \in BuildBusinessRuleImplementedByEdges(s).edges PROVE Ended(s, e)
  <2>1. PICK x \in s.rules : \E q \in EnclosingMethod(s, x.file, x.line) :
               e = Edge("IMPLEMENTED_BY", Node("BusinessRule", x.id), Method(q))
    BY DEF BuildBusinessRuleImplementedByEdges, Part
  <2>2. PICK q \in EnclosingMethod(s, x.file, x.line) :
               e = Edge("IMPLEMENTED_BY", Node("BusinessRule", x.id), Method(q))
    BY <2>1
  <2>3. \E m \in Methods(s) : q = m.qn
    BY EnclosingIsMethod
  <2>. QED
    BY <1>e, <2>2, <2>3, NodesThere DEF Ended
<1>3. ASSUME NEW e \in BuildRequirementImplementedByEdges(s).edges PROVE Ended(s, e)
  <2>1. PICK q \in s.requirements : e = Edge("IMPLEMENTS", Node("File", q.file), Node("Requirement", q.ref))
    BY DEF BuildRequirementImplementedByEdges, Part
  <2>2. q.file \in s.files
    BY DEF Coherent
  <2>. QED
    BY <1>e, <2>1, <2>2, NodesThere DEF Ended
<1>4. ASSUME NEW e \in BuildConflictEdges(s).edges PROVE Ended(s, e)
  <2>1. PICK c \in s.conflicts : e = Edge("CONFLICTS_WITH", Node("BusinessRule", c.rule), Node("Table", c.table))
    BY DEF BuildConflictEdges, Part
  <2>2. (\E x \in s.rules : x.id = c.rule) /\ \E t \in s.entities : t.name = c.table
    BY DEF Coherent
  <2>. QED
    BY <1>e, <2>1, <2>2, NodesThere DEF Ended
<1>. QED
  BY <1>1, <1>2, <1>3, <1>4

\* The edges that may lack an end, and when.
LEMMA MayLackEnds ==
  ASSUME repository \in Repositories, NEW s, Coherent(repository, s)
  PROVE  /\ \A e \in BuildTableAndDatabaseNodesAndEdges(s).edges :
              Ended(s, e) \/ /\ e[1] = "DEPENDS_ON" /\ e[2][1] = "Table"
                             /\ \A t \in s.entities : t.name # KeyOf(e[3])
         /\ \A e \in BuildDefinesAndCallsEdges(s).edges :
              Ended(s, e) \/ /\ e[1] = "DEFINES" /\ e[2][1] = "Class"
                             /\ \A c \in Classes(s) : c.qn # KeyOf(e[2])
         /\ \A e \in BuildWorkflowNodesAndEdges(s).edges :
              \/ Ended(s, e)
              \/ e[1] \in {"REALIZED_BY", "EXECUTES"} /\ \E c \in Classes(s) : c.qn = KeyOf(e[3])
              \/ e[1] = "HAS_WORKFLOW" /\ \A c \in s.clusters : c.name # KeyOf(e[2])
         /\ \A e \in BuildMethodReturnsEdges(s).edges :
              Ended(s, e) \/ (e[1] = "RETURNS" /\ DefinedTwice(KeyOf(e[2])))
<1>e. \A type, x, y : Edge(type, x, y)[1] = type /\ Edge(type, x, y)[2] = x /\ Edge(type, x, y)[3] = y
  BY DEF Edge
<1>n. \A label, key : Node(label, key)[1] = label /\ KeyOf(Node(label, key)) = key /\ KeyOf(Method(key)) = key
  BY DEF Node, KeyOf, Method
<1>s. \A x \in ToSet(s.symbols) : x \in Classes(s) \/ x \in Methods(s)
  BY DEF Classes, Methods
<1>1. ASSUME NEW e \in BuildTableAndDatabaseNodesAndEdges(s).edges
      PROVE  Ended(s, e) \/ /\ e[1] = "DEPENDS_ON" /\ e[2][1] = "Table"
                            /\ \A t \in s.entities : t.name # KeyOf(e[3])
  <2>1. CASE \E t \in s.entities : e = Edge("BELONGS_TO", Node("Table", t.name), Node("Database", s.repo))
    BY <1>e, <2>1, NodesThere DEF Ended
  <2>2. CASE \E t \in s.entities : \E c \in ComponentForFile(s, t.file) :
               e = Edge("OWNS", Node("Service", c), Node("Table", t.name))
    <3>1. \A file : ComponentForFile(s, file) \subseteq DOMAIN s.components
      BY DEF ComponentForFile
    <3>. QED
      BY <1>e, <2>2, <3>1, NodesThere DEF Ended
  <2>3. CASE \E t \in s.entities : \E f \in ToSet(t.fields) :
               f.ref # NoRef /\ e = Edge("DEPENDS_ON", Node("Table", t.name), Node("Table", f.ref))
    <3>1. PICK t \in s.entities : \E f \in ToSet(t.fields) :
                 e = Edge("DEPENDS_ON", Node("Table", t.name), Node("Table", f.ref))
      BY <2>3
    <3>2. PICK f \in ToSet(t.fields) : e = Edge("DEPENDS_ON", Node("Table", t.name), Node("Table", f.ref))
      BY <3>1
    <3>3. e[1] = "DEPENDS_ON" /\ e[2] = Node("Table", t.name) /\ e[3] = Node("Table", f.ref)
      BY <1>e, <3>2
    <3>4. e[2][1] = "Table" /\ KeyOf(e[3]) = f.ref
      BY <1>n, <3>3
    <3>5. CASE \E u \in s.entities : u.name = f.ref
      BY <3>3, <3>5, NodesThere DEF Ended
    <3>. QED
      BY <3>3, <3>4, <3>5
  <2>. QED
    BY <2>1, <2>2, <2>3, TablePart
<1>2. ASSUME NEW e \in BuildDefinesAndCallsEdges(s).edges
      PROVE  Ended(s, e) \/ /\ e[1] = "DEFINES" /\ e[2][1] = "Class"
                            /\ \A c \in Classes(s) : c.qn # KeyOf(e[2])
  <2>. DEFINE known == {x.qn : x \in Methods(s)}
              sites == {x \in ToSet(s.calls) : x.caller \in known /\ x.callee \in known}
  <2>1. \/ \E c \in Classes(s) : e = Edge("DEFINES", Node("File", c.file), Node("Class", c.qn))
        \/ \E m \in Methods(s) : e = Edge("DEFINES", DefinedBy(m), Method(m.qn))
        \/ \E c \in sites : e = Edge("CALLS", Method(c.caller), Method(c.callee))
    BY DEF BuildDefinesAndCallsEdges, Part
  <2>2. \A x \in ToSet(s.symbols) : x.file \in s.files
    BY DEF Coherent
  <2>3. Classes(s) \subseteq ToSet(s.symbols) /\ Methods(s) \subseteq ToSet(s.symbols)
    BY DEF Classes, Methods
  <2>4. CASE \E c \in Classes(s) : e = Edge("DEFINES", Node("File", c.file), Node("Class", c.qn))
    BY <1>e, <2>2, <2>3, <2>4, NodesThere DEF Ended
  <2>5. CASE \E m \in Methods(s) : e = Edge("DEFINES", DefinedBy(m), Method(m.qn))
    <3>1. PICK m \in Methods(s) : e = Edge("DEFINES", DefinedBy(m), Method(m.qn))
      BY <2>5
    <3>2. e[1] = "DEFINES" /\ e[2] = DefinedBy(m) /\ e[3] \in BuildGraphBatch(s).nodes
      BY <1>e, <3>1, NodesThere
    <3>3. DefinedBy(m) = Node("Class", m.parent) \/ DefinedBy(m) = Node("File", m.file)
      BY DEF DefinedBy
    <3>4. CASE DefinedBy(m) = Node("File", m.file)
      BY <2>2, <2>3, <3>2, <3>4, NodesThere DEF Ended
    <3>5. CASE DefinedBy(m) = Node("Class", m.parent)
      <4>1. e[2][1] = "Class" /\ KeyOf(e[2]) = m.parent
        BY <1>n, <3>2, <3>5
      <4>2. CASE \E c \in Classes(s) : c.qn = m.parent
        BY <3>2, <3>5, <4>2, NodesThere DEF Ended
      <4>. QED
        BY <3>2, <4>1, <4>2
    <3>. QED
      BY <3>3, <3>4, <3>5
  <2>6. CASE \E c \in sites : e = Edge("CALLS", Method(c.caller), Method(c.callee))
    <3>1. \A q \in known : Method(q) \in BuildGraphBatch(s).nodes
      BY NodesThere
    <3>2. \A c \in sites : c.caller \in known /\ c.callee \in known
      OBVIOUS
    <3>. HIDE DEF sites, known
    <3>. QED
      BY <1>e, <2>6, <3>1, <3>2 DEF Ended
  <2>. HIDE DEF sites, known
  <2>. QED
    BY <2>1, <2>4, <2>5, <2>6
<1>3. ASSUME NEW e \in BuildWorkflowNodesAndEdges(s).edges
      PROVE  \/ Ended(s, e)
             \/ e[1] \in {"REALIZED_BY", "EXECUTES"} /\ \E c \in Classes(s) : c.qn = KeyOf(e[3])
             \/ e[1] = "HAS_WORKFLOW" /\ \A c \in s.clusters : c.name # KeyOf(e[2])
  <2>. DEFINE step(t, i) == Node("Step", <<t.name, i>>)
  <2>0. \A t \in s.traces : \A i \in DOMAIN t.steps : step(t, i) \in BuildGraphBatch(s).nodes
    BY NodesThere
  <2>1. \/ \E t \in s.traces : \E c \in t.capability :
             e = Edge("HAS_WORKFLOW", Node("Feature", c), Node("Workflow", t.name))
        \/ \E t \in s.traces : \E i \in DOMAIN t.steps :
             \/ e = Edge("HAS_STEP", Node("Workflow", t.name), step(t, i))
             \/ e = Edge("REALIZED_BY", Node("Workflow", t.name), Method(t.steps[i]))
             \/ e = Edge("EXECUTES", step(t, i), Method(t.steps[i]))
    BY WorkflowPart
  <2>. HIDE DEF step
  <2>2. CASE \E t \in s.traces : \E c \in t.capability :
               e = Edge("HAS_WORKFLOW", Node("Feature", c), Node("Workflow", t.name))
    <3>1. PICK t \in s.traces : \E c \in t.capability :
                 e = Edge("HAS_WORKFLOW", Node("Feature", c), Node("Workflow", t.name))
      BY <2>2
    <3>2. PICK x \in t.capability : e = Edge("HAS_WORKFLOW", Node("Feature", x), Node("Workflow", t.name))
      BY <3>1
    <3>3. /\ e[1] = "HAS_WORKFLOW" /\ e[2] = Node("Feature", x) /\ KeyOf(e[2]) = x
          /\ e[3] \in BuildGraphBatch(s).nodes
      <4>1. /\ e[1] = "HAS_WORKFLOW" /\ e[2] = Node("Feature", x) /\ e[3] = Node("Workflow", t.name)
        BY <1>e, <3>2
      <4>2. Node("Workflow", t.name) \in BuildGraphBatch(s).nodes
        BY NodesThere
      <4>. QED
        BY <1>n, <4>1, <4>2
    <3>4. CASE \E c \in s.clusters : c.name = x
      BY <3>3, <3>4, NodesThere DEF Ended, Feature
    <3>. QED
      BY <3>3, <3>4
  <2>3. ASSUME NEW t \in s.traces, NEW i \in DOMAIN t.steps
        PROVE  Method(t.steps[i]) \in BuildGraphBatch(s).nodes \/ \E c \in Classes(s) : c.qn = t.steps[i]
    <3>1. t.steps[i] \in QNames(repository)
      BY DEF Coherent
    <3>2. PICK d \in DefsOf(repository) : d.qn = t.steps[i]
      BY <3>1 DEF QNames
    <3>3. PICK x \in ToSet(s.symbols) : x.qn = t.steps[i]
      BY <3>2 DEF Coherent
    <3>. QED
      BY <1>s, <3>3, NodesThere
  <2>4. CASE \E t \in s.traces : \E i \in DOMAIN t.steps :
               \/ e = Edge("HAS_STEP", Node("Workflow", t.name), step(t, i))
               \/ e = Edge("REALIZED_BY", Node("Workflow", t.name), Method(t.steps[i]))
               \/ e = Edge("EXECUTES", step(t, i), Method(t.steps[i]))
    <3>1. PICK t \in s.traces : \E i \in DOMAIN t.steps :
                 \/ e = Edge("HAS_STEP", Node("Workflow", t.name), step(t, i))
                 \/ e = Edge("REALIZED_BY", Node("Workflow", t.name), Method(t.steps[i]))
                 \/ e = Edge("EXECUTES", step(t, i), Method(t.steps[i]))
      BY <2>4
    <3>2. PICK i \in DOMAIN t.steps :
                 \/ e = Edge("HAS_STEP", Node("Workflow", t.name), step(t, i))
                 \/ e = Edge("REALIZED_BY", Node("Workflow", t.name), Method(t.steps[i]))
                 \/ e = Edge("EXECUTES", step(t, i), Method(t.steps[i]))
      BY <3>1
    <3>3. Node("Workflow", t.name) \in BuildGraphBatch(s).nodes /\ step(t, i) \in BuildGraphBatch(s).nodes
      BY <2>0, NodesThere
    <3>4. CASE e = Edge("HAS_STEP", Node("Workflow", t.name), step(t, i))
      BY <1>e, <3>3, <3>4 DEF Ended
    <3>5. CASE e = Edge("REALIZED_BY", Node("Workflow", t.name), Method(t.steps[i]))
      BY <1>e, <1>n, <2>3, <3>3, <3>5 DEF Ended
    <3>6. CASE e = Edge("EXECUTES", step(t, i), Method(t.steps[i]))
      BY <1>e, <1>n, <2>3, <3>3, <3>6 DEF Ended
    <3>. QED
      BY <3>2, <3>4, <3>5, <3>6
  <2>. QED
    BY <2>1, <2>2, <2>4
<1>4. ASSUME NEW e \in BuildMethodReturnsEdges(s).edges
      PROVE  Ended(s, e) \/ (e[1] = "RETURNS" /\ DefinedTwice(KeyOf(e[2])))
  <2>1. PICK d \in ToSet(s.lld) : /\ d.returns \in {t.name : t \in s.entities}
                                  /\ e = Edge("RETURNS", Method(d.qn), Node("Table", d.returns))
    <3>. DEFINE typed == {x \in ToSet(s.lld) : x.returns \in {t.name : t \in s.entities}}
    <3>1. BuildMethodReturnsEdges(s) = Part({}, {Edge("RETURNS", Method(x.qn), Node("Table", x.returns)) : x \in typed})
      BY DEF BuildMethodReturnsEdges
    <3>2. \A x \in typed : x \in ToSet(s.lld) /\ x.returns \in {t.name : t \in s.entities}
      OBVIOUS
    <3>. HIDE DEF typed
    <3>. QED
      BY <3>1, <3>2 DEF Part
  <2>2. PICK t \in s.entities : d.returns = t.name
    BY <2>1
  <2>3. d.returns # NoType /\ d \in DefsOf(repository)
    BY <2>2 DEF Coherent
  <2>4. d.kind # "class"
    BY <2>3, DefIs
  <2>5. /\ e[1] = "RETURNS" /\ e[2] = Method(d.qn) /\ KeyOf(e[2]) = d.qn
        /\ e[3] \in BuildGraphBatch(s).nodes
    <3>1. e[1] = "RETURNS" /\ e[2] = Method(d.qn) /\ e[3] = Node("Table", t.name)
      BY <1>e, <2>1, <2>2
    <3>2. Node("Table", t.name) \in BuildGraphBatch(s).nodes
      BY NodesThere
    <3>. QED
      BY <1>n, <3>1, <3>2
  <2>6. PICK x \in ToSet(s.symbols) : x.qn = d.qn
    BY <2>3 DEF Coherent
  <2>7. CASE x.kind = "class"
    <3>1. x \in DefsOf(repository) /\ x # d
      BY <2>4, <2>7 DEF Coherent
    <3>2. DefinedTwice(d.qn)
      BY <2>3, <2>6, <3>1, DefinedOnce
    <3>. QED
      BY <2>5, <3>2
  <2>8. CASE x.kind # "class"
    <3>1. x \in Methods(s)
      BY <2>8 DEF Methods
    <3>. QED
      BY <2>5, <2>6, <3>1, NodesThere DEF Ended
  <2>. QED
    BY <2>7, <2>8
<1>. QED
  BY <1>1, <1>2, <1>3, <1>4

\* Every edge of a batch ends in it, but for those exceptions.
THEOREM EdgesEnd == RunSpec => []EdgesEndInBatch
<1>1. RunInv => EdgesEndInBatch
  <2>. SUFFICES ASSUME RunInv PROVE EdgesEndInBatch
    OBVIOUS
  <2>0. batch = BuildGraphBatch(found) \/ batch.edges = {}
    BY DEF RunInv, NoBatch, Part
  <2>. SUFFICES ASSUME NEW e \in batch.edges
                PROVE  \/ Ended(found, e)
                       \/ e[1] \in {"REALIZED_BY", "EXECUTES"} /\ \E c \in Classes(found) : c.qn = KeyOf(e[3])
                       \/ e[1] = "HAS_WORKFLOW" /\ \A c \in found.clusters : c.name # KeyOf(e[2])
                       \/ e[1] = "DEFINES" /\ e[2][1] = "Class" /\ \A c \in Classes(found) : c.qn # KeyOf(e[2])
                       \/ e[1] = "RETURNS" /\ DefinedTwice(KeyOf(e[2]))
                       \/ /\ e[1] = "DEPENDS_ON" /\ e[2][1] = "Table"
                          /\ \A t \in found.entities : t.name # KeyOf(e[3])
    BY <2>0 DEF EdgesEndInBatch, Ended
  <2>1. batch = BuildGraphBatch(found) /\ stage = "written"
    BY DEF RunInv, NoBatch, Part
  <2>2. repository \in Repositories /\ Coherent(repository, found)
    BY <2>1, AnalysedCoherent DEF RunInv
  <2>3. PICK p \in PartsOf(found) : e \in p.edges
    BY <2>1, BatchIs
  <2>4. CASE \/ p \in {BuildServiceNodesAndEdges(found), BuildParameterNodesAndEdges(found),
                       BuildFieldNodesAndEdges(found), BuildApiNodesAndEdges(found),
                       BuildFeatureNodesAndEdges(found), BuildGapNodeAndEdges(found),
                       BuildTestCaseNodesAndEdges(found)}
    BY <2>2, <2>3, <2>4, OwnEnds
  <2>5. CASE p \in {BuildFeatureImplementedByEdges(found), BuildBusinessRuleImplementedByEdges(found),
                    BuildRequirementImplementedByEdges(found), BuildConflictEdges(found)}
    BY <2>2, <2>3, <2>5, OtherEnds
  <2>6. CASE p \in {BuildTableAndDatabaseNodesAndEdges(found), BuildDefinesAndCallsEdges(found),
                    BuildWorkflowNodesAndEdges(found), BuildMethodReturnsEdges(found)}
    BY <2>2, <2>3, <2>6, MayLackEnds
  <2>7. CASE p \in {BuildRepositoryNode(found), BuildFileNodes(found), BuildClassAndMethodNodes(found),
                    BuildBusinessCapabilityNodes(found), BuildBusinessRuleNodes(found),
                    BuildDomainConceptNodes(found), BuildRequirementNodes(found),
                    BuildSecurityControlNodes(found)}
    BY <2>3, <2>7, PartsLabelled DEF Labelled
  <2>. QED
    BY <2>4, <2>5, <2>6, <2>7 DEF PartsOf
<1>. QED
  BY <1>1, RunInvariant, PTL


(***************************************************************************)
(* Calls and dependencies                                                  *)
(***************************************************************************)
\* The first symbol of a qualified name that has one.
SymbolNamed(t, q) == t[SelectInSeq(t, LAMBDA e : e.qn = q)]

\* It has that name.
LEMMA NamedIs ==
  ASSUME NEW T, NEW t \in Seq(T), NEW q, NEW x \in ToSet(t), x.qn = q
  PROVE  SymbolNamed(t, q) \in T /\ SymbolNamed(t, q).qn = q
<1>. DEFINE I == {i \in 1..Len(t) : t[i].qn = q}
            k == IF I # {} THEN Min(I) ELSE 0
<1>1. SymbolNamed(t, q) = t[k]
  BY DEF SymbolNamed, SelectInSeq
<1>2. Len(t) \in Nat /\ DOMAIN t = 1..Len(t) /\ I \subseteq 1..Len(t)
  BY Places
<1>3. I # {}
  BY <1>2 DEF ToSet
<1>4. Min(I) \in I
  <2>. HIDE DEF I
  <2>. QED
    BY <1>2, <1>3, Extremes
<1>5. k \in 1..Len(t) /\ t[k].qn = q
  BY <1>3, <1>4
<1>. QED
  BY <1>1, <1>2, <1>5, Places

\* A call from one file to the one definition of a name in another is an edge of the
\* module call graph.
LEMMA CallLeadsTo ==
  ASSUME NEW r \in Repositories, NEW k \in DOMAIN r.sources,
         NEW x \in ToSet(ParsedModules(r)[k].calls),
         NEW e \in DefsOf(r), e.name = x.callee, \A d \in DefsOf(r) : d.name = x.callee => d = e,
         e.file # r.sources[k].path
  PROVE  <<r.sources[k].path, e.file>> \in BuildModuleCallGraph(ParsedModules(r))
<1>. DEFINE P == ParsedModules(r)
            has(j) == \E d \in ToSet(P[j].classes \o P[j].functions) : d.name = x.callee
            at == {j \in DOMAIN P : has(j)}
<1>1. /\ DOMAIN P = DOMAIN r.sources /\ \A j \in DOMAIN P : P[j].path = r.sources[j].path
      /\ \A j \in DOMAIN P : ToSet(P[j].classes \o P[j].functions) = SymbolsOf(r.sources[j])
  BY RepositoryIs, DefsOfFile
<1>2. DefinedIn(P, x.callee) = {P[j].path : j \in at}
  BY DEF DefinedIn
<1>. HIDE DEF P
<1>3. ASSUME NEW j \in at PROVE P[j].path = e.file
  <2>1. PICK d \in SymbolsOf(r.sources[j]) : d.name = x.callee
    BY <1>1
  <2>2. d \in DefsOf(r)
    BY <1>1, <2>1 DEF DefsOf
  <2>3. d = e
    BY <2>1, <2>2
  <2>4. IsSource(r.sources[j])
    BY <1>1, RepositoryIs
  <2>5. d.file = r.sources[j].path
    BY <2>1, <2>4, SymbolIs DEF SymbolsOf
  <2>. QED
    BY <1>1, <2>3, <2>5
<1>4. at # {}
  <2>1. PICK j \in DOMAIN r.sources : e \in SymbolsOf(r.sources[j])
    BY DEF DefsOf
  <2>2. has(j)
    BY <1>1, <2>1
  <2>. QED
    BY <1>1, <2>2
<1>. HIDE DEF at
<1>5. DefinedIn(P, x.callee) = {e.file}
  BY <1>2, <1>3, <1>4
<1>6. e.file \in CalledFile(P, P[k], x.callee)
  <2>1. DefinedIn(P, x.callee) \ {P[k].path} = {e.file}
    BY <1>1, <1>5
  <2>. QED
    BY <2>1 DEF CalledFile
<1>. DEFINE called(m) == UNION {CalledFile(P, m, c.callee) : c \in ToSet(m.calls)}
            imports(m) == (UNION {ResolveImport(P, i) : i \in m.imports}) \ {m.path}
            leads(m) == {<<m.path, p>> : p \in imports(m) \cup called(m)}
<1>7. BuildModuleCallGraph(P) = UNION {leads(P[j]) : j \in DOMAIN P}
  BY DEF BuildModuleCallGraph
<1>8. e.file \in called(P[k])
  BY <1>6 DEF P
<1>9. <<P[k].path, e.file>> \in leads(P[k])
  <2>. HIDE DEF called, imports
  <2>. QED
    BY <1>8
<1>. HIDE DEF leads
<1>10. <<P[k].path, e.file>> \in BuildModuleCallGraph(P)
  BY <1>1, <1>7, <1>9
<1>. QED
  BY <1>1, <1>10 DEF P

\* A dependency of components has an edge.
LEMMA DependencyEdges ==
  ASSUME NEW s, NEW c, NEW d, <<c, d>> \in s.dependencies
  PROVE  Edge("DEPENDS_ON", Node("Service", c), Node("Service", d)) \in BuildGraphBatch(s).edges
<1>1. \E p \in s.dependencies :
        Edge("DEPENDS_ON", Node("Service", c), Node("Service", d)) =
        Edge("DEPENDS_ON", Node("Service", p[1]), Node("Service", p[2]))
  OBVIOUS
<1>2. Edge("DEPENDS_ON", Node("Service", c), Node("Service", d)) \in BuildServiceNodesAndEdges(s).edges
  BY <1>1, ServicePart
<1>3. BuildServiceNodesAndEdges(s) \in PartsOf(s)
  BY DEF PartsOf
<1>. QED
  BY <1>2, <1>3, BatchIs

\* Where a method calls one of another component, the components depend on each other,
\* except for names defined more than once.
THEOREM CallsAreDependencies == RunSpec => []GranularitiesAgree
<1>1. RunInv => GranularitiesAgree
  <2>. SUFFICES ASSUME RunInv, stage = "written", NEW call \in EdgesOf("CALLS"),
                       ~DefinedTwice(KeyOf(call[2]))
                PROVE  LET service(qn) == ComponentForFile(found, SymbolNamed(found.symbols, qn).file)
                       IN \A c \in service(KeyOf(call[2])), d \in service(KeyOf(call[3])) :
                            c # d => Edge("DEPENDS_ON", Node("Service", c), Node("Service", d)) \in batch.edges
    BY DEF GranularitiesAgree, SymbolNamed
  <2>. DEFINE r == repository
              s == found
              P == ParsedModules(r)
              calls == BuildCallGraph(P)
              service(qn) == ComponentForFile(s, SymbolNamed(s.symbols, qn).file)
  <2>1. r \in Repositories /\ Analysed(r, s) /\ batch = BuildGraphBatch(s) /\ s.calls = calls
    BY DEF RunInv, Analysed
  <2>2. Coherent(r, s)
    BY <2>1, AnalysedCoherent
  <2>3. PICK x \in ToSet(calls) : /\ x.caller \in {e.qn : e \in Methods(s)}
                                  /\ x.callee \in {e.qn : e \in Methods(s)}
                                  /\ call = Edge("CALLS", Method(x.caller), Method(x.callee))
    <3>. DEFINE known == {e.qn : e \in Methods(s)}
                sites == {y \in ToSet(s.calls) : y.caller \in known /\ y.callee \in known}
    <3>1. call[1] = "CALLS" /\ call \in BuildGraphBatch(s).edges
      BY <2>1 DEF EdgesOf
    <3>2. call \in BuildDefinesAndCallsEdges(s).edges
      BY <3>1, Origins
    <3>3. \/ \E c \in Classes(s) : call = Edge("DEFINES", Node("File", c.file), Node("Class", c.qn))
          \/ \E m \in Methods(s) : call = Edge("DEFINES", DefinedBy(m), Method(m.qn))
          \/ \E c \in sites : call = Edge("CALLS", Method(c.caller), Method(c.callee))
      BY <3>2 DEF BuildDefinesAndCallsEdges, Part
    <3>4. \A a, b : Edge("DEFINES", a, b)[1] # "CALLS"
      BY DEF Edge
    <3>5. \E c \in sites : call = Edge("CALLS", Method(c.caller), Method(c.callee))
      <4>. HIDE DEF sites
      <4>. QED
        BY <3>1, <3>3, <3>4
    <3>. HIDE DEF known, calls, s
    <3>6. \E c \in ToSet(calls) : /\ c.caller \in known /\ c.callee \in known
                                  /\ call = Edge("CALLS", Method(c.caller), Method(c.callee))
      BY <2>1, <3>5
    <3>. QED
      BY <3>6 DEF known
  <2>4. KeyOf(call[2]) = x.caller /\ KeyOf(call[3]) = x.callee
    BY <2>3 DEF KeyOf, Edge, Method, Node
  <2>6. PICK k \in DOMAIN r.sources : CallSite(r, x, k)
    BY <2>1, <2>3, CallsFound
  <2>7. PICK from \in SymbolsOf(r.sources[k]) : from.qn = x.caller /\ from.file = r.sources[k].path
    BY <2>6 DEF CallSite
  <2>8. PICK site \in ToSet(P[k].calls) :
               \E e \in DefsOf(r) : /\ e.qn = x.callee /\ e.name = site.callee
                                    /\ \A d \in DefsOf(r) : d.name = site.callee => d = e
    BY <2>6 DEF CallSite
  <2>9. PICK to \in DefsOf(r) : /\ to.qn = x.callee /\ to.name = site.callee
                                /\ \A d \in DefsOf(r) : d.name = site.callee => d = to
    BY <2>8
  <2>. HIDE DEF s, r, P, calls
  <2>10. /\ s.symbols \in Seq(DefsOf(r))
         /\ (\E e \in ToSet(s.symbols) : e.qn = x.caller) /\ \E e \in ToSet(s.symbols) : e.qn = x.callee
    BY <2>2, <2>3 DEF Coherent, Methods
  <2>11. /\ SymbolNamed(s.symbols, x.caller) \in DefsOf(r) /\ SymbolNamed(s.symbols, x.caller).qn = x.caller
         /\ SymbolNamed(s.symbols, x.callee) \in DefsOf(r) /\ SymbolNamed(s.symbols, x.callee).qn = x.callee
    BY <2>10, NamedIs
  <2>12. SymbolNamed(s.symbols, x.caller) = from
    <3>1. from \in DefsOf(r)
      BY <2>6, <2>7 DEF DefsOf
    <3>2. ~DefinedTwice(x.caller)
      BY <2>4
    <3>. QED
      BY <2>1, <2>7, <2>11, <3>1, <3>2, DefinedOnce DEF r
  <2>13. SymbolNamed(s.symbols, x.callee) = to
    <3>1. SymbolNamed(s.symbols, x.callee).name = to.name
      BY <2>1, <2>9, <2>11, DefIs
    <3>. QED
      BY <2>9, <2>11, <3>1
  <2>14. ASSUME NEW c \in service(x.caller), NEW d \in service(x.callee), c # d
         PROVE  Edge("DEPENDS_ON", Node("Service", c), Node("Service", d)) \in batch.edges
    <3>. DEFINE cs == Components(P)
    <3>1. /\ c \in DOMAIN s.components /\ r.sources[k].path \in s.components[c]
          /\ d \in DOMAIN s.components /\ to.file \in s.components[d]
      BY <2>7, <2>12, <2>13, <2>14 DEF ComponentForFile
    <3>2. s.components = cs /\ s.dependencies = ComponentEdges(P, cs)
      <4>1. s.components # <<>>
        BY <3>1
      <4>. QED
        BY <2>1, <4>1 DEF Analysed, P
    <3>3. cs[c] \cap cs[d] = {}
      BY <2>1, <2>14, <3>1, <3>2, ComponentsAre DEF P
    <3>. HIDE DEF cs
    <3>4. to.file # r.sources[k].path
      BY <3>1, <3>2, <3>3
    <3>5. <<r.sources[k].path, to.file>> \in BuildModuleCallGraph(P)
      BY <2>1, <2>6, <2>8, <2>9, <3>4, CallLeadsTo DEF P
    <3>. DEFINE pair == <<c, d>>
    <3>6. /\ pair \in (DOMAIN cs) \X (DOMAIN cs) /\ pair[1] # pair[2]
          /\ r.sources[k].path \in cs[pair[1]] /\ to.file \in cs[pair[2]]
      BY <2>14, <3>1, <3>2
    <3>. DEFINE hop == <<r.sources[k].path, to.file>>
    <3>7. hop \in BuildModuleCallGraph(P) /\ hop[1] = r.sources[k].path /\ hop[2] = to.file
      BY <3>5
    <3>. HIDE DEF pair, hop
    <3>8. pair \in ComponentEdges(P, cs)
      BY <3>6, <3>7 DEF ComponentEdges
    <3>. QED
      BY <2>1, <3>2, <3>8, DependencyEdges DEF pair
  <2>. QED
    BY <2>4, <2>14 DEF s
<1>. QED
  BY <1>1, RunInvariant, PTL


(***************************************************************************)
(* What the store takes for granted                                        *)
(***************************************************************************)
RootIsOwn ==
  stage = "written" =>
    \A x : Node("Repository", x) \in batch.nodes <=> x = repository.repo

\* A batch has one repository node, and its key is the repository's id: what
\* StoreAssumption says of the batches of the store.
THEOREM BatchesHaveTheirRoot == RunSpec => []RootIsOwn
<1>1. RunInv => RootIsOwn
  <2>. SUFFICES ASSUME RunInv, stage = "written", NEW x
                PROVE  Node("Repository", x) \in batch.nodes <=> x = repository.repo
    BY DEF RootIsOwn
  <2>1. batch = BuildGraphBatch(found) /\ found.repo = repository.repo
    BY DEF RunInv, Analysed
  <2>2. BuildRepositoryNode(found).nodes = {Node("Repository", found.repo)}
    BY DEF BuildRepositoryNode, Part
  <2>3. \A k : Node("Repository", k)[1] = "Repository" /\ Node("Repository", k)[2] = k
    BY DEF Node
  <2>4. ASSUME Node("Repository", x) \in batch.nodes PROVE x = repository.repo
    <3>1. Node("Repository", x) \in BuildRepositoryNode(found).nodes
      BY <2>1, <2>3, <2>4, Origins
    <3>. QED
      BY <2>1, <2>2, <2>3, <3>1
  <2>5. Node("Repository", repository.repo) \in batch.nodes
    BY <2>1, NodesThere
  <2>. QED
    BY <2>4, <2>5
<1>. QED
  BY <1>1, RunInvariant, PTL

(***************************************************************************)
(* The store: typing                                                       *)
(***************************************************************************)

\* A run's batch is one of the constants' batches.
LEMMA BatchType ==
  ASSUME TypeOK, NEW p \in Runs
  PROVE  job[p].repo \in Repos /\ job[p].nodes \subseteq Nodes /\ job[p].edges \subseteq Edges
BY StoreAssumption DEF TypeOK, Batch

\* The types are inductive by themselves.
LEMMA StoreTyped == TypeOK /\ [Next]_vars => TypeOK'
<1>. SUFFICES ASSUME TypeOK, [Next]_vars PROVE TypeOK'
  OBVIOUS
<1>1. ASSUME NEW p \in Runs, WriteBatch(p) PROVE TypeOK'
  BY <1>1 DEF WriteBatch, history, TypeOK, Phases
<1>2. ASSUME NEW p \in Runs, MergeNodes(p) PROVE TypeOK'
  <2>. USE BatchType
  <2>1. owner' \in [Nodes -> Repos \cup {NoRepo}] /\ verified' \in [Nodes -> Nat]
    BY <1>2 DEF MergeNodes, TypeOK, SetProperties, Stamp
  <2>2. holder' \in [Nodes -> SUBSET Repos]
    BY <1>2 DEF MergeNodes, TypeOK
  <2>. QED
    BY <1>2, <2>1, <2>2 DEF MergeNodes, TypeOK, Phases
<1>3. ASSUME NEW p \in Runs, MergeEdges(p) PROVE TypeOK'
  <2>1. edges' \subseteq Edges /\ asked' \in [Edges -> SUBSET Repos]
    BY <1>3, BatchType DEF MergeEdges, TypeOK, Matched
  <2>. QED
    BY <1>3, <2>1 DEF MergeEdges, TypeOK, Phases
<1>4. ASSUME NEW p \in Runs, Fail(p) PROVE TypeOK'
  BY <1>4 DEF Fail, history, TypeOK, Phases
<1>5. CASE UNCHANGED vars
  BY <1>5 DEF vars, TypeOK
<1>. QED
  BY <1>1, <1>2, <1>3, <1>4, <1>5 DEF Next

(***************************************************************************)
(* The store: provenance                                                   *)
(***************************************************************************)

\* Where what the store holds comes from: an owner has written its node, an edge has been
\* asked for, and a node's time is that of a run that is past its first transaction.
Provenance ==
  /\ \A n \in Nodes : Exists(n) =>
       /\ owner[n] \in holder[n]
       /\ \E p \in Runs : phase[p] \notin {"idle", "begun"} /\ verified[n] = started[p]
  /\ \A e \in edges : asked[e] # {}

\* Who wrote what stays known.
LEMMA ProvenanceStep == TypeOK /\ Provenance /\ [Next]_vars => Provenance'
<1>. SUFFICES ASSUME TypeOK, Provenance, [Next]_vars PROVE Provenance'
  OBVIOUS
<1>. USE DEF Exists
<1>1. ASSUME NEW p \in Runs, WriteBatch(p) PROVE Provenance'
  BY <1>1 DEF WriteBatch, history, TypeOK, Provenance
<1>2. ASSUME NEW p \in Runs, MergeNodes(p) PROVE Provenance'
  <2>1. phase'[p] = "merged" /\ \A q \in Runs \ {p} : phase'[q] = phase[q]
    BY <1>2 DEF MergeNodes, TypeOK
  <2>2. phase[p] = "begun" /\ started' = started /\ edges' = edges /\ asked' = asked
    BY <1>2 DEF MergeNodes
  <2>3. ASSUME NEW n \in Nodes, (Exists(n))'
        PROVE  /\ owner'[n] \in holder'[n]
               /\ \E q \in Runs : phase'[q] \notin {"idle", "begun"} /\ verified'[n] = started'[q]
    <3>1. CASE n \in job[p].nodes
      <4>1. /\ owner'[n] = job[p].repo /\ holder'[n] = holder[n] \cup {job[p].repo}
            /\ verified'[n] = started[p]
        BY <1>2, <3>1 DEF MergeNodes, TypeOK, SetProperties, Stamp
      <4>. QED
        BY <4>1, <2>1, <2>2
    <3>2. CASE n \notin job[p].nodes
      <4>1. owner'[n] = owner[n] /\ holder'[n] = holder[n] /\ verified'[n] = verified[n]
        BY <1>2, <3>2 DEF MergeNodes, TypeOK
      <4>2. PICK q \in Runs : phase[q] \notin {"idle", "begun"} /\ verified[n] = started[q]
        BY <4>1, <2>3 DEF Provenance
      <4>. QED
        BY <4>1, <4>2, <2>1, <2>2, <2>3 DEF Provenance
    <3>. QED
      BY <3>1, <3>2
  <2>. QED
    BY <2>2, <2>3 DEF Provenance
<1>3. ASSUME NEW p \in Runs, MergeEdges(p) PROVE Provenance'
  <2>1. \A e \in edges' : asked'[e] # {}
    BY <1>3, BatchType DEF MergeEdges, TypeOK, Provenance, Matched
  <2>2. \A q \in Runs : phase[q] \notin {"idle", "begun"} => phase'[q] \notin {"idle", "begun"}
    BY <1>3 DEF MergeEdges, TypeOK
  <2>. QED
    BY <1>3, <2>1, <2>2 DEF MergeEdges, Provenance
<1>4. ASSUME NEW p \in Runs, Fail(p) PROVE Provenance'
  <2>1. \A q \in Runs : phase[q] \notin {"idle", "begun"} => phase'[q] \notin {"idle", "begun"}
    BY <1>4 DEF Fail, TypeOK
  <2>. QED
    BY <1>4, <2>1 DEF Fail, history, Provenance
<1>5. CASE UNCHANGED vars
  BY <1>5 DEF vars, Provenance
<1>. QED
  BY <1>1, <1>2, <1>3, <1>4, <1>5 DEF Next

(***************************************************************************)
(* The store: times                                                        *)
(***************************************************************************)

\* Runs that have begun did so at different times, all of them past.
Times ==
  \A p \in Runs : phase[p] # "idle" =>
    /\ started[p] < clock
    /\ \A q \in Runs \ {p} : phase[q] # "idle" => started[q] # started[p]

\* Runs keep their times apart.
LEMMA TimesStep == TypeOK /\ Times /\ [Next]_vars => Times'
<1>. SUFFICES ASSUME TypeOK, Times, [Next]_vars PROVE Times'
  OBVIOUS
<1>1. ASSUME NEW p \in Runs, WriteBatch(p) PROVE Times'
  <2>1. /\ phase[p] = "idle" /\ phase'[p] = "begun" /\ started'[p] = clock
        /\ clock' = clock + 1 /\ clock \in Nat
        /\ \A q \in Runs \ {p} : phase'[q] = phase[q] /\ started'[q] = started[q]
        /\ \A q \in Runs : started[q] \in Nat
    BY <1>1 DEF WriteBatch, TypeOK
  <2>2. ASSUME NEW q \in Runs, phase'[q] # "idle"
        PROVE  started'[q] < clock' /\ \A o \in Runs \ {q} : phase'[o] # "idle" => started'[o] # started'[q]
    BY <2>1, <2>2 DEF Times
  <2>. QED
    BY <2>2 DEF Times
<1>2. ASSUME NEW p \in Runs, MergeNodes(p) \/ MergeEdges(p) \/ Fail(p) PROVE Times'
  <2>1. /\ started' = started /\ clock' = clock
        /\ \A q \in Runs : phase'[q] # "idle" => phase[q] # "idle"
    BY <1>2 DEF MergeNodes, MergeEdges, Fail, history, TypeOK
  <2>. QED
    BY <2>1 DEF Times
<1>3. CASE UNCHANGED vars
  BY <1>3 DEF vars, Times
<1>. QED
  BY <1>1, <1>2, <1>3 DEF Next

(***************************************************************************)
(* The store: latest run                                                   *)
(***************************************************************************)

\* Nodes never disappear, the edges of a finished run are there as far as its nodes are,
\* and the run that merged nodes last owns all of its own.
Documented ==
  /\ \A p \in Runs : phase[p] \in {"merged", "done"} => \A n \in job[p].nodes : Exists(n)
  /\ \A p \in Runs : phase[p] = "done" =>
       \A e \in job[p].edges : {e[2], e[3]} \subseteq job[p].nodes => e \in edges
  /\ \A p \in Runs : latest = p =>
       phase[p] \notin {"idle", "begun"} /\ \A n \in job[p].nodes : owner[n] = job[p].repo

\* What a run merged last is in its documents.
LEMMA DocumentedStep == TypeOK /\ Documented /\ [Next]_vars => Documented'
<1>. SUFFICES ASSUME TypeOK, Documented, [Next]_vars PROVE Documented'
  OBVIOUS
<1>. USE DEF Exists
<1>1. ASSUME NEW p \in Runs, WriteBatch(p) PROVE Documented'
  BY <1>1 DEF WriteBatch, history, TypeOK, Documented
<1>2. ASSUME NEW p \in Runs, MergeNodes(p) PROVE Documented'
  <2>1. /\ phase'[p] = "merged" /\ \A q \in Runs \ {p} : phase'[q] = phase[q]
        /\ job' = job /\ edges' = edges /\ latest' = p
    BY <1>2 DEF MergeNodes, TypeOK
  <2>2. \A n \in Nodes : owner'[n] = IF n \in job[p].nodes THEN job[p].repo ELSE owner[n]
    BY <1>2 DEF MergeNodes, TypeOK, SetProperties
  <2>3. job[p].repo # NoRepo
    BY BatchType, StoreAssumption
  <2>4. ASSUME NEW q \in Runs, phase'[q] \in {"merged", "done"}, NEW n \in job[q].nodes
        PROVE  owner'[n] # NoRepo
    <3>1. n \in Nodes
      BY BatchType
    <3>2. q = p \/ owner[n] # NoRepo
      BY <2>1, <2>4 DEF Documented
    <3>. QED
      BY <2>2, <2>3, <3>1, <3>2
  <2>5. \A n \in job[p].nodes : owner'[n] = job[p].repo
    BY <2>2, BatchType
  <2>6. \A q \in Runs : phase'[q] = "done" =>
          \A e \in job[q].edges : {e[2], e[3]} \subseteq job[q].nodes => e \in edges
    BY <2>1 DEF Documented
  <2>. QED
    BY <2>1, <2>4, <2>5, <2>6 DEF Documented
<1>3. ASSUME NEW p \in Runs, MergeEdges(p) PROVE Documented'
  <2>1. /\ phase[p] = "merged" /\ phase'[p] = "done" /\ \A q \in Runs \ {p} : phase'[q] = phase[q]
        /\ job' = job /\ owner' = owner /\ latest' = latest
        /\ edges' = edges \cup Matched(job[p])
    BY <1>3 DEF MergeEdges, TypeOK
  <2>2. \A e \in job[p].edges : {e[2], e[3]} \subseteq job[p].nodes => e \in Matched(job[p])
    BY <2>1 DEF Matched, Documented
  <2>3. \A q \in Runs : phase'[q] = "done" =>
          \A e \in job[q].edges : {e[2], e[3]} \subseteq job[q].nodes => e \in edges'
    BY <2>1, <2>2 DEF Documented
  <2>. QED
    BY <2>1, <2>3 DEF Documented
<1>4. ASSUME NEW p \in Runs, Fail(p) PROVE Documented'
  BY <1>4 DEF Fail, history, TypeOK, Documented
<1>5. CASE UNCHANGED vars
  BY <1>5 DEF vars, Documented
<1>. QED
  BY <1>1, <1>2, <1>3, <1>4, <1>5 DEF Next

(***************************************************************************)
(* The store: leftovers                                                    *)
(***************************************************************************)

\* A merge gives its repository a new time that no other node has; another repository's
\* merge leaves the times of what remains to it alone.
LEMMA LeftoversStep ==
  TypeOK /\ Provenance /\ Times /\ LeftoversRecognisable /\ [Next]_vars => LeftoversRecognisable'
<1>. SUFFICES ASSUME TypeOK, Provenance, Times, LeftoversRecognisable, [Next]_vars
              PROVE  LeftoversRecognisable'
  OBVIOUS
<1>. USE DEF Exists, NodeFacts
<1>. DEFINE Told(r, p) ==
       /\ job[p].repo = r /\ started[p] = verified[Root[r]] /\ phase[p] \notin {"idle", "begun"}
       /\ \A n \in NodeFacts(r) : verified[n] = verified[Root[r]] <=> n \in job[p].nodes
<1>0. \A r \in Repos : Root[r] \in Nodes
  BY StoreAssumption
<1>1. ASSUME NEW p \in Runs, WriteBatch(p) PROVE LeftoversRecognisable'
  <2>1. /\ owner' = owner /\ verified' = verified /\ job' = job
        /\ \A q \in Runs : phase[q] \notin {"idle", "begun"} => phase'[q] = phase[q] /\ started'[q] = started[q]
    BY <1>1 DEF WriteBatch, TypeOK
  <2>2. ASSUME NEW r \in Repos, (Exists(Root[r]))' PROVE \E q \in Runs : Told(r, q)'
    <3>1. PICK q \in Runs : Told(r, q)
      BY <2>1, <2>2 DEF LeftoversRecognisable
    <3>. QED
      BY <2>1, <3>1
  <2>. QED
    BY <2>2 DEF LeftoversRecognisable
<1>2. ASSUME NEW p \in Runs, MergeNodes(p) PROVE LeftoversRecognisable'
  <2>1. /\ phase[p] = "begun" /\ phase'[p] = "merged" /\ \A q \in Runs \ {p} : phase'[q] = phase[q]
        /\ job' = job /\ started' = started
    BY <1>2 DEF MergeNodes, TypeOK
  <2>2. \A n \in job[p].nodes : owner'[n] = job[p].repo /\ verified'[n] = started[p]
    BY <1>2, BatchType DEF MergeNodes, TypeOK, SetProperties, Stamp
  <2>3. \A n \in Nodes \ job[p].nodes : owner'[n] = owner[n] /\ verified'[n] = verified[n]
    BY <1>2 DEF MergeNodes, TypeOK
  <2>4. \A r \in Repos : Root[r] \in job[p].nodes <=> r = job[p].repo
    BY StoreAssumption DEF TypeOK
  <2>5. \A n \in Nodes : Exists(n) => verified[n] # started[p]
    BY <2>1 DEF Provenance, Times
  <2>6. ASSUME NEW r \in Repos, (Exists(Root[r]))', r = job[p].repo PROVE Told(r, p)'
    <3>1. verified'[Root[r]] = started[p]
      BY <2>2, <2>4, <2>6
    <3>2. ASSUME NEW n \in Nodes, owner'[n] = r PROVE verified'[n] = started[p] <=> n \in job[p].nodes
      <4>1. CASE n \in job[p].nodes
        BY <2>2, <4>1
      <4>2. CASE n \notin job[p].nodes
        <5>1. owner[n] # NoRepo
          BY <2>3, <3>2, <4>2, StoreAssumption
        <5>. QED
          BY <2>3, <2>5, <4>2, <5>1
      <4>. QED
        BY <4>1, <4>2
    <3>. QED
      BY <2>1, <2>6, <3>1, <3>2
  <2>7. ASSUME NEW r \in Repos, (Exists(Root[r]))', r # job[p].repo PROVE \E q \in Runs : Told(r, q)'
    <3>1. Root[r] \notin job[p].nodes /\ Exists(Root[r]) /\ verified'[Root[r]] = verified[Root[r]]
      BY <1>0, <2>3, <2>4, <2>7
    <3>2. PICK q \in Runs : Told(r, q)
      BY <3>1 DEF LeftoversRecognisable
    <3>3. \A n \in Nodes : owner'[n] = r => owner[n] = r /\ verified'[n] = verified[n]
      BY <2>2, <2>3, <2>7
    <3>4. phase'[q] \notin {"idle", "begun"}
      BY <2>1, <3>2
    <3>. QED
      BY <2>1, <3>1, <3>2, <3>3, <3>4
  <2>. QED
    BY <2>6, <2>7 DEF LeftoversRecognisable
<1>3. ASSUME NEW p \in Runs, MergeEdges(p) \/ Fail(p) PROVE LeftoversRecognisable'
  <2>1. /\ owner' = owner /\ verified' = verified /\ job' = job /\ started' = started
        /\ \A q \in Runs : phase[q] \notin {"idle", "begun"} => phase'[q] \notin {"idle", "begun"}
    BY <1>3 DEF MergeEdges, Fail, TypeOK
  <2>. QED
    BY <2>1 DEF LeftoversRecognisable
<1>4. CASE UNCHANGED vars
  BY <1>4 DEF vars, LeftoversRecognisable
<1>. QED
  BY <1>1, <1>2, <1>3, <1>4 DEF Next

(***************************************************************************)
(* The store: conclusions                                                  *)
(***************************************************************************)

StoreInv == TypeOK /\ Provenance /\ Times /\ Documented /\ LeftoversRecognisable

\* The parts are an invariant together.
LEMMA StoreInvariant == Spec => []StoreInv
<1>1. Init => StoreInv
  <2>. SUFFICES ASSUME Init PROVE StoreInv
    OBVIOUS
  <2>1. TypeOK
    BY DEF Init, TypeOK, Phases
  <2>2. \A n \in Nodes : ~Exists(n)
    BY DEF Init, Exists
  <2>3. Provenance /\ Times /\ Documented
    BY <2>2, StoreAssumption DEF Init, Provenance, Times, Documented
  <2>4. LeftoversRecognisable
    BY <2>2, StoreAssumption DEF LeftoversRecognisable
  <2>. QED
    BY <2>1, <2>3, <2>4 DEF StoreInv
<1>2. StoreInv /\ [Next]_vars => StoreInv'
  BY StoreTyped, ProvenanceStep, TimesStep, DocumentedStep, LeftoversStep DEF StoreInv
<1>. QED
  BY <1>1, <1>2, PTL DEF Spec

\* Every state of the store is well typed.
THEOREM StoreTypeCorrect == Spec => []TypeOK
<1>1. StoreInv => TypeOK
  BY DEF StoreInv
<1>. QED
  BY <1>1, StoreInvariant, PTL

\* Once a run is done and no other has merged nodes since, documents of its repository have
\* all it wrote (write_batch, fetch_project_facts).
THEOREM LatestDocumented == Spec => []LatestRunIsDocumented
<1>1. StoreInv => LatestRunIsDocumented
  <2>. SUFFICES ASSUME StoreInv, NEW p \in Runs, latest = p, phase[p] = "done"
                PROVE  /\ job[p].nodes \subseteq NodeFacts(job[p].repo)
                       /\ {e \in job[p].edges : {e[2], e[3]} \subseteq job[p].nodes}
                            \subseteq EdgeFacts(job[p].repo)
    BY DEF LatestRunIsDocumented
  <2>1. job[p].nodes \subseteq Nodes
    BY BatchType DEF StoreInv
  <2>2. \A n \in job[p].nodes : owner[n] = job[p].repo
    BY DEF StoreInv, Documented
  <2>3. \A e \in job[p].edges : {e[2], e[3]} \subseteq job[p].nodes => e \in edges
    BY DEF StoreInv, Documented
  <2>. QED
    BY <2>1, <2>2, <2>3 DEF NodeFacts, EdgeFacts
<1>. QED
  BY <1>1, StoreInvariant, PTL

\* What a repository has lost since can be told from its times (_merge_nodes).
THEOREM LeftoversTold == Spec => []LeftoversRecognisable
<1>1. StoreInv => LeftoversRecognisable
  BY DEF StoreInv
<1>. QED
  BY <1>1, StoreInvariant, PTL

\* Documents blend facts only where two repositories have keys in common (graph_facts.py).
THEOREM BlendIsBounded == Spec => []BlendThroughSharedKeys
<1>1. StoreInv => BlendThroughSharedKeys
  <2>. SUFFICES ASSUME StoreInv, NEW r \in Repos, NEW e \in EdgeFacts(r)
                PROVE  asked[e] # {} /\ r \in holder[e[2]] \cap holder[e[3]]
    BY DEF BlendThroughSharedKeys
  <2>1. e \in edges /\ e \in Edges /\ owner[e[2]] = r /\ owner[e[3]] = r
    BY DEF EdgeFacts, StoreInv, TypeOK
  <2>2. e[2] \in Nodes /\ e[3] \in Nodes /\ r # NoRepo
    BY <2>1, StoreAssumption
  <2>. QED
    BY <2>1, <2>2 DEF StoreInv, Provenance, Exists
<1>. QED
  BY <1>1, StoreInvariant, PTL
=============================================================================
