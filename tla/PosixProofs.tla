----------------------------- MODULE PosixProofs ------------------------------
(***************************************************************************)
(* The chains on the card are sound at every moment of every call.         *)
(***************************************************************************)
EXTENDS Posix, FiniteSetTheorems, TLAPS

(***************************************************************************)
(* Chains of clusters, over the links of a FAT.                            *)
(***************************************************************************)
LinkFcns == [Clusters -> Clusters \cup {0, Eoc}]
Follows(L, S) == \A c \in S : L[c] \in Clusters => L[c] \in S
Chain(L, c) ==
  IF c \in Clusters
  THEN {x \in Clusters : \A S \in SUBSET Clusters : Follows(L, S) /\ c \in S => x \in S}
  ELSE {}

(* No cluster leads to itself, but for those behind one cluster more than  *)
(* one, or none, leads to.                                                 *)
Apart(L)   == \A b, c \in Clusters : L[b] = L[c] /\ L[b] \in Clusters => b = c
First(L, c) == c \in Clusters /\ \A b \in Clusters : L[b] # c

LEMMA Numbers ==
  /\ TopCluster \in Nat /\ TopCluster > 2 /\ SS \in Nat /\ SS > 0
  /\ DirPerSector \in Nat /\ DirPerSector > 0 /\ FatPerSector \in Nat /\ FatPerSector > 0
  /\ Clusters = 2 .. TopCluster /\ Root = 2 /\ Root \in Clusters
  /\ Eoc \in Nat /\ Eoc > 2 /\ Eoc \notin Clusters /\ 0 \notin Clusters /\ Clusters \subseteq Nat
  /\ 1 \notin Clusters
  /\ \A c \in Clusters : c >= 2
BY GeometryAssumption DEF Clusters, Root, Eoc

LEMMA ChainIs ==
  ASSUME NEW L, NEW c \in Clusters
  PROVE  /\ c \in Chain(L, c) /\ Chain(L, c) \subseteq Clusters
         /\ Follows(L, Chain(L, c))
         /\ \A S \in SUBSET Clusters : Follows(L, S) /\ c \in S => Chain(L, c) \subseteq S
BY DEF Chain, Follows

LEMMA NoChain == ASSUME NEW L, NEW c, c \notin Clusters PROVE Chain(L, c) = {}
BY DEF Chain

LEMMA ChainClusters == ASSUME NEW L, NEW c PROVE Chain(L, c) \subseteq Clusters
BY DEF Chain

LEMMA ChainWithin ==
  ASSUME NEW L, NEW c, NEW x \in Chain(L, c)
  PROVE  Chain(L, x) \subseteq Chain(L, c)
<1>1. c \in Clusters /\ x \in Clusters
  BY NoChain, ChainClusters
<1> QED BY <1>1, ChainIs

LEMMA ChainNext ==
  ASSUME NEW L, NEW c \in Clusters
  PROVE  /\ Chain(L, c) = {c} \cup Chain(L, L[c])
         /\ L[c] \in Clusters => L[c] \in Chain(L, c)
<1> DEFINE S == {c} \cup Chain(L, L[c])
<1>1. L[c] \in Clusters => L[c] \in Chain(L, c)
  BY ChainIs DEF Follows
<1>2. S \subseteq Chain(L, c)
  BY <1>1, ChainIs, ChainWithin, NoChain
<1>3. Follows(L, S)
  <2> SUFFICES ASSUME NEW x \in S, L[x] \in Clusters PROVE L[x] \in S
    BY DEF Follows
  <2>1. CASE x = c
    BY <2>1, ChainIs
  <2>2. CASE x \in Chain(L, L[c])
    BY <2>2, ChainIs, NoChain DEF Follows
  <2> QED BY <2>1, <2>2
<1>4. S \in SUBSET Clusters
  BY ChainClusters
<1> QED BY <1>1, <1>2, <1>3, <1>4, ChainIs

LEMMA ChainFrom ==
  ASSUME NEW L, NEW c \in Clusters, NEW y \in Chain(L, c), y # c
  PROVE  \E z \in Chain(L, c) : L[z] = y
<1> SUFFICES ASSUME \A z \in Chain(L, c) : L[z] # y PROVE FALSE
  OBVIOUS
<1> DEFINE S == Chain(L, c) \ {y}
<1>1. Follows(L, S) /\ c \in S /\ S \in SUBSET Clusters
  BY ChainIs DEF Follows
<1> QED BY <1>1, ChainIs

LEMMA ChainNot ==
  ASSUME NEW L, NEW c, NEW n, First(L, n), n # c
  PROVE  n \notin Chain(L, c)
BY ChainFrom, NoChain, ChainClusters DEF First

LEMMA ChainSize ==
  ASSUME NEW L, NEW c
  PROVE  /\ IsFiniteSet(Chain(L, c)) /\ Cardinality(Chain(L, c)) \in Nat
         /\ Cardinality(Chain(L, c)) <= TopCluster - 1
         /\ c \in Clusters => Cardinality(Chain(L, c)) >= 1
<1>1. IsFiniteSet(Clusters) /\ Cardinality(Clusters) = TopCluster - 1
  BY Numbers, FS_Interval
<1>2. Chain(L, c) \in SUBSET Clusters
  BY ChainClusters
<1>3. /\ IsFiniteSet(Chain(L, c)) /\ Cardinality(Chain(L, c)) \in Nat
      /\ Cardinality(Chain(L, c)) <= TopCluster - 1
  BY <1>1, <1>2, FS_Subset, FS_CardinalityType
<1>4. c \in Clusters => Cardinality(Chain(L, c)) # 0
  BY <1>3, ChainIs, FS_EmptySet
<1> QED BY <1>3, <1>4

(* Chains from two clusters nothing leads to have nothing in common.       *)
LEMMA ChainsApart ==
  ASSUME NEW L, Apart(L), NEW b, NEW c, First(L, b), First(L, c), b # c
  PROVE  Chain(L, b) \cap Chain(L, c) = {}
<1> DEFINE S == Chain(L, b) \ Chain(L, c)
<1>0. b \in Clusters /\ c \in Clusters
  BY DEF First
<1>1. b \in S
  BY <1>0, ChainIs, ChainNot
<1>2. Follows(L, S)
  <2> SUFFICES ASSUME NEW x \in S, L[x] \in Clusters, L[x] \in Chain(L, c) PROVE FALSE
    BY <1>0, ChainIs DEF Follows
  <2>1. L[x] # c
    BY <1>0, ChainClusters DEF First
  <2>2. PICK z \in Chain(L, c) : L[z] = L[x]
    BY <1>0, <2>1, ChainFrom
  <2>3. z = x
    BY <2>2, ChainClusters DEF Apart
  <2> QED BY <2>3
<1>3. S \in SUBSET Clusters
  BY ChainClusters
<1> QED BY <1>0, <1>1, <1>2, <1>3, ChainIs

(* A chain nothing leads to its first cluster of does not come back.       *)
LEMMA ChainEnds ==
  ASSUME NEW L, Apart(L), NEW h, First(L, h), NEW x \in Chain(L, h), L[x] \in Clusters
  PROVE  /\ x \notin Chain(L, L[x])
         /\ Cardinality(Chain(L, x)) = Cardinality(Chain(L, L[x])) + 1
<1> DEFINE y == L[x]
           S == Chain(L, h) \ Chain(L, y)
<1>0. h \in Clusters /\ x \in Clusters /\ y \in Chain(L, h)
  BY ChainIs, ChainClusters DEF First, Follows
<1>1. x \notin Chain(L, y)
  <2> SUFFICES ASSUME x \in Chain(L, y) PROVE FALSE
    OBVIOUS
  <2>1. h \in S
    BY <1>0, ChainIs, ChainNot DEF First
  <2>2. Follows(L, S)
    <3> SUFFICES ASSUME NEW z \in S, L[z] \in Clusters, L[z] \in Chain(L, y) PROVE FALSE
      BY <1>0, ChainIs DEF Follows
    <3>1. CASE L[z] = y
      BY <3>1, <1>0, ChainClusters DEF Apart
    <3>2. CASE L[z] # y
      <4>1. PICK w \in Chain(L, y) : L[w] = L[z]
        BY <3>2, ChainFrom
      <4>2. w = z
        BY <4>1, ChainClusters DEF Apart
      <4> QED BY <4>2
    <3> QED BY <3>1, <3>2
  <2>3. S \in SUBSET Clusters
    BY ChainClusters
  <2>4. Chain(L, h) \subseteq S
    BY <1>0, <2>1, <2>2, <2>3, ChainIs
  <2> QED BY <1>0, <2>4, ChainIs
<1>2. Chain(L, x) = Chain(L, y) \cup {x}
  BY <1>0, ChainNext
<1>3. Cardinality(Chain(L, x)) = Cardinality(Chain(L, y)) + 1
  BY <1>1, <1>2, ChainSize, FS_AddElement
<1> QED BY <1>1, <1>3

(* A chain is the same where its own links are the same.                   *)
LEMMA ChainSame ==
  ASSUME NEW L, NEW K, NEW c, \A x \in Chain(L, c) : K[x] = L[x]
  PROVE  Chain(K, c) = Chain(L, c)
<1>0. CASE c \notin Clusters
  BY <1>0, NoChain
<1>1. CASE c \in Clusters
  <2>1. Follows(K, Chain(L, c))
    BY <1>1, ChainIs DEF Follows
  <2>2. Chain(K, c) \subseteq Chain(L, c)
    BY <1>1, <2>1, ChainIs
  <2>3. Follows(L, Chain(K, c))
    BY <1>1, <2>2, ChainIs DEF Follows
  <2>4. Chain(L, c) \subseteq Chain(K, c)
    BY <1>1, <2>3, ChainIs
  <2> QED BY <2>2, <2>4
<1> QED BY <1>0, <1>1

(* A cluster that leads nowhere put behind the end of a chain.             *)
LEMMA ChainPlus ==
  ASSUME NEW L \in LinkFcns, NEW c, NEW t \in Clusters, L[t] \notin Clusters,
         NEW n \in Clusters, L[n] \notin Clusters, n # t
  PROVE  LET K == [L EXCEPT ![t] = n]
         IN Chain(K, c) = Chain(L, c) \cup (IF t \in Chain(L, c) THEN {n} ELSE {})
<1> DEFINE K == [L EXCEPT ![t] = n]
<1>0. \A x \in Clusters : K[x] = IF x = t THEN n ELSE L[x]
  BY DEF LinkFcns
<1> SUFFICES Chain(K, c) = Chain(L, c) \cup (IF t \in Chain(L, c) THEN {n} ELSE {})
  OBVIOUS
<1> HIDE DEF K
<1>1. CASE t \notin Chain(L, c)
  BY <1>0, <1>1, ChainSame, ChainClusters
<1>2. CASE t \in Chain(L, c)
  <2> DEFINE S == Chain(L, c) \cup {n}
  <2>0. c \in Clusters
    BY <1>2, NoChain
  <2>1. Follows(K, S)
    BY <1>0, <2>0, ChainIs DEF Follows
  <2>2. Chain(K, c) \subseteq S
    BY <2>0, <2>1, ChainIs
  <2>3. Follows(L, Chain(K, c))
    BY <1>0, <2>0, ChainIs DEF Follows
  <2>4. Chain(L, c) \subseteq Chain(K, c)
    BY <2>0, <2>3, ChainIs
  <2>5. n \in Chain(K, c)
    BY <1>0, <1>2, <2>0, <2>4, ChainIs DEF Follows
  <2> QED BY <1>2, <2>2, <2>4, <2>5
<1> QED BY <1>1, <1>2

(***************************************************************************)
(* What the card holds, as its links and its directory: a function from    *)
(* the directory's clusters to their entries.  The twins are names that    *)
(* may have one chain: while a file is renamed it has two of them.         *)
(***************************************************************************)
Entries  == [name : Names \cup {None, Erased}, clust : Clusters \cup {0}, size : Nat]
Places   == Clusters \X (1 .. DirPerSector)
At(D, p) == D[p[1]][p[2]]
Live(D)  == {p \in Places : p[1] \in DOMAIN D /\ At(D, p).name \in Names}

(* Links lead to clusters in use, and to each but one; to the directory    *)
(* leads none.                                                             *)
Wired(L) ==
  /\ L \in LinkFcns /\ Apart(L)
  /\ \A c \in Clusters : L[c] \in Clusters => L[L[c]] # 0
  /\ First(L, Root) /\ L[Root] # 0

(* c begins a chain in use, and not the directory's.                       *)
Begins(L, c) == First(L, c) /\ L[c] # 0 /\ c # Root

DirShape(L, D) ==
  /\ DOMAIN D \subseteq Chain(L, Root) /\ Root \in DOMAIN D
  /\ \A x \in DOMAIN D : D[x] \in [1 .. DirPerSector -> Entries]

(* Behind an entry that was never used there is none that was.             *)
Filled(L, D) ==
  \A x \in DOMAIN D : \A i \in 1 .. DirPerSector : D[x][i].name = None =>
    /\ \A j \in 1 .. DirPerSector : j > i => D[x][j].name = None
    /\ L[x] \in DOMAIN D => \A j \in 1 .. DirPerSector : D[L[x]][j].name = None

Owns(L, e) ==
  /\ e.clust # 0 => Begins(L, e.clust)
  /\ e.size <= SS * Cardinality(Chain(L, e.clust))
Differ(e, f, T) ==
  /\ e.name # f.name
  /\ e.clust = f.clust /\ e.clust # 0 => {e.name, f.name} \subseteq T
Single(D, T) == \A p, q \in Live(D) : p # q => Differ(At(D, p), At(D, q), T)

TreeI(L, D, T) ==
  /\ Wired(L) /\ DirShape(L, D) /\ Filled(L, D)
  /\ \A p \in Live(D) : Owns(L, At(D, p))
  /\ Single(D, T)

(* A file that is open: its entry has its name, and knows its chain, or    *)
(* does not yet; nobody else has the chain.                                *)
FileIn(L, D, F, n) ==
  /\ F.sclust \in Clusters \cup {0} /\ F.size \in Nat
  /\ F.size <= SS * Cardinality(Chain(L, F.sclust))
  /\ F.sclust # 0 => /\ Begins(L, F.sclust)
                     /\ \A p \in Live(D) : At(D, p).clust = F.sclust => p = F.entry
  /\ F.entry \in Live(D) /\ At(D, F.entry).name = n /\ At(D, F.entry).clust \in {0, F.sclust}
  /\ "DIRTY" \in F.flags => F.sect \in Chain(L, F.sclust)

(* Its pointer is not behind its cluster, which is one of the chain; so is *)
(* the sector in the buffer, when the pointer is inside one.               *)
Behinds(L, F) == Cardinality(Chain(L, F.sclust)) - Cardinality(Chain(L, F.clust))
Placed(L, F) ==
  /\ F.fptr \in Nat
  /\ F.fptr > 0 => /\ F.clust \in Chain(L, F.sclust)
                   /\ F.fptr <= SS * (Behinds(L, F) + 1)
  /\ F.fptr % SS # 0 => F.sect \in Chain(L, F.sclust)

(* The files that are open, of which the one at cur may be out of place.   *)
FilesIn(L, D, io, cur) ==
  /\ \A f \in DOMAIN io :
       /\ FileIn(L, D, io[f].fil, io[f].name)
       /\ f # cur /\ io[f].fil.err = "OK" => Placed(L, io[f].fil)
  /\ \A f, g \in DOMAIN io : f # g =>
       /\ io[f].name # io[g].name
       /\ io[f].fil.sclust = io[g].fil.sclust => io[f].fil.sclust = 0

LEMMA Times ==
  /\ \A a, b \in Int : a <= b => SS * a <= SS * b
  /\ \A a \in Int : SS * (a + 1) = SS * a + SS /\ SS * a \in Int
BY Numbers

LEMMA FirstUsed == ASSUME NEW L, Wired(L) PROVE \A x \in Chain(L, Root) : L[x] # 0
<1> DEFINE S == {x \in Clusters : L[x] # 0}
<1>1. Follows(L, S) /\ Root \in S /\ S \in SUBSET Clusters
  BY Numbers DEF Follows, Wired
<1> QED BY <1>1, ChainIs, Numbers

LEMMA Used ==
  ASSUME NEW L, Wired(L), NEW c, c \in Clusters => L[c] # 0
  PROVE  \A x \in Chain(L, c) : L[x] # 0
<1> DEFINE S == {x \in Clusters : L[x] # 0}
<1>1. CASE c \in Clusters
  <2>1. Follows(L, S) /\ c \in S /\ S \in SUBSET Clusters
    BY <1>1 DEF Follows, Wired
  <2> QED BY <1>1, <2>1, ChainIs
<1>2. CASE c \notin Clusters
  BY <1>2, NoChain
<1> QED BY <1>1, <1>2

(* What stays true of a file, and of an entry, when other links change.    *)
LEMMA FileSame ==
  ASSUME NEW L, NEW K, NEW D, NEW F, NEW n, FileIn(L, D, F, n),
         \A x \in Chain(L, F.sclust) : K[x] = L[x],
         F.sclust # 0 => Begins(K, F.sclust)
  PROVE  FileIn(K, D, F, n) /\ (Placed(L, F) => Placed(K, F))
<1>1. \A x \in Chain(L, F.sclust) : Chain(K, x) = Chain(L, x)
  BY ChainSame, ChainWithin
<1>2. Chain(K, F.sclust) = Chain(L, F.sclust)
  BY ChainSame
<1>3. FileIn(K, D, F, n)
  BY <1>2 DEF FileIn
<1>4. ASSUME Placed(L, F) PROVE Placed(K, F)
  BY <1>1, <1>2, <1>4 DEF Placed, Behinds
<1> QED BY <1>3, <1>4

(* The tree without what it says of the directory's shape, for the changes *)
(* of links that leave the chains of its entries, or make them longer.     *)
LEMMA TreeLinks ==
  ASSUME NEW L, NEW K, NEW D, NEW T, TreeI(L, D, T), Wired(K),
         \A x \in DOMAIN D : K[x] = L[x] \/ (L[x] \notin DOMAIN D /\ K[x] \notin DOMAIN D),
         Chain(L, Root) \subseteq Chain(K, Root),
         \A p \in Live(D) : Owns(L, At(D, p)) => Owns(K, At(D, p))
  PROVE  TreeI(K, D, T)
<1>1. DirShape(K, D)
  BY DEF TreeI, DirShape
<1>2. Filled(K, D)
  BY DEF TreeI, Filled
<1> QED BY <1>1, <1>2 DEF TreeI

(* A free cluster becomes the end of a chain of one.                       *)
LEMMA TakeTree ==
  ASSUME NEW L, NEW D, NEW T, TreeI(L, D, T), NEW n \in Clusters, L[n] = 0
  PROVE  LET K == [L EXCEPT ![n] = Eoc]
         IN /\ TreeI(K, D, T) /\ First(K, n) /\ K[n] = Eoc
            /\ \A io, cur : FilesIn(L, D, io, cur) => FilesIn(K, D, io, cur)
            /\ \A c \in Clusters : L[c] # 0 => Chain(K, c) = Chain(L, c)
            /\ \A c : Begins(L, c) => c # n
            /\ n # Root
<1> DEFINE K == [L EXCEPT ![n] = Eoc]
<1>0. /\ \A x \in Clusters : K[x] = IF x = n THEN Eoc ELSE L[x]
      /\ K \in LinkFcns
  BY DEF TreeI, Wired, LinkFcns
<1>a. Wired(L)
  BY DEF TreeI
<1> SUFFICES /\ TreeI(K, D, T) /\ First(K, n) /\ K[n] = Eoc
             /\ \A io, cur : FilesIn(L, D, io, cur) => FilesIn(K, D, io, cur)
             /\ \A c \in Clusters : L[c] # 0 => Chain(K, c) = Chain(L, c)
             /\ \A c : Begins(L, c) => c # n
             /\ n # Root
  OBVIOUS
<1> HIDE DEF K
<1>1. Wired(K) /\ First(K, n) /\ K[n] = Eoc /\ n # Root
  BY <1>0, <1>a, Numbers DEF Wired, Apart, First
<1>2. \A c : Begins(L, c) => Begins(K, c) /\ c # n
  BY <1>0, Numbers DEF Begins, First
<1>3. ASSUME NEW c, c \in Clusters => L[c] # 0
      PROVE  \A x \in Chain(L, c) : K[x] = L[x]
  BY <1>0, <1>3, <1>a, Used, ChainClusters
<1>4. \A c \in Clusters : L[c] # 0 => Chain(K, c) = Chain(L, c)
  BY <1>3, ChainSame
<1>5. TreeI(K, D, T)
  <2>1. Chain(L, Root) \subseteq Chain(K, Root)
    BY <1>4, <1>a, Numbers DEF Wired
  <2>2. \A x \in DOMAIN D : K[x] = L[x]
    BY <1>3, <1>a, Numbers DEF TreeI, DirShape, Wired
  <2>3. ASSUME NEW p \in Live(D), Owns(L, At(D, p)) PROVE Owns(K, At(D, p))
    <3> DEFINE c == At(D, p).clust
    <3>1. c # 0 => Begins(L, c) /\ Begins(K, c) /\ c \in Clusters /\ L[c] # 0
      BY <1>2, <2>3 DEF Owns, Begins, First
    <3>2. Chain(K, c) = Chain(L, c)
      BY <3>1, <1>4, NoChain, Numbers
    <3> QED BY <3>1, <3>2, <2>3 DEF Owns
  <2> QED BY <1>1, <2>1, <2>2, <2>3, TreeLinks
<1>6. ASSUME NEW io, NEW cur, FilesIn(L, D, io, cur) PROVE FilesIn(K, D, io, cur)
  <2>1. ASSUME NEW f \in DOMAIN io, FileIn(L, D, io[f].fil, io[f].name)
        PROVE  /\ FileIn(K, D, io[f].fil, io[f].name)
               /\ Placed(L, io[f].fil) => Placed(K, io[f].fil)
    <3> DEFINE F == io[f].fil
    <3>1. F.sclust # 0 => Begins(K, F.sclust)
      BY <1>2, <2>1 DEF FileIn
    <3>2. F.sclust \in Clusters => L[F.sclust] # 0
      BY <2>1, Numbers DEF FileIn, Begins
    <3>3. \A x \in Chain(L, F.sclust) : K[x] = L[x]
      BY <3>2, <1>3
    <3> QED BY <2>1, <3>1, <3>3, FileSame
  <2> QED BY <1>6, <2>1 DEF FilesIn
<1> QED BY <1>1, <1>2, <1>4, <1>5, <1>6

(* The first cluster of a chain nobody has becomes free.                   *)
LEMMA FreeTree ==
  ASSUME NEW L, NEW D, NEW T, TreeI(L, D, T), NEW n, First(L, n), n # Root,
         \A p \in Live(D) : At(D, p).clust # n
  PROVE  LET K == [L EXCEPT ![n] = 0]
         IN /\ TreeI(K, D, T)
            /\ \A c : First(L, c) => First(K, c)
            /\ L[n] \in Clusters => First(K, L[n])
            /\ \A io, cur : FilesIn(L, D, io, cur) /\ (\A f \in DOMAIN io : io[f].fil.sclust # n)
                 => FilesIn(K, D, io, cur)
<1> DEFINE K == [L EXCEPT ![n] = 0]
<1>0. /\ \A x \in Clusters : K[x] = IF x = n THEN 0 ELSE L[x]
      /\ K \in LinkFcns
  BY DEF TreeI, Wired, LinkFcns
<1>a. Wired(L) /\ n \in Clusters
  BY DEF TreeI, First
<1> SUFFICES /\ TreeI(K, D, T)
             /\ \A c : First(L, c) => First(K, c)
             /\ L[n] \in Clusters => First(K, L[n])
             /\ \A io, cur : FilesIn(L, D, io, cur) /\ (\A f \in DOMAIN io : io[f].fil.sclust # n)
                  => FilesIn(K, D, io, cur)
  OBVIOUS
<1> HIDE DEF K
<1>1. \A c : First(L, c) => First(K, c)
  BY <1>0, Numbers DEF First
<1>2. L[n] \in Clusters => First(K, L[n])
  BY <1>0, <1>a, Numbers DEF First, Wired, Apart
<1>3. Wired(K)
  BY <1>0, <1>1, <1>a, Numbers DEF Wired, Apart, First
<1>4. ASSUME NEW c, c # n PROVE \A x \in Chain(L, c) : K[x] = L[x]
  BY <1>0, <1>4, ChainNot, ChainClusters
<1>5. \A c : c # n => Chain(K, c) = Chain(L, c)
  BY <1>4, ChainSame
<1>6. \A c : Begins(L, c) /\ c # n => Begins(K, c)
  BY <1>0, <1>1 DEF Begins, First
<1>7. TreeI(K, D, T)
  <2>1. Chain(L, Root) \subseteq Chain(K, Root)
    BY <1>5
  <2>2. \A x \in DOMAIN D : K[x] = L[x]
    BY <1>4 DEF TreeI, DirShape
  <2>3. ASSUME NEW p \in Live(D), Owns(L, At(D, p)) PROVE Owns(K, At(D, p))
    BY <1>5, <1>6, <2>3 DEF Owns
  <2> QED BY <1>3, <2>1, <2>2, <2>3, TreeLinks
<1>8. ASSUME NEW io, NEW cur, FilesIn(L, D, io, cur), \A f \in DOMAIN io : io[f].fil.sclust # n
      PROVE  FilesIn(K, D, io, cur)
  <2>1. ASSUME NEW f \in DOMAIN io, FileIn(L, D, io[f].fil, io[f].name)
        PROVE  /\ FileIn(K, D, io[f].fil, io[f].name)
               /\ Placed(L, io[f].fil) => Placed(K, io[f].fil)
    <3> DEFINE F == io[f].fil
    <3>1. F.sclust # 0 => Begins(K, F.sclust)
      BY <1>6, <1>8, <2>1 DEF FileIn
    <3>3. \A x \in Chain(L, F.sclust) : K[x] = L[x]
      BY <1>8, <1>4
    <3> QED BY <2>1, <3>1, <3>3, FileSame
  <2> QED BY <1>8, <2>1 DEF FilesIn
<1> QED BY <1>1, <1>2, <1>7, <1>8

(* A chain of one, which nobody has, is put behind the end of a chain.     *)
LEMMA LinkTree ==
  ASSUME NEW L, NEW D, NEW T, TreeI(L, D, T), NEW t \in Clusters, L[t] = Eoc,
         NEW n, First(L, n), L[n] = Eoc, n # t, n # Root,
         \A p \in Live(D) : At(D, p).clust # n
  PROVE  LET K == [L EXCEPT ![t] = n]
         IN /\ TreeI(K, D, T)
            /\ \A c : Chain(K, c) = Chain(L, c) \cup (IF t \in Chain(L, c) THEN {n} ELSE {})
            /\ \A io, cur : FilesIn(L, D, io, cur) /\ (\A f \in DOMAIN io : io[f].fil.sclust # n)
                 => FilesIn(K, D, io, cur)
<1> DEFINE K == [L EXCEPT ![t] = n]
<1>a. Wired(L) /\ n \in Clusters /\ L \in LinkFcns
  BY DEF TreeI, First, Wired
<1>0. /\ \A x \in Clusters : K[x] = IF x = t THEN n ELSE L[x]
      /\ K \in LinkFcns
  BY <1>a DEF LinkFcns
<1>b. \A c : Chain(K, c) = Chain(L, c) \cup (IF t \in Chain(L, c) THEN {n} ELSE {})
  BY <1>a, Numbers, ChainPlus
<1> SUFFICES /\ TreeI(K, D, T)
             /\ \A c : Chain(K, c) = Chain(L, c) \cup (IF t \in Chain(L, c) THEN {n} ELSE {})
             /\ \A io, cur : FilesIn(L, D, io, cur) /\ (\A f \in DOMAIN io : io[f].fil.sclust # n)
                  => FilesIn(K, D, io, cur)
  OBVIOUS
<1> HIDE DEF K
<1>1. \A c : First(L, c) /\ c # n => First(K, c)
  BY <1>0 DEF First
<1>2. \A c : Begins(L, c) /\ c # n => Begins(K, c)
  BY <1>0, <1>1, <1>a, Numbers DEF Begins, First
<1>3. Wired(K)
  BY <1>0, <1>1, <1>a, Numbers DEF Wired, Apart, First
<1>4. \A c : Cardinality(Chain(K, c)) >= Cardinality(Chain(L, c))
  BY <1>b, ChainSize, FS_Subset
<1>5. TreeI(K, D, T)
  <2>1. Chain(L, Root) \subseteq Chain(K, Root)
    BY <1>b
  <2>2. \A x \in DOMAIN D : K[x] = L[x] \/ (L[x] \notin DOMAIN D /\ K[x] \notin DOMAIN D)
    <3>1. n \notin DOMAIN D /\ Eoc \notin DOMAIN D /\ DOMAIN D \subseteq Clusters
      BY ChainNot, ChainClusters, Numbers DEF TreeI, DirShape
    <3> QED BY <3>1, <1>0
  <2>3. ASSUME NEW p \in Live(D), Owns(L, At(D, p)) PROVE Owns(K, At(D, p))
    <3> DEFINE e == At(D, p)
    <3>1. e.clust # 0 => Begins(K, e.clust)
      BY <1>2, <2>3 DEF Owns
    <3>2. e.size \in Nat
      BY DEF TreeI, DirShape, Live, At, Entries, Places
    <3>3. SS * Cardinality(Chain(L, e.clust)) <= SS * Cardinality(Chain(K, e.clust))
      BY <1>4, ChainSize, Times
    <3>4. /\ SS * Cardinality(Chain(L, e.clust)) \in Int
          /\ SS * Cardinality(Chain(K, e.clust)) \in Int
      BY ChainSize, Times
    <3> QED BY <2>3, <3>1, <3>2, <3>3, <3>4 DEF Owns
  <2> QED BY <1>3, <2>1, <2>2, <2>3, TreeLinks
<1>6. ASSUME NEW F, NEW m, FileIn(L, D, F, m), F.sclust # n
      PROVE  FileIn(K, D, F, m)
  <2>1. SS * Cardinality(Chain(L, F.sclust)) <= SS * Cardinality(Chain(K, F.sclust))
    BY <1>4, ChainSize, Times
  <2>2. /\ SS * Cardinality(Chain(L, F.sclust)) \in Int
        /\ SS * Cardinality(Chain(K, F.sclust)) \in Int
    BY ChainSize, Times
  <2>3. F.size \in Nat /\ F.size <= SS * Cardinality(Chain(L, F.sclust))
    BY <1>6 DEF FileIn
  <2>4. F.size <= SS * Cardinality(Chain(K, F.sclust))
    BY <2>1, <2>2, <2>3
  <2> QED BY <1>6, <2>4, <1>2, <1>b DEF FileIn
<1>7. ASSUME NEW F, Placed(L, F) PROVE Placed(K, F)
  <2> DEFINE a == Cardinality(Chain(L, F.sclust))
             b == Cardinality(Chain(L, F.clust))
             aa == Cardinality(Chain(K, F.sclust))
             bb == Cardinality(Chain(K, F.clust))
  <2>0. F.fptr \in Nat
    BY <1>7 DEF Placed
  <2>1. ASSUME F.fptr > 0 PROVE F.clust \in Chain(K, F.sclust) /\ F.fptr <= SS * (Behinds(K, F) + 1)
    <3>0. F.clust \in Chain(L, F.sclust) /\ F.fptr <= SS * (Behinds(L, F) + 1)
      BY <2>1, <1>7 DEF Placed
    <3>1. t \in Chain(L, F.clust) => t \in Chain(L, F.sclust)
      BY <3>0, ChainWithin
    <3>2. a \in Nat /\ b \in Nat /\ aa \in Nat /\ bb \in Nat /\ aa >= a
      BY ChainSize, <1>4
    <3>3. \A c : n \notin Chain(L, c) \/ c = n
      BY ChainNot
    <3>4. F.clust # n \/ F.sclust = n
      BY <3>0, <3>3
    <3>5. ASSUME t \in Chain(L, F.clust) PROVE aa = a + 1 /\ bb = b + 1
      <4>1. Chain(L, n) = {n}
        BY <1>a, Numbers, ChainNext, NoChain
      <4>2. F.clust # n /\ F.sclust # n
        BY <3>5, <3>1, <4>1
      <4>3. /\ Chain(K, F.clust) = Chain(L, F.clust) \cup {n}
            /\ Chain(K, F.sclust) = Chain(L, F.sclust) \cup {n}
        BY <3>5, <3>1, <1>b
      <4> QED BY <4>2, <4>3, <3>3, ChainSize, FS_AddElement
    <3>6. ASSUME t \notin Chain(L, F.clust) PROVE bb = b
      BY <3>6, <1>b
    <3>7. a - b + 1 <= aa - bb + 1 /\ a - b + 1 \in Int /\ aa - bb + 1 \in Int
      BY <3>2, <3>5, <3>6
    <3>8. SS * (a - b + 1) <= SS * (aa - bb + 1) /\ SS * (a - b + 1) \in Int /\ SS * (aa - bb + 1) \in Int
      <4> HIDE DEF a, b, aa, bb
      <4> QED BY <3>7, Times
    <3>9. F.fptr <= SS * (aa - bb + 1)
      BY <3>0, <3>8, <2>0 DEF Behinds
    <3> QED BY <3>0, <3>9, <1>b DEF Behinds
  <2> QED BY <2>0, <2>1, <1>7, <1>b DEF Placed
<1>8. ASSUME NEW io, NEW cur, FilesIn(L, D, io, cur), \A f \in DOMAIN io : io[f].fil.sclust # n
      PROVE  FilesIn(K, D, io, cur)
  BY <1>6, <1>7, <1>8 DEF FilesIn
<1> QED BY <1>5, <1>8, <1>b

(***************************************************************************)
(* Changes of the directory: an entry, and a sector more.                  *)
(***************************************************************************)
Entered(D, p, e) == [D EXCEPT ![p[1]] = [@ EXCEPT ![p[2]] = e]]

(* No entry before p was never used.                                       *)
UsedUpTo(L, D, p) ==
  /\ \A i \in 1 .. DirPerSector : i < p[2] => D[p[1]][i].name # None
  /\ \A x \in DOMAIN D : L[x] = p[1] => \A i \in 1 .. DirPerSector : D[x][i].name # None

LEMMA EnteredIs ==
  ASSUME NEW L, NEW D, NEW p \in Places, NEW e \in Entries, DirShape(L, D), p[1] \in DOMAIN D
  PROVE  /\ DOMAIN Entered(D, p, e) = DOMAIN D
         /\ DirShape(L, Entered(D, p, e))
         /\ \A x \in DOMAIN D : \A i \in 1 .. DirPerSector :
              Entered(D, p, e)[x][i] = IF <<x, i>> = p THEN e ELSE D[x][i]
         /\ \A q \in Places : q[1] \in DOMAIN D =>
              At(Entered(D, p, e), q) = IF q = p THEN e ELSE At(D, q)
         /\ Live(Entered(D, p, e)) = (Live(D) \ {p}) \cup (IF e.name \in Names THEN {p} ELSE {})
<1> DEFINE E == Entered(D, p, e)
<1>0. /\ p[1] \in Clusters /\ p[2] \in 1 .. DirPerSector /\ p = <<p[1], p[2]>>
      /\ \A x \in DOMAIN D : D[x] \in [1 .. DirPerSector -> Entries]
  BY DEF Places, DirShape
<1>1. DOMAIN E = DOMAIN D
  BY DEF Entered
<1>2. \A x \in DOMAIN D : E[x] = IF x = p[1] THEN [D[x] EXCEPT ![p[2]] = e] ELSE D[x]
  BY DEF Entered
<1>3. ASSUME NEW x \in DOMAIN D, NEW i \in 1 .. DirPerSector
      PROVE  E[x][i] = IF <<x, i>> = p THEN e ELSE D[x][i]
  <2> HIDE DEF E
  <2>0. <<x, i>> = p <=> x = p[1] /\ i = p[2]
    BY <1>0
  <2>1. CASE x = p[1]
    BY <1>0, <1>2, <2>0, <2>1
  <2>2. CASE x # p[1]
    BY <1>2, <2>0, <2>2
  <2> QED BY <2>1, <2>2
<1>4. ASSUME NEW x \in DOMAIN D PROVE E[x] \in [1 .. DirPerSector -> Entries]
  <2> HIDE DEF E
  <2>1. D[x] \in [1 .. DirPerSector -> Entries]
    BY <1>0
  <2>2. [D[x] EXCEPT ![p[2]] = e] \in [1 .. DirPerSector -> Entries]
    BY <1>0, <2>1
  <2> QED BY <1>2, <2>1, <2>2
<1>5. \A q \in Places : q[1] \in DOMAIN D => At(E, q) = IF q = p THEN e ELSE At(D, q)
  <2> SUFFICES ASSUME NEW q \in Places, q[1] \in DOMAIN D
               PROVE  At(E, q) = IF q = p THEN e ELSE At(D, q)
    OBVIOUS
  <2>1. q[2] \in 1 .. DirPerSector /\ q = <<q[1], q[2]>>
    BY DEF Places
  <2> QED BY <1>3, <2>1 DEF At
<1>6. DirShape(L, E)
  BY <1>1, <1>4 DEF DirShape
<1>7. Live(E) = (Live(D) \ {p}) \cup (IF e.name \in Names THEN {p} ELSE {})
  BY <1>1, <1>5 DEF Live
<1> QED BY <1>1, <1>3, <1>5, <1>6, <1>7

LEMMA LiveUsed ==
  ASSUME NEW L, NEW D, Filled(L, D), NEW p \in Places, p[1] \in DOMAIN D, At(D, p).name # None
  PROVE  UsedUpTo(L, D, p)
<1>1. p[2] \in 1 .. DirPerSector
  BY DEF Places
<1> QED BY <1>1 DEF Filled, UsedUpTo, At

LEMMA EntryTree ==
  ASSUME NEW L, NEW D, NEW T, NEW U, TreeI(L, D, T),
         NEW p \in Places, p[1] \in DOMAIN D, NEW e \in Entries, e.name # None,
         UsedUpTo(L, D, p),
         e.name \in Names => /\ Owns(L, e)
                             /\ \A q \in Live(D) \ {p} : Differ(e, At(D, q), U),
         \A q, r \in Live(D) \ {p} : q # r => Differ(At(D, q), At(D, r), U)
  PROVE  TreeI(L, Entered(D, p, e), U)
<1> DEFINE E == Entered(D, p, e)
<1>0. /\ DOMAIN E = DOMAIN D
      /\ DirShape(L, E)
      /\ \A x \in DOMAIN D : \A i \in 1 .. DirPerSector :
           E[x][i] = IF <<x, i>> = p THEN e ELSE D[x][i]
      /\ \A q \in Places : q[1] \in DOMAIN D => At(E, q) = IF q = p THEN e ELSE At(D, q)
      /\ Live(E) = (Live(D) \ {p}) \cup (IF e.name \in Names THEN {p} ELSE {})
  BY EnteredIs DEF TreeI
<1> HIDE DEF E
<1>1. Filled(L, E)
  <2> SUFFICES ASSUME NEW x \in DOMAIN D, NEW i \in 1 .. DirPerSector, E[x][i].name = None
               PROVE  /\ \A j \in 1 .. DirPerSector : j > i => E[x][j].name = None
                      /\ L[x] \in DOMAIN D => \A j \in 1 .. DirPerSector : E[L[x]][j].name = None
    BY <1>0 DEF Filled
  <2>1. <<x, i>> # p /\ D[x][i].name = None
    BY <1>0
  <2>2. p = <<p[1], p[2]>>
    BY DEF Places
  <2>3. ASSUME NEW j \in 1 .. DirPerSector, j > i PROVE E[x][j].name = None
    <3>1. <<x, j>> # p
      BY <2>1, <2>2, <2>3 DEF UsedUpTo
    <3>2. D[x][j].name = None
      BY <2>1, <2>3 DEF TreeI, Filled
    <3> QED BY <3>1, <3>2, <1>0
  <2>4. ASSUME L[x] \in DOMAIN D, NEW j \in 1 .. DirPerSector PROVE E[L[x]][j].name = None
    <3>1. <<L[x], j>> # p
      BY <2>1, <2>2 DEF UsedUpTo
    <3>2. D[L[x]][j].name = None
      BY <2>1, <2>4 DEF TreeI, Filled
    <3> QED BY <3>1, <3>2, <2>4, <1>0
  <2> QED BY <2>3, <2>4
<1>2. \A q \in Live(E) : Owns(L, At(E, q))
  BY <1>0 DEF TreeI, Live
<1>3. Single(E, U)
  <2> SUFFICES ASSUME NEW q \in Live(E), NEW r \in Live(E), q # r
               PROVE  Differ(At(E, q), At(E, r), U)
    BY DEF Single
  <2>1. q \in Places /\ q[1] \in DOMAIN D /\ r \in Places /\ r[1] \in DOMAIN D
    BY <1>0 DEF Live
  <2>2. CASE q = p
    BY <1>0, <2>1, <2>2
  <2>3. CASE r = p
    <3>1. Differ(At(E, r), At(E, q), U)
      BY <1>0, <2>1, <2>3
    <3> QED BY <3>1 DEF Differ
  <2>4. CASE q # p /\ r # p
    BY <1>0, <2>1, <2>4
  <2> QED BY <2>2, <2>3, <2>4
<1> QED BY <1>0, <1>1, <1>2, <1>3 DEF TreeI, E

LEMMA EntryFiles ==
  ASSUME NEW L, NEW D, NEW io, NEW cur, DirShape(L, D), FilesIn(L, D, io, cur),
         NEW p \in Places, p[1] \in DOMAIN D, NEW e \in Entries,
         \A f \in DOMAIN io :
           /\ io[f].fil.entry = p => /\ e.name = At(D, p).name
                                     /\ e.clust \in {0, io[f].fil.sclust}
           /\ e.name \in Names /\ e.clust = io[f].fil.sclust /\ e.clust # 0
                => io[f].fil.entry = p
  PROVE  FilesIn(L, Entered(D, p, e), io, cur)
<1> DEFINE E == Entered(D, p, e)
<1>0. /\ \A q \in Places : q[1] \in DOMAIN D => At(E, q) = IF q = p THEN e ELSE At(D, q)
      /\ Live(E) = (Live(D) \ {p}) \cup (IF e.name \in Names THEN {p} ELSE {})
  BY EnteredIs
<1> HIDE DEF E
<1>1. ASSUME NEW f \in DOMAIN io, FileIn(L, D, io[f].fil, io[f].name)
      PROVE  FileIn(L, E, io[f].fil, io[f].name)
  <2> DEFINE F == io[f].fil
  <2>1. F.entry \in Live(D) /\ F.entry \in Places /\ F.entry[1] \in DOMAIN D
    BY <1>1 DEF FileIn, Live
  <2>2. F.entry \in Live(E) /\ At(E, F.entry).name = io[f].name
        /\ At(E, F.entry).clust \in {0, F.sclust}
    <3>1. CASE F.entry # p
      BY <3>1, <2>1, <1>0, <1>1 DEF FileIn
    <3>2. CASE F.entry = p
      BY <3>2, <2>1, <1>0, <1>1 DEF FileIn, Live
    <3> QED BY <3>1, <3>2
  <2>3. ASSUME F.sclust # 0, NEW q \in Live(E), At(E, q).clust = F.sclust PROVE q = F.entry
    <3>1. q \in Places /\ q[1] \in DOMAIN D
      BY <1>0 DEF Live
    <3>2. CASE q = p
      <4>1. e.clust = F.sclust /\ e.name \in Names
        BY <3>1, <3>2, <1>0, <2>3
      <4> QED BY <3>2, <4>1, <2>3
    <3>3. CASE q # p
      BY <3>1, <3>3, <1>0, <1>1, <2>3 DEF FileIn
    <3> QED BY <3>2, <3>3
  <2> HIDE DEF F
  <2>4. FileIn(L, D, F, io[f].name)
    BY <1>1 DEF F
  <2>5. FileIn(L, E, F, io[f].name)
    BY <2>2, <2>3, <2>4 DEF FileIn
  <2> QED BY <2>5 DEF F
<1>2. FilesIn(L, E, io, cur)
  BY <1>1 DEF FilesIn
<1> QED BY <1>2 DEF E

(* A cluster behind the others is cleared for the directory.               *)
Lengthened(D, n) == [x \in DOMAIN D \cup {n} |-> IF x = n THEN EmptyDir ELSE D[x]]

LEMMA LengthTree ==
  ASSUME NEW L, NEW D, NEW T, TreeI(L, D, T), NEW n \in Chain(L, Root), n \notin DOMAIN D,
         L[n] = Eoc
  PROVE  /\ TreeI(L, Lengthened(D, n), T)
         /\ \A io, cur : FilesIn(L, D, io, cur) => FilesIn(L, Lengthened(D, n), io, cur)
         /\ Live(Lengthened(D, n)) = Live(D)
         /\ \A p \in Live(D) : At(Lengthened(D, n), p) = At(D, p)
<1> DEFINE E == Lengthened(D, n)
<1>0. /\ DOMAIN E = DOMAIN D \cup {n}
      /\ \A x \in DOMAIN D : E[x] = D[x] /\ x # n
      /\ E[n] = EmptyDir
  BY DEF Lengthened
<1>1. /\ EmptyDir \in [1 .. DirPerSector -> Entries]
      /\ \A i \in 1 .. DirPerSector : EmptyDir[i].name = None
      /\ None \notin Names
  BY NoneAssumption DEF EmptyDir, NoEntry, Entries
<1> HIDE DEF E
<1>2. DirShape(L, E)
  BY <1>0, <1>1 DEF TreeI, DirShape
<1>3. Live(E) = Live(D) /\ \A p \in Live(D) : At(E, p) = At(D, p)
  <2>1. ASSUME NEW p \in Places PROVE p \in Live(E) <=> p \in Live(D)
    <3>1. p[2] \in 1 .. DirPerSector
      BY DEF Places
    <3> QED BY <3>1, <1>0, <1>1 DEF Live, At
  <2> QED BY <2>1, <1>0 DEF Live, At
<1>4. Filled(L, E)
  <2> SUFFICES ASSUME NEW x \in DOMAIN E, NEW i \in 1 .. DirPerSector, E[x][i].name = None
               PROVE  /\ \A j \in 1 .. DirPerSector : j > i => E[x][j].name = None
                      /\ L[x] \in DOMAIN E => \A j \in 1 .. DirPerSector : E[L[x]][j].name = None
    BY DEF Filled
  <2>1. Eoc \notin DOMAIN E
    BY <1>0, ChainClusters, Numbers DEF TreeI, DirShape
  <2>2. CASE x = n
    BY <2>1, <2>2, <1>0, <1>1
  <2>3. CASE x # n
    <3>1. x \in DOMAIN D /\ D[x][i].name = None
      BY <2>3, <1>0
    <3>2. \A j \in 1 .. DirPerSector : j > i => E[x][j].name = None
      BY <3>1, <1>0 DEF TreeI, Filled
    <3>3. ASSUME L[x] \in DOMAIN E, NEW j \in 1 .. DirPerSector PROVE E[L[x]][j].name = None
      <4>1. CASE L[x] = n
        BY <4>1, <1>0, <1>1
      <4>2. CASE L[x] # n
        BY <4>2, <3>1, <3>3, <1>0 DEF TreeI, Filled
      <4> QED BY <4>1, <4>2
    <3> QED BY <3>2, <3>3
  <2> QED BY <2>2, <2>3
<1>5. TreeI(L, E, T)
  BY <1>2, <1>3, <1>4 DEF TreeI, Single
<1>6. \A io, cur : FilesIn(L, D, io, cur) => FilesIn(L, E, io, cur)
  BY <1>3 DEF FilesIn, FileIn
<1> QED BY <1>3, <1>5, <1>6 DEF E

LEMMA TreeWider ==
  ASSUME NEW L, NEW D, NEW T, NEW U, TreeI(L, D, T), T \subseteq U
  PROVE  TreeI(L, D, U)
BY DEF TreeI, Single, Differ

(***************************************************************************)
(* The card's sectors, and what writing one of them does.                  *)
(***************************************************************************)
FatSecs == {FatSec(c) : c \in 0 .. TopCluster}
Sectors == {InfoSec} \cup FatSecs \cup Clusters
Slots(d) == {c \in Clusters : DOMAIN d[c] = 1 .. DirPerSector}
Dir(d)   == [c \in Slots(d) |-> d[c]]

Shape(d) ==
  /\ DOMAIN d = Sectors
  /\ \A c \in Clusters : c \in DOMAIN d[FatSec(c)]
  /\ \A c \in Clusters : DOMAIN d[c] \in {0 .. SS - 1, 1 .. DirPerSector}
  /\ d[InfoSec].free \in Int /\ d[InfoSec].last \in Int
DiskI(d, T) == Shape(d) /\ TreeI(Links(d), Dir(d), T)

LEMMA SectorNumbers ==
  /\ \A c \in Clusters : FatSec(c) \in FatSecs
  /\ FatSecs \cap Clusters = {} /\ InfoSec \notin FatSecs \cup Clusters
  /\ 0 \notin Sectors /\ 0 \notin FatSecs /\ InfoSec # 0 /\ InfoSec \in Sectors
  /\ (0 .. SS - 1) # (1 .. DirPerSector)
<1>1. \A c \in 0 .. TopCluster : FatSec(c) \in Int /\ FatSec(c) < 0
  <2> SUFFICES ASSUME NEW c \in Nat PROVE c \div FatPerSector \in Nat
    BY Numbers DEF FatSec
  <2> QED BY Numbers
<1>2. Clusters \subseteq 0 .. TopCluster
  BY Numbers
<1>3. 0 \in 0 .. SS - 1 /\ 0 \notin 1 .. DirPerSector
  BY Numbers
<1> QED BY <1>1, <1>2, <1>3, Numbers DEF FatSecs, Sectors, InfoSec

LEMMA WriteFat ==
  ASSUME NEW d, Shape(d), NEW c \in Clusters, NEW v
  PROVE  LET w == [d EXCEPT ![FatSec(c)] = [d[FatSec(c)] EXCEPT ![c] = v]]
         IN Shape(w) /\ Links(w) = [Links(d) EXCEPT ![c] = v] /\ Slots(w) = Slots(d) /\ Dir(w) = Dir(d)
<1> DEFINE w == [d EXCEPT ![FatSec(c)] = [d[FatSec(c)] EXCEPT ![c] = v]]
<1>1. /\ DOMAIN w = Sectors
      /\ \A n \in Sectors : n # FatSec(c) => w[n] = d[n]
      /\ w[FatSec(c)] = [d[FatSec(c)] EXCEPT ![c] = v]
      /\ DOMAIN w[FatSec(c)] = DOMAIN d[FatSec(c)]
  BY SectorNumbers DEF Shape, Sectors
<1>2. \A b \in Clusters : w[FatSec(b)][b] = IF b = c THEN v ELSE d[FatSec(b)][b]
  <2> SUFFICES ASSUME NEW b \in Clusters
               PROVE  w[FatSec(b)][b] = IF b = c THEN v ELSE d[FatSec(b)][b]
    OBVIOUS
  <2>1. b \in DOMAIN d[FatSec(b)] /\ FatSec(b) \in Sectors
    BY SectorNumbers DEF Shape, Sectors
  <2> HIDE DEF w
  <2>2. CASE FatSec(b) = FatSec(c)
    BY <1>1, <2>1, <2>2
  <2>3. CASE FatSec(b) # FatSec(c)
    BY <1>1, <2>1, <2>3
  <2> QED BY <2>2, <2>3
<1> SUFFICES Shape(w) /\ Links(w) = [Links(d) EXCEPT ![c] = v] /\ Slots(w) = Slots(d) /\ Dir(w) = Dir(d)
  OBVIOUS
<1> HIDE DEF w
<1>3. \A n \in Clusters \cup {InfoSec} : w[n] = d[n]
  BY <1>1, SectorNumbers DEF Sectors
<1>4. Shape(w)
  <2>1. \A b \in Clusters : b \in DOMAIN w[FatSec(b)]
    BY <1>1, SectorNumbers DEF Shape, Sectors
  <2> QED BY <1>1, <1>3, <2>1 DEF Shape
<1>5. Links(w) = [Links(d) EXCEPT ![c] = v]
  BY <1>2 DEF Links
<1>6. Slots(w) = Slots(d)
  BY <1>3 DEF Slots
<1>7. Dir(w) = Dir(d)
  BY <1>3, <1>6 DEF Dir, Slots
<1> QED BY <1>4, <1>5, <1>6, <1>7

(* A sector that holds no link is written.                                 *)
LEMMA WriteOther ==
  ASSUME NEW d, Shape(d), NEW n \in Clusters \cup {InfoSec}, NEW v
  PROVE  LET w == [d EXCEPT ![n] = v]
         IN /\ DOMAIN w = Sectors /\ w[n] = v
            /\ \A m \in Sectors : m # n => w[m] = d[m]
            /\ Links(w) = Links(d)
            /\ \A c \in Clusters : c \in DOMAIN w[FatSec(c)]
<1> DEFINE w == [d EXCEPT ![n] = v]
<1>1. DOMAIN w = Sectors /\ w[n] = v /\ \A m \in Sectors : m # n => w[m] = d[m]
  BY SectorNumbers DEF Shape, Sectors
<1> HIDE DEF w
<1>2. \A c \in Clusters : w[FatSec(c)] = d[FatSec(c)]
  BY <1>1, SectorNumbers DEF Sectors
<1>3. Links(w) = Links(d)
  BY <1>2 DEF Links
<1> QED BY <1>1, <1>2, <1>3 DEF Shape, w

LEMMA WriteInfoSec ==
  ASSUME NEW d, Shape(d), NEW v, v.free \in Int, v.last \in Int
  PROVE  LET w == [d EXCEPT ![InfoSec] = v]
         IN Shape(w) /\ Links(w) = Links(d) /\ Slots(w) = Slots(d) /\ Dir(w) = Dir(d)
<1> DEFINE w == [d EXCEPT ![InfoSec] = v]
<1>1. /\ DOMAIN w = Sectors /\ w[InfoSec] = v
      /\ \A m \in Sectors : m # InfoSec => w[m] = d[m]
      /\ Links(w) = Links(d)
      /\ \A c \in Clusters : c \in DOMAIN w[FatSec(c)]
  BY WriteOther
<1> HIDE DEF w
<1>2. \A c \in Clusters : w[c] = d[c]
  BY <1>1, SectorNumbers DEF Sectors
<1>3. Shape(w) /\ Slots(w) = Slots(d) /\ Dir(w) = Dir(d)
  BY <1>1, <1>2 DEF Shape, Slots, Dir
<1> QED BY <1>1, <1>3 DEF w

LEMMA WriteData ==
  ASSUME NEW d, Shape(d), NEW n \in Clusters, n \notin Slots(d), NEW v, DOMAIN v = 0 .. SS - 1
  PROVE  LET w == [d EXCEPT ![n] = v]
         IN Shape(w) /\ Links(w) = Links(d) /\ Slots(w) = Slots(d) /\ Dir(w) = Dir(d)
<1> DEFINE w == [d EXCEPT ![n] = v]
<1>1. /\ DOMAIN w = Sectors /\ w[n] = v
      /\ \A m \in Sectors : m # n => w[m] = d[m]
      /\ Links(w) = Links(d)
      /\ \A c \in Clusters : c \in DOMAIN w[FatSec(c)]
  BY WriteOther
<1> HIDE DEF w
<1>2. \A c \in Clusters : c # n => w[c] = d[c]
  BY <1>1 DEF Sectors
<1>3. w[InfoSec] = d[InfoSec]
  BY <1>1, SectorNumbers
<1>4. Shape(w)
  BY <1>1, <1>2, <1>3 DEF Shape
<1>5. Slots(w) = Slots(d)
  BY <1>1, <1>2, SectorNumbers DEF Slots
<1>6. Dir(w) = Dir(d)
  <2>1. \A c \in Slots(d) : c \in Clusters /\ c # n
    BY DEF Slots
  <2> QED BY <1>2, <1>5, <2>1 DEF Dir
<1> QED BY <1>1, <1>4, <1>5, <1>6 DEF w

LEMMA WriteEntry ==
  ASSUME NEW d, Shape(d), NEW p \in Places, p[1] \in Slots(d), NEW e
  PROVE  LET w == [d EXCEPT ![p[1]] = [d[p[1]] EXCEPT ![p[2]] = e]]
         IN Shape(w) /\ Links(w) = Links(d) /\ Slots(w) = Slots(d) /\ Dir(w) = Entered(Dir(d), p, e)
<1> DEFINE n == p[1]
           v == [d[n] EXCEPT ![p[2]] = e]
           w == [d EXCEPT ![n] = v]
<1>0. DOMAIN v = 1 .. DirPerSector /\ n \in Clusters
  BY DEF Slots
<1>1. /\ DOMAIN w = Sectors /\ w[n] = v
      /\ \A m \in Sectors : m # n => w[m] = d[m]
      /\ Links(w) = Links(d)
      /\ \A c \in Clusters : c \in DOMAIN w[FatSec(c)]
  BY <1>0, WriteOther
<1> SUFFICES Shape(w) /\ Links(w) = Links(d) /\ Slots(w) = Slots(d) /\ Dir(w) = Entered(Dir(d), p, e)
  OBVIOUS
<1> HIDE DEF w
<1>2. \A c \in Clusters : c # n => w[c] = d[c]
  BY <1>1 DEF Sectors
<1>3. w[InfoSec] = d[InfoSec]
  BY <1>0, <1>1, SectorNumbers
<1>4. Shape(w)
  BY <1>0, <1>1, <1>2, <1>3 DEF Shape
<1>5. Slots(w) = Slots(d)
  BY <1>0, <1>1, <1>2, SectorNumbers DEF Slots
<1>6. Dir(w) = Entered(Dir(d), p, e)
  BY <1>0, <1>1, <1>2, <1>5 DEF Dir, Entered, Slots
<1> QED BY <1>1, <1>4, <1>5, <1>6

LEMMA WriteClear ==
  ASSUME NEW d, Shape(d), NEW n \in Clusters
  PROVE  LET w == [d EXCEPT ![n] = EmptyDir]
         IN /\ Shape(w) /\ Links(w) = Links(d) /\ Slots(w) = Slots(d) \cup {n}
            /\ Dir(w) = Lengthened(Dir(d), n)
<1> DEFINE w == [d EXCEPT ![n] = EmptyDir]
<1>0. DOMAIN EmptyDir = 1 .. DirPerSector
  BY DEF EmptyDir
<1>1. /\ DOMAIN w = Sectors /\ w[n] = EmptyDir
      /\ \A m \in Sectors : m # n => w[m] = d[m]
      /\ Links(w) = Links(d)
      /\ \A c \in Clusters : c \in DOMAIN w[FatSec(c)]
  BY WriteOther
<1> HIDE DEF w
<1>2. \A c \in Clusters : c # n => w[c] = d[c]
  BY <1>1 DEF Sectors
<1>3. w[InfoSec] = d[InfoSec]
  BY <1>1, SectorNumbers
<1>4. Shape(w)
  BY <1>0, <1>1, <1>2, <1>3 DEF Shape
<1>5. Slots(w) = Slots(d) \cup {n}
  BY <1>0, <1>1, <1>2 DEF Slots
<1>6. Dir(w) = Lengthened(Dir(d), n)
  BY <1>1, <1>2, <1>5 DEF Dir, Lengthened, Slots
<1> QED BY <1>1, <1>4, <1>5, <1>6 DEF w

(***************************************************************************)
(* The machine.  View is the card with the window put back.                *)
(***************************************************************************)
Fields ==
  {"disk", "sect", "val", "dirty", "mounted", "free", "last", "fsi", "fp", "res", "got", "at",
   "out", "here", "rest", "left", "past", "unget", "eof", "c", "chars", "line"}

View(s) == IF s.dirty THEN [s.disk EXCEPT ![s.sect] = s.val] ELSE s.disk
VL(s)   == Links(View(s))
VD(s)   == Dir(View(s))

(* The window holds what the card, or the view, has in its sector; that of *)
(* a cluster is one of the directory's.                                    *)
Coherent1(s) ==
  /\ s.sect \in FatSecs \cup Slots(View(s)) \cup {0, InfoSec}
  /\ s.sect \notin {0, InfoSec} => s.val = View(s)[s.sect]
Whole(s) == DOMAIN VD(s) = Chain(VL(s), Root)
Window(s) ==
  /\ s.dirty => s.sect \in FatSecs \cup Slots(View(s))
  /\ Coherent1(s) \/ (~OK(s) /\ ~s.dirty /\ ~Whole(s))

Results == {"OK", "DISK_ERR", "INT_ERR", "DENIED"}

(* The machine's invariant: T are the names that may be twins on the card, *)
(* now or earlier in the call, V those that may be in the view; the files  *)
(* io are open.                                                            *)
Base(s) ==
  /\ DOMAIN s = Fields /\ s.res \in Results
  /\ s.dirty \in BOOLEAN /\ s.mounted \in BOOLEAN /\ s.fsi \in BOOLEAN
  /\ s.free \in Int /\ s.last \in Int
  /\ s.dirty => s.mounted
MI(s, T, V, io, cur) ==
  /\ Base(s) /\ Window(s)
  /\ DiskI(s.disk, T) /\ \A d \in s.past : DiskI(d, T)
  /\ Slots(s.disk) = Slots(View(s))
  /\ DiskI(View(s), V) /\ V \subseteq T
  /\ FilesIn(VL(s), VD(s), io, cur)

(* What a call leaves alone.                                               *)
Others(s, a, F) == \A f \in Fields \ F : a[f] = s[f]
CardFields == {"disk", "sect", "val", "dirty", "mounted", "free", "last", "fsi", "res", "left", "past"}
WinFields  == {"disk", "sect", "val", "dirty", "res", "left", "past"}

LEMMA OthersIs ==
  ASSUME NEW s, NEW a
  PROVE  /\ Others(s, a, WinFields) =>
              /\ a.mounted = s.mounted /\ a.free = s.free /\ a.last = s.last /\ a.fsi = s.fsi
              /\ a.fp = s.fp /\ a.got = s.got /\ a.at = s.at /\ a.out = s.out
              /\ a.here = s.here /\ a.rest = s.rest
         /\ Others(s, a, CardFields) =>
              /\ a.fp = s.fp /\ a.got = s.got /\ a.at = s.at /\ a.out = s.out
              /\ a.here = s.here /\ a.rest = s.rest
         /\ Others(s, a, WinFields) => Others(s, a, CardFields)
         /\ \A b, F : Others(s, a, F) /\ Others(a, b, F) => Others(s, b, F)
BY DEF Others, Fields, WinFields, CardFields

(* The invariant says nothing of a call's own fields.                      *)
LEMMA SameCard ==
  ASSUME NEW s, NEW a, NEW T, NEW V, NEW io, NEW cur, MI(s, T, V, io, cur), DOMAIN a = Fields,
         a.disk = s.disk, a.sect = s.sect, a.val = s.val, a.dirty = s.dirty,
         a.mounted = s.mounted, a.free \in Int, a.last \in Int, a.fsi \in BOOLEAN,
         a.past = s.past, OK(a) => OK(s), a.res \in Results
  PROVE  MI(a, T, V, io, cur) /\ View(a) = View(s) /\ VL(a) = VL(s) /\ VD(a) = VD(s)
<1>1. View(a) = View(s)
  BY DEF View
<1>2. VL(a) = VL(s) /\ VD(a) = VD(s) /\ (Whole(a) <=> Whole(s)) /\ (Coherent1(a) <=> Coherent1(s))
  BY <1>1 DEF VL, VD, Whole, Coherent1
<1>3. Base(a)
  BY DEF Base, MI
<1>4. Window(a)
  BY <1>1, <1>2 DEF Window, MI
<1> QED BY <1>1, <1>2, <1>3, <1>4 DEF MI

LEMMA AccessIs ==
  ASSUME NEW s, DOMAIN s = Fields
  PROVE  LET a == Access(s)
         IN /\ DOMAIN a = Fields /\ Others(s, a, {"res", "left"})
            /\ OK(a) => OK(s)
            /\ a.res \in {s.res, "DISK_ERR"}
BY DEF Access, Fail, Fields, Others, OK

(* A function with another value at one place.                             *)
Put(d, n, v) == [d EXCEPT ![n] = v]

LEMMA DiskWriteIs ==
  ASSUME NEW s, DOMAIN s = Fields, NEW n, NEW v
  PROVE  LET a == DiskWrite(s, n, v)
         IN /\ DOMAIN a = Fields /\ Others(s, a, {"disk", "past", "res", "left"})
            /\ OK(a) => OK(s)
            /\ a.res \in {s.res, "DISK_ERR"}
            /\ OK(a) => a.disk = Put(s.disk, n, v) /\ a.past = s.past \cup {s.disk}
            /\ ~OK(a) => a.disk = s.disk /\ a.past = s.past
<1> DEFINE b == Access(s)
<1>1. /\ DOMAIN b = Fields /\ Others(s, b, {"res", "left"})
      /\ OK(b) => OK(s)
      /\ b.res \in {s.res, "DISK_ERR"}
      /\ b.disk = s.disk /\ b.past = s.past
  BY AccessIs DEF Others, Fields
<1> HIDE DEF b
<1>2. DiskWrite(s, n, v) =
        IF OK(b) THEN [b EXCEPT !.past = @ \cup {s.disk}, !.disk = [s.disk EXCEPT ![n] = v]] ELSE b
  BY <1>1 DEF DiskWrite, Then, b, Fields
<1> DEFINE a == IF OK(b) THEN [b EXCEPT !.past = @ \cup {s.disk}, !.disk = [s.disk EXCEPT ![n] = v]] ELSE b
<1>3. /\ DOMAIN a = Fields /\ Others(b, a, {"disk", "past"})
      /\ a.res = b.res
      /\ OK(b) => a.disk = [s.disk EXCEPT ![n] = v] /\ a.past = s.past \cup {s.disk}
      /\ ~OK(b) => a.disk = s.disk /\ a.past = s.past
  BY <1>1 DEF Fields, Others
<1> HIDE DEF a
<1>5. OK(b) => a.disk = Put(s.disk, n, v)
  BY <1>3 DEF Put
<1>4. Others(s, a, {"disk", "past", "res", "left"})
  BY <1>1, <1>3 DEF Others
<1> QED BY <1>1, <1>2, <1>3, <1>4, <1>5 DEF OK, a

LEMMA Opened1 ==
  ASSUME NEW s, NEW T, NEW V, NEW io, NEW cur, MI(s, T, V, io, cur)
  PROVE  /\ DOMAIN s = Fields /\ Shape(View(s)) /\ Shape(s.disk)
         /\ TreeI(VL(s), VD(s), V) /\ DOMAIN VD(s) = Slots(View(s))
         /\ Wired(VL(s)) /\ VL(s) \in LinkFcns
         /\ DiskI(View(s), T)
         /\ OK(s) => Coherent1(s)
BY TreeWider DEF MI, Base, DiskI, VL, VD, Dir, Window, TreeI, Wired

LEMMA SyncWindowIs ==
  ASSUME NEW s, NEW T, NEW V, NEW io, NEW cur, MI(s, T, V, io, cur), OK(s)
  PROVE  LET a == SyncWindow(s)
         IN /\ MI(a, T, V, io, cur) /\ View(a) = View(s)
            /\ Others(s, a, {"disk", "past", "res", "left", "dirty"})
            /\ OK(a) => ~a.dirty /\ a.disk = View(s)
<1>a. /\ DOMAIN s = Fields /\ DiskI(View(s), T) /\ Coherent1(s) /\ s.dirty \in BOOLEAN
      /\ s.dirty => s.mounted
  BY Opened1 DEF MI, Base
<1>1. CASE ~s.dirty
  BY <1>a, <1>1 DEF SyncWindow, Others, View
<1>2. CASE s.dirty
  <2> DEFINE b == DiskWrite(s, s.sect, s.val)
  <2>0. View(s) = Put(s.disk, s.sect, s.val)
    BY <1>2 DEF View, Put
  <2>1. /\ DOMAIN b = Fields /\ b.res \in {s.res, "DISK_ERR"} /\ Others(s, b, {"disk", "past", "res", "left"})
        /\ OK(b) => b.disk = View(s) /\ b.past = s.past \cup {s.disk}
        /\ ~OK(b) => b.disk = s.disk /\ b.past = s.past
    <3>1. /\ DOMAIN b = Fields /\ b.res \in {s.res, "DISK_ERR"} /\ Others(s, b, {"disk", "past", "res", "left"})
          /\ OK(b) => b.disk = Put(s.disk, s.sect, s.val) /\ b.past = s.past \cup {s.disk}
          /\ ~OK(b) => b.disk = s.disk /\ b.past = s.past
      BY <1>a, DiskWriteIs
    <3> QED BY <2>0, <3>1
  <2> DEFINE a == IF OK(b) THEN [b EXCEPT !.dirty = FALSE] ELSE b
  <2>2. SyncWindow(s) = a
    BY <1>2 DEF SyncWindow, Then
  <2> HIDE DEF b
  <2>3. /\ DOMAIN a = Fields /\ Others(b, a, {"dirty"})
        /\ a.res = b.res /\ a.disk = b.disk /\ a.past = b.past
        /\ OK(b) => a.dirty = FALSE
        /\ ~OK(b) => a.dirty = s.dirty
    BY <2>1 DEF Fields, Others
  <2> HIDE DEF a
  <2>4. Others(s, a, {"disk", "past", "res", "left", "dirty"})
    BY <2>1, <2>3 DEF Others
  <2>5. /\ a.sect = s.sect /\ a.val = s.val /\ a.mounted = s.mounted /\ a.free = s.free
        /\ a.last = s.last /\ a.fsi = s.fsi
    BY <2>4 DEF Others, Fields
  <2>6. View(a) = View(s)
    BY <1>2, <2>1, <2>3, <2>5 DEF View
  <2>7. CASE OK(b)
    <3>1. a.disk = View(s) /\ a.past = s.past \cup {s.disk} /\ ~a.dirty /\ OK(a)
      BY <2>1, <2>3, <2>7 DEF OK
    <3>2. Base(a)
      BY <2>1, <2>3, <2>5, <2>7 DEF MI, Base, Results
    <3>3. Window(a)
      BY <1>a, <2>5, <2>6, <3>1 DEF Window, Coherent1
    <3>4. MI(a, T, V, io, cur)
      BY <1>a, <2>6, <3>1, <3>2, <3>3 DEF MI, VL, VD
    <3> QED BY <1>a, <1>2, <2>2, <2>4, <2>5, <2>6, <3>1, <3>4
  <2>8. CASE ~OK(b)
    <3>1. a.disk = s.disk /\ a.past = s.past /\ a.dirty = s.dirty /\ ~OK(a)
      BY <2>1, <2>3, <2>8 DEF OK
    <3>2. MI(a, T, V, io, cur)
      BY <2>1, <2>3, <2>5, <3>1, SameCard DEF MI, Base, Results
    <3> QED BY <1>a, <1>2, <2>2, <2>4, <2>5, <2>6, <3>1, <3>2
  <2> QED BY <2>7, <2>8
<1> QED BY <1>a, <1>1, <1>2

LEMMA ReadWindowIs ==
  ASSUME NEW s, NEW T, NEW V, NEW io, NEW cur, MI(s, T, V, io, cur), OK(s), ~s.dirty,
         NEW n, n \in FatSecs \cup Slots(View(s)) \cup {InfoSec}
  PROVE  LET a == ReadWindow(s, n)
         IN /\ MI(a, T, V, io, cur) /\ View(a) = View(s) /\ ~a.dirty
            /\ Others(s, a, {"sect", "val", "res", "left"})
            /\ OK(a) => a.sect = n /\ a.val = View(s)[n]
            /\ ~OK(a) => a.sect = 0
<1> DEFINE b == Access(s)
           a == IF OK(b) THEN [b EXCEPT !.sect = n, !.val = b.disk[n]] ELSE [b EXCEPT !.sect = 0]
<1>1. /\ DOMAIN b = Fields /\ b.res \in {s.res, "DISK_ERR"} /\ Others(s, b, {"res", "left"})
      /\ b.disk = s.disk /\ b.past = s.past
  BY AccessIs DEF Others, Fields, MI, Base
<1>2. ReadWindow(s, n) = a
  BY DEF ReadWindow
<1> HIDE DEF b
<1>3. /\ DOMAIN a = Fields /\ Others(b, a, {"sect", "val"}) /\ a.res = b.res
      /\ OK(b) => a.sect = n /\ a.val = b.disk[n]
      /\ ~OK(b) => a.sect = 0
  BY <1>1 DEF Fields, Others
<1> HIDE DEF a
<1>4. Others(s, a, {"sect", "val", "res", "left"})
  BY <1>1, <1>3 DEF Others
<1>5. /\ a.disk = s.disk /\ a.past = s.past /\ a.dirty = s.dirty /\ a.mounted = s.mounted
      /\ a.free = s.free /\ a.last = s.last /\ a.fsi = s.fsi
  BY <1>4 DEF Others, Fields
<1>6. View(a) = View(s) /\ View(s) = s.disk
  BY <1>5 DEF View
<1>7. Base(a)
  BY <1>1, <1>3, <1>5 DEF MI, Base, Results
<1>8. OK(a) => a.sect = n /\ a.val = View(s)[n]
  BY <1>1, <1>3, <1>6 DEF OK
<1>9. ~OK(a) => a.sect = 0
  BY <1>3 DEF OK
<1>10. Window(a)
  BY <1>5, <1>6, <1>8, <1>9 DEF Window, Coherent1
<1> QED BY <1>2, <1>4, <1>5, <1>6, <1>7, <1>8, <1>9, <1>10 DEF MI, VL, VD

(* The window moves, and the view stays as it is.                          *)
LEMMA MoveWindowIs ==
  ASSUME NEW s, NEW T, NEW V, NEW io, NEW cur, MI(s, T, V, io, cur), OK(s),
         NEW n, n \in FatSecs \cup Slots(View(s))
  PROVE  LET a == MoveWindow(s, n)
         IN /\ MI(a, T, V, io, cur) /\ View(a) = View(s) /\ VL(a) = VL(s) /\ VD(a) = VD(s)
            /\ Others(s, a, WinFields)
            /\ OK(a) => a.sect = n /\ a.val = View(s)[n]
<1>0. n \notin {0, InfoSec}
  BY SectorNumbers DEF Slots, Sectors
<1>1. CASE n = s.sect
  <2>1. Coherent1(s)
    BY Opened1
  <2>2. MoveWindow(s, n) = s
    BY <1>1 DEF MoveWindow
  <2> QED BY <1>0, <1>1, <2>1, <2>2 DEF Others, Coherent1
<1>2. CASE n # s.sect
  <2> DEFINE b == SyncWindow(s)
             a == IF OK(b) THEN ReadWindow(b, n) ELSE b
  <2>1. /\ MI(b, T, V, io, cur) /\ View(b) = View(s)
        /\ Others(s, b, {"disk", "past", "res", "left", "dirty"})
        /\ OK(b) => ~b.dirty
    BY SyncWindowIs
  <2>2. MoveWindow(s, n) = a
    BY <1>2 DEF MoveWindow, Then
  <2> HIDE DEF b
  <2>3. OK(b) => /\ MI(a, T, V, io, cur) /\ View(a) = View(s)
                 /\ Others(b, a, {"sect", "val", "res", "left"})
                 /\ OK(a) => a.sect = n /\ a.val = View(s)[n]
    BY <2>1, ReadWindowIs
  <2> HIDE DEF a
  <2>4. Others(s, a, WinFields)
    BY <2>1, <2>3 DEF Others, WinFields, a
  <2>5. /\ MI(a, T, V, io, cur) /\ View(a) = View(s)
        /\ OK(a) => a.sect = n /\ a.val = View(s)[n]
    BY <2>1, <2>3 DEF a
  <2> QED BY <2>2, <2>4, <2>5 DEF VL, VD
<1> QED BY <1>1, <1>2

(* A change in the window.                                                 *)
LEMMA PokeIs ==
  ASSUME NEW s, NEW T, NEW V, NEW io, NEW cur, MI(s, T, V, io, cur), OK(s), s.mounted,
         s.sect \in FatSecs \cup Slots(View(s)),
         NEW v, NEW U, NEW W, NEW jo, NEW cur1, T \subseteq U, W \subseteq U,
         DiskI([View(s) EXCEPT ![s.sect] = v], W),
         Slots([View(s) EXCEPT ![s.sect] = v]) = Slots(View(s)),
         FilesIn(Links([View(s) EXCEPT ![s.sect] = v]), Dir([View(s) EXCEPT ![s.sect] = v]), jo, cur1)
  PROVE  LET a == Poke(s, v)
         IN /\ MI(a, U, W, jo, cur1) /\ View(a) = [View(s) EXCEPT ![s.sect] = v]
            /\ Others(s, a, {"val", "dirty"}) /\ OK(a)
<1> DEFINE a == [s EXCEPT !.val = v, !.dirty = TRUE]
           w == [View(s) EXCEPT ![s.sect] = v]
<1>0. DOMAIN s = Fields /\ s.sect \in Sectors /\ DOMAIN View(s) = Sectors /\ DOMAIN s.disk = Sectors
  BY Opened1 DEF Shape, Sectors, Slots
<1>1. /\ DOMAIN a = Fields /\ Others(s, a, {"val", "dirty"}) /\ OK(a)
      /\ a.val = v /\ a.dirty = TRUE /\ a.sect = s.sect /\ a.disk = s.disk /\ a.past = s.past
      /\ a.mounted = s.mounted /\ a.free = s.free /\ a.last = s.last /\ a.fsi = s.fsi
  BY <1>0 DEF Fields, Others, OK
<1>2. Poke(s, v) = a
  BY DEF Poke
<1> HIDE DEF a
<1>3. View(a) = w
  BY <1>0, <1>1 DEF View
<1> HIDE DEF w
<1>4. w[s.sect] = v
  BY <1>0 DEF w
<1>5. Slots(w) = Slots(View(s)) /\ DiskI(w, W) /\ FilesIn(Links(w), Dir(w), jo, cur1)
  BY DEF w
<1>6. Window(a)
  BY <1>1, <1>3, <1>4, <1>5 DEF Window, Coherent1
<1>7. \A d : DiskI(d, T) => DiskI(d, U)
  BY TreeWider DEF DiskI
<1>8. Base(a)
  BY <1>1 DEF MI, Base, OK, Results
<1>9. MI(a, U, W, jo, cur1)
  BY <1>1, <1>3, <1>5, <1>6, <1>7, <1>8 DEF MI, VL, VD
<1> QED BY <1>1, <1>2, <1>3, <1>9 DEF w

(* A look at the FAT.                                                      *)
LEMMA GetFatIs ==
  ASSUME NEW s, NEW T, NEW V, NEW io, NEW cur, MI(s, T, V, io, cur), OK(s), NEW c
  PROVE  LET a == GetFat(s, c)
         IN /\ MI(a, T, V, io, cur) /\ VL(a) = VL(s) /\ VD(a) = VD(s)
            /\ Others(s, a, WinFields)
            /\ OK(a) => c \in Clusters /\ Link(a, c) = VL(s)[c]
<1>1. CASE c \notin Clusters
  <2> DEFINE a == [s EXCEPT !.res = "INT_ERR"]
  <2>0. DOMAIN s = Fields
    BY DEF MI, Base
  <2>1. GetFat(s, c) = a
    BY <1>1 DEF GetFat, Fail
  <2>2. /\ DOMAIN a = Fields /\ Others(s, a, {"res"}) /\ a.res = "INT_ERR" /\ ~OK(a)
    BY <2>0 DEF Fields, Others, OK
  <2> HIDE DEF a
  <2>3. Others(s, a, WinFields)
    BY <2>2 DEF Others, WinFields
  <2>4. /\ a.disk = s.disk /\ a.sect = s.sect /\ a.val = s.val /\ a.dirty = s.dirty
        /\ a.mounted = s.mounted /\ a.free = s.free /\ a.last = s.last /\ a.fsi = s.fsi
        /\ a.past = s.past
    BY <2>2 DEF Others, Fields
  <2>5. a.free \in Int /\ a.last \in Int /\ a.fsi \in BOOLEAN /\ a.res \in Results
    BY <2>2, <2>4 DEF MI, Base, Results
  <2>6. MI(a, T, V, io, cur) /\ View(a) = View(s) /\ VL(a) = VL(s) /\ VD(a) = VD(s)
    BY <2>2, <2>4, <2>5, SameCard
  <2> QED BY <2>1, <2>2, <2>3, <2>6
<1>2. CASE c \in Clusters
  <2> DEFINE a == MoveWindow(s, FatSec(c))
  <2>1. GetFat(s, c) = a
    BY <1>2 DEF GetFat
  <2>2. FatSec(c) \in FatSecs \cup Slots(View(s))
    BY <1>2, SectorNumbers
  <2>3. /\ MI(a, T, V, io, cur) /\ View(a) = View(s) /\ VL(a) = VL(s) /\ VD(a) = VD(s)
        /\ Others(s, a, WinFields)
        /\ OK(a) => a.sect = FatSec(c) /\ a.val = View(s)[FatSec(c)]
    BY <2>2, MoveWindowIs
  <2> HIDE DEF a
  <2>4. OK(a) => Link(a, c) = VL(s)[c]
    BY <1>2, <2>3 DEF Link, VL, Links
  <2> QED BY <1>2, <2>1, <2>3, <2>4
<1> QED BY <1>1, <1>2

(* A link is changed.                                                      *)
LEMMA PutFatIs ==
  ASSUME NEW s, NEW T, NEW V, NEW io, NEW cur, MI(s, T, V, io, cur), OK(s), s.mounted,
         NEW c \in Clusters, NEW v, NEW jo, NEW cur1,
         TreeI(Put(VL(s), c, v), VD(s), V), FilesIn(Put(VL(s), c, v), VD(s), jo, cur1)
  PROVE  LET a == PutFat(s, c, v)
         IN /\ Others(s, a, WinFields) /\ VD(a) = VD(s)
            /\ OK(a) => MI(a, T, V, jo, cur1) /\ VL(a) = Put(VL(s), c, v)
            /\ ~OK(a) => MI(a, T, V, io, cur) /\ VL(a) = VL(s)
<1> DEFINE b == MoveWindow(s, FatSec(c))
<1>1. FatSec(c) \in FatSecs \cup Slots(View(s))
  BY SectorNumbers
<1>2. /\ MI(b, T, V, io, cur) /\ View(b) = View(s) /\ VL(b) = VL(s) /\ VD(b) = VD(s)
      /\ Others(s, b, WinFields)
      /\ OK(b) => b.sect = FatSec(c) /\ b.val = View(s)[FatSec(c)]
  BY <1>1, MoveWindowIs
<1> DEFINE u == [b.val EXCEPT ![c] = v]
           a == IF OK(b) THEN Poke(b, u) ELSE b
<1>3. PutFat(s, c, v) = a
  BY DEF PutFat, Then
<1> HIDE DEF b
<1>4. CASE ~OK(b)
  BY <1>2, <1>3, <1>4
<1>5. CASE OK(b)
  <2>0. b.mounted /\ V \subseteq T
    BY <1>2, OthersIs DEF MI
  <2>1. Shape(View(s)) /\ b.sect = FatSec(c) /\ b.sect \in FatSecs \cup Slots(View(b))
    BY <1>1, <1>2, <1>5, Opened1
  <2>2. LET w == [View(s) EXCEPT ![FatSec(c)] = [View(s)[FatSec(c)] EXCEPT ![c] = v]]
        IN /\ Shape(w) /\ Links(w) = [Links(View(s)) EXCEPT ![c] = v]
           /\ Slots(w) = Slots(View(s)) /\ Dir(w) = Dir(View(s))
    <3> DEFINE d == View(s)
               w == [d EXCEPT ![FatSec(c)] = [d[FatSec(c)] EXCEPT ![c] = v]]
    <3> HIDE DEF d
    <3>1. Shape(d)
      BY <2>1 DEF d
    <3>2. /\ Shape(w) /\ Links(w) = [Links(d) EXCEPT ![c] = v]
          /\ Slots(w) = Slots(d) /\ Dir(w) = Dir(d)
      BY <3>1, WriteFat
    <3> QED BY <3>2 DEF d
  <2> DEFINE w == [View(b) EXCEPT ![b.sect] = u]
  <2>3. /\ Shape(w) /\ Links(w) = Put(VL(s), c, v)
        /\ Slots(w) = Slots(View(b)) /\ Dir(w) = VD(s)
    BY <1>2, <1>5, <2>2 DEF Put, VL, VD
  <2> HIDE DEF u
  <2>4. DiskI(w, V) /\ FilesIn(Links(w), Dir(w), jo, cur1)
    BY <2>3 DEF DiskI
  <2>5. LET p == Poke(b, u)
        IN /\ MI(p, T, V, jo, cur1) /\ View(p) = w
           /\ Others(b, p, {"val", "dirty"}) /\ OK(p)
    BY <1>2, <1>5, <2>0, <2>1, <2>3, <2>4, PokeIs
  <2> HIDE DEF w
  <2>6. /\ MI(a, T, V, jo, cur1) /\ View(a) = w /\ Others(b, a, {"val", "dirty"}) /\ OK(a)
    BY <1>5, <2>5
  <2> HIDE DEF a
  <2>7. Others(s, a, WinFields)
    BY <1>2, <2>6 DEF Others, WinFields
  <2> QED BY <1>3, <2>3, <2>6, <2>7 DEF VL, VD
<1> QED BY <1>4, <1>5

(* An entry is changed, in the window.                                     *)
LEMMA PokeEntryIs ==
  ASSUME NEW s, NEW T, NEW V, NEW io, NEW cur, MI(s, T, V, io, cur), OK(s), s.mounted,
         s.at \in Places, s.at[1] \in DOMAIN VD(s), s.sect = s.at[1],
         NEW e, NEW U, NEW W, NEW jo, NEW cur1, T \subseteq U, W \subseteq U,
         TreeI(VL(s), Entered(VD(s), s.at, e), W),
         FilesIn(VL(s), Entered(VD(s), s.at, e), jo, cur1)
  PROVE  LET a == PokeEntry(s, e)
         IN /\ MI(a, U, W, jo, cur1) /\ VL(a) = VL(s) /\ VD(a) = Entered(VD(s), s.at, e)
            /\ Others(s, a, {"val", "dirty"}) /\ OK(a)
<1> DEFINE p == s.at
           v == [s.val EXCEPT ![p[2]] = e]
           w == [View(s) EXCEPT ![s.sect] = v]
           a == Poke(s, v)
<1>0. Shape(View(s)) /\ p[1] \in Slots(View(s)) /\ Coherent1(s)
  BY Opened1
<1>a. p[1] \in Clusters
  BY <1>0 DEF Slots
<1>1. /\ Shape(View(s)) /\ p[1] \in Slots(View(s)) /\ Coherent1(s)
      /\ s.sect \notin {0, InfoSec}
  BY <1>0, <1>a, Numbers, SectorNumbers
<1>2. s.val = View(s)[p[1]]
  BY <1>1 DEF Coherent1
<1>3. LET x == [View(s) EXCEPT ![p[1]] = [View(s)[p[1]] EXCEPT ![p[2]] = e]]
      IN /\ Shape(x) /\ Links(x) = Links(View(s)) /\ Slots(x) = Slots(View(s))
         /\ Dir(x) = Entered(Dir(View(s)), p, e)
  BY <1>1, WriteEntry
<1>4. /\ Shape(w) /\ Links(w) = VL(s) /\ Slots(w) = Slots(View(s))
      /\ Dir(w) = Entered(VD(s), p, e)
  BY <1>2, <1>3 DEF VL, VD
<1>5. PokeEntry(s, e) = a
  BY DEF PokeEntry
<1> HIDE DEF v
<1>6. DiskI(w, W) /\ FilesIn(Links(w), Dir(w), jo, cur1)
  BY <1>4 DEF DiskI
<1>7. /\ MI(a, U, W, jo, cur1) /\ View(a) = w
      /\ Others(s, a, {"val", "dirty"}) /\ OK(a)
  BY <1>1, <1>4, <1>6, PokeIs
<1> HIDE DEF w, a
<1> QED BY <1>4, <1>5, <1>7 DEF VL, VD

LEMMA DirEntryIs ==
  ASSUME NEW s, NEW T, NEW V, NEW io, NEW cur, MI(s, T, V, io, cur), OK(s),
         s.at \in Places, s.at[1] \in DOMAIN VD(s), s.sect = s.at[1]
  PROVE  DirEntry(s) = At(VD(s), s.at) /\ DirEntry(s) \in Entries
<1>1. /\ s.sect \in Slots(View(s)) /\ Coherent1(s) /\ s.sect \notin {0, InfoSec}
      /\ DirShape(VL(s), VD(s)) /\ s.at[2] \in 1 .. DirPerSector
  BY Opened1, SectorNumbers DEF Slots, Sectors, TreeI, Places
<1>2. s.val = VD(s)[s.at[1]]
  BY <1>1 DEF Coherent1, VD, Dir
<1> QED BY <1>1, <1>2 DEF DirEntry, At, DirShape

(* A sector of a file is written.                                          *)
LEMMA DataWriteIs ==
  ASSUME NEW s, NEW T, NEW V, NEW io, NEW cur, MI(s, T, V, io, cur), OK(s),
         NEW n \in Clusters, n \notin DOMAIN VD(s), NEW v, DOMAIN v = 0 .. SS - 1
  PROVE  LET a == DiskWrite(s, n, v)
         IN /\ MI(a, T, V, io, cur) /\ VL(a) = VL(s) /\ VD(a) = VD(s)
            /\ Others(s, a, WinFields)
<1> DEFINE a == DiskWrite(s, n, v)
<1>1. /\ DOMAIN s = Fields /\ Shape(s.disk) /\ Shape(View(s)) /\ n \notin Slots(View(s))
      /\ n \notin Slots(s.disk) /\ Slots(s.disk) = Slots(View(s))
      /\ DiskI(s.disk, T) /\ DiskI(View(s), V) /\ Window(s)
  BY Opened1 DEF MI
<1>2. /\ DOMAIN a = Fields /\ Others(s, a, {"disk", "past", "res", "left"})
      /\ a.res \in {s.res, "DISK_ERR"}
      /\ OK(a) => a.disk = Put(s.disk, n, v) /\ a.past = s.past \cup {s.disk}
      /\ ~OK(a) => a.disk = s.disk /\ a.past = s.past
  BY <1>1, DiskWriteIs
<1> SUFFICES /\ MI(a, T, V, io, cur) /\ VL(a) = VL(s) /\ VD(a) = VD(s)
             /\ Others(s, a, WinFields)
  OBVIOUS
<1> HIDE DEF a
<1>3. Others(s, a, WinFields)
  BY <1>2 DEF Others, WinFields
<1>4. /\ a.sect = s.sect /\ a.val = s.val /\ a.dirty = s.dirty /\ a.mounted = s.mounted
      /\ a.free = s.free /\ a.last = s.last /\ a.fsi = s.fsi
  BY <1>2 DEF Others, Fields
<1>5. CASE ~OK(a)
  <2>0. a.free \in Int /\ a.last \in Int /\ a.fsi \in BOOLEAN /\ a.res \in Results
    BY <1>2, <1>4 DEF MI, Base, Results
  <2>1. MI(a, T, V, io, cur) /\ VL(a) = VL(s) /\ VD(a) = VD(s)
    BY <1>2, <1>4, <1>5, <2>0, SameCard
  <2> QED BY <1>3, <2>1
<1>6. CASE OK(a)
  <2>1. Shape(Put(s.disk, n, v)) /\ Links(Put(s.disk, n, v)) = Links(s.disk)
        /\ Slots(Put(s.disk, n, v)) = Slots(s.disk) /\ Dir(Put(s.disk, n, v)) = Dir(s.disk)
    BY <1>1, WriteData DEF Put
  <2>2. Shape(Put(View(s), n, v)) /\ Links(Put(View(s), n, v)) = VL(s)
        /\ Slots(Put(View(s), n, v)) = Slots(View(s)) /\ Dir(Put(View(s), n, v)) = VD(s)
    BY <1>1, WriteData DEF Put, VL, VD
  <2>3. View(a) = Put(View(s), n, v)
    <3>1. CASE ~s.dirty
      BY <3>1, <1>2, <1>4, <1>6 DEF View
    <3>2. CASE s.dirty
      <4>1. s.sect # n
        BY <3>2, <1>1, SectorNumbers DEF Window
      <4>2. View(s) = [s.disk EXCEPT ![s.sect] = s.val] /\ View(a) = [a.disk EXCEPT ![s.sect] = s.val]
        BY <3>2, <1>4 DEF View
      <4> QED BY <4>1, <4>2, <1>2, <1>6 DEF Put
    <3> QED BY <3>1, <3>2
  <2>4. /\ DiskI(a.disk, T) /\ DiskI(View(a), V) /\ Slots(a.disk) = Slots(View(a))
        /\ VL(a) = VL(s) /\ VD(a) = VD(s)
    BY <1>1, <1>2, <1>6, <2>1, <2>2, <2>3 DEF DiskI, VL, VD
  <2>5. Window(a)
    <3>1. Coherent1(s)
      BY Opened1
    <3>2. s.sect # n
      BY <3>1, <1>1, SectorNumbers, Numbers DEF Coherent1
    <3>3. s.sect \notin {0, InfoSec} => s.sect \in Sectors
      BY <3>1 DEF Coherent1, Sectors, Slots
    <3>4. s.sect \notin {0, InfoSec} => View(a)[s.sect] = View(s)[s.sect]
      BY <3>2, <3>3, <2>3, <1>1 DEF Put, Shape
    <3> QED BY <3>1, <3>4, <1>1, <1>4, <2>2, <2>3 DEF Window, Coherent1
  <2>6. Base(a)
    BY <1>2, <1>4 DEF MI, Base, Results
  <2>7. MI(a, T, V, io, cur)
    BY <1>2, <1>6, <2>4, <2>5, <2>6 DEF MI
  <2> QED BY <1>3, <2>4, <2>7
<1> QED BY <1>5, <1>6

(* The directory's new cluster is cleared.                                 *)
LEMMA DirClearIs ==
  ASSUME NEW s, NEW T, NEW V, NEW io, NEW cur, MI(s, T, V, io, cur), OK(s),
         NEW n \in Chain(VL(s), Root), n \notin DOMAIN VD(s), VL(s)[n] = Eoc
  PROVE  LET a == DirClear(s, n)
         IN /\ MI(a, T, V, io, cur) /\ VL(a) = VL(s)
            /\ Others(s, a, WinFields)
            /\ ~OK(a) => VD(a) = VD(s)
            /\ OK(a) => VD(a) = Lengthened(VD(s), n) /\ a.sect = n
<1> DEFINE b == SyncWindow(s)
           c == [b EXCEPT !.sect = n, !.val = EmptyDir]
           d == DiskWrite(c, n, EmptyDir)
           a == IF OK(b) THEN d ELSE b
<1>1. DirClear(s, n) = a
  BY DEF DirClear, Then
<1>0. n \in Clusters
  BY ChainClusters
<1>2. /\ MI(b, T, V, io, cur) /\ View(b) = View(s)
      /\ Others(s, b, {"disk", "past", "res", "left", "dirty"})
      /\ OK(b) => ~b.dirty /\ b.disk = View(s)
  BY SyncWindowIs
<1> HIDE DEF b
<1>3. Others(s, b, WinFields) /\ VL(b) = VL(s) /\ VD(b) = VD(s)
  BY <1>2 DEF Others, WinFields, VL, VD
<1>4. CASE ~OK(b)
  BY <1>1, <1>2, <1>3, <1>4
<1>5. CASE OK(b)
  <2>0. DOMAIN b = Fields /\ b.dirty = FALSE
    BY <1>2, <1>5 DEF MI, Base
  <2>1. /\ DOMAIN c = Fields /\ Others(b, c, {"sect", "val"}) /\ c.sect = n /\ c.val = EmptyDir
        /\ c.disk = View(s) /\ c.past = b.past /\ c.res = b.res
    BY <1>2, <1>5, <2>0 DEF Fields, Others
  <2> HIDE DEF c
  <2>2. /\ DOMAIN d = Fields /\ Others(c, d, {"disk", "past", "res", "left"})
        /\ d.res \in {c.res, "DISK_ERR"}
        /\ OK(d) => d.disk = Put(c.disk, n, EmptyDir) /\ d.past = c.past \cup {c.disk}
        /\ ~OK(d) => d.disk = c.disk /\ d.past = c.past
    BY <2>1, DiskWriteIs
  <2> HIDE DEF d
  <2>3. /\ d.sect = n /\ d.val = EmptyDir /\ d.dirty = FALSE /\ d.mounted = b.mounted
        /\ d.free = b.free /\ d.last = b.last /\ d.fsi = b.fsi
    BY <2>0, <2>1, <2>2 DEF Others, Fields
  <2>4. Others(s, d, WinFields)
    BY <1>3, <2>1, <2>2 DEF Others, WinFields
  <2>5. Base(d)
    BY <1>2, <2>1, <2>2, <2>3 DEF MI, Base, Results
  <2>6. /\ Shape(View(s)) /\ DiskI(View(s), T) /\ DiskI(View(s), V) /\ V \subseteq T
        /\ FilesIn(VL(s), VD(s), io, cur) /\ DOMAIN VD(s) = Slots(View(s))
        /\ \A x \in b.past : DiskI(x, T)
    BY <1>2, Opened1 DEF MI
  <2>7. CASE ~OK(d)
    <3>1. View(d) = View(s) /\ d.disk = View(s) /\ d.past = b.past
      BY <2>1, <2>2, <2>3, <2>7 DEF View
    <3>2. ~Whole(d)
      BY <3>1 DEF Whole, VL, VD
    <3>3. Window(d)
      BY <2>3, <2>7, <3>2 DEF Window
    <3>4. VL(d) = VL(s) /\ VD(d) = VD(s)
      BY <3>1 DEF VL, VD
    <3>5. MI(d, T, V, io, cur)
      BY <2>5, <2>6, <3>1, <3>3, <3>4 DEF MI
    <3> QED BY <1>1, <1>5, <2>4, <2>7, <3>4, <3>5
  <2>8. CASE OK(d)
    <3> DEFINE w == Put(View(s), n, EmptyDir)
    <3>1. Shape(w) /\ Links(w) = VL(s) /\ Slots(w) = Slots(View(s)) \cup {n}
          /\ Dir(w) = Lengthened(VD(s), n) /\ w[n] = EmptyDir
      <4>1. /\ Shape(w) /\ Links(w) = VL(s) /\ Slots(w) = Slots(View(s)) \cup {n}
            /\ Dir(w) = Lengthened(VD(s), n)
        BY <1>0, <2>6, WriteClear DEF Put, VL, VD
      <4>2. n \in DOMAIN View(s)
        BY <1>0, <2>6 DEF Shape, Sectors
      <4> QED BY <4>1, <4>2 DEF Put
    <3>2. View(d) = w /\ d.disk = w /\ d.past = b.past \cup {View(s)}
      BY <2>1, <2>2, <2>3, <2>8 DEF View
    <3> HIDE DEF w
    <3>3. /\ TreeI(VL(s), Lengthened(VD(s), n), T) /\ TreeI(VL(s), Lengthened(VD(s), n), V)
          /\ FilesIn(VL(s), Lengthened(VD(s), n), io, cur)
      BY <2>6, LengthTree DEF DiskI, VL, VD
    <3>4. DiskI(w, T) /\ DiskI(w, V)
      BY <3>1, <3>3 DEF DiskI
    <3>5. Window(d)
      BY <1>0, <2>3, <3>1, <3>2 DEF Window, Coherent1
    <3>6. VL(d) = VL(s) /\ VD(d) = Lengthened(VD(s), n)
      BY <3>1, <3>2 DEF VL, VD
    <3>7. MI(d, T, V, io, cur)
      BY <2>5, <2>6, <3>2, <3>3, <3>4, <3>5, <3>6 DEF MI
    <3> QED BY <1>1, <1>5, <2>3, <2>4, <2>8, <3>6, <3>7
  <2> QED BY <2>7, <2>8
<1> QED BY <1>4, <1>5

(***************************************************************************)
(* Loops.                                                                  *)
(***************************************************************************)
LEMMA Least == ASSUME NEW S, S \subseteq Nat, S # {} PROVE \E m \in S : \A x \in S : m <= x
<1> DEFINE T == {0 .. x : x \in S}
           R == StrictSubsetOrdering(Nat)
           F == FiniteSubsetsOf(Nat)
<1>1. T \subseteq F /\ T # {}
  <2>1. ASSUME NEW x \in S PROVE 0 .. x \in F
    <3>1. IsFiniteSet(0 .. x)
      BY FS_Interval
    <3> QED BY <3>1 DEF FiniteSubsetsOf
  <2> QED BY <2>1
<1>2. IsWellFoundedOn(R, F)
  BY FS_StrictSubsetOrderingWellFounded
<1>3. PICK t \in T : \A u \in T : ~(<<u, t>> \in R)
  <2> HIDE DEF T, R, F
  <2> QED BY <1>1, <1>2, WFMin
<1>4. PICK x \in S : t = 0 .. x
  BY <1>3
<1>5. ASSUME NEW y \in S PROVE x <= y
  <2> SUFFICES ASSUME y < x PROVE FALSE
    OBVIOUS
  <2>1. (0 .. y) \subseteq (0 .. x) /\ x \in 0 .. x /\ x \notin 0 .. y
    OBVIOUS
  <2>2. <<0 .. y, 0 .. x>> \in R
    BY <2>1 DEF StrictSubsetOrdering
  <2> QED BY <1>3, <1>4, <2>2
<1> QED BY <1>5

LEMMA UpTo ==
  ASSUME NEW n \in Nat, NEW S, 0 \in S, \A k \in 0 .. n - 1 : k \in S => k + 1 \in S
  PROVE  n \in S /\ \A k \in 0 .. n : k \in S
<1>a. n \in 0 .. n
  OBVIOUS
<1> DEFINE B == {k \in 0 .. n : k \notin S}
<1> SUFFICES ASSUME B # {} PROVE FALSE
  BY <1>a
<1>0. B \subseteq Nat
  OBVIOUS
<1>1. PICK m \in B : \A x \in B : m <= x
  <2> HIDE DEF B
  <2> QED BY <1>0, Least
<1>2. m - 1 \in 0 .. n - 1 /\ m - 1 \in 0 .. n
  BY <1>1
<1>3. m - 1 \notin B
  BY <1>1, <1>2
<1> QED BY <1>1, <1>2, <1>3

(* A loop of n turns, one after the other.                                 *)
RemoveStep(a) == Then(a, RemoveTurn)
LEMMA RemoveRun ==
  ASSUME NEW s, NEW n \in Nat
  PROVE  \E f : /\ f[0] = s /\ \A k \in 0 .. n - 1 : f[k + 1] = RemoveStep(f[k])
                /\ Repeat(s, RemoveStep, n) = f[n]
<1> DEFINE Run(f, m) == f = [k \in 0 .. m |-> IF k = 0 THEN s ELSE RemoveStep(f[k - 1])]
           S == {m \in Nat : \E f : Run(f, m)}
<1> HIDE DEF RemoveStep
<1>1. 0 \in S
  <2>1. Run([k \in 0 .. 0 |-> s], 0)
    OBVIOUS
  <2> QED BY <2>1
<1>2. ASSUME NEW m \in Nat, m \in S PROVE m + 1 \in S
  <2>1. PICK f : Run(f, m)
    BY <1>2
  <2> DEFINE g == [k \in 0 .. m + 1 |-> IF k <= m THEN f[k] ELSE RemoveStep(f[m])]
  <2>2. Run(g, m + 1)
    <3>1. ASSUME NEW k \in 0 .. m + 1 PROVE g[k] = IF k = 0 THEN s ELSE RemoveStep(g[k - 1])
      <4>1. CASE k = m + 1
        BY <4>1
      <4>2. CASE k <= m
        BY <4>2, <2>1
      <4> QED BY <4>1, <4>2
    <3> QED BY <3>1
  <2> HIDE DEF g, Run
  <2> QED BY <2>2
<1>3. n \in S
  <2> HIDE DEF S
  <2> QED BY <1>1, <1>2, UpTo
<1>4. PICK g : Run(g, n)
  BY <1>3
<1> DEFINE after == CHOOSE f : Run(f, n)
<1>5. Run(after, n)
  BY <1>4
<1>6. Repeat(s, RemoveStep, n) = after[n]
  BY DEF Repeat
<1>7. after[0] = s /\ \A k \in 0 .. n - 1 : after[k + 1] = RemoveStep(after[k])
  <2> HIDE DEF after
  <2> QED BY <1>5
<1> QED BY <1>6, <1>7

(* Cluster n begins a chain that nobody has.                               *)
Loose(s, n, io) ==
  /\ First(VL(s), n) /\ n # Root
  /\ \A p \in Live(VD(s)) : At(VD(s), p).clust # n
  /\ \A f \in DOMAIN io : io[f].fil.sclust # n
RemFields == CardFields \cup {"here"}

LEMMA RemoveTurnIs ==
  ASSUME NEW s, NEW T, NEW V, NEW io, NEW cur, MI(s, T, V, io, cur), OK(s), s.mounted,
         s.here # 0 => Loose(s, s.here, io)
  PROVE  LET a == RemoveTurn(s)
         IN /\ MI(a, T, V, io, cur) /\ a.mounted /\ VD(a) = VD(s)
            /\ Others(s, a, RemFields)
            /\ a.here # 0 => Loose(a, a.here, io)
<1> DEFINE n == s.here
<1>1. CASE n = 0
  BY <1>1 DEF RemoveTurn, Others
<1>2. CASE n # 0
  <2> DEFINE b == GetFat(s, n)
             c == PutFat(b, n, 0)
             next == Link(b, n)
             d == [OneMoreFree(c) EXCEPT !.here = IF next \in Clusters THEN next ELSE 0]
             z == [b EXCEPT !.here = 0]
             y == IF OK(c) THEN d ELSE c
             a == IF OK(b) THEN IF next = 0 THEN z ELSE y ELSE b
  <2>1. RemoveTurn(s) = a
    BY <1>2 DEF RemoveTurn, Then
  <2>2. /\ MI(b, T, V, io, cur) /\ VL(b) = VL(s) /\ VD(b) = VD(s)
        /\ Others(s, b, WinFields)
        /\ OK(b) => next = VL(s)[n]
    BY GetFatIs
  <2> HIDE DEF b
  <2>3. b.here = n /\ b.mounted = s.mounted /\ Others(s, b, RemFields)
    BY <2>2, OthersIs DEF Others, WinFields, RemFields, CardFields
  <2>4. CASE ~OK(b)
    <3>1. RemoveTurn(s) = b
      BY <2>1, <2>4
    <3> QED BY <1>2, <2>2, <2>3, <3>1 DEF Loose
  <2>5. CASE OK(b) /\ next = 0
    <3>0. DOMAIN b = Fields
      BY <2>2 DEF MI, Base
    <3>1. DOMAIN z = Fields /\ Others(b, z, {"here"}) /\ z.here = 0 /\ OK(z)
      BY <2>5, <3>0 DEF Fields, Others, OK
    <3> HIDE DEF z
    <3>2. /\ z.disk = b.disk /\ z.sect = b.sect /\ z.val = b.val /\ z.dirty = b.dirty
          /\ z.mounted = b.mounted /\ z.free = b.free /\ z.last = b.last /\ z.fsi = b.fsi
          /\ z.past = b.past /\ z.res = b.res
      BY <3>1 DEF Others, Fields
    <3>3. z.free \in Int /\ z.last \in Int /\ z.fsi \in BOOLEAN /\ z.res \in Results
      BY <2>2, <3>2 DEF MI, Base
    <3>4. MI(z, T, V, io, cur) /\ VD(z) = VD(b)
      BY <2>2, <2>5, <3>1, <3>2, <3>3, SameCard
    <3>5. Others(s, z, RemFields)
      BY <2>3, <3>1 DEF Others, RemFields
    <3> QED BY <2>1, <2>2, <2>3, <2>5, <3>1, <3>2, <3>4, <3>5
  <2>6. CASE OK(b) /\ next # 0
    <3> DEFINE K == Put(VL(s), n, 0)
    <3>1. /\ Loose(s, n, io) /\ n \in Clusters /\ TreeI(VL(s), VD(s), V) /\ Wired(VL(s))
          /\ FilesIn(VL(s), VD(s), io, cur) /\ next = VL(s)[n]
      BY <1>2, <2>2, <2>6, Opened1 DEF Loose, First, MI
    <3>2. /\ TreeI(K, VD(s), V) /\ FilesIn(K, VD(s), io, cur)
          /\ next \in Clusters => First(K, next)
      BY <3>1, FreeTree DEF Put, Loose
    <3> HIDE DEF K
    <3>3. /\ Others(b, c, WinFields) /\ VD(c) = VD(s)
          /\ OK(c) => MI(c, T, V, io, cur) /\ VL(c) = K
          /\ ~OK(c) => MI(c, T, V, io, cur) /\ VL(c) = VL(s)
      <4>1. TreeI(Put(VL(b), n, 0), VD(b), V) /\ FilesIn(Put(VL(b), n, 0), VD(b), io, cur)
        BY <2>2, <3>2 DEF K
      <4>2. b.mounted
        BY <2>3
      <4>3. K = Put(VL(b), n, 0)
        BY <2>2 DEF K
      <4> HIDE DEF c
      <4> QED BY <2>2, <2>6, <3>1, <4>1, <4>2, <4>3, PutFatIs DEF c
    <3> HIDE DEF c
    <3>4. c.here = n /\ c.mounted = s.mounted /\ Others(s, c, RemFields)
      BY <2>3, <3>3, OthersIs DEF Others, WinFields, RemFields, CardFields
    <3>5. CASE ~OK(c)
      <4>1. RemoveTurn(s) = c
        BY <2>1, <2>6, <3>5
      <4> QED BY <1>2, <3>3, <3>4, <3>5, <4>1 DEF Loose
    <3>6. CASE OK(c)
      <4>0. DOMAIN c = Fields /\ c.free \in Int /\ c.last \in Int /\ c.fsi \in BOOLEAN /\ c.res \in Results
        BY <3>3 DEF MI, Base
      <4> DEFINE m == IF next \in Clusters THEN next ELSE 0
                 o == OneMoreFree(c)
      <4>1. DOMAIN o = Fields /\ Others(c, o, {"free", "fsi"}) /\ o.free \in Int /\ o.fsi \in BOOLEAN
        <5>1. CASE c.free < Cardinality(Clusters)
          <6> DEFINE x == [c EXCEPT !.free = c.free + 1, !.fsi = TRUE]
          <6>1. o = x
            BY <5>1, <4>0 DEF OneMoreFree, Fields
          <6>2. c.free + 1 \in Int
            BY <4>0
          <6>3. DOMAIN x = Fields /\ Others(c, x, {"free", "fsi"}) /\ x.free = c.free + 1 /\ x.fsi = TRUE
            BY <4>0 DEF Fields, Others
          <6> HIDE DEF x, o
          <6> QED BY <6>1, <6>2, <6>3
        <5>2. CASE ~(c.free < Cardinality(Clusters))
          BY <5>2, <4>0 DEF OneMoreFree, Fields, Others
        <5> QED BY <5>1, <5>2
      <4> HIDE DEF o
      <4>2. /\ DOMAIN d = Fields /\ Others(o, d, {"here"}) /\ d.here = m
        BY <4>1 DEF Fields, Others, o
      <4> HIDE DEF d, m
      <4>3. /\ d.disk = c.disk /\ d.sect = c.sect /\ d.val = c.val /\ d.dirty = c.dirty
            /\ d.mounted = c.mounted /\ d.free = o.free /\ d.last = c.last /\ d.fsi = o.fsi
            /\ d.past = c.past /\ d.res = c.res
        BY <4>1, <4>2 DEF Others, Fields
      <4>4. MI(d, T, V, io, cur) /\ VD(d) = VD(s) /\ VL(d) = K
        BY <3>3, <3>6, <4>0, <4>1, <4>2, <4>3, SameCard DEF OK
      <4>5. Others(s, d, RemFields)
        BY <3>4, <4>1, <4>2 DEF Others, RemFields, CardFields
      <4>6. m # 0 => Loose(d, m, io)
        <5> SUFFICES ASSUME m # 0 PROVE Loose(d, m, io)
          OBVIOUS
        <5>1. m = next /\ next \in Clusters
          BY DEF m
        <5>2. m # Root
          BY <3>1, <5>1 DEF Wired, First
        <5>3. \A p \in Live(VD(s)) : At(VD(s), p).clust # m
          BY <3>1, <5>1, Numbers DEF TreeI, Owns, Begins, First
        <5>4. \A f \in DOMAIN io : io[f].fil.sclust # m
          BY <3>1, <5>1, Numbers DEF FilesIn, FileIn, Begins, First
        <5> QED BY <3>2, <4>4, <5>1, <5>2, <5>3, <5>4 DEF Loose
      <4>7. RemoveTurn(s) = d
        BY <2>1, <2>6, <3>6 DEF d, o, m
      <4> QED BY <3>4, <4>2, <4>3, <4>4, <4>5, <4>6, <4>7
    <3> QED BY <3>5, <3>6
  <2> QED BY <2>4, <2>5, <2>6
<1> QED BY <1>1, <1>2

(* The fields that are the call's own.                                     *)
OwnFields == {"fp", "got", "at", "out", "here", "rest", "left", "unget", "eof", "c", "chars", "line"}

LEMMA OwnIs ==
  ASSUME NEW s, NEW a, NEW T, NEW V, NEW io, NEW cur, MI(s, T, V, io, cur), DOMAIN a = Fields,
         Others(s, a, OwnFields)
  PROVE  /\ MI(a, T, V, io, cur) /\ View(a) = View(s) /\ VL(a) = VL(s) /\ VD(a) = VD(s)
         /\ a.mounted = s.mounted /\ a.res = s.res /\ a.sect = s.sect /\ a.val = s.val
         /\ a.disk = s.disk /\ a.dirty = s.dirty
         /\ (OK(a) <=> OK(s))
<1>1. /\ a.disk = s.disk /\ a.sect = s.sect /\ a.val = s.val /\ a.dirty = s.dirty
      /\ a.mounted = s.mounted /\ a.free = s.free /\ a.last = s.last /\ a.fsi = s.fsi
      /\ a.past = s.past /\ a.res = s.res
  BY DEF Others, Fields, OwnFields
<1>2. a.free \in Int /\ a.last \in Int /\ a.fsi \in BOOLEAN /\ a.res \in Results
  BY <1>1 DEF MI, Base
<1>3. OK(a) <=> OK(s)
  BY <1>1 DEF OK
<1> QED BY <1>1, <1>2, <1>3, SameCard

LEMMA RemoveChainIs ==
  ASSUME NEW s, NEW T, NEW V, NEW io, NEW cur, MI(s, T, V, io, cur), OK(s), s.mounted,
         NEW c, Loose(s, c, io)
  PROVE  LET a == RemoveChain(s, c)
         IN /\ MI(a, T, V, io, cur) /\ a.mounted /\ VD(a) = VD(s)
            /\ Others(s, a, RemFields)
<1> DEFINE z == [s EXCEPT !.here = c]
           RemI(a) == /\ MI(a, T, V, io, cur) /\ a.mounted /\ VD(a) = VD(s)
                      /\ Others(s, a, RemFields)
                      /\ a.here # 0 => Loose(a, a.here, io)
<1>0. DOMAIN s = Fields /\ c \in Clusters
  BY DEF MI, Base, Loose, First
<1>1. DOMAIN z = Fields /\ Others(s, z, {"here"}) /\ z.here = c
  BY <1>0 DEF Fields, Others
<1>2. RemoveChain(s, c) = Repeat(z, RemoveStep, TopCluster)
  BY <1>0 DEF RemoveChain, Repeat, RemoveStep
<1> HIDE DEF z
<1>3. RemI(z)
  <2>1. Others(s, z, OwnFields) /\ Others(s, z, RemFields)
    BY <1>1 DEF Others, OwnFields, RemFields
  <2>2. MI(z, T, V, io, cur) /\ z.mounted /\ VD(z) = VD(s) /\ VL(z) = VL(s)
    BY <1>1, <2>1, OwnIs
  <2> QED BY <1>1, <2>1, <2>2 DEF Loose
<1>4. ASSUME NEW a, RemI(a) PROVE RemI(RemoveStep(a))
  <2>1. CASE ~OK(a)
    BY <1>4, <2>1 DEF RemoveStep, Then
  <2>2. CASE OK(a)
    <3> DEFINE b == RemoveTurn(a)
    <3>1. RemoveStep(a) = b
      BY <2>2 DEF RemoveStep, Then
    <3>2. /\ MI(b, T, V, io, cur) /\ b.mounted /\ VD(b) = VD(a)
          /\ Others(a, b, RemFields)
          /\ b.here # 0 => Loose(b, b.here, io)
      BY <1>4, <2>2, RemoveTurnIs
    <3> HIDE DEF b
    <3>3. Others(s, b, RemFields)
      BY <1>4, <3>2 DEF Others
    <3> QED BY <1>4, <3>1, <3>2, <3>3
  <2> QED BY <2>1, <2>2
<1>5. PICK f : /\ f[0] = z /\ \A k \in 0 .. TopCluster - 1 : f[k + 1] = RemoveStep(f[k])
               /\ Repeat(z, RemoveStep, TopCluster) = f[TopCluster]
  BY Numbers, RemoveRun
<1> DEFINE S == {k \in 0 .. TopCluster : RemI(f[k])}
<1> HIDE DEF RemI
<1>6. 0 \in S
  BY <1>3, <1>5, Numbers
<1>7. ASSUME NEW k \in 0 .. TopCluster - 1, k \in S PROVE k + 1 \in S
  <2>1. k + 1 \in 0 .. TopCluster /\ RemI(f[k]) /\ f[k + 1] = RemoveStep(f[k])
    BY <1>5, <1>7, Numbers
  <2>2. RemI(f[k + 1])
    BY <1>4, <2>1
  <2> QED BY <2>1, <2>2
<1>8. TopCluster \in S
  <2> HIDE DEF S
  <2> QED BY <1>6, <1>7, UpTo, Numbers
<1>9. RemI(RemoveChain(s, c))
  BY <1>2, <1>5, <1>8
<1> QED BY <1>9 DEF RemI

LEMMA AccessMI ==
  ASSUME NEW s, NEW T, NEW V, NEW io, NEW cur, MI(s, T, V, io, cur), OK(s)
  PROVE  LET a == Access(s)
         IN /\ MI(a, T, V, io, cur) /\ View(a) = View(s) /\ VL(a) = VL(s) /\ VD(a) = VD(s)
            /\ Others(s, a, {"res", "left"}) /\ a.dirty = s.dirty /\ a.disk = s.disk
            /\ Others(s, a, WinFields)
<1> DEFINE a == Access(s)
<1>1. /\ DOMAIN a = Fields /\ Others(s, a, {"res", "left"})
      /\ a.res \in {s.res, "DISK_ERR"}
  BY AccessIs DEF MI, Base
<1> HIDE DEF a
<1>2. /\ a.disk = s.disk /\ a.sect = s.sect /\ a.val = s.val /\ a.dirty = s.dirty
      /\ a.mounted = s.mounted /\ a.free = s.free /\ a.last = s.last /\ a.fsi = s.fsi
      /\ a.past = s.past
  BY <1>1 DEF Others, Fields
<1>3. a.free \in Int /\ a.last \in Int /\ a.fsi \in BOOLEAN /\ a.res \in Results
  BY <1>1, <1>2 DEF MI, Base, Results
<1>4. Others(s, a, WinFields)
  BY <1>1 DEF Others, WinFields
<1>5. MI(a, T, V, io, cur) /\ View(a) = View(s) /\ VL(a) = VL(s) /\ VD(a) = VD(s)
  BY <1>1, <1>2, <1>3, SameCard
<1> QED BY <1>1, <1>2, <1>4, <1>5 DEF a

LEMMA WriteInfoIs ==
  ASSUME NEW s, NEW T, NEW V, NEW io, NEW cur, MI(s, T, V, io, cur), OK(s), ~s.dirty
  PROVE  LET a == WriteInfo(s)
         IN /\ MI(a, T, V, io, cur) /\ VL(a) = VL(s) /\ VD(a) = VD(s)
            /\ Others(s, a, CardFields) /\ a.dirty = FALSE /\ OK(a) /\ a.mounted = s.mounted
<1> DEFINE i == [free |-> s.free, last |-> s.last]
           x == [s EXCEPT !.sect = InfoSec, !.val = i, !.fsi = FALSE]
           w == DiskWrite(x, InfoSec, i)
           a == [w EXCEPT !.res = "OK"]
<1>0. DOMAIN s = Fields /\ s.dirty = FALSE
  BY DEF MI, Base
<1>1. CASE ~(s.fsi /\ s.free # Unknown)
  <2>1. WriteInfo(s) = s
    BY <1>1 DEF WriteInfo
  <2> QED BY <1>0, <2>1 DEF Others
<1>2. CASE s.fsi /\ s.free # Unknown
  <2>1. WriteInfo(s) = a
    BY <1>2 DEF WriteInfo
  <2>2. /\ DOMAIN x = Fields /\ Others(s, x, {"sect", "val", "fsi"})
        /\ x.sect = InfoSec /\ x.fsi = FALSE /\ x.disk = s.disk /\ x.past = s.past
    BY <1>0 DEF Fields, Others
  <2>3. i.free \in Int /\ i.last \in Int
    BY DEF MI, Base
  <2> HIDE DEF x, i
  <2>4. /\ DOMAIN w = Fields /\ Others(x, w, {"disk", "past", "res", "left"})
        /\ OK(w) => w.disk = Put(s.disk, InfoSec, i) /\ w.past = s.past \cup {s.disk}
        /\ ~OK(w) => w.disk = s.disk /\ w.past = s.past
    BY <2>2, DiskWriteIs
  <2> HIDE DEF w
  <2>5. DOMAIN a = Fields /\ Others(w, a, {"res"}) /\ a.res = "OK"
        /\ a.disk = w.disk /\ a.past = w.past
    BY <2>4 DEF Fields, Others
  <2> HIDE DEF a
  <2>6. Others(s, a, CardFields)
    BY <2>2, <2>4, <2>5 DEF Others, CardFields
  <2>7. /\ a.sect = InfoSec /\ a.dirty = FALSE /\ a.mounted = s.mounted
        /\ a.free = s.free /\ a.last = s.last /\ a.fsi = FALSE
    BY <1>0, <2>2, <2>4, <2>5 DEF Others, Fields
  <2>8. View(s) = s.disk /\ View(a) = a.disk
    BY <1>0, <2>7 DEF View
  <2>9. /\ Shape(Put(s.disk, InfoSec, i)) /\ Links(Put(s.disk, InfoSec, i)) = Links(s.disk)
        /\ Slots(Put(s.disk, InfoSec, i)) = Slots(s.disk) /\ Dir(Put(s.disk, InfoSec, i)) = Dir(s.disk)
    BY <2>3, Opened1, WriteInfoSec DEF Put
  <2>10. /\ Shape(a.disk) /\ Links(a.disk) = Links(s.disk)
         /\ Slots(a.disk) = Slots(s.disk) /\ Dir(a.disk) = Dir(s.disk)
         /\ DiskI(a.disk, T) /\ DiskI(a.disk, V) /\ \A d \in a.past : DiskI(d, T)
    BY <2>4, <2>5, <2>8, <2>9 DEF MI, DiskI
  <2>11. VL(a) = VL(s) /\ VD(a) = VD(s)
    BY <2>8, <2>10 DEF VL, VD
  <2>12. Base(a)
    BY <2>5, <2>7 DEF MI, Base, Results
  <2>13. Window(a)
    BY <2>7 DEF Window, Coherent1
  <2>14. MI(a, T, V, io, cur)
    BY <2>8, <2>10, <2>11, <2>12, <2>13 DEF MI
  <2> QED BY <2>1, <2>5, <2>6, <2>7, <2>11, <2>14 DEF OK
<1> QED BY <1>1, <1>2

(* The window and the numbers of FSInfo are written: if all is well the    *)
(* card has the view.                                                      *)
LEMMA SyncFsIs ==
  ASSUME NEW s, NEW T, NEW V, NEW io, NEW cur, MI(s, T, V, io, cur), OK(s)
  PROVE  LET a == SyncFs(s)
         IN /\ MI(a, T, V, io, cur) /\ VL(a) = VL(s) /\ VD(a) = VD(s)
            /\ Others(s, a, CardFields) /\ a.mounted = s.mounted
            /\ OK(a) => a.dirty = FALSE
<1> DEFINE b == SyncWindow(s)
           c == WriteInfo(b)
           d == Access(c)
           a == IF OK(b) THEN d ELSE b
<1>1. SyncFs(s) = a
  BY DEF SyncFs, Then
<1>2. /\ MI(b, T, V, io, cur) /\ View(b) = View(s)
      /\ Others(s, b, {"disk", "past", "res", "left", "dirty"})
      /\ OK(b) => ~b.dirty
  BY SyncWindowIs
<1> HIDE DEF b
<1>3. Others(s, b, CardFields) /\ VL(b) = VL(s) /\ VD(b) = VD(s) /\ b.mounted = s.mounted
  BY <1>2 DEF Others, CardFields, VL, VD, Fields
<1>4. CASE ~OK(b)
  BY <1>1, <1>2, <1>3, <1>4
<1>5. CASE OK(b)
  <2>1. /\ MI(c, T, V, io, cur) /\ VL(c) = VL(b) /\ VD(c) = VD(b)
        /\ Others(b, c, CardFields) /\ c.dirty = FALSE /\ OK(c) /\ c.mounted = b.mounted
    BY <1>2, <1>5, WriteInfoIs
  <2> HIDE DEF c
  <2>2. /\ MI(d, T, V, io, cur) /\ VL(d) = VL(c) /\ VD(d) = VD(c)
        /\ Others(c, d, WinFields) /\ d.dirty = c.dirty
    BY <2>1, AccessMI
  <2> HIDE DEF d
  <2>3. Others(s, d, CardFields) /\ d.mounted = s.mounted
    BY <1>3, <2>1, <2>2, OthersIs
  <2> QED BY <1>1, <1>3, <1>5, <2>1, <2>2, <2>3
<1> QED BY <1>4, <1>5

LEMMA MountIs ==
  ASSUME NEW s, NEW T, NEW V, NEW io, NEW cur, MI(s, T, V, io, cur), OK(s)
  PROVE  LET a == Mount(s)
         IN /\ MI(a, T, V, io, cur) /\ VL(a) = VL(s) /\ VD(a) = VD(s)
            /\ Others(s, a, CardFields)
            /\ OK(a) => a.mounted
<1>0. DOMAIN s = Fields /\ (s.dirty => s.mounted) /\ s.dirty \in BOOLEAN
  BY DEF MI, Base
<1>1. CASE s.mounted
  <2>1. Mount(s) = s
    BY <1>1 DEF Mount
  <2> QED BY <1>1, <2>1 DEF Others
<1>2. CASE ~s.mounted
  <2> DEFINE x == [s EXCEPT !.sect = 0, !.dirty = FALSE]
             c == Access(x)
             b == ReadWindow(c, InfoSec)
             free == IF OK(b) THEN b.val.free ELSE Unknown
             last == IF OK(b) THEN b.val.last ELSE Unknown
             a == [b EXCEPT !.res = "OK", !.mounted = TRUE, !.fsi = FALSE,
                            !.free = free, !.last = last]
             y == IF OK(c) THEN a ELSE c
  <2>1. /\ DOMAIN x = Fields /\ Others(s, x, {"sect", "dirty"}) /\ x.sect = 0 /\ x.dirty = FALSE
        /\ x.disk = s.disk /\ x.past = s.past /\ x.res = s.res /\ x.mounted = s.mounted
        /\ x.free = s.free /\ x.last = s.last /\ x.fsi = s.fsi
    BY <1>0 DEF Fields, Others
  <2>2. MI(x, T, V, io, cur) /\ View(x) = View(s) /\ VL(x) = VL(s) /\ VD(x) = VD(s) /\ OK(x)
    <3>1. View(x) = View(s)
      BY <1>0, <1>2, <2>1 DEF View
    <3>2. VL(x) = VL(s) /\ VD(x) = VD(s)
      BY <3>1 DEF VL, VD
    <3>3. Base(x) /\ OK(x)
      BY <2>1 DEF MI, Base, OK
    <3>4. Window(x)
      BY <2>1 DEF Window, Coherent1
    <3> QED BY <2>1, <3>1, <3>2, <3>3, <3>4 DEF MI
  <2> HIDE DEF x
  <2>3. /\ MI(c, T, V, io, cur) /\ View(c) = View(s) /\ VL(c) = VL(s) /\ VD(c) = VD(s)
        /\ Others(x, c, {"res", "left"}) /\ c.sect = 0 /\ c.dirty = FALSE
    <3>1. /\ MI(c, T, V, io, cur) /\ View(c) = View(x) /\ VL(c) = VL(x) /\ VD(c) = VD(x)
          /\ Others(x, c, {"res", "left"}) /\ c.dirty = x.dirty
      BY <2>2, AccessMI
    <3> HIDE DEF c
    <3> QED BY <2>1, <2>2, <3>1 DEF Others, Fields
  <2>4. Mount(s) = y
    <3> HIDE DEF c
    <3>1. OK(c) => MoveWindow(c, InfoSec) = b
      <4>1. c.sect # InfoSec /\ ~c.dirty
        BY <2>3 DEF InfoSec
      <4> QED BY <4>1 DEF MoveWindow, SyncWindow, Then
    <3> HIDE DEF b
    <3> QED BY <1>2, <3>1 DEF Mount, x, c
  <2> HIDE DEF c
  <2>5. Others(s, c, CardFields)
    BY <2>1, <2>3 DEF Others, CardFields
  <2>6. CASE ~OK(c)
    BY <2>3, <2>4, <2>5, <2>6
  <2>7. CASE OK(c)
    <3>1. /\ MI(b, T, V, io, cur) /\ View(b) = View(c) /\ ~b.dirty
          /\ Others(c, b, {"sect", "val", "res", "left"})
          /\ OK(b) => b.sect = InfoSec /\ b.val = View(c)[InfoSec]
          /\ ~OK(b) => b.sect = 0
      BY <2>3, <2>7, ReadWindowIs
    <3> HIDE DEF b
    <3>2. Others(s, b, CardFields) /\ VL(b) = VL(s) /\ VD(b) = VD(s)
      BY <2>3, <2>5, <3>1 DEF Others, CardFields, VL, VD
    <3>3. DOMAIN b = Fields /\ b.dirty = FALSE
      BY <3>1 DEF MI, Base
    <3>4. free \in Int /\ last \in Int
      <4>1. Shape(View(c))
        BY <2>3, Opened1
      <4>2. Unknown \in Int
        BY Numbers DEF Unknown
      <4> QED BY <3>1, <4>1, <4>2 DEF Shape
    <3> HIDE DEF free, last
    <3>5. /\ DOMAIN a = Fields /\ Others(b, a, {"res", "mounted", "fsi", "free", "last"})
          /\ a.res = "OK" /\ a.mounted = TRUE /\ a.fsi = FALSE /\ a.free = free /\ a.last = last
      BY <3>3 DEF Fields, Others
    <3> HIDE DEF a
    <3>6. /\ a.disk = b.disk /\ a.sect = b.sect /\ a.val = b.val /\ a.dirty = FALSE
          /\ a.past = b.past
      BY <3>3, <3>5 DEF Others, Fields
    <3>7. View(a) = View(b)
      BY <3>3, <3>6 DEF View
    <3>8. VL(a) = VL(b) /\ VD(a) = VD(b)
      BY <3>7 DEF VL, VD
    <3>9. Base(a)
      BY <3>1, <3>4, <3>5, <3>6 DEF MI, Base, Results
    <3>10. Window(a)
      BY <3>1, <3>6 DEF Window, Coherent1
    <3>11. MI(a, T, V, io, cur)
      BY <3>1, <3>6, <3>7, <3>8, <3>9, <3>10 DEF MI
    <3>12. Others(s, a, CardFields)
      BY <3>2, <3>5 DEF Others, CardFields
    <3> QED BY <2>4, <2>7, <3>2, <3>5, <3>8, <3>11, <3>12
  <2> QED BY <2>6, <2>7
<1> QED BY <1>1, <1>2

(* The search for a free cluster.                                          *)
ScanFields == WinFields \cup {"got", "here"}
Found(s, L) == s.got = 0 \/ (s.got \in Clusters /\ L[s.got] = 0)

LEMMA ScanTurnIs ==
  ASSUME NEW s, NEW T, NEW V, NEW io, NEW cur, MI(s, T, V, io, cur), OK(s), NEW scl,
         Found(s, VL(s))
  PROVE  LET a == ScanTurn(s, scl)
         IN /\ MI(a, T, V, io, cur) /\ VL(a) = VL(s) /\ VD(a) = VD(s)
            /\ Others(s, a, ScanFields) /\ Found(a, VL(s))
<1> DEFINE c == IF s.here + 1 > TopCluster THEN 2 ELSE s.here + 1
           z == [s EXCEPT !.here = 0]
           b == GetFat(s, c)
           x == [b EXCEPT !.got = c, !.here = 0]
           y == [b EXCEPT !.here = IF c = scl THEN 0 ELSE c]
<1>0. DOMAIN s = Fields
  BY DEF MI, Base
<1>1. /\ DOMAIN z = Fields /\ Others(s, z, OwnFields) /\ Others(s, z, ScanFields) /\ z.got = s.got
  BY <1>0 DEF Fields, Others, OwnFields, ScanFields, WinFields
<1>2. /\ MI(b, T, V, io, cur) /\ VL(b) = VL(s) /\ VD(b) = VD(s)
      /\ Others(s, b, WinFields)
      /\ OK(b) => c \in Clusters /\ Link(b, c) = VL(s)[c]
  BY GetFatIs
<1>3. \/ ScanTurn(s, scl) = s
      \/ ScanTurn(s, scl) = z
      \/ ScanTurn(s, scl) = b
      \/ OK(b) /\ Link(b, c) = 0 /\ ScanTurn(s, scl) = x
      \/ OK(b) /\ ScanTurn(s, scl) = y
  BY DEF ScanTurn, Then
<1> HIDE DEF b, z
<1>4. Others(s, b, ScanFields) /\ b.got = s.got /\ DOMAIN b = Fields
  BY <1>2, OthersIs DEF Others, ScanFields, WinFields, MI, Base
<1>5. MI(z, T, V, io, cur) /\ VL(z) = VL(s) /\ VD(z) = VD(s) /\ Found(z, VL(s))
  BY <1>1, OwnIs DEF Found
<1> HIDE DEF c
<1>6. DOMAIN x = Fields /\ Others(b, x, {"got", "here"}) /\ x.got = c
  BY <1>4 DEF Fields, Others
<1>7. DOMAIN y = Fields /\ Others(b, y, {"here"}) /\ y.got = b.got
  BY <1>4 DEF Fields, Others
<1> HIDE DEF x, y
<1>8. /\ Others(b, x, OwnFields) /\ Others(s, x, ScanFields)
      /\ Others(b, y, OwnFields) /\ Others(s, y, ScanFields)
  BY <1>4, <1>6, <1>7 DEF Others, OwnFields, ScanFields
<1>9. /\ MI(x, T, V, io, cur) /\ VL(x) = VL(s) /\ VD(x) = VD(s)
      /\ MI(y, T, V, io, cur) /\ VL(y) = VL(s) /\ VD(y) = VD(s)
  BY <1>2, <1>6, <1>7, <1>8, OwnIs
<1>10. OK(b) /\ Link(b, c) = 0 => Found(x, VL(s))
  BY <1>2, <1>6 DEF Found
<1>11. Found(b, VL(s)) /\ Found(y, VL(s))
  BY <1>4, <1>7 DEF Found
<1> QED BY <1>1, <1>2, <1>3, <1>4, <1>5, <1>8, <1>9, <1>10, <1>11 DEF Others

(* The turns of the search.                                                *)
ScanStep(a, scl) == Then(a, LAMBDA b : ScanTurn(b, scl))
ScanRuns(s, scl, n) == Repeat(s, LAMBDA a : ScanStep(a, scl), n)
LEMMA ScanRun ==
  ASSUME NEW s, NEW n \in Nat, NEW scl
  PROVE  \E f : /\ f[0] = s /\ \A k \in 0 .. n - 1 : f[k + 1] = ScanStep(f[k], scl)
                /\ ScanRuns(s, scl, n) = f[n]
<1> DEFINE Run(f, m) == f = [k \in 0 .. m |-> IF k = 0 THEN s ELSE ScanStep(f[k - 1], scl)]
           S == {m \in Nat : \E f : Run(f, m)}
<1> HIDE DEF ScanStep
<1>1. 0 \in S
  <2>1. Run([k \in 0 .. 0 |-> s], 0)
    OBVIOUS
  <2> QED BY <2>1
<1>2. ASSUME NEW m \in Nat, m \in S PROVE m + 1 \in S
  <2>1. PICK f : Run(f, m)
    BY <1>2
  <2> DEFINE g == [k \in 0 .. m + 1 |-> IF k <= m THEN f[k] ELSE ScanStep(f[m], scl)]
  <2>2. Run(g, m + 1)
    <3>1. ASSUME NEW k \in 0 .. m + 1 PROVE g[k] = IF k = 0 THEN s ELSE ScanStep(g[k - 1], scl)
      <4>1. CASE k = m + 1
        BY <4>1
      <4>2. CASE k <= m
        BY <4>2, <2>1
      <4> QED BY <4>1, <4>2
    <3> QED BY <3>1
  <2> HIDE DEF g, Run
  <2> QED BY <2>2
<1>3. n \in S
  <2> HIDE DEF S
  <2> QED BY <1>1, <1>2, UpTo
<1>4. PICK g : Run(g, n)
  BY <1>3
<1> DEFINE after == CHOOSE f : Run(f, n)
<1>5. Run(after, n)
  BY <1>4
<1>6. ScanRuns(s, scl, n) = after[n]
  BY DEF Repeat, ScanRuns
<1>7. after[0] = s /\ \A k \in 0 .. n - 1 : after[k + 1] = ScanStep(after[k], scl)
  <2> HIDE DEF after
  <2> QED BY <1>5
<1> QED BY <1>6, <1>7

LEMMA ScanIs ==
  ASSUME NEW s, NEW T, NEW V, NEW io, NEW cur, MI(s, T, V, io, cur), OK(s), NEW scl
  PROVE  LET a == Scan(s, scl)
         IN /\ MI(a, T, V, io, cur) /\ VL(a) = VL(s) /\ VD(a) = VD(s)
            /\ Others(s, a, ScanFields) /\ Found(a, VL(s))
<1> DEFINE z == [s EXCEPT !.got = 0, !.here = scl]
           I(a) == /\ MI(a, T, V, io, cur) /\ VL(a) = VL(s) /\ VD(a) = VD(s)
                   /\ Others(s, a, ScanFields) /\ Found(a, VL(s))
<1>0. DOMAIN s = Fields
  BY DEF MI, Base
<1>1. DOMAIN z = Fields /\ Others(s, z, {"got", "here"}) /\ z.got = 0
  BY <1>0 DEF Fields, Others
<1>2. Scan(s, scl) = ScanRuns(z, scl, TopCluster)
  BY DEF Scan, Repeat, ScanStep, ScanRuns
<1> HIDE DEF z
<1>3. I(z)
  <2>1. Others(s, z, OwnFields) /\ Others(s, z, ScanFields)
    BY <1>1 DEF Others, OwnFields, ScanFields
  <2> QED BY <1>1, <2>1, OwnIs DEF Found
<1>4. ASSUME NEW a, I(a) PROVE I(ScanStep(a, scl))
  <2>1. CASE ~OK(a)
    BY <1>4, <2>1 DEF ScanStep, Then
  <2>2. CASE OK(a)
    <3> DEFINE b == ScanTurn(a, scl)
    <3>1. ScanStep(a, scl) = b
      BY <2>2 DEF ScanStep, Then
    <3>2. /\ MI(b, T, V, io, cur) /\ VL(b) = VL(a) /\ VD(b) = VD(a)
          /\ Others(a, b, ScanFields) /\ Found(b, VL(s))
      BY <1>4, <2>2, ScanTurnIs
    <3> HIDE DEF b
    <3>3. Others(s, b, ScanFields)
      BY <1>4, <3>2 DEF Others
    <3> QED BY <1>4, <3>1, <3>2, <3>3
  <2> QED BY <2>1, <2>2
<1>5. PICK f : /\ f[0] = z /\ \A k \in 0 .. TopCluster - 1 : f[k + 1] = ScanStep(f[k], scl)
               /\ ScanRuns(z, scl, TopCluster) = f[TopCluster]
  BY Numbers, ScanRun
<1> DEFINE S == {k \in 0 .. TopCluster : I(f[k])}
<1> HIDE DEF I
<1>6. 0 \in S
  BY <1>3, <1>5, Numbers
<1>7. ASSUME NEW k \in 0 .. TopCluster - 1, k \in S PROVE k + 1 \in S
  <2>1. k + 1 \in 0 .. TopCluster /\ I(f[k]) /\ f[k + 1] = ScanStep(f[k], scl)
    BY <1>5, <1>7, Numbers
  <2>2. I(f[k + 1])
    BY <1>4, <2>1
  <2> QED BY <2>1, <2>2
<1>8. TopCluster \in S
  <2> HIDE DEF S
  <2> QED BY <1>6, <1>7, UpTo, Numbers
<1>9. I(Scan(s, scl))
  BY <1>2, <1>5, <1>8
<1> QED BY <1>9 DEF I

(* A cluster that was free is the end of the chain of c, or, if c is 0, a  *)
(* chain nobody has; no chain has lost a cluster.                          *)
Fresh(s, a, c, io) ==
  /\ a.got \in Clusters /\ VL(s)[a.got] = 0 /\ VL(a)[a.got] = Eoc
  /\ c = 0 => Loose(a, a.got, io)
  /\ c # 0 => VL(a)[c] = a.got
  /\ \A x \in Clusters : VL(s)[x] # 0 => Chain(VL(s), x) \subseteq Chain(VL(a), x)

LEMMA TakeIs ==
  ASSUME NEW s, NEW T, NEW V, NEW io, NEW cur, MI(s, T, V, io, cur), OK(s), s.mounted,
         NEW c, Found(s, VL(s)), c = 0 \/ (c \in Clusters /\ VL(s)[c] = Eoc)
  PROVE  LET a == Take(s, c)
         IN /\ MI(a, T, V, io, cur) /\ VD(a) = VD(s)
            /\ Others(s, a, CardFields) /\ a.mounted
            /\ a.got = 0 => VL(a) = VL(s)
            /\ OK(a) /\ a.got # 0 => Fresh(s, a, c, io)
<1> DEFINE n == s.got
<1>1. CASE n = 0
  BY <1>1 DEF Take, Others
<1>2. CASE n # 0
  <2> DEFINE p == PutFat(s, n, Eoc)
             q == IF c # 0 THEN PutFat(p, c, n) ELSE p
             z == [q EXCEPT !.last = s.got, !.fsi = TRUE,
                            !.free = IF @ <= Cardinality(Clusters) THEN @ - 1 ELSE @]
             a == IF OK(p) THEN IF OK(q) THEN z ELSE q ELSE p
             K == Put(VL(s), n, Eoc)
  <2>1. Take(s, c) = a
    BY <1>2 DEF Take, Then
  <2>2. /\ n \in Clusters /\ VL(s)[n] = 0 /\ TreeI(VL(s), VD(s), V) /\ Wired(VL(s))
        /\ FilesIn(VL(s), VD(s), io, cur)
    BY <1>2, Opened1 DEF Found, MI
  <2>3. /\ TreeI(K, VD(s), V) /\ First(K, n) /\ K[n] = Eoc
        /\ FilesIn(K, VD(s), io, cur)
        /\ \A x \in Clusters : VL(s)[x] # 0 => Chain(K, x) = Chain(VL(s), x)
        /\ \A x : Begins(VL(s), x) => x # n
        /\ n # Root
    BY <2>2, TakeTree DEF Put
  <2>a. \A x \in Clusters : x # n => K[x] = VL(s)[x]
    BY <2>2 DEF Put, Wired, LinkFcns
  <2> HIDE DEF K
  <2>4. /\ Others(s, p, WinFields) /\ VD(p) = VD(s)
        /\ OK(p) => MI(p, T, V, io, cur) /\ VL(p) = K
        /\ ~OK(p) => MI(p, T, V, io, cur) /\ VL(p) = VL(s)
    BY <2>2, <2>3, PutFatIs DEF K
  <2> HIDE DEF p
  <2>5. Others(s, p, CardFields) /\ p.mounted /\ p.got = n
    BY <2>4, OthersIs
  <2>6. /\ \A r \in Live(VD(s)) : At(VD(s), r).clust # n
        /\ \A f \in DOMAIN io : io[f].fil.sclust # n
    BY <2>2, <2>3, Numbers DEF TreeI, Owns, FilesIn, FileIn
  <2>7. CASE ~OK(p)
    <3>1. Take(s, c) = p
      BY <2>1, <2>7
    <3> QED BY <1>2, <2>4, <2>5, <2>7, <3>1
  <2>8. CASE OK(p)
    <3> DEFINE M == Put(K, c, n)
               Good(x) == /\ VL(x)[n] = Eoc
                          /\ c = 0 => Loose(x, n, io)
                          /\ c # 0 => VL(x)[c] = n
                          /\ \A y \in Clusters : VL(s)[y] # 0 => Chain(VL(s), y) \subseteq Chain(VL(x), y)
    <3>1. /\ Others(p, q, WinFields) /\ VD(q) = VD(s) /\ MI(q, T, V, io, cur)
          /\ OK(q) => Good(q)
      <4>1. CASE c = 0
        <5>1. q = p
          BY <4>1
        <5>2. VL(p) = K /\ VD(p) = VD(s)
          BY <2>4, <2>8
        <5>3. Loose(p, n, io)
          BY <2>3, <2>6, <5>2 DEF Loose
        <5>4. Good(p)
          BY <2>3, <4>1, <5>2, <5>3
        <5> QED BY <2>4, <2>8, <5>1, <5>4 DEF Others
      <4>2. CASE c # 0
        <5>0. c \in Clusters /\ VL(s)[c] = Eoc /\ c # n /\ K[c] = Eoc
          BY <4>2, <2>2, <2>a, Numbers
        <5>1. /\ TreeI(M, VD(s), V) /\ FilesIn(M, VD(s), io, cur)
              /\ \A x : Chain(K, x) \subseteq Chain(M, x)
          <6>1. LET X == [K EXCEPT ![c] = n]
                IN /\ TreeI(X, VD(s), V)
                   /\ \A x : Chain(X, x) = Chain(K, x) \cup (IF c \in Chain(K, x) THEN {n} ELSE {})
                   /\ \A jo, cur1 : /\ FilesIn(K, VD(s), jo, cur1)
                                    /\ \A f \in DOMAIN jo : jo[f].fil.sclust # n
                        => FilesIn(X, VD(s), jo, cur1)
            BY <2>3, <2>6, <5>0, LinkTree
          <6>2. M = [K EXCEPT ![c] = n]
            BY DEF Put
          <6> HIDE DEF M
          <6> QED BY <2>3, <2>6, <6>1, <6>2
        <5>2. M[c] = n /\ M[n] = Eoc
          BY <2>3, <5>0, <2>2 DEF Put, TreeI, Wired, LinkFcns
        <5> HIDE DEF M
        <5> DEFINE r == PutFat(p, c, n)
        <5>3. TreeI(Put(VL(p), c, n), VD(p), V) /\ FilesIn(Put(VL(p), c, n), VD(p), io, cur)
              /\ M = Put(VL(p), c, n)
          BY <2>4, <2>8, <5>1 DEF M
        <5>4. /\ Others(p, r, WinFields) /\ VD(r) = VD(p)
              /\ OK(r) => MI(r, T, V, io, cur) /\ VL(r) = M
              /\ ~OK(r) => MI(r, T, V, io, cur) /\ VL(r) = VL(p)
          BY <2>4, <2>5, <2>8, <5>0, <5>3, PutFatIs
        <5> HIDE DEF r
        <5>5. OK(r) => Good(r)
          BY <2>3, <4>2, <5>1, <5>2, <5>4
        <5>6. q = r
          BY <4>2 DEF r
        <5> HIDE DEF q
        <5> QED BY <2>4, <5>4, <5>5, <5>6
      <4> QED BY <4>1, <4>2
    <3> HIDE DEF q
    <3>2. Others(s, q, CardFields) /\ q.mounted /\ q.got = n
      BY <2>5, <3>1, OthersIs
    <3>3. CASE ~OK(q)
      <4>1. Take(s, c) = q
        BY <2>1, <2>8, <3>3
      <4> QED BY <1>2, <3>1, <3>2, <3>3, <4>1
    <3>4. CASE OK(q)
      <4> DEFINE free == IF q.free <= Cardinality(Clusters) THEN q.free - 1 ELSE q.free
                 w == [q EXCEPT !.last = s.got, !.fsi = TRUE, !.free = free]
      <4>0. DOMAIN q = Fields /\ q.free \in Int /\ q.res \in Results
        BY <3>1 DEF MI, Base
      <4>1. z = w
        BY <4>0 DEF Fields
      <4>2. free \in Int /\ n \in Int
        BY <4>0, <2>2, Numbers
      <4> HIDE DEF free, z
      <4>3. DOMAIN w = Fields /\ Others(q, w, {"last", "fsi", "free"}) /\ w.last = n /\ w.fsi = TRUE
            /\ w.free = free
        BY <4>0 DEF Fields, Others
      <4> HIDE DEF w
      <4>4. /\ w.disk = q.disk /\ w.sect = q.sect /\ w.val = q.val /\ w.dirty = q.dirty
            /\ w.mounted = q.mounted /\ w.past = q.past /\ w.res = q.res /\ w.got = q.got
        BY <4>3 DEF Others, Fields
      <4>5. MI(w, T, V, io, cur) /\ VL(w) = VL(q) /\ VD(w) = VD(q)
        BY <3>1, <3>4, <4>0, <4>2, <4>3, <4>4, SameCard
      <4>6. Others(s, w, CardFields)
        BY <3>2, <4>3 DEF Others, CardFields
      <4>7. Good(q)
        BY <3>1, <3>4
      <4>8. Fresh(s, w, c, io)
        BY <2>2, <3>1, <3>2, <4>4, <4>5, <4>7 DEF Fresh, Loose
      <4>9. Take(s, c) = w
        BY <2>1, <2>8, <3>4, <4>1
      <4> QED BY <1>2, <3>1, <3>2, <4>4, <4>5, <4>6, <4>8, <4>9
    <3> QED BY <3>3, <3>4
  <2> QED BY <2>7, <2>8
<1> QED BY <1>1, <1>2

LinkFields == CardFields \cup {"got", "here"}

LEMMA LinkFieldsIs ==
  ASSUME NEW s, NEW a
  PROVE  /\ Others(s, a, WinFields) => Others(s, a, LinkFields)
         /\ Others(s, a, CardFields) => Others(s, a, LinkFields)
         /\ Others(s, a, ScanFields) => Others(s, a, LinkFields) /\ a.mounted = s.mounted
         /\ Others(s, a, {"got"}) => Others(s, a, LinkFields)
         /\ Others(s, a, LinkFields) =>
              /\ a.fp = s.fp /\ a.at = s.at /\ a.out = s.out /\ a.rest = s.rest
BY DEF Others, WinFields, CardFields, ScanFields, LinkFields, Fields

LEMMA FreshLike ==
  ASSUME NEW s, NEW a, NEW b, NEW c, NEW io, Fresh(b, a, c, io), VL(b) = VL(s)
  PROVE  Fresh(s, a, c, io)
BY DEF Fresh

(* From a cluster found to the chain it begins, or is the end of.          *)
LEMMA FoundTaken ==
  ASSUME NEW s, NEW T, NEW V, NEW io, NEW cur, MI(s, T, V, io, cur), s.mounted,
         NEW c, c = 0 \/ (c \in Clusters /\ VL(s)[c] = Eoc),
         NEW b, MI(b, T, V, io, cur), VL(b) = VL(s), VD(b) = VD(s), Others(s, b, LinkFields),
         b.mounted, OK(b) => Found(b, VL(s))
  PROVE  LET a == IF OK(b) THEN Take(b, c) ELSE b
         IN /\ MI(a, T, V, io, cur) /\ VD(a) = VD(s)
            /\ Others(s, a, LinkFields) /\ a.mounted
            /\ OK(a) /\ a.got = 0 => VL(a) = VL(s)
            /\ OK(a) /\ a.got # 0 => Fresh(s, a, c, io)
<1>1. CASE ~OK(b)
  BY <1>1
<1>2. CASE OK(b)
  <2> DEFINE a == Take(b, c)
  <2>1. /\ MI(a, T, V, io, cur) /\ VD(a) = VD(b)
        /\ Others(b, a, CardFields) /\ a.mounted
        /\ a.got = 0 => VL(a) = VL(b)
        /\ OK(a) /\ a.got # 0 => Fresh(b, a, c, io)
    BY <1>2, TakeIs
  <2> HIDE DEF a
  <2>2. Others(s, a, LinkFields)
    BY <2>1, OthersIs, LinkFieldsIs
  <2>3. OK(a) /\ a.got # 0 => Fresh(s, a, c, io)
    BY <2>1, FreshLike
  <2> QED BY <1>2, <2>1, <2>2, <2>3 DEF a
<1> QED BY <1>1, <1>2

LEMMA NewChainIs ==
  ASSUME NEW s, NEW T, NEW V, NEW io, NEW cur, MI(s, T, V, io, cur), OK(s), s.mounted
  PROVE  LET a == NewChain(s)
         IN /\ MI(a, T, V, io, cur) /\ VD(a) = VD(s)
            /\ Others(s, a, LinkFields) /\ a.mounted
            /\ OK(a) /\ a.got = 0 => VL(a) = VL(s)
            /\ OK(a) /\ a.got # 0 => Fresh(s, a, 0, io)
<1> DEFINE scl == IF s.last \in 1 .. TopCluster THEN s.last ELSE 1
           b == Scan(s, scl)
           a == IF OK(b) THEN Take(b, 0) ELSE b
<1>1. NewChain(s) = a
  BY DEF NewChain, Then
<1> HIDE DEF scl
<1>2. /\ MI(b, T, V, io, cur) /\ VL(b) = VL(s) /\ VD(b) = VD(s)
      /\ Others(s, b, ScanFields) /\ Found(b, VL(s))
  BY ScanIs
<1> HIDE DEF b
<1>3. Others(s, b, LinkFields) /\ b.mounted
  BY <1>2, LinkFieldsIs
<1> QED BY <1>1, <1>2, <1>3, FoundTaken

LEMMA StretchIs ==
  ASSUME NEW s, NEW T, NEW V, NEW io, NEW cur, MI(s, T, V, io, cur), OK(s), s.mounted,
         NEW c \in Clusters, VL(s)[c] = Eoc
  PROVE  LET a == Stretch(s, c)
         IN /\ MI(a, T, V, io, cur) /\ VD(a) = VD(s)
            /\ Others(s, a, LinkFields) /\ a.mounted
            /\ OK(a) /\ a.got = 0 => VL(a) = VL(s)
            /\ OK(a) /\ a.got # 0 => Fresh(s, a, c, io)
<1> DEFINE next == IF c + 1 > TopCluster THEN 2 ELSE c + 1
           scl  == IF s.last \in Clusters THEN s.last ELSE c
           g == GetFat(s, next)
           b == IF Link(g, next) = 0 THEN [g EXCEPT !.got = next] ELSE Scan(g, scl)
           a == IF OK(b) THEN Take(b, c) ELSE b
<1>1. Stretch(s, c) = IF OK(g) THEN a ELSE g
  BY DEF Stretch, Then
<1> HIDE DEF scl, next
<1>2. /\ MI(g, T, V, io, cur) /\ VL(g) = VL(s) /\ VD(g) = VD(s)
      /\ Others(s, g, WinFields)
      /\ OK(g) => next \in Clusters /\ Link(g, next) = VL(s)[next]
  BY GetFatIs
<1> HIDE DEF g
<1>3. Others(s, g, LinkFields) /\ g.mounted
  BY <1>2, LinkFieldsIs, OthersIs
<1>4. CASE ~OK(g)
  <2>1. Stretch(s, c) = g
    BY <1>1, <1>4
  <2> QED BY <1>2, <1>3, <1>4, <2>1
<1>5. CASE OK(g)
  <2>1. /\ MI(b, T, V, io, cur) /\ VL(b) = VL(s) /\ VD(b) = VD(s) /\ Others(g, b, LinkFields)
        /\ b.mounted /\ Found(b, VL(s))
    <3>1. CASE Link(g, next) = 0
      <4> DEFINE x == [g EXCEPT !.got = next]
      <4>0. DOMAIN g = Fields
        BY <1>2 DEF MI, Base
      <4>1. DOMAIN x = Fields /\ Others(g, x, {"got"}) /\ x.got = next
        BY <4>0 DEF Fields, Others
      <4>2. b = x
        BY <3>1
      <4> HIDE DEF x, b
      <4>3. Others(g, x, OwnFields) /\ Others(g, x, LinkFields)
        BY <4>1 DEF Others, OwnFields, LinkFields
      <4>4. MI(x, T, V, io, cur) /\ VL(x) = VL(g) /\ VD(x) = VD(g) /\ x.mounted
        BY <1>2, <1>3, <4>1, <4>3, OwnIs
      <4>5. Found(x, VL(s))
        BY <1>2, <1>5, <3>1, <4>1 DEF Found
      <4> QED BY <1>2, <4>2, <4>3, <4>4, <4>5
    <3>2. CASE Link(g, next) # 0
      <4> DEFINE x == Scan(g, scl)
      <4>1. /\ MI(x, T, V, io, cur) /\ VL(x) = VL(g) /\ VD(x) = VD(g)
            /\ Others(g, x, ScanFields) /\ Found(x, VL(g))
        BY <1>2, <1>5, ScanIs
      <4>2. b = x
        BY <3>2
      <4> HIDE DEF x, b
      <4> QED BY <1>2, <1>3, <4>1, <4>2, LinkFieldsIs
    <3> QED BY <3>1, <3>2
  <2>2. Stretch(s, c) = a
    BY <1>1, <1>5
  <2> HIDE DEF b
  <2>3. Others(s, b, LinkFields)
    BY <1>3, <2>1, OthersIs
  <2> QED BY <2>1, <2>2, <2>3, FoundTaken
<1> QED BY <1>4, <1>5

(* What create_chain does, of which got is 0 when the card is full.        *)
Extended(s, a, c, io) ==
  /\ a.got \in Clusters
  /\ c = 0 \/ VL(s)[c] = Eoc => Fresh(s, a, c, io)
  /\ c # 0 => /\ c \in Clusters /\ VL(a)[c] = a.got
              /\ \A x \in Clusters : VL(s)[x] # 0 => Chain(VL(s), x) \subseteq Chain(VL(a), x)

LEMMA CreateChainIs ==
  ASSUME NEW s, NEW T, NEW V, NEW io, NEW cur, MI(s, T, V, io, cur), OK(s), s.mounted, NEW c
  PROVE  LET a == CreateChain(s, c)
         IN /\ MI(a, T, V, io, cur) /\ VD(a) = VD(s)
            /\ Others(s, a, LinkFields) /\ a.mounted
            /\ OK(a) /\ a.got = 0 => VL(a) = VL(s)
            /\ OK(a) /\ a.got # 0 => Extended(s, a, c, io)
<1>0. DOMAIN s = Fields
  BY DEF MI, Base
<1>a. ASSUME NEW t, MI(t, T, V, io, cur), VL(t) = VL(s), VD(t) = VD(s), Others(s, t, LinkFields),
             t.mounted, NEW v
      PROVE  LET x == [t EXCEPT !.got = v]
             IN /\ MI(x, T, V, io, cur) /\ VL(x) = VL(s) /\ VD(x) = VD(s)
                /\ Others(s, x, LinkFields) /\ x.mounted /\ x.got = v
  <2> DEFINE x == [t EXCEPT !.got = v]
  <2>1. DOMAIN t = Fields
    BY <1>a DEF MI, Base
  <2>2. DOMAIN x = Fields /\ Others(t, x, {"got"}) /\ x.got = v
    BY <2>1 DEF Fields, Others
  <2> HIDE DEF x
  <2>3. Others(t, x, OwnFields) /\ Others(t, x, LinkFields)
    BY <2>2 DEF Others, OwnFields, LinkFields
  <2>4. MI(x, T, V, io, cur) /\ VL(x) = VL(t) /\ VD(x) = VD(t) /\ x.mounted
    BY <1>a, <2>2, <2>3, OwnIs
  <2> QED BY <1>a, <2>2, <2>3, <2>4, OthersIs DEF x
<1>1. CASE c = 0
  <2>1. CASE s.free = 0
    <3>1. CreateChain(s, c) = [s EXCEPT !.got = 0]
      BY <1>1, <2>1 DEF CreateChain
    <3>2. Others(s, s, LinkFields)
      BY DEF Others
    <3> QED BY <1>a, <3>1, <3>2
  <2>2. CASE s.free # 0
    <3>1. CreateChain(s, c) = NewChain(s)
      BY <1>1, <2>2 DEF CreateChain
    <3> QED BY <1>1, <3>1, NewChainIs DEF Extended, Fresh
  <2> QED BY <2>1, <2>2
<1>2. CASE c # 0
  <2> DEFINE g == GetFat(s, c)
             a == IF Link(g, c) < 2 THEN Fail(g, "INT_ERR")
                  ELSE IF Link(g, c) \in Clusters THEN [g EXCEPT !.got = Link(g, c)]
                  ELSE IF g.free = 0 THEN [g EXCEPT !.got = 0]
                  ELSE Stretch(g, c)
  <2>1. CreateChain(s, c) = IF OK(g) THEN a ELSE g
    BY <1>2 DEF CreateChain, Then
  <2>2. /\ MI(g, T, V, io, cur) /\ VL(g) = VL(s) /\ VD(g) = VD(s)
        /\ Others(s, g, WinFields)
        /\ OK(g) => c \in Clusters /\ Link(g, c) = VL(s)[c]
    BY GetFatIs
  <2> HIDE DEF g
  <2>3. Others(s, g, LinkFields) /\ g.mounted
    BY <2>2, LinkFieldsIs, OthersIs
  <2>4. CASE ~OK(g)
    <3>1. CreateChain(s, c) = g
      BY <2>1, <2>4
    <3> QED BY <2>2, <2>3, <2>4, <3>1
  <2>5. CASE OK(g)
    <3>0. /\ c \in Clusters /\ Link(g, c) = VL(s)[c] /\ VL(s) \in LinkFcns
          /\ CreateChain(s, c) = a
      BY <2>1, <2>2, <2>5, Opened1
    <3>1. CASE Link(g, c) < 2
      <4> DEFINE x == [g EXCEPT !.res = "INT_ERR"]
      <4>0. DOMAIN g = Fields
        BY <2>2 DEF MI, Base
      <4>1. /\ DOMAIN x = Fields /\ Others(g, x, {"res"}) /\ x.res = "INT_ERR" /\ ~OK(x)
        BY <4>0 DEF Fields, Others, OK
      <4>2. CreateChain(s, c) = x
        BY <3>0, <3>1 DEF Fail
      <4> HIDE DEF x
      <4>3. /\ x.disk = g.disk /\ x.sect = g.sect /\ x.val = g.val /\ x.dirty = g.dirty
            /\ x.mounted = g.mounted /\ x.free = g.free /\ x.last = g.last /\ x.fsi = g.fsi
            /\ x.past = g.past
        BY <4>1 DEF Others, Fields
      <4>4. x.free \in Int /\ x.last \in Int /\ x.fsi \in BOOLEAN /\ x.res \in Results
        BY <2>2, <4>1, <4>3 DEF MI, Base, Results
      <4>5. MI(x, T, V, io, cur) /\ VL(x) = VL(g) /\ VD(x) = VD(g)
        BY <2>2, <4>1, <4>3, <4>4, SameCard
      <4>6. Others(s, x, LinkFields)
        BY <2>3, <4>1 DEF Others, LinkFields, CardFields
      <4> QED BY <2>2, <2>3, <4>1, <4>2, <4>3, <4>5, <4>6
    <3>2. CASE Link(g, c) \in Clusters
      <4> DEFINE x == [g EXCEPT !.got = Link(g, c)]
      <4>1. CreateChain(s, c) = x
        BY <3>0, <3>2, Numbers
      <4>2. /\ MI(x, T, V, io, cur) /\ VL(x) = VL(s) /\ VD(x) = VD(s)
            /\ Others(s, x, LinkFields) /\ x.mounted /\ x.got = VL(s)[c]
        BY <1>a, <2>2, <2>3, <3>0
      <4> HIDE DEF x
      <4>3. Extended(s, x, c, io)
        BY <1>2, <3>0, <3>2, <4>2, Numbers DEF Extended
      <4> QED BY <3>0, <3>2, <4>1, <4>2, <4>3, Numbers
    <3>3. CASE ~(Link(g, c) < 2) /\ Link(g, c) \notin Clusters
      <4>1. VL(g)[c] = Eoc
        BY <2>2, <3>0, <3>3, Numbers DEF LinkFcns
      <4>2. CASE g.free = 0
        <5>1. CreateChain(s, c) = [g EXCEPT !.got = 0]
          BY <3>0, <3>3, <4>2
        <5> QED BY <1>a, <2>2, <2>3, <5>1
      <4>3. CASE g.free # 0
        <5> DEFINE x == Stretch(g, c)
        <5>1. CreateChain(s, c) = x
          BY <3>0, <3>3, <4>3
        <5>2. /\ MI(x, T, V, io, cur) /\ VD(x) = VD(g)
              /\ Others(g, x, LinkFields) /\ x.mounted
              /\ OK(x) /\ x.got = 0 => VL(x) = VL(g)
              /\ OK(x) /\ x.got # 0 => Fresh(g, x, c, io)
          BY <2>2, <2>3, <2>5, <3>0, <4>1, StretchIs
        <5> HIDE DEF x
        <5>3. OK(x) /\ x.got # 0 => Extended(s, x, c, io)
          BY <2>2, <3>0, <5>2, FreshLike DEF Extended, Fresh
        <5> QED BY <2>2, <2>3, <5>1, <5>2, <5>3, OthersIs
      <4> QED BY <4>2, <4>3
    <3> QED BY <3>1, <3>2, <3>3
  <2> QED BY <2>4, <2>5
<1> QED BY <1>1, <1>2

(***************************************************************************)
(* The walk through the directory, which takes a turn for a cluster.       *)
(***************************************************************************)
WalkFields == WinFields \cup {"at", "here", "got"}
NoHit(D, S, names) == \A x \in S : \A i \in 1 .. DirPerSector : D[x][i].name \notin names
Hit(L, D, p, names) ==
  /\ p \in Places /\ p[1] \in DOMAIN D /\ At(D, p).name \in names
  /\ \A i \in 1 .. DirPerSector : i < p[2] => D[p[1]][i].name \notin names
  /\ NoHit(D, DOMAIN D \ Chain(L, p[1]), names)

(* Where the walk is after k turns, and where it has come to.              *)
Walking(a, L, D, names, k) ==
  /\ a.at = None /\ a.here \in DOMAIN D
  /\ NoHit(D, DOMAIN D \ Chain(L, a.here), names)
  /\ Cardinality(Chain(L, a.here)) + k <= TopCluster - 1
Walked(a, L, D, names) ==
  \/ Hit(L, D, a.at, names) /\ a.sect = a.at[1]
  \/ /\ a.at = None /\ NoHit(D, DOMAIN D, names)
     /\ a.got \in Chain(L, Root) /\ L[a.got] = Eoc

LEMMA WalkTurnIs ==
  ASSUME NEW s, NEW T, NEW V, NEW io, NEW cur, MI(s, T, V, io, cur), OK(s), Whole(s), NEW names,
         NEW k \in Nat, s.here # 0, Walking(s, VL(s), VD(s), names, k)
  PROVE  LET a == WalkTurn(s, names)
         IN /\ MI(a, T, V, io, cur) /\ VL(a) = VL(s) /\ VD(a) = VD(s)
            /\ Others(s, a, WalkFields)
            /\ OK(a) => \/ a.here # 0 /\ Walking(a, VL(s), VD(s), names, k + 1)
                        \/ a.here = 0 /\ Walked(a, VL(s), VD(s), names)
<1> DEFINE L == VL(s)
           D == VD(s)
           h == s.here
           m == MoveWindow(s, h)
           x == [m EXCEPT !.at = <<s.here, Min(Hits(m, names))>>, !.here = 0]
           b == GetFat(m, h)
           z == [b EXCEPT !.here = Link(b, h)]
           w == [b EXCEPT !.got = h, !.here = 0]
           y == IF Link(b, h) < 2 THEN Fail(b, "INT_ERR") ELSE IF Link(b, h) \in Clusters THEN z ELSE w
<1>1. WalkTurn(s, names) =
        IF OK(m) THEN IF Hits(m, names) # {} THEN x ELSE IF OK(b) THEN y ELSE b ELSE m
  BY DEF WalkTurn, Then
<1>2. /\ DOMAIN D = Chain(L, Root) /\ Wired(L) /\ L \in LinkFcns /\ D = Dir(View(s))
      /\ h \in DOMAIN D /\ h \in Slots(View(s)) /\ h \in Clusters
      /\ \A c \in DOMAIN D : D[c] = View(s)[c]
  BY Opened1 DEF Whole, Walking, VD, Dir, Slots
<1>3. /\ MI(m, T, V, io, cur) /\ View(m) = View(s) /\ VL(m) = L /\ VD(m) = D
      /\ Others(s, m, WinFields)
      /\ OK(m) => m.sect = h /\ m.val = D[h]
  BY <1>2, MoveWindowIs
<1> HIDE DEF m
<1>4. Others(s, m, WalkFields) /\ m.at = s.at /\ m.here = h /\ m.got = s.got /\ DOMAIN m = Fields
  BY <1>3, OthersIs DEF Others, WalkFields, WinFields, MI, Base
<1>5. CASE ~OK(m)
  <2>1. WalkTurn(s, names) = m
    BY <1>1, <1>5
  <2> QED BY <1>3, <1>4, <1>5, <2>1
<1>6. CASE OK(m) /\ Hits(m, names) # {}
  <2> DEFINE H == Hits(m, names)
             j == Min(H)
  <2>1. H \subseteq 1 .. DirPerSector /\ H = {i \in 1 .. DirPerSector : D[h][i].name \in names}
    BY <1>3, <1>6 DEF Hits
  <2>2. j \in H /\ \A i \in H : j <= i
    <3>1. H \subseteq Nat
      BY <2>1, Numbers
    <3> HIDE DEF H
    <3>2. \E i \in H : \A k1 \in H : i <= k1
      BY <1>6, <3>1, Least DEF H
    <3> QED BY <3>2 DEF Min
  <2> HIDE DEF j, H
  <2>3. DOMAIN x = Fields /\ Others(m, x, {"at", "here"}) /\ x.at = <<h, j>> /\ x.here = 0
    BY <1>4 DEF Fields, Others, j, H
  <2>4. WalkTurn(s, names) = x
    BY <1>1, <1>6
  <2> HIDE DEF x
  <2>5. Others(m, x, OwnFields) /\ Others(m, x, WalkFields)
    BY <2>3 DEF Others, OwnFields, WalkFields
  <2>6. MI(x, T, V, io, cur) /\ VL(x) = L /\ VD(x) = D /\ x.sect = h
    BY <1>3, <1>6, <2>3, <2>5, OwnIs
  <2>7. j \in 1 .. DirPerSector /\ D[h][j].name \in names
        /\ \A i \in 1 .. DirPerSector : i < j => D[h][i].name \notin names
    BY <2>1, <2>2
  <2>8. Hit(L, D, x.at, names) /\ x.sect = x.at[1]
    <3>1. x.at[1] = h /\ x.at[2] = j /\ x.at \in Places
      BY <1>2, <2>3, <2>7 DEF Places
    <3>2. NoHit(D, DOMAIN D \ Chain(L, h), names)
      BY DEF Walking
    <3> QED BY <1>2, <2>6, <2>7, <3>1, <3>2 DEF Hit, At
  <2>9. Others(s, x, WalkFields)
    BY <1>4, <2>5, OthersIs
  <2> QED BY <2>3, <2>4, <2>6, <2>8, <2>9 DEF Walked
<1>7. CASE OK(m) /\ Hits(m, names) = {}
  <2>1. /\ MI(b, T, V, io, cur) /\ VL(b) = L /\ VD(b) = D
        /\ Others(m, b, WinFields)
        /\ OK(b) => Link(b, h) = L[h]
    BY <1>3, <1>7, GetFatIs
  <2> HIDE DEF b
  <2>2. Others(s, b, WalkFields) /\ b.at = None /\ b.here = h /\ DOMAIN b = Fields
    BY <1>4, <2>1, OthersIs DEF Others, WalkFields, WinFields, MI, Base, Walking
  <2>3. NoHit(D, {h}, names)
    BY <1>3, <1>7 DEF Hits, NoHit
  <2>4. NoHit(D, DOMAIN D \ Chain(L, h), names)
    BY DEF Walking
  <2>5. CASE ~OK(b)
    <3>1. WalkTurn(s, names) = b
      BY <1>1, <1>7, <2>5
    <3> QED BY <2>1, <2>2, <2>5, <3>1
  <2>6. CASE OK(b) /\ Link(b, h) < 2
    <3> DEFINE f == [b EXCEPT !.res = "INT_ERR"]
    <3>1. DOMAIN f = Fields /\ Others(b, f, {"res"}) /\ f.res = "INT_ERR" /\ ~OK(f)
      BY <2>2 DEF Fields, Others, OK
    <3>2. WalkTurn(s, names) = f
      BY <1>1, <1>7, <2>6 DEF Fail
    <3> HIDE DEF f
    <3>3. /\ f.disk = b.disk /\ f.sect = b.sect /\ f.val = b.val /\ f.dirty = b.dirty
          /\ f.mounted = b.mounted /\ f.free = b.free /\ f.last = b.last /\ f.fsi = b.fsi
          /\ f.past = b.past
      BY <3>1 DEF Others, Fields
    <3>4. f.free \in Int /\ f.last \in Int /\ f.fsi \in BOOLEAN /\ f.res \in Results
      BY <2>1, <3>1, <3>3 DEF MI, Base, Results
    <3>5. MI(f, T, V, io, cur) /\ VL(f) = VL(b) /\ VD(f) = VD(b)
      BY <2>1, <3>1, <3>3, <3>4, SameCard
    <3>6. Others(s, f, WalkFields)
      BY <2>2, <3>1 DEF Others, WalkFields, WinFields
    <3> QED BY <2>1, <3>1, <3>2, <3>5, <3>6
  <2>7. CASE OK(b) /\ ~(Link(b, h) < 2) /\ Link(b, h) \in Clusters
    <3> DEFINE n == L[h]
    <3>1. DOMAIN z = Fields /\ Others(b, z, {"here"}) /\ z.here = n
      BY <2>1, <2>2, <2>7 DEF Fields, Others
    <3>2. WalkTurn(s, names) = z
      BY <1>1, <1>7, <2>7
    <3> HIDE DEF z
    <3>3. Others(b, z, OwnFields) /\ Others(b, z, WalkFields) /\ z.at = None
      BY <2>2, <3>1 DEF Others, OwnFields, WalkFields, Fields
    <3>4. MI(z, T, V, io, cur) /\ VL(z) = L /\ VD(z) = D
      BY <2>1, <3>1, <3>3, OwnIs
    <3>5. Others(s, z, WalkFields)
      BY <2>2, <3>3, OthersIs
    <3>6. n \in Clusters /\ n \in DOMAIN D /\ Chain(L, h) = {h} \cup Chain(L, n)
      BY <1>2, <2>1, <2>7, ChainIs, ChainNext DEF Follows, Wired, First
    <3>7. Cardinality(Chain(L, h)) = Cardinality(Chain(L, n)) + 1
      BY <1>2, <3>6, ChainEnds DEF Wired
    <3>8. NoHit(D, DOMAIN D \ Chain(L, n), names)
      BY <2>3, <2>4, <3>6 DEF NoHit
    <3>9. Cardinality(Chain(L, n)) + (k + 1) <= TopCluster - 1
      BY <3>7, ChainSize, Numbers DEF Walking
    <3>10. Walking(z, L, D, names, k + 1)
      BY <3>1, <3>3, <3>6, <3>8, <3>9 DEF Walking
    <3>11. n # 0
      BY <3>6, Numbers
    <3> QED BY <3>1, <3>2, <3>4, <3>5, <3>10, <3>11
  <2>8. CASE OK(b) /\ ~(Link(b, h) < 2) /\ Link(b, h) \notin Clusters
    <3>1. DOMAIN w = Fields /\ Others(b, w, {"got", "here"}) /\ w.here = 0 /\ w.got = h
      BY <2>2 DEF Fields, Others
    <3>2. WalkTurn(s, names) = w
      BY <1>1, <1>7, <2>8
    <3> HIDE DEF w
    <3>3. Others(b, w, OwnFields) /\ Others(b, w, WalkFields) /\ w.at = None
      BY <2>2, <3>1 DEF Others, OwnFields, WalkFields, Fields
    <3>4. MI(w, T, V, io, cur) /\ VL(w) = L /\ VD(w) = D
      BY <2>1, <3>1, <3>3, OwnIs
    <3>5. Others(s, w, WalkFields)
      BY <2>2, <3>3, OthersIs
    <3>6. L[h] = Eoc
      BY <1>2, <2>1, <2>8, Numbers DEF LinkFcns
    <3>7. Chain(L, h) = {h}
      BY <1>2, <3>6, ChainNext, NoChain, Numbers
    <3>8. NoHit(D, DOMAIN D, names)
      BY <2>3, <2>4, <3>7 DEF NoHit
    <3>9. Walked(w, L, D, names)
      BY <1>2, <3>1, <3>3, <3>6, <3>8 DEF Walked
    <3> QED BY <3>1, <3>2, <3>4, <3>5, <3>9
  <2> QED BY <2>5, <2>6, <2>7, <2>8
<1> QED BY <1>5, <1>6, <1>7

(* The turns of the walk.                                                  *)
WalkStep(a, names) == Then(a, LAMBDA b : WalkTurn(b, names))
WalkRuns(s, names, n) == Repeat(s, LAMBDA a : WalkStep(a, names), n)
WalkRan(s, names, n) ==
  \E f : /\ f[0] = s /\ \A k \in 0 .. n - 1 : f[k + 1] = WalkStep(f[k], names)
         /\ WalkRuns(s, names, n) = f[n]
LEMMA WalkRun ==
  ASSUME NEW s, NEW n \in Nat, NEW names
  PROVE  WalkRan(s, names, n)
<1> DEFINE Run(f, m) == f = [k \in 0 .. m |-> IF k = 0 THEN s ELSE WalkStep(f[k - 1], names)]
           S == {m \in Nat : \E f : Run(f, m)}
<1> HIDE DEF WalkStep
<1>1. 0 \in S
  <2>1. Run([k \in 0 .. 0 |-> s], 0)
    OBVIOUS
  <2> QED BY <2>1
<1>2. ASSUME NEW m \in Nat, m \in S PROVE m + 1 \in S
  <2>1. PICK f : Run(f, m)
    BY <1>2
  <2> DEFINE g == [k \in 0 .. m + 1 |-> IF k <= m THEN f[k] ELSE WalkStep(f[m], names)]
  <2>2. Run(g, m + 1)
    <3>1. ASSUME NEW k \in 0 .. m + 1 PROVE g[k] = IF k = 0 THEN s ELSE WalkStep(g[k - 1], names)
      <4>1. CASE k = m + 1
        BY <4>1
      <4>2. CASE k <= m
        BY <4>2, <2>1
      <4> QED BY <4>1, <4>2
    <3> QED BY <3>1
  <2> HIDE DEF g, Run
  <2> QED BY <2>2
<1>3. n \in S
  <2> HIDE DEF S
  <2> QED BY <1>1, <1>2, UpTo
<1>4. PICK g : Run(g, n)
  BY <1>3
<1> DEFINE after == CHOOSE f : Run(f, n)
<1>5. Run(after, n)
  BY <1>4
<1>6. WalkRuns(s, names, n) = after[n]
  BY DEF Repeat, WalkRuns
<1>7. after[0] = s /\ \A k \in 0 .. n - 1 : after[k + 1] = WalkStep(after[k], names)
  <2> HIDE DEF after
  <2> QED BY <1>5
<1> QED BY <1>6, <1>7 DEF WalkRan

LEMMA WalkIs ==
  ASSUME NEW s, NEW T, NEW V, NEW io, NEW cur, MI(s, T, V, io, cur), OK(s), Whole(s), NEW names
  PROVE  LET a == Walk(s, names)
         IN /\ MI(a, T, V, io, cur) /\ VL(a) = VL(s) /\ VD(a) = VD(s)
            /\ Others(s, a, WalkFields)
            /\ OK(a) => Walked(a, VL(s), VD(s), names)
<1> DEFINE L == VL(s)
           D == VD(s)
           z == [s EXCEPT !.at = None, !.here = Root]
           I(a, k) == /\ MI(a, T, V, io, cur) /\ VL(a) = L /\ VD(a) = D
                      /\ Others(s, a, WalkFields)
                      /\ OK(a) => \/ a.here # 0 /\ Walking(a, L, D, names, k)
                                  \/ a.here = 0 /\ Walked(a, L, D, names)
<1>0. DOMAIN s = Fields /\ DOMAIN D = Chain(L, Root) /\ Root \in Chain(L, Root) /\ Root # 0
  BY ChainIs, Numbers DEF MI, Base, Whole
<1>1. DOMAIN z = Fields /\ Others(s, z, {"at", "here"}) /\ z.here = Root /\ z.at = None
  BY <1>0 DEF Fields, Others
<1>2. Walk(s, names) = WalkRuns(z, names, TopCluster)
  BY DEF Walk, Repeat, WalkStep, WalkRuns
<1> HIDE DEF z
<1>3. I(z, 0)
  <2>1. Others(s, z, OwnFields) /\ Others(s, z, WalkFields)
    BY <1>1 DEF Others, OwnFields, WalkFields
  <2>2. MI(z, T, V, io, cur) /\ VL(z) = L /\ VD(z) = D
    BY <1>1, <2>1, OwnIs
  <2>3. Walking(z, L, D, names, 0)
    BY <1>0, <1>1, ChainSize DEF Walking, NoHit
  <2> QED BY <1>0, <1>1, <2>1, <2>2, <2>3
<1>4. ASSUME NEW a, NEW k \in Nat, I(a, k) PROVE I(WalkStep(a, names), k + 1)
  <2>1. CASE ~OK(a)
    BY <1>4, <2>1 DEF WalkStep, Then
  <2>2. CASE OK(a) /\ a.here = 0
    <3>1. WalkStep(a, names) = a
      BY <2>2 DEF WalkStep, Then, WalkTurn
    <3> QED BY <1>4, <2>2, <3>1
  <2>3. CASE OK(a) /\ a.here # 0
    <3> DEFINE b == WalkTurn(a, names)
    <3>1. WalkStep(a, names) = b
      BY <2>3 DEF WalkStep, Then
    <3>2. Whole(a) /\ Walking(a, VL(a), VD(a), names, k)
      BY <1>4, <2>3 DEF Whole
    <3>3. /\ MI(b, T, V, io, cur) /\ VL(b) = VL(a) /\ VD(b) = VD(a)
          /\ Others(a, b, WalkFields)
          /\ OK(b) => \/ b.here # 0 /\ Walking(b, VL(a), VD(a), names, k + 1)
                      \/ b.here = 0 /\ Walked(b, VL(a), VD(a), names)
      BY <1>4, <2>3, <3>2, WalkTurnIs
    <3> HIDE DEF b
    <3>4. Others(s, b, WalkFields)
      BY <1>4, <3>3 DEF Others
    <3> QED BY <1>4, <3>1, <3>3, <3>4
  <2> QED BY <2>1, <2>2, <2>3
<1>5. PICK f : /\ f[0] = z /\ \A k \in 0 .. TopCluster - 1 : f[k + 1] = WalkStep(f[k], names)
               /\ WalkRuns(z, names, TopCluster) = f[TopCluster]
  <2>1. TopCluster \in Nat
    BY Numbers
  <2>2. WalkRan(z, names, TopCluster)
    BY <2>1, WalkRun
  <2> QED BY <2>2 DEF WalkRan
<1> DEFINE S == {k \in 0 .. TopCluster : I(f[k], k)}
<1> HIDE DEF I
<1>6. 0 \in S
  BY <1>3, <1>5, Numbers
<1>7. ASSUME NEW k \in 0 .. TopCluster - 1, k \in S PROVE k + 1 \in S
  <2>1. k + 1 \in 0 .. TopCluster /\ k \in Nat /\ I(f[k], k) /\ f[k + 1] = WalkStep(f[k], names)
    BY <1>5, <1>7, Numbers
  <2>2. I(f[k + 1], k + 1)
    BY <1>4, <2>1
  <2> QED BY <2>1, <2>2
<1>8. TopCluster \in S
  <2> HIDE DEF S
  <2> QED BY <1>6, <1>7, UpTo, Numbers
<1>9. I(Walk(s, names), TopCluster)
  BY <1>2, <1>5, <1>8
<1>10. ASSUME NEW a, Walking(a, L, D, names, TopCluster), Wired(L) PROVE FALSE
  <2>1. a.here \in Clusters
    BY <1>0, <1>10, ChainClusters DEF Walking
  <2> QED BY <1>10, <2>1, ChainSize, Numbers DEF Walking
<1> QED BY <1>9, <1>10, Opened1 DEF I

LEMMA FailIs ==
  ASSUME NEW s, NEW T, NEW V, NEW io, NEW cur, MI(s, T, V, io, cur), NEW r \in Results \ {"OK"}
  PROVE  LET a == Fail(s, r)
         IN /\ MI(a, T, V, io, cur) /\ VL(a) = VL(s) /\ VD(a) = VD(s)
            /\ Others(s, a, {"res"}) /\ ~OK(a) /\ a.mounted = s.mounted
<1> DEFINE f == [s EXCEPT !.res = r]
<1>0. DOMAIN s = Fields
  BY DEF MI, Base
<1>1. DOMAIN f = Fields /\ Others(s, f, {"res"}) /\ f.res = r /\ ~OK(f) /\ Fail(s, r) = f
  BY <1>0 DEF Fields, Others, OK, Fail
<1> HIDE DEF f
<1>2. /\ f.disk = s.disk /\ f.sect = s.sect /\ f.val = s.val /\ f.dirty = s.dirty
      /\ f.mounted = s.mounted /\ f.free = s.free /\ f.last = s.last /\ f.fsi = s.fsi
      /\ f.past = s.past
  BY <1>1 DEF Others, Fields
<1>3. f.free \in Int /\ f.last \in Int /\ f.fsi \in BOOLEAN /\ f.res \in Results
  BY <1>1, <1>2 DEF MI, Base
<1>4. MI(f, T, V, io, cur) /\ VL(f) = VL(s) /\ VD(f) = VD(s)
  BY <1>1, <1>2, <1>3, SameCard
<1> QED BY <1>1, <1>2, <1>4

(***************************************************************************)
(* The directory's operations.                                             *)
(***************************************************************************)
DirFields == CardFields \cup {"got", "here", "at"}
LEMMA DirFieldsIs ==
  ASSUME NEW s, NEW a
  PROVE  /\ Others(s, a, WalkFields) => Others(s, a, DirFields) /\ a.mounted = s.mounted
         /\ Others(s, a, LinkFields) => Others(s, a, DirFields)
         /\ Others(s, a, WinFields) => Others(s, a, DirFields)
         /\ Others(s, a, CardFields) => Others(s, a, DirFields)
         /\ Others(s, a, RemFields) => Others(s, a, DirFields) /\ a.at = s.at /\ a.got = s.got
         /\ Others(s, a, {"res"}) => Others(s, a, DirFields)
         /\ Others(s, a, {"at"}) => Others(s, a, DirFields)
         /\ Others(s, a, {"val", "dirty"}) => Others(s, a, DirFields)
         /\ Others(s, a, {"val", "dirty"}) => /\ a.mounted = s.mounted /\ a.at = s.at
                                              /\ a.sect = s.sect /\ a.got = s.got
         /\ Others(s, a, DirFields) => a.fp = s.fp /\ a.out = s.out /\ a.rest = s.rest
BY DEF Others, Fields, WalkFields, WinFields, LinkFields, CardFields, DirFields, RemFields

(* A place in the directory for one more entry.                            *)
Room(a, L, D) ==
  /\ a.at \in Places /\ a.at[1] \in DOMAIN D /\ a.sect = a.at[1]
  /\ At(D, a.at).name \in {Erased, None} /\ UsedUpTo(L, D, a.at)

LEMMA LengthenIs ==
  ASSUME NEW s, NEW T, NEW V, NEW io, NEW cur, MI(s, T, V, io, cur), OK(s), s.mounted, Whole(s),
         s.got \in Chain(VL(s), Root), VL(s)[s.got] = Eoc, NoHit(VD(s), DOMAIN VD(s), {Erased, None})
  PROVE  LET a == Lengthen(s)
         IN /\ MI(a, T, V, io, cur) /\ a.mounted /\ Others(s, a, DirFields)
            /\ OK(a) => /\ Room(a, VL(a), VD(a)) /\ Live(VD(a)) = Live(VD(s))
                        /\ \A p \in Live(VD(s)) : At(VD(a), p) = At(VD(s), p)
<1> DEFINE c == s.got
           n == CreateChain(s, c)
           m == DirClear(n, n.got)
           x == [m EXCEPT !.at = <<n.got, 1>>]
<1>1. Lengthen(s) = IF OK(n) THEN IF n.got = 0 THEN Fail(n, "DENIED") ELSE IF OK(m) THEN x ELSE m ELSE n
  BY DEF Lengthen, Then
<1>2. /\ MI(n, T, V, io, cur) /\ VD(n) = VD(s) /\ Others(s, n, LinkFields) /\ n.mounted
      /\ OK(n) /\ n.got # 0 => Extended(s, n, c, io)
  BY CreateChainIs
<1> HIDE DEF n
<1>3. Others(s, n, DirFields)
  BY <1>2, DirFieldsIs
<1>4. CASE ~OK(n)
  BY <1>1, <1>2, <1>3, <1>4
<1>5. CASE OK(n) /\ n.got = 0
  <2> DEFINE f == Fail(n, "DENIED")
  <2>1. Lengthen(s) = f
    BY <1>1, <1>5
  <2>2. /\ MI(f, T, V, io, cur) /\ Others(n, f, {"res"}) /\ ~OK(f) /\ f.mounted = n.mounted
    BY <1>2, FailIs DEF Results
  <2> HIDE DEF f
  <2> QED BY <1>2, <1>3, <2>1, <2>2, DirFieldsIs, OthersIs
<1>6. CASE OK(n) /\ n.got # 0
  <2> DEFINE L == VL(n)
             D == VD(s)
             g == n.got
  <2>1. /\ Fresh(s, n, c, io) /\ g \in Clusters /\ VL(s)[g] = 0 /\ L[g] = Eoc /\ L[c] = g
        /\ Chain(VL(s), Root) \subseteq Chain(L, Root)
    <3>1. c \in Clusters /\ c # 0
      BY ChainClusters, Numbers
    <3>2. Wired(VL(s))
      BY Opened1
    <3> QED BY <1>2, <1>6, <3>1, <3>2, Numbers DEF Extended, Fresh, Wired
  <2>2. g \in Chain(L, Root)
    BY <2>1, ChainIs, Numbers DEF Follows
  <2>3. g \notin DOMAIN D
    BY <2>1, Opened1, FirstUsed DEF Whole
  <2>4. /\ MI(m, T, V, io, cur) /\ VL(m) = L /\ Others(n, m, WinFields)
        /\ ~OK(m) => VD(m) = D
        /\ OK(m) => VD(m) = Lengthened(D, g) /\ m.sect = g
    BY <1>2, <1>6, <2>1, <2>2, <2>3, DirClearIs
  <2> HIDE DEF m
  <2>5. Others(s, m, DirFields) /\ m.mounted
    BY <1>2, <1>3, <2>4, OthersIs, DirFieldsIs
  <2>6. CASE ~OK(m)
    BY <1>1, <1>6, <2>4, <2>5, <2>6
  <2>7. CASE OK(m)
    <3>0. DOMAIN m = Fields
      BY <2>4 DEF MI, Base
    <3>1. DOMAIN x = Fields /\ Others(m, x, {"at"}) /\ x.at = <<g, 1>>
      BY <3>0 DEF Fields, Others
    <3>2. Lengthen(s) = x
      BY <1>1, <1>6, <2>7
    <3> HIDE DEF x
    <3>3. Others(m, x, OwnFields) /\ Others(m, x, DirFields)
      BY <3>1, DirFieldsIs DEF Others, OwnFields
    <3>4. MI(x, T, V, io, cur) /\ VL(x) = L /\ VD(x) = Lengthened(D, g) /\ x.mounted /\ x.sect = g
      BY <2>4, <2>5, <2>7, <3>1, <3>3, OwnIs
    <3>5. Others(s, x, DirFields)
      BY <2>5, <3>3, OthersIs
    <3>6. TreeI(L, D, V) /\ Apart(L)
      BY <1>2, Opened1 DEF Wired
    <3>7. /\ Live(Lengthened(D, g)) = Live(D)
          /\ \A p \in Live(D) : At(Lengthened(D, g), p) = At(D, p)
      BY <2>1, <2>2, <2>3, <3>6, LengthTree
    <3>8. Room(x, L, Lengthened(D, g))
      <4>1. x.at \in Places /\ x.at[1] = g /\ x.at[2] = 1
        BY <2>1, <3>1, Numbers DEF Places
      <4>2. g \in DOMAIN Lengthened(D, g) /\ Lengthened(D, g)[g] = EmptyDir
        BY DEF Lengthened
      <4>3. At(Lengthened(D, g), x.at).name = None
        BY <4>1, <4>2, Numbers DEF At, EmptyDir, NoEntry
      <4>4. ASSUME NEW y \in DOMAIN Lengthened(D, g), L[y] = g, NEW i \in 1 .. DirPerSector
            PROVE  Lengthened(D, g)[y][i].name # None
        <5>1. y \in DOMAIN D
          BY <2>1, <4>4, Numbers DEF Lengthened
        <5>2. Lengthened(D, g)[y] = D[y]
          BY <2>3, <5>1 DEF Lengthened
        <5> QED BY <4>4, <5>1, <5>2 DEF NoHit
      <4> QED BY <3>4, <4>1, <4>2, <4>3, <4>4, Numbers DEF Room, UsedUpTo
    <3> QED BY <3>2, <3>4, <3>5, <3>7, <3>8
  <2> QED BY <2>6, <2>7
<1> QED BY <1>4, <1>5, <1>6

(* Behind the first entry that was never used no other was.                *)
LEMMA FirstNone ==
  ASSUME NEW L, NEW D, NEW T, TreeI(L, D, T), DOMAIN D = Chain(L, Root),
         NEW p, p \in Places, p[1] \in DOMAIN D, At(D, p).name = None, NEW names,
         Hit(L, D, p, names)
  PROVE  \A q \in Places : q[1] \in DOMAIN D /\ At(D, q).name \in names => At(D, q).name = None
                           \/ q = p
<1> DEFINE C == Chain(L, p[1])
           S == {x \in C : x = p[1] \/ \A j \in 1 .. DirPerSector : D[x][j].name = None}
<1>1. p[1] \in Clusters /\ p[2] \in 1 .. DirPerSector /\ p = <<p[1], p[2]>> /\ p[1] \in C
      /\ C \subseteq Chain(L, Root)
  BY ChainIs, ChainWithin DEF Places
<1>2. D[p[1]][p[2]].name = None
  BY DEF At
<1>3. ASSUME NEW x \in S, L[x] \in Clusters PROVE L[x] \in S
  <2>1. x \in Clusters /\ L[x] \in C /\ L[x] \in DOMAIN D /\ x \in DOMAIN D
    BY <1>1, <1>3, ChainIs, ChainClusters, ChainWithin DEF Follows
  <2>2. \E i \in 1 .. DirPerSector : D[x][i].name = None
    BY <1>1, <1>2, <1>3, Numbers
  <2>3. \A j \in 1 .. DirPerSector : D[L[x]][j].name = None
    BY <2>1, <2>2 DEF TreeI, Filled
  <2> QED BY <2>1, <2>3
<1>4. C \subseteq S
  <2>1. S \in SUBSET Clusters /\ p[1] \in S /\ Follows(L, S)
    BY <1>1, <1>3, ChainClusters DEF Follows
  <2> QED BY <1>1, <2>1, ChainIs
<1>5. ASSUME NEW q \in Places, q[1] \in DOMAIN D, At(D, q).name \in names
      PROVE  At(D, q).name = None \/ q = p
  <2>1. q[1] \in Clusters /\ q[2] \in 1 .. DirPerSector /\ q = <<q[1], q[2]>>
    BY DEF Places
  <2>2. q[1] \in C
    BY <1>5, <2>1 DEF Hit, NoHit, At
  <2>3. CASE q[1] # p[1]
    BY <1>4, <2>1, <2>2, <2>3 DEF At
  <2>4. CASE q[1] = p[1] /\ q[2] < p[2]
    BY <1>5, <2>1, <2>4 DEF Hit, At
  <2>5. CASE q[1] = p[1] /\ q[2] > p[2]
    BY <1>1, <1>2, <1>5, <2>1, <2>5 DEF TreeI, Filled, At
  <2>6. CASE q[1] = p[1] /\ q[2] = p[2]
    BY <1>1, <2>1, <2>6
  <2> QED BY <1>1, <2>1, <2>3, <2>4, <2>5, <2>6, Numbers
<1> QED BY <1>5

(* What a search for a name finds.                                         *)
Sought(a, D, name) ==
  \/ a.at = None /\ \A p \in Live(D) : At(D, p).name # name
  \/ a.at \in Live(D) /\ At(D, a.at).name = name /\ a.sect = a.at[1]

LEMMA DirFindIs ==
  ASSUME NEW s, NEW T, NEW V, NEW io, NEW cur, MI(s, T, V, io, cur), OK(s), Whole(s),
         NEW name \in Names
  PROVE  LET a == DirFind(s, name)
         IN /\ MI(a, T, V, io, cur) /\ VL(a) = VL(s) /\ VD(a) = VD(s)
            /\ Others(s, a, WalkFields) /\ a.mounted = s.mounted
            /\ OK(a) => Sought(a, VD(s), name)
<1> DEFINE L == VL(s)
           D == VD(s)
           names == {name, None}
           w == Walk(s, names)
           z == [w EXCEPT !.at = None]
<1>1. DirFind(s, name) = IF OK(w) /\ w.at # None /\ DirEntry(w).name = None THEN z ELSE w
  BY DEF DirFind, Then
<1>2. /\ MI(w, T, V, io, cur) /\ VL(w) = L /\ VD(w) = D
      /\ Others(s, w, WalkFields)
      /\ OK(w) => Walked(w, L, D, names)
  BY WalkIs
<1> HIDE DEF w
<1>3. w.mounted = s.mounted /\ DOMAIN w = Fields /\ TreeI(L, D, V) /\ DOMAIN D = Chain(L, Root)
  BY <1>2, DirFieldsIs, Opened1 DEF MI, Base, Whole
<1>4. CASE ~OK(w)
  BY <1>1, <1>2, <1>3, <1>4
<1>5. CASE OK(w) /\ w.at = None
  <2>1. ~Hit(L, D, w.at, names)
    BY <1>5, NoneAssumption DEF Hit, Places
  <2>2. NoHit(D, DOMAIN D, names)
    BY <1>2, <1>5, <2>1 DEF Walked
  <2>3. \A p \in Live(D) : At(D, p).name # name
    BY <2>2 DEF Live, NoHit, At, Places
  <2> QED BY <1>1, <1>2, <1>3, <1>5, <2>3 DEF Sought
<1>6. CASE OK(w) /\ w.at # None
  <2>1. Hit(L, D, w.at, names) /\ w.sect = w.at[1]
    BY <1>2, <1>6 DEF Walked
  <2>2. w.at \in Places /\ w.at[1] \in DOMAIN D /\ At(D, w.at).name \in names
    BY <2>1 DEF Hit
  <2>3. DirEntry(w) = At(D, w.at)
    BY <1>2, <1>6, <2>1, <2>2, DirEntryIs
  <2>4. CASE DirEntry(w).name = None
    <3>1. DOMAIN z = Fields /\ Others(w, z, {"at"}) /\ z.at = None
      BY <1>3 DEF Fields, Others
    <3>2. DirFind(s, name) = z
      BY <1>1, <1>6, <2>4
    <3> HIDE DEF z
    <3>3. Others(w, z, OwnFields) /\ Others(w, z, WalkFields)
      BY <3>1 DEF Others, OwnFields, WalkFields
    <3>4. MI(z, T, V, io, cur) /\ VL(z) = L /\ VD(z) = D /\ z.mounted = s.mounted
      BY <1>2, <1>3, <3>1, <3>3, OwnIs
    <3>5. \A p \in Live(D) : At(D, p).name # name
      <4>1. name # None /\ None \notin Names
        BY NoneAssumption
      <4>2. \A q \in Places : q[1] \in DOMAIN D /\ At(D, q).name \in names => At(D, q).name = None
                           \/ q = w.at
        BY <1>3, <2>1, <2>2, <2>3, <2>4, FirstNone
      <4> QED BY <2>3, <2>4, <4>1, <4>2 DEF Live
    <3>6. Others(s, z, WalkFields)
      BY <1>2, <3>3, OthersIs
    <3> QED BY <3>1, <3>2, <3>4, <3>5, <3>6 DEF Sought
  <2>5. CASE DirEntry(w).name # None
    <3>1. DirFind(s, name) = w
      BY <1>1, <2>5
    <3>2. w.at \in Live(D) /\ At(D, w.at).name = name
      BY <2>2, <2>3, <2>5 DEF Live
    <3> QED BY <1>2, <1>3, <2>1, <3>1, <3>2 DEF Sought
  <2> QED BY <2>4, <2>5
<1> QED BY <1>4, <1>5, <1>6

Born(name) == [NoEntry EXCEPT !.name = name]

LEMMA DirRegisterIs ==
  ASSUME NEW s, NEW T, NEW V, NEW io, NEW cur, NEW name \in Names,
         MI(s, T, V, io, cur), OK(s), s.mounted, Whole(s),
         \A p \in Live(VD(s)) : At(VD(s), p).name # name
  PROVE  LET a == DirRegister(s, name)
         IN /\ MI(a, T, V, io, cur) /\ a.mounted /\ Others(s, a, DirFields)
            /\ OK(a) => /\ a.at \in Places /\ a.at[1] \in DOMAIN VD(a) /\ a.sect = a.at[1]
                        /\ a.at \notin Live(VD(s)) /\ At(VD(a), a.at) = Born(name)
                        /\ Live(VD(a)) = Live(VD(s)) \cup {a.at}
                        /\ \A p \in Live(VD(s)) : At(VD(a), p) = At(VD(s), p)
<1> DEFINE L == VL(s)
           D == VD(s)
           names == {Erased, None}
           w == Walk(s, names)
           g == IF w.at = None THEN Lengthen(w) ELSE w
           e == Born(name)
           x == PokeEntry(g, e)
<1>1. DirRegister(s, name) = IF OK(w) THEN IF OK(g) THEN x ELSE g ELSE w
  BY DEF DirRegister, Then, Born
<1>2. /\ MI(w, T, V, io, cur) /\ VL(w) = L /\ VD(w) = D
      /\ Others(s, w, WalkFields)
      /\ OK(w) => Walked(w, L, D, names)
  BY WalkIs
<1> HIDE DEF w
<1>3. /\ w.mounted /\ Others(s, w, DirFields) /\ DOMAIN w = Fields /\ TreeI(L, D, V) /\ Wired(L)
      /\ DOMAIN D = Chain(L, Root) /\ Whole(w) /\ Erased \notin Names /\ None \notin Names
  BY <1>2, DirFieldsIs, Opened1, NoneAssumption DEF MI, Base, Whole
<1>4. CASE ~OK(w)
  BY <1>1, <1>2, <1>3, <1>4
<1>5. CASE OK(w)
  <2>1. /\ MI(g, T, V, io, cur) /\ g.mounted /\ Others(s, g, DirFields)
        /\ OK(g) => /\ Room(g, VL(g), VD(g)) /\ Live(VD(g)) = Live(D)
                    /\ \A p \in Live(D) : At(VD(g), p) = At(D, p)
    <3>1. CASE w.at = None
      <4>1. ~Hit(L, D, w.at, names)
        BY <3>1, NoneAssumption DEF Hit, Places
      <4>2. NoHit(D, DOMAIN D, names) /\ w.got \in Chain(L, Root) /\ L[w.got] = Eoc
        BY <1>2, <1>5, <4>1 DEF Walked
      <4> DEFINE y == Lengthen(w)
      <4>3. /\ MI(y, T, V, io, cur) /\ y.mounted /\ Others(w, y, DirFields)
            /\ OK(y) => /\ Room(y, VL(y), VD(y)) /\ Live(VD(y)) = Live(VD(w))
                        /\ \A p \in Live(VD(w)) : At(VD(y), p) = At(VD(w), p)
        BY <1>2, <1>3, <1>5, <4>2, LengthenIs
      <4>4. g = y
        BY <3>1
      <4> HIDE DEF y, g
      <4> QED BY <1>2, <1>3, <4>3, <4>4, OthersIs
    <3>2. CASE w.at # None
      <4>1. Hit(L, D, w.at, names) /\ w.sect = w.at[1]
        BY <1>2, <1>5, <3>2 DEF Walked
      <4>2. w.at \in Places /\ w.at[1] \in DOMAIN D /\ At(D, w.at).name \in names
        BY <4>1 DEF Hit
      <4>3. UsedUpTo(L, D, w.at)
        <5>1. ASSUME NEW y \in DOMAIN D, L[y] = w.at[1], NEW i \in 1 .. DirPerSector
              PROVE  D[y][i].name # None
          <6>1. w.at[1] \in Clusters /\ y \in Chain(L, Root)
            BY <1>3, <4>2 DEF Places
          <6>2. y \notin Chain(L, w.at[1])
            BY <1>3, <5>1, <6>1, ChainEnds DEF Wired
          <6> QED BY <4>1, <6>2 DEF Hit, NoHit
        <5>2. \A i \in 1 .. DirPerSector : i < w.at[2] => D[w.at[1]][i].name # None
          BY <4>1 DEF Hit
        <5> QED BY <5>1, <5>2 DEF UsedUpTo
      <4>4. g = w
        BY <3>2
      <4> HIDE DEF g
      <4> QED BY <1>2, <1>3, <4>1, <4>2, <4>3, <4>4 DEF Room
    <3> QED BY <3>1, <3>2
  <2> HIDE DEF g
  <2>2. CASE ~OK(g)
    BY <1>1, <1>5, <2>1, <2>2
  <2>3. CASE OK(g)
    <3> DEFINE K == VL(g)
               E == VD(g)
               p == g.at
    <3>1. /\ p \in Places /\ p[1] \in DOMAIN E /\ g.sect = p[1]
          /\ At(E, p).name \in {Erased, None} /\ UsedUpTo(K, E, p)
      BY <2>1, <2>3 DEF Room
    <3>2. p \notin Live(E) /\ p \notin Live(D) /\ Live(E) = Live(D)
      BY <1>3, <2>1, <2>3, <3>1 DEF Live
    <3>3. TreeI(K, E, V) /\ DirShape(K, E) /\ FilesIn(K, E, io, cur)
      BY <2>1, Opened1 DEF TreeI, MI
    <3>4. e \in Entries /\ e.name = name /\ e.clust = 0 /\ e.size = 0 /\ name # None
      BY <1>3 DEF Entries, NoEntry, Born
    <3> HIDE DEF e
    <3>5. Owns(K, e)
      BY <3>4, ChainSize, Numbers, Times DEF Owns
    <3>6. \A q \in Live(E) \ {p} : Differ(e, At(E, q), V)
      BY <2>1, <2>3, <3>2, <3>4 DEF Differ
    <3>7. \A q, r \in Live(E) \ {p} : q # r => Differ(At(E, q), At(E, r), V)
      BY <3>3 DEF TreeI, Single
    <3>8. TreeI(K, Entered(E, p, e), V)
      BY <3>1, <3>3, <3>4, <3>5, <3>6, <3>7, EntryTree
    <3>9. \A f \in DOMAIN io : io[f].fil.entry # p
      BY <3>2, <3>3 DEF FilesIn, FileIn
    <3>10. FilesIn(K, Entered(E, p, e), io, cur)
      BY <3>1, <3>3, <3>4, <3>9, EntryFiles
    <3>11. T \subseteq T /\ V \subseteq T
      BY <2>1 DEF MI
    <3>12. /\ MI(x, T, V, io, cur) /\ VL(x) = VL(g) /\ VD(x) = Entered(VD(g), g.at, e)
           /\ Others(g, x, {"val", "dirty"}) /\ OK(x)
      BY <2>1, <2>3, <3>1, <3>4, <3>8, <3>10, <3>11, PokeEntryIs
    <3>13. DirRegister(s, name) = x
      BY <1>1, <1>5, <2>3
    <3> HIDE DEF x
    <3>14. /\ x.mounted /\ x.at = p /\ x.sect = p[1] /\ Others(s, x, DirFields)
      BY <2>1, <3>1, <3>12, DirFieldsIs, OthersIs
    <3>15. /\ DOMAIN VD(x) = DOMAIN E
           /\ \A q \in Places : q[1] \in DOMAIN E => At(VD(x), q) = IF q = p THEN e ELSE At(E, q)
           /\ Live(VD(x)) = (Live(E) \ {p}) \cup {p}
      BY <3>1, <3>3, <3>4, <3>12, EnteredIs
    <3>16. \A q \in Live(D) : At(VD(x), q) = At(D, q)
      BY <2>1, <2>3, <3>2, <3>15 DEF Live
    <3>17. At(VD(x), p) = Born(name) /\ Live(VD(x)) = Live(D) \cup {p}
      BY <3>1, <3>2, <3>15 DEF e
    <3> QED BY <3>1, <3>2, <3>12, <3>13, <3>14, <3>15, <3>16, <3>17
  <2> QED BY <2>2, <2>3
<1> QED BY <1>4, <1>5

Erases(s, a, p, T, V, W, io, cur) ==
  /\ a.mounted /\ Others(s, a, DirFields) /\ VL(a) = VL(s)
  /\ ~OK(a) => MI(a, T, V, io, cur)
  /\ OK(a) => /\ MI(a, T, W, io, cur) /\ Live(VD(a)) = Live(VD(s)) \ {p}
              /\ \A q \in Live(VD(a)) : At(VD(a), q) = At(VD(s), q)
(* An entry that no open file has is erased.                               *)
LEMMA DirRemoveIs ==
  ASSUME NEW s, NEW T, NEW V, NEW io, NEW cur, NEW p \in Live(VD(s)), NEW W,
         MI(s, T, V, io, cur), OK(s), s.mounted, \A f \in DOMAIN io : io[f].fil.entry # p,
         W \subseteq T,
         \A q, r \in Live(VD(s)) \ {p} : q # r => Differ(At(VD(s), q), At(VD(s), r), W)
  PROVE  Erases(s, DirRemove(s, p), p, T, V, W, io, cur)
<1> DEFINE L == VL(s)
           D == VD(s)
           z == [s EXCEPT !.at = p]
           m == MoveWindow(z, p[1])
           e == Born(Erased)
           x == PokeEntry(m, e)
<1>1. DirRemove(s, p) = IF OK(m) THEN x ELSE m
  BY DEF DirRemove, Then, Born
<1>0. /\ DOMAIN s = Fields /\ p \in Places /\ p[1] \in DOMAIN D /\ p[1] \in Slots(View(s))
      /\ At(D, p).name \in Names /\ Erased \notin Names /\ None \notin Names /\ Erased # None
      /\ TreeI(L, D, V) /\ DirShape(L, D) /\ Filled(L, D) /\ FilesIn(L, D, io, cur)
  BY Opened1, NoneAssumption DEF MI, Base, Live, TreeI
<1>2. DOMAIN z = Fields /\ Others(s, z, {"at"}) /\ z.at = p
  BY <1>0 DEF Fields, Others
<1> HIDE DEF z
<1>3. Others(s, z, OwnFields) /\ Others(s, z, DirFields)
  BY <1>2, DirFieldsIs DEF Others, OwnFields
<1>4. MI(z, T, V, io, cur) /\ View(z) = View(s) /\ VL(z) = L /\ VD(z) = D /\ z.mounted /\ OK(z)
  BY <1>2, <1>3, OwnIs
<1>5. /\ MI(m, T, V, io, cur) /\ VL(m) = L /\ VD(m) = D
      /\ Others(z, m, WinFields)
      /\ OK(m) => m.sect = p[1]
  BY <1>0, <1>4, MoveWindowIs
<1> HIDE DEF m
<1>6. m.mounted /\ m.at = p /\ Others(s, m, DirFields)
  BY <1>2, <1>3, <1>4, <1>5, OthersIs, DirFieldsIs
<1>7. CASE ~OK(m)
  BY <1>1, <1>5, <1>6, <1>7 DEF Erases
<1>8. CASE OK(m)
  <2>1. e \in Entries /\ e.name = Erased /\ e.clust = 0 /\ e.name # None /\ e.name \notin Names
    BY <1>0 DEF Entries, NoEntry, Born
  <2> HIDE DEF e
  <2>2. UsedUpTo(L, D, p)
    BY <1>0, LiveUsed
  <2>3. TreeI(L, Entered(D, p, e), W)
    BY <1>0, <2>1, <2>2, EntryTree
  <2>4. FilesIn(L, Entered(D, p, e), io, cur)
    BY <1>0, <2>1, EntryFiles
  <2>5. T \subseteq T
    OBVIOUS
  <2>6. /\ MI(x, T, W, io, cur) /\ VL(x) = VL(m) /\ VD(x) = Entered(VD(m), m.at, e)
        /\ Others(m, x, {"val", "dirty"}) /\ OK(x)
    BY <1>0, <1>5, <1>6, <1>8, <2>1, <2>3, <2>4, <2>5, PokeEntryIs
  <2>7. DirRemove(s, p) = x
    BY <1>1, <1>8
  <2> HIDE DEF x
  <2>8. x.mounted /\ Others(s, x, DirFields)
    BY <1>6, <2>6, DirFieldsIs, OthersIs
  <2>9. /\ \A q \in Places : q[1] \in DOMAIN D => At(VD(x), q) = IF q = p THEN e ELSE At(D, q)
        /\ Live(VD(x)) = Live(D) \ {p}
    BY <1>0, <1>5, <1>6, <2>1, <2>6, EnteredIs
  <2>10. \A q \in Live(VD(x)) : At(VD(x), q) = At(D, q)
    BY <2>9 DEF Live
  <2> QED BY <1>5, <2>6, <2>7, <2>8, <2>9, <2>10 DEF Erases
<1> QED BY <1>7, <1>8

(* An entry no open file has has its chain to itself.                      *)
LEMMA Alone ==
  ASSUME NEW L, NEW D, NEW io, NEW cur, TreeI(L, D, {}), FilesIn(L, D, io, cur),
         NEW p \in Live(D), \A f \in DOMAIN io : io[f].fil.entry # p, At(D, p).clust # 0
  PROVE  /\ Begins(L, At(D, p).clust)
         /\ \A q \in Live(D) \ {p} : At(D, q).clust # At(D, p).clust
         /\ \A f \in DOMAIN io : io[f].fil.sclust # At(D, p).clust
<1>1. Begins(L, At(D, p).clust)
  BY DEF TreeI, Owns
<1>2. \A q \in Live(D) \ {p} : At(D, q).clust # At(D, p).clust
  BY DEF TreeI, Single, Differ
<1>3. \A f \in DOMAIN io : io[f].fil.sclust # At(D, p).clust
  BY DEF FilesIn, FileIn
<1> QED BY <1>1, <1>2, <1>3

LEMMA OverwriteIs ==
  ASSUME NEW s, NEW T, NEW io, NEW cur, MI(s, T, {}, io, cur), OK(s), s.mounted,
         s.at \in Live(VD(s)), s.sect = s.at[1], \A f \in DOMAIN io : io[f].fil.entry # s.at
  PROVE  LET a == Overwrite(s)
         IN /\ MI(a, T, {}, io, cur) /\ a.mounted /\ Others(s, a, RemFields)
            /\ OK(a) => /\ a.sect = a.at[1] /\ Live(VD(a)) = Live(VD(s))
                        /\ At(VD(a), a.at).clust = 0 /\ At(VD(a), a.at).size = 0
                        /\ At(VD(a), a.at).name = At(VD(s), s.at).name
<1> DEFINE L == VL(s)
           D == VD(s)
           p == s.at
           e == DirEntry(s)
           c == e.clust
           o == [e EXCEPT !.clust = 0, !.size = 0]
           a == PokeEntry(s, o)
           b == RemoveChain(a, c)
           m == MoveWindow(b, s.sect)
           x == [m EXCEPT !.last = c - 1]
           y == [b EXCEPT !.last = c - 1]
<1>0. /\ p \in Places /\ p[1] \in DOMAIN D /\ At(D, p).name \in Names /\ p[1] \in Slots(View(s))
      /\ TreeI(L, D, {}) /\ DirShape(L, D) /\ Filled(L, D) /\ FilesIn(L, D, io, cur)
      /\ None \notin Names
  BY Opened1, NoneAssumption DEF MI, Live, TreeI
<1>1. e = At(D, p) /\ e \in Entries
  BY <1>0, DirEntryIs
<1>2. Overwrite(s) = IF c = 0 THEN PokeEntry(s, [e EXCEPT !.size = 0]) ELSE IF OK(b) THEN x ELSE b
  BY DEF Overwrite, Then
<1>3. /\ o \in Entries /\ o.name = e.name /\ o.clust = 0 /\ o.size = 0
      /\ c = 0 => [e EXCEPT !.size = 0] = o
  BY <1>1 DEF Entries
<1>4. e.name \in Names /\ e.name # None /\ c \in Clusters \cup {0}
  BY <1>0, <1>1 DEF Entries
<1>5. c # 0 => /\ Begins(L, c)
               /\ \A q \in Live(D) \ {p} : At(D, q).clust # c
               /\ \A f \in DOMAIN io : io[f].fil.sclust # c
  BY <1>0, <1>1, Alone
<1> HIDE DEF e, o
<1>6. UsedUpTo(L, D, p)
  BY <1>0, <1>1, <1>4, LiveUsed
<1>7. TreeI(L, Entered(D, p, o), {})
  <2>1. Owns(L, o)
    BY <1>3, ChainSize, Numbers, Times DEF Owns
  <2>2. \A q \in Live(D) \ {p} : Differ(o, At(D, q), {})
    BY <1>0, <1>1, <1>3 DEF Differ, TreeI, Single
  <2>3. \A q, r \in Live(D) \ {p} : q # r => Differ(At(D, q), At(D, r), {})
    BY <1>0 DEF TreeI, Single
  <2> QED BY <1>0, <1>3, <1>4, <1>6, <2>1, <2>2, <2>3, EntryTree
<1>8. FilesIn(L, Entered(D, p, o), io, cur)
  BY <1>0, <1>3, EntryFiles
<1>9. /\ MI(a, T, {}, io, cur) /\ VL(a) = L /\ VD(a) = Entered(D, p, o)
      /\ Others(s, a, {"val", "dirty"}) /\ OK(a)
  <2>1. T \subseteq T /\ {} \subseteq T
    OBVIOUS
  <2> QED BY <1>0, <1>3, <1>7, <1>8, <2>1, PokeEntryIs
<1> HIDE DEF a
<1>10. a.mounted /\ a.at = p /\ a.sect = p[1] /\ Others(s, a, RemFields)
  BY <1>9, DirFieldsIs DEF Others, RemFields, CardFields
<1>11. /\ \A q \in Places : q[1] \in DOMAIN D => At(VD(a), q) = IF q = p THEN o ELSE At(D, q)
       /\ Live(VD(a)) = Live(D) /\ At(VD(a), p) = o
  <2>1. /\ \A q \in Places : q[1] \in DOMAIN D => At(Entered(D, p, o), q) = IF q = p THEN o ELSE At(D, q)
        /\ Live(Entered(D, p, o)) = (Live(D) \ {p}) \cup (IF o.name \in Names THEN {p} ELSE {})
    BY <1>0, <1>3, EnteredIs
  <2>2. Live(Entered(D, p, o)) = Live(D)
    BY <1>3, <1>4, <2>1
  <2> QED BY <1>0, <1>9, <2>1, <2>2
<1>12. CASE c = 0
  <2>1. Overwrite(s) = a
    BY <1>2, <1>3, <1>12 DEF a
  <2> QED BY <1>1, <1>3, <1>9, <1>10, <1>11, <2>1
<1>13. CASE c # 0
  <2>1. Loose(a, c, io)
    <3>1. \A q \in Live(VD(a)) : At(VD(a), q).clust # c
      BY <1>0, <1>3, <1>5, <1>11, <1>13 DEF Live
    <3> QED BY <1>5, <1>9, <1>13, <3>1 DEF Loose, Begins
  <2>2. /\ MI(b, T, {}, io, cur) /\ b.mounted /\ VD(b) = VD(a)
        /\ Others(a, b, RemFields)
    BY <1>9, <1>10, <2>1, RemoveChainIs
  <2> HIDE DEF b
  <2>3. Others(s, b, RemFields) /\ b.at = p
    BY <1>10, <2>2, OthersIs, DirFieldsIs
  <2>4. CASE ~OK(b)
    BY <1>2, <1>13, <2>2, <2>3, <2>4
  <2>5. CASE OK(b)
    <3>1. s.sect \in Slots(View(b))
      <4>1. DOMAIN VD(b) = DOMAIN D
        BY <1>0, <1>3, <1>9, <2>2, EnteredIs
      <4>2. DOMAIN VD(b) = Slots(View(b))
        BY <2>2, Opened1
      <4> QED BY <1>0, <4>1, <4>2
    <3>2. /\ MI(m, T, {}, io, cur) /\ VL(m) = VL(b) /\ VD(m) = VD(b)
          /\ Others(b, m, WinFields)
          /\ OK(m) => m.sect = s.sect
      BY <2>2, <2>5, <3>1, MoveWindowIs
    <3> HIDE DEF m
    <3>3. DOMAIN m = Fields /\ m.mounted /\ Others(s, m, RemFields) /\ m.free \in Int /\ m.fsi \in BOOLEAN
          /\ m.res \in Results
      <4>1. Others(b, m, RemFields) /\ m.mounted
        BY <2>2, <3>2 DEF Others, RemFields, CardFields, WinFields, Fields
      <4> QED BY <2>3, <3>2, <4>1, OthersIs DEF MI, Base
    <3>4. DOMAIN x = Fields /\ Others(m, x, {"last"}) /\ x.last = c - 1
      BY <3>3 DEF Fields, Others
    <3>5. Overwrite(s) = x
      BY <1>2, <1>13, <2>5
    <3> HIDE DEF x
    <3>6. /\ x.disk = m.disk /\ x.sect = m.sect /\ x.val = m.val /\ x.dirty = m.dirty
          /\ x.mounted = m.mounted /\ x.free = m.free /\ x.fsi = m.fsi
          /\ x.past = m.past /\ x.res = m.res /\ x.at = m.at
      BY <3>4 DEF Others, Fields
    <3>7. c - 1 \in Int /\ (OK(x) <=> OK(m))
      BY <1>4, <3>6, Numbers DEF OK
    <3>8. MI(x, T, {}, io, cur) /\ VL(x) = VL(m) /\ VD(x) = VD(m)
      <4>1. x.free \in Int /\ x.last \in Int /\ x.fsi \in BOOLEAN /\ x.res \in Results
        BY <3>3, <3>4, <3>6, <3>7
      <4> QED BY <3>2, <3>4, <3>6, <3>7, <4>1, SameCard
    <3>9. Others(s, x, RemFields) /\ x.at = p
      <4>1. Others(m, x, RemFields)
        BY <3>4 DEF Others, RemFields, CardFields
      <4> QED BY <3>3, <4>1, OthersIs, DirFieldsIs
    <3> QED BY <1>1, <1>3, <1>11, <2>2, <3>2, <3>3, <3>5, <3>6, <3>7, <3>8, <3>9
  <2> QED BY <2>4, <2>5
<1> QED BY <1>12, <1>13

(***************************************************************************)
(* The file of the call, which is open as fd and has the name n, with the  *)
(* others that are open.  While the call runs its pointer may be out of    *)
(* place.                                                                  *)
(***************************************************************************)
With(io, fd, n, F) ==
  [f \in DOMAIN io \cup {fd} |-> IF f = fd THEN [name |-> n, fil |-> F] ELSE io[f]]
FilFields == {"flags", "err", "sclust", "size", "fptr", "clust", "sect", "buf", "entry"}
FilOK(F) ==
  /\ DOMAIN F = FilFields /\ F.fptr \in Nat /\ DOMAIN F.buf = 0 .. SS - 1 /\ F.err \in Results
FI(s, T, io, fd, n) ==
  MI(s, T, {}, With(io, fd, n, s.fp), fd) /\ s.mounted /\ FilOK(s.fp)

LEMMA WithIs ==
  ASSUME NEW L, NEW D, NEW io, NEW fd, NEW n, NEW F, NEW cur, fd \notin DOMAIN io
  PROVE  FilesIn(L, D, With(io, fd, n, F), cur) <=>
           /\ FilesIn(L, D, io, cur)
           /\ FileIn(L, D, F, n)
           /\ fd # cur /\ F.err = "OK" => Placed(L, F)
           /\ \A f \in DOMAIN io : /\ io[f].name # n
                                   /\ io[f].fil.sclust = F.sclust => F.sclust = 0
<1> DEFINE W == With(io, fd, n, F)
<1>1. /\ DOMAIN W = DOMAIN io \cup {fd} /\ W[fd].name = n /\ W[fd].fil = F
      /\ \A f \in DOMAIN io : W[f] = io[f] /\ f # fd
  BY DEF With
<1> HIDE DEF W
<1>2. ASSUME FilesIn(L, D, W, cur)
      PROVE  /\ FilesIn(L, D, io, cur)
             /\ FileIn(L, D, F, n)
             /\ fd # cur /\ F.err = "OK" => Placed(L, F)
             /\ \A f \in DOMAIN io : /\ io[f].name # n
                                     /\ io[f].fil.sclust = F.sclust => F.sclust = 0
  <2>1. FilesIn(L, D, io, cur)
    BY <1>1, <1>2 DEF FilesIn
  <2>2. FileIn(L, D, F, n) /\ (fd # cur /\ F.err = "OK" => Placed(L, F))
    BY <1>1, <1>2 DEF FilesIn
  <2>3. ASSUME NEW f \in DOMAIN io
        PROVE  io[f].name # n /\ (io[f].fil.sclust = F.sclust => F.sclust = 0)
    <3>1. f \in DOMAIN W /\ fd \in DOMAIN W /\ f # fd /\ W[f] = io[f]
      BY <1>1
    <3>2. /\ W[f].name # W[fd].name
          /\ W[f].fil.sclust = W[fd].fil.sclust => W[f].fil.sclust = 0
      BY <1>2, <3>1 DEF FilesIn
    <3> QED BY <1>1, <3>1, <3>2
  <2> QED BY <2>1, <2>2, <2>3
<1>3. ASSUME FilesIn(L, D, io, cur), FileIn(L, D, F, n),
             fd # cur /\ F.err = "OK" => Placed(L, F),
             \A f \in DOMAIN io : /\ io[f].name # n
                                  /\ io[f].fil.sclust = F.sclust => F.sclust = 0
      PROVE  FilesIn(L, D, W, cur)
  <2>1. ASSUME NEW f \in DOMAIN W
        PROVE  /\ FileIn(L, D, W[f].fil, W[f].name)
               /\ f # cur /\ W[f].fil.err = "OK" => Placed(L, W[f].fil)
    BY <1>1, <1>3 DEF FilesIn
  <2>2. ASSUME NEW f \in DOMAIN W, NEW g \in DOMAIN W, f # g
        PROVE  /\ W[f].name # W[g].name
               /\ W[f].fil.sclust = W[g].fil.sclust => W[f].fil.sclust = 0
    BY <1>1, <1>3, <2>2 DEF FilesIn
  <2> QED BY <2>1, <2>2 DEF FilesIn
<1> QED BY <1>2, <1>3 DEF W

(* A file is opened.                                                       *)
LEMMA OpenedIs ==
  ASSUME NEW s, NEW T, NEW io, NEW fd, NEW n \in Names, fd \notin DOMAIN io,
         MI(s, T, {}, io, fd), OK(s), s.mounted,
         s.at \in Live(VD(s)), At(VD(s), s.at).name = n, s.sect = s.at[1],
         \A f \in DOMAIN io : io[f].name # n, NEW mode, NEW fresh
  PROVE  LET a == OpenedFile(s, mode, fresh)
         IN /\ FI(a, T, io, fd, n) /\ OK(a) /\ a.fp.fptr = 0 /\ a.fp.err = "OK"
            /\ Placed(VL(a), a.fp) /\ (fresh => "MODIFIED" \in a.fp.flags) /\ Others(s, a, {"fp"})
<1> DEFINE F == [flags  |-> (mode \cap {"READ", "WRITE"}) \cup (IF fresh THEN {"MODIFIED"} ELSE {}),
                 err    |-> "OK",
                 sclust |-> DirEntry(s).clust, size |-> DirEntry(s).size,
                 fptr   |-> 0, clust |-> 0, sect |-> 0, buf |-> Zeros,
                 entry  |-> s.at]
           x == [s EXCEPT !.fp = F]
           L == VL(s)
           D == VD(s)
           p == s.at
           e == At(D, p)
<1>1. OpenedFile(s, mode, fresh) = x
  BY DEF OpenedFile
<1>2. p \in Places /\ p[1] \in DOMAIN D /\ TreeI(L, D, {}) /\ FilesIn(L, D, io, fd) /\ DOMAIN s = Fields
  BY Opened1 DEF Live, MI, Base
<1>3. DirEntry(s) = e /\ e \in Entries
  BY <1>2, DirEntryIs
<1>4. /\ DOMAIN F = FilFields /\ F.fptr = 0 /\ F.err = "OK" /\ F.sclust = e.clust /\ F.size = e.size
      /\ F.entry = p /\ "DIRTY" \notin F.flags /\ (fresh => "MODIFIED" \in F.flags)
      /\ DOMAIN F.buf = 0 .. SS - 1
  BY <1>3 DEF FilFields, Zeros
<1> HIDE DEF F
<1>5. DOMAIN x = Fields /\ Others(s, x, {"fp"}) /\ x.fp = F
  BY <1>2 DEF Fields, Others
<1> HIDE DEF x
<1>6. Others(s, x, OwnFields)
  BY <1>5 DEF Others, OwnFields
<1>7. MI(x, T, {}, io, fd) /\ VL(x) = L /\ VD(x) = D /\ x.mounted /\ OK(x)
  BY <1>6, <1>5, OwnIs
<1>8. Placed(L, F)
  BY <1>4, Numbers DEF Placed
<1>9. \A f \in DOMAIN io : io[f].fil.entry # p
  BY <1>2 DEF FilesIn, FileIn
<1>10. FileIn(L, D, F, n)
  <2>1. F.sclust \in Clusters \cup {0} /\ F.size \in Nat
    BY <1>3, <1>4 DEF Entries
  <2>2. F.size <= SS * Cardinality(Chain(L, F.sclust))
    BY <1>2, <1>4 DEF TreeI, Owns
  <2>3. F.sclust # 0 => Begins(L, F.sclust) /\ \A q \in Live(D) : At(D, q).clust = F.sclust => q = F.entry
    BY <1>2, <1>4, <1>9, Alone
  <2> QED BY <1>4, <2>1, <2>2, <2>3 DEF FileIn
<1>11. \A f \in DOMAIN io : io[f].fil.sclust = F.sclust => F.sclust = 0
  BY <1>2, <1>4, <1>9, Alone
<1>12. FilesIn(L, D, With(io, fd, n, F), fd)
  <2>1. /\ FilesIn(L, D, io, fd) /\ FileIn(L, D, F, n)
        /\ (fd # fd /\ F.err = "OK" => Placed(L, F))
        /\ \A f \in DOMAIN io : /\ io[f].name # n
                                /\ io[f].fil.sclust = F.sclust => F.sclust = 0
    BY <1>2, <1>10, <1>11
  <2> QED BY <2>1, WithIs
<1>13. MI(x, T, {}, With(io, fd, n, F), fd)
  BY <1>7, <1>12 DEF MI
<1>14. FilOK(F)
  BY <1>4 DEF FilOK, Results
<1> QED BY <1>1, <1>4, <1>5, <1>7, <1>8, <1>13, <1>14 DEF FI

LEMMA MountedIs ==
  ASSUME NEW s
  PROVE  /\ s.mounted => Mount(s).mounted
         /\ \A r : DOMAIN s = Fields /\ s.mounted => Fail(s, r).mounted
BY DEF Mount, Fail, Fields

LEMMA FopenIs ==
  ASSUME NEW s, NEW T, NEW io, NEW fd, NEW n \in Names, NEW mode,
         fd \notin DOMAIN io,
         MI(s, T, {}, io, fd), OK(s), Whole(s), \A f \in DOMAIN io : io[f].name # n
  PROVE  LET a == Fopen(s, n, mode)
         IN /\ s.mounted => a.mounted
            /\ \/ ~OK(a) /\ MI(a, T, {}, io, fd)
               \/ \E b : MI(b, T, {}, io, fd) /\ a = Fail(b, "NO_FILE")
               \/ /\ OK(a) /\ FI(a, T, io, fd, n) /\ a.fp.fptr = 0 /\ a.fp.err = "OK"
                  /\ Placed(VL(a), a.fp) /\ ("CREATE_ALWAYS" \in mode => "MODIFIED" \in a.fp.flags)
<1> DEFINE m == Mount(s)
           b == DirFind(m, n)
           d == IF b.at = None THEN IF Creates(mode) THEN DirRegister(b, n) ELSE Fail(b, "NO_FILE")
                ELSE IF Overwrites(mode) THEN Overwrite(b) ELSE b
           fresh == b.at = None \/ Overwrites(mode)
           a == OpenedFile(d, mode, fresh)
<1>1. Fopen(s, n, mode) = IF OK(m) THEN IF OK(b) THEN IF OK(d) THEN a ELSE d ELSE b ELSE m
  BY DEF Fopen, Then
<1>2. /\ MI(m, T, {}, io, fd) /\ VL(m) = VL(s) /\ VD(m) = VD(s)
      /\ OK(m) => m.mounted
      /\ s.mounted => m.mounted
  BY MountIs, MountedIs
<1> HIDE DEF m
<1>3. CASE ~OK(m)
  BY <1>1, <1>2, <1>3
<1>4. CASE OK(m)
  <2>1. Whole(m)
    BY <1>2 DEF Whole
  <2>2. /\ MI(b, T, {}, io, fd) /\ VL(b) = VL(m) /\ VD(b) = VD(m) /\ b.mounted
        /\ OK(b) => Sought(b, VD(m), n)
    BY <1>2, <1>4, <2>1, DirFindIs
  <2> HIDE DEF b
  <2>3. CASE ~OK(b)
    BY <1>1, <1>4, <2>2, <2>3
  <2>4. CASE OK(b) /\ b.at = None /\ ~Creates(mode)
    <3>1. Fopen(s, n, mode) = Fail(b, "NO_FILE")
      <4>1. d = Fail(b, "NO_FILE")
        BY <2>4
      <4>2. ~OK(d)
        <5>1. DOMAIN b = Fields /\ "res" \in Fields
          BY <2>2 DEF MI, Base, Fields
        <5> QED BY <4>1, <5>1 DEF Fail, OK
      <4> QED BY <1>1, <1>4, <2>4, <4>1, <4>2
    <3>2. DOMAIN b = Fields
      BY <2>2 DEF MI, Base
    <3> QED BY <2>2, <3>1, <3>2, MountedIs
  <2>5. CASE OK(b) /\ ~(b.at = None /\ ~Creates(mode))
    <3> DEFINE D == VD(b)
    <3>0. None \notin Live(D) /\ FilesIn(VL(b), D, io, fd) /\ Whole(b)
      BY <2>1, <2>2, NoneAssumption DEF Live, Places, MI, Whole
    <3>1. /\ MI(d, T, {}, io, fd) /\ d.mounted
          /\ OK(d) => /\ d.at \in Live(VD(d)) /\ At(VD(d), d.at).name = n /\ d.sect = d.at[1]
      <4>1. CASE b.at = None
        <5> DEFINE x == DirRegister(b, n)
        <5>1. \A p \in Live(D) : At(D, p).name # n
          BY <2>2, <2>5, <3>0, <4>1 DEF Sought
        <5>2. /\ MI(x, T, {}, io, fd) /\ x.mounted
              /\ OK(x) => /\ x.at \in Places /\ x.at[1] \in DOMAIN VD(x) /\ x.sect = x.at[1]
                          /\ At(VD(x), x.at) = Born(n)
                          /\ Live(VD(x)) = Live(D) \cup {x.at}
          BY <2>2, <2>5, <3>0, <5>1, DirRegisterIs
        <5>3. d = x
          BY <2>5, <4>1
        <5> HIDE DEF x, d
        <5> QED BY <5>2, <5>3 DEF Born, NoEntry
      <4>2. CASE b.at # None
        <5>1. b.at \in Live(D) /\ At(D, b.at).name = n /\ b.sect = b.at[1]
          BY <2>2, <2>5, <4>2 DEF Sought
        <5>2. \A f \in DOMAIN io : io[f].fil.entry # b.at
          BY <3>0, <5>1 DEF FilesIn, FileIn
        <5>3. CASE Overwrites(mode)
          <6> DEFINE x == Overwrite(b)
          <6>1. /\ MI(x, T, {}, io, fd) /\ x.mounted /\ Others(b, x, RemFields)
                /\ OK(x) => /\ x.sect = x.at[1] /\ Live(VD(x)) = Live(D)
                            /\ At(VD(x), x.at).name = At(D, b.at).name
            BY <2>2, <2>5, <5>1, <5>2, OverwriteIs
          <6>2. d = x
            BY <4>2, <5>3
          <6> HIDE DEF x, d
          <6>3. x.at = b.at
            BY <6>1, DirFieldsIs
          <6> QED BY <5>1, <6>1, <6>2, <6>3
        <5>4. CASE ~Overwrites(mode)
          <6>1. d = b
            BY <4>2, <5>4
          <6> HIDE DEF d
          <6> QED BY <2>2, <5>1, <6>1
        <5> QED BY <5>3, <5>4
      <4> QED BY <4>1, <4>2
    <3> HIDE DEF d
    <3>2. CASE ~OK(d)
      BY <1>1, <1>4, <2>5, <3>1, <3>2
    <3>3. CASE OK(d)
      <4> HIDE DEF fresh
      <4>1. /\ FI(a, T, io, fd, n) /\ OK(a) /\ a.fp.fptr = 0 /\ a.fp.err = "OK"
            /\ Placed(VL(a), a.fp) /\ (fresh => "MODIFIED" \in a.fp.flags)
        BY <3>1, <3>3, OpenedIs
      <4>2. "CREATE_ALWAYS" \in mode => fresh
        BY DEF fresh, Overwrites
      <4>3. Fopen(s, n, mode) = a
        BY <1>1, <1>4, <2>5, <3>3
      <4> QED BY <4>1, <4>2, <4>3 DEF FI
    <3> QED BY <3>2, <3>3
  <2> QED BY <2>3, <2>4, <2>5
<1> QED BY <1>3, <1>4

(* Of the file's record, what a step leaves alone.                         *)
Rests(F, G, X) == DOMAIN G = FilFields /\ \A f \in FilFields \ X : G[f] = F[f]
Keeps(F, G) == "MODIFIED" \in F.flags => "MODIFIED" \in G.flags

LEMMA RestsIs ==
  ASSUME NEW F, NEW G
  PROVE  /\ \A X, Y : Rests(F, G, X) /\ X \subseteq Y => Rests(F, G, Y)
         /\ \A H, X : Rests(F, G, X) /\ Rests(G, H, X) => Rests(F, H, X)
         /\ \A H : Keeps(F, G) /\ Keeps(G, H) => Keeps(F, H)
BY DEF Rests, Keeps

LEMMA WithHas ==
  ASSUME NEW L, NEW D, NEW io, NEW fd, NEW n, NEW F, NEW cur, fd \notin DOMAIN io,
         FilesIn(L, D, With(io, fd, n, F), cur)
  PROVE  /\ FilesIn(L, D, io, cur) /\ FileIn(L, D, F, n)
         /\ \A f \in DOMAIN io : /\ io[f].name # n
                                 /\ io[f].fil.sclust = F.sclust => F.sclust = 0
BY WithIs

(* The clusters of a file are in use, and not the directory's.             *)
LEMMA DataCluster ==
  ASSUME NEW L, NEW D, NEW T, TreeI(L, D, T), NEW F, NEW n, FileIn(L, D, F, n),
         NEW x \in Chain(L, F.sclust)
  PROVE  x \in Clusters /\ x \notin DOMAIN D /\ L[x] # 0 /\ F.sclust # 0
<1>1. x \in Clusters /\ F.sclust \in Clusters
  BY ChainClusters, NoChain
<1>2. Begins(L, F.sclust) /\ F.sclust # 0
  BY <1>1, Numbers DEF FileIn
<1>3. Wired(L) /\ DOMAIN D \subseteq Chain(L, Root)
  BY DEF TreeI, DirShape
<1>4. Chain(L, F.sclust) \cap Chain(L, Root) = {}
  BY <1>2, <1>3, ChainsApart DEF Wired, Begins
<1>5. L[x] # 0
  BY <1>2, <1>3, Used DEF Begins
<1> QED BY <1>1, <1>2, <1>3, <1>4, <1>5

(* A step that changes the call's own fields, the file's record among them. *)
LEMMA FileStep ==
  ASSUME NEW s, NEW T, NEW io, NEW fd, NEW n, fd \notin DOMAIN io, FI(s, T, io, fd, n),
         NEW a, DOMAIN a = Fields, Others(s, a, OwnFields), FilOK(a.fp),
         FileIn(VL(s), VD(s), a.fp, n), a.fp.sclust = s.fp.sclust
  PROVE  /\ FI(a, T, io, fd, n) /\ VL(a) = VL(s) /\ VD(a) = VD(s) /\ (OK(a) <=> OK(s))
         /\ a.res = s.res
<1>1. /\ MI(a, T, {}, With(io, fd, n, s.fp), fd) /\ VL(a) = VL(s) /\ VD(a) = VD(s)
      /\ a.mounted = s.mounted /\ a.res = s.res /\ (OK(a) <=> OK(s))
  <2>1. MI(s, T, {}, With(io, fd, n, s.fp), fd)
    BY DEF FI
  <2> QED BY <2>1, OwnIs
<1>2. FilesIn(VL(a), VD(a), With(io, fd, n, s.fp), fd)
  BY <1>1 DEF MI
<1>3. FilesIn(VL(a), VD(a), With(io, fd, n, a.fp), fd)
  <2>1. /\ FilesIn(VL(a), VD(a), io, fd)
        /\ \A f \in DOMAIN io : /\ io[f].name # n
                                /\ io[f].fil.sclust = s.fp.sclust => s.fp.sclust = 0
    <3>1. FilesIn(VL(a), VD(a), io, fd)
      BY <1>2, WithHas
    <3>2. \A f \in DOMAIN io : io[f].name # n
      BY <1>2, WithHas
    <3>3. \A f \in DOMAIN io : io[f].fil.sclust = s.fp.sclust => s.fp.sclust = 0
      BY <1>2, WithHas
    <3> QED BY <3>1, <3>2, <3>3
  <2>2. /\ FileIn(VL(a), VD(a), a.fp, n)
        /\ (fd # fd /\ a.fp.err = "OK" => Placed(VL(a), a.fp))
        /\ \A f \in DOMAIN io : /\ io[f].name # n
                                /\ io[f].fil.sclust = a.fp.sclust => a.fp.sclust = 0
    BY <1>1, <2>1
  <2> QED BY <2>1, <2>2, WithIs
<1>4. MI(a, T, {}, With(io, fd, n, a.fp), fd)
  BY <1>1, <1>3 DEF MI
<1> QED BY <1>1, <1>4 DEF FI

(* What is said of the file itself.                                        *)
LEMMA FileOf ==
  ASSUME NEW s, NEW T, NEW io, NEW fd, NEW n, fd \notin DOMAIN io, FI(s, T, io, fd, n)
  PROVE  /\ FileIn(VL(s), VD(s), s.fp, n) /\ TreeI(VL(s), VD(s), {}) /\ DOMAIN s = Fields
         /\ DOMAIN s.fp = FilFields /\ s.res \in Results /\ s.mounted /\ FilOK(s.fp)
         /\ MI(s, T, {}, With(io, fd, n, s.fp), fd)
         /\ Wired(VL(s)) /\ VL(s) \in LinkFcns
         /\ \A f \in DOMAIN io : /\ io[f].name # n
                                 /\ io[f].fil.sclust = s.fp.sclust => s.fp.sclust = 0
<1>1. MI(s, T, {}, With(io, fd, n, s.fp), fd)
  BY DEF FI
<1>2. FilesIn(VL(s), VD(s), With(io, fd, n, s.fp), fd)
  BY <1>1 DEF MI
<1>3. /\ FileIn(VL(s), VD(s), s.fp, n)
      /\ \A f \in DOMAIN io : /\ io[f].name # n
                              /\ io[f].fil.sclust = s.fp.sclust => s.fp.sclust = 0
  <2>1. FileIn(VL(s), VD(s), s.fp, n)
    BY <1>2, WithHas
  <2>2. \A f \in DOMAIN io : io[f].name # n
    BY <1>2, WithHas
  <2>3. \A f \in DOMAIN io : io[f].fil.sclust = s.fp.sclust => s.fp.sclust = 0
    BY <1>2, WithHas
  <2> QED BY <2>1, <2>2, <2>3
<1> QED BY <1>1, <1>3, Opened1 DEF FI, MI, Base, FilOK

LEMMA FileKeep ==
  ASSUME NEW L, NEW D, NEW F, NEW n, FileIn(L, D, F, n), NEW G,
         G.sclust = F.sclust, G.size = F.size, G.entry = F.entry,
         "DIRTY" \in G.flags => "DIRTY" \in F.flags /\ G.sect = F.sect
  PROVE  FileIn(L, D, G, n)
BY DEF FileIn

CardFile == WinFields \cup {"fp"}

LEMMA CardFileIs ==
  ASSUME NEW s, NEW a
  PROVE  /\ Others(s, a, WinFields) => Others(s, a, CardFile)
         /\ Others(s, a, {"fp"}) => Others(s, a, CardFile) /\ Others(s, a, OwnFields)
         /\ Others(s, a, CardFile) =>
              /\ a.got = s.got /\ a.at = s.at /\ a.out = s.out /\ a.here = s.here /\ a.rest = s.rest
              /\ a.mounted = s.mounted
BY DEF Others, Fields, WinFields, CardFile, OwnFields

(* The dirty buffer is written back.                                       *)
LEMMA WriteBackIs ==
  ASSUME NEW s, NEW T, NEW io, NEW fd, NEW n, fd \notin DOMAIN io, FI(s, T, io, fd, n), OK(s)
  PROVE  LET a == WriteBack(s)
         IN /\ FI(a, T, io, fd, n) /\ VL(a) = VL(s) /\ VD(a) = VD(s) /\ Others(s, a, CardFile)
            /\ Rests(s.fp, a.fp, {"flags"}) /\ Keeps(s.fp, a.fp)
            /\ OK(a) => "DIRTY" \notin a.fp.flags
<1> DEFINE d == DiskWrite(s, s.fp.sect, s.fp.buf)
           x == [d EXCEPT !.fp.flags = @ \ {"DIRTY"}]
<1>1. WriteBack(s) = IF "DIRTY" \in s.fp.flags THEN IF OK(d) THEN x ELSE d ELSE s
  BY DEF WriteBack, Flag, Then
<1>0. /\ FileIn(VL(s), VD(s), s.fp, n) /\ TreeI(VL(s), VD(s), {}) /\ DOMAIN s = Fields
      /\ DOMAIN s.fp = FilFields /\ s.mounted /\ FilOK(s.fp)
      /\ MI(s, T, {}, With(io, fd, n, s.fp), fd)
  BY FileOf
<1>2. CASE "DIRTY" \notin s.fp.flags
  BY <1>0, <1>1, <1>2 DEF Rests, Keeps, Others
<1>3. CASE "DIRTY" \in s.fp.flags
  <2>1. s.fp.sect \in Chain(VL(s), s.fp.sclust)
    BY <1>0, <1>3 DEF FileIn
  <2>2. s.fp.sect \in Clusters /\ s.fp.sect \notin DOMAIN VD(s) /\ DOMAIN s.fp.buf = 0 .. SS - 1
    BY <1>0, <2>1, DataCluster DEF FilOK
  <2>3. /\ MI(d, T, {}, With(io, fd, n, s.fp), fd) /\ VL(d) = VL(s) /\ VD(d) = VD(s)
        /\ Others(s, d, WinFields)
    BY <1>0, <2>2, DataWriteIs
  <2> HIDE DEF d
  <2>4. d.fp = s.fp /\ d.mounted /\ FI(d, T, io, fd, n) /\ DOMAIN d = Fields
    BY <1>0, <2>3, OthersIs DEF FI, MI, Base
  <2>5. CASE ~OK(d)
    BY <1>0, <1>1, <1>3, <2>3, <2>4, <2>5, CardFileIs DEF Rests, Keeps
  <2>6. CASE OK(d)
    <3> DEFINE G == [s.fp EXCEPT !.flags = @ \ {"DIRTY"}]
    <3>1. DOMAIN x = Fields /\ Others(d, x, {"fp"}) /\ x.fp = G
      BY <2>4 DEF Fields, Others
    <3>2. Rests(s.fp, G, {"flags"}) /\ Keeps(s.fp, G) /\ "DIRTY" \notin G.flags
      BY <1>0 DEF Rests, Keeps, FilFields
    <3>3. WriteBack(s) = x
      BY <1>1, <1>3, <2>6
    <3> HIDE DEF x, G
    <3>4. FilOK(G) /\ FileIn(VL(d), VD(d), G, n) /\ G.sclust = s.fp.sclust
      BY <1>0, <2>3, <3>2, FileKeep DEF FilOK, Rests, FilFields
    <3>5. FI(x, T, io, fd, n) /\ VL(x) = VL(d) /\ VD(x) = VD(d)
      BY <2>4, <3>1, <3>4, FileStep, CardFileIs
    <3>6. Others(s, x, CardFile)
      BY <2>3, <3>1, CardFileIs, OthersIs
    <3> QED BY <2>3, <3>1, <3>2, <3>3, <3>5, <3>6
  <2> QED BY <2>5, <2>6
<1> QED BY <1>2, <1>3

(* A sector of the file is read into the buffer, in place of a clean one.  *)
LEMMA LoadBufferIs ==
  ASSUME NEW s, NEW T, NEW io, NEW fd, NEW n, fd \notin DOMAIN io, FI(s, T, io, fd, n), OK(s),
         NEW c \in Chain(VL(s), s.fp.sclust)
  PROVE  LET a == LoadBuffer(s, c)
         IN /\ FI(a, T, io, fd, n) /\ VL(a) = VL(s) /\ VD(a) = VD(s) /\ Others(s, a, CardFile)
            /\ Rests(s.fp, a.fp, {"buf"}) /\ Keeps(s.fp, a.fp)
<1> DEFINE d == Access(s)
           x == [d EXCEPT !.fp.buf = d.disk[c]]
<1>1. LoadBuffer(s, c) = IF OK(d) THEN x ELSE d
  BY DEF LoadBuffer, Then
<1>0. /\ FileIn(VL(s), VD(s), s.fp, n) /\ TreeI(VL(s), VD(s), {}) /\ DOMAIN s = Fields
      /\ DOMAIN s.fp = FilFields /\ s.mounted /\ FilOK(s.fp)
      /\ MI(s, T, {}, With(io, fd, n, s.fp), fd)
  BY FileOf
<1>2. /\ MI(d, T, {}, With(io, fd, n, s.fp), fd) /\ VL(d) = VL(s) /\ VD(d) = VD(s)
      /\ Others(s, d, WinFields) /\ d.disk = s.disk
  BY <1>0, AccessMI
<1> HIDE DEF d
<1>3. d.fp = s.fp /\ d.mounted /\ FI(d, T, io, fd, n) /\ DOMAIN d = Fields
  BY <1>0, <1>2, OthersIs DEF FI, MI, Base
<1>4. CASE ~OK(d)
  BY <1>0, <1>1, <1>2, <1>3, <1>4, CardFileIs DEF Rests, Keeps
<1>5. CASE OK(d)
  <2> DEFINE G == [s.fp EXCEPT !.buf = d.disk[c]]
  <2>1. DOMAIN x = Fields /\ Others(d, x, {"fp"}) /\ x.fp = G
    BY <1>3 DEF Fields, Others
  <2>2. Rests(s.fp, G, {"buf"}) /\ Keeps(s.fp, G) /\ G.buf = s.disk[c]
    BY <1>0, <1>2 DEF Rests, Keeps, FilFields
  <2>3. LoadBuffer(s, c) = x
    BY <1>1, <1>5
  <2> HIDE DEF x, G
  <2>4. DOMAIN G.buf = 0 .. SS - 1
    <3>1. c \in Clusters /\ c \notin DOMAIN VD(s)
      BY <1>0, DataCluster
    <3>2. Shape(s.disk) /\ Slots(s.disk) = DOMAIN VD(s)
      BY <1>0, Opened1 DEF MI
    <3> QED BY <2>2, <3>1, <3>2 DEF Shape, Slots
  <2>5. FilOK(G) /\ FileIn(VL(d), VD(d), G, n) /\ G.sclust = s.fp.sclust
    BY <1>0, <1>2, <2>2, <2>4, FileKeep DEF FilOK, Rests, FilFields
  <2>6. FI(x, T, io, fd, n) /\ VL(x) = VL(d) /\ VD(x) = VD(d)
    BY <1>3, <2>1, <2>5, FileStep, CardFileIs
  <2>7. Others(s, x, CardFile)
    BY <1>2, <2>1, CardFileIs, OthersIs
  <2> QED BY <1>2, <2>1, <2>2, <2>3, <2>6, <2>7
<1> QED BY <1>4, <1>5

LEMMA BufferedIs ==
  ASSUME NEW s, NEW T, NEW io, NEW fd, NEW n, fd \notin DOMAIN io, FI(s, T, io, fd, n), OK(s),
         NEW c \in Chain(VL(s), s.fp.sclust)
  PROVE  LET a == Buffered(s, c)
         IN /\ FI(a, T, io, fd, n) /\ VL(a) = VL(s) /\ VD(a) = VD(s) /\ Others(s, a, CardFile)
            /\ Rests(s.fp, a.fp, {"flags", "buf", "sect"}) /\ Keeps(s.fp, a.fp)
            /\ OK(a) => a.fp.sect = c
<1> DEFINE w == WriteBack(s)
           b == LoadBuffer(w, c)
           x == [b EXCEPT !.fp.sect = c]
           X == {"flags", "buf", "sect"}
<1>1. Buffered(s, c) = IF s.fp.sect = c THEN s ELSE IF OK(w) THEN IF OK(b) THEN x ELSE b ELSE w
  BY DEF Buffered, Then
<1>2. CASE s.fp.sect = c
  BY <1>1, <1>2, FileOf DEF Rests, Keeps, Others
<1>3. CASE s.fp.sect # c
  <2>1. /\ FI(w, T, io, fd, n) /\ VL(w) = VL(s) /\ VD(w) = VD(s) /\ Others(s, w, CardFile)
        /\ Rests(s.fp, w.fp, {"flags"}) /\ Keeps(s.fp, w.fp)
        /\ OK(w) => "DIRTY" \notin w.fp.flags
    BY WriteBackIs
  <2> HIDE DEF w
  <2>2. Rests(s.fp, w.fp, X)
    BY <2>1, RestsIs
  <2>3. CASE ~OK(w)
    BY <1>1, <1>3, <2>1, <2>2, <2>3
  <2>4. CASE OK(w)
    <3>1. w.fp.sclust = s.fp.sclust
      BY <2>1 DEF Rests, FilFields
    <3>2. /\ FI(b, T, io, fd, n) /\ VL(b) = VL(w) /\ VD(b) = VD(w) /\ Others(w, b, CardFile)
          /\ Rests(w.fp, b.fp, {"buf"}) /\ Keeps(w.fp, b.fp)
      BY <2>1, <2>4, <3>1, LoadBufferIs
    <3> HIDE DEF b
    <3>3. Rests(w.fp, b.fp, X) /\ "DIRTY" \notin b.fp.flags
      BY <2>1, <2>4, <3>2, RestsIs DEF Rests, FilFields
    <3>4. Rests(s.fp, b.fp, X) /\ Keeps(s.fp, b.fp) /\ Others(s, b, CardFile)
      BY <2>1, <2>2, <3>2, <3>3, RestsIs, OthersIs
    <3>5. CASE ~OK(b)
      BY <1>1, <1>3, <2>1, <2>4, <3>2, <3>4, <3>5
    <3>6. CASE OK(b)
      <4> DEFINE G == [b.fp EXCEPT !.sect = c]
      <4>0. /\ DOMAIN b = Fields /\ FileIn(VL(b), VD(b), b.fp, n) /\ FilOK(b.fp) /\ DOMAIN b.fp = FilFields
        BY <3>2, FileOf
      <4>1. DOMAIN x = Fields /\ Others(b, x, {"fp"}) /\ x.fp = G
        BY <4>0 DEF Fields, Others
      <4>2. Rests(b.fp, G, {"sect"}) /\ Keeps(b.fp, G) /\ G.sect = c
        BY <4>0 DEF Rests, Keeps, FilFields
      <4>3. Buffered(s, c) = x
        BY <1>1, <1>3, <2>4, <3>6
      <4> HIDE DEF x, G
      <4>4. FilOK(G) /\ FileIn(VL(b), VD(b), G, n) /\ G.sclust = b.fp.sclust
        BY <3>3, <4>0, <4>2, FileKeep DEF FilOK, Rests, FilFields
      <4>5. FI(x, T, io, fd, n) /\ VL(x) = VL(b) /\ VD(x) = VD(b)
        BY <3>2, <4>1, <4>0, <4>4, FileStep, CardFileIs
      <4>6. Rests(b.fp, G, X)
        BY <4>2, RestsIs
      <4>7. Rests(s.fp, G, X) /\ Keeps(s.fp, G) /\ Others(s, x, CardFile)
        BY <3>4, <4>1, <4>2, <4>6, RestsIs, OthersIs, CardFileIs
      <4> QED BY <2>1, <3>2, <4>1, <4>2, <4>3, <4>5, <4>7
    <3> QED BY <3>5, <3>6
  <2> QED BY <2>3, <2>4
<1> QED BY <1>2, <1>3

LEMMA MinMax ==
  \A a, b \in Int : /\ Min({a, b}) = IF a <= b THEN a ELSE b
                    /\ Max({a, b}) = IF a >= b THEN a ELSE b
<1> TAKE a, b \in Int
<1>1. \E x \in {a, b} : \A y \in {a, b} : x <= y
  OBVIOUS
<1>2. \E x \in {a, b} : \A y \in {a, b} : x >= y
  OBVIOUS
<1>3. Min({a, b}) \in {a, b} /\ \A y \in {a, b} : Min({a, b}) <= y
  BY <1>1 DEF Min
<1>4. Max({a, b}) \in {a, b} /\ \A y \in {a, b} : Max({a, b}) >= y
  BY <1>2 DEF Max
<1> QED BY <1>3, <1>4

(* Bytes and sectors.                                                      *)
LEMMA Mods ==
  /\ \A a \in Nat : a % SS \in Nat /\ a % SS < SS /\ a \div SS \in Nat
  /\ \A a \in Nat : a = SS * (a \div SS) + (a % SS)
BY Numbers

LEMMA ModNext == \A a \in Nat : (a + SS) % SS = a % SS
<1> TAKE a \in Nat
<1> DEFINE q == a \div SS
           r == a % SS
           b == a + SS
           p == b \div SS
           t == b % SS
<1>1. q \in Nat /\ r \in Nat /\ r < SS /\ a = SS * q + r
  BY Mods
<1>2. b \in Nat
  BY Numbers
<1>3. p \in Nat /\ t \in Nat /\ t < SS /\ b = SS * p + t
  BY <1>2, Mods
<1> HIDE DEF q, r, p, t
<1>4. SS * p + t = SS * (q + 1) + r
  <2>1. SS * (q + 1) = SS * q + SS /\ SS * q \in Int /\ SS * p \in Int /\ SS \in Int
    BY <1>1, <1>3, Times, Numbers
  <2>2. a + SS = SS * p + t
    BY <1>3
  <2> QED BY <1>1, <1>3, <2>1, <2>2
<1>5. SS * p \in Int /\ SS * (q + 1) \in Int /\ SS \in Nat
  BY <1>1, <1>3, Times, Numbers
<1>6. CASE p >= q + 2
  <2>1. SS * (q + 2) <= SS * p /\ SS * (q + 2) = SS * (q + 1) + SS
    <3>1. q + 2 = (q + 1) + 1 /\ q + 1 \in Int /\ q + 2 \in Int /\ p \in Int
      BY <1>1, <1>3
    <3> QED BY <1>6, <3>1, Times
  <2> QED BY <1>1, <1>3, <1>4, <1>5, <2>1
<1>7. CASE p <= q
  <2>1. SS * p <= SS * q /\ SS * (q + 1) = SS * q + SS /\ SS * q \in Int
    BY <1>1, <1>3, <1>7, Times
  <2> QED BY <1>1, <1>3, <1>4, <1>5, <2>1
<1>8. CASE p = q + 1
  BY <1>1, <1>3, <1>4, <1>5, <1>8 DEF r, t
<1> QED BY <1>1, <1>3, <1>6, <1>7, <1>8 DEF r, t

(* Up to the end of a sector, one does not leave it.                       *)
LEMMA ModUp ==
  ASSUME NEW a \in Nat, NEW k \in Int, a <= SS * k, a % SS # 0
  PROVE  a + (SS - (a % SS)) <= SS * k
<1> DEFINE q == a \div SS
           r == a % SS
<1>1. q \in Nat /\ r \in Nat /\ r < SS /\ a = SS * q + r /\ r # 0
  BY Mods
<1> HIDE DEF q, r
<1>2. SS * k \in Int /\ SS * q \in Int /\ SS * (q + 1) = SS * q + SS /\ SS \in Nat
  BY <1>1, Times, Numbers
<1>3. q + 1 <= k
  <2>1. CASE k <= q
    <3>1. SS * k <= SS * q
      BY <1>1, <2>1, Times
    <3> QED BY <1>1, <1>2, <3>1
  <2> QED BY <1>1, <2>1
<1>4. SS * (q + 1) <= SS * k
  BY <1>1, <1>3, Times
<1>5. a + (SS - r) <= SS * k
  BY <1>1, <1>2, <1>4
<1> QED BY <1>5 DEF r

(* The file is at the beginning of its cluster, or before.                 *)
Begun(L, F) == F.clust \in Chain(L, F.sclust) /\ F.fptr <= SS * Behinds(L, F)

LEMMA BehindsIs ==
  ASSUME NEW L, NEW F, NEW c, NEW h
  PROVE  /\ Behinds(L, F) \in Int
         /\ F.clust = F.sclust => Behinds(L, F) = 0
BY ChainSize DEF Behinds

LEMMA BehindsNext ==
  ASSUME NEW L, Wired(L), NEW F, NEW G, Begins(L, F.sclust), F.clust \in Chain(L, F.sclust),
         G.clust = L[F.clust], G.clust \in Clusters, G.sclust = F.sclust
  PROVE  G.clust \in Chain(L, F.sclust) /\ Behinds(L, G) = Behinds(L, F) + 1
<1>1. F.sclust \in Clusters /\ F.clust \in Clusters
  BY ChainClusters DEF Begins, First
<1>2. G.clust \in Chain(L, F.sclust)
  BY <1>1, ChainIs DEF Follows
<1>3. Cardinality(Chain(L, F.clust)) = Cardinality(Chain(L, G.clust)) + 1
  BY ChainEnds DEF Wired, Begins
<1> QED BY <1>2, <1>3, ChainSize DEF Behinds

LEMMA FollowIs ==
  ASSUME NEW s, NEW T, NEW io, NEW fd, NEW n, fd \notin DOMAIN io, FI(s, T, io, fd, n), OK(s),
         Placed(VL(s), s.fp), s.fp.fptr % SS = 0
  PROVE  LET a == Follow(s)
         IN /\ FI(a, T, io, fd, n) /\ VL(a) = VL(s) /\ VD(a) = VD(s) /\ Others(s, a, CardFile)
            /\ Rests(s.fp, a.fp, {"clust"}) /\ Keeps(s.fp, a.fp)
            /\ OK(a) => Begun(VL(a), a.fp)
<1> DEFINE L == VL(s)
           F == s.fp
           g == IF F.fptr = 0 THEN s ELSE GetFat(s, F.clust)
           c == IF F.fptr = 0 THEN F.sclust ELSE Link(g, F.clust)
           x == [g EXCEPT !.fp.clust = c]
           f == Fail(g, "INT_ERR")
<1>0. /\ FileIn(L, VD(s), F, n) /\ TreeI(L, VD(s), {}) /\ DOMAIN s = Fields /\ Wired(L)
      /\ DOMAIN F = FilFields /\ s.mounted /\ FilOK(F) /\ L \in LinkFcns
      /\ MI(s, T, {}, With(io, fd, n, F), fd)
  BY FileOf
<1>1. /\ MI(g, T, {}, With(io, fd, n, F), fd) /\ VL(g) = L /\ VD(g) = VD(s) /\ Others(s, g, WinFields)
      /\ OK(g) /\ F.fptr # 0 => F.clust \in Clusters /\ c = L[F.clust]
  <2>1. CASE F.fptr = 0
    BY <1>0, <2>1 DEF Others
  <2>2. CASE F.fptr # 0
    <3> DEFINE y == GetFat(s, F.clust)
    <3>1. /\ MI(y, T, {}, With(io, fd, n, F), fd) /\ VL(y) = L /\ VD(y) = VD(s) /\ Others(s, y, WinFields)
          /\ OK(y) => F.clust \in Clusters /\ Link(y, F.clust) = L[F.clust]
      BY <1>0, GetFatIs
    <3>2. g = y /\ c = Link(y, F.clust)
      BY <2>2
    <3> HIDE DEF y, g, c
    <3> QED BY <3>1, <3>2
  <2> QED BY <2>1, <2>2
<1>2. Follow(s) = IF OK(g) THEN IF c \in Clusters THEN x ELSE f ELSE g
  <2> HIDE DEF g
  <2>1. g.fp = F
    BY <1>1, OthersIs
  <2> QED BY <2>1 DEF Follow, Then, g
<1> HIDE DEF g
<1>3. g.fp = F /\ g.mounted /\ FI(g, T, io, fd, n) /\ DOMAIN g = Fields
  BY <1>0, <1>1, OthersIs DEF FI, MI, Base
<1>4. CASE ~OK(g)
  BY <1>0, <1>1, <1>2, <1>3, <1>4, CardFileIs DEF Rests, Keeps
<1>5. CASE OK(g) /\ c \notin Clusters
  <2>1. /\ MI(f, T, {}, With(io, fd, n, F), fd) /\ VL(f) = VL(g) /\ VD(f) = VD(g)
        /\ Others(g, f, {"res"}) /\ ~OK(f) /\ f.mounted
    BY <1>1, <1>3, FailIs DEF Results
  <2>2. Follow(s) = f
    BY <1>2, <1>5
  <2> HIDE DEF f
  <2>3. Others(g, f, WinFields)
    BY <2>1 DEF Others, WinFields
  <2>4. f.fp = F /\ Others(s, f, CardFile) /\ FI(f, T, io, fd, n)
    BY <1>0, <1>1, <1>3, <2>1, <2>3, OthersIs, CardFileIs DEF FI
  <2> QED BY <1>0, <1>1, <2>1, <2>2, <2>4 DEF Rests, Keeps
<1>6. CASE OK(g) /\ c \in Clusters
  <2> DEFINE G == [F EXCEPT !.clust = c]
  <2>1. DOMAIN x = Fields /\ Others(g, x, {"fp"}) /\ x.fp = G
    BY <1>3 DEF Fields, Others
  <2>2. Rests(F, G, {"clust"}) /\ Keeps(F, G) /\ G.clust = c
    BY <1>0 DEF Rests, Keeps, FilFields
  <2>3. Follow(s) = x
    BY <1>2, <1>6
  <2>4. Begun(L, G)
    <3>1. G.sclust = F.sclust /\ G.fptr = F.fptr /\ F.fptr \in Nat
      BY <1>0, <2>2 DEF Rests, FilFields, FilOK
    <3> HIDE DEF G
    <3>2. CASE F.fptr = 0
      <4> HIDE DEF c
      <4>1. c = F.sclust
        BY <3>2 DEF c
      <4>2. c \in Chain(L, c) /\ Behinds(L, G) = 0
        BY <1>6, <2>2, <3>1, <4>1, ChainIs, BehindsIs
      <4> QED BY <2>2, <3>1, <3>2, <4>1, <4>2, Times, Numbers DEF Begun
    <3>3. CASE F.fptr # 0
      <4>1. c = L[F.clust] /\ F.clust \in Chain(L, F.sclust) /\ F.fptr <= SS * (Behinds(L, F) + 1)
        BY <1>1, <1>6, <3>1, <3>3 DEF Placed
      <4>2. Begins(L, F.sclust)
        BY <1>0, <4>1, DataCluster DEF FileIn
      <4>3. G.clust \in Chain(L, F.sclust) /\ Behinds(L, G) = Behinds(L, F) + 1
        <5>1. G.clust = L[F.clust] /\ G.clust \in Clusters
          BY <1>6, <2>2, <4>1
        <5> QED BY <1>0, <3>1, <4>1, <4>2, <5>1, BehindsNext
      <4> QED BY <3>1, <4>1, <4>3 DEF Begun
    <3> QED BY <3>2, <3>3
  <2> HIDE DEF x, G, c
  <2>5. FilOK(G) /\ FileIn(VL(g), VD(g), G, n) /\ G.sclust = F.sclust
    BY <1>0, <1>1, <2>2, FileKeep DEF FilOK, Rests, FilFields
  <2>6. FI(x, T, io, fd, n) /\ VL(x) = VL(g) /\ VD(x) = VD(g)
    BY <1>3, <2>1, <2>5, FileStep, CardFileIs
  <2>7. Others(s, x, CardFile)
    BY <1>1, <2>1, CardFileIs, OthersIs
  <2> QED BY <1>1, <2>1, <2>2, <2>3, <2>4, <2>6, <2>7
<1> QED BY <1>4, <1>5, <1>6

(* The file is in a cluster of its own, which it does not leave up to the  *)
(* end of the sector.                                                      *)
Ready(L, F) ==
  /\ F.fptr \in Nat /\ F.clust \in Chain(L, F.sclust)
  /\ F.fptr + (SS - (F.fptr % SS)) <= SS * (Behinds(L, F) + 1)
  /\ F.fptr % SS # 0 => F.sect \in Chain(L, F.sclust)

LEMMA ReadyIs ==
  ASSUME NEW L, NEW F, F.fptr \in Nat,
         IF F.fptr % SS = 0 THEN Begun(L, F) ELSE Placed(L, F)
  PROVE  Ready(L, F)
<1>1. /\ Behinds(L, F) \in Int /\ SS * (Behinds(L, F) + 1) = SS * Behinds(L, F) + SS
      /\ SS * Behinds(L, F) \in Int /\ SS \in Nat /\ SS > 0
  BY BehindsIs, Times, Numbers
<1>2. CASE F.fptr % SS = 0
  BY <1>1, <1>2 DEF Ready, Begun
<1>3. CASE F.fptr % SS # 0
  <2>1. F.fptr # 0
    <3>1. 0 % SS = 0
      BY Numbers
    <3> QED BY <1>3, <3>1
  <2>2. F.clust \in Chain(L, F.sclust) /\ F.fptr <= SS * (Behinds(L, F) + 1)
    BY <1>3, <2>1 DEF Placed
  <2>3. F.fptr + (SS - (F.fptr % SS)) <= SS * (Behinds(L, F) + 1)
    <3>1. Behinds(L, F) + 1 \in Int /\ F.fptr \in Nat
      BY <1>1
    <3> QED BY <1>3, <2>2, <3>1, ModUp
  <2> QED BY <1>3, <2>2, <2>3 DEF Ready, Placed
<1> QED BY <1>2, <1>3

LEMMA ReadyOn ==
  ASSUME NEW L, NEW F, Ready(L, F), NEW G, NEW cnt \in Nat, cnt <= SS - (F.fptr % SS),
         G.clust = F.clust, G.sclust = F.sclust, G.fptr = F.fptr + cnt,
         G.fptr % SS # 0 => G.sect \in Chain(L, G.sclust)
  PROVE  Placed(L, G)
<1>1. Behinds(L, G) = Behinds(L, F) /\ SS * (Behinds(L, F) + 1) \in Int
  <2>1. Behinds(L, G) = Behinds(L, F)
    BY DEF Behinds
  <2>2. Behinds(L, F) \in Int
    BY BehindsIs
  <2> QED BY <2>1, <2>2, Times
<1>2. F.fptr \in Nat /\ F.fptr % SS \in Nat /\ SS \in Nat
  BY Mods, Numbers DEF Ready
<1>3. F.fptr + cnt <= F.fptr + (SS - (F.fptr % SS))
  BY <1>2
<1>4. G.fptr \in Nat /\ G.fptr <= SS * (Behinds(L, G) + 1)
  BY <1>1, <1>2, <1>3 DEF Ready
<1> QED BY <1>4 DEF Ready, Placed

(* Bytes are taken.                                                        *)
LEMMA TakenIs ==
  ASSUME NEW s, NEW T, NEW io, NEW fd, NEW n, fd \notin DOMAIN io, FI(s, T, io, fd, n),
         NEW sector, NEW cnt \in Nat
  PROVE  LET a == [Taken(s, sector, cnt) EXCEPT !.rest = @ - cnt]
         IN /\ FI(a, T, io, fd, n) /\ VL(a) = VL(s) /\ VD(a) = VD(s) /\ (OK(a) <=> OK(s))
            /\ Rests(s.fp, a.fp, {"fptr"}) /\ Keeps(s.fp, a.fp)
            /\ a.fp.fptr = s.fp.fptr + cnt /\ a.rest = s.rest - cnt
<1> DEFINE a == [Taken(s, sector, cnt) EXCEPT !.rest = @ - cnt]
           G == [s.fp EXCEPT !.fptr = @ + cnt]
<1>0. /\ FileIn(VL(s), VD(s), s.fp, n) /\ DOMAIN s = Fields
      /\ DOMAIN s.fp = FilFields /\ FilOK(s.fp)
  BY FileOf
<1>1. /\ DOMAIN a = Fields /\ Others(s, a, {"fp", "out", "rest"}) /\ a.fp = G /\ a.rest = s.rest - cnt
  BY <1>0 DEF Taken, Fields, Others
<1>2. Rests(s.fp, G, {"fptr"}) /\ Keeps(s.fp, G) /\ G.fptr = s.fp.fptr + cnt
  BY <1>0 DEF Rests, Keeps, FilFields
<1> HIDE DEF a, G
<1>3. FilOK(G) /\ FileIn(VL(s), VD(s), G, n) /\ G.sclust = s.fp.sclust
  BY <1>0, <1>2, FileKeep DEF FilOK, Rests, FilFields
<1>4. Others(s, a, OwnFields)
  BY <1>1 DEF Others, OwnFields
<1>5. FI(a, T, io, fd, n) /\ VL(a) = VL(s) /\ VD(a) = VD(s) /\ (OK(a) <=> OK(s))
  BY <1>1, <1>3, <1>4, FileStep
<1> QED BY <1>1, <1>2, <1>5 DEF a

(* What a read or a write may change of the file's record.                 *)
Moved == {"flags", "buf", "sect", "clust", "fptr"}

LEMMA ReadTurnIs ==
  ASSUME NEW s, NEW T, NEW io, NEW fd, NEW n, fd \notin DOMAIN io, FI(s, T, io, fd, n), OK(s),
         Placed(VL(s), s.fp), s.rest \in Nat, s.fp.fptr + s.rest <= s.fp.size
  PROVE  LET a == ReadTurn(s)
         IN /\ FI(a, T, io, fd, n) /\ VL(a) = VL(s) /\ VD(a) = VD(s)
            /\ Rests(s.fp, a.fp, Moved) /\ Keeps(s.fp, a.fp)
            /\ OK(a) => /\ Placed(VL(a), a.fp) /\ a.rest \in Nat
                        /\ a.fp.fptr + a.rest <= a.fp.size
<1> DEFINE L == VL(s)
           F == s.fp
           a == IF AtBoundary(s) THEN Follow(s) ELSE s
           b == Access(a)
           x == [Taken(b, SectorNow(b, b.fp.clust), SS) EXCEPT !.rest = @ - SS]
           cnt == Min({SS - (a.fp.fptr % SS), s.rest})
           e == IF AtBoundary(a) THEN Buffered(a, a.fp.clust) ELSE a
           y == [Taken(e, e.fp.buf, cnt) EXCEPT !.rest = @ - cnt]
<1>0. /\ FileIn(L, VD(s), F, n) /\ DOMAIN s = Fields /\ DOMAIN F = FilFields /\ FilOK(F)
      /\ F.fptr \in Nat /\ F.size \in Nat /\ SS \in Nat /\ SS > 0
  BY FileOf, Numbers DEF FilOK, FileIn
<1>1. CASE s.rest = 0
  <2>1. ReadTurn(s) = s
    BY <1>1 DEF ReadTurn
  <2> QED BY <1>0, <2>1 DEF Rests, Keeps
<1>2. CASE s.rest # 0
  <2>1. ReadTurn(s) =
          IF OK(a) THEN IF AtBoundary(a) /\ s.rest >= SS THEN IF OK(b) THEN x ELSE b
                        ELSE IF OK(e) THEN y ELSE e
          ELSE a
    BY <1>2 DEF ReadTurn, Then
  <2>2. /\ FI(a, T, io, fd, n) /\ VL(a) = L /\ VD(a) = VD(s) /\ Others(s, a, CardFile)
        /\ Rests(F, a.fp, {"clust"}) /\ Keeps(F, a.fp)
        /\ OK(a) => IF F.fptr % SS = 0 THEN Begun(L, a.fp) ELSE Placed(L, a.fp)
    <3>1. CASE AtBoundary(s)
      <4> DEFINE f == Follow(s)
      <4>1. /\ FI(f, T, io, fd, n) /\ VL(f) = VL(s) /\ VD(f) = VD(s) /\ Others(s, f, CardFile)
            /\ Rests(s.fp, f.fp, {"clust"}) /\ Keeps(s.fp, f.fp)
            /\ OK(f) => Begun(VL(f), f.fp)
        BY <3>1, FollowIs DEF AtBoundary
      <4>2. a = f
        BY <3>1
      <4> HIDE DEF f, a
      <4> QED BY <3>1, <4>1, <4>2 DEF AtBoundary
    <3>2. CASE ~AtBoundary(s)
      BY <1>0, <3>2 DEF AtBoundary, Rests, Keeps, Others
    <3> QED BY <3>1, <3>2
  <2> HIDE DEF a
  <2>3. Rests(F, a.fp, Moved) /\ a.rest = s.rest
    BY <2>2, RestsIs, CardFileIs DEF Moved
  <2>4. CASE ~OK(a)
    BY <2>1, <2>2, <2>3, <2>4
  <2>5. CASE OK(a)
    <3>0. a.fp.fptr = F.fptr /\ a.fp.size = F.size /\ DOMAIN a = Fields /\ FilOK(a.fp)
      BY <2>2, FileOf DEF Rests, FilFields
    <3>1. Ready(L, a.fp)
      BY <1>0, <2>2, <2>5, <3>0, ReadyIs
    <3>2. CASE AtBoundary(a) /\ s.rest >= SS
      <4>1. /\ MI(b, T, {}, With(io, fd, n, a.fp), fd) /\ VL(b) = VL(a) /\ VD(b) = VD(a)
            /\ Others(a, b, WinFields)
        BY <2>2, <2>5, FileOf, AccessMI
      <4> HIDE DEF b
      <4>2. b.fp = a.fp /\ b.rest = s.rest /\ FI(b, T, io, fd, n)
        BY <2>2, <2>3, <4>1, OthersIs DEF FI
      <4>3. CASE ~OK(b)
        BY <2>1, <2>2, <2>3, <2>5, <3>2, <4>1, <4>2, <4>3
      <4>4. CASE OK(b)
        <5>1. /\ FI(x, T, io, fd, n) /\ VL(x) = VL(b) /\ VD(x) = VD(b) /\ (OK(x) <=> OK(b))
              /\ Rests(b.fp, x.fp, {"fptr"}) /\ Keeps(b.fp, x.fp)
              /\ x.fp.fptr = b.fp.fptr + SS /\ x.rest = b.rest - SS
          BY <1>0, <4>2, TakenIs
        <5>2. ReadTurn(s) = x
          BY <2>1, <2>5, <3>2, <4>4
        <5> HIDE DEF x
        <5>3. Rests(F, x.fp, Moved) /\ Keeps(F, x.fp)
          <6>1. Rests(b.fp, x.fp, Moved)
            BY <5>1, RestsIs DEF Moved
          <6> QED BY <2>2, <2>3, <4>2, <5>1, <6>1, RestsIs
        <5>4. x.fp.clust = a.fp.clust /\ x.fp.sclust = a.fp.sclust /\ x.fp.size = F.size
          BY <3>0, <4>2, <5>1 DEF Rests, FilFields
        <5>5. Placed(L, x.fp)
          <6>1. a.fp.fptr % SS = 0
            BY <3>2 DEF AtBoundary
          <6>2. x.fp.fptr % SS = 0
            BY <1>0, <3>0, <4>2, <5>1, <6>1, ModNext
          <6> QED BY <1>0, <3>1, <4>2, <5>1, <5>4, <6>1, <6>2, ReadyOn
        <5>6. x.rest \in Nat /\ x.fp.fptr + x.rest <= x.fp.size
          BY <1>0, <3>0, <3>2, <4>2, <5>1, <5>4
        <5> QED BY <2>2, <4>1, <5>1, <5>2, <5>3, <5>5, <5>6
      <4> QED BY <4>3, <4>4
    <3>3. CASE ~(AtBoundary(a) /\ s.rest >= SS)
      <4>1. cnt \in Nat /\ cnt <= SS - (a.fp.fptr % SS) /\ cnt <= s.rest
        <5>1. a.fp.fptr % SS \in Nat /\ a.fp.fptr % SS < SS
          BY <1>0, <3>0, Mods
        <5>2. SS - (a.fp.fptr % SS) \in Int /\ SS - (a.fp.fptr % SS) >= 0
          BY <1>0, <5>1
        <5>3. cnt = IF SS - (a.fp.fptr % SS) <= s.rest THEN SS - (a.fp.fptr % SS) ELSE s.rest
          BY <5>2, MinMax
        <5> HIDE DEF cnt
        <5> QED BY <5>2, <5>3
      <4> HIDE DEF cnt
      <4>2. /\ FI(e, T, io, fd, n) /\ VL(e) = L /\ VD(e) = VD(s) /\ Others(a, e, CardFile)
            /\ Rests(a.fp, e.fp, {"flags", "buf", "sect"}) /\ Keeps(a.fp, e.fp)
            /\ OK(e) => e.fp.sect \in Chain(L, e.fp.sclust)
        <5>1. CASE AtBoundary(a)
          <6> DEFINE f == Buffered(a, a.fp.clust)
          <6>1. a.fp.clust \in Chain(VL(a), a.fp.sclust)
            BY <2>2, <3>1 DEF Ready
          <6>2. /\ FI(f, T, io, fd, n) /\ VL(f) = VL(a) /\ VD(f) = VD(a) /\ Others(a, f, CardFile)
                /\ Rests(a.fp, f.fp, {"flags", "buf", "sect"}) /\ Keeps(a.fp, f.fp)
                /\ OK(f) => f.fp.sect = a.fp.clust
            BY <2>2, <2>5, <6>1, BufferedIs
          <6>3. e = f
            BY <5>1
          <6> HIDE DEF f, e
          <6>4. e.fp.sclust = a.fp.sclust
            BY <6>2, <6>3 DEF Rests, FilFields
          <6> QED BY <2>2, <6>1, <6>2, <6>3, <6>4
        <5>2. CASE ~AtBoundary(a)
          <6>1. e = a
            BY <5>2
          <6> HIDE DEF e
          <6>2. DOMAIN a.fp = FilFields
            BY <3>0 DEF FilOK
          <6> QED BY <2>2, <3>1, <5>2, <6>1, <6>2 DEF Rests, Keeps, Others, AtBoundary, Ready
        <5> QED BY <5>1, <5>2
      <4> HIDE DEF e
      <4>3. Rests(F, e.fp, Moved) /\ Keeps(F, e.fp) /\ e.rest = s.rest
        <5>1. Rests(a.fp, e.fp, Moved)
          BY <4>2, RestsIs DEF Moved
        <5> QED BY <2>2, <2>3, <4>2, <5>1, RestsIs, CardFileIs
      <4>4. CASE ~OK(e)
        BY <2>1, <2>5, <3>3, <4>2, <4>3, <4>4
      <4>5. CASE OK(e)
        <5>1. /\ FI(y, T, io, fd, n) /\ VL(y) = VL(e) /\ VD(y) = VD(e) /\ (OK(y) <=> OK(e))
              /\ Rests(e.fp, y.fp, {"fptr"}) /\ Keeps(e.fp, y.fp)
              /\ y.fp.fptr = e.fp.fptr + cnt /\ y.rest = e.rest - cnt
          BY <4>1, <4>2, TakenIs
        <5>2. ReadTurn(s) = y
          BY <2>1, <2>5, <3>3, <4>5
        <5> HIDE DEF y
        <5>3. Rests(F, y.fp, Moved) /\ Keeps(F, y.fp)
          <6>1. Rests(e.fp, y.fp, Moved)
            BY <5>1, RestsIs DEF Moved
          <6> QED BY <4>3, <5>1, <6>1, RestsIs
        <5>4. /\ y.fp.clust = a.fp.clust /\ y.fp.sclust = a.fp.sclust /\ y.fp.size = F.size
              /\ y.fp.sect = e.fp.sect /\ e.fp.fptr = a.fp.fptr /\ e.fp.sclust = a.fp.sclust
          BY <3>0, <4>2, <5>1 DEF Rests, FilFields
        <5>5. Placed(L, y.fp)
          BY <3>1, <4>1, <4>2, <4>5, <5>1, <5>4, ReadyOn
        <5>6. y.rest \in Nat /\ y.fp.fptr + y.rest <= y.fp.size
          BY <1>0, <3>0, <4>1, <4>3, <5>1, <5>4
        <5> QED BY <4>2, <5>1, <5>2, <5>3, <5>5, <5>6
      <4> QED BY <4>4, <4>5
    <3> QED BY <3>2, <3>3
  <2> QED BY <2>4, <2>5
<1> QED BY <1>1, <1>2

(* The turns of a read.                                                    *)
ReadStep(a) == Then(a, ReadTurn)
LEMMA ReadRun ==
  ASSUME NEW s, NEW n \in Nat
  PROVE  \E f : /\ f[0] = s /\ \A k \in 0 .. n - 1 : f[k + 1] = ReadStep(f[k])
                /\ Repeat(s, ReadStep, n) = f[n]
<1> DEFINE Run(f, m) == f = [k \in 0 .. m |-> IF k = 0 THEN s ELSE ReadStep(f[k - 1])]
           S == {m \in Nat : \E f : Run(f, m)}
<1> HIDE DEF ReadStep
<1>1. 0 \in S
  <2>1. Run([k \in 0 .. 0 |-> s], 0)
    OBVIOUS
  <2> QED BY <2>1
<1>2. ASSUME NEW m \in Nat, m \in S PROVE m + 1 \in S
  <2>1. PICK f : Run(f, m)
    BY <1>2
  <2> DEFINE g == [k \in 0 .. m + 1 |-> IF k <= m THEN f[k] ELSE ReadStep(f[m])]
  <2>2. Run(g, m + 1)
    <3>1. ASSUME NEW k \in 0 .. m + 1 PROVE g[k] = IF k = 0 THEN s ELSE ReadStep(g[k - 1])
      <4>1. CASE k = m + 1
        BY <4>1
      <4>2. CASE k <= m
        BY <4>2, <2>1
      <4> QED BY <4>1, <4>2
    <3> QED BY <3>1
  <2> HIDE DEF g, Run
  <2> QED BY <2>2
<1>3. n \in S
  <2> HIDE DEF S
  <2> QED BY <1>1, <1>2, UpTo
<1>4. PICK g : Run(g, n)
  BY <1>3
<1> DEFINE after == CHOOSE f : Run(f, n)
<1>5. Run(after, n)
  BY <1>4
<1>6. Repeat(s, ReadStep, n) = after[n]
  BY DEF Repeat
<1>7. after[0] = s /\ \A k \in 0 .. n - 1 : after[k + 1] = ReadStep(after[k])
  <2> HIDE DEF after
  <2> QED BY <1>5
<1> QED BY <1>6, <1>7

LEMMA ReadLoopIs ==
  ASSUME NEW s, NEW T, NEW io, NEW fd, NEW n, fd \notin DOMAIN io, FI(s, T, io, fd, n), OK(s),
         Placed(VL(s), s.fp), NEW cnt \in Nat, s.fp.fptr + cnt <= s.fp.size
  PROVE  LET a == ReadLoop(s, cnt)
         IN /\ FI(a, T, io, fd, n) /\ VL(a) = VL(s) /\ VD(a) = VD(s)
            /\ Rests(s.fp, a.fp, Moved) /\ Keeps(s.fp, a.fp)
            /\ OK(a) => Placed(VL(a), a.fp) /\ a.fp.fptr <= a.fp.size
<1> DEFINE z == [s EXCEPT !.rest = cnt]
           I(a) == /\ FI(a, T, io, fd, n) /\ VL(a) = VL(s) /\ VD(a) = VD(s)
                   /\ Rests(s.fp, a.fp, Moved) /\ Keeps(s.fp, a.fp)
                   /\ OK(a) => /\ Placed(VL(a), a.fp) /\ a.rest \in Nat
                               /\ a.fp.fptr + a.rest <= a.fp.size
<1>0. DOMAIN s = Fields /\ FileIn(VL(s), VD(s), s.fp, n) /\ FilOK(s.fp) /\ DOMAIN s.fp = FilFields
  BY FileOf
<1>1. DOMAIN z = Fields /\ Others(s, z, {"rest"}) /\ z.rest = cnt
  BY <1>0 DEF Fields, Others
<1>2. ReadLoop(s, cnt) = Repeat(z, ReadStep, cnt)
  BY DEF ReadLoop, Repeat, ReadStep
<1> HIDE DEF z
<1>3. I(z)
  <2>1. Others(s, z, OwnFields) /\ z.fp = s.fp
    BY <1>1 DEF Others, OwnFields, Fields
  <2>2. FI(z, T, io, fd, n) /\ VL(z) = VL(s) /\ VD(z) = VD(s)
    BY <1>0, <1>1, <2>1, FileStep
  <2> QED BY <1>0, <1>1, <2>1, <2>2 DEF Rests, Keeps
<1>4. ASSUME NEW a, I(a) PROVE I(ReadStep(a))
  <2>1. CASE ~OK(a)
    BY <1>4, <2>1 DEF ReadStep, Then
  <2>2. CASE OK(a)
    <3> DEFINE b == ReadTurn(a)
    <3>1. ReadStep(a) = b
      BY <2>2 DEF ReadStep, Then
    <3>2. /\ FI(b, T, io, fd, n) /\ VL(b) = VL(a) /\ VD(b) = VD(a)
          /\ Rests(a.fp, b.fp, Moved) /\ Keeps(a.fp, b.fp)
          /\ OK(b) => /\ Placed(VL(b), b.fp) /\ b.rest \in Nat
                      /\ b.fp.fptr + b.rest <= b.fp.size
      BY <1>4, <2>2, ReadTurnIs
    <3> HIDE DEF b
    <3>3. Rests(s.fp, b.fp, Moved) /\ Keeps(s.fp, b.fp)
      BY <1>4, <3>2, RestsIs
    <3> QED BY <1>4, <3>1, <3>2, <3>3
  <2> QED BY <2>1, <2>2
<1>5. PICK f : /\ f[0] = z /\ \A k \in 0 .. cnt - 1 : f[k + 1] = ReadStep(f[k])
               /\ Repeat(z, ReadStep, cnt) = f[cnt]
  BY ReadRun
<1> DEFINE S == {k \in 0 .. cnt : I(f[k])}
<1> HIDE DEF I
<1>6. 0 \in S
  BY <1>3, <1>5
<1>7. ASSUME NEW k \in 0 .. cnt - 1, k \in S PROVE k + 1 \in S
  <2>1. k + 1 \in 0 .. cnt /\ I(f[k]) /\ f[k + 1] = ReadStep(f[k])
    BY <1>5, <1>7
  <2>2. I(f[k + 1])
    BY <1>4, <2>1
  <2> QED BY <2>1, <2>2
<1>8. cnt \in S
  <2> HIDE DEF S
  <2> QED BY <1>6, <1>7, UpTo
<1>9. I(ReadLoop(s, cnt))
  BY <1>2, <1>5, <1>8
<1>10. ASSUME NEW a, I(a), OK(a) PROVE a.fp.fptr <= a.fp.size
  <2>1. FI(a, T, io, fd, n) /\ a.rest \in Nat /\ a.fp.fptr + a.rest <= a.fp.size
    BY <1>10 DEF I
  <2>2. a.fp.fptr \in Nat /\ a.fp.size \in Nat
    BY <2>1, FileOf DEF FilOK, FileIn
  <2> QED BY <2>1, <2>2
<1> QED BY <1>9, <1>10 DEF I

(* Between calls the pointer of a file that has not failed is in its place. *)
Sits(s) == s.fp.err = "OK" => Placed(VL(s), s.fp) /\ s.fp.fptr <= s.fp.size

LEMMA FailFile ==
  ASSUME NEW s, NEW T, NEW io, NEW fd, NEW n, fd \notin DOMAIN io, FI(s, T, io, fd, n),
         NEW r \in Results \ {"OK"}
  PROVE  LET a == Fail(s, r)
         IN /\ FI(a, T, io, fd, n) /\ VL(a) = VL(s) /\ VD(a) = VD(s) /\ a.fp = s.fp /\ ~OK(a)
            /\ Rests(s.fp, a.fp, Moved) /\ Keeps(s.fp, a.fp) /\ Others(s, a, {"res"})
<1> DEFINE f == Fail(s, r)
<1>1. MI(s, T, {}, With(io, fd, n, s.fp), fd) /\ s.mounted /\ FilOK(s.fp) /\ DOMAIN s.fp = FilFields
  BY FileOf
<1>2. /\ MI(f, T, {}, With(io, fd, n, s.fp), fd) /\ VL(f) = VL(s) /\ VD(f) = VD(s)
      /\ Others(s, f, {"res"}) /\ ~OK(f) /\ f.mounted = s.mounted
  BY <1>1, FailIs
<1> HIDE DEF f
<1>3. f.fp = s.fp
  BY <1>2 DEF Others, Fields
<1> QED BY <1>1, <1>2, <1>3 DEF FI, f, Rests, Keeps

LEMMA AbortIs ==
  ASSUME NEW s, NEW T, NEW io, NEW fd, NEW n, fd \notin DOMAIN io, FI(s, T, io, fd, n),
         OK(s) => Placed(VL(s), s.fp) /\ s.fp.fptr <= s.fp.size
  PROVE  LET a == Abort(s)
         IN /\ FI(a, T, io, fd, n) /\ VL(a) = VL(s) /\ VD(a) = VD(s) /\ Sits(a)
            /\ Keeps(s.fp, a.fp) /\ (OK(a) <=> OK(s))
<1> DEFINE G == [s.fp EXCEPT !.err = s.res]
           x == [s EXCEPT !.fp.err = s.res]
<1>0. /\ FileIn(VL(s), VD(s), s.fp, n) /\ DOMAIN s = Fields
      /\ DOMAIN s.fp = FilFields /\ FilOK(s.fp) /\ s.res \in Results
  BY FileOf
<1>1. CASE OK(s)
  BY <1>1 DEF Abort, Sits, Keeps
<1>2. CASE ~OK(s)
  <2>1. DOMAIN x = Fields /\ Others(s, x, {"fp"}) /\ x.fp = G /\ Abort(s) = x
    BY <1>0, <1>2 DEF Abort, Fields, Others
  <2>2. Rests(s.fp, G, {"err"}) /\ Keeps(s.fp, G) /\ G.err = s.res
    BY <1>0 DEF Rests, Keeps, FilFields
  <2> HIDE DEF x, G
  <2>3. FilOK(G) /\ FileIn(VL(s), VD(s), G, n) /\ G.sclust = s.fp.sclust
    BY <1>0, <2>2, FileKeep DEF FilOK, Rests, FilFields
  <2>4. FI(x, T, io, fd, n) /\ VL(x) = VL(s) /\ VD(x) = VD(s) /\ (OK(x) <=> OK(s))
    BY <2>1, <2>3, FileStep, CardFileIs
  <2> QED BY <1>2, <2>1, <2>2, <2>4 DEF Sits, OK
<1> QED BY <1>1, <1>2

LEMMA FreadIs ==
  ASSUME NEW s, NEW T, NEW io, NEW fd, NEW n, fd \notin DOMAIN io, FI(s, T, io, fd, n), OK(s),
         Sits(s), NEW cnt \in Nat
  PROVE  LET a == Fread(s, cnt)
         IN FI(a, T, io, fd, n) /\ VL(a) = VL(s) /\ VD(a) = VD(s) /\ Sits(a) /\ Keeps(s.fp, a.fp)
<1> DEFINE m == Min({cnt, s.fp.size - s.fp.fptr})
           l == ReadLoop(s, m)
<1>0. /\ FileIn(VL(s), VD(s), s.fp, n) /\ FilOK(s.fp) /\ s.fp.fptr \in Nat /\ s.fp.size \in Nat
  BY FileOf DEF FilOK, FileIn
<1>1. CASE s.fp.err # "OK"
  <2>1. s.fp.err \in Results \ {"OK"} /\ Fread(s, cnt) = Fail(s, s.fp.err)
    BY <1>0, <1>1 DEF FilOK, Fread
  <2> QED BY <1>1, <2>1, FailFile DEF Sits
<1>2. CASE s.fp.err = "OK" /\ ~Flag(s, "READ")
  <2>1. "DENIED" \in Results \ {"OK"} /\ Fread(s, cnt) = Fail(s, "DENIED")
    BY <1>2 DEF Fread, Results
  <2> QED BY <2>1, FailFile DEF Sits
<1>3. CASE s.fp.err = "OK" /\ Flag(s, "READ")
  <2>1. Fread(s, cnt) = Abort(l)
    BY <1>3 DEF Fread
  <2>2. Placed(VL(s), s.fp) /\ s.fp.fptr <= s.fp.size
    BY <1>3 DEF Sits
  <2>3. m \in Nat /\ s.fp.fptr + m <= s.fp.size
    <3>1. s.fp.size - s.fp.fptr \in Nat
      BY <1>0, <2>2
    <3>2. m = IF cnt <= s.fp.size - s.fp.fptr THEN cnt ELSE s.fp.size - s.fp.fptr
      BY <3>1, MinMax
    <3> HIDE DEF m
    <3> QED BY <1>0, <2>2, <3>1, <3>2
  <2> HIDE DEF m
  <2>4. /\ FI(l, T, io, fd, n) /\ VL(l) = VL(s) /\ VD(l) = VD(s) /\ Keeps(s.fp, l.fp)
        /\ OK(l) => Placed(VL(l), l.fp) /\ l.fp.fptr <= l.fp.size
    BY <2>2, <2>3, ReadLoopIs
  <2> HIDE DEF l
  <2> DEFINE a == Abort(l)
  <2>5. /\ FI(a, T, io, fd, n) /\ VL(a) = VL(l) /\ VD(a) = VD(l) /\ Sits(a)
        /\ Keeps(l.fp, a.fp)
    BY <2>4, AbortIs
  <2> HIDE DEF a
  <2>6. Keeps(s.fp, a.fp)
    BY <2>4, <2>5, RestsIs
  <2> QED BY <2>1, <2>4, <2>5, <2>6 DEF a
<1> QED BY <1>1, <1>2, <1>3

LEMMA Outside == \A S : \E x : x \notin S
<1> TAKE S
<1> DEFINE R == {y \in S : y \notin y}
<1>1. R \notin S
  OBVIOUS
<1> QED BY <1>1

(* A file in its place stays in it, whatever is added to the chains.       *)
LEMMA PlacedFile ==
  ASSUME NEW s, NEW T, NEW io, NEW fd, NEW n, NEW w, fd \notin DOMAIN io, FI(s, T, io, fd, n),
         w \notin DOMAIN io \cup {fd}, Placed(VL(s), s.fp)
  PROVE  MI(s, T, {}, With(io, fd, n, s.fp), w)
<1> DEFINE W == With(io, fd, n, s.fp)
<1>1. MI(s, T, {}, W, fd) /\ FilesIn(VL(s), VD(s), W, fd)
  BY FileOf DEF MI
<1>2. DOMAIN W = DOMAIN io \cup {fd} /\ W[fd].fil = s.fp
  BY DEF With
<1> HIDE DEF W
<1>3. FilesIn(VL(s), VD(s), W, w)
  BY <1>1, <1>2 DEF FilesIn
<1> QED BY <1>1, <1>3 DEF MI, W

LEMMA FilePlaced ==
  ASSUME NEW s, NEW T, NEW io, NEW fd, NEW n, NEW w, NEW F, fd \notin DOMAIN io,
         MI(s, T, {}, With(io, fd, n, F), w), w \notin DOMAIN io \cup {fd},
         s.fp = F, s.mounted, FilOK(F)
  PROVE  FI(s, T, io, fd, n) /\ (F.err = "OK" => Placed(VL(s), F))
<1> DEFINE W == With(io, fd, n, F)
<1>1. MI(s, T, {}, W, w) /\ FilesIn(VL(s), VD(s), W, w)
  BY DEF MI
<1>2. DOMAIN W = DOMAIN io \cup {fd} /\ W[fd].fil = F
  BY DEF With
<1> HIDE DEF W
<1>3. FilesIn(VL(s), VD(s), W, fd) /\ (F.err = "OK" => Placed(VL(s), F))
  BY <1>1, <1>2 DEF FilesIn
<1>4. MI(s, T, {}, W, fd)
  BY <1>1, <1>3 DEF MI
<1> QED BY <1>3, <1>4 DEF FI, W

(* The step may also give the file a chain, which nobody has.              *)
LEMMA FileStepNew ==
  ASSUME NEW s, NEW T, NEW io, NEW fd, NEW n, NEW a, fd \notin DOMAIN io, FI(s, T, io, fd, n),
         DOMAIN a = Fields, Others(s, a, OwnFields), FilOK(a.fp),
         FileIn(VL(s), VD(s), a.fp, n),
         \A f \in DOMAIN io : io[f].fil.sclust = a.fp.sclust => a.fp.sclust = 0
  PROVE  /\ FI(a, T, io, fd, n) /\ VL(a) = VL(s) /\ VD(a) = VD(s) /\ (OK(a) <=> OK(s))
         /\ a.res = s.res
<1>1. /\ MI(a, T, {}, With(io, fd, n, s.fp), fd) /\ VL(a) = VL(s) /\ VD(a) = VD(s)
      /\ a.mounted = s.mounted /\ a.res = s.res /\ (OK(a) <=> OK(s))
  <2>1. MI(s, T, {}, With(io, fd, n, s.fp), fd)
    BY DEF FI
  <2> QED BY <2>1, OwnIs
<1>2. FilesIn(VL(a), VD(a), With(io, fd, n, s.fp), fd)
  BY <1>1 DEF MI
<1>3. FilesIn(VL(a), VD(a), With(io, fd, n, a.fp), fd)
  <2>1. FilesIn(VL(a), VD(a), io, fd)
    BY <1>2, WithHas
  <2>2. \A f \in DOMAIN io : io[f].name # n
    BY <1>2, WithHas
  <2>3. /\ FileIn(VL(a), VD(a), a.fp, n)
        /\ (fd # fd /\ a.fp.err = "OK" => Placed(VL(a), a.fp))
        /\ \A f \in DOMAIN io : /\ io[f].name # n
                                /\ io[f].fil.sclust = a.fp.sclust => a.fp.sclust = 0
    BY <1>1, <2>2
  <2> QED BY <2>1, <2>3, WithIs
<1>4. MI(a, T, {}, With(io, fd, n, a.fp), fd)
  BY <1>1, <1>3 DEF MI
<1> QED BY <1>1, <1>4 DEF FI

(* A file without a cluster gets its first.                                *)
LEMMA FirstCluster ==
  ASSUME NEW L, NEW D, NEW F, NEW G, NEW n, NEW c, FileIn(L, D, F, n), F.sclust = 0,
         First(L, c), c # Root, L[c] = Eoc, \A p \in Live(D) : At(D, p).clust # c,
         G.sclust = c, G.size = F.size, G.entry = F.entry, G.flags = F.flags
  PROVE  FileIn(L, D, G, n)
<1>1. c \in Clusters /\ c # 0 /\ Eoc # 0
  BY Numbers DEF First
<1>2. Chain(L, 0) = {}
  BY NoChain, Numbers
<1>3. F.size <= SS * 0
  BY <1>2, FS_EmptySet DEF FileIn
<1>4. G.size <= SS * Cardinality(Chain(L, c))
  <2>1. SS * 0 <= SS * Cardinality(Chain(L, c)) /\ SS * Cardinality(Chain(L, c)) \in Int /\ SS * 0 \in Int
    BY ChainSize, Times, Numbers
  <2> QED BY <1>3, <2>1 DEF FileIn
<1>5. "DIRTY" \notin G.flags
  BY <1>2 DEF FileIn
<1>6. Begins(L, c)
  BY <1>1 DEF Begins
<1> QED BY <1>1, <1>4, <1>5, <1>6 DEF FileIn

LEMMA LinkFileIs ==
  ASSUME NEW s, NEW a
  PROVE  /\ Others(s, a, LinkFields) => a.rest = s.rest /\ a.fp = s.fp /\ a.out = s.out
         /\ Others(s, a, {"fp"}) =>
              /\ a.rest = s.rest /\ a.got = s.got /\ a.res = s.res /\ Others(s, a, OwnFields)
         /\ Others(s, a, {"got"}) =>
              /\ a.rest = s.rest /\ a.fp = s.fp /\ a.res = s.res /\ Others(s, a, OwnFields)
BY DEF Others, Fields, LinkFields, CardFields, OwnFields

LEMMA BegunFirst ==
  ASSUME NEW L, NEW F, F.clust = F.sclust, F.clust \in Clusters, F.fptr = 0
  PROVE  Begun(L, F)
<1>1. Behinds(L, F) = 0 /\ F.clust \in Chain(L, F.sclust)
  BY BehindsIs, ChainIs
<1>2. F.fptr <= SS * 0
  BY Numbers
<1> QED BY <1>1, <1>2 DEF Begun

LEMMA BegunNext ==
  ASSUME NEW L, Wired(L), NEW F, NEW G, Begins(L, F.sclust), Placed(L, F), F.fptr > 0,
         G.clust = L[F.clust], G.clust \in Clusters, G.sclust = F.sclust, G.fptr = F.fptr
  PROVE  Begun(L, G)
<1>1. F.clust \in Chain(L, F.sclust) /\ F.fptr <= SS * (Behinds(L, F) + 1)
  BY DEF Placed
<1>2. G.clust \in Chain(L, F.sclust) /\ Behinds(L, G) = Behinds(L, F) + 1
  BY <1>1, BehindsNext
<1> QED BY <1>1, <1>2 DEF Begun

(* The files' chains, and another's, stay in place when one grows.         *)
LEMMA ChainedIs ==
  ASSUME NEW s, NEW T, NEW io, NEW fd, NEW n, fd \notin DOMAIN io, FI(s, T, io, fd, n), OK(s),
         Placed(VL(s), s.fp), s.fp.err = "OK", NEW c
  PROVE  LET a == CreateChain(s, c)
         IN /\ FI(a, T, io, fd, n) /\ VD(a) = VD(s) /\ Others(s, a, LinkFields)
            /\ Placed(VL(a), a.fp)
            /\ OK(a) /\ a.got # 0 => Extended(s, a, c, With(io, fd, n, s.fp))
<1> DEFINE a == CreateChain(s, c)
           W == With(io, fd, n, s.fp)
<1>1. PICK w : w \notin DOMAIN io \cup {fd}
  BY Outside
<1>2. MI(s, T, {}, W, w)
  BY <1>1, PlacedFile
<1>3. s.mounted /\ FilOK(s.fp)
  BY FileOf
<1>4. /\ MI(a, T, {}, W, w) /\ VD(a) = VD(s) /\ Others(s, a, LinkFields) /\ a.mounted
      /\ OK(a) /\ a.got # 0 => Extended(s, a, c, W)
  BY <1>2, <1>3, CreateChainIs
<1> HIDE DEF a
<1>5. a.fp = s.fp
  BY <1>4, LinkFieldsIs
<1>6. FI(a, T, io, fd, n) /\ (s.fp.err = "OK" => Placed(VL(a), s.fp))
  BY <1>1, <1>3, <1>4, <1>5, FilePlaced
<1> QED BY <1>4, <1>5, <1>6 DEF a

LEMMA GrowIs ==
  ASSUME NEW s, NEW T, NEW io, NEW fd, NEW n, fd \notin DOMAIN io, FI(s, T, io, fd, n), OK(s),
         Placed(VL(s), s.fp), s.fp.err = "OK"
  PROVE  LET a == Grow(s)
         IN /\ FI(a, T, io, fd, n) /\ VD(a) = VD(s) /\ a.rest = s.rest
            /\ Rests(s.fp, a.fp, {"clust", "sclust"}) /\ Keeps(s.fp, a.fp)
            /\ OK(a) /\ a.got = 0 => Placed(VL(a), a.fp)
            /\ OK(a) /\ a.got # 0 => Begun(VL(a), a.fp)
<1> DEFINE F == s.fp
           b == IF F.fptr > 0 THEN CreateChain(s, F.clust)
                ELSE IF F.sclust = 0 THEN CreateChain(s, 0)
                ELSE [s EXCEPT !.got = F.sclust]
           G == [F EXCEPT !.clust = b.got, !.sclust = IF @ = 0 THEN b.got ELSE @]
           x == [b EXCEPT !.fp.clust = b.got, !.fp.sclust = IF @ = 0 THEN b.got ELSE @]
<1>0. /\ FileIn(VL(s), VD(s), F, n) /\ DOMAIN s = Fields /\ DOMAIN F = FilFields /\ FilOK(F)
      /\ F.fptr \in Nat /\ F.sclust \in Clusters \cup {0}
  BY FileOf DEF FilOK, FileIn
<1>1. Grow(s) = IF OK(b) THEN IF b.got = 0 THEN b ELSE x ELSE b
  BY DEF Grow, Then
<1>2. /\ FI(b, T, io, fd, n) /\ VD(b) = VD(s) /\ b.rest = s.rest /\ b.fp = F
      /\ Placed(VL(b), F)
  <2>1. ASSUME NEW c
        PROVE  LET a == CreateChain(s, c)
               IN FI(a, T, io, fd, n) /\ VD(a) = VD(s) /\ a.rest = s.rest /\ a.fp = F /\ Placed(VL(a), F)
    <3> DEFINE a == CreateChain(s, c)
    <3>1. FI(a, T, io, fd, n) /\ VD(a) = VD(s) /\ Others(s, a, LinkFields) /\ Placed(VL(a), a.fp)
      BY ChainedIs
    <3> HIDE DEF a
    <3>2. a.rest = s.rest /\ a.fp = s.fp
      BY <3>1, LinkFileIs
    <3> QED BY <3>1, <3>2 DEF a
  <2>2. CASE ~(F.fptr > 0 \/ F.sclust = 0)
    <3> DEFINE y == [s EXCEPT !.got = F.sclust]
    <3>1. DOMAIN y = Fields /\ Others(s, y, {"got"}) /\ y.fp = F
      BY <1>0 DEF Fields, Others
    <3>2. b = y
      BY <2>2
    <3> HIDE DEF y, b
    <3>3. Others(s, y, OwnFields) /\ y.rest = s.rest
      BY <3>1, LinkFileIs
    <3>4. FI(y, T, io, fd, n) /\ VL(y) = VL(s) /\ VD(y) = VD(s)
      BY <1>0, <3>1, <3>3, FileStep
    <3> QED BY <3>1, <3>2, <3>3, <3>4
  <2>3. CASE F.fptr > 0
    <3>1. b = CreateChain(s, F.clust)
      BY <2>3
    <3> HIDE DEF b
    <3> QED BY <2>1, <3>1
  <2>4. CASE ~(F.fptr > 0) /\ F.sclust = 0
    <3>1. b = CreateChain(s, 0)
      BY <2>4
    <3> HIDE DEF b
    <3> QED BY <2>1, <3>1
  <2> QED BY <2>2, <2>3, <2>4
<1>3. CASE ~OK(b) \/ b.got = 0
  <2>1. Grow(s) = b
    BY <1>1, <1>3
  <2> HIDE DEF b
  <2>2. Rests(F, F, {"clust", "sclust"}) /\ Keeps(F, F)
    BY <1>0 DEF Rests, Keeps
  <2> QED BY <1>2, <1>3, <2>1, <2>2
<1>4. CASE OK(b) /\ b.got # 0
  <2>1. FileIn(VL(b), VD(b), F, n) /\ DOMAIN b = Fields /\ Wired(VL(b))
    BY <1>2, FileOf
  <2>2. Grow(s) = x
    BY <1>1, <1>4
  <2>3. /\ b.got \in Clusters /\ G.sclust \in Clusters
        /\ FileIn(VL(b), VD(b), G, n) /\ Begun(VL(b), G)
        /\ \A f \in DOMAIN io : io[f].fil.sclust = G.sclust => G.sclust = 0
    <3>0. /\ G.clust = b.got /\ G.sclust = IF F.sclust = 0 THEN b.got ELSE F.sclust
          /\ G.size = F.size /\ G.entry = F.entry /\ G.flags = F.flags /\ G.fptr = F.fptr
          /\ G.sect = F.sect
      BY <1>0 DEF FilFields
    <3>1. CASE F.fptr > 0
      <4>1. b = CreateChain(s, F.clust)
        BY <3>1
      <4> HIDE DEF b, G
      <4>2. Extended(s, b, F.clust, With(io, fd, n, F))
        BY <1>4, <4>1, ChainedIs
      <4>3. F.clust \in Chain(VL(b), F.sclust)
        BY <1>2, <3>1 DEF Placed
      <4>4. F.sclust \in Clusters /\ F.clust \in Clusters /\ F.sclust # 0 /\ F.clust # 0
        BY <4>3, ChainClusters, NoChain, Numbers
      <4>5. b.got \in Clusters /\ VL(b)[F.clust] = b.got
        BY <4>2, <4>4 DEF Extended
      <4>6. Begins(VL(b), F.sclust)
        BY <2>1, <4>4 DEF FileIn
      <4>7. G.sclust = F.sclust
        BY <3>0, <4>4
      <4>8. FileIn(VL(b), VD(b), G, n)
        BY <2>1, <3>0, <4>7, FileKeep
      <4>9. Begun(VL(b), G)
        BY <1>2, <2>1, <3>0, <3>1, <4>5, <4>6, <4>7, BegunNext
      <4>10. \A f \in DOMAIN io : io[f].fil.sclust = F.sclust => F.sclust = 0
        BY <1>2, FileOf
      <4> QED BY <4>4, <4>5, <4>7, <4>8, <4>9, <4>10
    <3>2. CASE ~(F.fptr > 0) /\ F.sclust = 0
      <4>1. b = CreateChain(s, 0)
        BY <3>2
      <4> HIDE DEF b, G
      <4>2. Extended(s, b, 0, With(io, fd, n, F))
        BY <1>4, <4>1, ChainedIs
      <4>3. Fresh(s, b, 0, With(io, fd, n, F))
        BY <4>2 DEF Extended
      <4>4. b.got \in Clusters /\ VL(b)[b.got] = Eoc /\ Loose(b, b.got, With(io, fd, n, F))
        BY <4>3 DEF Fresh
      <4>5. /\ First(VL(b), b.got) /\ b.got # Root
            /\ \A p \in Live(VD(b)) : At(VD(b), p).clust # b.got
            /\ \A f \in DOMAIN io : io[f].fil.sclust # b.got
        BY <4>4 DEF Loose, With
      <4>6. G.sclust = b.got
        BY <3>0, <3>2
      <4>7. FileIn(VL(b), VD(b), G, n)
        BY <2>1, <3>0, <3>2, <4>4, <4>5, <4>6, FirstCluster
      <4>8. Begun(VL(b), G)
        BY <1>0, <3>0, <3>2, <4>4, <4>6, BegunFirst
      <4> QED BY <4>4, <4>5, <4>6, <4>7, <4>8
    <3>3. CASE ~(F.fptr > 0) /\ F.sclust # 0
      <4>1. b = [s EXCEPT !.got = F.sclust]
        BY <3>3
      <4>2. b.got = F.sclust
        BY <1>0, <4>1 DEF Fields
      <4> HIDE DEF b, G
      <4>3. F.sclust \in Clusters /\ G.sclust = F.sclust
        BY <1>0, <3>0, <3>3
      <4>4. FileIn(VL(b), VD(b), G, n)
        BY <2>1, <3>0, <4>3, FileKeep
      <4>5. Begun(VL(b), G)
        BY <1>0, <3>0, <3>3, <4>2, <4>3, BegunFirst
      <4>6. \A f \in DOMAIN io : io[f].fil.sclust = F.sclust => F.sclust = 0
        BY <1>2, FileOf
      <4> QED BY <4>2, <4>3, <4>4, <4>5, <4>6
    <3> QED BY <3>1, <3>2, <3>3
  <2>4. DOMAIN x = Fields /\ Others(b, x, {"fp"}) /\ x.fp = G
    <3> HIDE DEF b
    <3> QED BY <1>2, <2>1 DEF Fields, Others, G
  <2>5. Rests(F, G, {"clust", "sclust"}) /\ Keeps(F, G) /\ x.got = b.got
    <3> HIDE DEF b
    <3> QED BY <1>0, <2>1 DEF Rests, Keeps, FilFields, Fields, G
  <2> HIDE DEF x, G, b
  <2>6. FilOK(G)
    BY <1>0, <2>5 DEF FilOK, Rests, FilFields
  <2>7. Others(b, x, OwnFields) /\ x.rest = b.rest
    BY <2>4, LinkFileIs
  <2>8. FI(x, T, io, fd, n) /\ VL(x) = VL(b) /\ VD(x) = VD(b)
    BY <1>2, <2>3, <2>4, <2>6, <2>7, FileStepNew
  <2> QED BY <1>2, <1>4, <2>2, <2>3, <2>4, <2>5, <2>7, <2>8
<1> QED BY <1>3, <1>4

(* What a write may change of the file's record.                           *)
Written == {"flags", "buf", "sect", "clust", "fptr", "size", "sclust"}

LEMMA WroteFile ==
  ASSUME NEW L, NEW D, NEW F, NEW n, FileIn(L, D, F, n), FilOK(F), Ready(L, F),
         NEW G, NEW cnt \in Nat, cnt <= SS - (F.fptr % SS),
         Rests(F, G, {"flags", "buf", "sect", "fptr", "size"}),
         G.fptr = F.fptr + cnt, G.size = Max({F.size, F.fptr + cnt}), DOMAIN G.buf = 0 .. SS - 1,
         "DIRTY" \in G.flags => G.sect \in Chain(L, F.sclust),
         G.fptr % SS # 0 => G.sect \in Chain(L, F.sclust)
  PROVE  FileIn(L, D, G, n) /\ FilOK(G) /\ Placed(L, G) /\ G.fptr <= G.size
<1>1. /\ DOMAIN G = FilFields /\ G.err = F.err /\ G.clust = F.clust /\ G.sclust = F.sclust
      /\ G.entry = F.entry
  BY DEF Rests, FilFields
<1>2. /\ F.fptr \in Nat /\ F.size \in Nat /\ G.fptr \in Nat
      /\ G.size = IF F.size >= G.fptr THEN F.size ELSE G.fptr
  <2>1. F.fptr \in Nat /\ F.size \in Nat /\ G.fptr \in Nat
    BY DEF FilOK, FileIn
  <2>2. F.fptr + cnt \in Int /\ F.size \in Int
    BY <2>1
  <2>3. Max({F.size, F.fptr + cnt}) = IF F.size >= F.fptr + cnt THEN F.size ELSE F.fptr + cnt
    BY <2>2, MinMax
  <2> QED BY <2>1, <2>3
<1>3. Placed(L, G)
  BY <1>1, ReadyOn
<1>4. G.fptr <= SS * Cardinality(Chain(L, F.sclust))
  <2>1. F.clust \in Chain(L, F.sclust) /\ F.clust \in Clusters
    BY ChainClusters DEF Ready
  <2>2. /\ Cardinality(Chain(L, F.clust)) \in Nat /\ Cardinality(Chain(L, F.clust)) >= 1
        /\ Cardinality(Chain(L, F.sclust)) \in Nat
    BY <2>1, ChainSize
  <2>3. Behinds(L, F) + 1 <= Cardinality(Chain(L, F.sclust)) /\ Behinds(L, F) + 1 \in Int
    BY <2>2 DEF Behinds
  <2>4. /\ SS * (Behinds(L, F) + 1) <= SS * Cardinality(Chain(L, F.sclust))
        /\ SS * (Behinds(L, F) + 1) \in Int /\ SS * Cardinality(Chain(L, F.sclust)) \in Int
    BY <2>2, <2>3, Times
  <2>5. F.fptr % SS \in Nat /\ SS \in Nat
    BY <1>2, Mods, Numbers
  <2>6. F.fptr + (SS - (F.fptr % SS)) <= SS * (Behinds(L, F) + 1)
    BY DEF Ready
  <2> QED BY <1>2, <2>4, <2>5, <2>6
<1>5. G.size <= SS * Cardinality(Chain(L, F.sclust)) /\ G.size \in Nat /\ G.fptr <= G.size
  BY <1>2, <1>4 DEF FileIn
<1>6. FileIn(L, D, G, n)
  BY <1>1, <1>5 DEF FileIn
<1>7. FilOK(G)
  BY <1>1, <1>2 DEF FilOK
<1> QED BY <1>3, <1>5, <1>6, <1>7

LEMMA BehindIs ==
  ASSUME NEW s, NEW T, NEW io, NEW fd, NEW n, NEW x, NEW cnt \in Nat,
         fd \notin DOMAIN io, FI(s, T, io, fd, n),
         Ready(VL(s), s.fp), cnt <= SS - (s.fp.fptr % SS),
         DOMAIN x = Fields, Others(s, x, {"fp", "out"}),
         Rests(s.fp, x.fp, {"flags", "buf", "sect", "fptr", "size"}), Keeps(s.fp, x.fp),
         x.fp.fptr = s.fp.fptr + cnt, x.fp.size = Max({s.fp.size, s.fp.fptr + cnt}),
         DOMAIN x.fp.buf = 0 .. SS - 1,
         "DIRTY" \in x.fp.flags => x.fp.sect \in Chain(VL(s), s.fp.sclust),
         x.fp.fptr % SS # 0 => x.fp.sect \in Chain(VL(s), s.fp.sclust)
  PROVE  /\ FI(x, T, io, fd, n) /\ VL(x) = VL(s) /\ VD(x) = VD(s) /\ (OK(x) <=> OK(s))
         /\ Rests(s.fp, x.fp, Written) /\ x.rest = s.rest
         /\ Placed(VL(x), x.fp) /\ x.fp.fptr <= x.fp.size
<1> DEFINE L == VL(s)
           G == x.fp
<1>0. FileIn(L, VD(s), s.fp, n) /\ FilOK(s.fp)
  BY FileOf
<1>1. FileIn(L, VD(s), G, n) /\ FilOK(G) /\ Placed(L, G) /\ G.fptr <= G.size
  BY <1>0, WroteFile
<1>2. G.sclust = s.fp.sclust
  BY DEF Rests, FilFields
<1>3. Others(s, x, OwnFields) /\ x.rest = s.rest
  BY DEF Others, OwnFields, Fields
<1>4. FI(x, T, io, fd, n) /\ VL(x) = VL(s) /\ VD(x) = VD(s) /\ (OK(x) <=> OK(s))
  BY <1>1, <1>2, <1>3, FileStep
<1>5. Rests(s.fp, x.fp, Written)
  BY RestsIs DEF Written
<1> QED BY <1>1, <1>3, <1>4, <1>5

(* A whole sector is written.                                              *)
LEMMA WriteWholeIs ==
  ASSUME NEW s, NEW T, NEW io, NEW fd, NEW n, NEW bytes,
         fd \notin DOMAIN io, FI(s, T, io, fd, n), OK(s),
         Ready(VL(s), s.fp), s.fp.fptr % SS = 0, "DIRTY" \notin s.fp.flags, Len(bytes) = SS
  PROVE  LET a == WriteWhole(s, bytes)
         IN /\ FI(a, T, io, fd, n) /\ VL(a) = VL(s) /\ VD(a) = VD(s)
            /\ Rests(s.fp, a.fp, Written) /\ Keeps(s.fp, a.fp) /\ a.rest = s.rest
            /\ OK(a) => Placed(VL(a), a.fp) /\ a.fp.fptr <= a.fp.size
<1> DEFINE F == s.fp
           v == Patched(s, bytes)
           d == DiskWrite(s, F.clust, v)
           y == Behind([d EXCEPT !.fp.buf = v, !.fp.flags = @ \ {"DIRTY"}], bytes)
           z == Behind(d, bytes)
<1>0. /\ FileIn(VL(s), VD(s), F, n) /\ DOMAIN s = Fields /\ DOMAIN F = FilFields /\ FilOK(F)
      /\ F.fptr \in Nat /\ SS \in Nat /\ SS > 0 /\ TreeI(VL(s), VD(s), {}) /\ s.mounted
      /\ MI(s, T, {}, With(io, fd, n, F), fd)
  BY FileOf, Numbers DEF FilOK
<1>1. WriteWhole(s, bytes) = IF OK(d) THEN IF d.fp.sect = d.fp.clust THEN y ELSE z ELSE d
  BY DEF WriteWhole, Then
<1>2. DOMAIN v = 0 .. SS - 1
  BY DEF Patched
<1> HIDE DEF v
<1>3. F.clust \in Clusters /\ F.clust \notin DOMAIN VD(s) /\ F.clust \in Chain(VL(s), F.sclust)
  BY <1>0, DataCluster DEF Ready
<1>4. /\ MI(d, T, {}, With(io, fd, n, F), fd) /\ VL(d) = VL(s) /\ VD(d) = VD(s)
      /\ Others(s, d, WinFields)
  BY <1>0, <1>2, <1>3, DataWriteIs
<1> HIDE DEF d
<1>5. d.fp = F /\ d.rest = s.rest /\ FI(d, T, io, fd, n) /\ DOMAIN d = Fields
  <2>1. d.fp = F /\ d.rest = s.rest /\ d.mounted = s.mounted
    BY <1>4, OthersIs
  <2>2. FI(d, T, io, fd, n)
    BY <1>0, <1>4, <2>1 DEF FI
  <2> QED BY <2>1, <2>2, FileOf
<1>6. CASE ~OK(d)
  <2>1. Rests(F, F, Written) /\ Keeps(F, F)
    BY <1>0 DEF Rests, Keeps
  <2> QED BY <1>1, <1>4, <1>5, <1>6, <2>1
<1>7. CASE OK(d)
  <2> DEFINE x == IF d.fp.sect = d.fp.clust THEN y ELSE z
  <2>1. WriteWhole(s, bytes) = x
    BY <1>1, <1>7
  <2>2. DOMAIN y = Fields /\ Others(d, y, {"fp", "out"}) /\ DOMAIN z = Fields /\ Others(d, z, {"fp", "out"})
    BY <1>5 DEF Behind, Fields, Others
  <2>3. /\ Rests(F, y.fp, {"flags", "buf", "sect", "fptr", "size"}) /\ Keeps(F, y.fp)
        /\ y.fp.fptr = F.fptr + SS /\ y.fp.size = Max({F.size, F.fptr + SS}) /\ y.fp.buf = v
        /\ "DIRTY" \notin y.fp.flags
    <3> DEFINE e == [d EXCEPT !.fp.buf = v, !.fp.flags = @ \ {"DIRTY"}]
               E == [F EXCEPT !.buf = v, !.flags = @ \ {"DIRTY"}]
               G == [E EXCEPT !.fptr = @ + Len(bytes), !.size = Max({@, E.fptr + Len(bytes)})]
    <3>1. e.fp = E /\ DOMAIN e = Fields
      BY <1>0, <1>5 DEF Fields, FilFields
    <3>2. /\ DOMAIN E = FilFields /\ Rests(F, E, {"buf", "flags"}) /\ E.buf = v
          /\ E.flags = F.flags \ {"DIRTY"}
      BY <1>0 DEF Rests, FilFields
    <3>3. y = Behind(e, bytes)
      OBVIOUS
    <3> HIDE DEF E, e, y
    <3>4. y.fp = G
      BY <3>1, <3>3 DEF Behind, Fields
    <3>5. DOMAIN G = FilFields /\ Rests(E, G, {"fptr", "size"}) /\ G.fptr = E.fptr + Len(bytes)
          /\ G.size = Max({E.size, E.fptr + Len(bytes)})
      BY <3>2 DEF Rests, FilFields
    <3> HIDE DEF G
    <3>6. E.fptr = F.fptr /\ E.size = F.size
      BY <3>2 DEF Rests, FilFields
    <3> QED BY <3>2, <3>4, <3>5, <3>6 DEF Rests, Keeps, FilFields
  <2>4. /\ Rests(F, z.fp, {"flags", "buf", "sect", "fptr", "size"}) /\ Keeps(F, z.fp)
        /\ z.fp.fptr = F.fptr + SS /\ z.fp.size = Max({F.size, F.fptr + SS}) /\ z.fp.buf = F.buf
        /\ "DIRTY" \notin z.fp.flags
    BY <1>0, <1>5 DEF Behind, Fields, FilFields, Rests, Keeps
  <2> HIDE DEF y, z
  <2>5. /\ DOMAIN x = Fields /\ Others(d, x, {"fp", "out"})
        /\ Rests(F, x.fp, {"flags", "buf", "sect", "fptr", "size"}) /\ Keeps(F, x.fp)
        /\ x.fp.fptr = F.fptr + SS /\ x.fp.size = Max({F.size, F.fptr + SS})
        /\ DOMAIN x.fp.buf = 0 .. SS - 1 /\ "DIRTY" \notin x.fp.flags
    BY <1>0, <1>2, <2>2, <2>3, <2>4 DEF FilOK
  <2> HIDE DEF x
  <2>6. x.fp.fptr % SS = 0 /\ SS <= SS - (F.fptr % SS)
    <3>1. (F.fptr + SS) % SS = F.fptr % SS
      BY <1>0, ModNext
    <3>2. x.fp.fptr % SS = 0
      BY <2>5, <3>1
    <3>3. SS <= SS - 0
      BY <1>0
    <3> QED BY <3>2, <3>3
  <2>7. /\ FI(x, T, io, fd, n) /\ VL(x) = VL(d) /\ VD(x) = VD(d) /\ (OK(x) <=> OK(d))
        /\ Rests(d.fp, x.fp, Written) /\ x.rest = d.rest
        /\ Placed(VL(x), x.fp) /\ x.fp.fptr <= x.fp.size
    <3>1. /\ Ready(VL(d), d.fp) /\ SS <= SS - (d.fp.fptr % SS)
          /\ Rests(d.fp, x.fp, {"flags", "buf", "sect", "fptr", "size"}) /\ Keeps(d.fp, x.fp)
          /\ x.fp.fptr = d.fp.fptr + SS /\ x.fp.size = Max({d.fp.size, d.fp.fptr + SS})
      BY <1>4, <1>5, <2>5, <2>6
    <3>2. /\ DOMAIN x = Fields /\ Others(d, x, {"fp", "out"}) /\ DOMAIN x.fp.buf = 0 .. SS - 1
          /\ "DIRTY" \in x.fp.flags => x.fp.sect \in Chain(VL(d), d.fp.sclust)
          /\ x.fp.fptr % SS # 0 => x.fp.sect \in Chain(VL(d), d.fp.sclust)
          /\ SS \in Nat /\ FI(d, T, io, fd, n)
      BY <1>0, <1>5, <2>5, <2>6
    <3> HIDE DEF F
    <3> QED BY <3>1, <3>2, BehindIs
  <2> QED BY <1>4, <1>5, <2>1, <2>5, <2>7
<1> QED BY <1>6, <1>7

(* A part of a sector, through the buffer.                                 *)
LEMMA WritePartIs ==
  ASSUME NEW s, NEW T, NEW io, NEW fd, NEW n, NEW bytes,
         fd \notin DOMAIN io, FI(s, T, io, fd, n), OK(s),
         Ready(VL(s), s.fp), Len(bytes) \in Nat, Len(bytes) <= SS - (s.fp.fptr % SS)
  PROVE  LET a == WritePart(s, bytes)
         IN /\ FI(a, T, io, fd, n) /\ VL(a) = VL(s) /\ VD(a) = VD(s)
            /\ Rests(s.fp, a.fp, Written) /\ Keeps(s.fp, a.fp) /\ a.rest = s.rest
            /\ OK(a) => Placed(VL(a), a.fp) /\ a.fp.fptr <= a.fp.size
<1> DEFINE F == s.fp
           d == IF AtBoundary(s) /\ F.sect # F.clust /\ F.fptr < F.size
                THEN LoadBuffer(s, F.clust) ELSE s
           v == Patched(d, bytes)
           y == [d EXCEPT !.fp.sect = IF AtBoundary(s) THEN d.fp.clust ELSE @,
                          !.fp.buf = Patched(d, bytes), !.fp.flags = @ \cup {"DIRTY"}]
           x == Behind(y, bytes)
<1>0. DOMAIN s = Fields /\ DOMAIN F = FilFields /\ FilOK(F) /\ F.fptr \in Nat
  BY FileOf DEF FilOK
<1>1. WritePart(s, bytes) = IF OK(d) THEN x ELSE d
  BY DEF WritePart, Then
<1>2. /\ FI(d, T, io, fd, n) /\ VL(d) = VL(s) /\ VD(d) = VD(s) /\ Others(s, d, CardFile)
      /\ Rests(F, d.fp, {"buf"}) /\ Keeps(F, d.fp)
  <2>1. CASE AtBoundary(s) /\ F.sect # F.clust /\ F.fptr < F.size
    <3>1. d = LoadBuffer(s, F.clust)
      BY <2>1
    <3> HIDE DEF d
    <3>2. F.clust \in Chain(VL(s), F.sclust)
      BY DEF Ready
    <3> QED BY <3>1, <3>2, LoadBufferIs
  <2>2. CASE ~(AtBoundary(s) /\ F.sect # F.clust /\ F.fptr < F.size)
    <3>1. d = s
      BY <2>2
    <3> HIDE DEF d
    <3> QED BY <1>0, <3>1 DEF Others, Rests, Keeps
  <2> QED BY <2>1, <2>2
<1>3. DOMAIN v = 0 .. SS - 1
  BY DEF Patched
<1>4. DOMAIN d = Fields /\ DOMAIN d.fp = FilFields
  <2> HIDE DEF d
  <2> QED BY <1>2, FileOf
<1>5. /\ DOMAIN x = Fields /\ Others(d, x, {"fp", "out"})
      /\ Rests(d.fp, x.fp, {"flags", "buf", "sect", "fptr", "size"}) /\ Keeps(d.fp, x.fp)
      /\ x.fp.fptr = d.fp.fptr + Len(bytes) /\ x.fp.size = Max({d.fp.size, d.fp.fptr + Len(bytes)})
      /\ x.fp.buf = v /\ x.fp.sect = IF AtBoundary(s) THEN d.fp.clust ELSE d.fp.sect
  <2> HIDE DEF d, v
  <2>1. /\ DOMAIN y = Fields /\ Others(d, y, {"fp"})
        /\ DOMAIN y.fp = FilFields /\ Rests(d.fp, y.fp, {"flags", "buf", "sect"})
        /\ y.fp.buf = v /\ y.fp.flags = d.fp.flags \cup {"DIRTY"}
        /\ y.fp.sect = IF AtBoundary(s) THEN d.fp.clust ELSE d.fp.sect
    <3> DEFINE G == [d.fp EXCEPT !.sect = IF AtBoundary(s) THEN d.fp.clust ELSE @,
                                 !.buf = v, !.flags = @ \cup {"DIRTY"}]
    <3>1. y = [d EXCEPT !.fp = G]
      BY <1>4 DEF Fields, FilFields, v
    <3>2. /\ DOMAIN G = FilFields /\ Rests(d.fp, G, {"flags", "buf", "sect"})
          /\ G.buf = v /\ G.flags = d.fp.flags \cup {"DIRTY"}
          /\ G.sect = IF AtBoundary(s) THEN d.fp.clust ELSE d.fp.sect
      BY <1>4 DEF Rests, FilFields
    <3> HIDE DEF G, y
    <3>3. DOMAIN y = Fields /\ Others(d, y, {"fp"}) /\ y.fp = G
      BY <1>4, <3>1 DEF Fields, Others
    <3> QED BY <3>2, <3>3
  <2> HIDE DEF y
  <2>2. /\ DOMAIN x = Fields /\ Others(y, x, {"fp", "out"}) /\ DOMAIN x.fp = FilFields
        /\ x.fp.fptr = y.fp.fptr + Len(bytes)
        /\ x.fp.size = Max({y.fp.size, y.fp.fptr + Len(bytes)})
        /\ Rests(y.fp, x.fp, {"fptr", "size"})
    <3> DEFINE G == [y.fp EXCEPT !.fptr = @ + Len(bytes),
                                 !.size = Max({@, y.fp.fptr + Len(bytes)})]
    <3>1. x = [y EXCEPT !.fp = G, !.out = @ \o bytes]
      BY <2>1 DEF Behind, Fields, FilFields
    <3>2. /\ DOMAIN G = FilFields /\ Rests(y.fp, G, {"fptr", "size"})
          /\ G.fptr = y.fp.fptr + Len(bytes)
          /\ G.size = Max({y.fp.size, y.fp.fptr + Len(bytes)})
      BY <2>1 DEF Rests, FilFields
    <3> HIDE DEF G, x
    <3>3. DOMAIN x = Fields /\ Others(y, x, {"fp", "out"}) /\ x.fp = G
      BY <2>1, <3>1 DEF Fields, Others
    <3> QED BY <3>2, <3>3
  <2>3. Others(d, x, {"fp", "out"})
    BY <2>1, <2>2 DEF Others
  <2>4. /\ x.fp.buf = v /\ x.fp.flags = d.fp.flags \cup {"DIRTY"}
        /\ x.fp.sect = IF AtBoundary(s) THEN d.fp.clust ELSE d.fp.sect
        /\ y.fp.fptr = d.fp.fptr /\ y.fp.size = d.fp.size
    BY <2>1, <2>2 DEF Rests, FilFields
  <2>5. Rests(d.fp, x.fp, {"flags", "buf", "sect", "fptr", "size"}) /\ Keeps(d.fp, x.fp)
    BY <2>1, <2>2, <2>4 DEF Rests, Keeps, FilFields
  <2> HIDE DEF x
  <2> QED BY <2>1, <2>2, <2>3, <2>4, <2>5
<1> HIDE DEF d, v, x
<1>6. d.rest = s.rest /\ Rests(F, d.fp, Written)
  BY <1>2, CardFileIs, RestsIs DEF Written
<1>7. CASE ~OK(d)
  BY <1>1, <1>2, <1>6, <1>7
<1>8. CASE OK(d)
  <2>1. Ready(VL(d), d.fp) /\ d.fp.fptr = F.fptr /\ d.fp.sclust = F.sclust /\ d.fp.clust = F.clust
    <3>1. /\ d.fp.fptr = F.fptr /\ d.fp.sclust = F.sclust /\ d.fp.clust = F.clust
          /\ d.fp.sect = F.sect
      BY <1>2 DEF Rests, FilFields
    <3> QED BY <1>2, <3>1 DEF Ready, Behinds
  <2>2. x.fp.sect \in Chain(VL(d), d.fp.sclust)
    BY <1>5, <2>1 DEF Ready, AtBoundary
  <2>3. /\ FI(x, T, io, fd, n) /\ VL(x) = VL(d) /\ VD(x) = VD(d) /\ (OK(x) <=> OK(d))
        /\ Rests(d.fp, x.fp, Written) /\ x.rest = d.rest
        /\ Placed(VL(x), x.fp) /\ x.fp.fptr <= x.fp.size
    <3>1. DOMAIN x.fp.buf = 0 .. SS - 1 /\ Len(bytes) <= SS - (d.fp.fptr % SS)
      BY <1>3, <1>5, <2>1
    <3> QED BY <1>2, <1>5, <2>1, <2>2, <3>1, BehindIs
  <2>4. Rests(F, x.fp, Written) /\ Keeps(F, x.fp)
    BY <1>2, <1>5, <1>6, <2>3, RestsIs
  <2> QED BY <1>1, <1>2, <1>6, <1>8, <2>3, <2>4
<1> QED BY <1>7, <1>8

LEMMA PortionIs ==
  ASSUME NEW s, NEW B, NEW bytes \in Seq(B), s.rest \in 1 .. Len(bytes), s.fp.fptr \in Nat
  PROVE  LET l == Len(Portion(s, bytes))
         IN l \in Nat /\ l <= SS - (s.fp.fptr % SS) /\ l <= s.rest
<1> DEFINE m == Min({SS - (s.fp.fptr % SS), s.rest})
           done == Len(bytes) - s.rest
           p == SubSeq(bytes, done + 1, done + m)
<1>1. m \in Nat /\ m <= SS - (s.fp.fptr % SS) /\ m <= s.rest
  <2>1. s.fp.fptr % SS \in Nat /\ s.fp.fptr % SS < SS /\ SS \in Nat
    BY Mods, Numbers
  <2>2. SS - (s.fp.fptr % SS) \in Int /\ SS - (s.fp.fptr % SS) >= 0 /\ s.rest \in Nat
    BY <2>1
  <2>3. m = IF SS - (s.fp.fptr % SS) <= s.rest THEN SS - (s.fp.fptr % SS) ELSE s.rest
    BY <2>2, MinMax
  <2> HIDE DEF m
  <2> QED BY <2>2, <2>3
<1>2. Portion(s, bytes) = p
  BY DEF Portion
<1> HIDE DEF m
<1>3. done \in Nat /\ done + m <= Len(bytes) /\ Len(bytes) \in Nat
  BY <1>1
<1>4. Len(p) = m
  <2>1. 1 <= done + 1 /\ done + 1 <= done + m + 1 /\ done + m <= Len(bytes)
    BY <1>1, <1>3
  <2> HIDE DEF done
  <2> QED BY <1>1, <1>3, <2>1
<1> QED BY <1>1, <1>2, <1>4

PartDone(s, a, T, io, fd, n) ==
  /\ FI(a, T, io, fd, n) /\ VL(a) = VL(s)
  /\ Rests(s.fp, a.fp, Written) /\ Keeps(s.fp, a.fp) /\ a.rest = s.rest
  /\ OK(a) => Placed(VL(a), a.fp) /\ a.fp.fptr <= a.fp.size
LEMMA WritePartDone ==
  ASSUME NEW s, NEW T, NEW io, NEW fd, NEW n, NEW bytes,
         fd \notin DOMAIN io, FI(s, T, io, fd, n), OK(s),
         Ready(VL(s), s.fp), Len(bytes) \in Nat, Len(bytes) <= SS - (s.fp.fptr % SS)
  PROVE  PartDone(s, WritePart(s, bytes), T, io, fd, n)
BY WritePartIs DEF PartDone

LEMMA WriteTurnIs ==
  ASSUME NEW s, NEW T, NEW io, NEW fd, NEW n, NEW B, NEW bytes \in Seq(B),
         fd \notin DOMAIN io, FI(s, T, io, fd, n), OK(s),
         Placed(VL(s), s.fp), s.fp.err = "OK", s.fp.fptr <= s.fp.size, s.rest \in 0 .. Len(bytes)
  PROVE  LET a == WriteTurn(s, bytes)
         IN /\ FI(a, T, io, fd, n)
            /\ Rests(s.fp, a.fp, Written) /\ Keeps(s.fp, a.fp)
            /\ OK(a) => /\ Placed(VL(a), a.fp) /\ a.fp.fptr <= a.fp.size
                        /\ a.rest \in 0 .. Len(bytes)
<1> DEFINE F == s.fp
           g == IF AtBoundary(s) THEN Grow(s) ELSE s
           z == [g EXCEPT !.rest = 0]
           a == IF AtBoundary(s) THEN WriteBack(g) ELSE g
           now == Portion(s, bytes)
           b == IF Len(now) = SS THEN WriteWhole(a, now) ELSE WritePart(a, now)
           x == [b EXCEPT !.rest = @ - Len(now)]
<1>0. /\ DOMAIN s = Fields /\ DOMAIN F = FilFields /\ FilOK(F)
      /\ F.fptr \in Nat /\ F.size \in Nat
  BY FileOf DEF FilOK, FileIn
<1>1. CASE s.rest = 0
  <2>1. WriteTurn(s, bytes) = s
    BY <1>1 DEF WriteTurn
  <2> QED BY <1>0, <2>1 DEF Rests, Keeps
<1>2. CASE s.rest # 0
  <2>1. WriteTurn(s, bytes) =
          IF OK(g) THEN IF AtBoundary(s) /\ g.got = 0 THEN z
                        ELSE IF OK(a) THEN IF OK(b) THEN x ELSE b ELSE a
          ELSE g
    BY <1>2 DEF WriteTurn, Then
  <2>2. /\ FI(g, T, io, fd, n) /\ g.rest = s.rest
        /\ Rests(F, g.fp, {"clust", "sclust"}) /\ Keeps(F, g.fp)
        /\ OK(g) /\ AtBoundary(s) /\ g.got = 0 => Placed(VL(g), g.fp)
        /\ OK(g) /\ AtBoundary(s) /\ g.got # 0 => Begun(VL(g), g.fp)
        /\ ~AtBoundary(s) => Placed(VL(g), g.fp)
    <3>1. CASE AtBoundary(s)
      <4>1. g = Grow(s)
        BY <3>1
      <4> HIDE DEF g
      <4> QED BY <3>1, <4>1, GrowIs
    <3>2. CASE ~AtBoundary(s)
      <4>1. g = s
        BY <3>2
      <4> HIDE DEF g
      <4> QED BY <1>0, <3>2, <4>1 DEF Rests, Keeps
    <3> QED BY <3>1, <3>2
  <2> HIDE DEF g
  <2>3. Rests(F, g.fp, Written) /\ g.fp.fptr = F.fptr /\ g.fp.size = F.size
    <3>1. Rests(F, g.fp, Written)
      BY <2>2, RestsIs DEF Written
    <3> QED BY <2>2, <3>1 DEF Rests, FilFields
  <2>4. CASE ~OK(g)
    BY <2>1, <2>2, <2>3, <2>4
  <2>5. CASE OK(g) /\ AtBoundary(s) /\ g.got = 0
    <3>1. DOMAIN g = Fields /\ FileIn(VL(g), VD(g), g.fp, n) /\ FilOK(g.fp)
      BY <2>2, FileOf
    <3>2. DOMAIN z = Fields /\ Others(g, z, {"rest"}) /\ z.fp = g.fp /\ z.rest = 0
      BY <3>1 DEF Fields, Others
    <3>3. WriteTurn(s, bytes) = z
      BY <2>1, <2>5
    <3> HIDE DEF z
    <3>4. Others(g, z, OwnFields)
      BY <3>2 DEF Others, OwnFields
    <3>5. FI(z, T, io, fd, n) /\ VL(z) = VL(g)
      BY <2>2, <3>1, <3>2, <3>4, FileStep
    <3>6. 0 \in 0 .. Len(bytes)
      OBVIOUS
    <3> QED BY <2>2, <2>3, <2>5, <3>2, <3>3, <3>5, <3>6
  <2>6. CASE OK(g) /\ ~(AtBoundary(s) /\ g.got = 0)
    <3>1. Ready(VL(g), g.fp)
      <4>1. IF g.fp.fptr % SS = 0 THEN Begun(VL(g), g.fp) ELSE Placed(VL(g), g.fp)
        BY <2>2, <2>3, <2>6 DEF AtBoundary
      <4>2. g.fp.fptr \in Nat
        BY <1>0, <2>3
      <4> QED BY <4>1, <4>2, ReadyIs
    <3>2. /\ FI(a, T, io, fd, n) /\ VL(a) = VL(g) /\ a.rest = g.rest
          /\ Rests(g.fp, a.fp, {"flags"}) /\ Keeps(g.fp, a.fp)
          /\ OK(a) /\ AtBoundary(s) => "DIRTY" \notin a.fp.flags
      <4>1. CASE AtBoundary(s)
        <5> DEFINE w == WriteBack(g)
        <5>1. /\ FI(w, T, io, fd, n) /\ VL(w) = VL(g) /\ Others(g, w, CardFile)
              /\ Rests(g.fp, w.fp, {"flags"}) /\ Keeps(g.fp, w.fp)
              /\ OK(w) => "DIRTY" \notin w.fp.flags
          BY <2>2, <2>6, WriteBackIs
        <5>2. a = w
          BY <4>1
        <5> HIDE DEF w, a
        <5>3. w.rest = g.rest
          BY <5>1, CardFileIs
        <5> QED BY <5>1, <5>2, <5>3
      <4>2. CASE ~AtBoundary(s)
        <5>1. a = g
          BY <4>2
        <5> HIDE DEF a
        <5>2. DOMAIN g.fp = FilFields
          BY <2>2, FileOf
        <5> QED BY <2>2, <4>2, <5>1, <5>2 DEF Rests, Keeps
      <4> QED BY <4>1, <4>2
    <3> HIDE DEF a
    <3>3. Rests(F, a.fp, Written) /\ Keeps(F, a.fp)
      <4>1. Rests(g.fp, a.fp, Written)
        BY <3>2, RestsIs DEF Written
      <4> QED BY <2>2, <2>3, <3>2, <4>1, RestsIs
    <3>4. CASE ~OK(a)
      BY <2>1, <2>6, <3>2, <3>3, <3>4
    <3>5. CASE OK(a)
      <4>1. a.fp.fptr = F.fptr /\ Ready(VL(a), a.fp)
        <5>1. /\ a.fp.fptr = g.fp.fptr /\ a.fp.sclust = g.fp.sclust /\ a.fp.clust = g.fp.clust
              /\ a.fp.sect = g.fp.sect
          BY <3>2 DEF Rests, FilFields
        <5> QED BY <2>3, <3>1, <3>2, <5>1 DEF Ready, Behinds
      <4>2. Len(now) \in Nat /\ Len(now) <= SS - (F.fptr % SS) /\ Len(now) <= s.rest
        <5>1. s.rest \in 1 .. Len(bytes)
          BY <1>2
        <5> QED BY <1>0, <5>1, PortionIs
      <4> HIDE DEF now
      <4>3. /\ FI(b, T, io, fd, n) /\ VL(b) = VL(a)
            /\ Rests(a.fp, b.fp, Written) /\ Keeps(a.fp, b.fp) /\ b.rest = a.rest
            /\ OK(b) => Placed(VL(b), b.fp) /\ b.fp.fptr <= b.fp.size
        <5>1. CASE Len(now) = SS
          <6>1. b = WriteWhole(a, now)
            BY <5>1
          <6>2. F.fptr % SS = 0
            <7>1. F.fptr % SS \in Nat /\ SS \in Nat
              BY <1>0, Mods, Numbers
            <7> QED BY <4>2, <5>1, <7>1
          <6>3. a.fp.fptr % SS = 0 /\ "DIRTY" \notin a.fp.flags
            BY <3>2, <3>5, <4>1, <6>2 DEF AtBoundary
          <6>4. FI(a, T, io, fd, n) /\ OK(a) /\ Ready(VL(a), a.fp)
            BY <3>2, <3>5, <4>1
          <6> HIDE DEF b
          <6> DEFINE u == WriteWhole(a, now)
          <6>5. /\ FI(u, T, io, fd, n) /\ VL(u) = VL(a) /\ VD(u) = VD(a)
                /\ Rests(a.fp, u.fp, Written) /\ Keeps(a.fp, u.fp) /\ u.rest = a.rest
                /\ OK(u) => Placed(VL(u), u.fp) /\ u.fp.fptr <= u.fp.size
            BY <5>1, <6>3, <6>4, WriteWholeIs
          <6> HIDE DEF u
          <6>6. b = u
            BY <6>1 DEF u
          <6> QED BY <6>5, <6>6
        <5>2. CASE Len(now) # SS
          <6>1. b = WritePart(a, now)
            BY <5>2
          <6>2. Len(now) <= SS - (a.fp.fptr % SS)
            BY <4>1, <4>2
          <6> HIDE DEF b
          <6>3. Len(now) \in Nat /\ Ready(VL(a), a.fp) /\ FI(a, T, io, fd, n)
            BY <3>2, <4>1, <4>2
          <6> DEFINE w == WritePart(a, now)
          <6>4. PartDone(a, w, T, io, fd, n)
            BY <3>5, <6>2, <6>3, WritePartDone
          <6> HIDE DEF w
          <6> QED BY <6>1, <6>4 DEF w, PartDone
        <5> QED BY <5>1, <5>2
      <4> HIDE DEF b
      <4>4. Rests(F, b.fp, Written) /\ Keeps(F, b.fp) /\ b.rest = s.rest
        BY <2>2, <3>2, <3>3, <4>3, RestsIs
      <4>5. CASE ~OK(b)
        BY <2>1, <2>6, <3>5, <4>3, <4>4, <4>5
      <4>6. CASE OK(b)
        <5>1. DOMAIN b = Fields /\ FileIn(VL(b), VD(b), b.fp, n) /\ FilOK(b.fp)
          BY <4>3, FileOf
        <5>2. DOMAIN x = Fields /\ Others(b, x, {"rest"}) /\ x.fp = b.fp /\ x.rest = b.rest - Len(now)
          BY <5>1 DEF Fields, Others
        <5>3. WriteTurn(s, bytes) = x
          BY <2>1, <2>6, <3>5, <4>6
        <5> HIDE DEF x
        <5>4. Others(b, x, OwnFields)
          BY <5>2 DEF Others, OwnFields
        <5>5. FI(x, T, io, fd, n) /\ VL(x) = VL(b)
          BY <4>3, <5>1, <5>2, <5>4, FileStep
        <5>6. x.rest \in 0 .. Len(bytes)
          <6>1. Len(bytes) \in Nat
            OBVIOUS
          <6> QED BY <4>2, <4>4, <5>2, <6>1
        <5> QED BY <4>3, <4>4, <4>6, <5>2, <5>3, <5>5, <5>6
      <4> QED BY <4>5, <4>6
    <3> QED BY <3>4, <3>5
  <2> QED BY <2>4, <2>5, <2>6
<1> QED BY <1>1, <1>2


(* The turns of a write.                                                   *)
WriteStep(a, bytes) == Then(a, LAMBDA b : WriteTurn(b, bytes))
WriteRuns(s, bytes, n) == Repeat(s, LAMBDA a : WriteStep(a, bytes), n)
LEMMA WriteRun ==
  ASSUME NEW s, NEW n \in Nat, NEW bytes
  PROVE  \E f : /\ f[0] = s /\ \A k \in 0 .. n - 1 : f[k + 1] = WriteStep(f[k], bytes)
                /\ WriteRuns(s, bytes, n) = f[n]
<1> DEFINE Run(f, m) == f = [k \in 0 .. m |-> IF k = 0 THEN s ELSE WriteStep(f[k - 1], bytes)]
           S == {m \in Nat : \E f : Run(f, m)}
<1> HIDE DEF WriteStep
<1>1. 0 \in S
  <2>1. Run([k \in 0 .. 0 |-> s], 0)
    OBVIOUS
  <2> QED BY <2>1
<1>2. ASSUME NEW m \in Nat, m \in S PROVE m + 1 \in S
  <2>1. PICK f : Run(f, m)
    BY <1>2
  <2> DEFINE g == [k \in 0 .. m + 1 |-> IF k <= m THEN f[k] ELSE WriteStep(f[m], bytes)]
  <2>2. Run(g, m + 1)
    <3>1. ASSUME NEW k \in 0 .. m + 1 PROVE g[k] = IF k = 0 THEN s ELSE WriteStep(g[k - 1], bytes)
      <4>1. CASE k = m + 1
        BY <4>1
      <4>2. CASE k <= m
        BY <4>2, <2>1
      <4> QED BY <4>1, <4>2
    <3> QED BY <3>1
  <2> HIDE DEF g, Run
  <2> QED BY <2>2
<1>3. n \in S
  <2> HIDE DEF S
  <2> QED BY <1>1, <1>2, UpTo
<1>4. PICK g : Run(g, n)
  BY <1>3
<1> DEFINE after == CHOOSE f : Run(f, n)
<1>5. Run(after, n)
  BY <1>4
<1>6. WriteRuns(s, bytes, n) = after[n]
  BY DEF Repeat, WriteRuns
<1>7. after[0] = s /\ \A k \in 0 .. n - 1 : after[k + 1] = WriteStep(after[k], bytes)
  <2> HIDE DEF after
  <2> QED BY <1>5
<1> QED BY <1>6, <1>7


LEMMA WriteLoopIs ==
  ASSUME NEW s, NEW T, NEW io, NEW fd, NEW n, NEW B, NEW bytes \in Seq(B),
         fd \notin DOMAIN io, FI(s, T, io, fd, n), OK(s),
         Placed(VL(s), s.fp), s.fp.err = "OK", s.fp.fptr <= s.fp.size
  PROVE  LET a == WriteLoop(s, bytes)
         IN /\ FI(a, T, io, fd, n) /\ Rests(s.fp, a.fp, Written) /\ Keeps(s.fp, a.fp)
            /\ OK(a) => Placed(VL(a), a.fp) /\ a.fp.fptr <= a.fp.size
<1> DEFINE cnt == Len(bytes)
           z == [s EXCEPT !.rest = cnt]
           I(a) == /\ FI(a, T, io, fd, n)
                   /\ Rests(s.fp, a.fp, Written) /\ Keeps(s.fp, a.fp)
                   /\ OK(a) => /\ Placed(VL(a), a.fp) /\ a.fp.fptr <= a.fp.size
                               /\ a.rest \in 0 .. cnt
<1>0. DOMAIN s = Fields /\ FileIn(VL(s), VD(s), s.fp, n) /\ FilOK(s.fp) /\ DOMAIN s.fp = FilFields
  BY FileOf
<1>1. DOMAIN z = Fields /\ Others(s, z, {"rest"}) /\ z.rest = cnt /\ cnt \in Nat
  BY <1>0 DEF Fields, Others
<1>2. WriteLoop(s, bytes) = WriteRuns(z, bytes, cnt)
  BY DEF WriteLoop, Repeat, WriteStep, WriteRuns
<1> HIDE DEF z
<1>3. I(z)
  <2>1. Others(s, z, OwnFields) /\ z.fp = s.fp
    BY <1>1 DEF Others, OwnFields, Fields
  <2>2. FI(z, T, io, fd, n) /\ VL(z) = VL(s) /\ VD(z) = VD(s)
    BY <1>0, <1>1, <2>1, FileStep
  <2>3. Rests(s.fp, s.fp, Written) /\ Keeps(s.fp, s.fp)
    BY <1>0 DEF Rests, Keeps
  <2>4. z.rest \in 0 .. cnt
    <3> HIDE DEF cnt
    <3> QED BY <1>1
  <2> QED BY <2>1, <2>2, <2>3, <2>4
<1>4. ASSUME NEW a, I(a) PROVE I(WriteStep(a, bytes))
  <2>1. CASE ~OK(a)
    BY <1>4, <2>1 DEF WriteStep, Then
  <2>2. CASE OK(a)
    <3> DEFINE b == WriteTurn(a, bytes)
    <3>1. WriteStep(a, bytes) = b
      BY <2>2 DEF WriteStep, Then
    <3>2. a.fp.err = "OK"
      BY <1>4 DEF Rests, FilFields, Written
    <3>3. /\ FI(b, T, io, fd, n)
          /\ Rests(a.fp, b.fp, Written) /\ Keeps(a.fp, b.fp)
          /\ OK(b) => /\ Placed(VL(b), b.fp) /\ b.fp.fptr <= b.fp.size
                      /\ b.rest \in 0 .. cnt
      BY <1>4, <2>2, <3>2, WriteTurnIs
    <3> HIDE DEF b
    <3>4. Rests(s.fp, b.fp, Written) /\ Keeps(s.fp, b.fp)
      BY <1>4, <3>3, RestsIs
    <3> QED BY <1>4, <3>1, <3>3, <3>4
  <2> QED BY <2>1, <2>2
<1>5. PICK f : /\ f[0] = z /\ \A k \in 0 .. cnt - 1 : f[k + 1] = WriteStep(f[k], bytes)
               /\ WriteRuns(z, bytes, cnt) = f[cnt]
  BY <1>1, WriteRun
<1> DEFINE S == {k \in 0 .. cnt : I(f[k])}
<1> HIDE DEF I, cnt
<1>6. 0 \in S
  BY <1>1, <1>3, <1>5
<1>7. ASSUME NEW k \in 0 .. cnt - 1, k \in S PROVE k + 1 \in S
  <2>1. k + 1 \in 0 .. cnt /\ I(f[k]) /\ f[k + 1] = WriteStep(f[k], bytes)
    BY <1>1, <1>5, <1>7
  <2>2. I(f[k + 1])
    BY <1>4, <2>1
  <2> QED BY <2>1, <2>2
<1>8. cnt \in S
  <2> HIDE DEF S
  <2> QED BY <1>1, <1>6, <1>7, UpTo
<1>9. I(WriteLoop(s, bytes))
  BY <1>2, <1>5, <1>8
<1> QED BY <1>9 DEF I

LEMMA FwriteIs ==
  ASSUME NEW s, NEW T, NEW io, NEW fd, NEW n, NEW B, NEW bytes \in Seq(B),
         fd \notin DOMAIN io, FI(s, T, io, fd, n), OK(s), Sits(s)
  PROVE  LET a == Fwrite(s, bytes)
         IN FI(a, T, io, fd, n) /\ Sits(a) /\ Keeps(s.fp, a.fp)
<1> DEFINE l == WriteLoop(s, bytes)
           G == [l.fp EXCEPT !.flags = @ \cup {"MODIFIED"}]
           x == [l EXCEPT !.fp.flags = @ \cup {"MODIFIED"}]
           e == IF OK(l) THEN x ELSE l
           a == Abort(e)
<1>0. FilOK(s.fp)
  BY FileOf
<1>1. CASE s.fp.err # "OK"
  <2>1. s.fp.err \in Results \ {"OK"} /\ Fwrite(s, bytes) = Fail(s, s.fp.err)
    BY <1>0, <1>1 DEF FilOK, Fwrite
  <2> QED BY <1>1, <2>1, FailFile DEF Sits
<1>2. CASE s.fp.err = "OK" /\ ~Flag(s, "WRITE")
  <2>1. "DENIED" \in Results \ {"OK"} /\ Fwrite(s, bytes) = Fail(s, "DENIED")
    BY <1>2 DEF Fwrite, Results
  <2> QED BY <2>1, FailFile DEF Sits
<1>3. CASE s.fp.err = "OK" /\ Flag(s, "WRITE")
  <2>1. Fwrite(s, bytes) = a
    BY <1>3 DEF Fwrite, Then
  <2>2. Placed(VL(s), s.fp) /\ s.fp.fptr <= s.fp.size
    BY <1>3 DEF Sits
  <2>3. /\ FI(l, T, io, fd, n) /\ Keeps(s.fp, l.fp)
        /\ OK(l) => Placed(VL(l), l.fp) /\ l.fp.fptr <= l.fp.size
    BY <1>3, <2>2, WriteLoopIs
  <2> HIDE DEF l
  <2>4. /\ FI(e, T, io, fd, n) /\ Keeps(s.fp, e.fp)
        /\ OK(e) => Placed(VL(e), e.fp) /\ e.fp.fptr <= e.fp.size
    <3>1. CASE ~OK(l)
      BY <2>3, <3>1
    <3>2. CASE OK(l)
      <4>0. /\ FileIn(VL(l), VD(l), l.fp, n) /\ DOMAIN l = Fields
            /\ DOMAIN l.fp = FilFields /\ FilOK(l.fp)
        BY <2>3, FileOf
      <4>1. DOMAIN x = Fields /\ Others(l, x, {"fp"}) /\ x.fp = G
        BY <4>0 DEF Fields, Others
      <4>2. /\ Rests(l.fp, G, {"flags"}) /\ "MODIFIED" \in G.flags
            /\ ("DIRTY" \in G.flags => "DIRTY" \in l.fp.flags)
        BY <4>0 DEF Rests, FilFields
      <4>3. e = x
        BY <3>2
      <4> HIDE DEF x, G, e
      <4>4. /\ G.sclust = l.fp.sclust /\ G.size = l.fp.size /\ G.entry = l.fp.entry
            /\ G.sect = l.fp.sect /\ G.fptr = l.fp.fptr /\ G.clust = l.fp.clust /\ G.err = l.fp.err
            /\ G.buf = l.fp.buf /\ DOMAIN G = FilFields
        BY <4>2 DEF Rests, FilFields
      <4>5. FilOK(G) /\ FileIn(VL(l), VD(l), G, n)
        BY <4>0, <4>2, <4>4, FileKeep DEF FilOK
      <4>6. Placed(VL(l), G) /\ G.fptr <= G.size
        BY <2>3, <3>2, <4>4 DEF Placed, Behinds
      <4>7. FI(x, T, io, fd, n) /\ VL(x) = VL(l)
        BY <2>3, <4>0, <4>1, <4>4, <4>5, FileStep, CardFileIs
      <4> QED BY <4>1, <4>2, <4>3, <4>6, <4>7 DEF Keeps
    <3> QED BY <3>1, <3>2
  <2> HIDE DEF e
  <2>5. FI(a, T, io, fd, n) /\ Sits(a) /\ Keeps(e.fp, a.fp)
    BY <2>4, AbortIs
  <2> HIDE DEF a
  <2>6. Keeps(s.fp, a.fp)
    BY <2>4, <2>5, RestsIs
  <2> QED BY <2>1, <2>5, <2>6
<1> QED BY <1>1, <1>2, <1>3

(* The entry gets the cluster and the size of its file.                    *)
LEMMA SyncTree ==
  ASSUME NEW L, NEW D, NEW io, NEW fd, NEW n, NEW F, NEW e, TreeI(L, D, {}), fd \notin DOMAIN io,
         FilesIn(L, D, With(io, fd, n, F), fd),
         e = [At(D, F.entry) EXCEPT !.clust = F.sclust, !.size = F.size]
  PROVE  /\ TreeI(L, Entered(D, F.entry, e), {})
         /\ FilesIn(L, Entered(D, F.entry, e), With(io, fd, n, F), fd)
<1> DEFINE p == F.entry
           W == With(io, fd, n, F)
<1>1. /\ FileIn(L, D, F, n) /\ p \in Live(D) /\ At(D, p).name = n /\ n \in Names
      /\ p \in Places /\ p[1] \in DOMAIN D
  <2>1. FileIn(L, D, F, n)
    BY WithHas
  <2> QED BY <2>1 DEF FileIn, Live
<1>2. \A f \in DOMAIN io : io[f].name # n /\ (io[f].fil.sclust = F.sclust => F.sclust = 0)
  <2>1. \A f \in DOMAIN io : io[f].name # n
    BY WithHas
  <2>2. \A f \in DOMAIN io : io[f].fil.sclust = F.sclust => F.sclust = 0
    BY WithHas
  <2> QED BY <2>1, <2>2
<1>3. DirShape(L, D) /\ Filled(L, D) /\ Single(D, {}) /\ Wired(L)
  BY DEF TreeI
<1>4. At(D, p) \in Entries
  BY <1>1, <1>3 DEF DirShape, At, Places
<1>5. e \in Entries /\ e.name = n /\ e.clust = F.sclust /\ e.size = F.size
  BY <1>1, <1>4 DEF Entries, FileIn
<1>6. n # None
  BY <1>1, NoneAssumption
<1>7. TreeI(L, Entered(D, p, e), {})
  <2>1. UsedUpTo(L, D, p)
    BY <1>1, <1>3, <1>6, LiveUsed
  <2>2. Owns(L, e)
    BY <1>1, <1>5 DEF Owns, FileIn
  <2>3. ASSUME NEW q \in Live(D) \ {p} PROVE Differ(e, At(D, q), {})
    <3>1. Differ(At(D, p), At(D, q), {})
      BY <1>1, <1>3, <2>3 DEF Single
    <3>2. F.sclust # 0 => At(D, q).clust # F.sclust
      BY <1>1, <2>3 DEF FileIn
    <3> QED BY <1>1, <1>5, <3>1, <3>2 DEF Differ
  <2>4. ASSUME NEW q \in Live(D) \ {p}, NEW r \in Live(D) \ {p}, q # r
        PROVE  Differ(At(D, q), At(D, r), {})
    BY <1>3, <2>4 DEF Single
  <2> QED BY <1>1, <1>5, <1>6, <2>1, <2>2, <2>3, <2>4, EntryTree
<1>8. FilesIn(L, Entered(D, p, e), W, fd)
  <2>1. ASSUME NEW f \in DOMAIN W
        PROVE  /\ W[f].fil.entry = p => e.name = At(D, p).name /\ e.clust \in {0, W[f].fil.sclust}
               /\ e.name \in Names /\ e.clust = W[f].fil.sclust /\ e.clust # 0 => W[f].fil.entry = p
    <3>1. CASE f = fd
      BY <1>1, <1>5, <3>1 DEF With
    <3>2. CASE f # fd
      <4>1. f \in DOMAIN io /\ W[f] = io[f]
        BY <3>2 DEF With
      <4>2. At(D, W[f].fil.entry).name = W[f].name
        BY <2>1 DEF FilesIn, FileIn
      <4> QED BY <1>1, <1>2, <1>5, <4>1, <4>2
    <3> QED BY <3>1, <3>2
  <2> HIDE DEF W, p
  <2>2. FilesIn(L, D, W, fd)
    BY DEF W
  <2> QED BY <1>1, <1>3, <1>5, <2>1, <2>2, EntryFiles
<1> QED BY <1>7, <1>8

FlagsOnly(s, a, T, io, fd, n) ==
  /\ FI(a, T, io, fd, n) /\ VL(a) = VL(s) /\ VD(a) = VD(s) /\ (OK(a) <=> OK(s))
  /\ a.res = s.res /\ Others(s, a, {"fp"}) /\ Rests(s.fp, a.fp, {"flags"})
LEMMA FlagsFile ==
  ASSUME NEW s, NEW T, NEW io, NEW fd, NEW n, NEW F, fd \notin DOMAIN io, FI(s, T, io, fd, n),
         F \subseteq s.fp.flags
  PROVE  FlagsOnly(s, [s EXCEPT !.fp.flags = F], T, io, fd, n)
<1> DEFINE x == [s EXCEPT !.fp.flags = F]
           G == [s.fp EXCEPT !.flags = F]
<1>0. /\ FileIn(VL(s), VD(s), s.fp, n) /\ DOMAIN s = Fields
      /\ DOMAIN s.fp = FilFields /\ FilOK(s.fp)
  BY FileOf
<1>1. DOMAIN x = Fields /\ Others(s, x, {"fp"}) /\ x.fp = G
  BY <1>0 DEF Fields, Others
<1>2. Rests(s.fp, G, {"flags"}) /\ G.flags = F
  BY <1>0 DEF Rests, FilFields
<1> HIDE DEF x, G
<1>3. /\ G.sclust = s.fp.sclust /\ G.size = s.fp.size /\ G.entry = s.fp.entry
      /\ G.sect = s.fp.sect /\ G.fptr = s.fp.fptr /\ G.clust = s.fp.clust /\ G.err = s.fp.err
      /\ G.buf = s.fp.buf /\ DOMAIN G = FilFields
  BY <1>2 DEF Rests, FilFields
<1>4. FilOK(G) /\ FileIn(VL(s), VD(s), G, n)
  BY <1>0, <1>2, <1>3, FileKeep DEF FilOK
<1>5. /\ FI(x, T, io, fd, n) /\ VL(x) = VL(s) /\ VD(x) = VD(s) /\ (OK(x) <=> OK(s))
      /\ x.res = s.res
  BY <1>0, <1>1, <1>3, <1>4, FileStep, CardFileIs
<1> QED BY <1>1, <1>2, <1>5 DEF x, FlagsOnly

LEMMA SitsOn ==
  ASSUME NEW s, NEW a, Sits(s), VL(a) = VL(s), Rests(s.fp, a.fp, {"flags"})
  PROVE  Sits(a)
<1>1. /\ a.fp.sclust = s.fp.sclust /\ a.fp.size = s.fp.size /\ a.fp.sect = s.fp.sect
      /\ a.fp.fptr = s.fp.fptr /\ a.fp.clust = s.fp.clust /\ a.fp.err = s.fp.err
  BY DEF Rests, FilFields
<1> QED BY <1>1 DEF Sits, Placed, Behinds

(* f_sync: when it succeeds, all is on the card.                           *)
LEMMA FsyncIs ==
  ASSUME NEW s, NEW T, NEW io, NEW fd, NEW n, fd \notin DOMAIN io, FI(s, T, io, fd, n), OK(s),
         Sits(s)
  PROVE  LET a == Fsync(s)
         IN /\ FI(a, T, io, fd, n) /\ Sits(a)
            /\ "MODIFIED" \notin s.fp.flags => a = s
            /\ "MODIFIED" \in s.fp.flags /\ OK(a) => ~a.dirty
<1> DEFINE W == With(io, fd, n, s.fp)
           a == WriteBack(s)
           z == [a EXCEPT !.at = s.fp.entry]
           b == MoveWindow(z, s.fp.entry[1])
           e == [DirEntry(b) EXCEPT !.clust = s.fp.sclust, !.size = s.fp.size]
           c == PokeEntry(b, e)
           d == SyncFs(c)
           x == [d EXCEPT !.fp.flags = d.fp.flags \ {"MODIFIED"}]
<1>1. CASE ~Flag(s, "MODIFIED")
  BY <1>1 DEF Fsync, Flag
<1>2. CASE Flag(s, "MODIFIED")
  <2>1. Fsync(s) = IF OK(a) THEN IF OK(b) THEN x ELSE b ELSE a
    BY <1>2 DEF Fsync, Then
  <2>2. /\ FI(a, T, io, fd, n) /\ VL(a) = VL(s) /\ VD(a) = VD(s) /\ Rests(s.fp, a.fp, {"flags"})
    BY WriteBackIs
  <2> HIDE DEF a
  <2>3. CASE ~OK(a)
    BY <1>2, <2>1, <2>2, <2>3, SitsOn DEF Flag
  <2>4. CASE OK(a)
    <3> DEFINE G == a.fp
               U == With(io, fd, n, G)
               p == G.entry
    <3>1. /\ FileIn(VL(a), VD(a), G, n) /\ DOMAIN a = Fields /\ a.mounted /\ FilOK(G)
          /\ DOMAIN G = FilFields /\ TreeI(VL(a), VD(a), {})
      BY <2>2, FileOf
    <3>2. p = s.fp.entry /\ G.sclust = s.fp.sclust /\ G.size = s.fp.size
      BY <2>2 DEF Rests, FilFields
    <3>3. p \in Live(VD(a)) /\ p \in Places /\ p[1] \in DOMAIN VD(a)
      BY <3>1 DEF FileIn, Live
    <3>4. DOMAIN z = Fields /\ Others(a, z, {"at"}) /\ z.at = p
      BY <3>1, <3>2 DEF Fields, Others
    <3> HIDE DEF z
    <3>5. Others(a, z, OwnFields) /\ z.fp = G
      BY <3>4 DEF Others, OwnFields, Fields
    <3>6. FI(z, T, io, fd, n) /\ VL(z) = VL(a) /\ VD(z) = VD(a) /\ OK(z)
      BY <2>2, <2>4, <3>1, <3>4, <3>5, FileStep
    <3>7. MI(z, T, {}, U, fd) /\ z.mounted
      BY <3>5, <3>6, FileOf
    <3>8. p[1] \in Slots(View(z))
      BY <3>3, <3>6, <3>7, Opened1
    <3>9. /\ MI(b, T, {}, U, fd) /\ VL(b) = VL(z) /\ VD(b) = VD(z) /\ Others(z, b, WinFields)
          /\ OK(b) => b.sect = p[1]
      <4>1. b = MoveWindow(z, p[1])
        BY <3>2
      <4> HIDE DEF b, U
      <4> QED BY <3>6, <3>7, <3>8, <4>1, MoveWindowIs
    <3> HIDE DEF b
    <3>10. b.fp = G /\ b.at = p /\ b.mounted
      BY <3>4, <3>5, <3>7, <3>9, OthersIs
    <3>11. CASE ~OK(b)
      <4>1. FI(b, T, io, fd, n)
        BY <3>1, <3>9, <3>10 DEF FI
      <4>2. Sits(b)
        BY <2>2, <3>6, <3>9, <3>10, SitsOn
      <4> QED BY <1>2, <2>1, <2>4, <3>11, <4>1, <4>2 DEF Flag
    <3>12. CASE OK(b)
      <4>1. DirEntry(b) = At(VD(b), p)
        BY <3>3, <3>6, <3>9, <3>10, <3>12, DirEntryIs
      <4>2. e = [At(VD(b), G.entry) EXCEPT !.clust = G.sclust, !.size = G.size]
        BY <3>2, <4>1
      <4> HIDE DEF e
      <4>3. TreeI(VL(b), VD(b), {}) /\ FilesIn(VL(b), VD(b), U, fd)
        BY <3>9, Opened1 DEF MI
      <4>4. TreeI(VL(b), Entered(VD(b), p, e), {}) /\ FilesIn(VL(b), Entered(VD(b), p, e), U, fd)
        BY <4>2, <4>3, SyncTree
      <4>5. /\ MI(c, T, {}, U, fd) /\ VL(c) = VL(b)
            /\ Others(b, c, {"val", "dirty"}) /\ OK(c)
        <5>1. b.at \in Places /\ b.at[1] \in DOMAIN VD(b) /\ b.sect = b.at[1]
          BY <3>3, <3>6, <3>9, <3>10, <3>12
        <5>2. TreeI(VL(b), Entered(VD(b), b.at, e), {}) /\ FilesIn(VL(b), Entered(VD(b), b.at, e), U, fd)
          BY <3>10, <4>4
        <5>3. T \subseteq T /\ {} \subseteq T
          OBVIOUS
        <5> HIDE DEF U, p
        <5> QED BY <3>9, <3>10, <3>12, <5>1, <5>2, <5>3, PokeEntryIs
      <4> HIDE DEF c
      <4>6. c.fp = G /\ c.mounted
        BY <3>10, <4>5 DEF Others, Fields
      <4>7. /\ MI(d, T, {}, U, fd) /\ VL(d) = VL(c) /\ d.mounted = c.mounted
            /\ Others(c, d, CardFields) /\ (OK(d) => d.dirty = FALSE)
        BY <4>5, SyncFsIs
      <4> HIDE DEF d
      <4>8. d.fp = G
        BY <4>6, <4>7, OthersIs
      <4>9. FI(d, T, io, fd, n)
        BY <3>1, <4>6, <4>7, <4>8 DEF FI
      <4>10. /\ FI(x, T, io, fd, n) /\ VL(x) = VL(d) /\ (OK(x) <=> OK(d))
             /\ Others(d, x, {"fp"}) /\ Rests(d.fp, x.fp, {"flags"})
        <5> DEFINE H == d.fp.flags \ {"MODIFIED"}
        <5>1. H \subseteq d.fp.flags /\ x = [d EXCEPT !.fp.flags = H]
          OBVIOUS
        <5> HIDE DEF H, x
        <5>2. FlagsOnly(d, [d EXCEPT !.fp.flags = H], T, io, fd, n)
          BY <4>9, <5>1, FlagsFile
        <5> QED BY <5>1, <5>2 DEF FlagsOnly
      <4> HIDE DEF x
      <4>11. x.dirty = d.dirty
        BY <4>10 DEF Others, Fields
      <4>12. Rests(s.fp, x.fp, {"flags"})
        BY <2>2, <4>8, <4>10, RestsIs
      <4>13. Sits(x)
        BY <2>2, <3>6, <3>9, <4>5, <4>7, <4>10, <4>12, SitsOn
      <4> QED BY <1>2, <2>1, <2>4, <3>12, <4>7, <4>10, <4>11, <4>13 DEF Flag
    <3> QED BY <3>11, <3>12
  <2> QED BY <2>3, <2>4
<1> QED BY <1>1, <1>2

LEMMA ModTimes == \A q \in Nat : (SS * q) % SS = 0 /\ SS * q \in Nat
<1> TAKE q \in Nat
<1> DEFINE a == SS * q
<1>1. a \in Nat
  BY Numbers
<1>2. SS \in Nat /\ SS > 0
  BY Numbers
<1> DEFINE d == a \div SS
           r == a % SS
<1>3. r \in Nat /\ r < SS /\ d \in Nat /\ a = SS * d + r
  BY <1>1, Mods
<1> HIDE DEF d, r
<1>4. q = d
  <2>1. CASE q > d
    <3>1. d + 1 <= q /\ d + 1 \in Int /\ q \in Int /\ d \in Int
      BY <1>3, <2>1
    <3>2. SS * (d + 1) <= SS * q /\ SS * (d + 1) = SS * d + SS /\ SS * d \in Int
      BY <3>1, Times
    <3> HIDE DEF a
    <3>3. a = SS * q
      BY DEF a
    <3> QED BY <1>1, <1>2, <1>3, <3>2, <3>3
  <2>2. CASE q < d
    <3>1. q + 1 <= d /\ q + 1 \in Int /\ q \in Int /\ d \in Int
      BY <1>3, <2>2
    <3>2. SS * (q + 1) <= SS * d /\ SS * (q + 1) = SS * q + SS /\ SS * d \in Int /\ SS * q \in Int
      BY <3>1, Times
    <3> HIDE DEF a
    <3>3. a = SS * q
      BY DEF a
    <3> QED BY <1>1, <1>2, <1>3, <3>2, <3>3
  <2> QED BY <1>3, <2>1, <2>2
<1>5. r = 0
  <2>1. a = SS * d
    BY <1>4
  <2>2. SS * d \in Int
    BY <1>3, Times
  <2> HIDE DEF a
  <2> QED BY <1>3, <2>1, <2>2
<1> QED BY <1>1, <1>5 DEF r

LEMMA ModSmall == \A a \in Nat : a < SS => a % SS = a
<1> TAKE a \in Nat
<1> HAVE a < SS
<1> DEFINE d == a \div SS
           r == a % SS
<1>1. r \in Nat /\ r < SS /\ d \in Nat /\ a = SS * d + r /\ SS \in Nat
  BY Mods, Numbers
<1> HIDE DEF d, r
<1>2. d = 0
  <2>1. CASE d >= 1
    <3>1. SS * 1 <= SS * d /\ SS * d \in Int /\ SS * 1 = SS
      BY <1>1, <2>1, Times
    <3> QED BY <1>1, <3>1
  <2> QED BY <1>1, <2>1
<1>3. SS * 0 = 0
  BY <1>1
<1> QED BY <1>1, <1>2, <1>3 DEF r

(* How a seek leaves the file: the pointer is where it is to be, and got   *)
(* its sector, when it is inside one.                                      *)
Near(s) ==
  /\ s.fp.fptr > 0 => /\ s.fp.clust \in Chain(VL(s), s.fp.sclust)
                      /\ s.fp.fptr <= SS * (Behinds(VL(s), s.fp) + 1)
  /\ s.fp.fptr % SS # 0 => s.got \in Chain(VL(s), s.fp.sclust)
Seeking(s) ==
  /\ s.rest \in Nat
  /\ s.rest = 0 => Near(s)
  /\ s.rest # 0 => Begun(VL(s), s.fp) /\ s.fp.fptr % SS = 0

(* The file's record changes, but not its chain.                           *)
Stepped(s, a, T, io, fd, n) ==
  /\ FI(a, T, io, fd, n) /\ VL(a) = VL(s) /\ VD(a) = VD(s) /\ (OK(a) <=> OK(s)) /\ a.res = s.res
LEMMA StepFile ==
  ASSUME NEW s, NEW T, NEW io, NEW fd, NEW n, NEW a, NEW X, fd \notin DOMAIN io, FI(s, T, io, fd, n),
         DOMAIN a = Fields, Others(s, a, OwnFields), Rests(s.fp, a.fp, X),
         X \subseteq {"fptr", "clust"}, a.fp.fptr \in Nat
  PROVE  Stepped(s, a, T, io, fd, n)
<1>0. /\ FileIn(VL(s), VD(s), s.fp, n) /\ FilOK(s.fp)
  BY FileOf
<1>1. /\ a.fp.sclust = s.fp.sclust /\ a.fp.size = s.fp.size /\ a.fp.entry = s.fp.entry
      /\ a.fp.sect = s.fp.sect /\ a.fp.flags = s.fp.flags /\ a.fp.err = s.fp.err
      /\ a.fp.buf = s.fp.buf /\ DOMAIN a.fp = FilFields
  BY DEF Rests, FilFields
<1>2. FilOK(a.fp) /\ FileIn(VL(s), VD(s), a.fp, n)
  BY <1>0, <1>1, FileKeep DEF FilOK
<1> QED BY <1>1, <1>2, FileStep DEF Stepped

LEMMA SeekTurnIs ==
  ASSUME NEW s, NEW T, NEW io, NEW fd, NEW n, fd \notin DOMAIN io, FI(s, T, io, fd, n), OK(s),
         s.fp.err = "OK", Seeking(s)
  PROVE  LET a == SeekTurn(s)
         IN /\ FI(a, T, io, fd, n) /\ Rests(s.fp, a.fp, {"fptr", "clust"})
            /\ OK(a) => /\ Seeking(a)
                        /\ IF s.rest = 0 THEN a.rest = 0 ELSE a.rest < s.rest
<1> DEFINE F == s.fp
           c == F.clust
           z == [s EXCEPT !.fp.fptr = @ + SS, !.rest = @ - SS]
           d == IF Flag(s, "WRITE") THEN CreateChain(z, c) ELSE GetFat(z, c)
           next == IF Flag(s, "WRITE") THEN d.got ELSE Link(d, c)
           x == [s EXCEPT !.fp.fptr = @ + s.rest, !.rest = 0,
                          !.got = IF s.rest % SS # 0 THEN c ELSE 0]
           y1 == [d EXCEPT !.rest = 0]
           y2 == [d EXCEPT !.fp.clust = next]
<1>0. /\ FileIn(VL(s), VD(s), F, n) /\ DOMAIN s = Fields /\ DOMAIN F = FilFields /\ FilOK(F)
      /\ F.fptr \in Nat /\ F.size \in Nat /\ SS \in Nat /\ SS > 0 /\ s.rest \in Nat
  BY FileOf, Numbers DEF FilOK, FileIn, Seeking
<1>1. CASE s.rest = 0
  <2>1. SeekTurn(s) = s
    BY <1>1 DEF SeekTurn
  <2> QED BY <1>0, <1>1, <2>1 DEF Rests
<1>2. ASSUME s.rest # 0
      PROVE  /\ c \in Chain(VL(s), F.sclust) /\ F.fptr <= SS * Behinds(VL(s), F)
             /\ F.fptr % SS = 0 /\ Behinds(VL(s), F) \in Int
             /\ SS * (Behinds(VL(s), F) + 1) = SS * Behinds(VL(s), F) + SS
             /\ SS * Behinds(VL(s), F) \in Int
  BY <1>2, BehindsIs, Times DEF Seeking, Begun
<1>3. CASE s.rest # 0 /\ s.rest <= SS
  <2> DEFINE G == [F EXCEPT !.fptr = @ + s.rest]
  <2>1. DOMAIN x = Fields /\ Others(s, x, {"fp", "got", "rest"}) /\ x.fp = G
    BY <1>0 DEF Fields, Others
  <2>2. x.rest = 0 /\ x.got = IF s.rest % SS # 0 THEN c ELSE 0
    BY <1>0 DEF Fields
  <2>3. Rests(F, G, {"fptr"}) /\ G.fptr = F.fptr + s.rest
    BY <1>0 DEF Rests, FilFields
  <2>4. SeekTurn(s) = x
    BY <1>3 DEF SeekTurn
  <2> HIDE DEF x, G
  <2>5. Others(s, x, OwnFields)
    BY <2>1 DEF Others, OwnFields
  <2>6. Stepped(s, x, T, io, fd, n)
    <3>1. G.fptr \in Nat
      BY <1>0, <2>3
    <3>2. Rests(F, x.fp, {"fptr"}) /\ x.fp.fptr \in Nat
      BY <2>1, <2>3, <3>1
    <3> QED BY <2>1, <2>5, <3>2, StepFile
  <2>7. Rests(F, x.fp, {"fptr", "clust"})
    BY <2>1, <2>3, RestsIs
  <2>8. G.clust = c /\ G.sclust = F.sclust
    BY <2>3 DEF Rests, FilFields
  <2>9. Behinds(VL(s), G) = Behinds(VL(s), F)
    BY <2>8 DEF Behinds
  <2>10. G.fptr <= SS * (Behinds(VL(s), G) + 1)
    BY <1>0, <1>2, <1>3, <2>3, <2>9
  <2>11. G.fptr % SS # 0 => x.got = c
    <3>1. CASE s.rest = SS
      <4>1. (F.fptr + SS) % SS = F.fptr % SS
        BY <1>0, ModNext
      <4>2. G.fptr % SS = 0
        BY <1>2, <1>3, <2>3, <3>1, <4>1
      <4> QED BY <4>2
    <3>2. CASE s.rest # SS
      <4>1. s.rest < SS
        BY <1>0, <1>3, <3>2
      <4>2. s.rest % SS = s.rest
        BY <1>0, <4>1, ModSmall
      <4> QED BY <1>3, <2>2, <4>2
    <3> QED BY <3>1, <3>2
  <2>12. Near(x)
    BY <1>2, <1>3, <2>1, <2>6, <2>8, <2>10, <2>11 DEF Near, Stepped
  <2>13. 0 < s.rest
    BY <1>0, <1>3
  <2> QED BY <1>3, <2>2, <2>4, <2>6, <2>7, <2>12, <2>13 DEF Seeking, Stepped
<1>4. CASE s.rest > SS
  <2>0. s.rest # 0 /\ ~(s.rest <= SS)
    BY <1>0, <1>4
  <2> DEFINE G == [F EXCEPT !.fptr = @ + SS]
  <2>1. SeekTurn(s) =
          IF OK(d) THEN IF Flag(s, "WRITE") /\ next = 0 THEN y1
                        ELSE IF next \notin Clusters THEN Fail(d, "INT_ERR") ELSE y2
          ELSE d
    BY <2>0 DEF SeekTurn, Then
  <2>2. DOMAIN z = Fields /\ Others(s, z, {"fp", "rest"}) /\ z.fp = G /\ z.rest = s.rest - SS
    BY <1>0 DEF Fields, Others
  <2>3. Rests(F, G, {"fptr"}) /\ G.fptr = F.fptr + SS
    BY <1>0 DEF Rests, FilFields
  <2> HIDE DEF z, G
  <2>4. Others(s, z, OwnFields) /\ G.fptr \in Nat /\ G.fptr > 0
    BY <1>0, <2>2, <2>3 DEF Others, OwnFields
  <2>5. Stepped(s, z, T, io, fd, n)
    <3>1. Rests(F, z.fp, {"fptr"}) /\ z.fp.fptr \in Nat
      BY <2>2, <2>3, <2>4
    <3> QED BY <2>2, <2>4, <3>1, StepFile
  <2>6. FI(z, T, io, fd, n) /\ VL(z) = VL(s) /\ OK(z)
    BY <2>5 DEF Stepped
  <2>7. G.clust = c /\ G.sclust = F.sclust /\ G.err = "OK" /\ DOMAIN G = FilFields
    BY <2>3 DEF Rests, FilFields
  <2>8. Placed(VL(z), G) /\ G.fptr % SS = 0
    <3>1. (F.fptr + SS) % SS = F.fptr % SS
      BY <1>0, ModNext
    <3>2. Behinds(VL(s), G) = Behinds(VL(s), F)
      BY <2>7 DEF Behinds
    <3>3. G.fptr <= SS * (Behinds(VL(s), G) + 1)
      BY <1>0, <1>2, <2>0, <2>3, <3>2
    <3> QED BY <1>2, <2>0, <2>3, <2>4, <2>6, <2>7, <3>1, <3>3 DEF Placed
  <2>9. /\ FI(d, T, io, fd, n) /\ d.fp = G /\ d.rest = z.rest /\ Placed(VL(d), G)
        /\ OK(d) /\ next \in Clusters => next = VL(d)[c]
    <3>1. CASE Flag(s, "WRITE")
      <4> DEFINE e == CreateChain(z, c)
      <4>1. /\ FI(e, T, io, fd, n) /\ Others(z, e, LinkFields) /\ Placed(VL(e), e.fp)
            /\ OK(e) /\ e.got # 0 => Extended(z, e, c, With(io, fd, n, z.fp))
        BY <2>2, <2>6, <2>7, <2>8, ChainedIs
      <4>2. d = e /\ next = e.got
        BY <3>1
      <4> HIDE DEF e, d, next
      <4>3. e.fp = G /\ e.rest = z.rest
        BY <2>2, <4>1, LinkFileIs
      <4>4. c # 0 /\ 0 \notin Clusters
        BY <1>2, <2>0, ChainClusters, Numbers
      <4>5. OK(e) /\ e.got \in Clusters => e.got = VL(e)[c]
        BY <4>1, <4>4 DEF Extended
      <4> QED BY <4>1, <4>2, <4>3, <4>5
    <3>2. CASE ~Flag(s, "WRITE")
      <4> DEFINE e == GetFat(z, c)
      <4>1. MI(z, T, {}, With(io, fd, n, G), fd) /\ z.mounted /\ FilOK(G)
        BY <2>2, <2>6, FileOf
      <4>2. /\ MI(e, T, {}, With(io, fd, n, G), fd) /\ VL(e) = VL(z) /\ Others(z, e, WinFields)
            /\ OK(e) => Link(e, c) = VL(z)[c]
        BY <2>6, <4>1, GetFatIs
      <4>3. d = e /\ next = Link(e, c)
        BY <3>2
      <4> HIDE DEF e, d, next
      <4>4. e.fp = G /\ e.rest = z.rest /\ e.mounted
        BY <2>2, <4>1, <4>2, OthersIs
      <4>5. FI(e, T, io, fd, n)
        BY <4>1, <4>2, <4>4 DEF FI
      <4> QED BY <2>8, <4>2, <4>3, <4>4, <4>5
    <3> QED BY <3>1, <3>2
  <2> HIDE DEF d, next
  <2>10. Rests(F, G, {"fptr", "clust"})
    BY <2>3, RestsIs
  <2>11. DOMAIN d = Fields
    BY <2>9, FileOf
  <2>12. CASE ~OK(d)
    BY <2>1, <2>9, <2>10, <2>12
  <2>13. CASE OK(d) /\ Flag(s, "WRITE") /\ next = 0
    <3>1. SeekTurn(s) = y1
      BY <2>1, <2>13
    <3>2. DOMAIN y1 = Fields /\ Others(d, y1, {"rest"}) /\ y1.rest = 0
      BY <2>11 DEF Fields, Others
    <3> HIDE DEF y1
    <3>3. y1.fp = G /\ Others(d, y1, OwnFields)
      BY <2>9, <3>2 DEF Others, OwnFields, Fields
    <3>4. Stepped(d, y1, T, io, fd, n)
      <4>1. Rests(d.fp, y1.fp, {}) /\ y1.fp.fptr \in Nat
        BY <2>4, <2>7, <2>9, <3>3 DEF Rests
      <4> QED BY <2>9, <3>2, <3>3, <4>1, StepFile
    <3>5. Near(y1)
      BY <2>4, <2>8, <2>9, <3>3, <3>4 DEF Near, Placed, Stepped
    <3>6. 0 < s.rest
      BY <1>0, <2>0
    <3> QED BY <2>0, <2>10, <3>1, <3>2, <3>3, <3>4, <3>5, <3>6 DEF Seeking, Stepped
  <2>14. CASE OK(d) /\ ~(Flag(s, "WRITE") /\ next = 0) /\ next \notin Clusters
    <3>1. SeekTurn(s) = Fail(d, "INT_ERR") /\ "INT_ERR" \in Results \ {"OK"}
      BY <2>1, <2>14 DEF Results
    <3> QED BY <2>9, <2>10, <3>1, FailFile
  <2>15. CASE OK(d) /\ ~(Flag(s, "WRITE") /\ next = 0) /\ next \in Clusters
    <3> DEFINE H == [G EXCEPT !.clust = next]
    <3>1. SeekTurn(s) = y2
      BY <2>1, <2>15
    <3>2. DOMAIN y2 = Fields /\ Others(d, y2, {"fp"}) /\ y2.fp = H
      BY <2>9, <2>11 DEF Fields, Others
    <3>3. Rests(G, H, {"clust"}) /\ H.clust = next
      BY <2>7 DEF Rests, FilFields
    <3> HIDE DEF y2, H
    <3>4. Others(d, y2, OwnFields) /\ y2.rest = z.rest
      BY <2>9, <3>2, LinkFileIs
    <3>5. H.fptr = G.fptr /\ H.sclust = G.sclust
      BY <3>3 DEF Rests, FilFields
    <3>6. Stepped(d, y2, T, io, fd, n)
      <4>1. Rests(d.fp, y2.fp, {"clust"}) /\ y2.fp.fptr \in Nat
        BY <2>4, <2>9, <3>2, <3>3, <3>5
      <4> QED BY <2>9, <3>2, <3>4, <4>1, StepFile
    <3>7. Rests(F, H, {"fptr", "clust"})
      <4>1. Rests(G, H, {"fptr", "clust"})
        BY <3>3, RestsIs
      <4> QED BY <2>10, <4>1, RestsIs
    <3>8. Begun(VL(d), H)
      <4>1. Wired(VL(d)) /\ FileIn(VL(d), VD(d), G, n)
        BY <2>9, FileOf
      <4>2. G.clust \in Chain(VL(d), G.sclust)
        BY <2>4, <2>9 DEF Placed
      <4>3. G.sclust # 0
        BY <4>2, NoChain, Numbers
      <4>4. Begins(VL(d), G.sclust)
        BY <4>1, <4>3 DEF FileIn
      <4>5. H.clust = VL(d)[G.clust] /\ H.clust \in Clusters
        BY <2>7, <2>9, <2>15, <3>3
      <4> QED BY <2>4, <2>9, <3>5, <4>1, <4>4, <4>5, BegunNext
    <3>9. y2.rest \in Nat /\ y2.rest # 0 /\ y2.rest < s.rest
      BY <1>0, <1>4, <2>2, <3>4
    <3> QED BY <2>0, <2>8, <3>1, <3>2, <3>5, <3>6, <3>7, <3>8, <3>9 DEF Seeking, Stepped
  <2> QED BY <2>12, <2>13, <2>14, <2>15
<1> QED BY <1>0, <1>1, <1>3, <1>4

(* The turns of a seek.                                                    *)
SeekStep(a) == Then(a, SeekTurn)
SeekRan(s, n) ==
  \E f : /\ f[0] = s /\ \A k \in 0 .. n - 1 : f[k + 1] = SeekStep(f[k])
         /\ Repeat(s, SeekStep, n) = f[n]
LEMMA SeekRun ==
  ASSUME NEW s, NEW n \in Nat
  PROVE  SeekRan(s, n)
<1> DEFINE Run(f, m) == f = [k \in 0 .. m |-> IF k = 0 THEN s ELSE SeekStep(f[k - 1])]
           S == {m \in Nat : \E f : Run(f, m)}
<1> HIDE DEF SeekStep
<1>1. 0 \in S
  <2>1. Run([k \in 0 .. 0 |-> s], 0)
    OBVIOUS
  <2> QED BY <2>1
<1>2. ASSUME NEW m \in Nat, m \in S PROVE m + 1 \in S
  <2>1. PICK f : Run(f, m)
    BY <1>2
  <2> DEFINE g == [k \in 0 .. m + 1 |-> IF k <= m THEN f[k] ELSE SeekStep(f[m])]
  <2>2. Run(g, m + 1)
    <3>1. ASSUME NEW k \in 0 .. m + 1 PROVE g[k] = IF k = 0 THEN s ELSE SeekStep(g[k - 1])
      <4>1. CASE k = m + 1
        BY <4>1
      <4>2. CASE k <= m
        BY <4>2, <2>1
      <4> QED BY <4>1, <4>2
    <3> QED BY <3>1
  <2> HIDE DEF g, Run
  <2> QED BY <2>2
<1>3. n \in S
  <2> HIDE DEF S
  <2> QED BY <1>1, <1>2, UpTo
<1>4. PICK g : Run(g, n)
  BY <1>3
<1> DEFINE after == CHOOSE f : Run(f, n)
<1>5. Run(after, n)
  BY <1>4
<1>6. Repeat(s, SeekStep, n) = after[n]
  BY DEF Repeat
<1>7. after[0] = s /\ \A k \in 0 .. n - 1 : after[k + 1] = SeekStep(after[k])
  <2> HIDE DEF after
  <2> QED BY <1>5
<1> QED BY <1>6, <1>7 DEF SeekRan


LEMMA SeekLoopIs ==
  ASSUME NEW s, NEW T, NEW io, NEW fd, NEW n, NEW cnt \in Nat,
         cnt > 0, fd \notin DOMAIN io, FI(s, T, io, fd, n), OK(s), s.fp.err = "OK",
         Begun(VL(s), s.fp), s.fp.fptr % SS = 0
  PROVE  LET a == SeekLoop(s, cnt)
         IN /\ FI(a, T, io, fd, n) /\ Rests(s.fp, a.fp, {"fptr", "clust"})
            /\ OK(a) => Near(a)
<1> DEFINE z == [s EXCEPT !.rest = cnt]
           X == {"fptr", "clust"}
           I(a, k) == /\ FI(a, T, io, fd, n) /\ Rests(s.fp, a.fp, X)
                      /\ OK(a) => Seeking(a) /\ a.rest <= cnt - k
<1>0. DOMAIN s = Fields /\ FilOK(s.fp) /\ DOMAIN s.fp = FilFields /\ s.fp.fptr \in Nat
  BY FileOf DEF FilOK
<1>1. DOMAIN z = Fields /\ Others(s, z, {"rest"}) /\ z.rest = cnt
  BY <1>0 DEF Fields, Others
<1>2. SeekLoop(s, cnt) = Repeat(z, SeekStep, cnt)
  BY DEF SeekLoop, Repeat, SeekStep
<1> HIDE DEF z
<1>3. I(z, 0)
  <2>1. Others(s, z, OwnFields) /\ z.fp = s.fp
    BY <1>1 DEF Others, OwnFields, Fields
  <2>2. Stepped(s, z, T, io, fd, n)
    <3>1. Rests(s.fp, z.fp, {"fptr"}) /\ z.fp.fptr \in Nat
      BY <1>0, <2>1 DEF Rests
    <3>2. {"fptr"} \subseteq {"fptr", "clust"}
      OBVIOUS
    <3> QED BY <1>1, <2>1, <3>1, <3>2, StepFile
  <2>3. Rests(s.fp, z.fp, X)
    BY <1>0, <2>1 DEF Rests
  <2>4. Seeking(z) /\ z.rest <= cnt - 0
    <3>1. Begun(VL(z), z.fp) /\ z.fp.fptr % SS = 0
      BY <2>1, <2>2 DEF Stepped
    <3> QED BY <1>1, <3>1 DEF Seeking
  <2> QED BY <2>2, <2>3, <2>4 DEF Stepped
<1>4. ASSUME NEW a, NEW k \in 0 .. cnt - 1, I(a, k) PROVE I(SeekStep(a), k + 1)
  <2>1. CASE ~OK(a)
    BY <1>4, <2>1 DEF SeekStep, Then
  <2>2. CASE OK(a)
    <3> DEFINE b == SeekTurn(a)
    <3>1. SeekStep(a) = b
      BY <2>2 DEF SeekStep, Then
    <3>2. a.fp.err = "OK"
      BY <1>4 DEF Rests, FilFields
    <3>3. /\ FI(b, T, io, fd, n) /\ Rests(a.fp, b.fp, X)
          /\ OK(b) => Seeking(b) /\ IF a.rest = 0 THEN b.rest = 0 ELSE b.rest < a.rest
      BY <1>4, <2>2, <3>2, SeekTurnIs
    <3> HIDE DEF b
    <3>4. Rests(s.fp, b.fp, X)
      BY <1>4, <3>3, RestsIs
    <3>5. ASSUME OK(b) PROVE b.rest <= cnt - (k + 1)
      <4>1. a.rest \in Nat /\ b.rest \in Nat /\ a.rest <= cnt - k
        BY <1>4, <2>2, <3>3, <3>5 DEF Seeking
      <4> QED BY <3>3, <3>5, <4>1
    <3> QED BY <3>1, <3>3, <3>4, <3>5
  <2> QED BY <2>1, <2>2
<1>5. PICK f : /\ f[0] = z /\ \A k \in 0 .. cnt - 1 : f[k + 1] = SeekStep(f[k])
               /\ Repeat(z, SeekStep, cnt) = f[cnt]
  <2>1. SeekRan(z, cnt)
    BY SeekRun
  <2> QED BY <2>1 DEF SeekRan
<1> DEFINE S == {k \in 0 .. cnt : I(f[k], k)}
<1> HIDE DEF I
<1>6. 0 \in S
  BY <1>3, <1>5
<1>7. ASSUME NEW k \in 0 .. cnt - 1, k \in S PROVE k + 1 \in S
  <2>1. k + 1 \in 0 .. cnt /\ I(f[k], k) /\ f[k + 1] = SeekStep(f[k])
    BY <1>5, <1>7
  <2>2. I(f[k + 1], k + 1)
    BY <1>4, <2>1
  <2> QED BY <2>1, <2>2
<1>8. cnt \in S
  <2> HIDE DEF S
  <2> QED BY <1>6, <1>7, UpTo
<1>9. I(SeekLoop(s, cnt), cnt)
  BY <1>2, <1>5, <1>8
<1>10. ASSUME NEW a, I(a, cnt), OK(a) PROVE Near(a)
  <2>1. Seeking(a) /\ a.rest \in Nat /\ a.rest <= cnt - cnt
    BY <1>10 DEF I, Seeking
  <2>2. a.rest = 0
    BY <2>1
  <2> QED BY <2>1, <2>2 DEF Seeking
<1> QED BY <1>9, <1>10 DEF I

(* The pointer goes back to where its cluster begins.                      *)
LEMMA BaseIs ==
  ASSUME NEW cur \in Nat, cur > 0, NEW ofs \in Nat, ofs > 0, NEW k \in Int, cur <= SS * (k + 1)
  PROVE  LET base == SS * ((cur - 1) \div SS)
         IN /\ base \in Nat /\ base % SS = 0 /\ base <= SS * k
            /\ (ofs - 1) \div SS >= (cur - 1) \div SS => ofs - base \in Nat \ {0}
<1> DEFINE q == (cur - 1) \div SS
           p == (ofs - 1) \div SS
<1>1. cur - 1 \in Nat /\ ofs - 1 \in Nat /\ SS \in Nat
  BY Numbers
<1>2. /\ q \in Nat /\ cur - 1 = SS * q + ((cur - 1) % SS) /\ (cur - 1) % SS \in Nat
      /\ p \in Nat /\ ofs - 1 = SS * p + ((ofs - 1) % SS) /\ (ofs - 1) % SS \in Nat
  BY <1>1, Mods
<1> HIDE DEF p, q
<1>3. SS * q \in Nat /\ (SS * q) % SS = 0 /\ SS * p \in Nat
  BY <1>2, ModTimes
<1>4. q <= k
  <2>1. CASE q >= k + 1
    <3>1. SS * (k + 1) <= SS * q /\ SS * (k + 1) \in Int
      BY <1>2, <2>1, Times
    <3> QED BY <1>1, <1>2, <1>3, <3>1
  <2> QED BY <1>2, <2>1
<1>5. SS * q <= SS * k
  BY <1>2, <1>4, Times
<1>6. p >= q => ofs - SS * q \in Nat \ {0}
  <2> HAVE p >= q
  <2>1. SS * q <= SS * p
    BY <1>2, Times
  <2> QED BY <1>1, <1>2, <1>3, <2>1
<1> QED BY <1>3, <1>5, <1>6 DEF p, q

LEMMA SeekToIs ==
  ASSUME NEW s, NEW T, NEW io, NEW fd, NEW n, NEW ofs \in Nat,
         fd \notin DOMAIN io, FI(s, T, io, fd, n), OK(s), s.fp.err = "OK", Placed(VL(s), s.fp)
  PROVE  LET a == SeekTo(s, ofs)
         IN /\ FI(a, T, io, fd, n) /\ Rests(s.fp, a.fp, {"fptr", "clust", "sclust"})
            /\ OK(a) => Near(a)
<1> DEFINE F == s.fp
           cur == F.fptr
           X == {"fptr", "clust", "sclust"}
           base == SS * ((cur - 1) \div SS)
           near == cur > 0 /\ (ofs - 1) \div SS >= (cur - 1) \div SS
           z == [s EXCEPT !.fp.fptr = 0, !.got = 0]
           y == [s EXCEPT !.fp.fptr = base]
           a == IF z.fp.sclust = 0 THEN CreateChain(z, 0) ELSE [z EXCEPT !.got = z.fp.sclust]
           b == [a EXCEPT !.fp.sclust = a.got, !.fp.clust = a.got]
<1>0. /\ FileIn(VL(s), VD(s), F, n) /\ DOMAIN s = Fields /\ DOMAIN F = FilFields /\ FilOK(F)
      /\ cur \in Nat /\ F.sclust \in Clusters \cup {0} /\ 0 \notin Clusters
  BY FileOf, Numbers DEF FilOK, FileIn
<1>1. SeekTo(s, ofs) = IF ofs = 0 THEN z
                       ELSE IF near THEN SeekLoop(y, ofs - base)
                       ELSE IF OK(a) THEN IF a.got = 0 THEN b ELSE SeekLoop(b, ofs) ELSE a
  BY DEF SeekTo, Then
<1> DEFINE G == [F EXCEPT !.fptr = 0]
<1>2. DOMAIN z = Fields /\ Others(s, z, {"fp", "got"}) /\ z.fp = G
  BY <1>0 DEF Fields, Others
<1>3. Rests(F, G, {"fptr"}) /\ G.fptr = 0
  BY <1>0 DEF Rests, FilFields
<1> HIDE DEF G, z
<1>4. G.sclust = F.sclust /\ G.err = "OK" /\ DOMAIN G = FilFields
  BY <1>3 DEF Rests, FilFields
<1>5. Stepped(s, z, T, io, fd, n)
  <2>1. Others(s, z, OwnFields)
    BY <1>2 DEF Others, OwnFields
  <2>2. Rests(F, z.fp, {"fptr"}) /\ z.fp.fptr \in Nat
    BY <1>2, <1>3
  <2> QED BY <1>2, <2>1, <2>2, StepFile
<1>6. FI(z, T, io, fd, n) /\ OK(z) /\ VL(z) = VL(s)
  BY <1>5 DEF Stepped
<1>7. Rests(F, G, X)
  BY <1>3, RestsIs
<1>8. 0 % SS = 0
  BY Numbers
<1>9. CASE ofs = 0
  <2>1. Near(z)
    BY <1>2, <1>3, <1>8 DEF Near
  <2> QED BY <1>1, <1>2, <1>6, <1>7, <1>9, <2>1
<1>10. CASE ofs # 0 /\ near
  <2> DEFINE H == [F EXCEPT !.fptr = base]
             k == Behinds(VL(s), F)
  <2>1. F.clust \in Chain(VL(s), F.sclust) /\ cur <= SS * (k + 1) /\ k \in Int
    BY <1>10, BehindsIs DEF Placed
  <2>2. base \in Nat /\ base % SS = 0 /\ base <= SS * k /\ ofs - base \in Nat \ {0}
    <3>1. ofs > 0 /\ cur > 0
      BY <1>0, <1>10
    <3> HIDE DEF k
    <3> QED BY <1>0, <1>10, <2>1, <3>1, BaseIs
  <2> HIDE DEF base
  <2>3. DOMAIN y = Fields /\ Others(s, y, {"fp"}) /\ y.fp = H
    BY <1>0 DEF Fields, Others
  <2>4. Rests(F, H, {"fptr"}) /\ H.fptr = base
    BY <1>0 DEF Rests, FilFields
  <2>5. SeekTo(s, ofs) = SeekLoop(y, ofs - base)
    BY <1>1, <1>10
  <2> HIDE DEF y, H
  <2>6. H.sclust = F.sclust /\ H.clust = F.clust /\ H.err = "OK"
    BY <2>4 DEF Rests, FilFields
  <2>7. Stepped(s, y, T, io, fd, n)
    <3>1. Others(s, y, OwnFields)
      BY <2>3 DEF Others, OwnFields
    <3>2. Rests(F, y.fp, {"fptr"}) /\ y.fp.fptr \in Nat
      BY <2>2, <2>3, <2>4
    <3> QED BY <2>3, <3>1, <3>2, StepFile
  <2>8. Begun(VL(y), y.fp) /\ y.fp.fptr % SS = 0 /\ y.fp.err = "OK" /\ OK(y) /\ FI(y, T, io, fd, n)
    <3>1. Behinds(VL(s), H) = k
      BY <2>6 DEF Behinds
    <3> QED BY <2>1, <2>2, <2>3, <2>4, <2>6, <2>7, <3>1 DEF Begun, Stepped
  <2> DEFINE e == SeekLoop(y, ofs - base)
  <2>9. FI(e, T, io, fd, n) /\ Rests(y.fp, e.fp, {"fptr", "clust"}) /\ (OK(e) => Near(e))
    <3>1. ofs - base \in Nat /\ ofs - base > 0
      BY <2>2
    <3> QED BY <2>2, <2>8, <3>1, SeekLoopIs
  <2> HIDE DEF e
  <2>10. Rests(F, e.fp, X)
    <3>1. Rests(H, e.fp, X) /\ Rests(F, H, X)
      BY <2>3, <2>4, <2>9, RestsIs
    <3> QED BY <3>1, RestsIs
  <2> QED BY <2>5, <2>9, <2>10 DEF e
<1>11. CASE ofs # 0 /\ ~near
  <2>1. SeekTo(s, ofs) = IF OK(a) THEN IF a.got = 0 THEN b ELSE SeekLoop(b, ofs) ELSE a
    BY <1>1, <1>11
  <2>2. Placed(VL(z), G)
    BY <1>3, <1>8 DEF Placed
  <2>3. /\ FI(a, T, io, fd, n) /\ a.fp = G
        /\ OK(a) /\ a.got # 0 /\ F.sclust = 0 => Extended(z, a, 0, With(io, fd, n, G))
        /\ F.sclust # 0 => a.got = F.sclust
    <3>1. CASE F.sclust = 0
      <4> DEFINE e == CreateChain(z, 0)
      <4>1. /\ FI(e, T, io, fd, n) /\ Others(z, e, LinkFields)
            /\ OK(e) /\ e.got # 0 => Extended(z, e, 0, With(io, fd, n, z.fp))
        BY <1>2, <1>4, <1>6, <2>2, ChainedIs
      <4>2. a = e
        BY <1>2, <1>4, <3>1
      <4> HIDE DEF e, a
      <4>3. e.fp = G
        BY <1>2, <4>1, LinkFileIs
      <4> QED BY <1>2, <3>1, <4>1, <4>2, <4>3
    <3>2. CASE F.sclust # 0
      <4> DEFINE e == [z EXCEPT !.got = z.fp.sclust]
      <4>1. DOMAIN e = Fields /\ Others(z, e, {"got"}) /\ e.got = F.sclust
        BY <1>2, <1>4 DEF Fields, Others
      <4>2. a = e
        BY <1>2, <1>4, <3>2
      <4> HIDE DEF e, a
      <4>3. e.fp = G /\ Others(z, e, OwnFields)
        BY <1>2, <4>1, LinkFileIs
      <4>4. Stepped(z, e, T, io, fd, n)
        <5>1. Rests(z.fp, e.fp, {}) /\ e.fp.fptr \in Nat
          BY <1>2, <1>3, <1>4, <4>3 DEF Rests
        <5> QED BY <1>6, <4>1, <4>3, <5>1, StepFile
      <4> QED BY <3>2, <4>1, <4>2, <4>3, <4>4 DEF Stepped
    <3> QED BY <3>1, <3>2
  <2> HIDE DEF a
  <2>4. CASE ~OK(a)
    BY <1>7, <2>1, <2>3, <2>4
  <2>5. CASE OK(a)
    <3> DEFINE H == [G EXCEPT !.sclust = a.got, !.clust = a.got]
    <3>0. /\ DOMAIN a = Fields /\ FileIn(VL(a), VD(a), G, n) /\ FilOK(G)
          /\ \A f \in DOMAIN io : io[f].fil.sclust = G.sclust => G.sclust = 0
      <4>1. DOMAIN a = Fields /\ FileIn(VL(a), VD(a), G, n) /\ FilOK(G)
        BY <2>3, FileOf
      <4>2. \A f \in DOMAIN io : io[f].fil.sclust = a.fp.sclust => a.fp.sclust = 0
        BY <2>3, FileOf
      <4> QED BY <2>3, <4>1, <4>2
    <3>1. DOMAIN b = Fields /\ Others(a, b, {"fp"}) /\ b.fp = H
      BY <2>3, <3>0, <1>4 DEF Fields, Others, FilFields
    <3>2. Rests(G, H, {"clust", "sclust"}) /\ H.sclust = a.got /\ H.clust = a.got
      BY <1>4 DEF Rests, FilFields
    <3> HIDE DEF b, H
    <3>3. /\ H.size = G.size /\ H.entry = G.entry /\ H.flags = G.flags /\ H.fptr = 0
          /\ H.sect = G.sect /\ H.err = "OK" /\ H.buf = G.buf /\ DOMAIN H = FilFields
      BY <1>3, <1>4, <3>2 DEF Rests, FilFields
    <3>4. Others(a, b, OwnFields)
      BY <3>1, LinkFileIs
    <3>5. FilOK(H)
      BY <1>4, <3>0, <3>3 DEF FilOK
    <3>6. Rests(F, H, X)
      <4>1. Rests(G, H, X)
        BY <3>2, RestsIs
      <4> QED BY <1>7, <4>1, RestsIs
    <3>7. /\ FileIn(VL(a), VD(a), H, n)
          /\ \A f \in DOMAIN io : io[f].fil.sclust = H.sclust => H.sclust = 0
          /\ a.got # 0 => a.got \in Clusters
      <4>1. CASE F.sclust # 0 \/ a.got = 0
        <5>1. a.got = F.sclust /\ H.sclust = G.sclust
          BY <1>4, <2>3, <3>2, <4>1
        <5> QED BY <1>0, <3>0, <3>3, <5>1, FileKeep
      <4>2. CASE F.sclust = 0 /\ a.got # 0
        <5>1. Fresh(z, a, 0, With(io, fd, n, G))
          BY <2>3, <2>5, <4>2 DEF Extended
        <5>2. a.got \in Clusters /\ VL(a)[a.got] = Eoc /\ Loose(a, a.got, With(io, fd, n, G))
          BY <5>1 DEF Fresh
        <5>3. /\ First(VL(a), a.got) /\ a.got # Root
              /\ \A p \in Live(VD(a)) : At(VD(a), p).clust # a.got
              /\ \A f \in DOMAIN io : io[f].fil.sclust # a.got
          BY <5>2 DEF Loose, With
        <5>4. FileIn(VL(a), VD(a), H, n)
          BY <1>4, <3>0, <3>2, <3>3, <4>2, <5>2, <5>3, FirstCluster
        <5> QED BY <3>2, <5>2, <5>3, <5>4
      <4> QED BY <4>1, <4>2
    <3>8. FI(b, T, io, fd, n) /\ VL(b) = VL(a) /\ VD(b) = VD(a) /\ OK(b)
      BY <2>3, <2>5, <3>1, <3>4, <3>5, <3>7, FileStepNew
    <3>9. CASE a.got = 0
      <4>1. SeekTo(s, ofs) = b
        BY <2>1, <2>5, <3>9
      <4>2. Near(b)
        BY <1>8, <3>1, <3>3 DEF Near
      <4> QED BY <3>1, <3>6, <3>8, <4>1, <4>2
    <3>10. CASE a.got # 0
      <4> DEFINE e == SeekLoop(b, ofs)
      <4>1. SeekTo(s, ofs) = e
        BY <2>1, <2>5, <3>10
      <4>2. Begun(VL(b), b.fp)
        BY <3>1, <3>2, <3>3, <3>7, <3>10, BegunFirst
      <4>3. b.fp.fptr % SS = 0 /\ b.fp.err = "OK" /\ ofs > 0
        BY <1>8, <1>11, <3>1, <3>3
      <4>4. FI(e, T, io, fd, n) /\ Rests(b.fp, e.fp, {"fptr", "clust"}) /\ (OK(e) => Near(e))
        BY <3>8, <4>2, <4>3, SeekLoopIs
      <4> HIDE DEF e
      <4>5. Rests(F, e.fp, X)
        <5>1. Rests(H, e.fp, X)
          BY <3>1, <4>4, RestsIs
        <5> QED BY <3>6, <5>1, RestsIs
      <4> QED BY <4>1, <4>4, <4>5
    <3> QED BY <3>9, <3>10
  <2> QED BY <2>4, <2>5
<1> QED BY <1>9, <1>10, <1>11

(* The file is as long as where the pointer is.                            *)
LongerBy(a, y, T, io, fd, n) ==
  /\ FI(y, T, io, fd, n) /\ VL(y) = VL(a) /\ OK(y) /\ Near(y) /\ y.got = a.got
  /\ Keeps(a.fp, y.fp) /\ Rests(a.fp, y.fp, Written) /\ y.fp.fptr = a.fp.fptr
  /\ y.fp.fptr <= y.fp.size
LEMMA LongerIs ==
  ASSUME NEW a, NEW T, NEW io, NEW fd, NEW n, fd \notin DOMAIN io, FI(a, T, io, fd, n), OK(a),
         Near(a)
  PROVE  LongerBy(a, IF a.fp.fptr > a.fp.size
                     THEN [a EXCEPT !.fp.size = a.fp.fptr, !.fp.flags = @ \cup {"MODIFIED"}] ELSE a,
                  T, io, fd, n)
<1> DEFINE F == a.fp
           G == [F EXCEPT !.size = F.fptr, !.flags = @ \cup {"MODIFIED"}]
           x == [a EXCEPT !.fp.size = a.fp.fptr, !.fp.flags = @ \cup {"MODIFIED"}]
<1>0. /\ FileIn(VL(a), VD(a), F, n) /\ DOMAIN a = Fields /\ DOMAIN F = FilFields /\ FilOK(F)
      /\ F.fptr \in Nat /\ F.size \in Nat
  BY FileOf DEF FilOK, FileIn
<1>1. CASE ~(F.fptr > F.size)
  <2>1. F.fptr <= F.size
    BY <1>0, <1>1
  <2> QED BY <1>0, <1>1, <2>1 DEF LongerBy, Keeps, Rests
<1>2. CASE F.fptr > F.size
  <2>1. DOMAIN x = Fields /\ Others(a, x, {"fp"}) /\ x.fp = G
    BY <1>0 DEF Fields, Others
  <2>2. /\ Rests(F, G, {"size", "flags"}) /\ G.size = F.fptr /\ G.flags = F.flags \cup {"MODIFIED"}
    BY <1>0 DEF Rests, FilFields
  <2> HIDE DEF x, G
  <2>3. /\ G.sclust = F.sclust /\ G.entry = F.entry
        /\ G.sect = F.sect /\ G.fptr = F.fptr /\ G.clust = F.clust /\ G.err = F.err
        /\ G.buf = F.buf /\ DOMAIN G = FilFields
    BY <2>2 DEF Rests, FilFields
  <2>4. FilOK(G)
    BY <1>0, <2>3 DEF FilOK
  <2>5. F.fptr <= SS * Cardinality(Chain(VL(a), F.sclust))
    <3> DEFINE L == VL(a)
    <3>1. F.fptr > 0
      BY <1>0, <1>2
    <3>2. F.clust \in Chain(L, F.sclust) /\ F.clust \in Clusters /\ F.fptr <= SS * (Behinds(L, F) + 1)
      BY <3>1, ChainClusters DEF Near
    <3>3. /\ Cardinality(Chain(L, F.clust)) \in Nat /\ Cardinality(Chain(L, F.clust)) >= 1
          /\ Cardinality(Chain(L, F.sclust)) \in Nat
      BY <3>2, ChainSize
    <3>4. Behinds(L, F) + 1 <= Cardinality(Chain(L, F.sclust)) /\ Behinds(L, F) + 1 \in Int
      BY <3>3 DEF Behinds
    <3>5. /\ SS * (Behinds(L, F) + 1) <= SS * Cardinality(Chain(L, F.sclust))
          /\ SS * (Behinds(L, F) + 1) \in Int /\ SS * Cardinality(Chain(L, F.sclust)) \in Int
      BY <3>3, <3>4, Times
    <3> QED BY <1>0, <3>2, <3>5
  <2>6. FileIn(VL(a), VD(a), G, n)
    BY <1>0, <2>2, <2>3, <2>5 DEF FileIn
  <2>7. Others(a, x, OwnFields) /\ x.got = a.got
    BY <2>1, LinkFileIs
  <2>8. FI(x, T, io, fd, n) /\ VL(x) = VL(a) /\ (OK(x) <=> OK(a))
    BY <2>1, <2>3, <2>4, <2>6, <2>7, FileStep
  <2>9. Near(x)
    BY <2>1, <2>3, <2>7, <2>8 DEF Near, Behinds
  <2>10. Rests(F, G, Written) /\ Keeps(F, G) /\ G.fptr <= G.size
    <3>1. Rests(F, G, Written)
      BY <2>2, RestsIs DEF Written
    <3> QED BY <1>0, <2>2, <2>3, <3>1 DEF Keeps
  <2> QED BY <1>2, <2>1, <2>3, <2>7, <2>8, <2>9, <2>10 DEF LongerBy, x
<1> QED BY <1>1, <1>2

LEMMA FlseekIs ==
  ASSUME NEW s, NEW T, NEW io, NEW fd, NEW n, NEW goal \in Nat,
         fd \notin DOMAIN io, FI(s, T, io, fd, n), OK(s), Sits(s)
  PROVE  LET a == Flseek(s, goal)
         IN FI(a, T, io, fd, n) /\ Sits(a) /\ Keeps(s.fp, a.fp)
<1> DEFINE ofs == IF Flag(s, "WRITE") THEN goal ELSE Min({goal, s.fp.size})
           t == SeekTo(s, ofs)
           y == IF t.fp.fptr > t.fp.size
                THEN [t EXCEPT !.fp.size = t.fp.fptr, !.fp.flags = @ \cup {"MODIFIED"}] ELSE t
           e == IF OK(t) THEN IF AtBoundary(t) THEN y ELSE Buffered(y, t.got) ELSE t
           a == Abort(e)
<1>0. FilOK(s.fp) /\ s.fp.size \in Nat
  BY FileOf DEF FileIn
<1>1. CASE s.fp.err # "OK"
  <2>1. s.fp.err \in Results \ {"OK"} /\ Flseek(s, goal) = Fail(s, s.fp.err)
    BY <1>0, <1>1 DEF FilOK, Flseek
  <2> QED BY <1>1, <2>1, FailFile DEF Sits
<1>2. CASE s.fp.err = "OK"
  <2>1. Flseek(s, goal) = a
    BY <1>2 DEF Flseek, Then
  <2>2. Placed(VL(s), s.fp)
    BY <1>2 DEF Sits
  <2>3. ofs \in Nat
    <3>1. Min({goal, s.fp.size}) \in Nat
      BY <1>0, MinMax
    <3> QED BY <3>1
  <2> HIDE DEF ofs
  <2>4. /\ FI(t, T, io, fd, n) /\ Rests(s.fp, t.fp, {"fptr", "clust", "sclust"})
        /\ OK(t) => Near(t)
    BY <1>2, <2>2, <2>3, SeekToIs
  <2> HIDE DEF t
  <2>5. Keeps(s.fp, t.fp)
    BY <2>4 DEF Rests, Keeps, FilFields
  <2>6. /\ FI(e, T, io, fd, n) /\ Keeps(s.fp, e.fp)
        /\ OK(e) => Placed(VL(e), e.fp) /\ e.fp.fptr <= e.fp.size
    <3>1. CASE ~OK(t)
      BY <2>4, <2>5, <3>1
    <3>2. CASE OK(t)
      <4>1. LongerBy(t, y, T, io, fd, n)
        BY <2>4, <3>2, LongerIs
      <4> HIDE DEF y
      <4>2. FI(y, T, io, fd, n) /\ OK(y) /\ Keeps(s.fp, y.fp) /\ y.fp.fptr \in Nat
        <5>1. FI(y, T, io, fd, n) /\ OK(y) /\ Keeps(t.fp, y.fp)
          BY <4>1 DEF LongerBy
        <5> QED BY <2>5, <5>1, RestsIs, FileOf DEF FilOK
      <4>3. CASE AtBoundary(t)
        <5>1. y.fp.fptr % SS = 0 /\ y.fp.fptr <= y.fp.size
          BY <4>1, <4>3 DEF LongerBy, AtBoundary
        <5>2. Placed(VL(y), y.fp)
          BY <4>1, <4>2, <5>1 DEF LongerBy, Near, Placed
        <5>3. e = y
          BY <3>2, <4>3
        <5> HIDE DEF e
        <5> QED BY <4>2, <5>1, <5>2, <5>3
      <4>4. CASE ~AtBoundary(t)
        <5> DEFINE w == Buffered(y, t.got)
        <5>1. t.got \in Chain(VL(y), y.fp.sclust)
          BY <4>1, <4>4 DEF LongerBy, Near, AtBoundary
        <5>2. /\ FI(w, T, io, fd, n) /\ VL(w) = VL(y)
              /\ Rests(y.fp, w.fp, {"flags", "buf", "sect"}) /\ Keeps(y.fp, w.fp)
              /\ OK(w) => w.fp.sect = t.got
          BY <4>2, <5>1, BufferedIs
        <5>3. e = w
          BY <3>2, <4>4
        <5> HIDE DEF e, w
        <5>4. /\ w.fp.fptr = y.fp.fptr /\ w.fp.size = y.fp.size /\ w.fp.sclust = y.fp.sclust
              /\ w.fp.clust = y.fp.clust
          BY <5>2 DEF Rests, FilFields
        <5>5. OK(w) => Placed(VL(w), w.fp) /\ w.fp.fptr <= w.fp.size
          BY <4>1, <4>2, <5>1, <5>2, <5>4 DEF LongerBy, Near, Placed, Behinds
        <5>6. Keeps(s.fp, w.fp)
          BY <4>2, <5>2, RestsIs
        <5> QED BY <5>2, <5>3, <5>5, <5>6
      <4> QED BY <4>3, <4>4
    <3> QED BY <3>1, <3>2
  <2> HIDE DEF e
  <2>7. FI(a, T, io, fd, n) /\ Sits(a) /\ Keeps(e.fp, a.fp)
    BY <2>6, AbortIs
  <2> HIDE DEF a
  <2>8. Keeps(s.fp, a.fp)
    BY <2>6, <2>7, RestsIs
  <2> QED BY <2>1, <2>7, <2>8
<1> QED BY <1>1, <1>2

(***************************************************************************)
(* f_unlink and f_rename.                                                  *)
(***************************************************************************)
(* The file is gone, and that is on the card.                              *)
LEMMA FunlinkIs ==
  ASSUME NEW s, NEW T, NEW io, NEW cur, NEW n \in Names,
         MI(s, T, {}, io, cur), OK(s), Whole(s), \A f \in DOMAIN io : io[f].name # n
  PROVE  LET a == Funlink(s, n)
         IN /\ s.mounted => a.mounted
            /\ \/ MI(a, T, {}, io, cur) /\ (OK(a) => ~a.dirty)
               \/ \E b : MI(b, T, {}, io, cur) /\ a = Fail(b, "NO_FILE")
<1> DEFINE m == Mount(s)
           b == DirFind(m, n)
           c == DirEntry(b).clust
           d == DirRemove(b, b.at)
           e == IF c # 0 THEN RemoveChain(d, c) ELSE d
           a == Funlink(s, n)
<1>1. a = IF OK(m) THEN IF OK(b) THEN IF b.at = None THEN Fail(b, "NO_FILE")
                                      ELSE IF OK(d) THEN IF OK(e) THEN SyncFs(e) ELSE e
                                           ELSE d
                        ELSE b
          ELSE m
  BY DEF Funlink, Then
<1>2. /\ MI(m, T, {}, io, cur) /\ VL(m) = VL(s) /\ VD(m) = VD(s)
      /\ OK(m) => m.mounted
      /\ s.mounted => m.mounted
  BY MountIs, MountedIs
<1> HIDE DEF m
<1>3. CASE ~OK(m)
  BY <1>1, <1>2, <1>3
<1>4. CASE OK(m)
  <2>1. Whole(m)
    BY <1>2 DEF Whole
  <2>2. /\ MI(b, T, {}, io, cur) /\ VL(b) = VL(m) /\ VD(b) = VD(m) /\ b.mounted
        /\ OK(b) => Sought(b, VD(m), n)
    BY <1>2, <1>4, <2>1, DirFindIs
  <2> HIDE DEF b
  <2>3. CASE ~OK(b)
    BY <1>1, <1>4, <2>2, <2>3
  <2>4. CASE OK(b) /\ b.at = None
    <3>1. DOMAIN b = Fields
      BY <2>2 DEF MI, Base
    <3> QED BY <1>1, <1>4, <2>2, <2>4, <3>1, MountedIs
  <2>5. CASE OK(b) /\ b.at # None
    <3> DEFINE D == VD(b)
               L == VL(b)
    <3>1. b.at \in Live(D) /\ At(D, b.at).name = n /\ b.sect = b.at[1]
      BY <2>2, <2>5 DEF Sought
    <3>2. FilesIn(L, D, io, cur) /\ TreeI(L, D, {})
      BY <2>2, Opened1 DEF MI
    <3>3. \A f \in DOMAIN io : io[f].fil.entry # b.at
      BY <3>1, <3>2 DEF FilesIn, FileIn
    <3>4. \A q, r \in Live(D) \ {b.at} : q # r => Differ(At(D, q), At(D, r), {})
      BY <3>2 DEF TreeI, Single
    <3>5. c = At(D, b.at).clust
      BY <2>2, <2>5, <3>1, DirEntryIs DEF Live
    <3> HIDE DEF c
    <3>6. Erases(b, d, b.at, T, {}, {}, io, cur)
      BY <2>2, <2>5, <3>1, <3>3, <3>4, DirRemoveIs
    <3>7. /\ d.mounted /\ VL(d) = L
          /\ ~OK(d) => MI(d, T, {}, io, cur)
          /\ OK(d) => /\ MI(d, T, {}, io, cur) /\ Live(VD(d)) = Live(D) \ {b.at}
                      /\ \A q \in Live(VD(d)) : At(VD(d), q) = At(D, q)
      BY <3>6 DEF Erases
    <3> HIDE DEF d
    <3>8. CASE ~OK(d)
      BY <1>1, <1>4, <2>5, <3>7, <3>8
    <3>9. CASE OK(d)
      <4>1. MI(e, T, {}, io, cur) /\ e.mounted
        <5>1. CASE c = 0
          BY <3>7, <3>9, <5>1
        <5>2. CASE c # 0
          <6>1. /\ Begins(L, c)
                /\ \A q \in Live(D) \ {b.at} : At(D, q).clust # c
                /\ \A f \in DOMAIN io : io[f].fil.sclust # c
            BY <3>1, <3>2, <3>3, <3>5, <5>2, Alone
          <6>2. Loose(d, c, io)
            BY <3>7, <3>9, <6>1 DEF Loose, Begins
          <6>3. MI(RemoveChain(d, c), T, {}, io, cur) /\ RemoveChain(d, c).mounted
            BY <3>7, <3>9, <6>2, RemoveChainIs
          <6> QED BY <5>2, <6>3
        <5> QED BY <5>1, <5>2
      <4>2. a = IF OK(e) THEN SyncFs(e) ELSE e
        BY <1>1, <1>4, <2>5, <3>9
      <4> HIDE DEF e
      <4>3. CASE ~OK(e)
        BY <4>1, <4>2, <4>3
      <4>4. CASE OK(e)
        <5> DEFINE x == SyncFs(e)
        <5>1. MI(x, T, {}, io, cur) /\ (OK(x) => x.dirty = FALSE) /\ x.mounted
          BY <4>1, <4>4, SyncFsIs
        <5>2. a = x
          BY <4>2, <4>4
        <5> HIDE DEF x
        <5> QED BY <5>1, <5>2
      <4> QED BY <4>3, <4>4
    <3> QED BY <3>8, <3>9
  <2> QED BY <2>3, <2>4, <2>5
<1> QED BY <1>3, <1>4

LEMMA ViewWider ==
  ASSUME NEW s, NEW T, NEW V, NEW U, NEW io, NEW cur, MI(s, T, V, io, cur), V \subseteq U,
         U \subseteq T
  PROVE  MI(s, T, U, io, cur)
BY TreeWider DEF MI, DiskI

(* A new entry is there, and the others are as they were.                  *)
Enters(s, a, name, T, V, io, cur) ==
  /\ MI(a, T, V, io, cur) /\ a.mounted
  /\ OK(a) => /\ a.at \in Places /\ a.at[1] \in DOMAIN VD(a) /\ a.sect = a.at[1]
              /\ a.at \notin Live(VD(s)) /\ At(VD(a), a.at) = Born(name)
              /\ Live(VD(a)) = Live(VD(s)) \cup {a.at}
              /\ \A p \in Live(VD(s)) : At(VD(a), p) = At(VD(s), p)
LEMMA DirRegisterDone ==
  ASSUME NEW s, NEW T, NEW V, NEW io, NEW cur, NEW name \in Names,
         MI(s, T, V, io, cur), OK(s), s.mounted, Whole(s),
         \A p \in Live(VD(s)) : At(VD(s), p).name # name
  PROVE  Enters(s, DirRegister(s, name), name, T, V, io, cur)
BY DirRegisterIs DEF Enters

(* The new entry gets the chain of the old one: the two names have it.     *)
Twinned(L, D, E, p, U, io, cur) ==
  /\ TreeI(L, E, U) /\ FilesIn(L, E, io, cur) /\ Live(E) = Live(D) /\ At(E, p) = At(D, p)
  /\ \A r, t \in Live(D) \ {p} : r # t => Differ(At(E, r), At(E, t), {})
LEMMA TwinTree ==
  ASSUME NEW L, NEW D, NEW io, NEW cur, NEW p, NEW q, NEW new \in Names, NEW e,
         TreeI(L, D, {}), FilesIn(L, D, io, cur),
         p \in Live(D), q \in Live(D), p # q, At(D, p).name # new, At(D, q) = Born(new),
         \A f \in DOMAIN io : io[f].name \notin {At(D, p).name, new},
         e = [At(D, p) EXCEPT !.name = new]
  PROVE  Twinned(L, D, Entered(D, q, e), p, {At(D, p).name, new}, io, cur)
<1> DEFINE U == {At(D, p).name, new}
           E == Entered(D, q, e)
<1>1. /\ p \in Places /\ p[1] \in DOMAIN D /\ q \in Places /\ q[1] \in DOMAIN D
      /\ At(D, p) \in Entries /\ DirShape(L, D) /\ Filled(L, D)
  BY DEF Live, TreeI, DirShape, Places, At
<1>2. /\ e \in Entries /\ e.name = new /\ e.clust = At(D, p).clust /\ e.size = At(D, p).size
      /\ e.name # None /\ e.name \in Names
  BY <1>1, NoneAssumption DEF Entries
<1> HIDE DEF E
<1>3. UsedUpTo(L, D, q)
  BY <1>1, <1>2, NoneAssumption, LiveUsed DEF Born, NoEntry
<1>4. Owns(L, e)
  BY <1>2 DEF TreeI, Owns
<1>5. At(D, q).name = new
  BY DEF Born, NoEntry
<1>6. \A r \in Live(D) \ {q} : At(D, r).name # new
  BY <1>5 DEF TreeI, Single, Differ
<1>7. \A r \in Live(D) \ {p, q} : At(D, r).clust = e.clust => e.clust = 0
  BY <1>2 DEF TreeI, Single, Differ
<1>8. \A r \in Live(D) \ {q} : Differ(e, At(D, r), U)
  BY <1>2, <1>6, <1>7 DEF Differ
<1>9. \A r, t \in Live(D) \ {q} : r # t => Differ(At(D, r), At(D, t), {})
  BY DEF TreeI, Single
<1>10. \A r, t \in Live(D) \ {q} : r # t => Differ(At(D, r), At(D, t), U)
  BY <1>9 DEF Differ
<1>11. TreeI(L, E, U)
  BY <1>1, <1>2, <1>3, <1>4, <1>8, <1>10, EntryTree DEF E
<1>12. \A f \in DOMAIN io : /\ io[f].fil.entry # q /\ io[f].fil.entry # p
                            /\ io[f].fil.sclust = e.clust => e.clust = 0
  <2> SUFFICES ASSUME NEW f \in DOMAIN io
               PROVE  /\ io[f].fil.entry # q /\ io[f].fil.entry # p
                      /\ io[f].fil.sclust = e.clust => e.clust = 0
    OBVIOUS
  <2>1. FileIn(L, D, io[f].fil, io[f].name)
    BY DEF FilesIn
  <2>2. io[f].fil.entry # q /\ io[f].fil.entry # p
    BY <1>5, <2>1 DEF FileIn
  <2> QED BY <1>2, <2>1, <2>2 DEF FileIn
<1>13. FilesIn(L, E, io, cur)
  BY <1>1, <1>2, <1>12, EntryFiles DEF E
<1>14. \A r \in Places : r[1] \in DOMAIN D => At(E, r) = IF r = q THEN e ELSE At(D, r)
  BY <1>1, <1>2, EnteredIs DEF E
<1>15. Live(E) = Live(D)
  <2>1. DOMAIN E = DOMAIN D
    BY DEF E, Entered
  <2>2. \A r \in Places : r[1] \in DOMAIN D =>
          (At(E, r).name \in Names <=> At(D, r).name \in Names)
    BY <1>2, <1>5, <1>14
  <2> QED BY <2>1, <2>2 DEF Live
<1>16. \A r \in Live(D) : At(E, r) = IF r = q THEN e ELSE At(D, r)
  BY <1>14 DEF Live
<1>17. \A r \in Live(D) \ {p, q} : Differ(e, At(D, r), {}) /\ Differ(At(D, r), e, {})
  BY <1>2, <1>6, <1>7 DEF Differ
<1>18. \A r, t \in Live(D) \ {p} : r # t => Differ(At(E, r), At(E, t), {})
  BY <1>9, <1>16, <1>17
<1> QED BY <1>11, <1>13, <1>15, <1>16, <1>18 DEF E, Twinned

(* There were two names for the file; if all is well there is one, on the  *)
(* card.                                                                   *)
Renamed(a, T, U, io, cur) ==
  a.mounted /\ MI(a, T, U, io, cur) /\ (OK(a) => MI(a, T, {}, io, cur) /\ ~a.dirty)
LEMMA MovesIs ==
  ASSUME NEW s, NEW T, NEW io, NEW cur, NEW p \in Live(VD(s)), NEW new \in Names,
         MI(s, T, {}, io, cur), OK(s), s.mounted, Whole(s),
         \A q \in Live(VD(s)) : At(VD(s), q).name # new,
         \A f \in DOMAIN io : io[f].name \notin {At(VD(s), p).name, new},
         {At(VD(s), p).name, new} \subseteq T
  PROVE  Renamed(Moves(s, p, At(VD(s), p), new), T, {At(VD(s), p).name, new}, io, cur)
<1> DEFINE old == At(VD(s), p)
           U == {old.name, new}
           e == [old EXCEPT !.name = new]
           a == DirRegister(s, new)
           x == PokeEntry(a, e)
           b == DirRemove(x, p)
           m == Moves(s, p, old, new)
<1>1. m = IF OK(a) THEN IF OK(b) THEN SyncFs(b) ELSE b ELSE a
  BY DEF Moves, Then
<1>2. Enters(s, a, new, T, {}, io, cur)
  BY DirRegisterDone
<1> HIDE DEF a
<1>3. MI(a, T, U, io, cur) /\ a.mounted
  BY <1>2, ViewWider DEF Enters
<1>4. CASE ~OK(a)
  BY <1>1, <1>3, <1>4 DEF Renamed
<1>5. CASE OK(a)
  <2> DEFINE L == VL(a)
             D == VD(a)
             E == Entered(D, a.at, e)
  <2>1. /\ MI(a, T, {}, io, cur) /\ a.mounted /\ TreeI(L, D, {}) /\ FilesIn(L, D, io, cur)
        /\ a.at \in Live(D) /\ p \in Live(D) /\ p # a.at /\ At(D, p) = old
        /\ At(D, a.at) = Born(new) /\ old.name # new /\ a.sect = a.at[1]
        /\ a.at \in Places /\ a.at[1] \in DOMAIN D
    <3>1. /\ MI(a, T, {}, io, cur) /\ a.mounted /\ TreeI(L, D, {}) /\ FilesIn(L, D, io, cur)
      BY <1>2, Opened1 DEF Enters, MI
    <3>2. /\ a.at \in Places /\ a.at[1] \in DOMAIN D /\ a.sect = a.at[1]
          /\ a.at \in Live(D) /\ p # a.at /\ p \in Live(D)
          /\ At(D, a.at) = Born(new) /\ At(D, p) = old
      BY <1>2, <1>5 DEF Enters
    <3> QED BY <3>1, <3>2
  <2>2. /\ TreeI(L, E, U)
        /\ FilesIn(L, E, io, cur)
        /\ Live(E) = Live(D)
        /\ \A r, t \in Live(D) \ {p} : r # t => Differ(At(E, r), At(E, t), {})
        /\ At(E, p) = old
    <3>1. Twinned(L, D, E, p, {At(D, p).name, new}, io, cur)
      <4>1. At(D, p).name # new
        BY <2>1
      <4>2. e = [At(D, p) EXCEPT !.name = new]
        BY <2>1
      <4>3. \A f \in DOMAIN io : io[f].name \notin {At(D, p).name, new}
        BY <2>1
      <4> HIDE DEF D, e, old
      <4> QED BY <2>1, <4>1, <4>2, <4>3, TwinTree
    <3>2. U = {At(D, p).name, new}
      BY <2>1
    <3> QED BY <2>1, <3>1, <3>2 DEF Twinned
  <2>3. /\ MI(x, T, U, io, cur) /\ VL(x) = L /\ VD(x) = E
        /\ Others(a, x, {"val", "dirty"}) /\ OK(x)
    <3>1. T \subseteq T
      OBVIOUS
    <3> QED BY <1>5, <2>1, <2>2, <3>1, PokeEntryIs
  <2> HIDE DEF x, E
  <2>4. x.mounted
    BY <2>1, <2>3, DirFieldsIs
  <2>5. \A f \in DOMAIN io : io[f].fil.entry # p
    BY <2>2, <2>3 DEF MI, FilesIn, FileIn
  <2>6. /\ p \in Live(VD(x))
        /\ \A r, t \in Live(VD(x)) \ {p} : r # t => Differ(At(VD(x), r), At(VD(x), t), {})
        /\ {} \subseteq T
    BY <2>1, <2>2, <2>3
  <2>7. Erases(x, b, p, T, U, {}, io, cur)
    BY <2>3, <2>4, <2>5, <2>6, DirRemoveIs
  <2> HIDE DEF b
  <2>8. CASE ~OK(b)
    BY <1>1, <1>5, <2>7, <2>8 DEF Erases, Renamed
  <2>9. CASE OK(b)
    <3> DEFINE y == SyncFs(b)
    <3>1. MI(b, T, {}, io, cur) /\ b.mounted
      BY <2>7, <2>9 DEF Erases
    <3>2. MI(y, T, {}, io, cur) /\ (OK(y) => y.dirty = FALSE) /\ y.mounted
      BY <2>9, <3>1, SyncFsIs
    <3> HIDE DEF y
    <3>3. MI(y, T, U, io, cur)
      BY <3>2, ViewWider
    <3>4. m = y
      BY <1>1, <1>5, <2>9 DEF y
    <3> QED BY <3>2, <3>3, <3>4 DEF Renamed
  <2> QED BY <2>8, <2>9
<1> QED BY <1>4, <1>5

LEMMA CardWider ==
  ASSUME NEW s, NEW T, NEW V, NEW U, NEW io, NEW cur, MI(s, T, V, io, cur), T \subseteq U
  PROVE  MI(s, U, V, io, cur)
BY TreeWider DEF MI, DiskI

(* The file has its new name, on the card; or one was missing, or there    *)
(* already, and nothing has changed; or the call failed, perhaps with both *)
(* names there.                                                            *)
LEMMA FrenameIs ==
  ASSUME NEW s, NEW T, NEW U, NEW io, NEW cur, NEW old \in Names, NEW new \in Names,
         MI(s, T, {}, io, cur), OK(s), Whole(s), old # new, U = T \cup {old, new},
         \A f \in DOMAIN io : io[f].name \notin {old, new}
  PROVE  LET a == Frename(s, old, new)
         IN /\ s.mounted => a.mounted
            /\ \/ MI(a, T, {}, io, cur) /\ ~OK(a)
               \/ Renamed(a, U, {old, new}, io, cur)
               \/ \E b : MI(b, T, {}, io, cur) /\ a \in {Fail(b, "NO_FILE"), Fail(b, "EXIST")}
<1> DEFINE m == Mount(s)
           b == DirFind(m, old)
           d == DirFind(b, new)
           e == Moves(d, b.at, DirEntry(b), new)
           a == Frename(s, old, new)
<1>1. a = IF OK(m)
          THEN IF OK(b)
               THEN IF b.at = None THEN Fail(b, "NO_FILE")
                    ELSE IF OK(d) THEN IF d.at \notin {None, b.at} THEN Fail(d, "EXIST") ELSE e
                    ELSE d
               ELSE b
          ELSE m
  BY DEF Frename, Then
<1>2. /\ MI(m, T, {}, io, cur) /\ VL(m) = VL(s) /\ VD(m) = VD(s)
      /\ OK(m) => m.mounted
      /\ s.mounted => m.mounted
  BY MountIs, MountedIs
<1> HIDE DEF m
<1>3. CASE ~OK(m)
  BY <1>1, <1>2, <1>3
<1>4. CASE OK(m)
  <2>1. Whole(m)
    BY <1>2 DEF Whole
  <2>2. /\ MI(b, T, {}, io, cur) /\ VL(b) = VL(m) /\ VD(b) = VD(m) /\ b.mounted
        /\ OK(b) => Sought(b, VD(m), old)
    BY <1>2, <1>4, <2>1, DirFindIs
  <2> HIDE DEF b
  <2>3. CASE ~OK(b)
    BY <1>1, <1>4, <2>2, <2>3
  <2>4. CASE OK(b) /\ b.at = None
    <3>1. DOMAIN b = Fields
      BY <2>2 DEF MI, Base
    <3> QED BY <1>1, <1>4, <2>2, <2>4, <3>1, MountedIs
  <2>5. CASE OK(b) /\ b.at # None
    <3> DEFINE D == VD(b)
    <3>1. b.at \in Live(D) /\ At(D, b.at).name = old /\ b.sect = b.at[1]
      BY <2>2, <2>5 DEF Sought
    <3>2. DirEntry(b) = At(D, b.at)
      BY <2>2, <2>5, <3>1, DirEntryIs DEF Live
    <3>3. Whole(b)
      BY <2>1, <2>2 DEF Whole
    <3>4. /\ MI(d, T, {}, io, cur) /\ VL(d) = VL(b) /\ VD(d) = VD(b) /\ d.mounted
          /\ OK(d) => Sought(d, VD(b), new)
      BY <2>2, <2>5, <3>3, DirFindIs
    <3>5. Whole(d)
      BY <3>3, <3>4 DEF Whole
    <3> HIDE DEF d
    <3>6. CASE ~OK(d)
      BY <1>1, <1>4, <2>5, <3>4, <3>6
    <3>7. CASE OK(d) /\ d.at \notin {None, b.at}
      <4>1. DOMAIN d = Fields
        BY <3>4 DEF MI, Base
      <4> QED BY <1>1, <1>4, <2>5, <3>4, <3>7, <4>1, MountedIs
    <3>8. CASE OK(d) /\ d.at \in {None, b.at}
      <4>1. \A q \in Live(VD(d)) : At(VD(d), q).name # new
        <5>1. None \notin Live(D)
          BY NoneAssumption DEF Live, Places
        <5> QED BY <3>1, <3>4, <3>8, <5>1 DEF Sought
      <4>2. /\ b.at \in Live(VD(d)) /\ At(VD(d), b.at).name = old
            /\ DirEntry(b) = At(VD(d), b.at)
        BY <3>1, <3>2, <3>4
      <4>3. MI(d, U, {}, io, cur)
        BY <3>4, CardWider
      <4>4. Renamed(e, U, {old, new}, io, cur)
        <5>1. Renamed(Moves(d, b.at, At(VD(d), b.at), new), U, {At(VD(d), b.at).name, new}, io, cur)
          <6>1. /\ \A f \in DOMAIN io : io[f].name \notin {At(VD(d), b.at).name, new}
                /\ {At(VD(d), b.at).name, new} \subseteq U
            BY <4>2
          <6> QED BY <3>4, <3>5, <3>8, <4>1, <4>2, <4>3, <6>1, MovesIs
        <5> QED BY <4>2, <5>1
      <4>5. a = e
        BY <1>1, <1>4, <2>5, <3>8
      <4> HIDE DEF e
      <4> QED BY <4>4, <4>5 DEF Renamed
    <3> QED BY <3>6, <3>7, <3>8
  <2> QED BY <2>3, <2>4, <2>5
<1> QED BY <1>3, <1>4

(***************************************************************************)
(* The calls on characters and lines.                                      *)
(***************************************************************************)
Goes(s, a, T, io, fd, n) == FI(a, T, io, fd, n) /\ Sits(a) /\ Keeps(s.fp, a.fp)
StreamFields == {"out", "unget", "eof", "c", "chars", "line"}

LEMMA StreamIs ==
  ASSUME NEW s, NEW T, NEW io, NEW fd, NEW n, NEW a, NEW b, fd \notin DOMAIN io,
         Goes(s, a, T, io, fd, n), DOMAIN b = Fields, Others(a, b, StreamFields)
  PROVE  Goes(s, b, T, io, fd, n) /\ (OK(b) <=> OK(a)) /\ b.fp = a.fp
<1>1. b.fp = a.fp /\ Others(a, b, OwnFields)
  BY DEF Others, StreamFields, OwnFields, Fields
<1>2. FilOK(b.fp) /\ FileIn(VL(a), VD(a), b.fp, n) /\ FI(a, T, io, fd, n)
  BY <1>1, FileOf DEF Goes
<1>3. FI(b, T, io, fd, n) /\ VL(b) = VL(a) /\ (OK(b) <=> OK(a))
  BY <1>1, <1>2, FileStep
<1> QED BY <1>1, <1>3 DEF Goes, Sits

LEMMA GoesOn ==
  ASSUME NEW s, NEW T, NEW io, NEW fd, NEW n, NEW a, NEW b,
         Goes(s, a, T, io, fd, n), Goes(a, b, T, io, fd, n)
  PROVE  Goes(s, b, T, io, fd, n)
BY DEF Goes, Keeps

LEMMA GoesFields ==
  ASSUME NEW s, NEW T, NEW io, NEW fd, NEW n, NEW a, fd \notin DOMAIN io, Goes(s, a, T, io, fd, n)
  PROVE  DOMAIN a = Fields /\ a.fp.fptr \in Nat
BY FileOf DEF Goes, FilOK

LEMMA ByteIs ==
  ASSUME NEW s, NEW T, NEW io, NEW fd, NEW n, fd \notin DOMAIN io, Goes(s, s, T, io, fd, n), OK(s)
  PROVE  Goes(s, Byte(s), T, io, fd, n)
<1> DEFINE z == [s EXCEPT !.out = <<>>]
           a == Fread(z, 1)
<1>1. DOMAIN z = Fields /\ Others(s, z, StreamFields)
  BY GoesFields DEF Others, StreamFields, Fields
<1>2. Byte(s) = a
  BY DEF Byte
<1> HIDE DEF z
<1>3. Goes(s, z, T, io, fd, n) /\ OK(z)
  BY <1>1, StreamIs
<1>4. 1 \in Nat
  OBVIOUS
<1>5. FI(a, T, io, fd, n) /\ Sits(a) /\ Keeps(z.fp, a.fp)
  BY <1>3, <1>4, FreadIs DEF Goes
<1>6. Goes(z, a, T, io, fd, n)
  BY <1>5 DEF Goes
<1> QED BY <1>2, <1>3, <1>6, GoesOn

LEMMA AheadIs ==
  ASSUME NEW s, NEW T, NEW io, NEW fd, NEW n, fd \notin DOMAIN io, Goes(s, s, T, io, fd, n), OK(s)
  PROVE  Goes(s, Ahead(s), T, io, fd, n)
<1> DEFINE a == Byte(s)
           b == Flseek(a, s.fp.fptr)
<1>1. Ahead(s) = IF GotByte(a) /\ a.out # <<LF>> THEN b ELSE a
  BY DEF Ahead
<1>2. Goes(s, a, T, io, fd, n) /\ s.fp.fptr \in Nat
  BY ByteIs, GoesFields
<1> HIDE DEF a
<1>3. ASSUME OK(a) PROVE Goes(s, b, T, io, fd, n)
  <2>1. FI(b, T, io, fd, n) /\ Sits(b) /\ Keeps(a.fp, b.fp)
    BY <1>2, <1>3, FlseekIs DEF Goes
  <2>2. Goes(a, b, T, io, fd, n)
    BY <2>1 DEF Goes
  <2> QED BY <1>2, <2>2, GoesOn
<1> QED BY <1>1, <1>2, <1>3 DEF GotByte

(* A character, or EOF; what fails returns EOF, or the LF it looked behind. *)
LEMMA GetcIs ==
  ASSUME NEW s, NEW T, NEW io, NEW fd, NEW n, fd \notin DOMAIN io, Goes(s, s, T, io, fd, n), OK(s)
  PROVE  Goes(s, fatfs_getc(s), T, io, fd, n) /\ (OK(fatfs_getc(s)) \/ Ended(fatfs_getc(s)))
<1> DEFINE a == Byte(s)
           h == Ahead(a)
           x == [a EXCEPT !.c = EOF, !.eof = TRUE]
           y == [h EXCEPT !.c = LF]
           z == [a EXCEPT !.c = a.out[1]]
<1>1. fatfs_getc(s) = IF ~GotByte(a) THEN x ELSE IF a.out = <<CR>> THEN y ELSE z
  BY DEF fatfs_getc
<1>2. Goes(s, a, T, io, fd, n)
  BY ByteIs
<1> HIDE DEF a
<1>3. DOMAIN a = Fields
  BY <1>2, GoesFields
<1>4. /\ DOMAIN x = Fields /\ Others(a, x, StreamFields) /\ x.c = EOF
      /\ DOMAIN z = Fields /\ Others(a, z, StreamFields)
  BY <1>3 DEF Others, StreamFields, Fields
<1> HIDE DEF x, z
<1>5. /\ Goes(s, x, T, io, fd, n) /\ Goes(s, z, T, io, fd, n) /\ (OK(z) <=> OK(a))
  BY <1>2, <1>4, StreamIs
<1>6. ASSUME OK(a) PROVE Goes(s, y, T, io, fd, n) /\ y.c = LF
  <2>1. Goes(a, a, T, io, fd, n)
    BY <1>2 DEF Goes, Keeps
  <2>2. Goes(a, h, T, io, fd, n)
    BY <1>6, <2>1, AheadIs
  <2>3. Goes(s, h, T, io, fd, n)
    BY <1>2, <2>2, GoesOn
  <2> HIDE DEF h
  <2>4. DOMAIN h = Fields
    BY <2>3, GoesFields
  <2>5. DOMAIN y = Fields /\ Others(h, y, StreamFields) /\ y.c = LF
    BY <2>4 DEF Others, StreamFields, Fields
  <2> HIDE DEF y
  <2> QED BY <2>3, <2>5, StreamIs
<1> HIDE DEF y
<1> QED BY <1>1, <1>4, <1>5, <1>6 DEF GotByte, Ended

LEMMA FgetcIs ==
  ASSUME NEW s, NEW T, NEW io, NEW fd, NEW n, fd \notin DOMAIN io, Goes(s, s, T, io, fd, n), OK(s)
  PROVE  Goes(s, fgetc(s), T, io, fd, n) /\ (OK(fgetc(s)) \/ Ended(fgetc(s)))
<1> DEFINE counted(a) == IF a.c = EOF THEN a ELSE [a EXCEPT !.chars = Append(@, a.c)]
           x == [s EXCEPT !.c = EOF]
           y == [s EXCEPT !.c = NothingPutBack, !.unget = FALSE]
           z == fatfs_getc(s)
<1>1. fgetc(s) = IF ~Flag(s, "READ") THEN x ELSE IF s.unget THEN counted(y) ELSE counted(z)
  BY DEF fgetc
<1>2. DOMAIN s = Fields
  BY GoesFields
<1>3. /\ DOMAIN x = Fields /\ Others(s, x, StreamFields) /\ x.c = EOF
      /\ DOMAIN y = Fields /\ Others(s, y, StreamFields)
  BY <1>2 DEF Others, StreamFields, Fields
<1> HIDE DEF x, y
<1>4. /\ Goes(s, x, T, io, fd, n) /\ Ended(x)
      /\ Goes(s, y, T, io, fd, n) /\ OK(y)
  BY <1>3, StreamIs DEF Ended
<1>5. Goes(s, z, T, io, fd, n) /\ (OK(z) \/ Ended(z))
  BY GetcIs
<1> HIDE DEF z
<1>6. ASSUME NEW a, Goes(s, a, T, io, fd, n), OK(a) \/ Ended(a)
      PROVE  Goes(s, counted(a), T, io, fd, n) /\ (OK(counted(a)) \/ Ended(counted(a)))
  <2> DEFINE b == [a EXCEPT !.chars = Append(@, a.c)]
  <2>1. DOMAIN a = Fields
    BY <1>6, GoesFields
  <2>2. DOMAIN b = Fields /\ Others(a, b, StreamFields) /\ b.c = a.c
    BY <2>1 DEF Others, StreamFields, Fields
  <2>3. counted(a) = IF a.c = EOF THEN a ELSE b
    OBVIOUS
  <2> HIDE DEF b
  <2>4. Goes(s, b, T, io, fd, n) /\ (OK(b) <=> OK(a))
    BY <1>6, <2>2, StreamIs
  <2> QED BY <1>6, <2>2, <2>3, <2>4 DEF Ended
<1> HIDE DEF counted
<1> QED BY <1>1, <1>4, <1>5, <1>6

LEMMA LineTurnIs ==
  ASSUME NEW s, NEW T, NEW io, NEW fd, NEW n, fd \notin DOMAIN io, Goes(s, s, T, io, fd, n),
         OK(s) \/ Ended(s)
  PROVE  Goes(s, LineTurn(s), T, io, fd, n) /\ (OK(LineTurn(s)) \/ Ended(LineTurn(s)))
<1> DEFINE a == fgetc(s)
           b == [a EXCEPT !.line = IF a.c = BS THEN SubSeq(a.line, 1, Len(a.line) - 1)
                                   ELSE Append(a.line, a.c)]
<1>1. LineTurn(s) = IF Ended(s) THEN s ELSE IF Ended(a) THEN a ELSE b
  BY DEF LineTurn
<1>2. CASE Ended(s)
  BY <1>1, <1>2
<1>3. CASE ~Ended(s)
  <2>1. Goes(s, a, T, io, fd, n) /\ (OK(a) \/ Ended(a))
    BY <1>3, FgetcIs
  <2> HIDE DEF a
  <2>2. DOMAIN a = Fields
    BY <2>1, GoesFields
  <2>3. DOMAIN b = Fields /\ Others(a, b, StreamFields)
    BY <2>2 DEF Others, StreamFields, Fields
  <2> HIDE DEF b
  <2>4. Goes(s, b, T, io, fd, n) /\ (OK(b) <=> OK(a))
    BY <2>1, <2>3, StreamIs
  <2> QED BY <1>1, <1>3, <2>1, <2>4
<1> QED BY <1>2, <1>3

(* The turns of fgets.                                                     *)
LEMMA LineRun ==
  ASSUME NEW s, NEW n \in Nat
  PROVE  \E f : /\ f[0] = s /\ \A k \in 0 .. n - 1 : f[k + 1] = LineTurn(f[k])
                /\ Repeat(s, LineTurn, n) = f[n]
<1> DEFINE Run(f, m) == f = [k \in 0 .. m |-> IF k = 0 THEN s ELSE LineTurn(f[k - 1])]
           S == {m \in Nat : \E f : Run(f, m)}
<1> HIDE DEF LineTurn
<1>1. 0 \in S
  <2>1. Run([k \in 0 .. 0 |-> s], 0)
    OBVIOUS
  <2> QED BY <2>1
<1>2. ASSUME NEW m \in Nat, m \in S PROVE m + 1 \in S
  <2>1. PICK f : Run(f, m)
    BY <1>2
  <2> DEFINE g == [k \in 0 .. m + 1 |-> IF k <= m THEN f[k] ELSE LineTurn(f[m])]
  <2>2. Run(g, m + 1)
    <3>1. ASSUME NEW k \in 0 .. m + 1 PROVE g[k] = IF k = 0 THEN s ELSE LineTurn(g[k - 1])
      <4>1. CASE k = m + 1
        BY <4>1
      <4>2. CASE k <= m
        BY <4>2, <2>1
      <4> QED BY <4>1, <4>2
    <3> QED BY <3>1
  <2> HIDE DEF g, Run
  <2> QED BY <2>2
<1>3. n \in S
  <2> HIDE DEF S
  <2> QED BY <1>1, <1>2, UpTo
<1>4. PICK g : Run(g, n)
  BY <1>3
<1> DEFINE after == CHOOSE f : Run(f, n)
<1>5. Run(after, n)
  BY <1>4
<1>6. Repeat(s, LineTurn, n) = after[n]
  BY DEF Repeat
<1>7. after[0] = s /\ \A k \in 0 .. n - 1 : after[k + 1] = LineTurn(after[k])
  <2> HIDE DEF after
  <2> QED BY <1>5
<1> QED BY <1>6, <1>7

LEMMA FgetsIs ==
  ASSUME NEW s, NEW T, NEW io, NEW fd, NEW n, NEW cnt \in Nat, fd \notin DOMAIN io,
         Goes(s, s, T, io, fd, n), OK(s)
  PROVE  Goes(s, fgets(s, cnt), T, io, fd, n)
<1> DEFINE I(a) == Goes(s, a, T, io, fd, n) /\ (OK(a) \/ Ended(a))
<1>1. PICK f : /\ f[0] = s /\ \A k \in 0 .. cnt - 1 : f[k + 1] = LineTurn(f[k])
               /\ Repeat(s, LineTurn, cnt) = f[cnt]
  BY LineRun
<1>2. ASSUME NEW a, I(a) PROVE I(LineTurn(a))
  <2>1. Goes(a, a, T, io, fd, n)
    BY <1>2 DEF Goes, Keeps
  <2>2. Goes(a, LineTurn(a), T, io, fd, n) /\ (OK(LineTurn(a)) \/ Ended(LineTurn(a)))
    BY <1>2, <2>1, LineTurnIs
  <2> QED BY <1>2, <2>2, GoesOn
<1> DEFINE S == {k \in 0 .. cnt : I(f[k])}
<1>3. I(s)
  OBVIOUS
<1> HIDE DEF I
<1>4. 0 \in S
  BY <1>1, <1>3
<1>5. \A k \in 0 .. cnt - 1 : k \in S => k + 1 \in S
  BY <1>1, <1>2
<1>6. cnt \in S
  <2> HIDE DEF S
  <2> QED BY <1>4, <1>5, UpTo
<1>7. I(f[cnt])
  BY <1>6
<1> QED BY <1>1, <1>7 DEF fgets, I

LEMMA PutcIs ==
  ASSUME NEW s, NEW T, NEW io, NEW fd, NEW n, NEW c, fd \notin DOMAIN io, Goes(s, s, T, io, fd, n), OK(s)
  PROVE  Goes(s, fatfs_putc(s, c), T, io, fd, n) /\ (OK(fatfs_putc(s, c)) \/ fatfs_putc(s, c).c = EOF)
<1> DEFINE z == [s EXCEPT !.out = <<>>]
           a == Fwrite(z, <<c>>)
           x == [a EXCEPT !.c = c, !.chars = Append(@, c)]
           y == [a EXCEPT !.c = EOF, !.eof = TRUE]
<1>1. fatfs_putc(s, c) = IF GotByte(a) THEN x ELSE y
  BY DEF fatfs_putc
<1>2. DOMAIN z = Fields /\ Others(s, z, StreamFields)
  BY GoesFields DEF Others, StreamFields, Fields
<1> HIDE DEF z
<1>3. Goes(s, z, T, io, fd, n) /\ OK(z)
  BY <1>2, StreamIs
<1>4. <<c>> \in Seq({c})
  OBVIOUS
<1>5. FI(a, T, io, fd, n) /\ Sits(a) /\ Keeps(z.fp, a.fp)
  BY <1>3, <1>4, FwriteIs DEF Goes
<1>6. Goes(s, a, T, io, fd, n)
  <2>1. Goes(z, a, T, io, fd, n)
    BY <1>5 DEF Goes
  <2> QED BY <1>3, <2>1, GoesOn
<1> HIDE DEF a
<1>7. DOMAIN a = Fields
  BY <1>6, GoesFields
<1>8. /\ DOMAIN x = Fields /\ Others(a, x, StreamFields)
      /\ DOMAIN y = Fields /\ Others(a, y, StreamFields) /\ y.c = EOF
  BY <1>7 DEF Others, StreamFields, Fields
<1> HIDE DEF x, y
<1>9. Goes(s, x, T, io, fd, n) /\ (OK(x) <=> OK(a)) /\ Goes(s, y, T, io, fd, n)
  BY <1>6, <1>8, StreamIs
<1> QED BY <1>1, <1>8, <1>9 DEF GotByte

(* The turns of fputs.                                                     *)
PutStep(a, str) == PutTurn(a, str)
PutRuns(s, str, n) == Repeat(s, LAMBDA a : PutStep(a, str), n)
LEMMA PutRun ==
  ASSUME NEW s, NEW n \in Nat, NEW str
  PROVE  \E f : /\ f[0] = s /\ \A k \in 0 .. n - 1 : f[k + 1] = PutStep(f[k], str)
                /\ PutRuns(s, str, n) = f[n]
<1> DEFINE Run(f, m) == f = [k \in 0 .. m |-> IF k = 0 THEN s ELSE PutStep(f[k - 1], str)]
           S == {m \in Nat : \E f : Run(f, m)}
<1> HIDE DEF PutStep
<1>1. 0 \in S
  <2>1. Run([k \in 0 .. 0 |-> s], 0)
    OBVIOUS
  <2> QED BY <2>1
<1>2. ASSUME NEW m \in Nat, m \in S PROVE m + 1 \in S
  <2>1. PICK f : Run(f, m)
    BY <1>2
  <2> DEFINE g == [k \in 0 .. m + 1 |-> IF k <= m THEN f[k] ELSE PutStep(f[m], str)]
  <2>2. Run(g, m + 1)
    <3>1. ASSUME NEW k \in 0 .. m + 1 PROVE g[k] = IF k = 0 THEN s ELSE PutStep(g[k - 1], str)
      <4>1. CASE k = m + 1
        BY <4>1
      <4>2. CASE k <= m
        BY <4>2, <2>1
      <4> QED BY <4>1, <4>2
    <3> QED BY <3>1
  <2> HIDE DEF g, Run
  <2> QED BY <2>2
<1>3. n \in S
  <2> HIDE DEF S
  <2> QED BY <1>1, <1>2, UpTo
<1>4. PICK g : Run(g, n)
  BY <1>3
<1> DEFINE after == CHOOSE f : Run(f, n)
<1>5. Run(after, n)
  BY <1>4
<1>6. PutRuns(s, str, n) = after[n]
  BY DEF Repeat, PutRuns
<1>7. after[0] = s /\ \A k \in 0 .. n - 1 : after[k + 1] = PutStep(after[k], str)
  <2> HIDE DEF after
  <2> QED BY <1>5
<1> QED BY <1>6, <1>7

LEMMA FputsIs ==
  ASSUME NEW s, NEW T, NEW io, NEW fd, NEW n, NEW B, NEW str \in Seq(B), fd \notin DOMAIN io,
         Goes(s, s, T, io, fd, n), OK(s)
  PROVE  Goes(s, fputs(s, str), T, io, fd, n)
<1> DEFINE I(a) == Goes(s, a, T, io, fd, n) /\ (OK(a) \/ a.c = EOF)
           cnt == Len(str)
<1>0. cnt \in Nat
  OBVIOUS
<1>1. PICK f : /\ f[0] = s /\ \A k \in 0 .. cnt - 1 : f[k + 1] = PutStep(f[k], str)
               /\ PutRuns(s, str, cnt) = f[cnt]
  BY <1>0, PutRun
<1>2. ASSUME NEW a, I(a) PROVE I(PutStep(a, str))
  <2> DEFINE c == str[Len(a.chars) + 1]
             b == fatfs_putc(a, c)
  <2>1. PutStep(a, str) = IF a.c = EOF THEN a ELSE b
    BY DEF PutStep, PutTurn
  <2>2. Goes(a, a, T, io, fd, n)
    BY <1>2 DEF Goes, Keeps
  <2>3. CASE a.c = EOF
    BY <1>2, <2>1, <2>3
  <2>4. CASE a.c # EOF
    <3> HIDE DEF c
    <3>1. Goes(a, b, T, io, fd, n) /\ (OK(b) \/ b.c = EOF)
      BY <1>2, <2>2, <2>4, PutcIs
    <3> HIDE DEF b
    <3>2. Goes(s, b, T, io, fd, n)
      BY <1>2, <3>1, GoesOn
    <3> QED BY <2>1, <2>4, <3>1, <3>2
  <2> QED BY <2>3, <2>4
<1> DEFINE S == {k \in 0 .. cnt : I(f[k])}
<1>3. I(s)
  OBVIOUS
<1> HIDE DEF I
<1>4. 0 \in S
  BY <1>0, <1>1, <1>3
<1>5. \A k \in 0 .. cnt - 1 : k \in S => k + 1 \in S
  BY <1>0, <1>1, <1>2
<1>6. cnt \in S
  <2> HIDE DEF S
  <2> QED BY <1>0, <1>4, <1>5, UpTo
<1>7. I(f[cnt])
  BY <1>6
<1>8. fputs(s, str) = PutRuns(s, str, cnt)
  BY DEF fputs, PutRuns, PutStep
<1> QED BY <1>1, <1>7, <1>8 DEF I

(***************************************************************************)
(* What the properties say of a card, of its links and its directory.      *)
(***************************************************************************)
LEMMA ChainsAre ==
  ASSUME NEW d
  PROVE  /\ \A c \in Clusters : Chains(d)[c] = Chain(Links(d), c)
         /\ \A c : ChainOf(d, c) = Chain(Links(d), c)
<1> DEFINE L == Links(d)
           closed == {S \in SUBSET Clusters : \A c \in S : L[c] \in Clusters => L[c] \in S}
<1>1. Chains(d) = [c \in Clusters |-> {x \in Clusters : \A S \in closed : c \in S => x \in S}]
  BY DEF Chains
<1>2. ASSUME NEW c \in Clusters PROVE Chains(d)[c] = Chain(L, c)
  <2>1. Chains(d)[c] = {x \in Clusters : \A S \in closed : c \in S => x \in S}
    BY <1>1
  <2>2. Chain(L, c) = {x \in Clusters : \A S \in SUBSET Clusters : Follows(L, S) /\ c \in S => x \in S}
    BY DEF Chain
  <2> HIDE DEF L
  <2>3. \A S \in SUBSET Clusters : S \in closed <=> Follows(L, S)
    BY DEF Follows
  <2>4. closed \subseteq SUBSET Clusters
    OBVIOUS
  <2> HIDE DEF closed
  <2>5. \A x : (\A S \in closed : c \in S => x \in S)
               <=> (\A S \in SUBSET Clusters : Follows(L, S) /\ c \in S => x \in S)
    BY <2>3, <2>4
  <2> QED BY <2>1, <2>2, <2>5
<1>3. \A c \in Clusters : Chains(d)[c] = Chain(L, c)
  BY <1>2
<1> HIDE DEF closed, L
<1> QED BY <1>3 DEF ChainOf, Chain, L

LEMMA FilesAre ==
  ASSUME NEW d, NEW T, DiskI(d, T)
  PROVE  /\ Cleared(d) = Slots(d)
         /\ \A e : e \in FilesOf(d) <=> \E p \in Live(Dir(d)) : e = At(Dir(d), p)
<1> DEFINE D == Dir(d)
<1>1. Slots(d) \subseteq Chain(Links(d), Root) /\ DOMAIN D = Slots(d)
  BY DEF DiskI, TreeI, DirShape, Dir
<1>2. Chain(Links(d), Root) \subseteq Clusters
  BY ChainClusters
<1>3. Cleared(d) = {c \in Chain(Links(d), Root) : DOMAIN d[c] = 1 .. DirPerSector}
  BY ChainsAre DEF Cleared
<1>4. Cleared(d) = Slots(d)
  BY <1>1, <1>2, <1>3 DEF Slots
<1>5. ASSUME NEW e \in FilesOf(d) PROVE \E p \in Live(D) : e = At(D, p)
  <2>1. PICK c \in Slots(d), i \in 1 .. DirPerSector : e = d[c][i] /\ e.name \in Names
    BY <1>4 DEF FilesOf, EntriesOf
  <2>2. <<c, i>> \in Places /\ At(D, <<c, i>>) = e
    BY <2>1 DEF Places, At, Dir, Slots
  <2>3. <<c, i>> \in Live(D)
    BY <1>1, <2>1, <2>2 DEF Live
  <2> QED BY <2>2, <2>3
<1>6. ASSUME NEW p \in Live(D) PROVE At(D, p) \in FilesOf(d)
  <2>1. p[1] \in Slots(d) /\ p[2] \in 1 .. DirPerSector /\ At(D, p).name \in Names
    BY <1>1 DEF Live, Places
  <2>2. At(D, p) = d[p[1]][p[2]]
    BY <2>1 DEF At, Dir
  <2> QED BY <1>4, <2>1, <2>2 DEF FilesOf, EntriesOf
<1> QED BY <1>4, <1>5, <1>6

LEMMA SoundIs ==
  ASSUME NEW d, NEW T, DiskI(d, T)
  PROVE  SoundDisk(d, T)
<1> DEFINE L == Links(d)
           D == Dir(d)
           chains == Chains(d)
           chain(c) == IF c \in Clusters THEN chains[c] ELSE {}
           files == FilesOf(d)
           Alright(e) == /\ e.size <= SS * Cardinality(chain(e.clust))
                         /\ \A c \in chain(e.clust) : d[FatSec(c)][c] # 0
                         /\ chain(e.clust) \cap chain(Root) = {}
           Apart2(e, f) == e # f =>
             /\ e.name # f.name
             /\ chain(e.clust) \cap chain(f.clust) # {} =>
                  e.clust = f.clust /\ {e.name, f.name} \subseteq T
<1>1. TreeI(L, D, T) /\ Wired(L) /\ Apart(L)
  BY DEF DiskI, TreeI, Wired
<1>2. \A c : chain(c) = Chain(L, c)
  <2>1. \A c : c \notin Clusters => Chain(L, c) = {}
    BY NoChain
  <2> QED BY <2>1, ChainsAre
<1>3. \A c \in Clusters : d[FatSec(c)][c] = L[c]
  BY DEF Links
<1>4. \A e : e \in files => \E p \in Live(D) : e = At(D, p)
  BY FilesAre
<1> HIDE DEF L, D, chain, files
<1>5. ASSUME NEW c, c # 0 => Begins(L, c)
      PROVE  /\ \A x \in Chain(L, c) : L[x] # 0 /\ x \in Clusters
             /\ Chain(L, c) \cap Chain(L, Root) = {}
  <2>1. CASE c = 0
    BY <2>1, NoChain, Numbers
  <2>2. CASE c # 0
    <3>1. First(L, c) /\ L[c] # 0 /\ c # Root /\ First(L, Root)
      BY <1>1, <1>5, <2>2 DEF Begins, Wired
    <3>2. Chain(L, c) \cap Chain(L, Root) = {}
      BY <1>1, <3>1, ChainsApart
    <3>3. \A x \in Chain(L, c) : L[x] # 0
      BY <1>1, <3>1, Used
    <3> QED BY <3>2, <3>3, ChainClusters
  <2> QED BY <2>1, <2>2
<1>6. ASSUME NEW e \in files PROVE Alright(e)
  <2>1. PICK p \in Live(D) : e = At(D, p)
    BY <1>4
  <2>2. Owns(L, e)
    BY <1>1, <2>1 DEF TreeI
  <2>3. /\ \A x \in Chain(L, e.clust) : L[x] # 0 /\ x \in Clusters
        /\ Chain(L, e.clust) \cap Chain(L, Root) = {}
    BY <1>5, <2>2 DEF Owns
  <2>4. e.size <= SS * Cardinality(chain(e.clust))
    BY <1>2, <2>2 DEF Owns
  <2>5. \A c \in chain(e.clust) : d[FatSec(c)][c] # 0
    BY <1>2, <1>3, <2>3
  <2>6. chain(e.clust) \cap chain(Root) = {}
    BY <1>2, <2>3
  <2> QED BY <2>4, <2>5, <2>6
<1>7. ASSUME NEW e \in files, NEW f \in files, e # f
      PROVE  /\ e.name # f.name
             /\ chain(e.clust) \cap chain(f.clust) # {} =>
                  e.clust = f.clust /\ {e.name, f.name} \subseteq T
  <2>1. PICK p \in Live(D) : e = At(D, p)
    BY <1>4
  <2>2. PICK q \in Live(D) : f = At(D, q)
    BY <1>4
  <2>3. p # q
    BY <1>7, <2>1, <2>2
  <2>4. Differ(e, f, T)
    BY <1>1, <2>1, <2>2, <2>3 DEF TreeI, Single
  <2>5. Owns(L, e) /\ Owns(L, f)
    BY <1>1, <2>1, <2>2 DEF TreeI
  <2>6. ASSUME Chain(L, e.clust) \cap Chain(L, f.clust) # {}
        PROVE  e.clust = f.clust /\ e.clust # 0
    <3>1. e.clust # 0 /\ f.clust # 0
      BY <2>6, NoChain, Numbers
    <3>2. First(L, e.clust) /\ First(L, f.clust)
      BY <2>5, <3>1 DEF Owns, Begins
    <3> QED BY <1>1, <2>6, <3>1, <3>2, ChainsApart
  <2> QED BY <1>2, <2>4, <2>6 DEF Differ
<1>8. SoundDisk(d, T) <=> /\ \A e \in files : Alright(e)
                          /\ \A e, f \in files : Apart2(e, f)
  BY DEF SoundDisk, chain, files
<1> QED BY <1>6, <1>7, <1>8

(* A directory that is not torn has all its clusters, and no file twice.   *)
LEMMA UntornIs ==
  ASSUME NEW d, NEW T, DiskI(d, T), ~Unclear(d), ~Doubled(d)
  PROVE  DOMAIN Dir(d) = Chain(Links(d), Root) /\ DiskI(d, {})
<1> DEFINE L == Links(d)
           D == Dir(d)
<1>1. TreeI(L, D, T) /\ Shape(d)
  BY DEF DiskI
<1>2. DOMAIN D = Chain(L, Root)
  BY FilesAre, ChainsAre DEF Unclear, Dir
<1>3. ASSUME NEW p \in Live(D), NEW q \in Live(D), p # q
      PROVE  Differ(At(D, p), At(D, q), {})
  <2> DEFINE e == At(D, p)
             f == At(D, q)
  <2>1. Differ(e, f, T) /\ Owns(L, e)
    BY <1>1, <1>3 DEF TreeI, Single
  <2>2. e \in FilesOf(d) /\ f \in FilesOf(d)
    BY FilesAre
  <2>3. e # f
    BY <2>1 DEF Differ
  <2>4. Chain(L, e.clust) \cap Chain(L, f.clust) = {}
    BY <2>2, <2>3, ChainsAre DEF Doubled
  <2> HIDE DEF e, f
  <2>5. ASSUME e.clust = f.clust, e.clust # 0 PROVE FALSE
    <3>1. e.clust \in Clusters
      BY <2>1, <2>5 DEF Owns, Begins, First
    <3> QED BY <2>4, <2>5, <3>1, ChainIs
  <2>6. Differ(e, f, {})
    BY <2>1, <2>5 DEF Differ
  <2> QED BY <2>6 DEF e, f
<1>4. Single(D, {})
  BY <1>3 DEF Single
<1> QED BY <1>1, <1>2, <1>4 DEF DiskI, TreeI

(***************************************************************************)
(* Between calls.  The machine rests as if the last call had failed, which *)
(* it may have: only then is the window not what the card has there.       *)
(***************************************************************************)
OpenFields == {"name", "fil", "unget", "eof", "seen"}
Files == [f \in {g \in Fds : Open(g)} |-> [name |-> iob[f].name, fil |-> Fil(f)]]
Besides(fd) ==
  [f \in {g \in Fds : Open(g) /\ g # fd} |-> [name |-> iob[f].name, fil |-> Fil(f)]]
Resting == [Machine(None, Never) EXCEPT !.res = "DISK_ERR"]
Streams ==
  \A f \in Fds : Open(f) =>
    /\ DOMAIN iob[f] = OpenFields /\ iob[f].name \in Names /\ FilOK(Fil(f)) /\ fs.mounted
    /\ Fil(f).err = "OK" => Fil(f).fptr <= Fil(f).size
Between ==
  /\ DOMAIN iob = Fds /\ DOMAIN text = Names /\ busy \subseteq Names /\ Streams
  /\ MI(Resting, Shaky, Shaky, Files, -1)
  /\ \A d \in past : DiskI(d, Shaky \cup busy)

LEMMA Sizes ==
  /\ Absent # Unsure /\ LineSize \in Nat /\ MaxSize \in Nat /\ Fds \subseteq Nat /\ Offsets \subseteq Nat
  /\ \A t \in Texts \cup Before : t \in Seq(0 .. 255)
  /\ \A f \in Fds : f # -1
BY CallsAssumption

LEMMA MachineIs ==
  ASSUME NEW d, NEW f, NEW fil, NEW left
  PROVE  LET m == MachineOf(d, f, fil, left)
         IN /\ DOMAIN m = Fields /\ m.disk = d /\ m.sect = f.sect /\ m.val = f.val
            /\ m.dirty = f.dirty /\ m.mounted = f.mounted /\ m.free = f.free /\ m.last = f.last
            /\ m.fsi = f.fsi /\ m.fp = fil /\ m.res = "OK" /\ m.past = {}
BY DEF MachineOf, Fields

LEMMA RestingIs ==
  /\ DOMAIN Resting = Fields /\ Resting.disk = disk /\ Resting.sect = fs.sect
  /\ Resting.val = fs.val /\ Resting.dirty = fs.dirty /\ Resting.mounted = fs.mounted
  /\ Resting.free = fs.free /\ Resting.last = fs.last /\ Resting.fsi = fs.fsi
  /\ Resting.res = "DISK_ERR" /\ Resting.past = {} /\ View(Resting) = Now
<1> DEFINE m == Machine(None, Never)
<1>1. /\ DOMAIN m = Fields /\ m.disk = disk /\ m.sect = fs.sect /\ m.val = fs.val
      /\ m.dirty = fs.dirty /\ m.mounted = fs.mounted /\ m.free = fs.free /\ m.last = fs.last
      /\ m.fsi = fs.fsi /\ m.past = {}
  BY MachineIs DEF Machine
<1>2. Resting = [m EXCEPT !.res = "DISK_ERR"]
  BY DEF Resting
<1> HIDE DEF m
<1>3. /\ DOMAIN Resting = Fields /\ Resting.disk = disk /\ Resting.sect = fs.sect
      /\ Resting.val = fs.val /\ Resting.dirty = fs.dirty /\ Resting.mounted = fs.mounted
      /\ Resting.free = fs.free /\ Resting.last = fs.last /\ Resting.fsi = fs.fsi
      /\ Resting.res = "DISK_ERR" /\ Resting.past = {}
  BY <1>1, <1>2 DEF Fields
<1> QED BY <1>3 DEF View, Now

(* A call finds the card whole, with no name twice.                        *)
LEMMA CallStarts ==
  ASSUME Between, ~Torn, NEW fil, NEW left
  PROVE  LET m == Machine(fil, left)
         IN /\ MI(m, Shaky, {}, Files, -1) /\ OK(m) /\ Whole(m) /\ m.fp = fil
            /\ m.mounted = fs.mounted /\ VL(m) = Links(Now) /\ VD(m) = Dir(Now)
<1> DEFINE m == Machine(fil, left)
           r == Resting
<1>1. /\ DOMAIN m = Fields /\ m.disk = r.disk /\ m.sect = r.sect /\ m.val = r.val
      /\ m.dirty = r.dirty /\ m.mounted = r.mounted /\ m.free = r.free /\ m.last = r.last
      /\ m.fsi = r.fsi /\ m.fp = fil /\ m.res = "OK" /\ m.past = {}
  BY MachineIs, RestingIs DEF Machine
<1>2. MI(r, Shaky, Shaky, Files, -1) /\ View(r) = Now
  BY RestingIs DEF Between
<1>3. ~Unclear(Now) /\ ~Doubled(Now)
  BY DEF Torn
<1> HIDE DEF m, r
<1>4. View(m) = View(r) /\ VL(m) = VL(r) /\ VD(m) = VD(r)
  BY <1>1 DEF View, VL, VD
<1>5. DOMAIN Dir(Now) = Chain(Links(Now), Root) /\ DiskI(Now, {})
  BY <1>2, <1>3, UntornIs DEF MI
<1>6. Whole(m) /\ Whole(r)
  BY <1>2, <1>4, <1>5 DEF Whole, VL, VD
<1>7. Base(m)
  BY <1>1, <1>2 DEF MI, Base, Results
<1>8. Window(m)
  BY <1>1, <1>2, <1>4, <1>6 DEF MI, Window, Coherent1
<1>9. MI(m, Shaky, {}, Files, -1)
  BY <1>1, <1>2, <1>4, <1>5, <1>7, <1>8 DEF MI
<1>10. m.mounted = fs.mounted
  BY <1>1, RestingIs DEF r
<1> QED BY <1>1, <1>2, <1>4, <1>6, <1>9, <1>10 DEF OK, m, VL, VD

(* What is left behind when it ends.                                       *)
LEMMA CallEnds ==
  ASSUME NEW a, NEW names, NEW T, NEW V, Leaves(a, names), MI(a, T, V, Files', -1),
         names \subseteq Names, V \subseteq Shaky', T \subseteq Shaky' \cup names,
         T \subseteq Shaky' \/ (~a.dirty /\ V = {}),
         DOMAIN iob' = Fds, DOMAIN text' = Names, Streams'
  PROVE  Between'
<1> DEFINE r == Resting'
<1>1. /\ DOMAIN r = Fields /\ r.disk = disk' /\ r.sect = fs'.sect
      /\ r.val = fs'.val /\ r.dirty = fs'.dirty /\ r.mounted = fs'.mounted
      /\ r.free = fs'.free /\ r.last = fs'.last /\ r.fsi = fs'.fsi
      /\ r.res = "DISK_ERR" /\ r.past = {}
  <2> DEFINE m == MachineOf(disk', fs', None, Never)
  <2>1. /\ DOMAIN m = Fields /\ m.disk = disk' /\ m.sect = fs'.sect /\ m.val = fs'.val
        /\ m.dirty = fs'.dirty /\ m.mounted = fs'.mounted /\ m.free = fs'.free /\ m.last = fs'.last
        /\ m.fsi = fs'.fsi /\ m.past = {}
    BY MachineIs
  <2>2. r = [m EXCEPT !.res = "DISK_ERR"]
    BY DEF Resting, Machine
  <2> HIDE DEF m, r
  <2> QED BY <2>1, <2>2 DEF Fields
<1>2. /\ busy' = names /\ disk' = a.disk /\ past' = a.past
      /\ fs'.sect = a.sect /\ fs'.val = a.val /\ fs'.dirty = a.dirty
      /\ fs'.mounted = a.mounted /\ fs'.free = a.free /\ fs'.last = a.last /\ fs'.fsi = a.fsi
  BY DEF Leaves
<1> HIDE DEF r
<1>3. View(r) = View(a) /\ VL(r) = VL(a) /\ VD(r) = VD(a) /\ ~OK(r)
  BY <1>1, <1>2 DEF View, VL, VD, OK
<1>4. Base(r)
  BY <1>1, <1>2 DEF MI, Base, Results
<1>5. Window(r)
  BY <1>1, <1>2, <1>3 DEF MI, Window, Coherent1, Whole
<1>6. DiskI(View(a), Shaky') /\ DiskI(a.disk, Shaky')
  <2>1. DiskI(View(a), Shaky')
    BY TreeWider DEF MI, DiskI
  <2>2. CASE T \subseteq Shaky'
    BY <2>1, <2>2, TreeWider DEF MI, DiskI
  <2>3. CASE ~a.dirty
    BY <2>1, <2>3 DEF View
  <2> QED BY <2>1, <2>2, <2>3
<1>7. MI(r, Shaky', Shaky', Files', -1)
  BY <1>1, <1>2, <1>3, <1>4, <1>5, <1>6 DEF MI
<1>8. \A d \in past' : DiskI(d, Shaky' \cup busy')
  BY <1>2, TreeWider DEF MI, DiskI
<1> QED BY <1>2, <1>7, <1>8 DEF Between, r

LEMMA BesidesIs ==
  ASSUME NEW fd \in Fds
  PROVE  /\ fd \notin DOMAIN Besides(fd)
         /\ Open(fd) => Files = With(Besides(fd), fd, iob[fd].name, Fil(fd))
         /\ ~Open(fd) => Files = Besides(fd)
         /\ \A f \in DOMAIN Besides(fd) : /\ f \in Fds /\ Open(f) /\ f # fd
                                          /\ Besides(fd)[f].name = iob[f].name
<1>1. fd \notin DOMAIN Besides(fd)
  BY DEF Besides
<1>2. ASSUME Open(fd) PROVE Files = With(Besides(fd), fd, iob[fd].name, Fil(fd))
  <2> DEFINE W == With(Besides(fd), fd, iob[fd].name, Fil(fd))
             S == {g \in Fds : Open(g)}
  <2>1. {g \in Fds : Open(g) /\ g # fd} \cup {fd} = S
    BY <1>2
  <2>2. W = [f \in S |-> IF f = fd THEN [name |-> iob[fd].name, fil |-> Fil(fd)] ELSE Besides(fd)[f]]
    BY <2>1 DEF With, Besides
  <2>3. \A f \in S : f # fd => Besides(fd)[f] = [name |-> iob[f].name, fil |-> Fil(f)]
    BY DEF Besides
  <2>4. Files = [f \in S |-> [name |-> iob[f].name, fil |-> Fil(f)]]
    BY DEF Files
  <2> HIDE DEF W, S
  <2> QED BY <2>2, <2>3, <2>4 DEF W
<1>3. ASSUME ~Open(fd) PROVE Files = Besides(fd)
  <2>1. {g \in Fds : Open(g) /\ g # fd} = {g \in Fds : Open(g)}
    BY <1>3
  <2> QED BY <2>1 DEF Files, Besides
<1> QED BY <1>1, <1>2, <1>3 DEF Besides

(* Which file is spoken of does not matter to one that is not open.        *)
LEMMA AnyFile ==
  ASSUME NEW s, NEW T, NEW V, NEW io, NEW b, NEW c, MI(s, T, V, io, b),
         b \notin DOMAIN io \/ b = c
  PROVE  MI(s, T, V, io, c)
BY DEF MI, FilesIn

(* A file that is in its place, or has failed, is nothing special.         *)
LEMMA SeatedIs ==
  ASSUME NEW s, NEW T, NEW io, NEW fd, NEW n, NEW c, FI(s, T, io, fd, n), Sits(s),
         fd \notin DOMAIN io
  PROVE  MI(s, T, {}, With(io, fd, n, s.fp), c)
<1> DEFINE jo == With(io, fd, n, s.fp)
<1>1. jo[fd].fil = s.fp
  BY DEF With
<1>2. FilesIn(VL(s), VD(s), jo, fd) /\ MI(s, T, {}, jo, fd)
  BY DEF FI, MI
<1>3. s.fp.err = "OK" => Placed(VL(s), s.fp)
  BY DEF Sits
<1> HIDE DEF jo
<1>4. FilesIn(VL(s), VD(s), jo, c)
  BY <1>1, <1>2, <1>3 DEF FilesIn
<1>5. MI(s, T, {}, jo, c)
  BY <1>2, <1>4 DEF MI
<1> QED BY <1>5 DEF jo

(* The file is closed, or was not opened after all.                        *)
LEMMA DroppedIs ==
  ASSUME NEW s, NEW T, NEW io, NEW fd, NEW n, NEW c, FI(s, T, io, fd, n), fd \notin DOMAIN io
  PROVE  MI(s, T, {}, io, c)
<1>1. FilesIn(VL(s), VD(s), With(io, fd, n, s.fp), fd) /\ MI(s, T, {}, With(io, fd, n, s.fp), fd)
  BY DEF FI, MI
<1>2. FilesIn(VL(s), VD(s), io, fd)
  BY <1>1, WithHas
<1>3. MI(s, T, {}, io, fd)
  BY <1>1, <1>2 DEF MI
<1> QED BY <1>3, AnyFile

LEMMA FileCall ==
  ASSUME Between, ~Torn, NEW fd \in Fds, Open(fd), NEW left
  PROVE  LET m == Machine(Fil(fd), left)
         IN Goes(m, m, Shaky, Besides(fd), fd, iob[fd].name) /\ OK(m) /\ m.fp = Fil(fd)
<1> DEFINE m == Machine(Fil(fd), left)
           io == Besides(fd)
           n == iob[fd].name
<1>1. /\ MI(m, Shaky, {}, Files, -1) /\ OK(m) /\ m.fp = Fil(fd) /\ m.mounted = fs.mounted
  BY CallStarts
<1> HIDE DEF m
<1>2. Files = With(io, fd, n, m.fp) /\ fd \notin DOMAIN io
  BY <1>1, BesidesIs
<1>3. -1 \notin DOMAIN Files
  BY Sizes DEF Files
<1>4. MI(m, Shaky, {}, With(io, fd, n, m.fp), fd)
  BY <1>1, <1>2, <1>3, AnyFile
<1>5. FilOK(Fil(fd)) /\ fs.mounted /\ (Fil(fd).err = "OK" => Fil(fd).fptr <= Fil(fd).size)
  BY DEF Between, Streams
<1>6. FI(m, Shaky, io, fd, n)
  BY <1>1, <1>4, <1>5 DEF FI
<1>7. Sits(m)
  <2>1. FilesIn(VL(m), VD(m), Files, -1)
    BY <1>1 DEF MI
  <2>2. fd \in DOMAIN Files /\ Files[fd].fil = m.fp /\ fd # -1
    BY <1>1, Sizes DEF Files
  <2> QED BY <1>1, <1>5, <2>1, <2>2 DEF Sits, FilesIn
<1> QED BY <1>1, <1>6, <1>7 DEF Goes, Keeps, m

Doubtful == {n \in Names : text[n] = Unsure}

LEMMA ShakyIs ==
  /\ Shaky = Pending \cup Doubtful
  /\ Between => Shaky \subseteq Names /\ Pending \subseteq Names
BY DEF Shaky, Doubtful, Pending, Between, Streams

LEMMA TextKept ==
  ASSUME DOMAIN text = Names, NEW n, NEW x, text' = [text EXCEPT ![n] = x],
         text[n] = Unsure => x = Unsure
  PROVE  DOMAIN text' = Names /\ Doubtful \subseteq Doubtful'
BY DEF Doubtful

(* A call on a file that stays open.                                       *)
LEMMA StaysOpen ==
  ASSUME Between, NEW fd \in Fds, Open(fd), NEW a, NEW unget, NEW eof, NEW seen,
         DoneWith(fd, a, unget, eof, seen), FI(a, Shaky, Besides(fd), fd, iob[fd].name), Sits(a)
  PROVE  /\ MI(a, Shaky, {}, Files', -1) /\ DOMAIN iob' = Fds /\ Streams'
         /\ Leaves(a, {iob[fd].name}) /\ iob[fd].name \in Names
         /\ Pending \subseteq Pending' \cup {iob[fd].name}
         /\ "MODIFIED" \in a.fp.flags => iob[fd].name \in Pending'
         /\ "MODIFIED" \notin Fil(fd).flags => Pending \subseteq Pending'
<1> DEFINE io == Besides(fd)
           n == iob[fd].name
           r == iob'[fd]
<1>1. /\ Leaves(a, {n})
      /\ iob' = [iob EXCEPT ![fd] = [@ EXCEPT !.fil = a.fp, !.unget = unget, !.eof = eof,
                                              !.seen = seen]]
  BY DEF DoneWith
<1>2. DOMAIN iob = Fds /\ Streams
  BY DEF Between
<1>3. DOMAIN iob[fd] = OpenFields /\ n \in Names /\ n # None
  BY <1>2, NoneAssumption DEF Streams
<1>4. DOMAIN iob' = Fds /\ \A f \in Fds : f # fd => iob'[f] = iob[f]
  BY <1>1, <1>2
<1>5. /\ DOMAIN r = OpenFields /\ r.fil = a.fp /\ r.name = n
  <2>1. r = [iob[fd] EXCEPT !.fil = a.fp, !.unget = unget, !.eof = eof, !.seen = seen]
    BY <1>1, <1>2
  <2> HIDE DEF r
  <2> QED BY <1>3, <2>1 DEF OpenFields
<1>6. \A f \in Fds : /\ Open(f)' <=> Open(f)
                     /\ Fil(f)' = IF f = fd THEN a.fp ELSE Fil(f)
                     /\ iob'[f].name = iob[f].name
  BY <1>3, <1>4, <1>5 DEF Open, Fil
<1> HIDE DEF r
<1>7. FilOK(a.fp) /\ a.mounted /\ (a.fp.err = "OK" => a.fp.fptr <= a.fp.size)
  BY DEF FI, Sits
<1>8. fs'.mounted
  BY <1>1, <1>7 DEF Leaves
<1>9. Streams'
  <2> SUFFICES ASSUME NEW f \in Fds, Open(f)'
               PROVE  /\ DOMAIN iob'[f] = OpenFields /\ iob'[f].name \in Names /\ FilOK(Fil(f)')
                      /\ fs'.mounted
                      /\ Fil(f)'.err = "OK" => Fil(f)'.fptr <= Fil(f)'.size
    BY DEF Streams
  <2>1. CASE f = fd
    BY <1>3, <1>5, <1>6, <1>7, <1>8, <2>1 DEF r
  <2>2. CASE f # fd
    BY <1>2, <1>4, <1>6, <1>8, <2>2 DEF Streams
  <2> QED BY <2>1, <2>2
<1>10. Files' = With(io, fd, n, a.fp)
  <2> DEFINE S == {g \in Fds : Open(g)}
             W == With(io, fd, n, a.fp)
  <2>1. {g \in Fds : Open(g)'} = S
    BY <1>6
  <2>2. Files' = [f \in S |-> [name |-> iob'[f].name, fil |-> Fil(f)']]
    BY <2>1 DEF Files
  <2>3. DOMAIN io \cup {fd} = S
    BY DEF Besides
  <2>4. W = [f \in S |-> IF f = fd THEN [name |-> n, fil |-> a.fp] ELSE io[f]]
    BY <2>3 DEF With
  <2>5. \A f \in S : f # fd => io[f] = [name |-> iob[f].name, fil |-> Fil(f)]
    BY DEF Besides
  <2>6. \A f \in S : f \in Fds
    OBVIOUS
  <2> HIDE DEF S, W, io
  <2>7. \A f \in S : [name |-> iob'[f].name, fil |-> Fil(f)'] =
                       IF f = fd THEN [name |-> n, fil |-> a.fp] ELSE io[f]
    BY <1>6, <2>5, <2>6
  <2> QED BY <2>2, <2>4, <2>7 DEF W
<1>11. MI(a, Shaky, {}, Files', -1)
  BY <1>10, BesidesIs, SeatedIs
<1>12. \A f \in Fds : f # fd /\ Open(f) /\ "MODIFIED" \in Fil(f).flags => iob[f].name \in Pending'
  BY <1>6 DEF Pending
<1>13. "MODIFIED" \in a.fp.flags => n \in Pending'
  BY <1>6 DEF Pending
<1>14. \A x \in Pending : \E f \in Fds : Open(f) /\ "MODIFIED" \in Fil(f).flags /\ x = iob[f].name
  BY DEF Pending
<1> HIDE DEF n
<1>15. Pending \subseteq Pending' \cup {n}
  BY <1>12, <1>14 DEF n
<1>16. "MODIFIED" \notin Fil(fd).flags => Pending \subseteq Pending'
  BY <1>12, <1>14
<1> QED BY <1>1, <1>3, <1>4, <1>9, <1>11, <1>13, <1>15, <1>16 DEF n

(* Reads, writes and seeks forget no change.                               *)
LEMMA FileEnds ==
  ASSUME Between, NEW fd \in Fds, Open(fd), NEW a, NEW unget, NEW eof, NEW seen, NEW t, NEW m,
         DoneWith(fd, a, unget, eof, seen), TextAfter(fd, a, t),
         Goes(m, a, Shaky, Besides(fd), fd, iob[fd].name), m.fp = Fil(fd)
  PROVE  Between'
<1> DEFINE n == iob[fd].name
<1>1. FI(a, Shaky, Besides(fd), fd, n) /\ Sits(a) /\ Keeps(Fil(fd), a.fp)
  BY DEF Goes
<1>2. /\ MI(a, Shaky, {}, Files', -1) /\ DOMAIN iob' = Fds /\ Streams'
      /\ Leaves(a, {n}) /\ n \in Names
      /\ Pending \subseteq Pending' \cup {n}
      /\ "MODIFIED" \in a.fp.flags => n \in Pending'
      /\ "MODIFIED" \notin Fil(fd).flags => Pending \subseteq Pending'
  BY <1>1, StaysOpen
<1> HIDE DEF n
<1>3. Pending \subseteq Pending'
  BY <1>1, <1>2 DEF Keeps
<1>4. text' = [text EXCEPT ![n] = IF text[n] = Unsure \/ ~OK(a) THEN Unsure ELSE t]
  BY DEF TextAfter, SetText, n
<1>5. DOMAIN text' = Names /\ Doubtful \subseteq Doubtful'
  BY <1>4, TextKept DEF Between
<1>6. Shaky' = Pending' \cup Doubtful'
  BY DEF Shaky, Doubtful
<1>7. Shaky \subseteq Shaky'
  BY <1>3, <1>5, <1>6, ShakyIs
<1>8. {} \subseteq Shaky' /\ {n} \subseteq Names /\ Shaky \subseteq Shaky' \cup {n}
  BY <1>2, <1>7
<1> QED BY <1>2, <1>5, <1>7, <1>8, CallEnds

LEMMA ReadStays ==
  ASSUME Between, ~Torn, NEW fd \in Fds, NEW cnt \in Nat, NEW left, Read(fd, cnt, left)
  PROVE  Between'
<1> DEFINE m == Machine(Fil(fd), left)
           a == Fread(m, cnt)
<1>1. Open(fd) /\ DoneWith(fd, a, iob[fd].unget, iob[fd].eof, None) /\ TextAfter(fd, a, text[iob[fd].name])
  BY DEF Read, Done
<1>2. Goes(m, m, Shaky, Besides(fd), fd, iob[fd].name) /\ OK(m) /\ m.fp = Fil(fd)
  BY <1>1, FileCall
<1> HIDE DEF m
<1>3. FI(a, Shaky, Besides(fd), fd, iob[fd].name) /\ Sits(a) /\ Keeps(m.fp, a.fp)
  BY <1>2, BesidesIs, FreadIs DEF Goes
<1>4. Goes(m, a, Shaky, Besides(fd), fd, iob[fd].name)
  BY <1>3 DEF Goes
<1> HIDE DEF a
<1> QED BY <1>1, <1>2, <1>4, FileEnds

LEMMA WriteStays ==
  ASSUME Between, ~Torn, NEW fd \in Fds, NEW bytes \in Texts, NEW left, Write(fd, bytes, left)
  PROVE  Between'
<1> DEFINE m == Machine(Fil(fd), left)
           a == Fwrite(m, bytes)
           t == PutAt(text[iob[fd].name], Fil(fd).fptr, a.out)
<1>1. Open(fd) /\ DoneWith(fd, a, iob[fd].unget, iob[fd].eof, None) /\ TextAfter(fd, a, t)
  BY DEF Write, Done
<1>2. Goes(m, m, Shaky, Besides(fd), fd, iob[fd].name) /\ OK(m) /\ m.fp = Fil(fd)
  BY <1>1, FileCall
<1> HIDE DEF m
<1>3. bytes \in Seq(0 .. 255)
  BY Sizes
<1>4. FI(a, Shaky, Besides(fd), fd, iob[fd].name) /\ Sits(a) /\ Keeps(m.fp, a.fp)
  <2>1. FI(m, Shaky, Besides(fd), fd, iob[fd].name) /\ Sits(m) /\ fd \notin DOMAIN Besides(fd)
    BY <1>2, BesidesIs DEF Goes
  <2> QED BY <1>2, <1>3, <2>1, FwriteIs
<1>5. Goes(m, a, Shaky, Besides(fd), fd, iob[fd].name)
  BY <1>4 DEF Goes
<1> HIDE DEF a, t
<1> QED BY <1>1, <1>2, <1>5, FileEnds

LEMMA LseekStays ==
  ASSUME Between, ~Torn, NEW fd \in Fds, NEW p \in Offsets, NEW left, Lseek(fd, p, left)
  PROVE  Between'
<1> DEFINE m == Machine(Fil(fd), left)
           a == Flseek(m, p)
           t == PutAt(text[iob[fd].name], a.fp.fptr, <<>>)
           seen == IF SoughtToo THEN SeenFrom(a.fp.fptr) ELSE None
<1>1. Open(fd) /\ DoneWith(fd, a, TRUE, iob[fd].eof, seen) /\ TextAfter(fd, a, t)
  BY DEF Lseek
<1>2. Goes(m, m, Shaky, Besides(fd), fd, iob[fd].name) /\ OK(m) /\ m.fp = Fil(fd)
  BY <1>1, FileCall
<1> HIDE DEF m
<1>3. p \in Nat
  BY Sizes
<1>4. FI(a, Shaky, Besides(fd), fd, iob[fd].name) /\ Sits(a) /\ Keeps(m.fp, a.fp)
  BY <1>2, <1>3, BesidesIs, FlseekIs DEF Goes
<1>5. Goes(m, a, Shaky, Besides(fd), fd, iob[fd].name)
  BY <1>4 DEF Goes
<1> HIDE DEF a, t, seen
<1> QED BY <1>1, <1>2, <1>5, FileEnds

(* The stream's flags are put beside the file.                             *)
LEMMA StreamCall ==
  ASSUME Between, ~Torn, NEW fd \in Fds, Open(fd), NEW left
  PROVE  LET m == Stream(fd, left)
         IN Goes(m, m, Shaky, Besides(fd), fd, iob[fd].name) /\ OK(m) /\ m.fp = Fil(fd)
<1> DEFINE z == Machine(Fil(fd), left)
           m == Stream(fd, left)
<1>1. Goes(z, z, Shaky, Besides(fd), fd, iob[fd].name) /\ OK(z) /\ z.fp = Fil(fd)
  BY FileCall
<1>2. m = [z EXCEPT !.unget = iob[fd].unget, !.eof = iob[fd].eof]
  BY DEF Stream
<1> HIDE DEF m, z
<1>3. fd \notin DOMAIN Besides(fd)
  BY BesidesIs
<1>4. DOMAIN z = Fields
  BY <1>1, <1>3, GoesFields
<1>5. DOMAIN m = Fields /\ Others(z, m, StreamFields)
  BY <1>2, <1>4 DEF Others, StreamFields, Fields
<1>6. Goes(z, m, Shaky, Besides(fd), fd, iob[fd].name) /\ (OK(m) <=> OK(z)) /\ m.fp = z.fp
  BY <1>1, <1>3, <1>5, StreamIs
<1> QED BY <1>1, <1>6 DEF Goes, Keeps, m

LEMMA FgetcStays ==
  ASSUME Between, ~Torn, NEW fd \in Fds, NEW left, Fgetc(fd, left)
  PROVE  Between'
<1> DEFINE m == Stream(fd, left)
           a == fgetc(m)
           seen == IF iob[fd].seen = None THEN None
                   ELSE [iob[fd].seen EXCEPT !.chars = @ \o a.chars]
<1>1. Open(fd) /\ DoneWith(fd, a, a.unget, a.eof, seen) /\ TextAfter(fd, a, text[iob[fd].name])
  BY DEF Fgetc, DoneReading
<1>2. Goes(m, m, Shaky, Besides(fd), fd, iob[fd].name) /\ OK(m) /\ m.fp = Fil(fd)
  BY <1>1, StreamCall
<1> HIDE DEF m
<1>3. Goes(m, a, Shaky, Besides(fd), fd, iob[fd].name)
  BY <1>2, BesidesIs, FgetcIs
<1> HIDE DEF a, seen
<1> QED BY <1>1, <1>2, <1>3, FileEnds

LEMMA FgetsStays ==
  ASSUME Between, ~Torn, NEW fd \in Fds, NEW left, Fgets(fd, left)
  PROVE  Between'
<1> DEFINE m == Stream(fd, left)
           a == fgets(m, LineSize)
           seen == IF iob[fd].seen = None THEN None
                   ELSE [iob[fd].seen EXCEPT !.chars = @ \o a.chars]
<1>1. Open(fd) /\ DoneWith(fd, a, a.unget, a.eof, seen) /\ TextAfter(fd, a, text[iob[fd].name])
  BY DEF Fgets, DoneReading
<1>2. Goes(m, m, Shaky, Besides(fd), fd, iob[fd].name) /\ OK(m) /\ m.fp = Fil(fd)
  BY <1>1, StreamCall
<1> HIDE DEF m
<1>3. Goes(m, a, Shaky, Besides(fd), fd, iob[fd].name)
  BY <1>2, Sizes, BesidesIs, FgetsIs
<1> HIDE DEF a, seen
<1> QED BY <1>1, <1>2, <1>3, FileEnds

LEMMA FputsStays ==
  ASSUME Between, ~Torn, NEW fd \in Fds, NEW str \in Texts, NEW left, Fputs(fd, str, left)
  PROVE  Between'
<1> DEFINE m == Stream(fd, left)
           a == fputs(m, str)
           t == PutAt(text[iob[fd].name], Fil(fd).fptr, a.chars)
<1>1. Open(fd) /\ DoneWith(fd, a, a.unget, a.eof, None) /\ TextAfter(fd, a, t)
  BY DEF Fputs, DoneWriting
<1>2. Goes(m, m, Shaky, Besides(fd), fd, iob[fd].name) /\ OK(m) /\ m.fp = Fil(fd)
  BY <1>1, StreamCall
<1> HIDE DEF m
<1>3. str \in Seq(0 .. 255)
  BY Sizes
<1>4. Goes(m, a, Shaky, Besides(fd), fd, iob[fd].name)
  BY <1>2, <1>3, BesidesIs, FputsIs
<1> HIDE DEF a, t
<1> QED BY <1>1, <1>2, <1>4, FileEnds

(* syncfs: what it forgets is on the card, or in doubt.                    *)
LEMMA SyncfsStays ==
  ASSUME Between, ~Torn, NEW fd \in Fds, NEW left, Syncfs(fd, left)
  PROVE  Between'
<1> DEFINE m == Machine(Fil(fd), left)
           a == Fsync(m)
           n == iob[fd].name
           seen == IF SoughtToo THEN iob[fd].seen ELSE None
<1>1. Open(fd) /\ DoneWith(fd, a, TRUE, iob[fd].eof, seen) /\ TextAfter(fd, a, text[n])
  BY DEF Syncfs
<1>2. Goes(m, m, Shaky, Besides(fd), fd, n) /\ OK(m) /\ m.fp = Fil(fd)
  BY <1>1, FileCall
<1> HIDE DEF m
<1>3. /\ FI(a, Shaky, Besides(fd), fd, n) /\ Sits(a)
      /\ "MODIFIED" \notin Fil(fd).flags => a = m
      /\ "MODIFIED" \in Fil(fd).flags /\ OK(a) => ~a.dirty
  BY <1>2, BesidesIs, FsyncIs DEF Goes
<1> HIDE DEF a, seen
<1>4. /\ MI(a, Shaky, {}, Files', -1) /\ DOMAIN iob' = Fds /\ Streams'
      /\ Leaves(a, {n}) /\ n \in Names
      /\ Pending \subseteq Pending' \cup {n}
      /\ "MODIFIED" \notin Fil(fd).flags => Pending \subseteq Pending'
  BY <1>1, <1>3, StaysOpen
<1> HIDE DEF n
<1>5. text' = [text EXCEPT ![n] = IF text[n] = Unsure \/ ~OK(a) THEN Unsure ELSE text[n]]
  BY <1>1 DEF TextAfter, SetText, n
<1>6. DOMAIN text' = Names /\ Doubtful \subseteq Doubtful' /\ DOMAIN text = Names
  BY <1>5, TextKept DEF Between
<1>7. Shaky' = Pending' \cup Doubtful'
  BY DEF Shaky, Doubtful
<1>8. ~OK(a) => n \in Doubtful'
  BY <1>4, <1>5, <1>6 DEF Doubtful
<1>9. Shaky \subseteq Shaky' \cup {n}
  BY <1>4, <1>6, <1>7, ShakyIs
<1>10. Shaky \subseteq Shaky' \/ (~a.dirty /\ {} = {})
  BY <1>3, <1>4, <1>6, <1>7, <1>8, <1>9, ShakyIs
<1>11. {} \subseteq Shaky' /\ {n} \subseteq Names
  BY <1>4
<1> QED BY <1>4, <1>6, <1>9, <1>10, <1>11, CallEnds

LEMMA ShutIs ==
  ASSUME Between, NEW fd \in Fds, NEW a, NEW names, Leaves(a, names),
         iob' = [iob EXCEPT ![fd] = Closed], MI(a, Shaky, {}, Besides(fd), -1),
         fs.mounted => a.mounted
  PROVE  /\ MI(a, Shaky, {}, Files', -1) /\ DOMAIN iob' = Fds /\ Streams'
         /\ \A x \in Pending :
              x \in Pending' \/ (Open(fd) /\ "MODIFIED" \in Fil(fd).flags /\ x = iob[fd].name)
<1>1. DOMAIN iob = Fds /\ Streams
  BY DEF Between
<1>2. DOMAIN iob' = Fds /\ iob'[fd] = Closed /\ \A f \in Fds : f # fd => iob'[f] = iob[f]
  BY <1>1
<1>3. \A f \in Fds : /\ Open(f)' <=> Open(f) /\ f # fd
                     /\ f # fd => Fil(f)' = Fil(f) /\ iob'[f] = iob[f]
  BY <1>2 DEF Open, Fil, Closed
<1>4. fs.mounted => fs'.mounted
  BY DEF Leaves
<1>5. Streams'
  BY <1>1, <1>3, <1>4 DEF Streams
<1>6. Files' = Besides(fd)
  <2> DEFINE S == {g \in Fds : Open(g) /\ g # fd}
  <2>1. {g \in Fds : Open(g)'} = S
    BY <1>3
  <2>2. Files' = [f \in S |-> [name |-> iob'[f].name, fil |-> Fil(f)']]
    BY <2>1 DEF Files
  <2>3. \A f \in S : f \in Fds /\ f # fd
    OBVIOUS
  <2>4. Besides(fd) = [f \in S |-> [name |-> iob[f].name, fil |-> Fil(f)]]
    BY DEF Besides
  <2> HIDE DEF S
  <2> QED BY <1>3, <2>2, <2>3, <2>4
<1>7. ASSUME NEW x \in Pending
      PROVE  x \in Pending' \/ (Open(fd) /\ "MODIFIED" \in Fil(fd).flags /\ x = iob[fd].name)
  <2>1. PICK f \in Fds : Open(f) /\ "MODIFIED" \in Fil(f).flags /\ x = iob[f].name
    BY DEF Pending
  <2>2. CASE f = fd
    BY <2>1, <2>2
  <2>3. CASE f # fd
    BY <1>3, <2>1, <2>3 DEF Pending
  <2> QED BY <2>2, <2>3
<1> QED BY <1>2, <1>5, <1>6, <1>7

LEMMA CloseStays ==
  ASSUME Between, ~Torn, NEW fd \in Fds, NEW left, Close(fd, left)
  PROVE  Between'
<1> DEFINE m == Machine(Fil(fd), left)
           a == Fsync(m)
           n == iob[fd].name
<1>1. /\ Open(fd) /\ Leaves(a, {n}) /\ iob' = [iob EXCEPT ![fd] = Closed]
      /\ TextAfter(fd, a, text[n])
  BY DEF Close
<1>2. Goes(m, m, Shaky, Besides(fd), fd, n) /\ OK(m) /\ m.fp = Fil(fd)
  BY <1>1, FileCall
<1> HIDE DEF m
<1>3. /\ FI(a, Shaky, Besides(fd), fd, n)
      /\ "MODIFIED" \notin Fil(fd).flags => a = m
      /\ "MODIFIED" \in Fil(fd).flags /\ OK(a) => ~a.dirty
  BY <1>2, BesidesIs, FsyncIs DEF Goes
<1> HIDE DEF a
<1>4. MI(a, Shaky, {}, Besides(fd), -1)
  BY <1>3, BesidesIs, DroppedIs
<1>5. a.mounted
  BY <1>3 DEF FI
<1>6. /\ MI(a, Shaky, {}, Files', -1) /\ DOMAIN iob' = Fds /\ Streams'
      /\ \A x \in Pending :
              x \in Pending' \/ (Open(fd) /\ "MODIFIED" \in Fil(fd).flags /\ x = n)
  BY <1>1, <1>4, <1>5, ShutIs
<1>7. n \in Names
  BY <1>1 DEF Between, Streams
<1> HIDE DEF n
<1>8. text' = [text EXCEPT ![n] = IF text[n] = Unsure \/ ~OK(a) THEN Unsure ELSE text[n]]
  BY <1>1 DEF TextAfter, SetText, n
<1>9. DOMAIN text' = Names /\ Doubtful \subseteq Doubtful' /\ DOMAIN text = Names
  BY <1>8, TextKept DEF Between
<1>10. Shaky' = Pending' \cup Doubtful'
  BY DEF Shaky, Doubtful
<1>11. ~OK(a) => n \in Doubtful'
  BY <1>7, <1>8, <1>9 DEF Doubtful
<1>12. Shaky \subseteq Shaky' \cup {n}
  BY <1>6, <1>9, <1>10, ShakyIs
<1>13. Shaky \subseteq Shaky' \/ (~a.dirty /\ {} = {})
  BY <1>3, <1>6, <1>9, <1>10, <1>11, <1>12, ShakyIs
<1>14. {} \subseteq Shaky' /\ {n} \subseteq Names
  BY <1>7
<1> QED BY <1>1, <1>6, <1>9, <1>12, <1>13, <1>14, CallEnds

(* A call on no file that is open.                                         *)
LEMMA UntouchedIs ==
  ASSUME Between, NEW a, NEW names, Leaves(a, names), iob' = iob, fs.mounted => a.mounted
  PROVE  Files' = Files /\ DOMAIN iob' = Fds /\ Streams' /\ Pending' = Pending
<1>1. DOMAIN iob = Fds /\ Streams
  BY DEF Between
<1>2. fs.mounted => fs'.mounted
  BY DEF Leaves
<1>3. \A f : (Open(f)' <=> Open(f)) /\ Fil(f)' = Fil(f)
  BY DEF Open, Fil
<1>4. Streams'
  BY <1>1, <1>2, <1>3 DEF Streams
<1>5. Files' = Files
  BY DEF Files, Open, Fil
<1>6. Pending' = Pending
  BY DEF Pending, Open, Fil
<1> QED BY <1>1, <1>4, <1>5, <1>6

LEMMA LeavesFail ==
  ASSUME NEW b, NEW r, NEW names, NEW T, NEW V, NEW io, NEW cur, MI(b, T, V, io, cur),
         Leaves(Fail(b, r), names)
  PROVE  Leaves(b, names) /\ Fail(b, r).res = r /\ Fail(b, r).mounted = b.mounted
<1> DEFINE a == Fail(b, r)
<1>1. DOMAIN b = Fields
  BY DEF MI, Base
<1>2. Others(b, a, {"res"}) /\ a.res = r
  BY <1>1 DEF Fail, Others, Fields
<1> HIDE DEF a
<1>3. /\ a.disk = b.disk /\ a.sect = b.sect /\ a.val = b.val /\ a.dirty = b.dirty
      /\ a.mounted = b.mounted /\ a.free = b.free /\ a.last = b.last /\ a.fsi = b.fsi
      /\ a.past = b.past
  BY <1>2 DEF Others, Fields
<1>4. Leaves(b, names)
  BY <1>3 DEF Leaves, a
<1> QED BY <1>2, <1>3, <1>4 DEF a

LEMMA UnlinkStays ==
  ASSUME Between, ~Torn, NEW n \in Names, NEW left, Unlink(n, left)
  PROVE  Between'
<1> DEFINE m == Machine(None, left)
           a == Funlink(m, n)
           x == IF OK(a) THEN Absent ELSE IF a.res = "NO_FILE" THEN text[n] ELSE Unsure
<1>1. ~IsOpen(n) /\ Leaves(a, {n}) /\ iob' = iob /\ text' = [text EXCEPT ![n] = x]
  BY DEF Unlink, SetText
<1>2. MI(m, Shaky, {}, Files, -1) /\ OK(m) /\ Whole(m) /\ m.mounted = fs.mounted
  BY CallStarts
<1> HIDE DEF m
<1>3. \A f \in DOMAIN Files : Files[f].name # n
  BY <1>1 DEF Files, IsOpen
<1>4. /\ m.mounted => a.mounted
      /\ \/ MI(a, Shaky, {}, Files, -1) /\ (OK(a) => ~a.dirty)
         \/ \E b : MI(b, Shaky, {}, Files, -1) /\ a = Fail(b, "NO_FILE")
  BY <1>2, <1>3, FunlinkIs
<1> HIDE DEF a
<1>5. Files' = Files /\ DOMAIN iob' = Fds /\ Streams' /\ Pending' = Pending
  BY <1>1, <1>2, <1>4, UntouchedIs
<1>6. Shaky' = Pending' \cup Doubtful' /\ DOMAIN text = Names
  BY DEF Shaky, Doubtful, Between
<1>7. DOMAIN text' = Names /\ text'[n] = x /\ \A k \in Names : k # n => text'[k] = text[k]
  BY <1>1, <1>6
<1>8. Shaky \subseteq Shaky' \cup {n}
  BY <1>5, <1>6, <1>7, ShakyIs DEF Doubtful
<1>9. ~OK(a) => Shaky \subseteq Shaky'
  <2>1. ~OK(a) => x \in {text[n], Unsure}
    OBVIOUS
  <2> HIDE DEF x
  <2>2. ~OK(a) => Doubtful \subseteq Doubtful'
    BY <1>7, <2>1 DEF Doubtful
  <2> QED BY <1>5, <1>6, <2>2, ShakyIs
<1> HIDE DEF x
<1>10. {} \subseteq Shaky' /\ {n} \subseteq Names
  OBVIOUS
<1>11. CASE MI(a, Shaky, {}, Files, -1) /\ (OK(a) => ~a.dirty)
  <2>1. MI(a, Shaky, {}, Files', -1) /\ (Shaky \subseteq Shaky' \/ (~a.dirty /\ {} = {}))
    BY <1>5, <1>9, <1>11
  <2> QED BY <1>1, <1>5, <1>7, <1>8, <1>10, <2>1, CallEnds
<1>12. CASE \E b : MI(b, Shaky, {}, Files, -1) /\ a = Fail(b, "NO_FILE")
  <2>1. PICK b : MI(b, Shaky, {}, Files, -1) /\ a = Fail(b, "NO_FILE")
    BY <1>12
  <2>2. Leaves(b, {n}) /\ a.res = "NO_FILE"
    BY <1>1, <2>1, LeavesFail
  <2>3. Shaky \subseteq Shaky' /\ MI(b, Shaky, {}, Files', -1)
    BY <1>5, <1>9, <2>1, <2>2 DEF OK
  <2> QED BY <1>5, <1>7, <1>8, <1>10, <2>2, <2>3, CallEnds
<1> QED BY <1>4, <1>11, <1>12

LEMMA RenameStays ==
  ASSUME Between, ~Torn, NEW k \in Names, NEW n \in Names, NEW left, Rename(k, n, left)
  PROVE  Between'
<1> DEFINE m == Machine(None, left)
           a == Frename(m, k, n)
           U == Shaky \cup {k, n}
<1>1. /\ ~IsOpen(k) /\ ~IsOpen(n) /\ k # n /\ Leaves(a, {k, n}) /\ iob' = iob
      /\ text' = CASE OK(a) -> [text EXCEPT ![n] = text[k], ![k] = Absent]
                   [] a.res \in {"NO_FILE", "EXIST"} -> text
                   [] OTHER -> [text EXCEPT ![n] = Unsure, ![k] = Unsure]
  BY DEF Rename
<1>2. MI(m, Shaky, {}, Files, -1) /\ OK(m) /\ Whole(m) /\ m.mounted = fs.mounted
  BY CallStarts
<1> HIDE DEF m
<1>3. \A f \in DOMAIN Files : Files[f].name \notin {k, n}
  BY <1>1 DEF Files, IsOpen
<1>4. /\ m.mounted => a.mounted
      /\ \/ MI(a, Shaky, {}, Files, -1) /\ ~OK(a)
         \/ Renamed(a, U, {k, n}, Files, -1)
         \/ \E b : MI(b, Shaky, {}, Files, -1) /\ a \in {Fail(b, "NO_FILE"), Fail(b, "EXIST")}
  BY <1>1, <1>2, <1>3, FrenameIs
<1> HIDE DEF a
<1>5. Files' = Files /\ DOMAIN iob' = Fds /\ Streams' /\ Pending' = Pending
  BY <1>1, <1>2, <1>4, UntouchedIs
<1>6. Shaky' = Pending' \cup Doubtful' /\ DOMAIN text = Names
  BY DEF Shaky, Doubtful, Between
<1>7. /\ OK(a) => text' = [text EXCEPT ![n] = text[k], ![k] = Absent]
      /\ ~OK(a) /\ a.res \in {"NO_FILE", "EXIST"} => text' = text
      /\ ~OK(a) /\ a.res \notin {"NO_FILE", "EXIST"} => text' = [text EXCEPT ![n] = Unsure, ![k] = Unsure]
  <2> DEFINE C == a.res \in {"NO_FILE", "EXIST"}
             x == [text EXCEPT ![n] = text[k], ![k] = Absent]
             y == [text EXCEPT ![n] = Unsure, ![k] = Unsure]
  <2>1. text' = CASE OK(a) -> x [] C -> text [] OTHER -> y
    BY <1>1
  <2>2. OK(a) => ~C
    BY DEF OK
  <2> HIDE DEF C, x, y
  <2>3. (OK(a) => text' = x) /\ (~OK(a) /\ C => text' = text) /\ (~OK(a) /\ ~C => text' = y)
    BY <2>1, <2>2
  <2> QED BY <2>3 DEF C, x, y
<1>8. DOMAIN text' = Names /\ \A j \in Names : j \notin {k, n} => text'[j] = text[j]
  BY <1>6, <1>7
<1>9. /\ ~OK(a) => \A j \in Names : text[j] = Unsure => text'[j] = Unsure
      /\ ~OK(a) /\ a.res \notin {"NO_FILE", "EXIST"} => text'[k] = Unsure /\ text'[n] = Unsure
  BY <1>1, <1>6, <1>7
<1>10. Doubtful \subseteq Doubtful' \cup {k, n}
  BY <1>8 DEF Doubtful
<1>11. ~OK(a) => Doubtful \subseteq Doubtful'
  BY <1>9 DEF Doubtful
<1>12. ~OK(a) /\ a.res \notin {"NO_FILE", "EXIST"} => {k, n} \subseteq Doubtful'
  BY <1>9 DEF Doubtful
<1>13. /\ Shaky \subseteq Shaky' \cup {k, n} /\ U \subseteq Shaky' \cup {k, n}
       /\ ~OK(a) => Shaky \subseteq Shaky'
       /\ ~OK(a) /\ a.res \notin {"NO_FILE", "EXIST"} => U \subseteq Shaky' /\ {k, n} \subseteq Shaky'
  BY <1>5, <1>6, <1>10, <1>11, <1>12, ShakyIs
<1>14. {} \subseteq Shaky' /\ {k, n} \subseteq Names
  OBVIOUS
<1> HIDE DEF U
<1>15. CASE MI(a, Shaky, {}, Files, -1) /\ ~OK(a)
  <2>1. MI(a, Shaky, {}, Files', -1) /\ Shaky \subseteq Shaky'
    BY <1>5, <1>13, <1>15
  <2> QED BY <1>1, <1>5, <1>8, <1>13, <1>14, <2>1, CallEnds
<1>16. CASE Renamed(a, U, {k, n}, Files, -1)
  <2>1. CASE OK(a)
    <3>1. MI(a, U, {}, Files', -1) /\ ~a.dirty /\ {} = {}
      BY <1>5, <1>16, <2>1 DEF Renamed
    <3> QED BY <1>1, <1>5, <1>8, <1>13, <1>14, <3>1, CallEnds
  <2>2. CASE ~OK(a)
    <3>1. MI(a, U, {k, n}, Files', -1)
      BY <1>5, <1>16 DEF Renamed
    <3>2. a.res \notin {"NO_FILE", "EXIST"}
      BY <3>1 DEF MI, Base, Results
    <3> QED BY <1>1, <1>5, <1>8, <1>13, <1>14, <2>2, <3>1, <3>2, CallEnds
  <2> QED BY <2>1, <2>2
<1>17. CASE \E b : MI(b, Shaky, {}, Files, -1) /\ a \in {Fail(b, "NO_FILE"), Fail(b, "EXIST")}
  <2>1. PICK b : MI(b, Shaky, {}, Files, -1) /\ a \in {Fail(b, "NO_FILE"), Fail(b, "EXIST")}
    BY <1>17
  <2>2. Leaves(b, {k, n}) /\ a.res \in {"NO_FILE", "EXIST"}
    <3>1. CASE a = Fail(b, "NO_FILE")
      BY <1>1, <2>1, <3>1, LeavesFail
    <3>2. CASE a = Fail(b, "EXIST")
      BY <1>1, <2>1, <3>2, LeavesFail
    <3> QED BY <2>1, <3>1, <3>2
  <2>3. Shaky \subseteq Shaky' /\ MI(b, Shaky, {}, Files', -1)
    BY <1>5, <1>13, <2>1, <2>2 DEF OK
  <2> QED BY <1>5, <1>8, <1>13, <1>14, <2>2, <2>3, CallEnds
<1> QED BY <1>4, <1>15, <1>16, <1>17

(* open: the file at its start, or behind its end, or none.                *)
OpensAs(s, a, T, io, fd, n, mode) ==
  /\ s.mounted => a.mounted
  /\ \/ ~OK(a) /\ MI(a, T, {}, io, fd)
     \/ \E b : MI(b, T, {}, io, fd) /\ a = Fail(b, "NO_FILE")
     \/ /\ OK(a) /\ FI(a, T, io, fd, n) /\ Sits(a)
        /\ "CREATE_ALWAYS" \in mode.flags => "MODIFIED" \in a.fp.flags
LEMMA OpenCallIs ==
  ASSUME NEW s, NEW T, NEW io, NEW fd, NEW n \in Names, NEW mode, fd \notin DOMAIN io,
         MI(s, T, {}, io, fd), OK(s), Whole(s), \A f \in DOMAIN io : io[f].name # n
  PROVE  OpensAs(s, Opened(s, n, mode), T, io, fd, n, mode)
<1> DEFINE a == Opened(s, n, mode)
           o == Fopen(s, n, mode.flags)
           g == Flseek(o, o.fp.size)
<1>1. /\ s.mounted => o.mounted
      /\ \/ ~OK(o) /\ MI(o, T, {}, io, fd)
         \/ \E b : MI(b, T, {}, io, fd) /\ o = Fail(b, "NO_FILE")
         \/ /\ OK(o) /\ FI(o, T, io, fd, n) /\ o.fp.fptr = 0 /\ o.fp.err = "OK"
            /\ Placed(VL(o), o.fp) /\ ("CREATE_ALWAYS" \in mode.flags => "MODIFIED" \in o.fp.flags)
  BY FopenIs
<1>2. a = IF OK(o) /\ mode.append THEN g ELSE o
  BY DEF Opened
<1> HIDE DEF o
<1>3. ASSUME OK(o), FI(o, T, io, fd, n), o.fp.fptr = 0, Placed(VL(o), o.fp)
      PROVE  Sits(o) /\ o.fp.size \in Nat
  <2>1. FilesIn(VL(o), VD(o), With(io, fd, n, o.fp), fd)
    BY <1>3 DEF FI, MI
  <2>2. FileIn(VL(o), VD(o), o.fp, n)
    BY <2>1, WithHas
  <2>3. o.fp.size \in Nat
    BY <2>2 DEF FileIn
  <2> QED BY <1>3, <2>3 DEF Sits
<1>4. CASE ~(OK(o) /\ mode.append)
  BY <1>1, <1>2, <1>3, <1>4 DEF OpensAs
<1>5. CASE OK(o) /\ mode.append
  <2>1. a = g
    BY <1>2, <1>5
  <2>2. CASE \E b : MI(b, T, {}, io, fd) /\ o = Fail(b, "NO_FILE")
    <3>1. PICK b : MI(b, T, {}, io, fd) /\ o = Fail(b, "NO_FILE")
      BY <2>2
    <3>2. o.res = "NO_FILE"
      BY <3>1 DEF MI, Base, Fail, Fields
    <3> QED BY <1>5, <3>2 DEF OK
  <2>3. CASE /\ OK(o) /\ FI(o, T, io, fd, n) /\ o.fp.fptr = 0 /\ o.fp.err = "OK"
             /\ Placed(VL(o), o.fp) /\ ("CREATE_ALWAYS" \in mode.flags => "MODIFIED" \in o.fp.flags)
    <3>1. Sits(o) /\ o.fp.size \in Nat
      BY <1>3, <2>3
    <3>2. FI(g, T, io, fd, n) /\ Sits(g) /\ Keeps(o.fp, g.fp)
      BY <2>3, <3>1, FlseekIs
    <3> HIDE DEF g
    <3>3. g.mounted
      BY <3>2 DEF FI
    <3>4. "CREATE_ALWAYS" \in mode.flags => "MODIFIED" \in g.fp.flags
      BY <2>3, <3>2 DEF Keeps
    <3>5. MI(g, T, {}, io, fd)
      BY <3>2, DroppedIs
    <3> QED BY <2>1, <3>2, <3>3, <3>4, <3>5 DEF OpensAs
  <2> QED BY <1>1, <1>5, <2>2, <2>3
<1> QED BY <1>4, <1>5

(* A file that is open now.                                                *)
LEMMA OpensIs ==
  ASSUME Between, NEW fd \in Fds, NEW a, NEW n \in Names, NEW seen, ~Open(fd), Leaves(a, {n}),
         iob' = [iob EXCEPT ![fd] = [name |-> n, fil |-> a.fp, unget |-> FALSE, eof |-> FALSE,
                                     seen |-> seen]],
         FI(a, Shaky, Besides(fd), fd, n), Sits(a)
  PROVE  /\ MI(a, Shaky, {}, Files', -1) /\ DOMAIN iob' = Fds /\ Streams'
         /\ Pending \subseteq Pending'
         /\ "MODIFIED" \in a.fp.flags => n \in Pending'
<1> DEFINE io == Besides(fd)
           r == [name |-> n, fil |-> a.fp, unget |-> FALSE, eof |-> FALSE, seen |-> seen]
<1>1. DOMAIN iob = Fds /\ Streams
  BY DEF Between
<1>2. DOMAIN r = OpenFields /\ r.fil = a.fp /\ r.name = n
  BY DEF OpenFields
<1>3. n # None
  BY NoneAssumption
<1> HIDE DEF r
<1>4. DOMAIN iob' = Fds /\ iob'[fd] = r /\ \A f \in Fds : f # fd => iob'[f] = iob[f]
  BY <1>1 DEF r
<1>5. \A f \in Fds : /\ Open(f)' <=> Open(f) \/ f = fd
                     /\ Fil(f)' = IF f = fd THEN a.fp ELSE Fil(f)
                     /\ iob'[f].name = IF f = fd THEN n ELSE iob[f].name
  BY <1>2, <1>3, <1>4 DEF Open, Fil
<1>6. FilOK(a.fp) /\ a.mounted /\ (a.fp.err = "OK" => a.fp.fptr <= a.fp.size)
  BY DEF FI, Sits
<1>7. fs'.mounted
  BY <1>6 DEF Leaves
<1>8. Streams'
  <2> SUFFICES ASSUME NEW f \in Fds, Open(f)'
               PROVE  /\ DOMAIN iob'[f] = OpenFields /\ iob'[f].name \in Names /\ FilOK(Fil(f)')
                      /\ fs'.mounted
                      /\ Fil(f)'.err = "OK" => Fil(f)'.fptr <= Fil(f)'.size
    BY DEF Streams
  <2>1. CASE f = fd
    BY <1>2, <1>4, <1>5, <1>6, <1>7, <2>1
  <2>2. CASE f # fd
    BY <1>1, <1>4, <1>5, <1>7, <2>2 DEF Streams
  <2> QED BY <2>1, <2>2
<1>9. Files' = With(io, fd, n, a.fp)
  <2> DEFINE S == {g \in Fds : Open(g) \/ g = fd}
             W == With(io, fd, n, a.fp)
  <2>1. {g \in Fds : Open(g)'} = S
    BY <1>5
  <2>2. Files' = [f \in S |-> [name |-> iob'[f].name, fil |-> Fil(f)']]
    BY <2>1 DEF Files
  <2>3. DOMAIN io \cup {fd} = S
    BY DEF Besides
  <2>4. W = [f \in S |-> IF f = fd THEN [name |-> n, fil |-> a.fp] ELSE io[f]]
    BY <2>3 DEF With
  <2>5. \A f \in S : f # fd => io[f] = [name |-> iob[f].name, fil |-> Fil(f)]
    BY DEF Besides
  <2>6. \A f \in S : f \in Fds
    OBVIOUS
  <2> HIDE DEF S, W, io
  <2>7. \A f \in S : [name |-> iob'[f].name, fil |-> Fil(f)'] =
                       IF f = fd THEN [name |-> n, fil |-> a.fp] ELSE io[f]
    BY <1>5, <2>5, <2>6
  <2> QED BY <2>2, <2>4, <2>7 DEF W
<1>10. MI(a, Shaky, {}, Files', -1)
  BY <1>9, BesidesIs, SeatedIs
<1>11. \A f \in Fds : Open(f) /\ "MODIFIED" \in Fil(f).flags => iob[f].name \in Pending'
  BY <1>5 DEF Pending
<1>12. "MODIFIED" \in a.fp.flags => n \in Pending'
  BY <1>5 DEF Pending
<1>13. \A x \in Pending : \E f \in Fds : Open(f) /\ "MODIFIED" \in Fil(f).flags /\ x = iob[f].name
  BY DEF Pending
<1>14. Pending \subseteq Pending'
  BY <1>11, <1>13
<1> QED BY <1>4, <1>8, <1>10, <1>12, <1>14

(* The descriptor taken.                                                   *)
LEMMA FreeIs ==
  ASSUME \E f \in Fds : ~Open(f)
  PROVE  LET fd == CHOOSE f \in Fds : ~Open(f) /\ \A g \in Fds : ~Open(g) => f <= g
         IN fd \in Fds /\ ~Open(fd)
<1> DEFINE S == {f \in Fds : ~Open(f)}
<1>1. S \subseteq Nat /\ S # {}
  BY Sizes
<1>2. \E f \in S : \A g \in S : f <= g
  BY <1>1, Least
<1> QED BY <1>2

LEMMA OpenFileStays ==
  ASSUME Between, ~Torn, NEW n \in Names, NEW mode, NEW left, OpenFile(n, mode, left)
  PROVE  Between'
<1> DEFINE m == Machine(None, left)
           fd == CHOOSE f \in Fds : ~Open(f) /\ \A g \in Fds : ~Open(g) => f <= g
           a == Opened(m, n, mode)
           r == [name |-> n, fil |-> a.fp, unget |-> FALSE, eof |-> FALSE,
                 seen |-> SeenFrom(a.fp.fptr)]
           x == CASE OK(a) /\ (text[n] = Absent \/ "CREATE_ALWAYS" \in mode.flags) -> <<>>
                  [] ~OK(a) /\ a.res # "NO_FILE" /\ mode.flags # {"READ"} -> Unsure
                  [] OTHER -> text[n]
<1>1. /\ ~IsOpen(n) /\ (\E f \in Fds : ~Open(f)) /\ Leaves(a, {n})
      /\ iob' = [iob EXCEPT ![fd] = IF OK(a) THEN r ELSE Closed]
      /\ text' = [text EXCEPT ![n] = x]
  BY DEF OpenFile, SetText
<1>2. fd \in Fds /\ ~Open(fd)
  BY <1>1, FreeIs
<1>3. text[n] = Unsure /\ x # Unsure => OK(a) /\ "CREATE_ALWAYS" \in mode.flags
  <2> DEFINE C == OK(a) /\ (text[n] = Absent \/ "CREATE_ALWAYS" \in mode.flags)
             D == ~OK(a) /\ a.res # "NO_FILE" /\ mode.flags # {"READ"}
  <2>1. ~(C /\ D) /\ (C /\ text[n] # Absent => OK(a) /\ "CREATE_ALWAYS" \in mode.flags)
    OBVIOUS
  <2>2. x = CASE C -> <<>> [] D -> Unsure [] OTHER -> text[n]
    OBVIOUS
  <2> HIDE DEF C, D, x
  <2>3. x \in {Unsure, text[n]} \/ C
    BY <2>1, <2>2
  <2> QED BY <2>1, <2>3, Sizes
<1> HIDE DEF fd, x, r
<1>4. MI(m, Shaky, {}, Files, -1) /\ OK(m) /\ Whole(m) /\ m.mounted = fs.mounted
  BY CallStarts
<1> HIDE DEF m
<1>5. /\ Files = Besides(fd) /\ fd \notin DOMAIN Files /\ MI(m, Shaky, {}, Files, fd)
      /\ \A f \in DOMAIN Files : Files[f].name # n
  <2>1. Files = Besides(fd) /\ fd \notin DOMAIN Files
    BY <1>2, BesidesIs
  <2>2. -1 \notin DOMAIN Files
    BY Sizes DEF Files
  <2> QED BY <1>1, <1>4, <2>1, <2>2, AnyFile DEF Files, IsOpen
<1>6. /\ m.mounted => a.mounted
      /\ \/ ~OK(a) /\ MI(a, Shaky, {}, Files, fd)
         \/ \E b : MI(b, Shaky, {}, Files, fd) /\ a = Fail(b, "NO_FILE")
         \/ /\ OK(a) /\ FI(a, Shaky, Files, fd, n) /\ Sits(a)
            /\ "CREATE_ALWAYS" \in mode.flags => "MODIFIED" \in a.fp.flags
  <2> DEFINE io == Files
             T == Shaky
  <2>1. /\ fd \notin DOMAIN io /\ MI(m, T, {}, io, fd) /\ OK(m) /\ Whole(m)
        /\ \A f \in DOMAIN io : io[f].name # n
    BY <1>4, <1>5
  <2> HIDE DEF io, T
  <2>2. OpensAs(m, a, T, io, fd, n, mode)
    BY <2>1, OpenCallIs
  <2> QED BY <2>2 DEF OpensAs, io, T
<1> HIDE DEF a
<1>7. DOMAIN text = Names /\ Shaky' = Pending' \cup Doubtful'
  BY DEF Between, Shaky, Doubtful
<1>8. /\ DOMAIN text' = Names /\ Doubtful \subseteq Doubtful' \cup {n}
      /\ ~OK(a) \/ "CREATE_ALWAYS" \notin mode.flags => Doubtful \subseteq Doubtful'
  BY <1>1, <1>3, <1>7 DEF Doubtful
<1>9. {} \subseteq Shaky' /\ {n} \subseteq Names
  OBVIOUS
<1>10. ASSUME NEW b, MI(b, Shaky, {}, Files, fd), Leaves(b, {n}), ~OK(a), b.mounted = a.mounted
       PROVE  Between'
  <2>1. iob' = [iob EXCEPT ![fd] = Closed]
    BY <1>1, <1>10
  <2>2. MI(b, Shaky, {}, Besides(fd), -1)
    BY <1>5, <1>10, AnyFile
  <2>3. fs.mounted => b.mounted
    BY <1>4, <1>6, <1>10
  <2>4. /\ MI(b, Shaky, {}, Files', -1) /\ DOMAIN iob' = Fds /\ Streams'
        /\ \A y \in Pending :
             y \in Pending' \/ (Open(fd) /\ "MODIFIED" \in Fil(fd).flags /\ y = iob[fd].name)
    BY <1>2, <1>10, <2>1, <2>2, <2>3, ShutIs
  <2>5. Shaky \subseteq Shaky'
    BY <1>2, <1>7, <1>8, <1>10, <2>4, ShakyIs
  <2> QED BY <1>8, <1>9, <1>10, <2>4, <2>5, CallEnds
<1>11. CASE ~OK(a) /\ MI(a, Shaky, {}, Files, fd)
  BY <1>1, <1>10, <1>11
<1>12. CASE \E b : MI(b, Shaky, {}, Files, fd) /\ a = Fail(b, "NO_FILE")
  <2>1. PICK b : MI(b, Shaky, {}, Files, fd) /\ a = Fail(b, "NO_FILE")
    BY <1>12
  <2>2. Leaves(b, {n}) /\ a.res = "NO_FILE" /\ a.mounted = b.mounted
    BY <1>1, <2>1, LeavesFail
  <2> QED BY <1>10, <2>1, <2>2 DEF OK
<1>13. CASE /\ OK(a) /\ FI(a, Shaky, Files, fd, n) /\ Sits(a)
            /\ "CREATE_ALWAYS" \in mode.flags => "MODIFIED" \in a.fp.flags
  <2>1. iob' = [iob EXCEPT ![fd] = [name |-> n, fil |-> a.fp, unget |-> FALSE, eof |-> FALSE,
                                     seen |-> SeenFrom(a.fp.fptr)]]
    BY <1>1, <1>13 DEF r
  <2>2. /\ MI(a, Shaky, {}, Files', -1) /\ DOMAIN iob' = Fds /\ Streams'
        /\ Pending \subseteq Pending'
        /\ "MODIFIED" \in a.fp.flags => n \in Pending'
    BY <1>1, <1>2, <1>5, <1>13, <2>1, OpensIs
  <2>3. Shaky \subseteq Shaky'
    BY <1>7, <1>8, <1>13, <2>2, ShakyIs
  <2> QED BY <1>1, <1>8, <1>9, <2>2, <2>3, CallEnds
<1> QED BY <1>6, <1>11, <1>12, <1>13

(* A card nothing has been read from.                                      *)
LEMMA BlankIs ==
  ASSUME NEW s, NEW T, NEW io, NEW cur, DOMAIN s = Fields, DOMAIN io = {}, DiskI(s.disk, T),
         s.res \in Results, s.sect = 0, s.dirty = FALSE, s.mounted = FALSE, s.free = 0,
         s.last = 0, s.fsi = FALSE, s.past = {}
  PROVE  MI(s, T, T, io, cur) /\ View(s) = s.disk
<1>1. View(s) = s.disk
  BY DEF View
<1>2. Base(s)
  <2>1. s.free \in Int /\ s.last \in Int
    OBVIOUS
  <2>2. s.dirty \in BOOLEAN /\ s.mounted \in BOOLEAN /\ s.fsi \in BOOLEAN /\ ~s.dirty
    BY Zenon
  <2> QED BY <2>1, <2>2 DEF Base
<1>3. Window(s)
  BY <1>1 DEF Window, Coherent1
<1>4. FilesIn(VL(s), VD(s), io, cur)
  BY DEF FilesIn
<1> QED BY <1>1, <1>2, <1>3, <1>4 DEF MI

LEMMA UnmountedIs ==
  ASSUME NEW d, NEW left
  PROVE  LET m == MachineOf(d, Unmounted, None, left)
         IN /\ DOMAIN m = Fields /\ m.disk = d /\ m.res = "OK" /\ m.sect = 0 /\ m.dirty = FALSE
            /\ m.mounted = FALSE /\ m.free = 0 /\ m.last = 0 /\ m.fsi = FALSE /\ m.past = {}
BY MachineIs DEF Unmounted

LEMMA BlankRests ==
  ASSUME NEW T, fs' = Unmounted, DOMAIN Files' = {}, DiskI(disk', T)
  PROVE  MI(Resting', T, T, Files', -1)
<1> DEFINE m == MachineOf(disk', Unmounted, None, Never)
           r == Resting'
<1>1. /\ DOMAIN m = Fields /\ m.disk = disk' /\ m.res = "OK" /\ m.sect = 0 /\ m.dirty = FALSE
      /\ m.mounted = FALSE /\ m.free = 0 /\ m.last = 0 /\ m.fsi = FALSE /\ m.past = {}
  BY UnmountedIs
<1>2. r = [m EXCEPT !.res = "DISK_ERR"]
  BY DEF Resting, Machine
<1> HIDE DEF m, r
<1>3. /\ DOMAIN r = Fields /\ r.disk = disk' /\ r.res \in Results /\ r.sect = 0 /\ r.dirty = FALSE
      /\ r.mounted = FALSE /\ r.free = 0 /\ r.last = 0 /\ r.fsi = FALSE /\ r.past = {}
  BY <1>1, <1>2 DEF Fields, Results
<1>4. DiskI(r.disk, T)
  BY <1>3
<1>5. MI(r, T, T, Files', -1)
  BY <1>3, <1>4, BlankIs
<1> QED BY <1>5 DEF r

(* A power cut: what the last call left, or had made of the card.          *)
LEMMA CutStays ==
  ASSUME Between, Cut
  PROVE  Between'
<1>1. PICK w \in ({disk} \X {{}}) \cup (past \X {busy}) :
        /\ disk' = w[1] /\ busy' = w[2]
        /\ text' = [n \in Names |-> IF n \in Pending \cup w[2] THEN Unsure ELSE text[n]]
  BY DEF Cut
<1>2. fs' = Unmounted /\ iob' = [fd \in Fds |-> Closed] /\ past' = {}
  BY DEF Cut
<1>3. DiskI(disk, Shaky)
  BY RestingIs DEF Between, MI
<1>4. w[2] \subseteq Names /\ DiskI(disk', Shaky \cup w[2])
  <2>1. CASE w \in {disk} \X {{}}
    <3>1. disk' = disk /\ w[2] = {}
      BY <1>1, <2>1
    <3>2. Shaky \cup w[2] = Shaky
      BY <3>1
    <3> QED BY <1>3, <3>1, <3>2
  <2>2. CASE w \in past \X {busy}
    BY <1>1, <2>2 DEF Between
  <2> QED BY <1>1, <2>1, <2>2
<1>5. \A f \in Fds : ~Open(f)'
  BY <1>2 DEF Open, Closed
<1>6. DOMAIN iob' = Fds /\ DOMAIN text' = Names /\ Streams'
  BY <1>1, <1>2, <1>5 DEF Streams
<1>7. DOMAIN Files' = {}
  BY <1>5 DEF Files
<1>8. Shaky \cup w[2] \subseteq Shaky'
  <2>1. \A n \in Names : n \in Pending \cup Doubtful \cup w[2] => text'[n] = Unsure
    BY <1>1 DEF Doubtful
  <2>2. Shaky \cup w[2] \subseteq Names /\ Shaky = Pending \cup Doubtful
    BY <1>4, ShakyIs
  <2> QED BY <2>1, <2>2 DEF Shaky
<1>9. DiskI(disk', Shaky')
  BY <1>4, <1>8, TreeWider DEF DiskI
<1>10. MI(Resting', Shaky', Shaky', Files', -1)
  BY <1>2, <1>7, <1>9, BlankRests
<1> QED BY <1>1, <1>2, <1>4, <1>6, <1>10 DEF Between

LEMMA Links0 ==
  /\ DOMAIN Formatted = Sectors
  /\ \A c \in Clusters : Formatted[FatSec(c)] =
       [b \in {x \in 0 .. TopCluster : FatSec(x) = FatSec(c)} |-> IF b <= Root THEN Eoc ELSE 0]
  /\ Formatted[Root] = EmptyDir /\ \A c \in Clusters : c # Root => Formatted[c] = Zeros
  /\ Formatted[InfoSec] = [free |-> Cardinality(Clusters) - 1, last |-> Root]
<1>1. DOMAIN Formatted = Sectors
  BY DEF Formatted, Sectors, FatSecs
<1>2. \A n \in Sectors : Formatted[n] =
       IF n = InfoSec THEN [free |-> Cardinality(Clusters) - 1, last |-> Root]
       ELSE IF n = Root THEN EmptyDir
       ELSE IF n \in Clusters THEN Zeros
       ELSE [c \in {x \in 0 .. TopCluster : FatSec(x) = n} |-> IF c <= Root THEN Eoc ELSE 0]
  BY DEF Formatted, Sectors, FatSecs
<1>3. /\ InfoSec \in Sectors /\ Root \in Clusters /\ Clusters \subseteq Sectors /\ InfoSec \notin Clusters
      /\ \A c \in Clusters : FatSec(c) \in Sectors /\ FatSec(c) \notin Clusters /\ FatSec(c) # InfoSec
  BY SectorNumbers, Numbers DEF Sectors
<1> QED BY <1>1, <1>2, <1>3

LEMMA LinkAt ==
  \A c \in Clusters : /\ c \in DOMAIN Formatted[FatSec(c)]
                      /\ Formatted[FatSec(c)][c] = IF c <= Root THEN Eoc ELSE 0
<1> SUFFICES ASSUME NEW c \in Clusters
             PROVE  /\ c \in DOMAIN Formatted[FatSec(c)]
                    /\ Formatted[FatSec(c)][c] = IF c <= Root THEN Eoc ELSE 0
  OBVIOUS
<1> DEFINE S == {x \in 0 .. TopCluster : FatSec(x) = FatSec(c)}
<1>1. c \in 0 .. TopCluster
  BY Numbers
<1>2. c \in S
  BY <1>1
<1>3. Formatted[FatSec(c)] = [b \in S |-> IF b <= Root THEN Eoc ELSE 0]
  BY Links0
<1> HIDE DEF S
<1> QED BY <1>2, <1>3

LEMMA FormattedIs ==
  /\ DiskI(Formatted, {})
  /\ DOMAIN Dir(Formatted) = Chain(Links(Formatted), Root)
<1> DEFINE L == Links(Formatted)
           D == Dir(Formatted)
<1>1. Cardinality(Clusters) \in Nat
  BY Numbers, FS_Interval DEF Clusters
<1>2. Shape(Formatted)
  <2>1. \A c \in Clusters : c \in DOMAIN Formatted[FatSec(c)]
    BY LinkAt
  <2>2. DOMAIN EmptyDir = 1 .. DirPerSector /\ DOMAIN Zeros = 0 .. SS - 1
    BY DEF EmptyDir, Zeros
  <2>3. \A c \in Clusters : DOMAIN Formatted[c] \in {0 .. SS - 1, 1 .. DirPerSector}
    BY <2>2, Links0
  <2>4. Formatted[InfoSec].free \in Int /\ Formatted[InfoSec].last \in Int
    BY <1>1, Links0, Numbers
  <2> QED BY <2>1, <2>3, <2>4, Links0 DEF Shape
<1>3. DOMAIN L = Clusters /\ \A c \in Clusters : L[c] = IF c = Root THEN Eoc ELSE 0
  <2>1. DOMAIN L = Clusters /\ \A c \in Clusters : L[c] = Formatted[FatSec(c)][c]
    BY DEF Links
  <2>2. \A c \in Clusters : Formatted[FatSec(c)][c] = IF c <= Root THEN Eoc ELSE 0
    BY LinkAt
  <2> HIDE DEF L
  <2> QED BY <2>1, <2>2, Numbers
<1>4. Slots(Formatted) = {Root}
  <2>1. \A c : c \in Slots(Formatted) <=> c = Root
    BY Links0, SectorNumbers, Numbers DEF Slots, EmptyDir, Zeros
  <2> QED BY <2>1
<1>5. DOMAIN D = {Root} /\ D[Root] = EmptyDir
  BY <1>4, Links0 DEF Dir
<1> HIDE DEF L, D
<1>6. \A i \in 1 .. DirPerSector : D[Root][i] = NoEntry
  BY <1>5 DEF EmptyDir
<1>7. Live(D) = {}
  BY <1>5, <1>6, NoneAssumption DEF Live, At, Places, NoEntry
<1>8. Wired(L)
  <2>1. L \in LinkFcns
    <3>1. \A c \in Clusters : L[c] \in Clusters \cup {0, Eoc}
      BY <1>3
    <3>2. L = [c \in Clusters |-> L[c]]
      BY <1>3 DEF L, Links
    <3> QED BY <3>1, <3>2 DEF LinkFcns
  <2>2. \A c \in Clusters : L[c] \notin Clusters
    BY <1>3, Numbers
  <2>3. L[Root] # 0
    BY <1>3, Numbers
  <2> QED BY <2>1, <2>2, <2>3, Numbers DEF Wired, Apart, First
<1>9. Chain(L, Root) = {Root}
  <2>1. {Root} \in SUBSET Clusters /\ Follows(L, {Root}) /\ Root \in {Root}
    BY <1>3, Numbers DEF Follows
  <2> QED BY <2>1, ChainIs, Numbers
<1>10. DirShape(L, D)
  <2>1. NoEntry \in Entries
    BY Numbers DEF NoEntry, Entries
  <2>2. EmptyDir \in [1 .. DirPerSector -> Entries]
    BY <2>1 DEF EmptyDir
  <2> QED BY <1>5, <1>9, <2>2 DEF DirShape
<1>11. Filled(L, D)
  BY <1>3, <1>5, <1>6, Numbers DEF Filled, NoEntry
<1>12. TreeI(L, D, {})
  BY <1>7, <1>8, <1>10, <1>11 DEF TreeI, Single
<1> QED BY <1>2, <1>5, <1>9, <1>12 DEF DiskI, L, D

(* The card with a file made on it.                                        *)
LEMMA WithFileIs ==
  ASSUME NEW n \in Names, NEW t \in Before
  PROVE  DiskI(WithFile(n, t), {})
<1> DEFINE m  == MachineOf(Formatted, Unmounted, None, Never)
           io == [f \in {} |-> 0]
           mode == {"WRITE", "CREATE_ALWAYS"}
           o  == Fopen(m, n, mode)
           w  == Fwrite(o, t)
           x  == Then(o, LAMBDA a : Fwrite(a, t))
           y  == Then(x, Fsync)
           z  == Fsync(w)
<1>1. /\ DOMAIN m = Fields /\ m.disk = Formatted /\ m.res = "OK" /\ m.sect = 0 /\ m.dirty = FALSE
      /\ m.mounted = FALSE /\ m.free = 0 /\ m.last = 0 /\ m.fsi = FALSE /\ m.past = {}
  BY UnmountedIs
<1>2. WithFile(n, t) = y.disk
  BY DEF WithFile
<1>3. x = IF OK(o) THEN w ELSE o
  BY DEF Then
<1>4. y = IF OK(x) THEN Fsync(x) ELSE x
  BY DEF Then
<1>5. DOMAIN io = {}
  OBVIOUS
<1> HIDE DEF m, io, x, y
<1>6. m.res \in Results /\ DiskI(m.disk, {})
  BY <1>1, FormattedIs DEF Results
<1>7. MI(m, {}, {}, io, 0) /\ View(m) = Formatted
  BY <1>1, <1>5, <1>6, BlankIs
<1>8. Whole(m) /\ OK(m)
  BY <1>1, <1>7, FormattedIs DEF Whole, VD, VL, OK
<1>9. 0 \notin DOMAIN io /\ \A f \in DOMAIN io : io[f].name # n
  BY <1>5
<1>10. \/ ~OK(o) /\ MI(o, {}, {}, io, 0)
       \/ \E b : MI(b, {}, {}, io, 0) /\ o = Fail(b, "NO_FILE")
       \/ /\ OK(o) /\ FI(o, {}, io, 0, n) /\ o.fp.fptr = 0 /\ o.fp.err = "OK"
          /\ Placed(VL(o), o.fp) /\ ("CREATE_ALWAYS" \in mode => "MODIFIED" \in o.fp.flags)
  BY <1>7, <1>8, <1>9, FopenIs
<1> HIDE DEF o
<1>11. CASE ~OK(o) /\ MI(o, {}, {}, io, 0)
  BY <1>2, <1>3, <1>4, <1>11 DEF MI
<1>12. CASE \E b : MI(b, {}, {}, io, 0) /\ o = Fail(b, "NO_FILE")
  <2>1. PICK b : MI(b, {}, {}, io, 0) /\ o = Fail(b, "NO_FILE")
    BY <1>12
  <2>2. o.res = "NO_FILE" /\ o.disk = b.disk
    BY <2>1 DEF MI, Base, Fail, Fields
  <2> QED BY <1>2, <1>3, <1>4, <2>1, <2>2 DEF MI, OK
<1>13. CASE OK(o) /\ FI(o, {}, io, 0, n) /\ o.fp.fptr = 0 /\ Placed(VL(o), o.fp)
  <2>1. FilesIn(VL(o), VD(o), With(io, 0, n, o.fp), 0)
    BY <1>13 DEF FI, MI
  <2>2. FileIn(VL(o), VD(o), o.fp, n)
    BY <1>9, <2>1, WithHas
  <2>3. Sits(o)
    BY <1>13, <2>2 DEF Sits, FileIn
  <2>4. t \in Seq(0 .. 255)
    BY Sizes
  <2>5. FI(w, {}, io, 0, n) /\ Sits(w)
    BY <1>9, <1>13, <2>3, <2>4, FwriteIs
  <2> HIDE DEF w
  <2>6. OK(w) => FI(z, {}, io, 0, n)
    BY <1>9, <2>5, FsyncIs
  <2>7. x = w /\ y = IF OK(w) THEN z ELSE w
    BY <1>3, <1>4, <1>13
  <2> HIDE DEF z
  <2>8. FI(y, {}, io, 0, n)
    BY <2>5, <2>6, <2>7
  <2> QED BY <1>2, <2>8 DEF FI, MI
<1> QED BY <1>10, <1>11, <1>12, <1>13

(***************************************************************************)
(* The theorems.                                                           *)
(***************************************************************************)
LEMMA InitBetween == Init => Between
<1> SUFFICES ASSUME Init PROVE Between
  OBVIOUS
<1>1. fs = Unmounted /\ iob = [fd \in Fds |-> Closed] /\ past = {} /\ busy = {}
  BY DEF Init
<1>2. DOMAIN text = Names
  BY DEF Init
<1>3. DiskI(disk, {})
  BY FormattedIs, WithFileIs DEF Init
<1>4. DiskI(disk, Shaky)
  BY <1>3, TreeWider DEF DiskI
<1>5. \A f \in Fds : ~Open(f)
  BY <1>1 DEF Open, Closed
<1>6. DOMAIN iob = Fds /\ Streams
  BY <1>1, <1>5 DEF Streams
<1>7. DOMAIN Files = {}
  BY <1>5 DEF Files
<1>8. /\ DOMAIN Resting = Fields /\ Resting.disk = disk /\ Resting.sect = 0
      /\ Resting.dirty = FALSE /\ Resting.mounted = FALSE /\ Resting.free = 0
      /\ Resting.last = 0 /\ Resting.fsi = FALSE /\ Resting.res \in Results /\ Resting.past = {}
  BY <1>1, RestingIs DEF Unmounted, Results
<1>9. DiskI(Resting.disk, Shaky)
  BY <1>4, <1>8
<1>10. MI(Resting, Shaky, Shaky, Files, -1)
  BY <1>7, <1>8, <1>9, BlankIs
<1> QED BY <1>1, <1>2, <1>6, <1>10 DEF Between

LEMMA CallStays ==
  ASSUME Between, Call
  PROVE  Between'
<1>1. ~Torn
  BY DEF Call
<1>2. PICK left \in Failures :
    \/ \E n \in Names, mode \in Modes : OpenFile(n, mode, left)
    \/ \E n \in Names : Unlink(n, left)
    \/ \E m, n \in Names : Rename(m, n, left)
    \/ \E fd \in Fds :
         \/ Close(fd, left) \/ Syncfs(fd, left) \/ Fgetc(fd, left) \/ Fgets(fd, left)
         \/ \E n \in 1 .. MaxSize : Read(fd, n, left)
         \/ \E t \in Texts : Write(fd, t, left) \/ Fputs(fd, t, left)
         \/ \E p \in Offsets : Lseek(fd, p, left)
  BY DEF Call
<1>3. CASE \E n \in Names, mode \in Modes : OpenFile(n, mode, left)
  BY <1>1, <1>3, OpenFileStays
<1>4. CASE \E n \in Names : Unlink(n, left)
  BY <1>1, <1>4, UnlinkStays
<1>5. CASE \E m, n \in Names : Rename(m, n, left)
  BY <1>1, <1>5, RenameStays
<1>6. ASSUME NEW fd \in Fds,
             \/ Close(fd, left) \/ Syncfs(fd, left) \/ Fgetc(fd, left) \/ Fgets(fd, left)
             \/ \E n \in 1 .. MaxSize : Read(fd, n, left)
             \/ \E t \in Texts : Write(fd, t, left) \/ Fputs(fd, t, left)
             \/ \E p \in Offsets : Lseek(fd, p, left)
      PROVE  Between'
  <2>1. CASE Close(fd, left)
    BY <1>1, <2>1, CloseStays
  <2>2. CASE Syncfs(fd, left)
    BY <1>1, <2>2, SyncfsStays
  <2>3. CASE Fgetc(fd, left)
    BY <1>1, <2>3, FgetcStays
  <2>4. CASE Fgets(fd, left)
    BY <1>1, <2>4, FgetsStays
  <2>5. CASE \E n \in 1 .. MaxSize : Read(fd, n, left)
    <3>1. \A n \in 1 .. MaxSize : n \in Nat
      OBVIOUS
    <3> QED BY <1>1, <2>5, <3>1, ReadStays
  <2>6. CASE \E t \in Texts : Write(fd, t, left) \/ Fputs(fd, t, left)
    BY <1>1, <2>6, WriteStays, FputsStays
  <2>7. CASE \E p \in Offsets : Lseek(fd, p, left)
    BY <1>1, <2>7, LseekStays
  <2> QED BY <1>6, <2>1, <2>2, <2>3, <2>4, <2>5, <2>6, <2>7
<1> QED BY <1>2, <1>3, <1>4, <1>5, <1>6

(* The inductive invariant, for every geometry of the volume, every set of *)
(* names, descriptors, texts and failures: between calls the card, and the *)
(* card with the window put back, is a tree of chains no two files share,  *)
(* and every open file knows its own.                                      *)
THEOREM Safety == Spec => []Between
<1>1. Between /\ [Next]_vars => Between'
  <2> SUFFICES ASSUME Between, [Next]_vars PROVE Between'
    OBVIOUS
  <2>1. CASE Call
    BY <2>1, CallStays
  <2>2. CASE Cut
    BY <2>2, CutStays
  <2>3. CASE UNCHANGED vars
    BY <2>3 DEF vars, Between, Streams, Open, Fil, Files, Resting, Machine, Shaky, Pending
  <2> QED BY <2>1, <2>2, <2>3 DEF Next
<1> QED BY <1>1, InitBetween, PTL DEF Spec

(* No file on the card leads through a free cluster, or through one of     *)
(* another file or of the directory, and each chain is as long as its file *)
(* - at every moment of every call, whatever fails and whenever the power  *)
(* goes.                                                                   *)
THEOREM CardSound == Spec => []Sound
<1>1. Between => Sound
  <2> SUFFICES ASSUME Between PROVE Sound
    OBVIOUS
  <2>1. DiskI(disk, Shaky)
    BY RestingIs DEF Between, MI
  <2>2. \A d \in past : DiskI(d, Shaky \cup busy)
    BY DEF Between
  <2> QED BY <2>1, <2>2, SoundIs DEF Sound
<1> QED BY <1>1, Safety, PTL
=============================================================================
