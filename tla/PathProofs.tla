------------------------------ MODULE PathProofs ------------------------------
(* That a metadata cache refreshed to the last change has every item that   *)
(* is there at its path, and that no two items are cached at one path, in   *)
(* whatever order folders are moved, renamed, replaced and removed and      *)
(* whatever rounds, listings and answers are put over one another, as long  *)
(* as nothing was cached out of order.                                      *)
(*                                                                          *)
(* One element written to the cache moves, hides and reveals paths: what    *)
(* is below it follows, what was at its path goes with all below it, and    *)
(* the passes give paths to what was waiting. Items that make a tree, each  *)
(* in another by its path as by its parent, still do (PassesTree). A batch  *)
(* is such writes one after the other, and what is in its place stays in    *)
(* its place if folders come before what is in them (PutAllOrdered), or if  *)
(* all that is there is cached already (PutAllLive). That keeps the cache   *)
(* as it has to be (WritePaths), and each call keeps what it holds so that  *)
(* its write will, too.                                                     *)
EXTENDS CacheProofs

------------------------------------------------------------------------------
(* What goes with an item that goes.                                        *)

(* What holds of 0 and of the next number holds up to any number.           *)
LEMMA UpTo ==
  ASSUME NEW N \in Nat, NEW G, 0 \in G, \A m \in 1 .. N : m - 1 \in G => m \in G
  PROVE  \A n \in 0 .. N : n \in G
<1> SUFFICES ASSUME NEW n \in 0 .. N, n \notin G PROVE FALSE
  OBVIOUS
<1> DEFINE Bad == {k \in 0 .. N : k \notin G}
<1>1. PICK m \in Bad : \A k \in Nat : k < m => k \notin Bad
  <2>1. n \in Bad /\ Bad \subseteq Nat
    OBVIOUS
  <2> HIDE DEF Bad
  <2> QED BY <2>1, LeastNat
<1>2. m \in 1 .. N /\ m - 1 \in 0 .. N /\ m - 1 \in Nat /\ m - 1 < m
  <2>1. m # 0
    BY <1>1
  <2> QED BY <1>1, <2>1
<1> QED BY <1>1, <1>2

LEMMA DescendantsGrown ==
  ASSUME NEW items, NEW i, NEW path, Cardinality(DOMAIN items) \in Nat
  PROVE  \E grown : /\ IsGrown(items, i, path, grown, Cardinality(DOMAIN items))
                    /\ Descendants(items, i, path) = grown[Cardinality(DOMAIN items)]
<1> DEFINE N == Cardinality(DOMAIN items)
           step(f) == [n \in 0 .. N |->
                         IF n = 0 THEN {i} ELSE f[n - 1] \cup Near(items, path, f[n - 1])]
           grown == CHOOSE f : f = step(f)
<1>1. Descendants(items, i, path) = grown[N]
  BY DEF Descendants, Near
<1>2. PICK g : IsGrown(items, i, path, g, N)
  BY GrownExists
<1>3. g = step(g)
  BY <1>2 DEF IsGrown, GrowStep
<1>4. grown = step(grown)
  BY <1>3
<1> HIDE DEF grown
<1>5. IsGrown(items, i, path, grown, N)
  BY <1>4 DEF IsGrown, GrowStep
<1> QED BY <1>1, <1>5

LEMMA DescendantsWithin ==
  ASSUME NEW items, NEW i, NEW path, Cardinality(DOMAIN items) \in Nat,
         NEW U, i \in U, Near(items, path, U) \subseteq U
  PROVE  Descendants(items, i, path) \subseteq U
<1> DEFINE N == Cardinality(DOMAIN items)
<1>1. PICK grown : IsGrown(items, i, path, grown, N) /\ Descendants(items, i, path) = grown[N]
  BY DescendantsGrown
<1> HIDE DEF N
<1>2. N \in Nat
  BY DEF N
<1>3. \A n \in 0 .. N : grown[n] = GrowStep(items, i, path, grown, n)
  BY <1>1 DEF IsGrown
<1> DEFINE G == {n \in Nat : grown[n] \subseteq U}
<1>4. 0 \in G
  <2>1. grown[0] = {i}
    <3>1. 0 \in 0 .. N
      BY <1>2
    <3> QED BY <1>3, <3>1 DEF GrowStep
  <2> QED BY <2>1
<1>5. \A m \in 1 .. N : m - 1 \in G => m \in G
  <2> SUFFICES ASSUME NEW m \in 1 .. N, m - 1 \in G PROVE grown[m] \subseteq U
    OBVIOUS
  <2>1. grown[m] = grown[m - 1] \cup Near(items, path, grown[m - 1])
    <3>1. m \in 0 .. N /\ m # 0
      BY <1>2
    <3> HIDE DEF G
    <3> QED BY <1>3, <3>1 DEF GrowStep
  <2>2. grown[m - 1] \subseteq U
    OBVIOUS
  <2>3. Near(items, path, grown[m - 1]) \subseteq Near(items, path, U)
    BY <2>2 DEF Near
  <2> QED BY <2>1, <2>2, <2>3
<1> HIDE DEF G
<1>6. N \in G
  BY <1>2, <1>4, <1>5, UpTo
<1> QED BY <1>1, <1>6 DEF G

LEMMA DescendantsAt ==
  ASSUME DriveAssumption, NEW items, DOMAIN items \subseteq Item, NEW i, NEW path,
         NEW k \in DOMAIN items, path # NoPath, items[k].path # NoPath,
         items[k].path = path \/ Below(path, items[k].path)
  PROVE  k \in Descendants(items, i, path)
<1> DEFINE N == Cardinality(DOMAIN items)
<1>1. IsFiniteSet(DOMAIN items) /\ N \in Nat /\ N # 0
  <2>1. IsFiniteSet(DOMAIN items)
    BY FS_Subset DEF DriveAssumption
  <2> QED BY <2>1, FS_CardinalityType, FS_EmptySet
<1>2. PICK grown : IsGrown(items, i, path, grown, N) /\ Descendants(items, i, path) = grown[N]
  BY <1>1, DescendantsGrown
<1> HIDE DEF N
<1>3. \A n \in 0 .. N : grown[n] = GrowStep(items, i, path, grown, n)
  BY <1>2 DEF IsGrown
<1>4. \A s : k \in Near(items, path, s)
  BY DEF Near, Below, NoPath
<1>5. N \in 0 .. N /\ N # 0
  BY <1>1
<1>6. grown[N] = grown[N - 1] \cup Near(items, path, grown[N - 1])
  BY <1>3, <1>5 DEF GrowStep
<1> QED BY <1>2, <1>4, <1>6
------------------------------------------------------------------------------
(* Cached items with their paths.                                           *)
PathKind(p) == p = NoPath \/ (p \in Seq(Name) /\ p # <<>>)

Typed(items) ==
  /\ DOMAIN items \subseteq Item
  /\ \A i \in DOMAIN items :
       /\ Carries(items[i], {"name", "parent", "path"})
       /\ items[i].name \in Name /\ items[i].parent \in Folder \cup {Root}
       /\ PathKind(items[i].path)

(* Items of a cache that make a tree: each is in another of them, or at the *)
(* root, by its path as by its parent, and no two have one path.            *)
Hangs(items, H, i) ==
  /\ items[i].parent \in H \cup {Root}
  /\ items[i].path = Append(cachedParentRemotePath(items, items[i].parent), items[i].name)

Tree(items, H) ==
  /\ H \subseteq DOMAIN items
  /\ \A i \in H : items[i].path # NoPath /\ Hangs(items, H, i)
  /\ \A i, j \in H : items[i].path = items[j].path => i = j

AtOrBelow(p, q) == q = p \/ Below(p, q)

LEMMA NoneBelowEmpty == ASSUME NEW p \in Seq(Name) PROVE ~Below(p, <<>>)
<1>1. Len(<<>>) = 0 /\ Len(p) \in Nat
  BY EmptySeq, LenProperties
<1> QED BY <1>1 DEF Below

LEMMA NotBelowItself ==
  ASSUME NEW p \in Seq(Name), NEW q \in Seq(Name), Below(p, q)
  PROVE  p # q /\ q # <<>> /\ ~Below(q, p)
<1>1. Len(p) \in Nat /\ Len(q) \in Nat /\ Len(<<>>) = 0
  BY EmptySeq, LenProperties
<1> QED BY <1>1 DEF Below

LEMMA BelowNext ==
  \A p, q \in Seq(Name) : \A x \in Name :
    /\ Append(q, x) \in Seq(Name) /\ Append(q, x) # <<>> /\ ~AtOrBelow(Append(q, x), q)
    /\ Below(p, Append(q, x)) <=> AtOrBelow(p, q)
<1> SUFFICES ASSUME NEW p \in Seq(Name), NEW q \in Seq(Name), NEW x \in Name
             PROVE  /\ Append(q, x) \in Seq(Name) /\ Append(q, x) # <<>> /\ ~AtOrBelow(Append(q, x), q)
                    /\ Below(p, Append(q, x)) <=> AtOrBelow(p, q)
  OBVIOUS
<1>1. Append(q, x) \in Seq(Name) /\ Append(q, x) # <<>> /\ Append(q, x) # q
  BY AppendNotEmpty
<1>2. Below(p, Append(q, x)) <=> AtOrBelow(p, q)
  BY BelowAppend DEF AtOrBelow
<1>3. Below(q, Append(q, x))
  BY BelowAppend
<1>4. ~Below(Append(q, x), q)
  <2> DEFINE a == Append(q, x)
  <2>1. a \in Seq(Name) /\ Below(q, a)
    BY <1>1, <1>3
  <2> HIDE DEF a
  <2>2. ~Below(a, q)
    BY <2>1, NotBelowItself
  <2> QED BY <2>2 DEF a
<1> QED BY <1>1, <1>2, <1>4 DEF AtOrBelow

(* The parent of an item in a tree.                                         *)
LEMMA ParentIs ==
  ASSUME DriveAssumption, NEW items, NEW H, Typed(items), Tree(items, H), NEW i \in H
  PROVE  LET up == cachedParentRemotePath(items, items[i].parent) IN
         /\ up \in Seq(Name) /\ items[i].name \in Name
         /\ items[i].path \in Seq(Name) /\ items[i].path # <<>>
         /\ items[i].path = Append(up, items[i].name)
         /\ \A p \in Seq(Name) : Below(p, items[i].path) <=> AtOrBelow(p, up)
         /\ \/ items[i].parent = Root /\ up = <<>>
            \/ /\ items[i].parent \in H /\ items[i].parent \in Folder /\ items[i].parent # Root
               /\ up = items[items[i].parent].path /\ up # <<>>
<1> DEFINE p == items[i].parent
           up == cachedParentRemotePath(items, p)
<1>1. p \in H \cup {Root} /\ items[i].path = Append(up, items[i].name) /\ items[i].name \in Name
  BY DEF Tree, Hangs, Typed
<1>4. ASSUME up \in Seq(Name)
      PROVE  /\ items[i].path \in Seq(Name) /\ items[i].path # <<>>
             /\ \A q \in Seq(Name) : Below(q, items[i].path) <=> AtOrBelow(q, up)
  <2> DEFINE x == items[i].name
  <2> HIDE DEF up, x
  <2>1. x \in Name /\ items[i].path = Append(up, x)
    BY <1>1 DEF x
  <2>2. /\ Append(up, x) \in Seq(Name) /\ Append(up, x) # <<>>
        /\ \A q \in Seq(Name) : Below(q, Append(up, x)) <=> AtOrBelow(q, up)
    BY <1>4, <2>1, BelowNext
  <2> QED BY <2>1, <2>2
<1> DEFINE Result ==
             /\ up \in Seq(Name) /\ items[i].name \in Name
             /\ items[i].path \in Seq(Name) /\ items[i].path # <<>>
             /\ items[i].path = Append(up, items[i].name)
             /\ \A q \in Seq(Name) : Below(q, items[i].path) <=> AtOrBelow(q, up)
             /\ \/ p = Root /\ up = <<>>
                \/ p \in H /\ p \in Folder /\ p # Root /\ up = items[p].path /\ up # <<>>
<1>2. ASSUME p = Root PROVE Result
  <2>1. up = <<>>
    BY <1>2 DEF cachedParentRemotePath, Root
  <2>2. up \in Seq(Name)
    BY <2>1
  <2> HIDE DEF up, p
  <2> QED BY <1>1, <1>2, <1>4, <2>1, <2>2
<1>3. ASSUME p # Root PROVE Result
  <2>1. p \in H /\ p \in DOMAIN items /\ p \in Folder
    BY <1>1, <1>3 DEF Tree, Typed
  <2>2. up = items[p].path
    BY <1>3, <2>1 DEF cachedParentRemotePath, Root
  <2>3. up \in Seq(Name) /\ up # <<>>
    BY <2>1, <2>2 DEF Tree, Typed, PathKind
  <2> HIDE DEF up, p
  <2> QED BY <1>1, <1>3, <1>4, <2>1, <2>2, <2>3
<1>5. Result
  BY <1>2, <1>3
<1> HIDE DEF AtOrBelow
<1> QED BY <1>5

(* Above the path of an item in a tree is always another.                   *)
LEMMA AboveInTree ==
  ASSUME DriveAssumption, NEW items, NEW H, Typed(items), Tree(items, H),
         NEW i \in H, NEW p \in Seq(Name), p # <<>>, Below(p, items[i].path)
  PROVE  \E a \in H : items[a].path = p
<1> SUFFICES ASSUME \A a \in H : items[a].path # p
             PROVE  FALSE
  OBVIOUS
<1> DEFINE S == {j \in H : Below(p, items[j].path)}
           L == {Len(items[j].path) : j \in S}
<1>1. \A j \in S : items[j].path \in Seq(Name)
  BY ParentIs
<1>2. L \subseteq Nat /\ L # {}
  <2>1. i \in S /\ \A j \in S : Len(items[j].path) \in Nat
    BY <1>1, LenProperties
  <2> HIDE DEF S
  <2> QED BY <2>1
<1>3. PICK m \in L : \A k \in Nat : k < m => k \notin L
  <2> HIDE DEF L
  <2> QED BY <1>2, LeastNat
<1>4. PICK j \in S : m = Len(items[j].path)
  BY <1>3
<1> DEFINE b  == items[j].parent
           up == cachedParentRemotePath(items, b)
<1>5. /\ up \in Seq(Name) /\ items[j].name \in Name /\ items[j].path = Append(up, items[j].name)
      /\ up = p \/ Below(p, up)
      /\ (b = Root /\ up = <<>>) \/ (b \in H /\ up = items[b].path)
  BY <1>4, ParentIs DEF AtOrBelow
<1> HIDE DEF up, b, S
<1>6. up # <<>>
  BY <1>5, NoneBelowEmpty
<1>7. b \in S /\ up = items[b].path
  BY <1>5, <1>6 DEF S
<1>8. Len(up) \in Nat /\ m = Len(up) + 1
  BY <1>4, <1>5, AppendProperties, LenProperties
<1>9. Len(up) \in L
  BY <1>7
<1> HIDE DEF L
<1> QED BY <1>3, <1>8, <1>9

(* Of a tree, an item that goes takes what is at or below its path, and     *)
(* nothing else; the rest is a tree.                                        *)
LEMMA GoneFromTree ==
  ASSUME DriveAssumption, NEW items, NEW H, Typed(items), Tree(items, H), NEW i \in Item,
         NEW path, path = NoPath \/ path \in Seq(Name), i \in H => items[i].path = path
  PROVE  \A h \in H : h \in Descendants(items, i, path)
                        <=> path # NoPath /\ AtOrBelow(path, items[h].path)
<1> DEFINE U == (DOMAIN items \ H) \cup {i}
                \cup {h \in H : path # NoPath /\ AtOrBelow(path, items[h].path)}
<1>1. Cardinality(DOMAIN items) \in Nat
  BY ItemsFinite DEF Typed
<1>2. Near(items, path, U) \subseteq U
  <2> SUFFICES ASSUME NEW j \in H, j \in Near(items, path, U)
               PROVE  path # NoPath /\ AtOrBelow(path, items[j].path)
    BY DEF Near
  <2> DEFINE b  == items[j].parent
             up == cachedParentRemotePath(items, b)
  <2>1. CASE path # NoPath /\ AtOrBelow(path, items[j].path)
    BY <2>1
  <2>2. CASE b \in U
    <3>1. /\ \A p \in Seq(Name) : Below(p, items[j].path) <=> AtOrBelow(p, up)
          /\ b = Root \/ (b \in H /\ up = items[b].path)
      BY ParentIs
    <3>2. b # Root
      <4>1. U \subseteq Item /\ Root \notin Item
        BY DriveAssumption DEF Typed, Tree, DriveAssumption
      <4> QED BY <2>2, <4>1
    <3>3. b \in H /\ up = items[b].path /\ up # NoPath
      BY <3>1, <3>2 DEF Tree
    <3> HIDE DEF up, b
    <3>4. path # NoPath /\ AtOrBelow(path, up)
      BY <2>2, <3>3 DEF AtOrBelow
    <3>5. path \in Seq(Name)
      BY <3>4
    <3> QED BY <3>1, <3>4, <3>5 DEF AtOrBelow
  <2>3. j \in Near(items, path, U) => b \in U \/ (path # NoPath /\ AtOrBelow(path, items[j].path))
    BY DEF Near, AtOrBelow, Below, NoPath
  <2> QED BY <2>1, <2>2, <2>3
<1>3. Descendants(items, i, path) \subseteq U
  <2> HIDE DEF U
  <2>1. i \in U
    BY DEF U
  <2> QED BY <1>1, <1>2, <2>1, DescendantsWithin
<1>4. ASSUME NEW h \in H, h \in Descendants(items, i, path)
      PROVE  path # NoPath /\ AtOrBelow(path, items[h].path)
  <2>1. h \in U
    BY <1>3, <1>4
  <2> QED BY <2>1 DEF Tree, AtOrBelow
<1>5. ASSUME NEW h \in H, path # NoPath, AtOrBelow(path, items[h].path)
      PROVE  h \in Descendants(items, i, path)
  <2>1. h \in DOMAIN items /\ items[h].path # NoPath /\ DOMAIN items \subseteq Item
    BY DEF Tree, Typed
  <2> QED BY <1>5, <2>1, DescendantsAt DEF AtOrBelow
<1> QED BY <1>4, <1>5

Less(items, lost) == Restrict(items, DOMAIN items \ lost)

LEMMA LessIs ==
  ASSUME NEW items, NEW lost
  PROVE  /\ DOMAIN Less(items, lost) = DOMAIN items \ lost
         /\ \A j \in DOMAIN Less(items, lost) : Less(items, lost)[j] = items[j]
BY DEF Less, Restrict

LEMMA LessTree ==
  ASSUME DriveAssumption, NEW items, NEW H, Typed(items), Tree(items, H), NEW i \in Item,
         NEW path, path = NoPath \/ path \in Seq(Name), i \in H => items[i].path = path
  PROVE  LET lost == Descendants(items, i, path) \cap DOMAIN items
         IN  Typed(Less(items, lost)) /\ Tree(Less(items, lost), H \ lost)
<1> DEFINE lost == Descendants(items, i, path) \cap DOMAIN items
           less == Less(items, lost)
<1>1. \A h \in H : h \in lost <=> path # NoPath /\ AtOrBelow(path, items[h].path)
  BY GoneFromTree DEF Tree
<1>2. /\ DOMAIN less = DOMAIN items \ lost /\ \A j \in DOMAIN less : less[j] = items[j]
  BY LessIs
<1> HIDE DEF lost, less
<1>3. Typed(less)
  BY <1>2 DEF Typed
<1>4. ASSUME NEW h \in H \ lost PROVE less[h].path # NoPath /\ Hangs(less, H \ lost, h)
  <2> DEFINE b  == items[h].parent
             up == cachedParentRemotePath(items, b)
  <2>1. /\ \A p \in Seq(Name) : Below(p, items[h].path) <=> AtOrBelow(p, up)
        /\ (b = Root /\ up = <<>>) \/ (b \in H /\ b # Root /\ up = items[b].path)
        /\ items[h].path = Append(up, items[h].name)
    BY ParentIs
  <2>2. h \in DOMAIN less /\ less[h] = items[h] /\ items[h].path # NoPath
    BY <1>2 DEF Tree
  <2>3. b \notin lost
    <3> SUFFICES ASSUME b \in H, up = items[b].path, b \in lost PROVE FALSE
      BY <2>1, <1>2 DEF Tree, lost, DriveAssumption, Typed
    <3> HIDE DEF up, b
    <3>1. path # NoPath /\ AtOrBelow(path, up)
      BY <1>1
    <3>2. path \in Seq(Name)
      BY <3>1
    <3>3. Below(path, items[h].path)
      BY <2>1, <3>1, <3>2
    <3> QED BY <1>1, <3>1, <3>3 DEF AtOrBelow
  <2>4. b # Root => b \in DOMAIN less /\ less[b] = items[b]
    BY <1>2, <2>1, <2>3 DEF Tree
  <2>5. cachedParentRemotePath(less, b) = up
    BY <2>1, <2>4 DEF cachedParentRemotePath, Root
  <2> HIDE DEF up
  <2>6. b \in (H \ lost) \cup {Root}
    BY <2>1, <2>3
  <2> QED BY <2>1, <2>2, <2>5, <2>6 DEF Hangs
<1>5. Tree(less, H \ lost)
  <2>1. H \ lost \subseteq DOMAIN less
    BY <1>2 DEF Tree
  <2>2. \A j, k \in H \ lost : less[j].path = less[k].path => j = k
    BY <1>2, <2>1 DEF Tree
  <2> QED BY <1>4, <2>1, <2>2 DEF Tree
<1> QED BY <1>3, <1>5 DEF less, lost
State == {"items", "removed", "tombs"}
Lost(items, i, path) ==
  Descendants(items, i, IF Known(items, i) THEN items[i].path ELSE path) \cap DOMAIN items

LEMMA RemoveIs ==
  ASSUME NEW s, Carries(s, State), NEW i, NEW path
  PROVE  LET t == cacheRemoveItemAndDescendants(s, i, path) IN
         Carries(t, State) /\ t.items = Less(s.items, Lost(s.items, i, path))
<1> DEFINE t    == cacheRemoveItemAndDescendants(s, i, path)
           lost == Lost(s.items, i, path)
<1>1. t = [s EXCEPT !.items = Restrict(@, DOMAIN @ \ lost), !.removed = @ \cup lost]
  BY DEF cacheRemoveItemAndDescendants, Lost
<1> HIDE DEF t, lost
<1>2. Carries(t, State) /\ t.items = Less(s.items, lost)
  BY <1>1 DEF Carries, State, Less
<1> QED BY <1>2 DEF t, lost

(* What makes way for an item that takes a path.                            *)
Displaced(items, i, path, lost) ==
  \/ lost = {} /\ \A j \in DOMAIN items \ {i} : items[j].path # path
  \/ \E j \in DOMAIN items \ {i} :
       items[j].path = path /\ lost = Descendants(items, j, path) \cap DOMAIN items

(* Less is cached, as it was.                                               *)
Fewer(items, lost, t) ==
  DOMAIN t = DOMAIN items \ lost /\ \A j \in DOMAIN t : t[j] = items[j]

LEMMA FewerNone == ASSUME NEW items PROVE Fewer(items, {}, items)
BY DEF Fewer

LEMMA DisplaceIs ==
  ASSUME NEW s, Carries(s, State), NEW i, NEW path, path # NoPath
  PROVE  LET t == Displace(s, i, path) IN
         /\ Carries(t, State)
         /\ \E lost : Fewer(s.items, lost, t.items) /\ Displaced(s.items, i, path, lost)
<1> DEFINE t == Displace(s, i, path)
           there == {j \in DOMAIN s.items \ {i} : s.items[j].path = path}
<1>1. CASE there = {}
  <2>1. t = s
    BY <1>1 DEF Displace
  <2>2. Fewer(s.items, {}, t.items)
    BY <2>1, FewerNone
  <2>3. Displaced(s.items, i, path, {})
    BY <1>1 DEF Displaced
  <2> HIDE DEF t, there
  <2>4. Carries(t, State) /\ \E lost : Fewer(s.items, lost, t.items) /\ Displaced(s.items, i, path, lost)
    BY <2>1, <2>2, <2>3
  <2> QED BY <2>4 DEF t
<1>2. CASE there # {}
  <2> DEFINE j == CHOOSE j \in there : TRUE
             lost == Lost(s.items, j, path)
             less == Less(s.items, lost)
  <2>1. t = cacheRemoveItemAndDescendants(s, j, path)
    BY <1>2 DEF Displace, NoPath
  <2>2. j \in there
    BY <1>2
  <2> HIDE DEF j
  <2>3. lost = Descendants(s.items, j, path) \cap DOMAIN s.items
    BY <2>2 DEF Lost, Known
  <2>4. Carries(t, State) /\ t.items = less
    BY <2>1, RemoveIs
  <2>5. Displaced(s.items, i, path, lost)
    BY <2>2, <2>3 DEF Displaced
  <2>6. Fewer(s.items, lost, less)
    BY LessIs DEF Fewer
  <2> HIDE DEF t, lost, less
  <2>7. Carries(t, State) /\ \E l : Fewer(s.items, l, t.items) /\ Displaced(s.items, i, path, l)
    BY <2>4, <2>5, <2>6
  <2> QED BY <2>7 DEF t
<1> QED BY <1>1, <1>2

(* The path is then free, and the rest is a tree: nothing of a tree goes    *)
(* that is not there or below.                                              *)
LEMMA DisplacedTree ==
  ASSUME DriveAssumption, NEW items, NEW H, Typed(items), Tree(items, H),
         NEW i, NEW path \in Seq(Name), path # <<>>, NEW lost, Displaced(items, i, path, lost)
  PROVE  /\ lost \subseteq DOMAIN items
         /\ Typed(Less(items, lost)) /\ Tree(Less(items, lost), H \ lost)
         /\ \A j \in DOMAIN items \ (lost \cup {i}) : items[j].path # path
         /\ \A h \in H \cap lost : AtOrBelow(path, items[h].path)
         /\ \A h \in H \ lost : Below(path, items[h].path) => i \in H \ lost /\ items[i].path = path
<1>1. CASE lost = {} /\ \A j \in DOMAIN items \ {i} : items[j].path # path
  <2>1. Typed(Less(items, lost)) /\ Tree(Less(items, lost), H \ lost)
    <3> DEFINE less == Less(items, lost)
    <3>1. DOMAIN less = DOMAIN items /\ \A j \in DOMAIN items : less[j] = items[j]
      <4>1. DOMAIN less = DOMAIN items \ lost /\ \A j \in DOMAIN less : less[j] = items[j]
        BY LessIs
      <4>2. DOMAIN items \ lost = DOMAIN items
        BY <1>1
      <4> HIDE DEF less
      <4> QED BY <4>1, <4>2
    <3> HIDE DEF less
    <3>2. Typed(less)
      BY <3>1 DEF Typed
    <3>3. \A h \in H : cachedParentRemotePath(less, items[h].parent)
                     = cachedParentRemotePath(items, items[h].parent)
      BY <3>1 DEF cachedParentRemotePath
    <3>4. Tree(less, H)
      BY <3>1, <3>3 DEF Tree, Hangs
    <3>5. H \ lost = H
      BY <1>1
    <3> QED BY <3>2, <3>4, <3>5 DEF less
  <2>2. ASSUME NEW h \in H \ lost, Below(path, items[h].path)
        PROVE  i \in H \ lost /\ items[i].path = path
    <3>1. PICK a \in H : items[a].path = path
      BY <2>2, AboveInTree
    <3> QED BY <1>1, <3>1 DEF Tree
  <2> QED BY <1>1, <2>1, <2>2
<1>2. CASE \E j \in DOMAIN items \ {i} :
             items[j].path = path /\ lost = Descendants(items, j, path) \cap DOMAIN items
  <2>1. PICK j \in DOMAIN items \ {i} :
               items[j].path = path /\ lost = Descendants(items, j, path) \cap DOMAIN items
    BY <1>2
  <2>2. j \in Item /\ path # NoPath
    BY PathsKnown DEF Typed
  <2>3. \A h \in H : h \in Descendants(items, j, path) <=> AtOrBelow(path, items[h].path)
    BY <2>1, <2>2, GoneFromTree
  <2>4. Typed(Less(items, lost)) /\ Tree(Less(items, lost), H \ lost)
    BY <2>1, <2>2, LessTree
  <2>5. ASSUME NEW k \in DOMAIN items \ (lost \cup {i}) PROVE items[k].path # path
    <3>1. items[k].path = path => k \in Descendants(items, j, path)
      BY <2>2, DescendantsAt DEF Typed
    <3> QED BY <2>1, <2>5, <3>1
  <2>6. H \subseteq DOMAIN items
    BY DEF Tree
  <2>7. \A h \in H \ lost : ~AtOrBelow(path, items[h].path)
    BY <2>1, <2>3, <2>6
  <2> QED BY <2>1, <2>3, <2>4, <2>5, <2>6, <2>7 DEF AtOrBelow
<1> QED BY <1>1, <1>2 DEF Displaced

(* What is cached below a folder that moves goes with it.                   *)
Moves(items, i, path) == i \in Folder /\ Known(items, i) /\ items[i].path # path
WithFolder(items, i, path, j) ==
  IF Moves(items, i, path) /\ items[j].path # NoPath /\ Below(items[i].path, items[j].path)
  THEN [items[j] EXCEPT !.path = IF path = NoPath THEN NoPath ELSE Moved(@, items[i].path, path)]
  ELSE items[j]

(* The items after one is put.                                              *)
Entry(e, path) == [name |-> e.name, parent |-> e.parent, ver |-> e.ver, path |-> path]
After(items, i, e, lost, new) ==
  /\ DOMAIN new = (DOMAIN items \ lost) \cup {i} /\ new[i] = e
  /\ \A j \in DOMAIN new \ {i} : new[j] = WithFolder(items, i, e.path, j)

LEMMA PutIs ==
  ASSUME NEW s, Carries(s, State), NEW e, ~e.deleted
  PROVE  LET t    == cachePutSimplified(s, e, Folder)
             path == resolveCachedItemPath(s.items, e)
         IN  /\ Carries(t, State)
             /\ \E lost : /\ After(s.items, e.id, Entry(e, path), lost, t.items)
                          /\ path = NoPath => lost = {}
                          /\ path # NoPath => Displaced(s.items, e.id, path, lost)
<1> DEFINE i     == e.id
           path  == resolveCachedItemPath(s.items, e)
           free  == Displace(s, i, path)
           old   == s.items[i].path
           moved == i \in Folder /\ Known(s.items, i) /\ old # path
           below == IF moved THEN updateCachedDescendantPaths(free.items, old, path) ELSE free.items
           entry == [name |-> e.name, parent |-> e.parent, ver |-> e.ver, path |-> path]
           t     == cachePutSimplified(s, e, Folder)
<1>1. PICK lost : /\ Fewer(s.items, lost, free.items)
                  /\ path = NoPath => lost = {}
                  /\ path # NoPath => Displaced(s.items, i, path, lost)
  <2>1. CASE path = NoPath
    <3>1. free = s
      BY <2>1 DEF Displace, NoPath
    <3> QED BY <2>1, <3>1, FewerNone
  <2>2. CASE path # NoPath
    BY <2>2, DisplaceIs
  <2> QED BY <2>1, <2>2
<1>2. t = [items |-> [j \in DOMAIN below \cup {i} |-> IF j = i THEN entry ELSE below[j]],
           removed |-> free.removed, tombs |-> clearMatchingSearchTombstones(free.tombs, e)]
  BY DEF cachePutSimplified
<1>3. /\ DOMAIN free.items = DOMAIN s.items \ lost
      /\ \A j \in DOMAIN free.items : free.items[j] = s.items[j]
  BY <1>1 DEF Fewer
<1> HIDE DEF free
<1>4. DOMAIN below = DOMAIN s.items \ lost
  BY <1>3 DEF updateCachedDescendantPaths
<1>5. ASSUME NEW j \in DOMAIN below PROVE below[j] = WithFolder(s.items, i, path, j)
  <2>1. j \in DOMAIN free.items /\ free.items[j] = s.items[j]
    BY <1>3, <1>4
  <2>2. CASE moved
    <3>1. old # NoPath /\ Moves(s.items, i, path)
      BY <2>2 DEF Known, NoPath, Moves
    <3>2. below[j] = IF free.items[j].path = NoPath \/ ~Below(old, free.items[j].path) THEN free.items[j]
                     ELSE [free.items[j] EXCEPT !.path =
                             IF path = NoPath THEN NoPath ELSE path \o SubSeq(@, Len(old) + 1, Len(@))]
      BY <2>1, <2>2, <3>1 DEF updateCachedDescendantPaths, NoPath, Below
    <3> HIDE DEF below, path, old
    <3> QED BY <2>1, <3>1, <3>2 DEF WithFolder, Moved, old
  <2>3. CASE ~moved
    <3>1. ~Moves(s.items, i, path)
      BY <2>3 DEF Moves
    <3>2. below[j] = free.items[j]
      BY <2>3
    <3> HIDE DEF below, path, old
    <3> QED BY <2>1, <3>1, <3>2 DEF WithFolder
  <2> QED BY <2>2, <2>3
<1> HIDE DEF path, below, entry, t
<1>6. After(s.items, i, entry, lost, t.items)
  <2>1. t.items = [j \in DOMAIN below \cup {i} |-> IF j = i THEN entry ELSE below[j]]
    BY <1>2
  <2>2. entry.path = path
    BY DEF entry
  <2> QED BY <1>4, <1>5, <2>1, <2>2 DEF After
<1>7. Carries(t, State)
  BY <1>2 DEF Carries, State
<1>8. entry = Entry(e, path)
  BY DEF entry, Entry
<1> QED BY <1>1, <1>6, <1>7, <1>8 DEF path, t
LEMMA MovedSelf == ASSUME NEW p \in Seq(Name), NEW q \in Seq(Name) PROVE Moved(p, p, q) = q
<1> DEFINE m == Moved(p, p, q)
<1>1. MovedOK(Name, p, p, q, m)
  BY MovedIs
<1> HIDE DEF m
<1>2. Len(p) \in Nat /\ Len(q) \in Nat
  BY LenProperties
<1>3. m \in Seq(Name) /\ Len(m) = Len(q) /\ \A k \in 1 .. Len(q) : m[k] = q[k]
  BY <1>1, <1>2 DEF MovedOK
<1>4. m = q
  BY <1>3, SeqEqual
<1> QED BY <1>4 DEF m

LEMMA MovedNext ==
  \A p, old, new \in Seq(Name) : \A x \in Name :
    AtOrBelow(old, p) =>
      /\ Moved(p, old, new) \in Seq(Name) /\ AtOrBelow(new, Moved(p, old, new))
      /\ Moved(Append(p, x), old, new) = Append(Moved(p, old, new), x)
<1> SUFFICES ASSUME NEW p \in Seq(Name), NEW old \in Seq(Name), NEW new \in Seq(Name), NEW x \in Name,
                    AtOrBelow(old, p)
             PROVE  /\ Moved(p, old, new) \in Seq(Name) /\ AtOrBelow(new, Moved(p, old, new))
                    /\ Moved(Append(p, x), old, new) = Append(Moved(p, old, new), x)
  OBVIOUS
<1>1. p = old \/ Below(old, p)
  BY DEF AtOrBelow
<1> DEFINE m == Moved(p, old, new)
<1>2. m \in Seq(Name)
  <2>1. MovedOK(Name, p, old, new, m)
    BY <1>1, MovedIs
  <2> HIDE DEF m
  <2> QED BY <2>1 DEF MovedOK
<1>3. Moved(Append(p, x), old, new) = Append(m, x)
  BY <1>1, MovedAppend
<1>4. AtOrBelow(new, m)
  <2>1. CASE p = old
    BY <2>1, MovedSelf DEF AtOrBelow
  <2>2. CASE Below(old, p)
    BY <2>2, MovedBelow DEF AtOrBelow
  <2> QED BY <1>1, <2>1, <2>2
<1> QED BY <1>2, <1>3, <1>4

PutDone(items, H, i, path, lost, new) ==
  /\ Typed(new) /\ Tree(new, (H \ lost) \cup {i}) /\ path \in Seq(Name) /\ path # <<>>
  /\ lost \subseteq DOMAIN items
  /\ \A h \in H \cap lost : AtOrBelow(path, items[h].path)
  /\ \A h \in H \ lost : Below(path, items[h].path) => i \in H \ lost /\ items[i].path = path
  /\ \A j \in DOMAIN items \ (lost \cup {i}) : items[j].path # path
  /\ \A j \in DOMAIN new \ {i} : j \in DOMAIN items \ lost
       /\ new[j].name = items[j].name /\ new[j].parent = items[j].parent
       /\ \/ new[j].path = items[j].path
          \/ /\ Moves(items, i, path) /\ items[j].path # NoPath
             /\ Below(items[i].path, items[j].path) /\ Below(path, new[j].path)

(* An item is put under its parent in a tree, which stays one.              *)
LEMMA PutTree ==
  ASSUME DriveAssumption, NEW items, NEW H, Typed(items), Tree(items, H), NEW i \in Item,
         NEW e, Carries(e, {"name", "parent", "path"}), e.name \in Name,
         e.parent \in Folder \cup {Root}, e.parent \in H \cup {Root},
         e.path = Append(cachedParentRemotePath(items, e.parent), e.name),
         i \in H => ~Below(items[i].path, e.path),
         i \in DOMAIN items \ H => \A h \in H : items[h].path # items[i].path,
         NEW lost, Displaced(items, i, e.path, lost), NEW new, After(items, i, e, lost, new)
  PROVE  PutDone(items, H, i, e.path, lost, new)
<1> DEFINE up   == cachedParentRemotePath(items, e.parent)
           path == e.path
           old  == items[i].path
           H1   == H \ lost
           G    == H1 \cup {i}
<1>1. /\ up \in Seq(Name) /\ path = Append(up, e.name)
      /\ (e.parent = Root /\ up = <<>>) \/ (e.parent \in H /\ up = items[e.parent].path)
  <2>1. CASE e.parent = Root
    <3>1. up = <<>>
      BY <2>1 DEF cachedParentRemotePath, Root
    <3> QED BY <2>1, <3>1
  <2>2. CASE e.parent # Root
    <3>1. e.parent \in H /\ up = items[e.parent].path
      BY <2>2 DEF cachedParentRemotePath, Root, Tree
    <3>2. items[e.parent].path \in Seq(Name)
      BY <3>1, ParentIs
    <3> QED BY <3>1, <3>2
  <2> QED BY <2>1, <2>2
<1> HIDE DEF up
<1>2. /\ path \in Seq(Name) /\ path # <<>> /\ ~AtOrBelow(path, up)
      /\ \A p \in Seq(Name) : Below(p, path) <=> AtOrBelow(p, up)
  <2> DEFINE x == e.name
  <2>1. x \in Name /\ path = Append(up, x)
    BY <1>1
  <2> HIDE DEF x, path
  <2> QED BY <1>1, <2>1, BelowNext
<1>3. /\ lost \subseteq DOMAIN items
      /\ Typed(Less(items, lost)) /\ Tree(Less(items, lost), H1)
      /\ \A j \in DOMAIN items \ (lost \cup {i}) : items[j].path # path
      /\ \A h \in H \cap lost : AtOrBelow(path, items[h].path)
      /\ \A h \in H1 : Below(path, items[h].path) => i \in H1 /\ old = path
  <2> HIDE DEF H1, old, path
  <2>1. path \in Seq(Name) /\ path # <<>> /\ Displaced(items, i, path, lost)
    BY <1>2 DEF path
  <2>2. /\ lost \subseteq DOMAIN items
        /\ Typed(Less(items, lost)) /\ Tree(Less(items, lost), H \ lost)
        /\ \A j \in DOMAIN items \ (lost \cup {i}) : items[j].path # path
        /\ \A h \in H \cap lost : AtOrBelow(path, items[h].path)
        /\ \A h \in H \ lost : Below(path, items[h].path) => i \in H \ lost /\ items[i].path = path
    BY <2>1, DisplacedTree
  <2> QED BY <2>2 DEF H1, old
<1>4. e.parent \in H1 \cup {Root} /\ e.parent # i
  <2>1. e.parent \notin lost
    BY <1>1, <1>2, <1>3 DEF Typed, DriveAssumption
  <2>2. ASSUME e.parent = i PROVE FALSE
    <3>1. i \in H /\ up = old
      BY <1>1, <2>2 DEF DriveAssumption
    <3> QED BY <1>1, <1>2, <3>1 DEF AtOrBelow
  <2> QED BY <2>1, <2>2
<1>5. DOMAIN new = (DOMAIN items \ lost) \cup {i} /\ new[i] = e
      /\ \A j \in DOMAIN new \ {i} : new[j] = WithFolder(items, i, path, j)
  BY DEF After
<1>6. ASSUME NEW j \in DOMAIN new \ {i}
      PROVE  /\ j \in DOMAIN items \ lost /\ Carries(new[j], {"name", "parent", "path"})
             /\ new[j].name = items[j].name /\ new[j].parent = items[j].parent
             /\ new[j].path = IF Moves(items, i, path) /\ items[j].path # NoPath /\ Below(old, items[j].path)
                              THEN Moved(items[j].path, old, path) ELSE items[j].path
  <2>1. j \in DOMAIN items \ lost /\ Carries(items[j], {"name", "parent", "path"})
    BY <1>5 DEF Typed
  <2>2. new[j] = items[j] \/ \E p : new[j] = [items[j] EXCEPT !.path = p]
    BY <1>5 DEF WithFolder
  <2>3. Carries(new[j], {"name", "parent", "path"})
        /\ new[j].name = items[j].name /\ new[j].parent = items[j].parent
    BY <2>1, <2>2 DEF Carries
  <2>4. path # NoPath
    BY <1>2, PathsKnown
  <2>5. new[j].path = IF Moves(items, i, path) /\ items[j].path # NoPath /\ Below(old, items[j].path)
                      THEN Moved(items[j].path, old, path) ELSE items[j].path
    BY <1>5, <2>1, <2>4 DEF WithFolder, Carries
  <2> QED BY <2>1, <2>3, <2>5
<1> DEFINE Goes(j) == Moves(items, i, path) /\ items[j].path # NoPath /\ Below(old, items[j].path)
<1> HIDE DEF H1
<1>7. \A j \in DOMAIN items : Goes(j) =>
         /\ old \in Seq(Name) /\ items[j].path \in Seq(Name)
         /\ Moved(items[j].path, old, path) \in Seq(Name) /\ Moved(items[j].path, old, path) # <<>>
         /\ Below(path, Moved(items[j].path, old, path))
  <2> SUFFICES ASSUME NEW j \in DOMAIN items, Goes(j)
               PROVE  /\ old \in Seq(Name) /\ items[j].path \in Seq(Name)
                      /\ Moved(items[j].path, old, path) \in Seq(Name)
                      /\ Moved(items[j].path, old, path) # <<>>
                      /\ Below(path, Moved(items[j].path, old, path))
    OBVIOUS
  <2>1. old \in Seq(Name) /\ items[j].path \in Seq(Name)
    BY DEF Typed, PathKind, Moves, Known, NoPath
  <2> DEFINE p == items[j].path
             m == Moved(p, old, path)
  <2>2. p \in Seq(Name) /\ Below(old, p)
    BY <2>1
  <2> HIDE DEF p, old, path
  <2>3. MovedOK(Name, p, old, path, m) /\ Below(path, m)
    BY <1>2, <2>1, <2>2, MovedIs, MovedBelow DEF path
  <2>4. m \in Seq(Name)
    <3> HIDE DEF m
    <3> QED BY <2>3 DEF MovedOK
  <2>5. m # <<>>
    <3> HIDE DEF m
    <3> QED BY <1>2, <2>3, <2>4, NotBelowItself DEF path
  <2> QED BY <2>1, <2>3, <2>4, <2>5 DEF p, old, path
<1>8. Typed(new)
  <2>1. DOMAIN new \subseteq Item
    BY <1>5 DEF Typed
  <2>2. PathKind(path)
    BY <1>2 DEF PathKind
  <2>3. \A j \in DOMAIN new \ {i} :
          /\ Carries(new[j], {"name", "parent", "path"})
          /\ new[j].name \in Name /\ new[j].parent \in Folder \cup {Root} /\ PathKind(new[j].path)
    BY <1>6, <1>7 DEF Typed, PathKind
  <2> QED BY <1>5, <2>1, <2>2, <2>3 DEF Typed
<1>9. ASSUME NEW j \in H1 \ {i}, Goes(j) PROVE i \in H1 /\ old # path /\ old # <<>> /\ i \in H
  <2>1. j \in H /\ j \in DOMAIN items /\ H1 \subseteq H
    BY DEF H1, Tree
  <2>2. old \in Seq(Name) /\ old # <<>> /\ items[j].path \in Seq(Name)
    BY <1>9, <2>1 DEF Typed, PathKind, Moves, Known, NoPath
  <2>3. PICK a \in H : items[a].path = old
    BY <1>9, <2>1, <2>2, AboveInTree
  <2>4. i \in H /\ old # path
    BY <1>9, <2>3 DEF Moves, Known
  <2>5. i \notin lost
    <3> SUFFICES ASSUME i \in lost PROVE FALSE
      OBVIOUS
    <3>1. AtOrBelow(path, old)
      BY <1>3, <2>4
    <3> DEFINE p == items[j].path
    <3>2. Below(old, p) /\ p \in Seq(Name)
      BY <1>9, <2>2
    <3> HIDE DEF p, old, path
    <3>3. Below(path, p)
      BY <1>2, <2>2, <3>1, <3>2, BelowBelow DEF AtOrBelow, path, old
    <3> QED BY <1>3, <2>4, <3>3 DEF p, H1, old, path
  <2> QED BY <2>2, <2>4, <2>5 DEF H1
<1>10. \A j \in H1 \ {i} :
         j \in H /\ j \in DOMAIN items /\ j \in DOMAIN new \ {i} /\ items[j].path \in Seq(Name)
  <2>1. \A j \in H1 \ {i} : j \in H /\ j \in DOMAIN items /\ j \in DOMAIN new \ {i}
    BY <1>5 DEF H1, Tree
  <2> QED BY <2>1, ParentIs
<1>11. \A j \in H1 \ {i} :
         new[j].path = IF Goes(j) THEN Moved(items[j].path, old, path) ELSE items[j].path
  BY <1>6, <1>10
<1>12. ASSUME NEW j \in H1 \ {i} PROVE Hangs(new, G, j)
  <2> DEFINE b  == items[j].parent
             u  == cachedParentRemotePath(items, b)
             x  == items[j].name
             v  == cachedParentRemotePath(new, b)
  <2>1. /\ u \in Seq(Name) /\ x \in Name /\ items[j].path = Append(u, x)
        /\ \A p \in Seq(Name) : Below(p, items[j].path) <=> AtOrBelow(p, u)
        /\ \/ b = Root /\ u = <<>>
           \/ b \in H /\ b \in Folder /\ b # Root /\ u = items[b].path /\ u # <<>>
    BY <1>10, ParentIs
  <2>2. b \in H1 \cup {Root}
    <3> DEFINE less == Less(items, lost)
    <3>1. DOMAIN less = DOMAIN items \ lost /\ \A k \in DOMAIN less : less[k] = items[k]
      BY LessIs
    <3>2. Tree(less, H1)
      BY <1>3
    <3> HIDE DEF less, b
    <3> QED BY <1>10, <3>1, <3>2 DEF Tree, Hangs, b
  <2>3. new[j].parent = b /\ new[j].name = x
    BY <1>6, <1>10
  <2>4. new[j].path = Append(v, x)
    <3>1. CASE b = Root
      <4>1. v = <<>> /\ u = <<>>
        BY <3>1 DEF cachedParentRemotePath, Root
      <4>2. ~Goes(j)
        <5> SUFFICES ASSUME Goes(j) PROVE FALSE
          OBVIOUS
        <5>1. old \in Seq(Name) /\ old # <<>>
          BY <1>7, <1>9, <1>10
        <5>2. AtOrBelow(old, <<>>)
          BY <2>1, <4>1, <5>1
        <5> QED BY <5>1, <5>2, NoneBelowEmpty DEF AtOrBelow
      <4> HIDE DEF v, u
      <4> QED BY <1>11, <2>1, <4>1, <4>2
    <3>2. CASE b = i
      <4>1. b # Root /\ i \in H1 /\ i \in H
        BY <2>2, <3>2 DEF DriveAssumption, H1
      <4>2. u = old /\ i \in Folder
        BY <2>1, <3>2, <4>1
      <4>3. v = path
        BY <1>5, <3>2, <4>1 DEF cachedParentRemotePath, Root
      <4>4. Known(items, i) /\ items[j].path # NoPath
        BY <1>10, <4>1 DEF Known, Tree, NoPath
      <4>5. CASE old = path
        <5>1. ~Goes(j)
          BY <4>5 DEF Moves
        <5> HIDE DEF v, u
        <5> QED BY <1>11, <2>1, <4>2, <4>3, <4>5, <5>1
      <4>6. CASE old # path
        <5>1. Goes(j)
          BY <2>1, <4>2, <4>4, <4>6 DEF Moves, AtOrBelow
        <5> HIDE DEF v, u, x
        <5>2. new[j].path = Moved(Append(u, x), u, path)
          BY <1>11, <2>1, <4>2, <5>1
        <5> HIDE DEF path, Goes
        <5>4. path \in Seq(Name) /\ u \in Seq(Name) /\ x \in Name /\ AtOrBelow(u, u)
          BY <1>2, <2>1 DEF AtOrBelow, path
        <5>3. Moved(Append(u, x), u, path) = Append(Moved(u, u, path), x) /\ Moved(u, u, path) = path
          BY <5>4, MovedNext, MovedSelf
        <5> QED BY <4>3, <5>2, <5>3
      <4> QED BY <4>5, <4>6
    <3>3. CASE b # Root /\ b # i
      <4>1. b \in H1 \ {i} /\ b \in H /\ u = items[b].path
        BY <2>1, <2>2, <3>3
      <4>2. v = new[b].path
        BY <1>10, <3>3, <4>1 DEF cachedParentRemotePath, Root
      <4>3. Goes(j) <=> Goes(b)
        <5>1. items[j].path # NoPath /\ items[b].path # NoPath
          BY <1>10, <4>1 DEF Tree
        <5>2. ASSUME Moves(items, i, path)
              PROVE  Below(old, items[j].path) <=> Below(old, items[b].path)
          <6>1. old \in Seq(Name) /\ i \in DOMAIN items
            BY <5>2 DEF Typed, PathKind, Moves, Known, NoPath
          <6>2. items[b].path # old
            BY <3>3, <4>1, <6>1 DEF Tree
          <6> QED BY <2>1, <4>1, <6>1, <6>2 DEF AtOrBelow
        <5> QED BY <5>1, <5>2
      <4>4. CASE Goes(b)
        <5>1. old \in Seq(Name) /\ AtOrBelow(old, u) /\ v = Moved(u, old, path)
          BY <1>7, <1>10, <1>11, <4>1, <4>2, <4>4 DEF AtOrBelow
        <5>2. new[j].path = Moved(Append(u, x), old, path)
          BY <1>11, <2>1, <4>3, <4>4
        <5> HIDE DEF u, v, x, old, path, Goes
        <5>4. path \in Seq(Name) /\ u \in Seq(Name) /\ x \in Name /\ old \in Seq(Name)
          BY <1>2, <2>1, <5>1 DEF path
        <5>3. Moved(Append(u, x), old, path) = Append(Moved(u, old, path), x)
          BY <5>1, <5>4, MovedNext
        <5> QED BY <5>1, <5>2, <5>3
      <4>5. CASE ~Goes(b)
        <5>1. v = u /\ new[j].path = items[j].path
          BY <1>11, <4>1, <4>2, <4>3, <4>5
        <5> HIDE DEF u, v, x
        <5> QED BY <2>1, <5>1
      <4> QED BY <4>4, <4>5
    <3> QED BY <3>1, <3>2, <3>3
  <2> HIDE DEF v, x, b
  <2> QED BY <2>2, <2>3, <2>4 DEF Hangs, v, x
<1>13. Hangs(new, G, i)
  <2> DEFINE b == e.parent
             v == cachedParentRemotePath(new, b)
  <2>1. v = up
    <3>1. CASE b = Root
      BY <1>1, <3>1 DEF cachedParentRemotePath, Root, DriveAssumption, H1, Tree, Typed
    <3>2. CASE b # Root
      <4>1. b \in H1 \ {i} /\ up = items[b].path
        BY <1>1, <1>4, <3>2
      <4>2. v = new[b].path
        BY <1>10, <3>2, <4>1 DEF cachedParentRemotePath, Root
      <4>3. ~Goes(b)
        <5> SUFFICES ASSUME Goes(b) PROVE FALSE
          OBVIOUS
        <5>1. i \in H /\ old \in Seq(Name)
          BY <1>7, <1>9, <1>10, <4>1
        <5>2. Below(old, path)
          BY <1>2, <4>1, <5>1 DEF AtOrBelow
        <5> QED BY <5>1, <5>2
      <4> HIDE DEF b, v, Goes
      <4> QED BY <1>11, <4>1, <4>2, <4>3
    <3> QED BY <3>1, <3>2
  <2>2. new[i].parent = b /\ new[i].name = e.name /\ new[i].path = path
    BY <1>5
  <2> HIDE DEF v, b
  <2> QED BY <1>1, <1>4, <2>1, <2>2 DEF Hangs, v, b
<1>14. ASSUME NEW j \in H1 \ {i} PROVE new[j].path # path
  <2>1. CASE Goes(j)
    <3>1. new[j].path = Moved(items[j].path, old, path)
      BY <1>11, <2>1
    <3> DEFINE m == Moved(items[j].path, old, path)
    <3>2. m \in Seq(Name) /\ Below(path, m)
      BY <1>7, <1>10, <2>1
    <3> HIDE DEF m
    <3>3. path # m
      BY <1>2, <3>2, NotBelowItself
    <3> QED BY <3>1, <3>3 DEF m
  <2>2. CASE ~Goes(j)
    <3>1. new[j].path = items[j].path
      BY <1>11, <2>2
    <3> QED BY <1>3, <1>10, <3>1 DEF H1
  <2> QED BY <2>1, <2>2
<1>15. ASSUME NEW j \in H1 \ {i}, NEW k \in H1 \ {i}, new[j].path = new[k].path, Goes(j) PROVE Goes(k)
  <2> SUFFICES ASSUME ~Goes(k) PROVE FALSE
    OBVIOUS
  <2>1. new[k].path = items[k].path /\ Below(path, new[j].path)
    BY <1>7, <1>10, <1>11, <1>15
  <2>2. old = path
    BY <1>3, <1>15, <2>1
  <2> QED BY <1>9, <1>15, <2>2
<1>16. ASSUME NEW j \in H1 \ {i}, NEW k \in H1 \ {i}, new[j].path = new[k].path PROVE j = k
  <2>1. CASE Goes(j)
    <3>1. Goes(k)
      BY <1>15, <1>16, <2>1
    <3> DEFINE p == items[j].path
               q == items[k].path
    <3>2. /\ p \in Seq(Name) /\ q \in Seq(Name) /\ old \in Seq(Name) /\ Below(old, p) /\ Below(old, q)
          /\ Moved(p, old, path) = Moved(q, old, path)
      BY <1>7, <1>10, <1>11, <1>16, <2>1, <3>1
    <3> HIDE DEF p, q, old, path, Goes
    <3>3. p = q
      BY <1>2, <3>2, MovedOne DEF path
    <3> QED BY <1>10, <3>3 DEF Tree, p, q
  <2>2. CASE ~Goes(j)
    <3>1. ~Goes(k)
      BY <1>15, <1>16, <2>2
    <3> QED BY <1>10, <1>11, <1>16, <2>2, <3>1 DEF Tree
  <2> QED BY <2>1, <2>2
<1>17. Tree(new, G)
  <2>1. G \subseteq DOMAIN new
    BY <1>5, <1>10
  <2>2. \A j, k \in G : new[j].path = new[k].path => j = k
    <3>1. new[i].path = path
      BY <1>5
    <3> QED BY <1>14, <1>16, <3>1
  <2>3. \A j \in G : new[j].path # NoPath
    <3>1. path # NoPath /\ new[i].path = path
      BY <1>2, <1>5, PathsKnown
    <3>2. ASSUME NEW j \in H1 \ {i} PROVE new[j].path # NoPath
      <4>1. new[j].path \in Seq(Name)
        BY <1>7, <1>10, <1>11
      <4>2. new[j].path # NoPath
        BY <4>1, PathsKnown
      <4> QED BY <4>2
    <3> QED BY <3>1, <3>2
  <2>4. \A j \in G : Hangs(new, G, j)
    BY <1>12, <1>13
  <2> HIDE DEF G
  <2> QED BY <2>1, <2>2, <2>3, <2>4 DEF Tree
<1>18. \A j \in DOMAIN new \ {i} :
           \/ new[j].path = items[j].path
           \/ /\ Moves(items, i, path) /\ items[j].path # NoPath
              /\ Below(old, items[j].path) /\ Below(path, new[j].path)
  BY <1>6, <1>7
<1> QED BY <1>2, <1>3, <1>6, <1>8, <1>17, <1>18 DEF H1, PutDone
------------------------------------------------------------------------------
(* The passes that give paths to items whose parents have got one.          *)
Apart(items, H) == \A j \in DOMAIN items \ H : \A h \in H : items[j].path # items[h].path
Distinct(items) ==
  \A i, j \in DOMAIN items : i # j /\ items[i].path # NoPath => items[i].path # items[j].path

Passed(items, H, new) ==
  /\ Typed(new) /\ DOMAIN new \subseteq DOMAIN items /\ Tree(new, H \cap DOMAIN new)
  /\ \A h \in H \cap DOMAIN new : new[h].path = items[h].path
  /\ Apart(items, H) => Apart(new, H \cap DOMAIN new)
  /\ Distinct(items) => Distinct(new)

LEMMA NoTree == ASSUME NEW items PROVE Tree(items, {}) /\ Apart(items, {})
BY DEF Tree, Apart

LEMMA PassOneIs ==
  ASSUME DriveAssumption, NEW s, Carries(s, State), Typed(s.items), Waiting(s) # {}
  PROVE  /\ Carries(PassOne(s), State)
         /\ \E i, path, lost :
              /\ i \in DOMAIN s.items /\ s.items[i].path = NoPath
              /\ path \in Seq(Name) /\ path # <<>> /\ Displaced(s.items, i, path, lost)
              /\ DOMAIN PassOne(s).items = (DOMAIN s.items \ lost) \cup {i}
              /\ PassOne(s).items[i] = [s.items[i] EXCEPT !.path = path]
              /\ \A j \in DOMAIN PassOne(s).items \ {i} : PassOne(s).items[j] = s.items[j]
<1> DEFINE i    == CHOOSE i \in Waiting(s) : TRUE
           up   == cachedParentRemotePath(s.items, s.items[i].parent)
           path == Append(up, s.items[i].name)
           free == Displace(s, i, path)
           t    == PassOne(s)
           entry == [s.items[i] EXCEPT !.path = path]
<1>1. i \in DOMAIN s.items /\ s.items[i].path = NoPath /\ up # NoPath
  BY DEF Waiting, NoPath
<1>2. t = [free EXCEPT !.items =
             [j \in DOMAIN free.items \cup {i} |-> IF j = i THEN entry ELSE free.items[j]]]
  BY DEF PassOne
<1> HIDE DEF i
<1>3. up \in Seq(Name)
  <2>1. CASE s.items[i].parent = Root
    <3>1. up = <<>>
      BY <2>1 DEF cachedParentRemotePath, Root
    <3> HIDE DEF up
    <3> QED BY <3>1
  <2>2. CASE s.items[i].parent # Root
    <3>1. s.items[i].parent \in DOMAIN s.items /\ up = s.items[s.items[i].parent].path
      BY <1>1, <2>2 DEF cachedParentRemotePath, Root, NoPath
    <3> QED BY <1>1, <3>1 DEF Typed, PathKind
  <2> QED BY <2>1, <2>2
<1>4. path \in Seq(Name) /\ path # <<>> /\ path # NoPath
  <2> DEFINE x == s.items[i].name
  <2>1. x \in Name /\ path = Append(up, x)
    BY <1>1 DEF Typed
  <2> HIDE DEF x, up, path
  <2>2. path \in Seq(Name) /\ path # <<>>
    BY <1>3, <2>1, BelowNext
  <2> QED BY <2>2, PathsKnown
<1> HIDE DEF path
<1>5. PICK lost : Fewer(s.items, lost, free.items) /\ Displaced(s.items, i, path, lost)
  BY <1>4, DisplaceIs
<1>6. Carries(free, State)
  BY <1>4, DisplaceIs
<1> HIDE DEF free, entry, t
<1>7. /\ Carries(t, State)
      /\ t.items = [j \in DOMAIN free.items \cup {i} |-> IF j = i THEN entry ELSE free.items[j]]
  BY <1>2, <1>6 DEF Carries, State
<1>8. /\ DOMAIN t.items = (DOMAIN s.items \ lost) \cup {i} /\ t.items[i] = entry
      /\ \A j \in DOMAIN t.items \ {i} : t.items[j] = s.items[j]
  BY <1>5, <1>7 DEF Fewer
<1> QED BY <1>1, <1>4, <1>5, <1>7, <1>8 DEF t, entry

LEMMA PassOneTree ==
  ASSUME DriveAssumption, NEW s, Carries(s, State), Typed(s.items), Waiting(s) # {},
         NEW H, Tree(s.items, H)
  PROVE  Carries(PassOne(s), State) /\ Passed(s.items, H, PassOne(s).items)
<1> DEFINE items == s.items
           new == PassOne(s).items
<1>1. PICK i, path, lost :
              /\ i \in DOMAIN items /\ items[i].path = NoPath
              /\ path \in Seq(Name) /\ path # <<>> /\ Displaced(items, i, path, lost)
              /\ DOMAIN new = (DOMAIN items \ lost) \cup {i}
              /\ new[i] = [items[i] EXCEPT !.path = path]
              /\ \A j \in DOMAIN new \ {i} : new[j] = items[j]
  BY PassOneIs
<1>2. Carries(PassOne(s), State)
  BY PassOneIs
<1> HIDE DEF items, new
<1> DEFINE H1 == H \ lost
           less == Less(items, lost)
<1>3. Typed(items) /\ Tree(items, H)
  BY DEF items
<1>4. /\ lost \subseteq DOMAIN items /\ Typed(less) /\ Tree(less, H1)
      /\ \A j \in DOMAIN items \ (lost \cup {i}) : items[j].path # path
  <2>1. path \in Seq(Name) /\ path # <<>> /\ Displaced(items, i, path, lost)
    BY <1>1
  <2> HIDE DEF H1, less
  <2>2. /\ lost \subseteq DOMAIN items
        /\ Typed(Less(items, lost)) /\ Tree(Less(items, lost), H \ lost)
        /\ \A j \in DOMAIN items \ (lost \cup {i}) : items[j].path # path
        /\ \A h \in H \cap lost : AtOrBelow(path, items[h].path)
        /\ \A h \in H \ lost : Below(path, items[h].path) => i \in H \ lost /\ items[i].path = path
    BY <1>3, <2>1, DisplacedTree
  <2> QED BY <2>2 DEF H1, less
<1>5. i \notin H /\ H \subseteq DOMAIN items
  BY <1>1, <1>3 DEF Tree
<1>6. H \cap DOMAIN new = H1
  BY <1>1, <1>5
<1>7. DOMAIN less = DOMAIN items \ lost /\ \A j \in DOMAIN less : less[j] = items[j]
  BY LessIs
<1> HIDE DEF H1, less
<1>8. \A h \in H1 : /\ h \in DOMAIN new \ {i} /\ new[h] = items[h]
                    /\ h \in DOMAIN less /\ less[h] = items[h]
  BY <1>1, <1>5, <1>7 DEF H1
<1>9. Tree(new, H1)
  <2>1. ASSUME NEW h \in H1 PROVE Hangs(new, H1, h)
    <3>1. Hangs(less, H1, h)
      BY <1>4 DEF Tree
    <3>2. cachedParentRemotePath(new, less[h].parent) = cachedParentRemotePath(less, less[h].parent)
      <4> DEFINE b == less[h].parent
      <4>1. b = Root \/ b \in H1
        BY <3>1 DEF Hangs
      <4> HIDE DEF b
      <4>2. cachedParentRemotePath(new, b) = cachedParentRemotePath(less, b)
        BY <1>8, <4>1 DEF cachedParentRemotePath, Root
      <4> QED BY <4>2 DEF b
    <3> QED BY <1>8, <3>1, <3>2 DEF Hangs
  <2> QED BY <1>4, <1>8, <2>1 DEF Tree
<1>10. Typed(new)
  <2>1. /\ Carries(new[i], {"name", "parent", "path"}) /\ new[i].path = path
        /\ new[i].name = items[i].name /\ new[i].parent = items[i].parent
    <3>1. Carries(items[i], {"name", "parent", "path"})
      BY <1>1, <1>3 DEF Typed
    <3> QED BY <1>1, <3>1 DEF Carries
  <2>2. \A j \in DOMAIN new \ {i} : j \in DOMAIN items /\ new[j] = items[j]
    BY <1>1
  <2> QED BY <1>1, <1>3, <2>1, <2>2 DEF Typed, PathKind
<1>11. new[i].path = path
  <2>1. Carries(items[i], {"name", "parent", "path"})
    BY <1>1, <1>3 DEF Typed
  <2> QED BY <1>1, <2>1 DEF Carries
<1>12. ASSUME Apart(items, H) PROVE Apart(new, H1)
  <2> SUFFICES ASSUME NEW j \in DOMAIN new \ H1, NEW h \in H1 PROVE new[j].path # new[h].path
    BY DEF Apart
  <2>1. new[h].path = items[h].path /\ items[h].path # path
    BY <1>1, <1>4, <1>5, <1>8 DEF H1
  <2>2. CASE j = i
    BY <1>11, <2>1, <2>2
  <2>3. CASE j # i
    <3>1. j \in DOMAIN items \ H /\ new[j] = items[j]
      BY <1>1, <2>3 DEF H1
    <3> QED BY <1>12, <2>1, <3>1 DEF Apart, H1
  <2> QED BY <2>2, <2>3
<1>13. ASSUME Distinct(items) PROVE Distinct(new)
  <2>1. \A j \in DOMAIN new \ {i} : j \in DOMAIN items /\ new[j] = items[j] /\ new[j].path # path
    BY <1>1, <1>4
  <2> QED BY <1>11, <1>13, <2>1 DEF Distinct
<1>14. DOMAIN new \subseteq DOMAIN items
  BY <1>1
<1>15. Passed(items, H, new)
  BY <1>6, <1>8, <1>9, <1>10, <1>12, <1>13, <1>14 DEF Passed
<1> QED BY <1>2, <1>15 DEF items, new

LEMMA PassesTree ==
  ASSUME DriveAssumption, NEW s, Carries(s, State), Typed(s.items), NEW H, Tree(s.items, H)
  PROVE  Passed(s.items, H, resolveUnresolvedCachedPaths(s).items)
<1> DEFINE N == Cardinality(DOMAIN s.items)
           Good(t) == Carries(t, State) /\ Passed(s.items, H, t.items)
<1>1. N \in Nat
  BY ItemsFinite DEF Typed
<1>2. PICK pass : IsPass(s, pass, N) /\ resolveUnresolvedCachedPaths(s) = pass[N]
  BY <1>1, PassIs
<1> HIDE DEF N
<1>3. \A n \in 0 .. N : pass[n] = PassStep(s, pass, n)
  BY <1>2 DEF IsPass
<1>4. Good(s)
  <2>1. H \cap DOMAIN s.items = H
    BY DEF Tree
  <2> QED BY <2>1 DEF Passed
<1>5. ASSUME NEW t, Good(t), Waiting(t) # {} PROVE Good(PassOne(t))
  <2> DEFINE new == PassOne(t).items
             H1 == H \cap DOMAIN t.items
  <2>1. Carries(PassOne(t), State) /\ Passed(t.items, H1, new)
    BY <1>5, PassOneTree DEF Passed
  <2>2. H1 \cap DOMAIN new = H \cap DOMAIN new
    BY <2>1 DEF Passed
  <2> HIDE DEF new, H1
  <2>3. \A h \in H \cap DOMAIN new : h \in H1 /\ h \in H \cap DOMAIN t.items
    BY <2>1 DEF Passed, H1
  <2>4. Passed(s.items, H, new)
    BY <1>5, <2>1, <2>2, <2>3 DEF Passed, H1
  <2> QED BY <2>1, <2>4 DEF new
<1> HIDE DEF Good
<1> DEFINE G == {n \in Nat : Good(pass[n])}
<1>6. 0 \in G
  <2>1. 0 \in 0 .. N
    BY <1>1
  <2> QED BY <1>3, <1>4, <2>1 DEF PassStep
<1>7. ASSUME NEW m \in 1 .. N, m - 1 \in G PROVE m \in G
  <2>1. m \in 0 .. N /\ m # 0
    BY <1>1
  <2>2. pass[m] = IF Waiting(pass[m - 1]) = {} THEN pass[m - 1] ELSE PassOne(pass[m - 1])
    BY <1>3, <2>1 DEF PassStep
  <2> QED BY <1>5, <1>7, <2>2
<1> HIDE DEF G
<1>8. N \in G /\ N \in 0 .. N
  BY <1>1, <1>6, <1>7, UpTo
<1> QED BY <1>2, <1>8 DEF G, Good
------------------------------------------------------------------------------
(* Paths of the drive.                                                      *)
LEMMA LivePath ==
  ASSUME DriveOK, DriveTree(drive), DriveAssumption, NEW i \in Item
  PROVE  LET q == drive[i].parent IN
         /\ i # Root /\ q \in Folder \cup {Root} /\ drive[i].name \in Name
         /\ PathOf[i] \in Seq(Name) /\ PathOf[i] # <<>> /\ PathOf[q] \in Seq(Name)
         /\ PathOf[Root] = <<>> /\ PathOf[i] = Append(PathOf[q], drive[i].name)
         /\ \A p \in Seq(Name) : Below(p, PathOf[i]) <=> AtOrBelow(p, PathOf[q])
         /\ Live(i) => q = Root \/ (q \in Item /\ Live(q))
<1> DEFINE P == PathOf
           q == drive[i].parent
<1>1. P = PathsOf(drive) /\ drive \in [Item -> DriveRecords] /\ Founded(drive)
  BY PathOfIs DEF DriveOK, DriveTree
<1>2. /\ P \in [Item \cup {Root} -> Seq(Name)] /\ P[Root] = <<>>
      /\ P[i] = Append(P[q], drive[i].name)
  BY <1>1, PathsAre
<1> HIDE DEF P
<1>3. /\ q \in Folder \cup {Root} /\ q \in Item \cup {Root} /\ drive[i].name \in Name /\ i # Root
  BY <1>1 DEF DriveRecords, DriveAssumption
<1>4. P[i] \in Seq(Name) /\ P[q] \in Seq(Name)
  BY <1>2, <1>3
<1>5. P[i] # <<>> /\ \A p \in Seq(Name) : Below(p, P[i]) <=> AtOrBelow(p, P[q])
  <2> DEFINE x == drive[i].name
             r == P[q]
  <2>1. P[i] = Append(r, x) /\ r \in Seq(Name) /\ x \in Name
    BY <1>2, <1>3, <1>4
  <2> HIDE DEF x, r
  <2>2. P[i] # <<>> /\ \A p \in Seq(Name) : Below(p, P[i]) <=> AtOrBelow(p, r)
    BY <2>1, BelowNext
  <2> QED BY <2>2 DEF r
<1>6. Live(i) => q = Root \/ (q \in Item /\ Live(q))
  BY <1>3 DEF DriveTree, Live
<1> QED BY <1>2, <1>3, <1>4, <1>5, <1>6 DEF P

LEMMA InsideInside ==
  ASSUME DriveOK, DriveTree(drive), DriveAssumption, NEW i \in Item, NEW a \in Item, NEW b \in Item,
         Live(i), Inside(i, a), Inside(a, b)
  PROVE  Inside(i, b) /\ (i = b => a = i)
<1> DEFINE p == PathOf[i]
           q == PathOf[a]
           r == PathOf[b]
<1>1. p \in Seq(Name) /\ q \in Seq(Name) /\ r \in Seq(Name)
  BY LivePath
<1>2. i = a \/ Below(q, p)
  BY DEF Inside
<1>3. a = b \/ Below(r, q)
  BY DEF Inside
<1> HIDE DEF p, q, r
<1>4. Below(r, q) /\ Below(q, p) => Below(r, p)
  BY <1>1, BelowBelow
<1>5. Below(r, q) => ~Below(q, r)
  BY <1>1, NotBelowItself
<1> QED BY <1>2, <1>3, <1>4, <1>5 DEF Inside, p, q, r

(* The items above and at one being in a tree and in their places, so are   *)
(* their paths.                                                             *)
LEMMA RightPaths ==
  ASSUME DriveOK, DriveTree(drive), DriveAssumption, NEW items, NEW H, Typed(items), Tree(items, H),
         NEW i \in Item, Live(i),
         \A a \in Item : Live(a) /\ Inside(i, a) =>
           a \in H /\ items[a].name = drive[a].name /\ items[a].parent = drive[a].parent
  PROVE  i \in H /\ items[i].path = PathOf[i]
<1> DEFINE S == {a \in Item : Live(a) /\ Inside(i, a) /\ items[a].path # PathOf[a]}
<1>1. i \in H
  BY DEF Inside
<1>2. ASSUME S # {} PROVE FALSE
  <2>1. PICK a \in S : drive[a].parent \notin S
    BY <1>2 DEF DriveTree, Founded
  <2> DEFINE q == drive[a].parent
  <2>2. /\ a \in H /\ items[a].name = drive[a].name /\ items[a].parent = q
        /\ items[a].path # PathOf[a]
    BY <2>1
  <2>3. items[a].path = Append(cachedParentRemotePath(items, q), drive[a].name)
    BY <2>2 DEF Tree, Hangs
  <2>4. /\ PathOf[Root] = <<>> /\ PathOf[a] = Append(PathOf[q], drive[a].name)
        /\ q = Root \/ (q \in Item /\ Live(q))
        /\ \A p \in Seq(Name) : Below(p, PathOf[a]) <=> AtOrBelow(p, PathOf[q])
    BY <2>1, LivePath
  <2>5. cachedParentRemotePath(items, q) # PathOf[q]
    BY <2>2, <2>3, <2>4
  <2>6. q # Root
    BY <2>4, <2>5 DEF cachedParentRemotePath, Root
  <2>7. q \in Item /\ Live(q) /\ Inside(a, q)
    <3>1. q \in Item /\ Live(q) /\ PathOf[q] \in Seq(Name) /\ Live(a)
      BY <2>1, <2>4, <2>6, LivePath
    <3>2. Below(PathOf[q], PathOf[a])
      BY <2>4, <3>1 DEF AtOrBelow
    <3> QED BY <3>1, <3>2 DEF Inside
  <2>8. Inside(i, q)
    BY <2>1, <2>7, InsideInside
  <2>9. q \in H /\ items[q].path = PathOf[q]
    BY <2>1, <2>7, <2>8
  <2>10. cachedParentRemotePath(items, q) = items[q].path
    BY <2>6, <2>9 DEF cachedParentRemotePath, Root, Tree
  <2> QED BY <2>5, <2>9, <2>10
<1>3. i \notin S
  BY <1>2
<1> QED BY <1>1, <1>3 DEF Inside

(* An item is put in its place when all that is above it is in its place.   *)
LEMMA PutInPlace ==
  ASSUME DriveOK, DriveTree(drive), DriveAssumption, NEW items, NEW H, Typed(items), Tree(items, H),
         NEW e, ~e.deleted, e.id \in Item, ElementRight(e, drive),
         \A a \in Item \ {e.id} : Live(a) /\ Inside(e.id, a) => a \in H /\ items[a].path = PathOf[a],
         e.id \in DOMAIN items \ H => \A h \in H : items[h].path # items[e.id].path,
         NEW lost, NEW new,
         LET path == resolveCachedItemPath(items, e) IN
           After(items, e.id, Entry(e, path), lost, new)
           /\ (path # NoPath => Displaced(items, e.id, path, lost))
  PROVE  LET i == e.id
             path == PathOf[i]
         IN
         After(items, i, Entry(e, path), lost, new) /\ PutDone(items, H, i, path, lost, new)
<1> DEFINE i    == e.id
           path == PathOf[i]
           q    == drive[i].parent
           f    == Entry(e, path)
<1>1. /\ i \in Item /\ Live(i) /\ e.name = drive[i].name /\ e.parent = q /\ e.path \in {NoPath, path}
  BY PathOfIs DEF ElementRight, Live
<1>2. /\ q \in Folder \cup {Root} /\ drive[i].name \in Name
      /\ path \in Seq(Name) /\ path # <<>> /\ PathOf[q] \in Seq(Name)
      /\ PathOf[Root] = <<>> /\ path = Append(PathOf[q], drive[i].name)
      /\ \A p \in Seq(Name) : Below(p, path) <=> AtOrBelow(p, PathOf[q])
      /\ q = Root \/ (q \in Item /\ Live(q))
  BY <1>1, LivePath
<1>3. q # Root => q \in Item \ {i} /\ Live(q) /\ Inside(i, q)
  <2> SUFFICES ASSUME q # Root PROVE q \in Item \ {i} /\ Live(q) /\ Inside(i, q)
    OBVIOUS
  <2>1. q \in Item /\ Live(q) /\ Below(PathOf[q], path)
    BY <1>2 DEF AtOrBelow
  <2>2. PathOf[q] # path
    BY <1>2, <2>1, NotBelowItself
  <2> QED BY <1>1, <2>1, <2>2 DEF Inside
<1>4. cachedParentRemotePath(items, q) = PathOf[q] /\ q \in H \cup {Root}
  <2>1. CASE q = Root
    BY <1>2, <2>1 DEF cachedParentRemotePath, Root
  <2>2. CASE q # Root
    <3>1. q \in H /\ items[q].path = PathOf[q]
      BY <1>3, <2>2
    <3> QED BY <2>2, <3>1 DEF cachedParentRemotePath, Root, Tree
  <2> QED BY <2>1, <2>2
<1>5. resolveCachedItemPath(items, e) = path
  <2>1. PathOf[q] # NoPath /\ path # NoPath
    BY <1>2, PathsKnown
  <2> HIDE DEF path, q, i
  <2>2. CASE e.path # NoPath
    BY <1>1, <2>2 DEF resolveCachedItemPath, NoPath
  <2>3. CASE e.path = NoPath
    BY <1>1, <1>2, <1>4, <2>1, <2>3 DEF resolveCachedItemPath, NoPath
  <2> QED BY <2>2, <2>3
<1>6. After(items, i, f, lost, new) /\ Displaced(items, i, path, lost)
  <2>1. path # NoPath
    BY <1>2, PathsKnown
  <2> QED BY <1>5, <2>1
<1>7. ASSUME i \in H, Below(items[i].path, path) PROVE FALSE
  <2> DEFINE old == items[i].path
  <2>1. old \in Seq(Name) /\ old # <<>>
    BY <1>7, ParentIs
  <2>2. PICK a \in Item : Live(a) /\ PathOf[a] = old
    <3>1. PathOf = PathsOf(drive) /\ drive \in [Item -> DriveRecords] /\ drive[i].at = "live"
      BY <1>1, PathOfIs DEF DriveOK, Live
    <3> HIDE DEF i, old
    <3> QED BY <1>1, <1>7, <2>1, <3>1, PathAbove DEF Live, old
  <2>3. a # i
    BY <1>2, <1>7, <2>1, <2>2, NotBelowItself
  <2>4. Inside(i, a)
    BY <1>1, <1>7, <2>2 DEF Inside
  <2>5. a \in H /\ items[a].path = old
    BY <2>2, <2>3, <2>4
  <2> QED BY <1>7, <2>3, <2>5 DEF Tree
<1>8. /\ Carries(f, {"name", "parent", "path"})
      /\ f.name = drive[i].name /\ f.parent = q /\ f.path = path
  BY <1>1 DEF Entry, Carries
<1>9. i \in H => ~Below(items[i].path, f.path)
  BY <1>7, <1>8
<1>10. f.path = Append(cachedParentRemotePath(items, f.parent), f.name)
  BY <1>2, <1>4, <1>8
<1>11. /\ f.name \in Name /\ f.parent \in Folder \cup {Root} /\ f.parent \in H \cup {Root}
       /\ Displaced(items, i, f.path, lost) /\ After(items, i, f, lost, new)
       /\ i \in DOMAIN items \ H => \A h \in H : items[h].path # items[i].path
  BY <1>2, <1>4, <1>6, <1>8
<1> HIDE DEF f, q, i, path
<1>12. PutDone(items, H, i, f.path, lost, new)
  BY <1>1, <1>8, <1>9, <1>10, <1>11, PutTree
<1> QED BY <1>6, <1>8, <1>12 DEF i, path, f
------------------------------------------------------------------------------
(* A batch element by element.                                              *)
ShownKind(e) ==
  /\ e.id \in Item /\ e.name \in Name /\ e.parent \in Folder \cup {Root}
  /\ e.path = NoPath \/ e.path \in Seq(Name)
  /\ ~e.deleted => e.path # <<>>

LEMMA RightKind ==
  ASSUME DriveOK, DriveTree(drive), DriveAssumption, NEW e, e.id \in Item, ElementRight(e, drive)
  PROVE  ShownKind(e)
<1> DEFINE i == e.id
<1>1. /\ e.name = drive[i].name /\ e.parent = drive[i].parent
      /\ ~e.deleted => e.path \in {NoPath, PathOf[i]}
      /\ e.deleted => e.path = NoPath \/ e.path \in Seq(Name)
  BY PathOfIs DEF ElementRight, NothingAt
<1>2. /\ drive[i].parent \in Folder \cup {Root} /\ drive[i].name \in Name
      /\ PathOf[i] \in Seq(Name) /\ PathOf[i] # <<>>
  BY LivePath
<1>3. NoPath # <<>>
  BY DEF NoPath
<1> QED BY <1>1, <1>2, <1>3 DEF ShownKind

LEMMA FrontIs ==
  ASSUME NEW S
  PROVE  /\ \A s \in Seq(S) : s # <<>> => Front(s) \in Seq(S)
         /\ \A s \in Seq(S) : \A x \in S : Front(Append(s, x)) = s
<1>1. ASSUME NEW s \in Seq(S), s # <<>> PROVE Front(s) \in Seq(S)
  <2>1. Len(s) \in Nat /\ Len(s) > 0 /\ \A n \in 1 .. Len(s) : s[n] \in S
    BY <1>1
  <2>2. Front(s) = [n \in 1 .. Len(s) - 1 |-> s[n]]
    BY <1>1, <2>1, SMTT(60) DEF Front
  <2>3. Len(s) - 1 \in Nat /\ [n \in 1 .. Len(s) - 1 |-> s[n]] \in [1 .. Len(s) - 1 -> S]
    BY <2>1
  <2> QED BY <2>2, <2>3, IsASeq
<1>2. ASSUME NEW s \in Seq(S), NEW x \in S PROVE Front(Append(s, x)) = s
  BY DEF Front
<1> QED BY <1>1, <1>2

LEMMA ResolvedKind ==
  ASSUME DriveAssumption, NEW items, Typed(items), NEW e, ShownKind(e), ~e.deleted
  PROVE  PathKind(resolveCachedItemPath(items, e))
<1> DEFINE up   == cachedParentRemotePath(items, e.parent)
           path == resolveCachedItemPath(items, e)
           old  == items[e.id].path
<1>1. up = NoPath \/ up \in Seq(Name)
  <2>1. CASE e.parent = Root
    <3>1. up = <<>>
      BY <2>1 DEF cachedParentRemotePath, Root
    <3> HIDE DEF up
    <3> QED BY <3>1
  <2>2. CASE e.parent # Root /\ e.parent \in DOMAIN items
    BY <2>2 DEF cachedParentRemotePath, Root, Typed, PathKind
  <2>3. CASE e.parent # Root /\ e.parent \notin DOMAIN items
    BY <2>3 DEF cachedParentRemotePath, Root, NoPath
  <2> QED BY <2>1, <2>2, <2>3
<1>2. \/ path = e.path /\ e.path # NoPath
      \/ path = Append(up, e.name) /\ up # NoPath
      \/ path = Append(Front(old), e.name) /\ Known(items, e.id)
      \/ path = NoPath
  <2> HIDE DEF old
  <2> QED BY DEF resolveCachedItemPath, NoPath, old
<1> HIDE DEF up, path
<1>3. ASSUME NEW p \in Seq(Name) PROVE Append(p, e.name) \in Seq(Name) /\ Append(p, e.name) # <<>>
  <2> DEFINE x == e.name
  <2>1. x \in Name
    BY DEF ShownKind
  <2> HIDE DEF x
  <2>2. Append(p, x) \in Seq(Name) /\ Append(p, x) # <<>>
    BY <2>1, BelowNext
  <2> QED BY <2>2 DEF x
<1>4. Known(items, e.id) => Front(old) \in Seq(Name)
  <2> SUFFICES ASSUME Known(items, e.id) PROVE Front(old) \in Seq(Name)
    OBVIOUS
  <2>1. old \in Seq(Name) /\ old # <<>>
    BY DEF Typed, PathKind, Known, NoPath
  <2> HIDE DEF old
  <2> QED BY <2>1, FrontIs
<1> QED BY <1>1, <1>2, <1>3, <1>4 DEF PathKind, path, ShownKind

LEMMA AfterTyped ==
  ASSUME DriveAssumption, NEW items, Typed(items), NEW i \in Item, NEW e, NEW lost, NEW new,
         After(items, i, e, lost, new), Carries(e, {"name", "parent", "path"}), e.name \in Name,
         e.parent \in Folder \cup {Root}, PathKind(e.path)
  PROVE  Typed(new)
<1>1. DOMAIN new = (DOMAIN items \ lost) \cup {i} /\ new[i] = e
      /\ \A j \in DOMAIN new \ {i} : new[j] = WithFolder(items, i, e.path, j)
  BY DEF After
<1>2. ASSUME NEW j \in DOMAIN new \ {i}
      PROVE  /\ Carries(new[j], {"name", "parent", "path"}) /\ PathKind(new[j].path)
             /\ new[j].name \in Name /\ new[j].parent \in Folder \cup {Root}
  <2> DEFINE old == items[i].path
             q   == items[j].path
             p   == e.path
  <2>1. /\ j \in DOMAIN items /\ Carries(items[j], {"name", "parent", "path"})
        /\ items[j].name \in Name /\ items[j].parent \in Folder \cup {Root} /\ PathKind(q)
    BY <1>1 DEF Typed
  <2>2. CASE new[j] = items[j]
    BY <2>1, <2>2
  <2>3. CASE /\ Moves(items, i, p) /\ q # NoPath /\ Below(old, q)
             /\ new[j] = [items[j] EXCEPT !.path = IF p = NoPath THEN NoPath ELSE Moved(@, old, p)]
    <3>1. /\ new[j].path = IF p = NoPath THEN NoPath ELSE Moved(q, old, p)
          /\ new[j].name = items[j].name /\ new[j].parent = items[j].parent
          /\ Carries(new[j], {"name", "parent", "path"})
      BY <2>1, <2>3 DEF Carries
    <3>2. old \in Seq(Name) /\ q \in Seq(Name) /\ (p # NoPath => p \in Seq(Name))
      BY <2>1, <2>3 DEF Typed, PathKind, Moves, Known, NoPath
    <3>3. PathKind(new[j].path)
      <4> HIDE DEF old, q, p
      <4>1. CASE p = NoPath
        BY <3>1, <4>1 DEF PathKind
      <4>2. CASE p # NoPath
        <5> DEFINE m == Moved(q, old, p)
        <5>1. MovedOK(Name, q, old, p, m) /\ Below(p, m)
          BY <2>3, <3>2, <4>2, MovedIs, MovedBelow
        <5>2. new[j].path = m
          BY <3>1, <4>2
        <5> HIDE DEF m
        <5>3. m \in Seq(Name)
          BY <5>1 DEF MovedOK
        <5>4. m # <<>>
          BY <3>2, <4>2, <5>1, <5>3, NotBelowItself
        <5> QED BY <5>2, <5>3, <5>4 DEF PathKind
      <4> QED BY <4>1, <4>2
    <3> QED BY <2>1, <3>1, <3>3
  <2>4. new[j] = WithFolder(items, i, p, j)
    BY <1>1
  <2> HIDE DEF p, q, old
  <2> QED BY <2>2, <2>3, <2>4 DEF WithFolder, q, old
<1>3. DOMAIN new \subseteq Item
  BY <1>1 DEF Typed
<1> QED BY <1>1, <1>2, <1>3 DEF Typed

(* What a batch element does to the items.                                  *)
Put(items, e, new) ==
  LET path == resolveCachedItemPath(items, e) IN
  \/ e.deleted /\ new = Less(items, Lost(items, e.id, e.path))
  \/ /\ ~e.deleted
     /\ \E lost : /\ After(items, e.id, Entry(e, path), lost, new)
                  /\ path = NoPath => lost = {}
                  /\ path # NoPath => Displaced(items, e.id, path, lost)

LEMMA PutStepIs ==
  ASSUME DriveAssumption, NEW s, Carries(s, State), Typed(s.items), NEW e, ShownKind(e)
  PROVE  LET t == cachePutSimplified(s, e, Folder) IN
         /\ Carries(t, State) /\ Put(s.items, e, t.items) /\ Typed(t.items)
         /\ DOMAIN t.items \subseteq DOMAIN s.items \cup {k \in {e.id} : ~e.deleted}
<1> DEFINE t == cachePutSimplified(s, e, Folder)
           items == s.items
           new == t.items
<1>1. CASE e.deleted
  <2> DEFINE rest == cacheRemoveItemAndDescendants(s, e.id, e.path)
             tombs == recordSearchTombstones(s, e, DOMAIN s.items \ DOMAIN rest.items)
             less == Less(s.items, Lost(s.items, e.id, e.path))
  <2>1. t = [rest EXCEPT !.tombs = tombs]
    BY <1>1 DEF cachePutSimplified
  <2>2. Carries(rest, State) /\ rest.items = less
    BY RemoveIs
  <2> HIDE DEF t, rest, tombs, less
  <2>3. Carries(t, State) /\ new = less
    BY <2>1, <2>2 DEF Carries, State
  <2>4. DOMAIN less \subseteq DOMAIN items /\ \A j \in DOMAIN less : less[j] = items[j]
    <3> DEFINE l == Lost(s.items, e.id, e.path)
    <3>1. less = Less(items, l)
      BY DEF less
    <3> HIDE DEF l, items, less
    <3>2. /\ DOMAIN Less(items, l) = DOMAIN items \ l
          /\ \A j \in DOMAIN Less(items, l) : Less(items, l)[j] = items[j]
      BY LessIs
    <3> QED BY <3>1, <3>2
  <2>5. Typed(new)
    BY <2>3, <2>4 DEF Typed
  <2> QED BY <1>1, <2>3, <2>4, <2>5 DEF Put, t, less
<1>2. CASE ~e.deleted
  <2> DEFINE path == resolveCachedItemPath(items, e)
  <2>1. Carries(t, State) /\ \E lost : /\ After(items, e.id, Entry(e, path), lost, new)
                                       /\ path = NoPath => lost = {}
                                       /\ path # NoPath => Displaced(items, e.id, path, lost)
    BY <1>2, PutIs
  <2>2. PathKind(path)
    BY <1>2, ResolvedKind
  <2> HIDE DEF path, t, items
  <2>3. PICK lost : After(items, e.id, Entry(e, path), lost, new)
    BY <2>1
  <2>4. /\ Carries(Entry(e, path), {"name", "parent", "path"}) /\ Entry(e, path).name \in Name
        /\ Entry(e, path).parent \in Folder \cup {Root} /\ PathKind(Entry(e, path).path)
        /\ e.id \in Item /\ Typed(items)
    BY <2>2 DEF Entry, Carries, ShownKind, items
  <2>5. Typed(new)
    <3> DEFINE f == Entry(e, path)
               i == e.id
    <3> HIDE DEF f, i, new
    <3> QED BY <2>3, <2>4, AfterTyped DEF f, i
  <2>6. DOMAIN new \subseteq DOMAIN items \cup {e.id}
    BY <2>3 DEF After
  <2> QED BY <1>2, <2>1, <2>5, <2>6 DEF Put, path, t, items
<1> QED BY <1>1, <1>2

------------------------------------------------------------------------------
(* What is cached in the order of the drive: what is not to come is in a    *)
(* tree, and above what comes next nothing is to come. With a deltaLink the *)
(* tree has the items that went, too; without one it is the drive's.        *)
Ordered(items, H, Q, v) ==
  /\ Typed(items) /\ Tree(items, H)
  /\ \A i \in Item \ Q : Live(i) => i \in H
  /\ v => /\ \A j \in DOMAIN items \ H : ~Live(j)
          /\ \A i \in Item \ Q : Live(i) =>
               items[i].name = drive[i].name /\ items[i].parent = drive[i].parent
  /\ ~v => /\ \A h \in H : Live(h) /\ items[h].path = PathOf[h]
           /\ Apart(items, H)

LEMMA AboveInPlace ==
  ASSUME DriveOK, DriveTree(drive), DriveAssumption, NEW items, NEW H, NEW Q, NEW v \in BOOLEAN,
         Ordered(items, H, Q, v), NEW i \in Item, Live(i),
         \A a \in Item \ {i} : Inside(i, a) => a \notin Q,
         NEW a \in Item \ {i}, Live(a), Inside(i, a)
  PROVE  a \in H /\ items[a].path = PathOf[a]
<1>1. a \in H
  BY DEF Ordered
<1>2. CASE ~v
  BY <1>1, <1>2 DEF Ordered
<1>3. CASE v
  <2>1. ASSUME NEW b \in Item, Live(b), Inside(a, b)
        PROVE  b \in H /\ items[b].name = drive[b].name /\ items[b].parent = drive[b].parent
    <3>1. Inside(i, b) /\ (i = b => a = i)
      BY <2>1, InsideInside
    <3>2. b \in Item \ Q
      BY <2>1, <3>1
    <3> QED BY <1>3, <2>1, <3>2 DEF Ordered
  <2> QED BY <2>1, RightPaths DEF Ordered
<1> QED BY <1>2, <1>3

OrderedAfter(items, H, G, new, R, v) ==
  Ordered(new, G, R, v) /\ (H = DOMAIN items => G = DOMAIN new)
PutAt(items, e, lost, new) ==
  LET path == resolveCachedItemPath(items, e) IN
    After(items, e.id, Entry(e, path), lost, new)
    /\ (path # NoPath => Displaced(items, e.id, path, lost))

LEMMA OrderedPut ==
  ASSUME DriveOK, DriveTree(drive), DriveAssumption, NEW items, NEW H, NEW Q, NEW R, NEW v \in BOOLEAN,
         Ordered(items, H, Q, v), NEW e, ~e.deleted, e.id \in Item, ElementRight(e, drive),
         Q \subseteq R \cup {e.id}, \A a \in Item \ {e.id} : Inside(e.id, a) => a \notin Q,
         NEW lost, NEW new,
         PutAt(items, e, lost, new), \A i \in Item \ R : Live(i) => i \in DOMAIN new
  PROVE  OrderedAfter(items, H, (H \ lost) \cup {e.id}, new, R, v)
<1> DEFINE i == e.id
           path == PathOf[i]
           G == (H \ lost) \cup {i}
<1>1. Live(i) /\ e.name = drive[i].name /\ e.parent = drive[i].parent /\ i \in Item
  BY DEF ElementRight, Live
<1>2. \A a \in Item \ {i} : Live(a) /\ Inside(i, a) => a \in H /\ items[a].path = PathOf[a]
  <2> SUFFICES ASSUME NEW a \in Item \ {i}, Live(a), Inside(i, a)
               PROVE  a \in H /\ items[a].path = PathOf[a]
    OBVIOUS
  <2>1. i \in Item /\ Live(i) /\ \A b \in Item \ {i} : Inside(i, b) => b \notin Q
    BY <1>1
  <2> HIDE DEF i
  <2> QED BY <2>1, AboveInPlace
<1>3. i \in DOMAIN items \ H => \A h \in H : items[h].path # items[i].path
  BY <1>1 DEF Ordered, Apart
<1>4. After(items, i, Entry(e, path), lost, new) /\ PutDone(items, H, i, path, lost, new)
  BY <1>2, <1>3, PutInPlace DEF Ordered, PutAt
<1>5. /\ Typed(new) /\ Tree(new, G)
      /\ DOMAIN new = (DOMAIN items \ lost) \cup {i} /\ new[i] = Entry(e, path)
      /\ \A j \in DOMAIN new \ {i} : j \in DOMAIN items \ lost
           /\ new[j].name = items[j].name /\ new[j].parent = items[j].parent
           /\ \/ new[j].path = items[j].path
              \/ /\ Moves(items, i, path) /\ items[j].path # NoPath
                 /\ Below(items[i].path, items[j].path) /\ Below(path, new[j].path)
  BY <1>4 DEF After, PutDone
<1>6. new[i].name = e.name /\ new[i].parent = e.parent /\ new[i].path = path
  BY <1>5 DEF Entry
<1>7. \A j \in Item \ R : Live(j) => j \in G /\ (j # i => j \in H /\ j \in Item \ Q /\ j \in DOMAIN new)
  BY <1>5 DEF Ordered
<1>8. ASSUME v PROVE Ordered(new, G, R, v)
  <2>1. \A j \in DOMAIN new \ G : ~Live(j)
    BY <1>5, <1>8 DEF Ordered
  <2>2. ASSUME NEW j \in Item \ R, Live(j)
        PROVE  new[j].name = drive[j].name /\ new[j].parent = drive[j].parent
    <3>1. CASE j = i
      BY <1>1, <1>6, <3>1
    <3>2. CASE j # i
      BY <1>5, <1>7, <1>8, <2>2, <3>2 DEF Ordered
    <3> QED BY <3>1, <3>2
  <2> HIDE DEF G
  <2> QED BY <1>5, <1>7, <1>8, <2>1, <2>2 DEF Ordered
<1>9. ASSUME ~v PROVE Ordered(new, G, R, v)
  <2>1. ASSUME NEW h \in H \ lost, h # i
        PROVE  Live(h) /\ new[h].path = items[h].path /\ items[h].path = PathOf[h]
    <3>1. Live(h) /\ items[h].path = PathOf[h] /\ h \in DOMAIN new \ {i}
      BY <1>5, <1>9, <2>1 DEF Ordered, Tree
    <3>2. ASSUME Moves(items, i, path), Below(items[i].path, items[h].path) PROVE FALSE
      <4>1. i \in DOMAIN items \ H
        BY <1>9, <3>2 DEF Ordered, Moves, Known
      <4>2. items[i].path \in Seq(Name) /\ items[i].path # <<>>
        BY <3>2 DEF Moves, Known, Ordered, Typed, PathKind, NoPath
      <4>3. \E a \in H : items[a].path = items[i].path
        BY <3>2, <4>2, AboveInTree DEF Ordered
      <4> QED BY <1>9, <4>1, <4>3 DEF Ordered, Apart
    <3> QED BY <1>5, <3>1, <3>2
  <2>2. \A h \in G : Live(h) /\ new[h].path = PathOf[h]
    BY <1>1, <1>6, <2>1
  <2>3. ASSUME NEW j \in DOMAIN new \ G, NEW g \in G PROVE new[j].path # new[g].path
    <3>1. j \in DOMAIN items \ (lost \cup {i}) /\ j \notin H /\ j \in DOMAIN new \ {i}
      BY <1>5
    <3>2. path \in Seq(Name) /\ path # NoPath
      BY <1>1, LivePath, PathsKnown
    <3>3. CASE new[j].path = items[j].path
      <4>1. items[j].path # path
        BY <1>4, <3>1 DEF PutDone
      <4>2. \A h \in H : items[j].path # items[h].path
        BY <1>9, <3>1 DEF Ordered, Apart
      <4> QED BY <1>6, <2>1, <3>3, <4>1, <4>2
    <3>4. CASE Moves(items, i, path) /\ Below(path, new[j].path)
      <4>1. new[j].path # path
        <5>1. new[j].path = NoPath \/ new[j].path \in Seq(Name)
          BY <1>5, <3>1 DEF Typed, PathKind
        <5> QED BY <3>2, <3>4, <5>1, NotBelowItself
      <4>2. \A h \in H \ lost : ~Below(path, items[h].path)
        BY <1>4, <3>4 DEF PutDone, Moves
      <4> QED BY <1>6, <2>1, <3>4, <4>1, <4>2
    <3> QED BY <1>5, <3>1, <3>3, <3>4
  <2>4. Apart(new, G)
    BY <2>3 DEF Apart
  <2> HIDE DEF G
  <2> QED BY <1>5, <1>7, <1>9, <2>2, <2>4 DEF Ordered
<1>10. H = DOMAIN items => G = DOMAIN new
  BY <1>5
<1>11. Ordered(new, G, R, v)
  BY <1>8, <1>9
<1> QED BY <1>10, <1>11 DEF OrderedAfter

LEMMA OrderedDrop ==
  ASSUME DriveOK, DriveTree(drive), DriveAssumption, NEW items, NEW H, NEW Q, NEW R, NEW v \in BOOLEAN,
         Ordered(items, H, Q, v), NEW e, e.deleted, e.id \in Item, ElementRight(e, drive),
         ShownKind(e), Q \subseteq R \cup {e.id},
         \A i \in Item \ R : Live(i) => i \in DOMAIN Less(items, Lost(items, e.id, e.path))
  PROVE  LET lost == Lost(items, e.id, e.path)
             new == Less(items, lost)
         IN Ordered(new, H \ lost, R, v) /\ (H = DOMAIN items => H \ lost = DOMAIN new)
<1> DEFINE i == e.id
           path == IF Known(items, i) THEN items[i].path ELSE e.path
           lost == Lost(items, i, e.path)
           new == Less(items, lost)
           G == H \ lost
<1>1. ~Live(i) /\ i \in Item /\ (e.path = NoPath \/ e.path \in Seq(Name))
  BY DEF ElementRight, Live, ShownKind
<1>2. lost = Descendants(items, i, path) \cap DOMAIN items
  BY DEF Lost
<1>3. path = NoPath \/ path \in Seq(Name)
  BY <1>1 DEF Known, Ordered, Typed, PathKind
<1>4. i \in H => items[i].path = path
  BY DEF Known, Ordered, Tree, NoPath
<1> HIDE DEF i, path
<1>5. Typed(new) /\ Tree(new, G)
  <2> DEFINE l == Descendants(items, i, path) \cap DOMAIN items
  <2>1. Typed(Less(items, l)) /\ Tree(Less(items, l), H \ l)
    BY <1>1, <1>3, <1>4, LessTree DEF Ordered
  <2> QED BY <1>2, <2>1
<1> HIDE DEF lost
<1>6. DOMAIN new = DOMAIN items \ lost /\ \A j \in DOMAIN new : new[j] = items[j]
  BY LessIs
<1>7. \A j \in Item \ R : Live(j) => j \in Item \ Q /\ j \in DOMAIN new
  BY <1>1 DEF lost, i
<1> HIDE DEF new
<1>8. \A j \in Item \ R : Live(j) => j \in G
  BY <1>6, <1>7 DEF Ordered
<1>9. H \subseteq DOMAIN items
  BY DEF Ordered, Tree
<1>10. Apart(items, H) => Apart(new, G)
  BY <1>6, <1>9 DEF Apart
<1>11. Ordered(new, G, R, v)
  BY <1>5, <1>6, <1>7, <1>8, <1>9, <1>10 DEF Ordered
<1> QED BY <1>6, <1>11 DEF new, lost, i
LEMMA OrderedOne ==
  ASSUME DriveOK, DriveTree(drive), DriveAssumption, NEW items, NEW H, NEW Q, NEW R, NEW v \in BOOLEAN,
         Ordered(items, H, Q, v), NEW e, e.id \in Item, ElementRight(e, drive), ShownKind(e),
         Q \subseteq R \cup {e.id}, \A a \in Item \ {e.id} : Inside(e.id, a) => a \notin Q,
         NEW new, Put(items, e, new), \A i \in Item \ R : Live(i) => i \in DOMAIN new
  PROVE  \E G : OrderedAfter(items, H, G, new, R, v)
<1>1. CASE e.deleted
  <2> DEFINE lost == Lost(items, e.id, e.path)
             less == Less(items, lost)
  <2>1. new = less
    BY <1>1 DEF Put
  <2>2. \A i \in Item \ R : Live(i) => i \in DOMAIN less
    BY <2>1
  <2>3. Ordered(less, H \ lost, R, v) /\ (H = DOMAIN items => H \ lost = DOMAIN less)
    BY <1>1, <2>2, OrderedDrop
  <2> HIDE DEF less, lost
  <2> QED BY <2>1, <2>3 DEF OrderedAfter
<1>2. CASE ~e.deleted
  <2>1. PICK lost : PutAt(items, e, lost, new)
    BY <1>2 DEF Put, PutAt
  <2>2. OrderedAfter(items, H, (H \ lost) \cup {e.id}, new, R, v)
    BY <1>2, <2>1, OrderedPut
  <2> QED BY <2>2
<1> QED BY <1>1, <1>2

(* A whole batch: the items after each of its elements, and what is left    *)
(* after the passes.                                                        *)
Ids(b, S) == {b[k].id : k \in S}
Kept(b, n, m) == {k \in n + 1 .. m : ~b[k].deleted}
Steps(items, b, g, last) ==
  /\ g[0] = items
  /\ \A n \in 0 .. Len(b) : Typed(g[n])
  /\ \A n \in 1 .. Len(b) :
       Put(g[n - 1], b[n], g[n])
       /\ DOMAIN g[n] \subseteq DOMAIN g[n - 1] \cup {k \in {b[n].id} : ~b[n].deleted}
  /\ \A H : Tree(g[Len(b)], H) => Passed(g[Len(b)], H, last)

LEMMA BatchElement ==
  ASSUME DriveOK, DriveTree(drive), DriveAssumption, NEW b, BatchOK(b, Top(drive)), Current(b, drive)
  PROVE  /\ Len(b) \in Nat /\ DOMAIN b = 1 .. Len(b)
         /\ \A n \in 1 .. Len(b) :
              b[n].id \in Item /\ ElementRight(b[n], drive) /\ ShownKind(b[n])
<1>1. Len(b) \in Nat /\ DOMAIN b = 1 .. Len(b) /\ \A k \in DOMAIN b : ShownOK(b[k], Top(drive))
  BY BatchLen
<1>2. ASSUME NEW n \in 1 .. Len(b)
      PROVE  b[n].id \in Item /\ ElementRight(b[n], drive) /\ ShownKind(b[n])
  <2>1. b[n].id \in Item /\ ElementRight(b[n], drive)
    BY <1>1 DEF ShownOK, Top, Current
  <2> QED BY <2>1, RightKind
<1> QED BY <1>1, <1>2

LEMMA PutsAre ==
  ASSUME DriveOK, DriveTree(drive), DriveAssumption, NEW items, Typed(items), NEW tombs,
         NEW b, BatchOK(b, Top(drive)), Current(b, drive)
  PROVE  \E g : Steps(items, b, g, PutAll(items, tombs, b, Folder).items)
<1> DEFINE N == Len(b)
           last == PutAll(items, tombs, b, Folder)
<1>1. N \in Nat /\ \A n \in 1 .. N : ShownKind(b[n])
  BY BatchElement
<1>2. PICK put : IsPut(items, tombs, b, Folder, put, N) /\ last = resolveUnresolvedCachedPaths(put[N])
  BY <1>1, PutAllIs
<1> HIDE DEF N, last
<1>3. \A n \in 0 .. N : put[n] = PutStep(items, tombs, b, Folder, put, n)
  BY <1>2 DEF IsPut
<1>4. 0 \in 0 .. N /\ put[0] = [items |-> items, removed |-> {}, tombs |-> tombs]
  BY <1>1, <1>3 DEF PutStep
<1> DEFINE Good(t) == Carries(t, State) /\ Typed(t.items)
           g == [n \in 0 .. N |-> put[n].items]
           Grows(n) == Put(put[n - 1].items, b[n], put[n].items)
             /\ DOMAIN put[n].items \subseteq DOMAIN put[n - 1].items \cup {k \in {b[n].id} : ~b[n].deleted}
<1>5. Good(put[0])
  BY <1>4 DEF Carries, State
<1>6. ASSUME NEW m \in 1 .. N, Good(put[m - 1]) PROVE Good(put[m]) /\ Grows(m)
  <2> DEFINE s == put[m - 1]
             e == b[m]
             t == cachePutSimplified(s, e, Folder)
  <2>1. m \in 0 .. N /\ m # 0
    BY <1>1
  <2>2. put[m] = t
    BY <1>3, <2>1 DEF PutStep
  <2>3. Carries(s, State) /\ Typed(s.items) /\ ShownKind(e)
    BY <1>1, <1>6
  <2> HIDE DEF s, e
  <2>4. /\ Carries(t, State) /\ Put(s.items, e, t.items) /\ Typed(t.items)
        /\ DOMAIN t.items \subseteq DOMAIN s.items \cup {k \in {e.id} : ~e.deleted}
    BY <2>3, PutStepIs
  <2> HIDE DEF t
  <2> QED BY <2>2, <2>4 DEF s, e
<1> HIDE DEF Good
<1> DEFINE G == {n \in Nat : Good(put[n])}
<1>7. \A n \in 0 .. N : n \in G
  <2>1. 0 \in G
    BY <1>5
  <2>2. \A m \in 1 .. N : m - 1 \in G => m \in G
    BY <1>1, <1>6
  <2> HIDE DEF G
  <2> QED BY <1>1, <2>1, <2>2, UpTo
<1>8. \A n \in 0 .. N : Good(put[n])
  BY <1>7
<1> HIDE DEF G, Grows
<1>9. \A n \in 1 .. N : n - 1 \in 0 .. N /\ n \in 0 .. N /\ Grows(n)
  <2> SUFFICES ASSUME NEW n \in 1 .. N PROVE n - 1 \in 0 .. N /\ n \in 0 .. N /\ Grows(n)
    OBVIOUS
  <2>1. n - 1 \in 0 .. N /\ n \in 0 .. N
    BY <1>1
  <2> QED BY <1>6, <1>8, <2>1
<1>10. N \in 0 .. N
  BY <1>1
<1>11. ASSUME NEW H, Tree(g[N], H) PROVE Passed(g[N], H, last.items)
  <2> DEFINE s == put[N]
  <2>1. Carries(s, State) /\ Typed(s.items) /\ Tree(s.items, H) /\ g[N] = s.items
    BY <1>8, <1>10, <1>11 DEF Good
  <2>2. last = resolveUnresolvedCachedPaths(s)
    BY <1>2
  <2> HIDE DEF s, g
  <2> QED BY <2>1, <2>2, PassesTree
<1>12. g[0] = items
  BY <1>4
<1>13. \A n \in 0 .. N : g[n] = put[n].items /\ Typed(g[n])
  BY <1>8 DEF Good
<1> HIDE DEF g
<1>14. \A n \in 1 .. N :
         Put(g[n - 1], b[n], g[n])
         /\ DOMAIN g[n] \subseteq DOMAIN g[n - 1] \cup {k \in {b[n].id} : ~b[n].deleted}
  BY <1>9, <1>13 DEF Grows
<1>15. Steps(items, b, g, last.items)
  BY <1>11, <1>12, <1>13, <1>14 DEF Steps, N
<1> QED BY <1>15 DEF last

LEMMA StepsShrink ==
  ASSUME NEW items, NEW b, Len(b) \in Nat, NEW g, NEW last, Steps(items, b, g, last),
         NEW n \in 0 .. Len(b)
  PROVE  DOMAIN last \subseteq DOMAIN g[n] \cup Ids(b, Kept(b, n, Len(b)))
<1> DEFINE N == Len(b)
           Within(m) == DOMAIN g[m] \subseteq DOMAIN g[n] \cup Ids(b, Kept(b, n, m))
           G == {m \in Nat : m < n \/ Within(m)}
<1>1. ASSUME NEW m \in 1 .. N, m > n, Within(m - 1) PROVE Within(m)
  <2>1. Kept(b, n, m) = Kept(b, n, m - 1) \cup {k \in {m} : ~b[k].deleted}
    <3>1. \A k : k \in n + 1 .. m <=> k \in n + 1 .. m - 1 \/ k = m
      BY <1>1
    <3> QED BY <3>1 DEF Kept
  <2>2. DOMAIN g[m] \subseteq DOMAIN g[m - 1] \cup {k \in {b[m].id} : ~b[m].deleted}
    BY DEF Steps
  <2>3. Ids(b, Kept(b, n, m - 1)) \subseteq Ids(b, Kept(b, n, m))
        /\ (~b[m].deleted => b[m].id \in Ids(b, Kept(b, n, m)))
    BY <2>1 DEF Ids
  <2> QED BY <1>1, <2>2, <2>3
<1>2. Within(n)
  OBVIOUS
<1> HIDE DEF Within
<1>3. 0 \in G
  BY <1>2
<1>4. ASSUME NEW m \in 1 .. N, m - 1 \in G PROVE m \in G
  <2>1. CASE m <= n
    BY <1>2, <2>1
  <2>2. CASE m > n
    <3>1. m - 1 >= n
      BY <2>2
    <3> QED BY <1>1, <1>4, <2>2, <3>1
  <2> QED BY <2>1, <2>2
<1> HIDE DEF G
<1>5. N \in G /\ N \in 0 .. N
  BY <1>3, <1>4, UpTo
<1>6. Within(N)
  BY <1>5 DEF G
<1>7. DOMAIN last \subseteq DOMAIN g[N]
  <2>1. Passed(g[N], {}, last)
    BY NoTree DEF Steps
  <2> QED BY <2>1 DEF Passed
<1> QED BY <1>6, <1>7 DEF Within

(* What is still to come after an element of a batch, and a batch that has  *)
(* nothing ahead of what it is in and loses nothing that is there.          *)
Later(b, n, W) == Ids(b, n + 1 .. Len(b)) \cup W
NotAhead(b, W) ==
  \A n \in 1 .. Len(b) : \A a \in Item \ {b[n].id} : Inside(b[n].id, a) => a \notin Later(b, n, W)
NoLoss(items, b, last) ==
  \A i \in Item : Live(i) /\ (i \in DOMAIN items \/ i \in Ids(b, 1 .. Len(b))) => i \in DOMAIN last

LEMMA LaterIs ==
  ASSUME NEW b, Len(b) \in Nat, NEW W
  PROVE  /\ \A m \in 1 .. Len(b) : Later(b, m - 1, W) = Later(b, m, W) \cup {b[m].id}
         /\ Later(b, Len(b), W) = W
         /\ Later(b, 0, W) = Ids(b, 1 .. Len(b)) \cup W
         /\ \A m \in 0 .. Len(b) : Ids(b, Kept(b, m, Len(b))) \cup W \subseteq Later(b, m, W)
         /\ \A m \in 0 .. Len(b) : Later(b, m, W) \subseteq Ids(b, 1 .. Len(b)) \cup W
<1>1. ASSUME NEW m \in 1 .. Len(b) PROVE Later(b, m - 1, W) = Later(b, m, W) \cup {b[m].id}
  <2>1. \A k : k \in (m - 1) + 1 .. Len(b) <=> k \in m + 1 .. Len(b) \/ k = m
    BY <1>1
  <2> QED BY <2>1 DEF Later, Ids
<1>2. Len(b) + 1 .. Len(b) = {} /\ 0 + 1 .. Len(b) = 1 .. Len(b)
  OBVIOUS
<1>3. Later(b, Len(b), W) = W /\ Later(b, 0, W) = Ids(b, 1 .. Len(b)) \cup W
  BY <1>2 DEF Later, Ids
<1>4. \A m \in 0 .. Len(b) : Ids(b, Kept(b, m, Len(b))) \cup W \subseteq Later(b, m, W)
  BY DEF Later, Ids, Kept
<1>5. \A m \in 0 .. Len(b) : Later(b, m, W) \subseteq Ids(b, 1 .. Len(b)) \cup W
  <2>1. \A m \in 0 .. Len(b) : m + 1 .. Len(b) \subseteq 1 .. Len(b)
    OBVIOUS
  <2> QED BY <2>1 DEF Later, Ids
<1> QED BY <1>1, <1>3, <1>4, <1>5

(* What is not to come any more is there after each element.                *)
LEMMA ThereOr ==
  ASSUME NEW items, NEW b, Len(b) \in Nat, NEW g, NEW last, Steps(items, b, g, last),
         NoLoss(items, b, last), NEW m \in 0 .. Len(b), NEW W, NEW i \in Item, Live(i),
         i \in DOMAIN items \cup Ids(b, 1 .. Len(b))
  PROVE  i \in DOMAIN last /\ (i \notin Later(b, m, W) => i \in DOMAIN g[m])
<1>1. i \in DOMAIN last
  BY DEF NoLoss
<1>2. DOMAIN last \subseteq DOMAIN g[m] \cup Ids(b, Kept(b, m, Len(b)))
  BY StepsShrink
<1> QED BY <1>1, <1>2, LaterIs

Settled(items, H, W, v) ==
  /\ Tree(items, H)
  /\ \A i \in Item \ W : Live(i) => i \in H
  /\ v => \A j \in DOMAIN items \ H : ~Live(j)
  /\ ~v => /\ \A h \in H : Live(h) /\ items[h].path = PathOf[h]
           /\ Apart(items, H)

LEMMA PutAllOrdered ==
  ASSUME DriveOK, DriveTree(drive), DriveAssumption, NEW items, NEW b, BatchOK(b, Top(drive)),
         Current(b, drive), NEW g, NEW last, Steps(items, b, g, last), NoLoss(items, b, last),
         NEW W, NotAhead(b, W), NEW v \in BOOLEAN, NEW H, Ordered(items, H, Later(b, 0, W), v)
  PROVE  \E G : Settled(last, G, W, v) /\ (H = DOMAIN items => G = DOMAIN last)
<1> DEFINE N == Len(b)
           Reached(n) == \E G : Ordered(g[n], G, Later(b, n, W), v)
                                /\ (H = DOMAIN items => G = DOMAIN g[n])
           S == {n \in Nat : Reached(n)}
<1>1. /\ N \in Nat /\ DOMAIN b = 1 .. N
      /\ \A n \in 1 .. N : b[n].id \in Item /\ ElementRight(b[n], drive) /\ ShownKind(b[n])
  BY BatchElement
<1>2. \A i \in Item \ W : Live(i) => i \in DOMAIN items \cup Ids(b, 1 .. N)
  <2>1. Later(b, 0, W) = Ids(b, 1 .. N) \cup W
    BY <1>1, LaterIs
  <2> QED BY <2>1 DEF Ordered, Tree
<1>3. ASSUME NEW m \in 1 .. N, Reached(m - 1) PROVE Reached(m)
  <2> DEFINE e == b[m]
             Q == Later(b, m - 1, W)
             R == Later(b, m, W)
             old == g[m - 1]
             new == g[m]
  <2>1. PICK H1 : Ordered(old, H1, Q, v) /\ (H = DOMAIN items => H1 = DOMAIN old)
    BY <1>3
  <2>2. e.id \in Item /\ ElementRight(e, drive) /\ ShownKind(e)
    BY <1>1
  <2>3. Q = R \cup {e.id} /\ W \subseteq R
    <3>1. m \in 0 .. N
      BY <1>1
    <3> QED BY <1>1, <3>1, LaterIs
  <2>4. \A a \in Item \ {e.id} : Inside(e.id, a) => a \notin Q
    <3>1. \A a \in Item \ {e.id} : Inside(e.id, a) => a \notin R
      BY DEF NotAhead
    <3> HIDE DEF Q, R
    <3> QED BY <2>3, <3>1
  <2>5. Put(old, e, new)
    BY DEF Steps
  <2>6. \A i \in Item \ R : Live(i) => i \in DOMAIN new
    <3> SUFFICES ASSUME NEW i \in Item \ R, Live(i) PROVE i \in DOMAIN new
      OBVIOUS
    <3>1. i \in DOMAIN items \cup Ids(b, 1 .. N) /\ m \in 0 .. N
      BY <1>1, <1>2, <2>3
    <3> QED BY <1>1, <3>1, ThereOr
  <2>7. Q \subseteq R \cup {e.id}
    BY <2>3
  <2> HIDE DEF e, Q, R, old, new
  <2>8. \E G : OrderedAfter(old, H1, G, new, R, v)
    <3>1. Ordered(old, H1, Q, v) /\ v \in BOOLEAN
      BY <2>1
    <3> QED BY <3>1, <2>2, <2>4, <2>5, <2>6, <2>7, OrderedOne
  <2>9. \E G : Ordered(new, G, R, v) /\ (H = DOMAIN items => G = DOMAIN new)
    BY <2>1, <2>8 DEF OrderedAfter
  <2> QED BY <2>9 DEF new, R
<1>4. Reached(0)
  BY DEF Steps
<1> HIDE DEF Reached
<1>5. Reached(N)
  <2>1. 0 \in S /\ (\A m \in 1 .. N : m - 1 \in S => m \in S) /\ N \in 0 .. N
    BY <1>1, <1>3, <1>4
  <2>2. N \in S
    <3> HIDE DEF S, N
    <3> QED BY <1>1, <2>1, UpTo
  <2> QED BY <2>2
<1>6. PICK G1 : Ordered(g[N], G1, W, v) /\ (H = DOMAIN items => G1 = DOMAIN g[N])
  <2>1. Later(b, N, W) = W
    BY <1>1, LaterIs
  <2> QED BY <1>5, <2>1 DEF Reached
<1> DEFINE G == G1 \cap DOMAIN last
<1>7. Passed(g[N], G1, last)
  BY <1>6 DEF Steps, Ordered
<1>8. \A i \in Item \ W : Live(i) => i \in G
  <2> SUFFICES ASSUME NEW i \in Item \ W, Live(i) PROVE i \in G
    OBVIOUS
  <2>1. i \in DOMAIN items \cup Ids(b, 1 .. N) /\ N \in 0 .. N
    BY <1>1, <1>2
  <2>2. i \in DOMAIN last
    BY <1>1, <2>1, ThereOr
  <2> QED BY <1>6, <2>2 DEF Ordered
<1>9. Settled(last, G, W, v)
  BY <1>6, <1>7, <1>8 DEF Settled, Passed, Ordered
<1>10. H = DOMAIN items => G = DOMAIN last
  BY <1>6, <1>7 DEF Passed
<1> QED BY <1>9, <1>10
------------------------------------------------------------------------------
(* Batches without a cursor on a cache that is up to the last change: what  *)
(* comes with its path may come in any order.                               *)
LEMMA ResolvedRight ==
  ASSUME DriveOK, DriveTree(drive), DriveAssumption, NEW items, NEW e, ~e.deleted, e.id \in Item,
         ElementRight(e, drive),
         \/ e.path # NoPath \/ e.parent = Root
         \/ e.parent \in DOMAIN items /\ items[e.parent].path = PathOf[e.parent]
  PROVE  resolveCachedItemPath(items, e) = PathOf[e.id]
<1> DEFINE i == e.id
           q == drive[i].parent
           up == cachedParentRemotePath(items, q)
<1>1. /\ e.name = drive[i].name /\ e.parent = q /\ e.path \in {NoPath, PathOf[i]}
  BY PathOfIs DEF ElementRight
<1>2. /\ PathOf[q] \in Seq(Name) /\ PathOf[Root] = <<>> /\ PathOf[i] = Append(PathOf[q], e.name)
  BY <1>1, LivePath
<1>3. PathOf[q] # NoPath
  BY <1>2, PathsKnown
<1>4. CASE e.path # NoPath
  BY <1>1, <1>4 DEF resolveCachedItemPath, NoPath
<1>5. CASE e.path = NoPath
  <2>1. up = PathOf[q]
    <3>1. CASE q = Root
      BY <1>2, <3>1 DEF cachedParentRemotePath, Root
    <3>2. CASE q # Root
      BY <1>1, <1>5, <3>2 DEF cachedParentRemotePath, Root
    <3> QED BY <3>1, <3>2
  <2>2. cachedParentRemotePath(items, e.parent) = PathOf[q]
    BY <1>1, <2>1
  <2>3. resolveCachedItemPath(items, e) = Append(PathOf[q], e.name)
    <3> DEFINE p == PathOf[q]
    <3> HIDE DEF p
    <3> QED BY <1>3, <1>5, <2>2 DEF resolveCachedItemPath, NoPath, p
  <2> QED BY <1>2, <2>3
<1> QED BY <1>4, <1>5

InPlace(items, i) ==
  items[i].path = PathOf[i] /\ items[i].name = drive[i].name /\ items[i].parent = drive[i].parent
LiveRight(items) == \A i \in DOMAIN items : Live(i) => InPlace(items, i)

(* An item put where it is leaves the others where they are.                *)
LEMMA PutThere ==
  ASSUME DriveOK, DriveTree(drive), DriveAssumption, NEW items, NEW e, ~e.deleted, e.id \in Item,
         ElementRight(e, drive), LiveRight(items), NEW new, Put(items, e, new),
         \/ e.path # NoPath \/ e.parent = Root
         \/ e.parent \in DOMAIN items /\ items[e.parent].path = PathOf[e.parent]
  PROVE  /\ InPlace(new, e.id)
         /\ \A j \in DOMAIN new \ {e.id} : j \in DOMAIN items /\ new[j] = items[j]
         /\ \E lost : /\ Displaced(items, e.id, PathOf[e.id], lost)
                      /\ DOMAIN new = (DOMAIN items \ lost) \cup {e.id}
<1> DEFINE i == e.id
           path == PathOf[i]
           f == Entry(e, path)
<1>1. resolveCachedItemPath(items, e) = path
  BY ResolvedRight
<1>2. path # NoPath /\ Live(i) /\ e.name = drive[i].name /\ e.parent = drive[i].parent
  BY LivePath, PathsKnown DEF ElementRight, Live
<1>3. PICK lost : After(items, i, f, lost, new) /\ Displaced(items, i, path, lost)
  BY <1>1, <1>2 DEF Put
<1>4. f.path = path /\ f.name = e.name /\ f.parent = e.parent
  BY DEF Entry
<1>5. ~Moves(items, i, path)
  BY <1>2 DEF LiveRight, InPlace, Moves, Known
<1> HIDE DEF f, path
<1>6. /\ DOMAIN new = (DOMAIN items \ lost) \cup {i} /\ new[i] = f
      /\ \A j \in DOMAIN new \ {i} : new[j] = items[j]
  BY <1>3, <1>4, <1>5 DEF After, WithFolder
<1> QED BY <1>2, <1>3, <1>4, <1>6 DEF InPlace, path

LEMMA DropIs ==
  ASSUME NEW items, NEW e, e.deleted, NEW new, Put(items, e, new)
  PROVE  /\ DOMAIN new = DOMAIN items \ Lost(items, e.id, e.path)
         /\ \A j \in DOMAIN new : new[j] = items[j]
<1> DEFINE lost == Lost(items, e.id, e.path)
<1>1. new = Less(items, lost)
  BY DEF Put
<1> HIDE DEF lost
<1>2. DOMAIN Less(items, lost) = DOMAIN items \ lost
      /\ \A j \in DOMAIN Less(items, lost) : Less(items, lost)[j] = items[j]
  BY LessIs
<1> QED BY <1>1, <1>2 DEF lost

LEMMA PutLiveRight ==
  ASSUME DriveOK, DriveTree(drive), DriveAssumption, NEW items, NEW e, e.id \in Item,
         ElementRight(e, drive), LiveRight(items), NEW new, Put(items, e, new),
         ~e.deleted => \/ e.path # NoPath \/ e.parent = Root \/ e.parent \in DOMAIN items
  PROVE  LiveRight(new)
<1>1. CASE e.deleted
  <2>1. \A j \in DOMAIN new : j \in DOMAIN items /\ new[j] = items[j]
    BY <1>1, DropIs
  <2> QED BY <2>1 DEF LiveRight, InPlace
<1>2. CASE ~e.deleted
  <2>1. e.parent # Root => Live(e.parent)
    BY <1>2, LivePath DEF ElementRight, Live
  <2>2. \/ e.path # NoPath \/ e.parent = Root
        \/ e.parent \in DOMAIN items /\ items[e.parent].path = PathOf[e.parent]
    BY <1>2, <2>1 DEF LiveRight, InPlace
  <2>3. InPlace(new, e.id) /\ \A j \in DOMAIN new \ {e.id} : j \in DOMAIN items /\ new[j] = items[j]
    BY <1>2, <2>2, PutThere
  <2> QED BY <2>3 DEF LiveRight, InPlace
<1> QED BY <1>1, <1>2

(* All that is there being in its place, what is in place makes a tree.     *)
LEMMA LiveTree ==
  ASSUME DriveOK, DriveTree(drive), DriveAssumption, NEW items, LiveRight(items),
         \A i \in Item : Live(i) => i \in DOMAIN items
  PROVE  Tree(items, {i \in Item : Live(i)})
<1> DEFINE H == {i \in Item : Live(i)}
<1>1. ASSUME NEW i \in H PROVE items[i].path # NoPath /\ Hangs(items, H, i)
  <2> DEFINE q == drive[i].parent
             up == cachedParentRemotePath(items, q)
  <2>1. /\ PathOf[i] \in Seq(Name) /\ PathOf[Root] = <<>> /\ PathOf[i] = Append(PathOf[q], drive[i].name)
        /\ q = Root \/ (q \in Item /\ Live(q))
    BY <1>1, LivePath
  <2>2. InPlace(items, i)
    BY <1>1 DEF LiveRight
  <2>3. up = PathOf[q]
    <3>1. CASE q = Root
      BY <2>1, <3>1 DEF cachedParentRemotePath, Root
    <3>2. CASE q # Root
      <4>1. q \in DOMAIN items /\ items[q].path = PathOf[q]
        BY <2>1, <3>2 DEF LiveRight, InPlace
      <4> QED BY <3>2, <4>1 DEF cachedParentRemotePath, Root
    <3> QED BY <3>1, <3>2
  <2>4. q \in H \cup {Root} /\ PathOf[i] # NoPath
    BY <2>1, PathsKnown
  <2> HIDE DEF q, up
  <2>5. items[i].parent = q /\ items[i].path = PathOf[i] /\ items[i].name = drive[i].name
    BY <2>2 DEF InPlace, q
  <2> QED BY <2>1, <2>3, <2>4, <2>5 DEF Hangs, up
<1>2. ASSUME NEW i \in H, NEW j \in H, items[i].path = items[j].path PROVE i = j
  <2>1. PathOf[i] = PathOf[j]
    BY <1>2 DEF LiveRight, InPlace
  <2> QED BY <1>2, <2>1, PathsDiffer, PathOfIs DEF DriveOK, Live
<1>3. H \subseteq DOMAIN items
  OBVIOUS
<1> QED BY <1>1, <1>2, <1>3 DEF Tree
LooseOrder(b) ==
  \A n \in 1 .. Len(b) : b[n].path = NoPath =>
    \A a \in Item \ {b[n].id} : Inside(b[n].id, a) => a \notin Later(b, n, {})

LEMMA ParentAbove ==
  ASSUME DriveOK, DriveTree(drive), DriveAssumption, NEW i \in Item, Live(i), drive[i].parent # Root
  PROVE  LET q == drive[i].parent IN q \in Item /\ Live(q) /\ q # i /\ Inside(i, q)
<1> DEFINE q == drive[i].parent
           r == PathOf[q]
           p == PathOf[i]
<1>1. /\ q \in Item /\ Live(q) /\ r \in Seq(Name) /\ p \in Seq(Name)
      /\ Below(r, p) <=> AtOrBelow(r, r)
  BY LivePath
<1>2. Below(r, p)
  BY <1>1 DEF AtOrBelow
<1>3. r # p
  <2> HIDE DEF r, p
  <2> QED BY <1>1, <1>2, NotBelowItself
<1> QED BY <1>1, <1>2, <1>3 DEF Inside

LEMMA PutAllLive ==
  ASSUME DriveOK, DriveTree(drive), DriveAssumption, NEW items, NEW b, BatchOK(b, Top(drive)),
         Current(b, drive), NEW g, NEW last, Steps(items, b, g, last), NoLoss(items, b, last),
         LooseOrder(b), LiveRight(items), \A i \in Item : Live(i) => i \in DOMAIN items
  PROVE  Settled(last, {i \in Item : Live(i)}, {}, TRUE)
<1> DEFINE N == Len(b)
           H == {i \in Item : Live(i)}
           S == {n \in Nat : LiveRight(g[n])}
<1>1. /\ N \in Nat /\ DOMAIN b = 1 .. N
      /\ \A n \in 1 .. N : b[n].id \in Item /\ ElementRight(b[n], drive) /\ ShownKind(b[n])
  BY BatchElement
<1>2. ASSUME NEW m \in 1 .. N, LiveRight(g[m - 1]) PROVE LiveRight(g[m])
  <2> DEFINE e == b[m]
             old == g[m - 1]
             new == g[m]
  <2>1. e.id \in Item /\ ElementRight(e, drive) /\ LiveRight(old) /\ Put(old, e, new)
    BY <1>1, <1>2 DEF Steps
  <2>2. ASSUME ~e.deleted, e.path = NoPath, e.parent # Root PROVE e.parent \in DOMAIN old
    <3> DEFINE q == e.parent
    <3>1. Live(e.id) /\ drive[e.id].parent = q
      BY <2>1, <2>2 DEF ElementRight, Live
    <3>2. q \in Item /\ Live(q) /\ q # e.id /\ Inside(e.id, q)
      BY <2>1, <2>2, <3>1, ParentAbove
    <3>3. q \notin Later(b, m, {})
      BY <2>2, <3>2 DEF LooseOrder
    <3>7. m - 1 \in 0 .. N
      BY <1>1
    <3>4. Later(b, m - 1, {}) = Later(b, m, {}) \cup {b[m].id}
      BY <1>1, LaterIs
    <3> HIDE DEF q, e
    <3>5. q \notin Later(b, m - 1, {}) /\ q \in DOMAIN items \cup Ids(b, 1 .. N)
      BY <3>2, <3>3, <3>4 DEF e
    <3>6. q \in DOMAIN g[m - 1]
      BY <1>1, <3>2, <3>5, <3>7, ThereOr
    <3> QED BY <3>6 DEF q
  <2> HIDE DEF e, old, new
  <2>3. LiveRight(new)
    BY <2>1, <2>2, PutLiveRight
  <2> QED BY <2>3 DEF new
<1>3. LiveRight(g[N])
  <2>1. 0 \in S /\ (\A m \in 1 .. N : m - 1 \in S => m \in S) /\ N \in 0 .. N
    BY <1>1, <1>2 DEF Steps
  <2>2. N \in S
    <3> HIDE DEF S, N
    <3> QED BY <1>1, <2>1, UpTo
  <2> QED BY <2>2
<1>4. \A i \in Item : Live(i) => i \in DOMAIN last /\ i \in DOMAIN g[N]
  <2> SUFFICES ASSUME NEW i \in Item, Live(i) PROVE i \in DOMAIN last /\ i \in DOMAIN g[N]
    OBVIOUS
  <2>1. Later(b, N, {}) = {} /\ N \in 0 .. N
    BY <1>1, LaterIs
  <2>2. i \in DOMAIN items \cup Ids(b, 1 .. N) /\ i \notin Later(b, N, {})
    BY <2>1
  <2> QED BY <1>1, <2>1, <2>2, ThereOr
<1>5. Tree(g[N], H)
  BY <1>3, <1>4, LiveTree
<1>6. Passed(g[N], H, last)
  BY <1>5 DEF Steps
<1>7. H \cap DOMAIN last = H
  BY <1>4
<1>8. Tree(last, H) /\ \A i \in Item \ {} : Live(i) => i \in H
  BY <1>6, <1>7 DEF Passed
<1>9. \A j \in DOMAIN last \ H : ~Live(j)
  <2>1. DOMAIN last \subseteq Item
    BY <1>6 DEF Passed, Typed
  <2> QED BY <2>1
<1> HIDE DEF H
<1>10. Settled(last, H, {}, TRUE)
  BY <1>8, <1>9 DEF Settled
<1> QED BY <1>10 DEF H

(* The cache is a tree that has all that is there where it is.              *)
Whole(items) ==
  /\ Typed(items) /\ Tree(items, DOMAIN items) /\ LiveRight(items)
  /\ \A i \in Item : Live(i) => i \in DOMAIN items

LEMMA SameTree ==
  ASSUME NEW items, NEW H, Tree(items, H), NEW new, DOMAIN new = DOMAIN items,
         \A i \in DOMAIN items : /\ new[i].path = items[i].path /\ new[i].name = items[i].name
                                 /\ new[i].parent = items[i].parent
  PROVE  Tree(new, H)
<1>1. ASSUME NEW i \in H PROVE new[i].path # NoPath /\ Hangs(new, H, i)
  <2>1. i \in DOMAIN items /\ items[i].path # NoPath /\ Hangs(items, H, i)
    BY DEF Tree
  <2>2. cachedParentRemotePath(new, items[i].parent) = cachedParentRemotePath(items, items[i].parent)
    BY DEF cachedParentRemotePath
  <2> QED BY <2>1, <2>2 DEF Hangs
<1> QED BY <1>1 DEF Tree

LEMMA WholePut ==
  ASSUME DriveOK, DriveTree(drive), DriveAssumption, NEW items, NEW e, ~e.deleted, e.id \in Item,
         ElementRight(e, drive), Whole(items), NEW new, Put(items, e, new), Typed(new)
  PROVE  Whole(new)
<1> DEFINE i == e.id
           path == PathOf[i]
<1>1. Live(i) /\ e.parent = drive[i].parent
  BY DEF ElementRight, Live
<1>2. \/ e.path # NoPath \/ e.parent = Root
      \/ e.parent \in DOMAIN items /\ items[e.parent].path = PathOf[e.parent]
  <2>1. e.parent # Root => e.parent \in Item /\ Live(e.parent)
    BY <1>1, LivePath
  <2> QED BY <2>1 DEF Whole, LiveRight, InPlace
<1>3. /\ InPlace(new, i)
      /\ \A j \in DOMAIN new \ {i} : j \in DOMAIN items /\ new[j] = items[j]
      /\ \E lost : Displaced(items, i, path, lost) /\ DOMAIN new = (DOMAIN items \ lost) \cup {i}
  BY <1>2, PutThere DEF Whole
<1>4. PICK lost : Displaced(items, i, path, lost) /\ DOMAIN new = (DOMAIN items \ lost) \cup {i}
  BY <1>3
<1>5. i \in DOMAIN items /\ InPlace(items, i)
  BY <1>1 DEF Whole, LiveRight
<1>6. \A j \in DOMAIN items \ {i} : items[j].path # path
  BY <1>5 DEF Whole, Tree, InPlace
<1>7. lost = {}
  BY <1>4, <1>6 DEF Displaced
<1>8. DOMAIN new = DOMAIN items
  BY <1>4, <1>5, <1>7
<1>9. \A j \in DOMAIN items : /\ new[j].path = items[j].path /\ new[j].name = items[j].name
                              /\ new[j].parent = items[j].parent
  BY <1>3, <1>5, <1>8 DEF InPlace
<1> HIDE DEF i, path
<1>10. Tree(new, DOMAIN items)
  <2> DEFINE H == DOMAIN items
  <2>1. Tree(items, H)
    BY DEF Whole
  <2> HIDE DEF H
  <2> QED BY <1>8, <1>9, <2>1, SameTree DEF H
<1>11. LiveRight(new)
  BY <1>8, <1>9 DEF Whole, LiveRight, InPlace
<1> QED BY <1>8, <1>10, <1>11 DEF Whole

LEMMA WholeDrop ==
  ASSUME DriveOK, DriveTree(drive), DriveAssumption, NEW items, NEW e, e.deleted, e.id \in Item,
         ElementRight(e, drive), ShownKind(e), Whole(items), NEW new, Put(items, e, new)
  PROVE  Whole(new)
<1> DEFINE i == e.id
           path == IF Known(items, i) THEN items[i].path ELSE e.path
           lost == Lost(items, i, e.path)
           H == DOMAIN items
<1>1. ~Live(i) /\ i \in Item /\ (e.path = NoPath \/ NothingAt(e.path, drive))
  BY DEF ElementRight, Live
<1>2. lost = Descendants(items, i, path) \cap DOMAIN items
  BY DEF Lost
<1>3. path = NoPath \/ path \in Seq(Name)
  BY DEF Known, Whole, Typed, PathKind, ShownKind
<1>4. i \in H => items[i].path = path /\ path # <<>>
  BY DEF Known, Whole, Tree, Typed, PathKind, NoPath
<1>5. i \notin H => path = e.path
  BY DEF Known
<1>6. Typed(items) /\ Tree(items, H)
  BY DEF Whole
<1>14. /\ DOMAIN new = DOMAIN items \ Lost(items, e.id, e.path)
       /\ \A j \in DOMAIN new : new[j] = items[j]
  BY DropIs
<1>7. /\ DOMAIN new = DOMAIN items \ lost /\ new = Less(items, lost)
      /\ \A j \in DOMAIN new : new[j] = items[j]
  BY <1>14 DEF Put
<1> HIDE DEF i, path
<1>8. \A h \in H : h \in Descendants(items, i, path) <=> path # NoPath /\ AtOrBelow(path, items[h].path)
  <2> HIDE DEF H
  <2> QED BY <1>1, <1>3, <1>4, <1>6, GoneFromTree
<1>9. Typed(new) /\ Tree(new, H \ lost)
  <2> DEFINE l == Descendants(items, i, path) \cap DOMAIN items
  <2>1. Typed(Less(items, l)) /\ Tree(Less(items, l), H \ l)
    <3> HIDE DEF H
    <3> QED BY <1>1, <1>3, <1>4, <1>6, LessTree
  <2> QED BY <1>2, <1>7, <2>1
<1>10. ASSUME NEW x \in Item, Live(x), x \in lost PROVE FALSE
  <2>1. x \in H /\ items[x].path = PathOf[x]
    BY <1>10 DEF Whole, LiveRight, InPlace
  <2>2. path # NoPath /\ AtOrBelow(path, PathOf[x])
    BY <1>2, <1>8, <1>10, <2>1
  <2>3. path \in Seq(Name)
    BY <1>3, <2>2
  <2>4. PathOf = PathsOf(drive) /\ drive \in [Item -> DriveRecords]
    BY PathOfIs DEF DriveOK
  <2>5. CASE i \in H
    <3>1. \E a \in Item : Live(a) /\ PathOf[a] = path
      <4>1. CASE PathOf[x] = path
        BY <1>10, <4>1
      <4>2. CASE Below(path, PathOf[x])
        BY <1>4, <1>10, <2>3, <2>4, <2>5, <4>2, PathAbove DEF Live
      <4> QED BY <2>2, <4>1, <4>2 DEF AtOrBelow
    <3>2. PICK a \in Item : Live(a) /\ PathOf[a] = path
      BY <3>1
    <3>3. a \in H /\ items[a].path = items[i].path
      BY <1>4, <2>5, <3>2 DEF Whole, LiveRight, InPlace
    <3> QED BY <1>1, <1>6, <2>5, <3>2, <3>3 DEF Tree
  <2>6. CASE i \notin H
    BY <1>1, <1>5, <1>10, <2>2, <2>4, <2>6 DEF NothingAt, AtOrBelow, Live
  <2> QED BY <2>5, <2>6
<1> HIDE DEF lost
<1>11. \A x \in Item : Live(x) => x \in DOMAIN new
  BY <1>7, <1>10 DEF Whole
<1>12. LiveRight(new)
  BY <1>7 DEF Whole, LiveRight, InPlace
<1>13. Tree(new, DOMAIN new)
  BY <1>7, <1>9
<1> QED BY <1>9, <1>11, <1>12, <1>13 DEF Whole
LEMMA PutAllWhole ==
  ASSUME DriveOK, DriveTree(drive), DriveAssumption, NEW items, NEW b, BatchOK(b, Top(drive)),
         Current(b, drive), NEW g, NEW last, Steps(items, b, g, last), Whole(items)
  PROVE  Tree(last, DOMAIN last)
<1> DEFINE N == Len(b)
           S == {n \in Nat : Whole(g[n])}
<1>1. /\ N \in Nat /\ DOMAIN b = 1 .. N
      /\ \A n \in 1 .. N : b[n].id \in Item /\ ElementRight(b[n], drive) /\ ShownKind(b[n])
  BY BatchElement
<1>2. ASSUME NEW m \in 1 .. N, Whole(g[m - 1]) PROVE Whole(g[m])
  <2> DEFINE e == b[m]
             old == g[m - 1]
             new == g[m]
  <2>1. m \in 0 .. N
    BY <1>1
  <2>2. /\ e.id \in Item /\ ElementRight(e, drive) /\ ShownKind(e)
        /\ Whole(old) /\ Put(old, e, new) /\ Typed(new)
    BY <1>1, <1>2, <2>1 DEF Steps
  <2> HIDE DEF e, old, new
  <2>3. Whole(new)
    BY <2>2, WholePut, WholeDrop
  <2> QED BY <2>3 DEF new
<1>3. Whole(g[N])
  <2>1. 0 \in S /\ (\A m \in 1 .. N : m - 1 \in S => m \in S) /\ N \in 0 .. N
    BY <1>1, <1>2 DEF Steps
  <2>2. N \in S
    <3> HIDE DEF S, N
    <3> QED BY <1>1, <2>1, UpTo
  <2> QED BY <2>2
<1> DEFINE H == DOMAIN g[N]
<1>4. Tree(g[N], H)
  BY <1>3 DEF Whole
<1>5. Passed(g[N], H, last)
  BY <1>4 DEF Steps
<1>6. H \cap DOMAIN last = DOMAIN last
  BY <1>5 DEF Passed
<1> QED BY <1>5, <1>6 DEF Passed

(* What is cached while no deltaLink follows it is there, and where it is   *)
(* or not yet placed: so no two are at one path.                            *)
Placed(items) ==
  \A i \in DOMAIN items : Live(i) /\ items[i].path \in {NoPath, PathOf[i]}

LEMMA ResolvedPlaced ==
  ASSUME DriveOK, DriveTree(drive), DriveAssumption, NEW items, Placed(items), NEW e, ~e.deleted,
         e.id \in Item, ElementRight(e, drive)
  PROVE  resolveCachedItemPath(items, e) \in {NoPath, PathOf[e.id]}
<1> DEFINE i == e.id
           q == drive[i].parent
           up == cachedParentRemotePath(items, e.parent)
           path == resolveCachedItemPath(items, e)
           old == items[i].path
<1>1. /\ e.name = drive[i].name /\ e.parent = q /\ e.path \in {NoPath, PathOf[i]}
  BY PathOfIs DEF ElementRight
<1>2. /\ PathOf[q] \in Seq(Name) /\ drive[i].name \in Name /\ PathOf[Root] = <<>>
      /\ PathOf[i] = Append(PathOf[q], drive[i].name)
  BY <1>1, LivePath
<1>3. CASE e.path # NoPath \/ e.parent = Root
  BY <1>3, ResolvedRight
<1>4. CASE e.path = NoPath /\ e.parent # Root
  <2>1. up \in {NoPath, PathOf[q]}
    <3>1. CASE q \in DOMAIN items
      BY <1>1, <1>4, <3>1 DEF cachedParentRemotePath, Root, Placed
    <3>2. CASE q \notin DOMAIN items
      BY <1>1, <1>4, <3>2 DEF cachedParentRemotePath, Root, NoPath
    <3> QED BY <3>1, <3>2
  <2>2. CASE up # NoPath
    <3>1. q \in DOMAIN items /\ items[q].path = PathOf[q]
      BY <1>1, <1>4, <2>1, <2>2 DEF cachedParentRemotePath, Root, NoPath
    <3> QED BY <1>1, <3>1, ResolvedRight
  <2>3. CASE up = NoPath
    <3>1. path = IF Known(items, i) /\ items[i].parent = e.parent
                 THEN Append(Front(old), e.name) ELSE NoPath
      <4> HIDE DEF old
      <4> QED BY <1>4, <2>3 DEF resolveCachedItemPath, NoPath, old
    <3>2. Known(items, i) => old = PathOf[i]
      BY DEF Known, Placed, NoPath
    <3>3. Front(PathOf[i]) = PathOf[q]
      <4> DEFINE s == PathOf[q]
                 x == drive[i].name
      <4>1. s \in Seq(Name) /\ x \in Name /\ PathOf[i] = Append(s, x)
        BY <1>2
      <4> HIDE DEF s, x
      <4>2. Front(Append(s, x)) = s
        BY <4>1, FrontIs
      <4> QED BY <4>1, <4>2 DEF s
    <3>4. CASE Known(items, i) /\ items[i].parent = e.parent
      <4>1. path = Append(Front(PathOf[i]), drive[i].name)
        BY <1>1, <3>1, <3>2, <3>4
      <4> QED BY <1>2, <3>3, <4>1
    <3>5. CASE ~(Known(items, i) /\ items[i].parent = e.parent)
      BY <3>1, <3>5
    <3> QED BY <3>4, <3>5
  <2> QED BY <2>2, <2>3
<1> QED BY <1>3, <1>4

LEMMA PutPlaced ==
  ASSUME DriveOK, DriveTree(drive), DriveAssumption, NEW items, Placed(items), NEW e,
         e.id \in Item, ElementRight(e, drive), NEW new, Put(items, e, new)
  PROVE  Placed(new)
<1>1. CASE e.deleted
  <2>1. \A j \in DOMAIN new : j \in DOMAIN items /\ new[j] = items[j]
    BY <1>1, DropIs
  <2> QED BY <2>1 DEF Placed
<1>2. CASE ~e.deleted
  <2> DEFINE i == e.id
             path == resolveCachedItemPath(items, e)
             f == Entry(e, path)
  <2>1. Live(i) /\ path \in {NoPath, PathOf[i]}
    BY <1>2, ResolvedPlaced DEF ElementRight, Live
  <2>2. PICK lost : After(items, i, f, lost, new)
    BY <1>2 DEF Put
  <2>3. f.path = path
    BY DEF Entry
  <2> HIDE DEF f, path
  <2>4. /\ DOMAIN new = (DOMAIN items \ lost) \cup {i} /\ new[i] = f
        /\ \A j \in DOMAIN new \ {i} : j \in DOMAIN items /\ new[j] = WithFolder(items, i, path, j)
    BY <2>2, <2>3 DEF After
  <2>5. Moves(items, i, path) => path = NoPath
    BY <2>1 DEF Moves, Known, Placed, NoPath
  <2>6. ASSUME NEW j \in DOMAIN new \ {i} PROVE Live(j) /\ new[j].path \in {NoPath, PathOf[j]}
    <3>1. Live(j) /\ items[j].path \in {NoPath, PathOf[j]}
      BY <2>4 DEF Placed
    <3>2. CASE new[j] = items[j]
      BY <3>1, <3>2
    <3>3. CASE /\ items[j].path # NoPath /\ path = NoPath
               /\ new[j] = [items[j] EXCEPT !.path = NoPath]
      <4>1. new[j].path = NoPath \/ new[j].path = items[j].path
        BY <3>3
      <4> QED BY <3>1, <4>1
    <3> QED BY <2>4, <2>5, <3>2, <3>3 DEF WithFolder
  <2> QED BY <2>1, <2>3, <2>4, <2>6 DEF Placed
<1> QED BY <1>1, <1>2

LEMMA PlacedDistinct ==
  ASSUME DriveOK, DriveTree(drive), DriveAssumption, NEW items, DOMAIN items \subseteq Item,
         Placed(items)
  PROVE  Distinct(items)
<1> SUFFICES ASSUME NEW i \in DOMAIN items, NEW j \in DOMAIN items, i # j, items[i].path # NoPath,
                    items[i].path = items[j].path
             PROVE  FALSE
  BY DEF Distinct
<1>1. PathOf[i] = PathOf[j] /\ Live(i) /\ Live(j) /\ i \in Item /\ j \in Item
  BY DEF Placed
<1> QED BY <1>1, PathsDiffer, PathOfIs DEF DriveOK, Live

LEMMA PutAllDistinct ==
  ASSUME DriveOK, DriveTree(drive), DriveAssumption, NEW items, NEW b, BatchOK(b, Top(drive)),
         Current(b, drive), NEW g, NEW last, Steps(items, b, g, last), Placed(items)
  PROVE  Distinct(last)
<1> DEFINE N == Len(b)
           S == {n \in Nat : Placed(g[n])}
<1>1. /\ N \in Nat /\ DOMAIN b = 1 .. N
      /\ \A n \in 1 .. N : b[n].id \in Item /\ ElementRight(b[n], drive)
  BY BatchElement
<1>2. ASSUME NEW m \in 1 .. N, Placed(g[m - 1]) PROVE Placed(g[m])
  <2> DEFINE e == b[m]
             old == g[m - 1]
             new == g[m]
  <2>1. /\ e.id \in Item /\ ElementRight(e, drive) /\ Placed(old) /\ Put(old, e, new)
    BY <1>1, <1>2 DEF Steps
  <2> HIDE DEF e, old, new
  <2>2. Placed(new)
    BY <2>1, PutPlaced
  <2> QED BY <2>2 DEF new
<1>3. Placed(g[N]) /\ Typed(g[N])
  <2>1. 0 \in S /\ (\A m \in 1 .. N : m - 1 \in S => m \in S) /\ N \in 0 .. N
    BY <1>1, <1>2 DEF Steps
  <2>2. N \in S
    <3> HIDE DEF S, N
    <3> QED BY <1>1, <2>1, UpTo
  <2> QED BY <2>1, <2>2 DEF Steps
<1>4. Distinct(g[N])
  BY <1>3, PlacedDistinct DEF Typed
<1>5. Passed(g[N], {}, last)
  BY NoTree DEF Steps
<1> QED BY <1>4, <1>5 DEF Passed

------------------------------------------------------------------------------
(* The cache as calls find it, while nothing was cached out of order: with  *)
(* a deltaLink what is cached is a tree, but for what went, and has all     *)
(* that was given to the cache as it is now. Without one, in the middle of  *)
(* a first round that is up to date, what is not to come is in its place.   *)
Linked(items, m) ==
  \E H : /\ Tree(items, H) /\ \A j \in DOMAIN items \ H : drive[j].at = "deleted"
         /\ m = {} => H = DOMAIN items
AllCached(items, h) ==
  \A i \in Item : Live(i) /\ h[i] = drive[i].ver => i \in DOMAIN items
Coming(token) == {token.rest[n] : n \in DOMAIN token.rest}
Midway(items, token) == \E H : Settled(items, H, Coming(token), FALSE)
PathsRight(s, h, m) ==
  /\ Typed(s.items) /\ \A i \in DOMAIN s.items : drive[i].at # "absent"
  /\ s.link # NoLink => Linked(s.items, m) /\ AllCached(s.items, h)
  /\ s.link = NoLink /\ s.next # NoToken /\ s.next.upto = clock => Midway(s.items, s.next)
  /\ m = {} => Distinct(s.items)
  /\ s.next # NoToken => s.next.rest # <<>>

(* What a first round under way to a cursor still holds of the rounds that  *)
(* went before: what the stored one is not to bring any more.               *)
Held(s, d, u) ==
  [i \in Item |->
     IF s.next # NoToken /\ s.next.upto = u /\ \A n \in DOMAIN s.next.rest : s.next.rest[n] # i
     THEN d[i].ver ELSE d[i].ver + 1]
PageRight(j, s, d, t) ==
  /\ j.persist =>
       /\ s.link = NoLink => Covers(j.token.upto, j.token.rest, j.batch, d, Held(s, d, j.token.upto))
       /\ j.token.upto = t \/ j.batch # <<>> \/ j.token.rest # <<>>
       /\ j.cursor # Keep => j.token.rest # <<>>
BringsRight(u, b, s, d, t) ==
  u # Keep =>
    /\ u.link # NoLink
    /\ u.next # NoToken => u.next.upto = u.link /\ u.next.rest # <<>>
    /\ s.link = NoLink => Covers(u.link, u.next.rest, b, d, Held(s, d, u.link))
    /\ u.link = t \/ b # <<>>
JobRight(j, s, d, t) ==
  j.late \subseteq {"behind"} =>
    /\ j.at = "page" => PageRight(j, s, d, t)
    /\ j.at = "write" => BringsRight(j.cursor, j.batch, s, d, t)
PInv ==
  mixed \subseteq {"behind"} =>
    PathsRight(cache, handed, mixed) /\ \A x \in Call : JobRight(job[x], cache, drive, clock)

(* A batch that is written to the cache.                                    *)
Writes(b, u, last) ==
  /\ mixed \subseteq {"behind"} /\ (mixed' = {} => mixed = {})
  /\ cache'.items = last
  /\ cache'.link = IF u = Keep \/ u.next # NoToken THEN cache.link ELSE u.link
  /\ cache'.next = IF u = Keep THEN cache.next ELSE u.next
  /\ handed' = [i \in Item |->
       Max({handed[i]} \cup {b[k].ver : k \in {k \in DOMAIN b : b[k].id = i}})]
  /\ NoLoss(cache.items, b, last)
  /\ b = <<>> \/ Position(cache') \in {NoLink, clock}
  /\ mixed' = {} /\ cache.link = NoLink => Placed(cache.items)
  /\ u # Keep \/ cache'.next # NoToken => NotAhead(b, Coming(cache'.next))
  /\ u = Keep /\ cache'.next = NoToken => LooseOrder(b)

Stores(s, put, u) == WithCursor([s EXCEPT !.items = put.items, !.tombs = put.tombs], u)

LEMMA StoredBy ==
  ASSUME NEW s, Carries(s, {"items", "tombs", "link", "next"}), NEW put, NEW u
  PROVE  /\ Stores(s, put, u).items = put.items
         /\ Stores(s, put, u).link = IF u = Keep \/ u.next # NoToken THEN s.link ELSE u.link
         /\ Stores(s, put, u).next = IF u = Keep THEN s.next ELSE u.next
<1> DEFINE mid == [s EXCEPT !.items = put.items, !.tombs = put.tombs]
<1>0. Stores(s, put, u) = WithCursor(mid, u)
  BY DEF Stores
<1>1. /\ Carries(mid, {"items", "tombs", "link", "next"})
      /\ mid.items = put.items /\ mid.link = s.link /\ mid.next = s.next
  BY DEF Carries
<1> HIDE DEF mid
<1>2. CASE u = Keep
  BY <1>0, <1>1, <1>2 DEF WithCursor
<1>3. CASE u # Keep
  <2> DEFINE one == [mid EXCEPT !.link = IF u.next # NoToken THEN @ ELSE u.link]
  <2>1. /\ Carries(one, {"items", "tombs", "link", "next"})
        /\ one.items = put.items /\ one.next = s.next
        /\ one.link = IF u.next # NoToken THEN s.link ELSE u.link
    BY <1>1 DEF Carries
  <2>2. WithCursor(mid, u) = [one EXCEPT !.next = u.next]
    BY <1>3, <1>1 DEF WithCursor, Carries
  <2> HIDE DEF one
  <2>3. /\ WithCursor(mid, u).items = one.items /\ WithCursor(mid, u).link = one.link
        /\ WithCursor(mid, u).next = u.next
    BY <2>1, <2>2 DEF Carries
  <2> QED BY <1>0, <1>3, <2>1, <2>3
<1> QED BY <1>2, <1>3

LEMMA WriteIs ==
  ASSUME CInv, NEW c \in Call, NEW b, BatchOK(b, Top(drive)), NEW u, NEW next, NEW why,
         LET put == PutAll(cache.items, cache.tombs, b, Folder)
             new == WithCursor([cache EXCEPT !.items = put.items, !.tombs = put.tombs], u)
         IN /\ cache' = new
            /\ handed' = [i \in Item |->
                 Max({handed[i]} \cup {b[k].ver : k \in {k \in DOMAIN b : b[k].id = i}})]
            /\ mixed' = mixed \cup job[c].late \cup
                 (IF b = <<>> \/ Position(new) \in {NoLink, clock} THEN {} ELSE {"change"}) \cup
                 {"loss" : i \in {i \in Item : /\ Live(i) /\ i \notin DOMAIN put.items
                                          /\ \/ i \in DOMAIN cache.items
                                             \/ \E k \in DOMAIN b : b[k].id = i}} \cup
                 {"behind" : i \in {i \in Misplaced : cache.link = NoLink}} \cup
                 {"ahead" : k \in Ahead(b, u, new.next)},
         mixed' \subseteq {"behind"}
  PROVE  /\ job[c].late \subseteq {"behind"}
         /\ Writes(b, u, PutAll(cache.items, cache.tombs, b, Folder).items)
<1> DEFINE put == PutAll(cache.items, cache.tombs, b, Folder)
           new == Stores(cache, put, u)
           lost == {i \in Item : /\ Live(i) /\ i \notin DOMAIN put.items
                                          /\ \/ i \in DOMAIN cache.items
                                             \/ \E k \in DOMAIN b : b[k].id = i}
           off == {i \in Misplaced : cache.link = NoLink}
           early == Ahead(b, u, new.next)
<1>1. /\ cache' = new
      /\ handed' = [i \in Item |->
                 Max({handed[i]} \cup {b[k].ver : k \in {k \in DOMAIN b : b[k].id = i}})]
      /\ mixed' = mixed \cup job[c].late \cup
                 (IF b = <<>> \/ Position(new) \in {NoLink, clock} THEN {} ELSE {"change"}) \cup
                 {"loss" : i \in lost} \cup {"behind" : i \in off} \cup {"ahead" : k \in early}
  BY DEF Stores
<1>2. /\ new.items = put.items
      /\ new.link = IF u = Keep \/ u.next # NoToken THEN cache.link ELSE u.link
      /\ new.next = IF u = Keep THEN cache.next ELSE u.next
  <2>1. Carries(cache, {"items", "tombs", "link", "next"})
    BY DEF CInv, StoredOK
  <2> HIDE DEF put
  <2> QED BY <2>1, StoredBy
<1>3. Len(b) \in Nat /\ DOMAIN b = 1 .. Len(b)
  BY BatchLen
<1> HIDE DEF put, new, lost, off, early
<1>4. /\ mixed \subseteq {"behind"} /\ job[c].late \subseteq {"behind"}
      /\ b = <<>> \/ Position(cache') \in {NoLink, clock}
      /\ mixed' = {} => mixed = {} /\ off = {}
      /\ lost = {} /\ early = {}
  <2>1. ASSUME NEW x \in lost PROVE FALSE
    <3>1. "loss" \in {"loss" : i \in lost}
      OBVIOUS
    <3>2. "loss" \in mixed'
      BY <1>1, <3>1
    <3>3. "loss" # "behind"
      OBVIOUS
    <3> QED BY <3>2, <3>3
  <2>2. ASSUME NEW x \in early PROVE FALSE
    BY <1>1
  <2>3. ASSUME NEW x \in off, mixed' = {} PROVE FALSE
    BY <1>1, <2>3
  <2>4. mixed \subseteq {"behind"} /\ job[c].late \subseteq {"behind"} /\ (mixed' = {} => mixed = {})
    BY <1>1
  <2>5. b = <<>> \/ Position(cache') \in {NoLink, clock}
    <3> SUFFICES ASSUME ~(b = <<>> \/ Position(new) \in {NoLink, clock}) PROVE FALSE
      BY <1>1
    <3>1. "change" \in mixed'
      BY <1>1
    <3> QED BY <3>1
  <2> QED BY <2>1, <2>2, <2>3, <2>4, <2>5
<1>5. NoLoss(cache.items, b, put.items)
  BY <1>3, <1>4 DEF NoLoss, lost, Ids
<1>6. mixed' = {} /\ cache.link = NoLink => Placed(cache.items)
  <2> SUFFICES ASSUME mixed' = {}, cache.link = NoLink, NEW i \in DOMAIN cache.items
               PROVE  Live(i) /\ cache.items[i].path = PathOf[i]
    BY DEF Placed
  <2>1. i \notin Misplaced
    BY <1>4 DEF off
  <2> QED BY <2>1 DEF Misplaced
<1> DEFINE any(k) == u = Keep /\ new.next = NoToken /\ b[k].path # NoPath
<1>7. ASSUME NEW n \in 1 .. Len(b), NEW a \in Item \ {b[n].id}, Inside(b[n].id, a)
      PROVE  /\ \A m \in DOMAIN new.next.rest : new.next.rest[m] # a
             /\ ~any(n) => \A m \in DOMAIN b : m > n => b[m].id # a
  <2> DEFINE toCome == {i \in Item :
                 \/ \E m \in DOMAIN new.next.rest : new.next.rest[m] = i
                 \/ \E m \in DOMAIN b : m > n /\ b[m].id = i /\ ~any(n)}
  <2>1. n \notin early /\ n \in DOMAIN b
    BY <1>3, <1>4
  <2>2. \A i \in toCome \ {b[n].id} : ~Inside(b[n].id, i)
    BY <2>1 DEF early, Ahead
  <2>3. a \notin toCome
    BY <1>7, <2>2
  <2> QED BY <2>3
<1>8. ASSUME NEW n \in 1 .. Len(b), NEW m \in n + 1 .. Len(b) PROVE m \in DOMAIN b /\ m > n
  BY <1>3, <1>8
<1>9. u # Keep \/ cache'.next # NoToken => NotAhead(b, Coming(cache'.next))
  <2> SUFFICES ASSUME u # Keep \/ new.next # NoToken, NEW n \in 1 .. Len(b), NEW a \in Item \ {b[n].id},
                      Inside(b[n].id, a)
               PROVE  a \notin Later(b, n, Coming(new.next))
    BY <1>1 DEF NotAhead
  <2>1. ~any(n)
    OBVIOUS
  <2> HIDE DEF any
  <2> QED BY <1>7, <1>8, <2>1 DEF Later, Ids, Coming
<1>10. u = Keep /\ cache'.next = NoToken => LooseOrder(b)
  <2> SUFFICES ASSUME NEW n \in 1 .. Len(b), b[n].path = NoPath, NEW a \in Item \ {b[n].id},
                      Inside(b[n].id, a)
               PROVE  a \notin Later(b, n, {})
    BY DEF LooseOrder
  <2>1. ~any(n)
    OBVIOUS
  <2> HIDE DEF any
  <2> QED BY <1>7, <1>8, <2>1 DEF Later, Ids
<1> HIDE DEF any
<1>11. Writes(b, u, put.items)
  BY <1>1, <1>2, <1>4, <1>5, <1>6, <1>9, <1>10 DEF Writes
<1> QED BY <1>4, <1>11 DEF put

(* What is cached after a batch is there, or was when it was cached.        *)
LEMMA WrittenTyped ==
  ASSUME DriveOK, DriveTree(drive), DriveAssumption, NEW items, NEW b, BatchOK(b, Top(drive)),
         Current(b, drive), NEW g, NEW last, Steps(items, b, g, last),
         \A i \in DOMAIN items : drive[i].at # "absent"
  PROVE  /\ Typed(last) /\ \A i \in DOMAIN last : drive[i].at # "absent"
         /\ \A i \in DOMAIN last : i \in DOMAIN items \/ Live(i)
<1>1. /\ Len(b) \in Nat /\ DOMAIN b = 1 .. Len(b)
      /\ \A n \in 1 .. Len(b) : b[n].id \in Item /\ ElementRight(b[n], drive)
  BY BatchElement
<1>2. 0 \in 0 .. Len(b) /\ g[0] = items
  BY <1>1 DEF Steps
<1>3. DOMAIN last \subseteq DOMAIN items \cup Ids(b, Kept(b, 0, Len(b)))
  BY <1>1, <1>2, StepsShrink
<1>4. \A k \in Kept(b, 0, Len(b)) : k \in 1 .. Len(b) /\ ~b[k].deleted
  BY <1>1 DEF Kept
<1>5. \A k \in Kept(b, 0, Len(b)) : drive[b[k].id].at = "live"
  BY <1>1, <1>4 DEF ElementRight
<1>6. \A i \in DOMAIN last : i \in DOMAIN items \/ Live(i)
  BY <1>3, <1>5 DEF Ids, Live
<1>7. Typed(last)
  BY NoTree DEF Steps, Passed
<1> QED BY <1>6, <1>7 DEF Live

LEMMA NotThereDeleted ==
  ASSUME DriveOK, NEW i \in Item, ~Live(i), drive[i].at # "absent" PROVE drive[i].at = "deleted"
BY DEF DriveOK, DriveRecords, Live

LEMMA OthersHanded ==
  ASSUME DriveOK, HandedOK(handed, drive), NEW b, BatchOK(b, Top(drive)),
         handed' = [i \in Item |->
           Max({handed[i]} \cup {b[k].ver : k \in {k \in DOMAIN b : b[k].id = i}})],
         NEW i \in Item, i \notin Ids(b, 1 .. Len(b))
  PROVE  handed'[i] = handed[i]
<1>1. DOMAIN b = 1 .. Len(b)
  BY BatchLen
<1>2. {handed[i]} \cup {b[k].ver : k \in {k \in DOMAIN b : b[k].id = i}} = {handed[i]}
  BY <1>1 DEF Ids
<1>3. handed[i] \in Nat
  BY DEF HandedOK
<1>4. Max({handed[i]}) = handed[i]
  <2> DEFINE S == {handed[i]}
  <2>1. S \subseteq Nat /\ S # {} /\ \A x \in S : x <= handed[i]
    BY <1>3
  <2> HIDE DEF S
  <2>2. Max(S) \in S
    BY <1>3, <2>1, MaxOf
  <2> QED BY <2>2 DEF S
<1> QED BY <1>2, <1>4

(* What is cached up to the last change.                                    *)
LEMMA AllGiven ==
  ASSUME DriveOK, InTime(drive, clock), NEW s, NEW h, NEW m, m \subseteq {"behind"},
         StoredOK(s, drive, clock, h, m), s.next # NoToken \/ s.link # NoLink, Position(s) = clock,
         NEW i \in Item, Live(i), i \notin Coming(s.next)
  PROVE  h[i] = drive[i].ver
<1>1. "clear" \notin m
  OBVIOUS
<1>2. ~Given(<<>>, i, drive[i].ver)
  BY EmptyBatch DEF Given
<1>3. drive[i].at = "live" /\ drive[i].changed <= clock
  BY DEF InTime, Live
<1>4. CASE s.next # NoToken
  <2>1. s.next.upto = clock
    BY <1>4 DEF Position
  <2>2. Covers(clock, s.next.rest, <<>>, drive, h)
    BY <1>1, <1>4, <2>1 DEF StoredOK
  <2> QED BY <1>2, <1>3, <2>2 DEF Covers, Coming
<1>5. CASE s.next = NoToken
  <2>1. s.link = clock /\ s.link # NoLink
    BY <1>5 DEF Position
  <2>2. Covers(clock, <<>>, <<>>, drive, h)
    BY <1>1, <2>1 DEF StoredOK
  <2> QED BY <1>2, <1>3, <2>2, EmptyBatch DEF Covers
<1> QED BY <1>4, <1>5

LEMMA AtClock ==
  ASSUME DriveOK, NEW s, NEW h, NEW m, StoredOK(s, drive, clock, h, m),
         s.next # NoToken \/ s.link # NoLink, Position(s) \in {NoLink, clock}
  PROVE  Position(s) = clock
BY DEF StoredOK, TokenOK, Position, NoLink, DriveOK

LEMMA NoneToCome == Coming(NoToken) = {}
BY EmptyBatch DEF Coming, NoToken

LEMMA TreeDistinct == ASSUME NEW items, Tree(items, DOMAIN items) PROVE Distinct(items)
BY DEF Tree, Distinct

LEMMA EmptySteps ==
  ASSUME NEW items, NEW g, NEW last, Steps(items, <<>>, g, last), NEW H, Tree(items, H)
  PROVE  Passed(items, H, last)
<1>1. Len(<<>>) = 0
  BY EmptySeq, LenProperties
<1> QED BY <1>1 DEF Steps

(* What a batch is written to, and what is then there.                      *)
WriteGiven(b, u, g, last) ==
  /\ CInv /\ DriveTree(drive)
  /\ PathsRight(cache, handed, mixed)
  /\ BatchOK(b, Top(drive)) /\ Current(b, drive)
  /\ (u = [link |-> NoLink, next |-> NoToken] /\ b = <<>>) \/ BringsRight(u, b, cache, drive, clock)
  /\ Steps(cache.items, b, g, last) /\ Writes(b, u, last)
  /\ mixed' \subseteq {"behind"} /\ StoredOK(cache', drive, clock, handed', mixed')

LEMMA GivenIs ==
  ASSUME DriveAssumption, NEW b, NEW u, NEW g, NEW last, WriteGiven(b, u, g, last)
  PROVE  /\ DriveOK /\ InTime(drive, clock) /\ HandedOK(handed, drive)
         /\ RightItems(cache.items, drive, handed)
         /\ Typed(cache.items) /\ \A i \in DOMAIN cache.items : drive[i].at # "absent"
         /\ Typed(last) /\ \A i \in DOMAIN last : drive[i].at # "absent"
         /\ \A i \in DOMAIN last : i \in DOMAIN cache.items \/ Live(i)
         /\ Len(b) \in Nat /\ NoLoss(cache.items, b, last)
         /\ \A i \in Item \ Ids(b, 1 .. Len(b)) : handed'[i] = handed[i]
<1>1. /\ DriveOK /\ InTime(drive, clock) /\ HandedOK(handed, drive)
      /\ RightItems(cache.items, drive, handed)
  BY DEF WriteGiven, CInv, InOrder, Writes
<1>2. /\ DriveTree(drive) /\ BatchOK(b, Top(drive)) /\ Current(b, drive)
      /\ Steps(cache.items, b, g, last) /\ \A i \in DOMAIN cache.items : drive[i].at # "absent"
      /\ Typed(cache.items)
  BY DEF WriteGiven, PathsRight
<1>3. /\ Typed(last) /\ \A i \in DOMAIN last : drive[i].at # "absent"
      /\ \A i \in DOMAIN last : i \in DOMAIN cache.items \/ Live(i)
  BY <1>1, <1>2, WrittenTyped
<1>4. Len(b) \in Nat
  BY <1>2, BatchLen
<1>5. NoLoss(cache.items, b, last)
      /\ handed' = [i \in Item |->
           Max({handed[i]} \cup {b[k].ver : k \in {k \in DOMAIN b : b[k].id = i}})]
  BY DEF WriteGiven, Writes
<1>6. \A i \in Item \ Ids(b, 1 .. Len(b)) : handed'[i] = handed[i]
  BY <1>1, <1>2, <1>5, OthersHanded
<1> QED BY <1>1, <1>2, <1>3, <1>4, <1>5, <1>6

(* Beside a deltaLink all that was given to the cache is in it.             *)
LEMMA StillAllCached ==
  ASSUME DriveAssumption, NEW b, NEW u, NEW g, NEW last, WriteGiven(b, u, g, last), cache.link # NoLink
  PROVE  AllCached(last, handed')
<1> SUFFICES ASSUME NEW i \in Item, Live(i), handed'[i] = drive[i].ver PROVE i \in DOMAIN last
  BY DEF AllCached
<1>1. /\ NoLoss(cache.items, b, last)
      /\ \A k \in Item \ Ids(b, 1 .. Len(b)) : handed'[k] = handed[k]
  BY GivenIs
<1>2. AllCached(cache.items, handed)
  BY DEF WriteGiven, PathsRight
<1> QED BY <1>1, <1>2 DEF NoLoss, AllCached

LEMMA StillLinked ==
  ASSUME DriveAssumption, NEW b, NEW u, NEW g, NEW last, WriteGiven(b, u, g, last),
         cache.link # NoLink, b = <<>>
  PROVE  Linked(last, mixed')
<1>1. PICK H : /\ Tree(cache.items, H) /\ \A j \in DOMAIN cache.items \ H : drive[j].at = "deleted"
               /\ mixed = {} => H = DOMAIN cache.items
  BY DEF WriteGiven, PathsRight, Linked
<1>2. Steps(cache.items, <<>>, g, last) /\ (mixed' = {} => mixed = {})
  BY DEF WriteGiven, Writes
<1>3. Passed(cache.items, H, last)
  BY <1>1, <1>2, EmptySteps
<1>4. Tree(last, H \cap DOMAIN last) /\ DOMAIN last \subseteq DOMAIN cache.items
  BY <1>3 DEF Passed
<1>5. mixed' = {} => H \cap DOMAIN last = DOMAIN last
  BY <1>1, <1>2, <1>4
<1> QED BY <1>1, <1>4, <1>5 DEF Linked

(* Items that are settled, and all that went was deleted.                   *)
LEMMA SettledLinked ==
  ASSUME DriveOK, NEW items, DOMAIN items \subseteq Item, \A i \in DOMAIN items : drive[i].at # "absent",
         NEW H, Tree(items, H), \A j \in DOMAIN items \ H : ~Live(j), NEW m,
         m = {} => H = DOMAIN items
  PROVE  Linked(items, m)
<1>1. \A j \in DOMAIN items \ H : drive[j].at = "deleted"
  BY NotThereDeleted
<1> QED BY <1>1 DEF Linked

(* In the order of the drive, with the rest of a round to come.             *)
LEMMA LinkedInOrder ==
  ASSUME DriveAssumption, NEW b, NEW u, NEW g, NEW last, WriteGiven(b, u, g, last),
         cache.link # NoLink, b # <<>>, cache'.link # NoLink, u # Keep \/ cache'.next # NoToken
  PROVE  Linked(last, mixed')
<1> DEFINE W == Coming(cache'.next)
           Q == Later(b, 0, W)
<1>1. PICK H : /\ Tree(cache.items, H) /\ \A j \in DOMAIN cache.items \ H : drive[j].at = "deleted"
               /\ mixed = {} => H = DOMAIN cache.items
  BY DEF WriteGiven, PathsRight, Linked
<1>2. /\ DriveOK /\ InTime(drive, clock) /\ DriveTree(drive) /\ BatchOK(b, Top(drive))
      /\ Current(b, drive) /\ Steps(cache.items, b, g, last)
  BY GivenIs DEF WriteGiven
<1>3. /\ RightItems(cache.items, drive, handed) /\ NoLoss(cache.items, b, last)
      /\ \A i \in Item \ Ids(b, 1 .. Len(b)) : handed'[i] = handed[i]
      /\ Len(b) \in Nat /\ Typed(cache.items)
      /\ Typed(last) /\ \A i \in DOMAIN last : drive[i].at # "absent"
  BY GivenIs
<1>4. NotAhead(b, W) /\ (mixed' = {} => mixed = {})
  BY DEF WriteGiven, Writes
<1>5. \A i \in Item \ W : Live(i) => handed'[i] = drive[i].ver
  <2>1. /\ StoredOK(cache', drive, clock, handed', mixed') /\ mixed' \subseteq {"behind"}
        /\ Position(cache') \in {NoLink, clock}
    BY DEF WriteGiven, Writes
  <2>2. Position(cache') = clock
    BY <1>2, <2>1, AtClock
  <2> QED BY <1>2, <2>1, <2>2, AllGiven
<1>6. AllCached(cache.items, handed)
  BY DEF WriteGiven, PathsRight
<1>7. Q = Ids(b, 1 .. Len(b)) \cup W
  BY <1>3, LaterIs
<1> HIDE DEF W, Q
<1>8. ASSUME NEW i \in Item \ Q, Live(i)
      PROVE  /\ i \in H /\ cache.items[i].name = drive[i].name
             /\ cache.items[i].parent = drive[i].parent
  <2>1. handed[i] = drive[i].ver
    BY <1>3, <1>5, <1>7, <1>8
  <2>2. i \in DOMAIN cache.items
    BY <1>6, <1>8, <2>1 DEF AllCached
  <2>3. i \in H
    BY <1>1, <1>8, <2>2 DEF Live
  <2> QED BY <1>3, <2>1, <2>2, <2>3 DEF RightItems
<1>9. Ordered(cache.items, H, Q, TRUE)
  <2>1. \A j \in DOMAIN cache.items \ H : ~Live(j)
    BY <1>1 DEF Live
  <2> QED BY <1>1, <1>3, <1>8, <2>1 DEF Ordered
<1>10. Ordered(cache.items, H, Later(b, 0, W), TRUE)
  BY <1>9 DEF Q
<1>11. PICK G : Settled(last, G, W, TRUE) /\ (H = DOMAIN cache.items => G = DOMAIN last)
  <2> DEFINE items == cache.items
             v == TRUE
  <2>1. v \in BOOLEAN /\ Ordered(items, H, Later(b, 0, W), v)
    BY <1>10
  <2>2. NotAhead(b, W) /\ NoLoss(items, b, last) /\ Steps(items, b, g, last)
    BY <1>2, <1>3, <1>4
  <2> HIDE DEF items, v
  <2>3. \E G : Settled(last, G, W, v) /\ (H = DOMAIN items => G = DOMAIN last)
    BY <1>2, <2>1, <2>2, PutAllOrdered
  <2> QED BY <2>3 DEF items, v
<1>12. Tree(last, G) /\ \A j \in DOMAIN last \ G : ~Live(j)
  BY <1>11 DEF Settled
<1>13. mixed' = {} => G = DOMAIN last
  BY <1>1, <1>4, <1>11
<1>14. DOMAIN last \subseteq Item
  BY <1>3 DEF Typed
<1> QED BY <1>2, <1>3, <1>12, <1>13, <1>14, SettledLinked

(* On top of all there is.                                                  *)
LEMMA LinkedLoose ==
  ASSUME DriveAssumption, NEW b, NEW u, NEW g, NEW last, WriteGiven(b, u, g, last),
         cache.link # NoLink, b # <<>>, u = Keep, cache'.next = NoToken
  PROVE  Linked(last, mixed')
<1> DEFINE G == {i \in Item : Live(i)}
<1>1. PICK H : /\ Tree(cache.items, H) /\ \A j \in DOMAIN cache.items \ H : drive[j].at = "deleted"
               /\ mixed = {} => H = DOMAIN cache.items
  BY DEF WriteGiven, PathsRight, Linked
<1>2. /\ DriveOK /\ InTime(drive, clock) /\ DriveTree(drive) /\ BatchOK(b, Top(drive))
      /\ Current(b, drive) /\ Steps(cache.items, b, g, last)
  BY GivenIs DEF WriteGiven
<1>3. /\ RightItems(cache.items, drive, handed) /\ NoLoss(cache.items, b, last)
      /\ Typed(cache.items)
      /\ Typed(last) /\ \A i \in DOMAIN last : drive[i].at # "absent"
  BY GivenIs
<1>4. LooseOrder(b) /\ (mixed' = {} => mixed = {}) /\ cache.next = NoToken
      /\ cache'.link = cache.link /\ Position(cache') \in {NoLink, clock} /\ mixed \subseteq {"behind"}
  BY DEF WriteGiven, Writes
<1>5. StoredOK(cache, drive, clock, handed, mixed)
  BY DEF WriteGiven, CInv
<1>6. Position(cache) = clock
  <2>1. Position(cache) \in {NoLink, clock}
    BY <1>4 DEF Position
  <2> QED BY <1>2, <1>5, <2>1, AtClock
<1>7. ASSUME NEW i \in Item, Live(i)
      PROVE  /\ i \in H /\ cache.items[i].name = drive[i].name
             /\ cache.items[i].parent = drive[i].parent
  <2>1. i \notin Coming(cache.next)
    BY <1>4, NoneToCome
  <2>2. handed[i] = drive[i].ver
    BY <1>2, <1>4, <1>5, <1>6, <1>7, <2>1, AllGiven
  <2>3. i \in DOMAIN cache.items
    BY <1>7, <2>2 DEF AllCached, WriteGiven, PathsRight
  <2>4. i \in H
    BY <1>1, <1>7, <2>3 DEF Live
  <2> QED BY <1>3, <2>2, <2>3, <2>4 DEF RightItems
<1>8. ASSUME NEW i \in Item, Live(i) PROVE i \in DOMAIN cache.items /\ InPlace(cache.items, i)
  <2>1. \A a \in Item : Live(a) /\ Inside(i, a) =>
          a \in H /\ cache.items[a].name = drive[a].name /\ cache.items[a].parent = drive[a].parent
    BY <1>7
  <2>2. i \in H /\ cache.items[i].path = PathOf[i]
    BY <1>1, <1>2, <1>3, <1>8, <2>1, RightPaths
  <2>3. i \in DOMAIN cache.items
    BY <1>1, <2>2 DEF Tree
  <2> QED BY <1>7, <1>8, <2>2, <2>3 DEF InPlace
<1>9. LiveRight(cache.items) /\ \A i \in Item : Live(i) => i \in DOMAIN cache.items
  BY <1>3, <1>8 DEF LiveRight, Typed
<1>10. Settled(last, G, {}, TRUE)
  BY <1>2, <1>3, <1>4, <1>9, PutAllLive
<1>11. DOMAIN last \subseteq Item
  BY <1>3 DEF Typed
<1>12. CASE mixed' # {}
  <2>1. Tree(last, G) /\ \A j \in DOMAIN last \ G : ~Live(j)
    BY <1>10 DEF Settled
  <2> HIDE DEF G
  <2> QED BY <1>2, <1>3, <1>11, <1>12, <2>1, SettledLinked
<1>13. CASE mixed' = {}
  <2>1. Whole(cache.items)
    BY <1>1, <1>3, <1>4, <1>9, <1>13 DEF Whole
  <2>2. Tree(last, DOMAIN last)
    BY <1>2, <2>1, PutAllWhole
  <2> QED BY <2>2 DEF Linked
<1> QED BY <1>12, <1>13

(* In the middle of a first round.                                          *)
MidwayFrom(b, W, last, H) ==
  Ordered(cache.items, H, Later(b, 0, W), FALSE) /\ NotAhead(b, W)

LEMMA MidwaySettles ==
  ASSUME DriveAssumption, NEW b, NEW u, NEW g, NEW last, WriteGiven(b, u, g, last),
         NEW W, NEW H, MidwayFrom(b, W, last, H)
  PROVE  \E G : Settled(last, G, W, FALSE)
<1> DEFINE items == cache.items
           v == FALSE
<1>1. /\ DriveOK /\ InTime(drive, clock) /\ DriveTree(drive) /\ BatchOK(b, Top(drive))
      /\ Current(b, drive) /\ Steps(items, b, g, last) /\ NoLoss(items, b, last)
  BY GivenIs DEF WriteGiven
<1>2. v \in BOOLEAN /\ Ordered(items, H, Later(b, 0, W), v) /\ NotAhead(b, W)
  BY DEF MidwayFrom
<1> HIDE DEF items, v
<1>3. \E G : Settled(last, G, W, v) /\ (H = DOMAIN items => G = DOMAIN last)
  BY <1>1, <1>2, PutAllOrdered
<1> QED BY <1>3 DEF v

(* What is brought on the way beside the round.                             *)
LEMMA MidwayBeside ==
  ASSUME DriveAssumption, NEW b, NEW u, NEW g, NEW last, WriteGiven(b, u, g, last),
         cache.link = NoLink, u = Keep, cache.next # NoToken, cache.next.upto = clock
  PROVE  Midway(last, cache'.next)
<1> DEFINE W == Coming(cache.next)
<1>1. PICK H : Settled(cache.items, H, W, FALSE)
  BY DEF WriteGiven, PathsRight, Midway
<1>2. cache'.next = cache.next /\ NotAhead(b, W)
  BY DEF WriteGiven, Writes
<1>3. Len(b) \in Nat /\ Typed(cache.items)
  BY GivenIs
<1>4. Later(b, 0, W) = Ids(b, 1 .. Len(b)) \cup W
  BY <1>3, LaterIs
<1> HIDE DEF W
<1>5. Ordered(cache.items, H, Later(b, 0, W), FALSE)
  BY <1>1, <1>3, <1>4 DEF Settled, Ordered
<1>6. \E G : Settled(last, G, W, FALSE)
  BY <1>2, <1>5, MidwaySettles DEF MidwayFrom
<1> QED BY <1>2, <1>6 DEF Midway, W

(* What a page of the round brings.                                         *)
LEMMA MidwayBrings ==
  ASSUME DriveAssumption, NEW b, NEW u, NEW g, NEW last, WriteGiven(b, u, g, last),
         cache.link = NoLink, u # Keep, u.link # NoLink
  PROVE  /\ \E G : Settled(last, G, Coming(u.next), FALSE)
         /\ cache'.next = u.next
         /\ cache'.link = IF u.next # NoToken THEN NoLink ELSE u.link
<1> DEFINE W == Coming(u.next)
           held == Held(cache, drive, u.link)
<1>1. /\ cache'.next = u.next /\ NotAhead(b, W)
      /\ cache'.link = IF u.next # NoToken THEN NoLink ELSE u.link
      /\ b = <<>> \/ Position(cache') \in {NoLink, clock}
  BY DEF WriteGiven, Writes
<1>2. BringsRight(u, b, cache, drive, clock)
  BY DEF WriteGiven
<1>3. /\ u.next # NoToken => u.next.upto = u.link
      /\ Covers(u.link, u.next.rest, b, drive, held)
      /\ u.link = clock \/ b # <<>>
  BY <1>2 DEF BringsRight
<1>4. u.link = clock
  BY <1>1, <1>3 DEF Position
<1>5. /\ DriveOK /\ InTime(drive, clock) /\ Typed(cache.items) /\ Len(b) \in Nat
      /\ DOMAIN b = 1 .. Len(b)
  <2>1. BatchOK(b, Top(drive))
    BY DEF WriteGiven
  <2> QED BY <2>1, BatchLen, GivenIs
<1>6. Later(b, 0, W) = Ids(b, 1 .. Len(b)) \cup W
  BY <1>5, LaterIs
<1>7. ASSUME NEW i \in Item, Live(i), i \notin Later(b, 0, W)
      PROVE  /\ cache.next # NoToken /\ cache.next.upto = clock /\ i \notin Coming(cache.next)
  <2>1. drive[i].at = "live" /\ drive[i].changed <= u.link
    BY <1>4, <1>5, <1>7 DEF Live, InTime
  <2>2. ~Given(b, i, drive[i].ver)
    BY <1>5, <1>6, <1>7 DEF Given, Ids
  <2>3. \A n \in DOMAIN u.next.rest : u.next.rest[n] # i
    BY <1>6, <1>7 DEF Coming
  <2> HIDE DEF held
  <2>4. held[i] = drive[i].ver
    BY <1>3, <2>1, <2>2, <2>3 DEF Covers
  <2>5. drive[i].ver # drive[i].ver + 1
    BY <1>5 DEF DriveOK, DriveRecords
  <2> QED BY <1>4, <2>4, <2>5 DEF held, Held, Coming
<1> DEFINE Q == Later(b, 0, W)
<1>8. \E H : Ordered(cache.items, H, Q, FALSE)
  <2>1. CASE cache.next # NoToken /\ cache.next.upto = clock
    <3>1. PICK H : Settled(cache.items, H, Coming(cache.next), FALSE)
      BY <2>1 DEF WriteGiven, PathsRight, Midway
    <3>2. \A i \in Item \ Q : Live(i) => i \in H
      BY <1>7, <3>1 DEF Settled
    <3> HIDE DEF Q
    <3>3. Ordered(cache.items, H, Q, FALSE)
      BY <1>5, <3>1, <3>2 DEF Settled, Ordered
    <3> QED BY <3>3
  <2>2. CASE ~(cache.next # NoToken /\ cache.next.upto = clock)
    <3>1. \A i \in Item \ Q : ~Live(i)
      BY <1>7, <2>2
    <3> HIDE DEF Q
    <3>2. Ordered(cache.items, {}, Q, FALSE)
      BY <1>5, <3>1, NoTree DEF Ordered
    <3> QED BY <3>2
  <2> QED BY <2>1, <2>2
<1>9. PICK H : Ordered(cache.items, H, Later(b, 0, W), FALSE)
  BY <1>8
<1> HIDE DEF W, Q
<1>10. \E G : Settled(last, G, W, FALSE)
  BY <1>1, <1>9, MidwaySettles DEF MidwayFrom
<1> QED BY <1>1, <1>10 DEF W

(* The end of a first round.                                                *)
LEMMA FirstLinked ==
  ASSUME DriveAssumption, NEW b, NEW u, NEW g, NEW last, WriteGiven(b, u, g, last),
         cache.link = NoLink, u # Keep, u.next = NoToken, u.link # NoLink
  PROVE  Linked(last, mixed') /\ AllCached(last, handed')
<1>1. PICK G : Settled(last, G, {}, FALSE)
  BY MidwayBrings, NoneToCome
<1>2. /\ Tree(last, G) /\ \A i \in Item : Live(i) => i \in G
      /\ \A h \in G : Live(h)
  BY <1>1 DEF Settled
<1>3. /\ DriveOK /\ Typed(last) /\ \A i \in DOMAIN last : drive[i].at # "absent"
      /\ \A i \in DOMAIN last : i \in DOMAIN cache.items \/ Live(i)
  BY GivenIs
<1>4. G \subseteq DOMAIN last /\ DOMAIN last \subseteq Item
  BY <1>2, <1>3 DEF Tree, Typed
<1>5. mixed' = {} => G = DOMAIN last
  <2> SUFFICES ASSUME mixed' = {} PROVE \A i \in DOMAIN last : Live(i)
    BY <1>2, <1>4
  <2>1. Placed(cache.items)
    BY DEF WriteGiven, Writes
  <2> QED BY <1>3, <2>1 DEF Placed
<1>6. \A j \in DOMAIN last \ G : ~Live(j)
  BY <1>2, <1>4
<1>7. Linked(last, mixed')
  BY <1>2, <1>3, <1>4, <1>5, <1>6, SettledLinked
<1> QED BY <1>2, <1>4, <1>7 DEF AllCached

(* No two at one path.                                                      *)
LEMMA StillDistinct ==
  ASSUME DriveAssumption, NEW b, NEW u, NEW g, NEW last, WriteGiven(b, u, g, last),
         mixed' = {}, cache.link # NoLink /\ b # <<>> => Linked(last, mixed')
  PROVE  Distinct(last)
<1>1. CASE b = <<>>
  <2>1. Steps(cache.items, <<>>, g, last) /\ Distinct(cache.items)
    BY <1>1 DEF WriteGiven, Writes, PathsRight
  <2>2. Passed(cache.items, {}, last)
    BY <2>1, NoTree, EmptySteps
  <2> QED BY <2>1, <2>2 DEF Passed
<1>2. CASE cache.link = NoLink
  <2>1. Placed(cache.items)
    BY <1>2 DEF WriteGiven, Writes
  <2>2. /\ DriveOK /\ DriveTree(drive) /\ BatchOK(b, Top(drive)) /\ Current(b, drive)
        /\ Steps(cache.items, b, g, last)
    BY GivenIs DEF WriteGiven
  <2> QED BY <2>1, <2>2, PutAllDistinct
<1>3. CASE cache.link # NoLink /\ b # <<>>
  <2>1. Tree(last, DOMAIN last)
    BY <1>3 DEF Linked
  <2> QED BY <2>1, TreeDistinct
<1> QED BY <1>1, <1>2, <1>3

(* A write leaves the cache right.                                          *)
LEMMA WritePaths ==
  ASSUME DriveAssumption, NEW b, NEW u, NEW g, NEW last, WriteGiven(b, u, g, last)
  PROVE  PathsRight(cache', handed', mixed')
<1>1. /\ cache'.items = last
      /\ cache'.link = IF u = Keep \/ u.next # NoToken THEN cache.link ELSE u.link
      /\ cache'.next = IF u = Keep THEN cache.next ELSE u.next
  BY DEF WriteGiven, Writes
<1>2. \/ u = Keep
      \/ u = [link |-> NoLink, next |-> NoToken] /\ b = <<>>
      \/ /\ u # Keep /\ u.link # NoLink
         /\ u.next # NoToken => u.next.upto = u.link /\ u.next.rest # <<>>
  BY DEF WriteGiven, BringsRight
<1>3. Typed(last) /\ \A i \in DOMAIN last : drive[i].at # "absent"
  BY GivenIs
<1>4. ASSUME cache.link # NoLink, b # <<>> PROVE cache'.link # NoLink /\ Linked(last, mixed')
  <2>1. cache'.link # NoLink
    BY <1>1, <1>2, <1>4
  <2> QED BY <1>1, <1>4, <2>1, LinkedInOrder, LinkedLoose
<1>5. ASSUME cache'.link # NoLink PROVE Linked(last, mixed') /\ AllCached(last, handed')
  <2>1. CASE cache.link # NoLink
    BY <1>4, <2>1, StillLinked, StillAllCached
  <2>2. CASE cache.link = NoLink
    <3>1. u # Keep /\ u.next = NoToken /\ u.link # NoLink
      BY <1>1, <1>5, <2>2
    <3> QED BY <2>2, <3>1, FirstLinked
  <2> QED BY <2>1, <2>2
<1>6. ASSUME cache'.link = NoLink, cache'.next # NoToken, cache'.next.upto = clock
      PROVE  Midway(last, cache'.next)
  <2>1. CASE u = Keep
    BY <1>1, <1>6, <2>1, MidwayBeside
  <2>2. CASE u # Keep
    <3>1. u.next # NoToken /\ cache.link = NoLink
      BY <1>1, <1>6, <2>2
    <3>2. u.link # NoLink
      BY <1>2, <2>2, <3>1
    <3> QED BY <2>2, <3>1, <3>2, MidwayBrings DEF Midway
  <2> QED BY <2>1, <2>2
<1>7. mixed' = {} => Distinct(last)
  BY <1>4, StillDistinct
<1>8. cache'.next # NoToken => cache'.next.rest # <<>>
  <2>1. cache.next # NoToken => cache.next.rest # <<>>
    BY DEF WriteGiven, PathsRight
  <2> QED BY <1>1, <1>2, <2>1
<1> QED BY <1>1, <1>3, <1>5, <1>6, <1>7, <1>8 DEF PathsRight

------------------------------------------------------------------------------
(* Every step leaves the cache right, and what calls will do to it.         *)
LEMMA SameDrive ==
  ASSUME UNCHANGED driveVars, PathsRight(cache', handed', mixed')
  PROVE  PathsRight(cache, handed, mixed)'
<1> DEFINE s == cache'
           h == handed'
           m == mixed'
<1>1. drive' = drive /\ clock' = clock
  BY DEF driveVars
<1>2. PathOf' = PathOf
  BY <1>1, PathOfIs
<1>3. /\ Typed(s.items) /\ \A i \in DOMAIN s.items : drive[i].at # "absent"
      /\ s.link # NoLink => Linked(s.items, m) /\ AllCached(s.items, h)
      /\ s.link = NoLink /\ s.next # NoToken /\ s.next.upto = clock => Midway(s.items, s.next)
      /\ m = {} => Distinct(s.items)
      /\ s.next # NoToken => s.next.rest # <<>>
  BY DEF PathsRight
<1>4. Linked(s.items, m) => Linked(cache.items, mixed)'
  BY <1>1 DEF Linked
<1>5. AllCached(s.items, h) => AllCached(cache.items, handed)'
  BY <1>1 DEF AllCached, Live
<1>6. Midway(s.items, s.next) => Midway(cache.items, cache.next)'
  <2> SUFFICES ASSUME NEW H, Settled(s.items, H, Coming(s.next), FALSE)
               PROVE  Settled(cache.items, H, Coming(cache.next), FALSE)'
    BY DEF Midway
  <2> QED BY <1>1, <1>2 DEF Settled, Live
<1> QED BY <1>1, <1>3, <1>4, <1>5, <1>6 DEF PathsRight

LEMMA NotAbsent ==
  ASSUME DriveOK, DriveChange, NEW i \in Item, drive[i].at # "absent"
  PROVE  drive'[i].at # "absent"
<1>1. CASE UNCHANGED driveVars
  BY <1>1 DEF driveVars
<1>2. ASSUME NEW k \in Item, Trash(k) PROVE drive'[i].at # "absent"
  BY <1>2, TrashLeaves
<1>3. ASSUME NEW k \in Item, NEW n \in Name, NEW p \in Folder \cup {Root}, Place(k, n, p)
      PROVE  drive'[i].at # "absent"
  <2>1. drive' = [drive EXCEPT ![k] = [at |-> "live", name |-> n, parent |-> p,
                                       ver |-> drive[k].ver + 1, changed |-> clock + 1]]
    BY <1>3 DEF Place
  <2> QED BY <2>1 DEF DriveOK
<1> QED BY <1>1, <1>2, <1>3 DEF DriveChange

(* A change of the drive: what is deleted stays deleted, and what has       *)
(* changed was not given to the cache as it is now.                         *)
LEMMA ChangedDrive ==
  ASSUME CInv, DriveChange, clock' # clock, UNCHANGED <<cache, handed, mixed>>,
         PathsRight(cache, handed, mixed)
  PROVE  PathsRight(cache, handed, mixed)'
<1>1. Advances /\ DriveOK /\ DriveOK'
  BY ChangeAdvances DEF CInv, Advances
<1>2. clock \in Nat /\ clock' \in Nat /\ clock < clock'
  BY <1>1 DEF DriveOK, Advances
<1>3. Typed(cache.items) /\ \A i \in DOMAIN cache.items : i \in Item /\ drive'[i].at # "absent"
  BY <1>1, NotAbsent DEF PathsRight, Typed
<1>4. ASSUME cache.link # NoLink PROVE Linked(cache.items, mixed)'
  <2>1. PICK H : /\ Tree(cache.items, H) /\ \A j \in DOMAIN cache.items \ H : drive[j].at = "deleted"
                 /\ mixed = {} => H = DOMAIN cache.items
    BY <1>4 DEF PathsRight, Linked
  <2>2. \A j \in DOMAIN cache.items \ H : drive'[j].at = "deleted"
    BY <1>1, <1>3, <2>1 DEF Advances
  <2> QED BY <2>1, <2>2 DEF Linked
<1>5. ASSUME cache.link # NoLink PROVE AllCached(cache.items, handed)'
  <2> SUFFICES ASSUME NEW i \in Item, drive'[i].at = "live", handed[i] = drive'[i].ver
               PROVE  i \in DOMAIN cache.items
    BY DEF AllCached, Live
  <2>1. /\ handed[i] <= drive[i].ver /\ drive[i].ver <= drive'[i].ver
        /\ drive[i].ver \in Nat /\ drive'[i].ver \in Nat
    BY <1>1 DEF CInv, HandedOK, Advances, DriveOK, DriveRecords
  <2>2. drive'[i].ver = drive[i].ver /\ handed[i] = drive[i].ver
    BY <2>1
  <2>3. Live(i)
    BY <1>1, <2>2 DEF Advances, Live
  <2> QED BY <1>5, <2>2, <2>3 DEF PathsRight, AllCached
<1>6. cache.next # NoToken => cache.next.upto # clock'
  BY <1>2 DEF CInv, StoredOK, TokenOK
<1>7. (mixed = {} => Distinct(cache.items)) /\ (cache.next # NoToken => cache.next.rest # <<>>)
  BY DEF PathsRight
<1> QED BY <1>3, <1>4, <1>5, <1>6, <1>7 DEF PathsRight

(* A call that has nothing in hand for the cursor, or has it too late.      *)
Harmless(j) ==
  j.late \subseteq {"behind"} => j.at # "page" /\ (j.at = "write" => j.cursor = Keep)

LEMMA HarmlessRight == ASSUME NEW j, Harmless(j), NEW s, NEW d, NEW t PROVE JobRight(j, s, d, t)
BY DEF Harmless, JobRight, BringsRight

LEMMA LateHarmless ==
  ASSUME CInv, NEW x \in Call, NEW why, why # "behind" PROVE Harmless(Late(job[x], why))
<1>1. Carries(job[x], {"at", "late"})
  BY InHand DEF JobKept
<1>2. CASE job[x].at = "idle"
  BY <1>2 DEF Late, Harmless
<1>3. CASE job[x].at # "idle"
  BY <1>1, <1>3, LateIs DEF Harmless
<1> QED BY <1>2, <1>3

(* The drive and the cache stay as they are.                                *)
Stay == UNCHANGED <<driveVars, cache, handed, mixed>>

LEMMA StayRight ==
  ASSUME PInv, Stay,
         mixed \subseteq {"behind"} =>
           \A x \in Call : job'[x] = job[x] \/ JobRight(job'[x], cache, drive, clock)
  PROVE  PInv'
<1>1. /\ UNCHANGED driveVars /\ drive' = drive /\ clock' = clock
      /\ cache' = cache /\ handed' = handed /\ mixed' = mixed
  BY DEF Stay, driveVars
<1> SUFFICES ASSUME mixed \subseteq {"behind"}
             PROVE  /\ PathsRight(cache, handed, mixed)'
                    /\ \A x \in Call : JobRight(job'[x], cache', drive', clock')
  BY <1>1 DEF PInv
<1>2. PathsRight(cache, handed, mixed)'
  <2>1. PathsRight(cache', handed', mixed')
    BY <1>1 DEF PInv
  <2> QED BY <1>1, <2>1, SameDrive
<1>3. ASSUME NEW x \in Call PROVE JobRight(job'[x], cache', drive', clock')
  BY <1>1 DEF PInv
<1> QED BY <1>2, <1>3

LEMMA GoOnRight ==
  ASSUME CInv, PInv, Stay, NEW c \in Call, NEW next, GoOn(c, next),
         mixed \subseteq {"behind"} => JobRight(next, cache, drive, clock)
  PROVE  PInv'
<1>1. \A x \in Call : job'[x] = IF x = c THEN next ELSE job[x]
  BY DEF CInv, JobsKept, GoOn
<1> QED BY <1>1, StayRight

LEMMA GoOnHarmless ==
  ASSUME CInv, PInv, Stay, NEW c \in Call, NEW next, GoOn(c, next), Harmless(next)
  PROVE  PInv'
BY GoOnRight, HarmlessRight

(* Another call changes the drive or the cache.                             *)
LEMMA OthersRight ==
  ASSUME mixed' \subseteq {"behind"} => PathsRight(cache, handed, mixed)',
         \A x \in Call : Harmless(job'[x])
  PROVE  PInv'
BY HarmlessRight DEF PInv

LEMMA OvertakeRight ==
  ASSUME CInv, PInv, DriveChange, clock' # clock, Overtake PROVE PInv'
<1>1. UNCHANGED <<cache, handed, mixed>> /\ \A x \in Call : Harmless(job'[x])
  BY LateHarmless DEF Overtake
<1>2. mixed' \subseteq {"behind"} => PathsRight(cache, handed, mixed)'
  BY <1>1, ChangedDrive DEF PInv
<1> QED BY <1>1, <1>2, OthersRight

LEMMA GoOnLateHarmless ==
  ASSUME CInv, NEW c \in Call, NEW next, Harmless(next), NEW why, why # "behind",
         GoOnLate(c, next, why)
  PROVE  \A x \in Call : Harmless(job'[x])
BY LateHarmless DEF GoOnLate

(* A write, of which only what is in order matters.                         *)
CacheWritten(c, b, u) ==
  LET put == PutAll(cache.items, cache.tombs, b, Folder)
      new == WithCursor([cache EXCEPT !.items = put.items, !.tombs = put.tombs], u)
  IN /\ cache' = new
     /\ handed' = [i \in Item |->
          Max({handed[i]} \cup {b[k].ver : k \in {k \in DOMAIN b : b[k].id = i}})]
     /\ mixed' = mixed \cup job[c].late \cup
          (IF b = <<>> \/ Position(new) \in {NoLink, clock} THEN {} ELSE {"change"}) \cup
          {"loss" : i \in {i \in Item : /\ Live(i) /\ i \notin DOMAIN put.items
                                   /\ \/ i \in DOMAIN cache.items
                                      \/ \E k \in DOMAIN b : b[k].id = i}} \cup
          {"behind" : i \in {i \in Misplaced : cache.link = NoLink}} \cup
          {"ahead" : k \in Ahead(b, u, new.next)}

LEMMA WriteRight ==
  ASSUME CInv, CInv', DriveTree(drive), DriveAssumption, PInv, UNCHANGED driveVars,
         NEW c \in Call, NEW b, BatchOK(b, Top(drive)), NEW u, NEW next, Harmless(next), NEW why,
         InOrder(job[c].late) => Current(b, drive),
         mixed \subseteq {"behind"} /\ job[c].late \subseteq {"behind"}
           => \/ u = [link |-> NoLink, next |-> NoToken] /\ b = <<>>
              \/ BringsRight(u, b, cache, drive, clock),
         CacheWritten(c, b, u),
         GoOnLate(c, next, why), why # "behind"
  PROVE  PInv'
<1> DEFINE last == PutAll(cache.items, cache.tombs, b, Folder).items
<1>1. \A x \in Call : Harmless(job'[x])
  BY GoOnLateHarmless
<1>2. ASSUME mixed' \subseteq {"behind"} PROVE PathsRight(cache', handed', mixed')
  <2>1. job[c].late \subseteq {"behind"} /\ Writes(b, u, last)
    BY <1>2, WriteIs DEF CacheWritten
  <2>2. mixed \subseteq {"behind"}
    BY <2>1 DEF Writes
  <2>3. PathsRight(cache, handed, mixed) /\ DriveOK
    BY <2>2 DEF PInv, CInv
  <2>4. Current(b, drive)
    BY <2>1 DEF InOrder
  <2>5. PICK g : Steps(cache.items, b, g, last)
    <3>1. Typed(cache.items)
      BY <2>3 DEF PathsRight
    <3> QED BY <2>3, <2>4, <3>1, PutsAre
  <2>6. StoredOK(cache', drive, clock, handed', mixed')
    <3>1. drive' = drive /\ clock' = clock
      BY DEF driveVars
    <3> QED BY <3>1 DEF CInv
  <2>7. (u = [link |-> NoLink, next |-> NoToken] /\ b = <<>>) \/ BringsRight(u, b, cache, drive, clock)
    BY <2>1, <2>2
  <2> HIDE DEF last
  <2>8. WriteGiven(b, u, g, last)
    BY <1>2, <2>1, <2>3, <2>4, <2>5, <2>6, <2>7 DEF WriteGiven
  <2> QED BY <2>8, WritePaths
<1>3. mixed' \subseteq {"behind"} => PathsRight(cache, handed, mixed)'
  BY <1>2, SameDrive
<1> QED BY <1>1, <1>3, OthersRight

LEMMA CacheItemsRight ==
  ASSUME CInv, CInv', DriveTree(drive), DriveAssumption, PInv, UNCHANGED driveVars,
         NEW c \in Call, NEW b, BatchOK(b, Top(drive)), NEW u, NEW next, Harmless(next),
         NEW otherwise, Harmless(otherwise),
         InOrder(job[c].late) => Current(b, drive),
         mixed \subseteq {"behind"} /\ job[c].late \subseteq {"behind"}
           => \/ u = [link |-> NoLink, next |-> NoToken] /\ b = <<>>
              \/ BringsRight(u, b, cache, drive, clock),
         cacheItems(c, b, u, next, otherwise)
  PROVE  PInv'
<1>1. CASE GoOn(c, otherwise) /\ UNCHANGED <<cache, handed, mixed>>
  BY <1>1, GoOnHarmless DEF Stay
<1>2. ASSUME NEW why \in {"deletion", "change"}, CacheWritten(c, b, u), GoOnLate(c, next, why) PROVE PInv'
  BY <1>2, WriteRight
<1> HIDE DEF PInv
<1> QED BY <1>1, <1>2 DEF cacheItems, CacheWritten

(* What calls that write or start a round go on with.                       *)
LEMMA ThenHarmless == ASSUME NEW n, WriteThen(n) PROVE Harmless(n)
BY DEF WriteThen, Busy, Harmless

LEMMA JustHarmless ==
  ASSUME NEW b, NEW then, NEW late
  PROVE  Harmless([Writing(b, Keep, then) EXCEPT !.late = late]) /\ Harmless(Writing(b, Keep, then))
<1> DEFINE j == Writing(b, Keep, then)
           k == [Writing(b, Keep, then) EXCEPT !.late = late]
<1>1. j.at = "write" /\ j.cursor = Keep /\ k.at = "write" /\ k.cursor = Keep
  BY DEF Writing
<1> HIDE DEF j, k
<1>2. Harmless(j) /\ Harmless(k)
  BY <1>1 DEF Harmless
<1> QED BY <1>2 DEF j, k

LEMMA FinishHarmless == ASSUME NEW b, NEW late PROVE Harmless(Finish(b, Keep, late))
<1>1. Harmless(Idle)
  BY DEF Harmless, Idle
<1> QED BY <1>1, JustHarmless DEF Finish

LEMMA PagingRight ==
  ASSUME NEW token, NEW persist, NEW s, NEW d, NEW t,
         persist => /\ s.link = NoLink =>
                         Covers(token.upto, token.rest, <<>>, d, Held(s, d, token.upto))
                    /\ token.upto = t \/ token.rest # <<>>
  PROVE  JobRight(Paging(token, persist), s, d, t)
<1> DEFINE j == Paging(token, persist)
<1>1. /\ j.at = "page" /\ j.token = token /\ j.persist = persist /\ j.batch = <<>>
      /\ j.cursor = Keep /\ j.late = {}
  BY DEF Paging
<1> HIDE DEF j
<1>2. JobRight(j, s, d, t)
  BY <1>1 DEF JobRight, PageRight
<1> QED BY <1>2 DEF j

LEMMA BeginRoundRight ==
  ASSUME CInv, DriveAssumption, PInv, Stay, NEW c \in Call, NEW from, NEW persist,
         persist /\ cache.link = NoLink => from = Scratch, BeginRound(c, from, persist)
  PROVE  PInv'
<1>1. PICK s \in Rounds(from) : GoOn(c, Paging([upto |-> clock, rest |-> s], persist))
  BY DEF BeginRound
<1> DEFINE token == [upto |-> clock, rest |-> s]
<1>2. token.upto = clock /\ token.rest = s
  OBVIOUS
<1> HIDE DEF token
<1>3. ASSUME persist, cache.link = NoLink
      PROVE  Covers(token.upto, token.rest, <<>>, drive, Held(cache, drive, token.upto))
  <2>1. ChangedSince(from) = {i \in Item : Live(i)}
    BY <1>3 DEF ChangedSince
  <2>2. \A i \in Item : Live(i) => \E n \in DOMAIN s : s[n] = i
    BY <2>1, RoundHasAll
  <2> QED BY <1>2, <2>2 DEF Covers, Live
<1>4. JobRight(Paging(token, persist), cache, drive, clock)
  BY <1>2, <1>3, PagingRight
<1>5. GoOn(c, Paging(token, persist))
  BY <1>1 DEF token
<1> QED BY <1>4, <1>5, GoOnRight

LEMMA FromStoredRight ==
  ASSUME CInv, DriveAssumption, PInv, Stay, NEW c \in Call,
         \/ cache.next # NoToken /\ GoOn(c, Paging(cache.next, TRUE))
         \/ cache.link # NoLink /\ BeginRound(c, cache.link, TRUE)
  PROVE  PInv'
<1>1. CASE cache.next # NoToken /\ GoOn(c, Paging(cache.next, TRUE))
  <2> DEFINE token == cache.next
  <2>1. Covers(token.upto, token.rest, <<>>, drive, Held(cache, drive, token.upto))
    <3> SUFFICES ASSUME NEW i \in Item, \A n \in DOMAIN token.rest : token.rest[n] # i
                 PROVE  Held(cache, drive, token.upto)[i] = drive[i].ver
      BY DEF Covers
    <3> QED BY <1>1 DEF Held
  <2>2. mixed \subseteq {"behind"} => token.rest # <<>>
    BY <1>1 DEF PInv, PathsRight
  <2> HIDE DEF token
  <2>3. mixed \subseteq {"behind"} => JobRight(Paging(token, TRUE), cache, drive, clock)
    BY <2>1, <2>2, PagingRight
  <2> QED BY <1>1, <2>3, GoOnRight DEF token
<1>2. CASE cache.link # NoLink /\ BeginRound(c, cache.link, TRUE)
  BY <1>2, BeginRoundRight
<1> QED BY <1>1, <1>2

(* The calls of the cache.                                                  *)
LEMMA WriteStepRight ==
  ASSUME CInv, CInv', DriveTree(drive), DriveAssumption, PInv, NEW c \in Call, Write(c)
  PROVE  PInv'
<1>1. WriteKept(job[c], drive, clock, handed, mixed) /\ job[c].at = "write"
  BY InHand DEF Write, JobKept
<1>2. cacheItems(c, job[c].batch, job[c].cursor, job[c].then, job[c].then)
      /\ UNCHANGED driveVars
  BY DEF Write, bestEffort
<1>3. /\ BatchOK(job[c].batch, Top(drive)) /\ WriteThen(job[c].then)
      /\ InOrder(job[c].late) => Current(job[c].batch, drive)
  BY <1>1 DEF WriteKept
<1>4. mixed \subseteq {"behind"} /\ job[c].late \subseteq {"behind"}
        => BringsRight(job[c].cursor, job[c].batch, cache, drive, clock)
  BY <1>1 DEF PInv, JobRight
<1> QED BY <1>2, <1>3, <1>4, ThenHarmless, CacheItemsRight

LEMMA RequestStepsRight ==
  ASSUME CInv, DriveAssumption, PInv, NEW c \in Call, getRawInfo(c) \/ list(c) \/ RequestFails(c)
  PROVE  PInv'
<1>1. Stay
  BY DEF getRawInfo, list, RequestFails, Stay
<1>2. CASE getRawInfo(c) \/ list(c)
  <2>1. PICK b : GoOn(c, Writing(b, Keep, Idle))
    BY <1>2 DEF getRawInfo, list
  <2> QED BY <1>1, <2>1, JustHarmless, GoOnHarmless
<1>3. CASE RequestFails(c)
  <2>1. GoOn(c, Idle) /\ Harmless(Idle)
    BY <1>3 DEF RequestFails, Answer, Harmless, Idle
  <2> QED BY <1>1, <2>1, GoOnHarmless
<1> QED BY <1>2, <1>3

LEMMA DeleteStepRight ==
  ASSUME CInv, DriveTree(drive), DriveAssumption, PInv, NEW c \in Call, deleteItem(c)
  PROVE  PInv'
<1>1. PICK i \in Item : \E b, then :
        /\ Trash(i) /\ Tick /\ GoOnLate(c, Writing(b, Keep, then), "deletion")
        /\ UNCHANGED <<cache, handed, mixed>>
  BY DEF deleteItem
<1>2. DriveChange /\ clock' # clock
  BY <1>1 DEF DriveChange, Tick, CInv, DriveOK
<1>3. \A x \in Call : Harmless(job'[x])
  BY <1>1, JustHarmless, GoOnLateHarmless
<1>4. mixed' \subseteq {"behind"} => PathsRight(cache, handed, mixed)'
  BY <1>1, <1>2, ChangedDrive DEF PInv
<1> QED BY <1>3, <1>4, OthersRight

LEMMA RoundStepsRight ==
  ASSUME CInv, DriveAssumption, PInv, NEW c \in Call, delta(c) \/ cacheRefresh(c) \/ prime(c)
  PROVE  PInv'
<1>1. Stay
  BY DEF delta, cacheRefresh, prime, Stay
<1>2. CASE delta(c)
  <2>1. PICK from : BeginRound(c, from, FALSE)
    BY <1>2 DEF delta
  <2> QED BY <1>1, <2>1, BeginRoundRight
<1>3. CASE cacheRefresh(c)
  <2>1. CASE GoOn(c, Scanning(Scanned))
    BY <1>1, <2>1, ScannedKept, ScanningKept, ThenHarmless, GoOnHarmless
  <2>2. CASE \/ cache.next # NoToken /\ GoOn(c, Paging(cache.next, TRUE))
             \/ cache.link # NoLink /\ BeginRound(c, cache.link, TRUE)
    BY <1>1, <2>2, FromStoredRight
  <2> QED BY <1>3, <2>1, <2>2 DEF cacheRefresh
<1>4. CASE prime(c)
  <2>1. BeginRound(c, Scratch, TRUE)
    BY <1>4 DEF prime
  <2> QED BY <1>1, <2>1, BeginRoundRight
<1> QED BY <1>2, <1>3, <1>4
LEMMA ScanStepRight ==
  ASSUME CInv, DriveAssumption, PInv, NEW c \in Call, scan(c) PROVE PInv'
<1> DEFINE j == job[c]
<1>1. Carries(j, {"at", "late"}) /\ j.at = "scan"
  BY InHand DEF scan, JobKept
<1>2. Stay
  BY DEF scan, Stay
<1>3. ASSUME NEW b, NEW todo, GoOn(c, [j EXCEPT !.batch = b, !.todo = todo])
      PROVE  PInv'
  <2> DEFINE k == [j EXCEPT !.batch = b, !.todo = todo]
  <2>1. k.at = "scan"
    BY <1>1 DEF Carries
  <2> HIDE DEF k, j
  <2>2. Harmless(k)
    BY <2>1 DEF Harmless
  <2> QED BY <1>2, <1>3, <2>2, GoOnHarmless DEF k
<1>4. CASE \E f \in j.todo :
             GoOn(c, [j EXCEPT
               !.batch = @ \o (IF f = Root \/ Live(f) THEN ChildrenOf(f) ELSE <<>>),
               !.todo = (@ \ {f}) \cup
                        (IF f = Root \/ Live(f) THEN Siblings(f) \cap Folder ELSE {})])
  <2>1. PICK f \in j.todo :
             GoOn(c, [j EXCEPT
               !.batch = @ \o (IF f = Root \/ Live(f) THEN ChildrenOf(f) ELSE <<>>),
               !.todo = (@ \ {f}) \cup
                        (IF f = Root \/ Live(f) THEN Siblings(f) \cap Folder ELSE {})])
    BY <1>4
  <2> DEFINE b    == j.batch \o (IF f = Root \/ Live(f) THEN ChildrenOf(f) ELSE <<>>)
             todo == (j.todo \ {f}) \cup
                     (IF f = Root \/ Live(f) THEN Siblings(f) \cap Folder ELSE {})
  <2>2. GoOn(c, [j EXCEPT !.batch = b, !.todo = todo])
    BY <2>1
  <2> HIDE DEF b, todo, j
  <2> QED BY <1>3, <2>2
<1>5. CASE GoOn(c, [Writing(Deduplicated(j.batch), Keep, j.then) EXCEPT !.late = j.late])
  BY <1>2, <1>5, JustHarmless, GoOnHarmless
<1> QED BY <1>4, <1>5 DEF scan

LEMMA RebuildStepsRight ==
  ASSUME CInv, CInv', DriveTree(drive), DriveAssumption, PInv, NEW c \in Call,
         cacheRebuild(c) \/ dropCursor(c)
  PROVE  PInv'
<1>0. Harmless(Scanning(Scanned)) /\ Harmless(Primed) /\ Harmless(Idle)
  BY ScannedKept, ScanningKept, ThenHarmless
<1>1. CASE cacheRebuild(c) /\ GoOn(c, Scanning(Scanned)) /\ UNCHANGED <<cache, handed>>
  <2>1. Stay
    BY <1>1 DEF cacheRebuild, Stay
  <2> QED BY <1>0, <1>1, <2>1, GoOnHarmless
<1>2. CASE /\ cacheRebuild(c) /\ GoOnLate(c, Scanning(Scanned), "clear")
           /\ cache' = Empty /\ handed' = [i \in Item |-> 0]
  <2>1. UNCHANGED driveVars
    BY <1>2 DEF cacheRebuild
  <2>2. \A x \in Call : Harmless(job'[x])
    BY <1>0, <1>2, GoOnLateHarmless
  <2>3. cache'.items = <<>> /\ cache'.link = NoLink /\ cache'.next = NoToken
    BY <1>2 DEF Empty
  <2>4. PathsRight(cache', handed', mixed')
    BY <2>3, EmptyBatch DEF PathsRight, Typed, Distinct
  <2> QED BY <2>1, <2>2, <2>4, SameDrive, OthersRight
<1>3. CASE dropCursor(c)
  <2> DEFINE u == [link |-> NoLink, next |-> NoToken]
             b == <<>>
  <2>1. cacheItems(c, b, u, Primed, Idle) /\ UNCHANGED driveVars
    BY <1>3 DEF dropCursor
  <2>2. BatchOK(b, Top(drive)) /\ Current(b, drive)
    BY EmptyBatch, NoneCurrent
  <2>3. u = [link |-> NoLink, next |-> NoToken] /\ b = <<>>
    OBVIOUS
  <2> HIDE DEF b, u
  <2> QED BY <1>0, <2>1, <2>2, <2>3, CacheItemsRight
<1> QED BY <1>1, <1>2, <1>3 DEF cacheRebuild

(* The calls of the index.                                                  *)
LEMMA IndexStepsRight ==
  ASSUME CInv, DriveAssumption, PInv, NEW c \in Call,
         extractCandidate(c) \/ contentIndexRefresh(c) \/ saveContentIndex(c)
           \/ officeContentSearch(c) \/ evict(c)
  PROVE  PInv'
<1>0. Harmless(Idle)
  BY DEF Harmless, Idle
<1>1. Stay
  BY DEF extractCandidate, contentIndexRefresh, saveContentIndex, officeContentSearch, evict, Stay
<1>2. CASE extractCandidate(c)
  <2> DEFINE j == job[c]
  <2>1. /\ j.at = "extract" /\ Carries(j, {"at", "late"})
        /\ \E todo, new : GoOn(c, [j EXCEPT !.todo = todo, !.new = new])
    <3>1. j.at = "extract" /\ Carries(j, {"at", "late"}) /\ Carries(j, {"new"})
      BY <1>2, InHand DEF extractCandidate, JobKept, ExtractKept, Carries
    <3>2. PICK i \in j.todo :
            \/ \E new : GoOn(c, [j EXCEPT !.todo = @ \ {i}, !.new = new])
            \/ GoOn(c, [j EXCEPT !.todo = @ \ {i}])
      BY <1>2 DEF extractCandidate
    <3>3. [j EXCEPT !.todo = @ \ {i}] = [j EXCEPT !.todo = @ \ {i}, !.new = j.new]
      BY <3>1 DEF Carries
    <3> QED BY <3>1, <3>2, <3>3
  <2>2. PICK todo, new : GoOn(c, [j EXCEPT !.todo = todo, !.new = new])
    BY <2>1
  <2> DEFINE k == [j EXCEPT !.todo = todo, !.new = new]
  <2>3. k.at = "extract"
    BY <2>1 DEF Carries
  <2> HIDE DEF k, j
  <2>4. Harmless(k)
    BY <2>3 DEF Harmless
  <2> QED BY <1>1, <2>2, <2>4, GoOnHarmless DEF k
<1>3. CASE contentIndexRefresh(c)
  <2>1. PICK seen, todo, base : GoOn(c, [at |-> "extract", seen |-> seen, base |-> base,
                                         todo |-> todo, new |-> <<>>, late |-> {}])
    BY <1>3 DEF contentIndexRefresh
  <2>2. Harmless([at |-> "extract", seen |-> seen, base |-> base,
                  todo |-> todo, new |-> <<>>, late |-> {}])
    BY DEF Harmless
  <2> QED BY <1>1, <2>1, <2>2, GoOnHarmless
<1>4. CASE saveContentIndex(c) \/ evict(c)
  <2>1. GoOn(c, Idle)
    BY <1>4 DEF saveContentIndex, evict, Answer
  <2> QED BY <1>0, <1>1, <2>1, GoOnHarmless
<1>5. CASE officeContentSearch(c)
  <2>1. \/ \E b : GoOn(c, Writing(b, Keep, Idle))
        \/ \E new : GoOn(c, [at |-> "evict", late |-> {}, new |-> new])
    BY <1>5 DEF officeContentSearch
  <2>2. \A new : Harmless([at |-> "evict", late |-> {}, new |-> new])
    BY DEF Harmless
  <2> QED BY <1>1, <2>1, <2>2, JustHarmless, GoOnHarmless
<1> QED BY <1>2, <1>3, <1>4, <1>5

(* Searches, listings and fetches.                                          *)
LEMMA AnswerStepsRight ==
  ASSUME CInv, DriveAssumption, PInv, NEW c \in Call,
         writeMutationAudit(c) \/ remember(c) \/ chatgptList(c) \/ search(c)
           \/ find(c) \/ chatgptSearch(c) \/ localFastPath(c)
  PROVE  PInv'
<1>0. Harmless(Idle)
  BY DEF Harmless, Idle
<1>1. Stay
  BY DEF writeMutationAudit, remember, chatgptList, search, find, chatgptSearch, localFastPath,
         StaysCached, Stay
<1>2. CASE writeMutationAudit(c) \/ remember(c)
  <2>1. GoOn(c, Idle)
    BY <1>2 DEF writeMutationAudit, remember, Answer
  <2> QED BY <1>0, <1>1, <2>1, GoOnHarmless
<1>3. CASE chatgptList(c)
  <2>1. PICK b, then : GoOn(c, Writing(b, Keep, then))
    BY <1>3 DEF chatgptList
  <2> QED BY <1>1, <2>1, JustHarmless, GoOnHarmless
<1>4. CASE search(c)
  <2>1. PICK b, late : GoOn(c, Finish(b, Keep, late))
    BY <1>4 DEF search
  <2> QED BY <1>1, <2>1, FinishHarmless, GoOnHarmless
<1>5. CASE find(c) \/ chatgptSearch(c)
  <2>1. PICK by : GoOn(c, Finding(by))
    BY <1>5 DEF find, chatgptSearch
  <2>2. Harmless(Finding(by))
    BY DEF Finding, Harmless
  <2> QED BY <1>1, <2>1, <2>2, GoOnHarmless
<1>6. CASE localFastPath(c)
  <2>1. GoOn(c, Found(c))
    BY <1>6 DEF localFastPath
  <2> QED BY <1>1, <2>1, FoundKept, ScanThenWrites, ThenHarmless, GoOnHarmless
<1> QED BY <1>2, <1>3, <1>4, <1>5, <1>6
LEMMA SearchStepsRight ==
  ASSUME CInv, DriveAssumption, PInv, NEW c \in Call,
         executeSearchTerm(c) \/ cacheFound(c) \/ confirmCachedFindCandidates(c)
           \/ revalidate(c)
  PROVE  PInv'
<1>1. Stay
  BY DEF executeSearchTerm, cacheFound, confirmCachedFindCandidates, revalidate, StaysCached, Stay
<1>2. CASE executeSearchTerm(c)
  <2> DEFINE j == job[c]
  <2>1. j.at = "find" /\ Carries(j, {"at", "late"})
    BY <1>2, InHand DEF executeSearchTerm, JobKept
  <2>2. PICK found \in SUBSET DOMAIN crawled :
          LET hits == LiveHits(found, job[c].tombs) IN
          GoOn(c, [j EXCEPT !.got = hits,
                        !.shown = @ \cup {hits[k].id : k \in DOMAIN hits},
                        !.late = @ \cup Overtaken(hits)])
    BY <1>2 DEF executeSearchTerm
  <2> DEFINE hits == LiveHits(found, job[c].tombs)
             ids == j.shown \cup {hits[k].id : k \in DOMAIN hits}
             why == j.late \cup Overtaken(hits)
             k == [j EXCEPT !.got = hits, !.shown = ids, !.late = why]
  <2>3. GoOn(c, k)
    BY <2>2
  <2> HIDE DEF hits, ids, why, j
  <2>4. k.at = "find"
    BY <2>1 DEF Carries
  <2> HIDE DEF k
  <2>5. Harmless(k)
    BY <2>4 DEF Harmless
  <2> QED BY <1>1, <2>3, <2>5, GoOnHarmless
<1>3. CASE cacheFound(c)
  <2>1. PICK then \in {Found(c), Scanning(Found(c))} :
          \/ GoOn(c, then)
          \/ GoOn(c, [Writing(Deduplicated(job[c].got), Keep, then)
                        EXCEPT !.late = job[c].late])
    BY <1>3 DEF cacheFound
  <2>2. WriteThen(then)
    BY FoundKept, ScanThenWrites, ScanningKept
  <2> QED BY <1>1, <2>1, <2>2, ThenHarmless, JustHarmless, GoOnHarmless
<1>4. CASE confirmCachedFindCandidates(c)
  <2>1. PICK then \in {Idle, Scanning(Idle)} :
          \/ \E i \in DOMAIN cache.items :
               Live(i) /\ GoOn(c, Writing(<<ShownWithPath(i)>>, Keep, then))
          \/ GoOn(c, then)
    BY <1>4 DEF confirmCachedFindCandidates
  <2>2. WriteThen(then)
    BY IdleKept, ScanningKept
  <2> QED BY <1>1, <2>1, <2>2, ThenHarmless, JustHarmless, GoOnHarmless
<1>5. CASE revalidate(c)
  <2>1. CASE GoOn(c, Finding("background"))
    <3>1. Harmless(Finding("background"))
      BY DEF Finding, Harmless
    <3> QED BY <1>1, <2>1, <3>1, GoOnHarmless
  <2>2. CASE \/ cache.next # NoToken /\ GoOn(c, Paging(cache.next, TRUE))
             \/ cache.link # NoLink /\ BeginRound(c, cache.link, TRUE)
    BY <1>1, <2>2, FromStoredRight
  <2> QED BY <1>5, <2>1, <2>2 DEF revalidate
<1> QED BY <1>2, <1>3, <1>4, <1>5

LEMMA FetchStepsRight ==
  ASSUME CInv, DriveAssumption, PInv, NEW c \in Call,
         chatgptFetch(c) \/ getInfo(c) \/ extractChatgptFetchSnapshot(c)
           \/ rememberedChatgptFetchSnapshot(c)
  PROVE  PInv'
<1>0. Harmless(Idle)
  BY DEF Harmless, Idle
<1>1. Stay
  BY DEF chatgptFetch, getInfo, extractChatgptFetchSnapshot, rememberedChatgptFetchSnapshot,
         StaysCached, Stay
<1>2. CASE chatgptFetch(c)
  <2>1. PICK i, entry, more :
          /\ i \in Files
          /\ \/ i \in DOMAIN cache.items /\ GoOn(c, Resolved(i, cache.items[i].ver, entry, more))
             \/ GoOn(c, [at |-> "info", item |-> i, entry |-> entry, more |-> more, late |-> {}])
    BY <1>2 DEF chatgptFetch
  <2>2. Harmless(Resolved(i, cache.items[i].ver, entry, more))
    BY DEF Harmless, Resolved
  <2>3. Harmless([at |-> "info", item |-> i, entry |-> entry, more |-> more, late |-> {}])
    BY DEF Harmless
  <2> QED BY <1>1, <2>1, <2>2, <2>3, GoOnHarmless
<1>3. CASE getInfo(c)
  <2>1. \/ GoOn(c, Idle)
        \/ \E b, then : GoOn(c, Writing(b, Keep, then))
    BY <1>3 DEF getInfo, Answer
  <2> QED BY <1>0, <1>1, <2>1, JustHarmless, GoOnHarmless
<1>4. CASE extractChatgptFetchSnapshot(c)
  <2>1. (\E k : k.at = "deliver" /\ GoOn(c, k)) \/ GoOn(c, Idle)
    BY <1>4 DEF extractChatgptFetchSnapshot, Answer
  <2>2. \A k : k.at = "deliver" => Harmless(k)
    BY DEF Harmless
  <2> QED BY <1>0, <1>1, <2>1, <2>2, GoOnHarmless
<1>5. CASE rememberedChatgptFetchSnapshot(c)
  <2>1. job' = job
    BY <1>5 DEF rememberedChatgptFetchSnapshot
  <2> QED BY <1>1, <2>1, StayRight
<1> QED BY <1>2, <1>3, <1>4, <1>5

LEMMA DeliverStepsRight ==
  ASSUME CInv, PInv, NEW c \in Call, deliver(c) \/ warmContentIndexFromChatgptSnapshots(c)
  PROVE  PInv'
<1> DEFINE j == job[c]
           k == [j EXCEPT !.at = "warm"]
<1>1. Stay
  BY DEF deliver, warmContentIndexFromChatgptSnapshots, StaysCached, Stay
<1>2. GoOn(c, Idle) \/ (deliver(c) /\ GoOn(c, k))
  BY DEF deliver, warmContentIndexFromChatgptSnapshots, Answer
<1>3. deliver(c) => Carries(j, {"at", "late"})
  BY InHand DEF deliver, JobKept
<1> HIDE DEF j
<1>4. deliver(c) => k.at = "warm"
  BY <1>3 DEF Carries
<1> HIDE DEF k
<1>5. Harmless(Idle) /\ (deliver(c) => Harmless(k))
  BY <1>4 DEF Harmless, Idle
<1> QED BY <1>1, <1>2, <1>5, GoOnHarmless

LEMMA ReadCallRight == ASSUME CInv, DriveAssumption, PInv, NEW c \in Call, ReadCall(c) PROVE PInv'
BY AnswerStepsRight, SearchStepsRight, FetchStepsRight, DeliverStepsRight DEF ReadCall

(* Pages.                                                                   *)
LEMMA SomeGiven ==
  ASSUME NEW b, NEW i, NEW v, Given(b, i, v) PROVE b # <<>>
BY EmptyBatch DEF Given

LEMMA DeduplicatedSome ==
  ASSUME NEW b, NEW top, BatchOK(b, top), b # <<>> PROVE Deduplicated(b) # <<>>
<1>1. Len(b) \in Nat /\ DOMAIN b = 1 .. Len(b) /\ \E S : b \in Seq(S)
  BY BatchLen DEF BatchOK
<1>2. Len(b) # 0
  BY <1>1, EmptySeq
<1>3. 1 \in At(b, b[1].id)
  BY <1>1, <1>2 DEF At
<1>4. PICK n \in DOMAIN Deduplicated(b) : TRUE
  BY <1>3, DeduplicatedOK
<1> HIDE DEF BatchOK
<1> QED BY <1>4, EmptyBatch

LEMMA FinishRight ==
  ASSUME NEW s, NEW d, NEW t, NEW top, NEW b, BatchOK(b, top), NEW u, NEW late,
         late \subseteq {"behind"} => BringsRight(u, b, s, d, t)
  PROVE  JobRight(Finish(b, u, late), s, d, t)
<1> DEFINE w == Deduplicated(b)
           j == [Writing(w, u, Idle) EXCEPT !.late = late]
<1>1. CASE b = <<>> /\ u = Keep
  BY <1>1 DEF Finish, JobRight, Idle
<1>2. CASE ~(b = <<>> /\ u = Keep)
  <2>1. BringsRight(u, b, s, d, t) => BringsRight(u, w, s, d, t)
    <3>1. \A upto, rest, h : Covers(upto, rest, b, d, h) => Covers(upto, rest, w, d, h)
      BY DeduplicatedCovers
    <3>2. b # <<>> => w # <<>>
      BY DeduplicatedSome
    <3> HIDE DEF w
    <3> QED BY <3>1, <3>2 DEF BringsRight
  <2> HIDE DEF w
  <2>2. j.at = "write" /\ j.late = late /\ j.cursor = u /\ j.batch = w
    BY DEF Writing
  <2> HIDE DEF j
  <2>3. JobRight(j, s, d, t)
    BY <2>1, <2>2 DEF JobRight
  <2> QED BY <1>2, <2>3 DEF Finish, j, w
<1> QED BY <1>1, <1>2

LEMMA CollectPagesRight ==
  ASSUME CInv, PInv, DriveAssumption, PageAssumption, NEW c \in Call, collectPages(c)
  PROVE  PInv'
<1> DEFINE j      == job[c]
           rest   == j.token.rest
           n      == Min({PageSize, Len(rest)})
           left   == SubSeq(rest, n + 1, Len(rest))
           token  == IF left = <<>> THEN NoToken ELSE [j.token EXCEPT !.rest = left]
           cursor == IF j.persist THEN [link |-> j.token.upto, next |-> token] ELSE Keep
           got(k) == Collected(j.batch, rest, k)
           more   == [j EXCEPT !.batch = got(n), !.cursor = cursor, !.token = token]
           upto   == j.token.upto
           h      == Held(cache, drive, upto)
<1>1. /\ j.at = "page"
      /\ \/ \E k \in 1 .. n - 1 : GoOn(c, Finish(got(k), j.cursor, j.late))
         \/ GoOn(c, Finish(got(n), cursor, j.late))
         \/ left # <<>> /\ GoOn(c, more)
      /\ Stay
  BY DEF collectPages, Collected, cursorAfterCutOff, Stay
<1>2. JobKept(j, drive, clock, handed, mixed) /\ PageKept(j, drive, clock, handed, mixed)
  BY <1>1 DEF CInv, JobsKept, JobKept
<1>3. /\ Carries(j, {"at", "late", "token", "persist", "batch", "cursor"})
      /\ BatchOK(j.batch, Top(drive)) /\ rest \in Seq(Item)
      /\ upto \in 1 .. clock /\ upto # NoLink /\ Carries(j.token, {"upto", "rest"})
      /\ j.cursor # Keep => j.persist /\ j.cursor = [link |-> upto, next |-> j.token]
  BY <1>2 DEF JobKept, PageKept, TokenOK, Carries, NoLink
<1>4. /\ Len(rest) \in Nat /\ n \in 0 .. Len(rest)
      /\ rest # <<>> => n # 0
  <2>0. Len(rest) \in Nat /\ (rest # <<>> => Len(rest) # 0)
    BY <1>3, LenProperties, EmptySeq
  <2> DEFINE S == {PageSize, Len(rest)}
  <2>1. S \subseteq Nat /\ Len(rest) \in S
    BY <2>0, PageAssumption
  <2>2. rest # <<>> => 0 \notin S
    BY <2>0, PageAssumption
  <2> HIDE DEF S
  <2>3. Min(S) \in S /\ Min(S) <= Len(rest)
    BY <2>1, MinOf
  <2>4. Min(S) \in Nat
    BY <2>1, <2>3
  <2>5. n = Min(S)
    BY DEF S
  <2> HIDE DEF n, rest
  <2> QED BY <2>0, <2>2, <2>3, <2>4, <2>5
<1>5. DriveOK
  BY DEF CInv
<1>6. ASSUME NEW k \in 0 .. Len(rest), Covers(upto, rest, j.batch, drive, h)
      PROVE  /\ Covers(upto, rest, got(k), drive, h)
             /\ Covers(upto, SubSeq(rest, k + 1, Len(rest)), got(k), drive, h)
  <2> HIDE DEF h, upto
  <2> QED BY <1>3, <1>5, <1>6, CollectedCovers
<1>7. ASSUME NEW k \in 0 .. Len(rest) PROVE BatchOK(got(k), Top(drive))
  BY <1>3, <1>5, CollectedOK
<1>8. ASSUME NEW k \in 0 .. Len(rest), k # 0 PROVE got(k) # <<>>
  <2>1. 1 \in 1 .. k
    BY <1>4, <1>8
  <2>2. Given(got(k), rest[1], drive[rest[1]].ver)
    BY <1>3, <1>5, <2>1, CollectedOK
  <2> HIDE DEF got
  <2> QED BY <2>2, SomeGiven
<1>9. j.batch # <<>> => got(n) # <<>>
  <2> SUFFICES ASSUME j.batch # <<>> PROVE got(n) # <<>>
    OBVIOUS
  <2> DEFINE b    == j.batch
             page == hydrateDeltaParentItems([x \in 1 .. n |-> Shown(rest[x], NoPath)])
  <2>1. BatchOK(page, Top(drive)) /\ BatchOK(b, Top(drive)) /\ b # <<>>
    BY <1>3, <1>4, <1>5, PageBatch
  <2>2. got(n) = b \o page
    BY DEF Collected
  <2> HIDE DEF page, b
  <2>3. b \o page # <<>>
    <3>1. Len(b) \in Nat /\ DOMAIN b = 1 .. Len(b) /\ (\E S : b \in Seq(S)) /\ Len(page) \in Nat
      BY <2>1, BatchLen DEF BatchOK
    <3>2. Len(b) # 0
      BY <2>1, <3>1, EmptySeq
    <3>3. 1 \in DOMAIN b
      BY <3>1, <3>2
    <3>4. 1 \in DOMAIN (b \o page)
      BY <2>1, <3>3, Concat
    <3> QED BY <3>4, EmptyBatch
  <2> QED BY <2>2, <2>3
<1>10. left # <<>> => token.upto = upto /\ token.rest = left /\ token # NoToken
  <2> HIDE DEF left, rest
  <2> SUFFICES ASSUME left # <<>> PROVE token.upto = upto /\ token.rest = left /\ token # NoToken
    OBVIOUS
  <2>1. token = [j.token EXCEPT !.rest = left]
    OBVIOUS
  <2> HIDE DEF token
  <2>2. token.upto = upto /\ token.rest = left /\ upto # 0
    BY <1>3, <2>1 DEF Carries
  <2> QED BY <2>2 DEF NoToken
<1>11. left = <<>> => token = NoToken /\ token.rest = left
  BY DEF NoToken
<1>12. ASSUME mixed \subseteq {"behind"}, j.late \subseteq {"behind"}
       PROVE  PageRight(j, cache, drive, clock)
  BY <1>1, <1>12 DEF PInv, JobRight
<1>13. CASE \E k \in 1 .. n - 1 : GoOn(c, Finish(got(k), j.cursor, j.late))
  <2>1. PICK k \in 1 .. n - 1 : GoOn(c, Finish(got(k), j.cursor, j.late))
    BY <1>13
  <2>2. k \in 0 .. Len(rest) /\ k # 0
    <3> HIDE DEF n, rest
    <3> QED BY <1>4
  <2>3. BatchOK(got(k), Top(drive)) /\ got(k) # <<>>
    BY <1>7, <1>8, <2>2
  <2>4. ASSUME mixed \subseteq {"behind"}, j.late \subseteq {"behind"}, j.cursor # Keep
        PROVE  BringsRight(j.cursor, got(k), cache, drive, clock)
    <3>1. /\ rest # <<>>
          /\ cache.link = NoLink => Covers(upto, rest, j.batch, drive, h)
      BY <1>3, <1>12, <2>4 DEF PageRight
    <3>2. cache.link = NoLink => Covers(upto, rest, got(k), drive, h)
      BY <1>6, <2>2, <3>1
    <3>3. j.cursor.link = upto /\ j.cursor.next = j.token
      BY <1>3, <2>4
    <3> HIDE DEF got, j
    <3>4. BringsRight(j.cursor, got(k), cache, drive, clock)
      BY <1>3, <2>3, <3>1, <3>2, <3>3 DEF BringsRight, h, rest, upto
    <3> QED BY <3>4
  <2>5. mixed \subseteq {"behind"} /\ j.late \subseteq {"behind"}
          => BringsRight(j.cursor, got(k), cache, drive, clock)
    BY <2>4 DEF BringsRight
  <2> HIDE DEF got
  <2>6. mixed \subseteq {"behind"} => JobRight(Finish(got(k), j.cursor, j.late), cache, drive, clock)
    BY <2>3, <2>5, FinishRight
  <2> QED BY <1>1, <2>1, <2>6, GoOnRight
<1>14. CASE GoOn(c, Finish(got(n), cursor, j.late))
  <2>1. BatchOK(got(n), Top(drive))
    BY <1>4, <1>7
  <2>2. ASSUME mixed \subseteq {"behind"}, j.late \subseteq {"behind"}, j.persist
        PROVE  BringsRight(cursor, got(n), cache, drive, clock)
    <3>1. /\ cache.link = NoLink => Covers(upto, rest, j.batch, drive, h)
          /\ upto = clock \/ j.batch # <<>> \/ rest # <<>>
      BY <1>12, <2>2 DEF PageRight
    <3>2. cache.link = NoLink => Covers(upto, left, got(n), drive, h)
      BY <1>4, <1>6, <3>1
    <3>3. upto = clock \/ got(n) # <<>>
      BY <1>4, <1>8, <1>9, <3>1
    <3>4. cursor.link = upto /\ cursor.next = token
      BY <2>2
    <3>5. /\ token # NoToken => token.upto = upto /\ token.rest # <<>>
          /\ token.rest = left
      BY <1>10, <1>11
    <3> HIDE DEF got, left, token, cursor
    <3>6. BringsRight(cursor, got(n), cache, drive, clock)
      BY <1>3, <3>2, <3>3, <3>4, <3>5 DEF BringsRight, h
    <3> QED BY <3>6
  <2>3. mixed \subseteq {"behind"} /\ j.late \subseteq {"behind"}
          => BringsRight(cursor, got(n), cache, drive, clock)
    BY <2>2 DEF BringsRight
  <2> HIDE DEF got, cursor
  <2>4. mixed \subseteq {"behind"} => JobRight(Finish(got(n), cursor, j.late), cache, drive, clock)
    BY <2>1, <2>3, FinishRight
  <2> QED BY <1>1, <1>14, <2>4, GoOnRight
<1>15. CASE left # <<>> /\ GoOn(c, more)
  <2>1. more.at = j.at /\ more.late = j.late /\ more.persist = j.persist
    <3> HIDE DEF got, cursor, token
    <3> QED BY <1>3 DEF Carries
  <2>2. more.batch = got(n) /\ more.cursor = cursor /\ more.token = token
    <3> HIDE DEF got, cursor, token
    <3> QED BY <1>3 DEF Carries
  <2>3. token.upto = upto /\ token.rest = left
    BY <1>10, <1>15
  <2>4. ASSUME mixed \subseteq {"behind"}, j.late \subseteq {"behind"}, j.persist, cache.link = NoLink
        PROVE  Covers(upto, left, got(n), drive, h)
    <3>1. Covers(upto, rest, j.batch, drive, h)
      BY <1>12, <2>4 DEF PageRight
    <3> QED BY <1>4, <1>6, <3>1
  <2> HIDE DEF more, got, cursor, token, left, upto, j
  <2>5. more.persist => j.persist
    BY <2>1
  <2>6. ASSUME mixed \subseteq {"behind"}, j.late \subseteq {"behind"}
        PROVE  PageRight(more, cache, drive, clock)
    BY <1>15, <2>2, <2>3, <2>4, <2>5, <2>6 DEF PageRight, h
  <2>7. mixed \subseteq {"behind"} => JobRight(more, cache, drive, clock)
    BY <1>1, <2>1, <2>6 DEF JobRight
  <2> QED BY <1>1, <1>15, <2>7, GoOnRight
<1> QED BY <1>1, <1>13, <1>14, <1>15
LEMMA CacheCallRight ==
  ASSUME CInv, CInv', DriveTree(drive), DriveAssumption, PageAssumption, PInv,
         NEW c \in Call, CacheCall(c)
  PROVE  PInv'
BY WriteStepRight, RequestStepsRight, DeleteStepRight, CollectPagesRight, RoundStepsRight,
   ScanStepRight, RebuildStepsRight, IndexStepsRight DEF CacheCall
------------------------------------------------------------------------------
(* All steps together.                                                      *)
LEMMA InitPInv == ASSUME Init PROVE PInv
<1>1. /\ DriveOK /\ DriveTree(drive) /\ DriveAssumption
      /\ \A x \in Call : job[x] = Idle
  BY InitIInv, InitTree, DriveAssumption DEF IInv, Init, CacheInit
<1>2. \A x \in Call : JobRight(job[x], cache, drive, clock)
  BY <1>1, HarmlessRight DEF Harmless, Idle
<1>3. CASE cache = Empty
  <2>1. cache.items = <<>> /\ cache.link = NoLink /\ cache.next = NoToken
    BY <1>3 DEF Empty
  <2>2. PathsRight(cache, handed, mixed)
    BY <2>1, EmptyBatch DEF PathsRight, Typed, Distinct
  <2> QED BY <1>2, <2>2 DEF PInv
<1>4. CASE cache = [Empty EXCEPT
             !.link = clock,
             !.items = [i \in {j \in Item : Live(j)} |->
               [name |-> drive[i].name, parent |-> drive[i].parent,
                ver |-> drive[i].ver, path |-> PathOf[i]]]]
  <2> DEFINE items == [i \in {j \in Item : Live(j)} |->
               [name |-> drive[i].name, parent |-> drive[i].parent,
                ver |-> drive[i].ver, path |-> PathOf[i]]]
  <2>1. DOMAIN items = {j \in Item : Live(j)}
        /\ \A i \in DOMAIN items :
             /\ Carries(items[i], {"name", "parent", "path"}) /\ InPlace(items, i)
    BY DEF Carries, InPlace
  <2>2. cache = [Empty EXCEPT !.link = clock, !.items = items]
    BY <1>4
  <2> HIDE DEF items
  <2>3. cache.items = items /\ cache.next = NoToken
    BY <2>2 DEF Empty
  <2>4. Typed(items)
    <3> SUFFICES ASSUME NEW i \in DOMAIN items
                 PROVE  /\ items[i].name \in Name /\ items[i].parent \in Folder \cup {Root}
                        /\ PathKind(items[i].path)
      BY <2>1 DEF Typed
    <3>1. /\ i \in Item /\ items[i].path = PathOf[i] /\ items[i].name = drive[i].name
          /\ items[i].parent = drive[i].parent
      BY <2>1 DEF InPlace
    <3> QED BY <1>1, <3>1, LivePath DEF PathKind
  <2>5. Tree(items, DOMAIN items)
    <3>1. Tree(items, {i \in Item : Live(i)})
      BY <1>1, <2>1, LiveTree DEF LiveRight
    <3> QED BY <2>1, <3>1
  <2>6. Linked(items, mixed) /\ AllCached(items, handed) /\ Distinct(items)
    BY <2>1, <2>5, TreeDistinct DEF Linked, AllCached
  <2>7. \A i \in DOMAIN items : drive[i].at # "absent"
    BY <2>1 DEF Live
  <2>8. cache.link # NoLink
    BY <2>2 DEF Empty, NoLink, Init, DriveInit
  <2>9. PathsRight(cache, handed, mixed)
    BY <2>3, <2>4, <2>6, <2>7, <2>8 DEF PathsRight
  <2> QED BY <1>2, <2>9 DEF PInv
<1> QED BY <1>3, <1>4 DEF Init, CacheInit

LEMMA NextPInv ==
  ASSUME CInv, CInv', IInv, DriveTree(drive), PInv, [Next]_vars PROVE PInv'
<1>1. Stay /\ job' = job => PInv'
  BY StayRight
<1>2. DriveChange /\ (clock' = clock => UNCHANGED driveVars)
  BY NextChange, ChangeAdvances DEF CInv
<1>3. clock' # clock /\ Overtake => PInv'
  BY <1>2, OvertakeRight
<1>4. CASE UNCHANGED vars
  BY <1>1, <1>4 DEF vars, cacheVars, Stay
<1>5. CASE OthersChange
  <2>1. clock' # clock /\ Overtake
    BY <1>5 DEF OthersChange, Tick, CInv, DriveOK
  <2> QED BY <1>3, <2>1
<1>6. ASSUME NEW c \in Call, CacheCall(c) PROVE PInv'
  BY <1>6, CacheCallRight, DriveAssumption, PageAssumption
<1>7. ASSUME NEW c \in Call, ReadCall(c) PROVE PInv'
  BY <1>7, ReadCallRight, DriveAssumption
<1>8. CASE TimePasses
  BY <1>1, <1>8 DEF TimePasses, cacheVars, Stay
<1>9. CASE /\ Restart \/ \E t \in Task : TaskStep(t)
           /\ IF clock' = clock THEN UNCHANGED cacheVars ELSE Overtake
  BY <1>1, <1>2, <1>3, <1>9 DEF cacheVars, Stay
<1> QED BY <1>4, <1>5, <1>6, <1>7, <1>8, <1>9 DEF Next

(* What is cached up to the last change has all that is there, at its path. *)
LEMMA RefreshedPathsRight ==
  ASSUME CInv, DriveTree(drive), PInv PROVE RefreshedPathsAreRight
<1> SUFFICES ASSUME mixed \subseteq {"behind"}, Refreshed, NEW i \in Item, Live(i)
             PROVE  i \in DOMAIN cache.items /\ cache.items[i].path = PathOf[i]
  BY DEF RefreshedPathsAreRight
<1> DEFINE items == cache.items
<1>1. /\ DriveOK /\ InTime(drive, clock) /\ DriveAssumption
      /\ StoredOK(cache, drive, clock, handed, mixed) /\ RightItems(items, drive, handed)
  BY DriveAssumption DEF CInv, InOrder
<1>2. cache.link = clock /\ cache.link # NoLink /\ cache.next = NoToken
  BY <1>1 DEF Refreshed, DriveOK, NoLink
<1>3. PathsRight(cache, handed, mixed) /\ Typed(items)
  BY DEF PInv, PathsRight
<1>4. PICK H : Tree(items, H) /\ \A j \in DOMAIN items \ H : drive[j].at = "deleted"
  BY <1>2, <1>3 DEF PathsRight, Linked
<1>5. ASSUME NEW a \in Item, Live(a)
      PROVE  a \in H /\ items[a].name = drive[a].name /\ items[a].parent = drive[a].parent
  <2>1. Position(cache) = clock /\ a \notin Coming(cache.next)
    BY <1>2, NoneToCome DEF Position
  <2>2. handed[a] = drive[a].ver
    BY <1>1, <1>2, <1>5, <2>1, AllGiven
  <2>3. a \in DOMAIN items
    BY <1>2, <1>3, <1>5, <2>2 DEF AllCached, PathsRight
  <2>4. a \in H
    BY <1>4, <1>5, <2>3 DEF Live
  <2> QED BY <1>1, <2>2, <2>3, <2>4 DEF RightItems
<1>6. \A a \in Item : Live(a) /\ Inside(i, a) =>
        a \in H /\ items[a].name = drive[a].name /\ items[a].parent = drive[a].parent
  BY <1>5
<1> HIDE DEF items
<1>7. i \in H /\ items[i].path = PathOf[i]
  BY <1>1, <1>3, <1>4, <1>6, RightPaths
<1> QED BY <1>4, <1>7 DEF Tree, items

(* What is cached and in hand stays in order by its paths, too, as long as  *)
(* nothing was cached out of order: with a deltaLink the cache is a tree    *)
(* with all that was given to it, in the middle of a first round what is    *)
(* not to come any more is in its place, and what calls hold of a round     *)
(* completes what is cached.                                                *)
THEOREM PathsInOrder == Spec => []PInv
<1>1. Init => PInv
  BY InitPInv
<1>2. CInv /\ CInv' /\ IInv /\ DriveTree(drive) /\ PInv /\ [Next]_vars => PInv'
  BY NextPInv
<1> QED BY <1>1, <1>2, CacheInOrder, AllInOrder, DriveIsTree, PTL DEF Spec

(* Refreshed up to the drive's last change, the cache has every item that   *)
(* is there, with its version, name and parent and at its path, however     *)
(* folders were moved, renamed, replaced and removed in between             *)
(* (cacheItems, cachePut, updateCachedDescendantPaths), while no item was   *)
(* lost and none came ahead of its folder.                                  *)
THEOREM RefreshedItems == Spec => []RefreshedItemsAreRight
<1>1. CInv /\ DriveTree(drive) /\ PInv => RefreshedPathsAreRight
  BY RefreshedPathsRight
<1>2. RefreshedContentIsRight /\ RefreshedPathsAreRight => RefreshedItemsAreRight
  BY DEF RefreshedItemsAreRight
<1> QED BY <1>1, <1>2, CacheInOrder, DriveIsTree, PathsInOrder, RefreshedContent, PTL

(* No two items are cached at one path, in whatever order the elements of   *)
(* rounds, listings and answers are put over one another, while nothing     *)
(* was cached out of order (updateCachedDescendantPaths, cachePut).         *)
THEOREM PathsDistinct == Spec => []NoTwoAtOnePath
<1>1. PInv => NoTwoAtOnePath
  BY DEF PInv, PathsRight, Distinct, NoTwoAtOnePath
<1> QED BY <1>1, PathsInOrder, PTL
==============================================================================
