------------------------------ MODULE CacheProofs ------------------------------

(* That no delta cursor of the metadata cache skips a change, that a cache  *)
(* refreshed to the last change has every item it holds as the drive has    *)
(* it, that no text in the content index is older than its label, that the  *)
(* chunks a client puts together are of one text, and that what a call has  *)
(* deleted stays away: for any number of items and calls, any size of       *)
(* pages, whatever the calls and others do to the drive, the cache and the  *)
(* index in between, and, but for the last, whichever writes and requests   *)
(* fail.                                                                    *)
EXTENDS LocalStateProofs

------------------------------------------------------------------------------
(* What a batch does to the cached items. PutAll and the resolution of the  *)
(* waiting paths are recursive functions: they exist, and what holds at     *)
(* each of their steps is shown from a least number at which it does not.   *)

PutStep(items, tombs, batch, folders, put, n) ==
  IF n = 0 THEN [items |-> items, removed |-> {}, tombs |-> tombs]
  ELSE cachePutSimplified(put[n - 1], batch[n], folders)
IsPut(items, tombs, batch, folders, put, m) ==
  put = [n \in 0 .. m |-> PutStep(items, tombs, batch, folders, put, n)]

LEMMA PutExists ==
  ASSUME NEW items, NEW tombs, NEW batch, NEW folders, NEW N \in Nat
  PROVE  \E f : IsPut(items, tombs, batch, folders, f, N)
<1> DEFINE Has(m) == \E f : IsPut(items, tombs, batch, folders, f, m)
<1>1. Has(0)
  <2> DEFINE f == [n \in 0 .. 0 |-> [items |-> items, removed |-> {}, tombs |-> tombs]]
  <2>1. IsPut(items, tombs, batch, folders, f, 0)
    BY DEF IsPut, PutStep
  <2> QED BY <2>1
<1>2. ASSUME NEW m \in Nat, m # 0, Has(m - 1) PROVE Has(m)
  <2>1. PICK f : IsPut(items, tombs, batch, folders, f, m - 1)
    BY <1>2
  <2> DEFINE g == [n \in 0 .. m |-> PutStep(items, tombs, batch, folders, f, n)]
  <2>2. \A n \in 0 .. m - 1 : n \in 0 .. m /\ f[n] = PutStep(items, tombs, batch, folders, f, n)
    BY <2>1 DEF IsPut
  <2>3. \A n \in 0 .. m : n # 0 => n - 1 \in 0 .. m - 1
    OBVIOUS
  <2>4. \A n \in 0 .. m - 1 : g[n] = f[n]
    BY <2>2
  <2>5. \A n \in 0 .. m :
          PutStep(items, tombs, batch, folders, f, n) = PutStep(items, tombs, batch, folders, g, n)
    <3> HIDE DEF g
    <3> QED BY <2>3, <2>4 DEF PutStep
  <2>6. IsPut(items, tombs, batch, folders, g, m)
    BY <2>5 DEF IsPut
  <2> QED BY <2>6
<1>3. ASSUME ~Has(N) PROVE FALSE
  <2> DEFINE Bad == {m \in Nat : ~Has(m)}
  <2>1. PICK m \in Bad : \A k \in Nat : k < m => k \notin Bad
    <3>1. N \in Bad
      BY <1>3
    <3> HIDE DEF Bad
    <3>2. Bad \subseteq Nat
      BY DEF Bad
    <3> QED BY <3>1, <3>2, LeastNat
  <2> HIDE DEF Has
  <2>2. m # 0
    BY <1>1
  <2>3. m - 1 \in Nat /\ m - 1 < m
    BY <2>2
  <2> QED BY <1>2, <2>1, <2>2, <2>3
<1> QED BY <1>3

LEMMA PutAllIs ==
  ASSUME NEW items, NEW tombs, NEW batch, NEW folders, Len(batch) \in Nat
  PROVE  \E put : /\ IsPut(items, tombs, batch, folders, put, Len(batch))
                  /\ PutAll(items, tombs, batch, folders) = resolveUnresolvedCachedPaths(put[Len(batch)])
<1> DEFINE put[n \in 0 .. Len(batch)] ==
        IF n = 0 THEN [items |-> items, removed |-> {}, tombs |-> tombs]
        ELSE cachePutSimplified(put[n - 1], batch[n], folders)
<1>1. put = CHOOSE f : f = [n \in 0 .. Len(batch) |->  IF n = 0 THEN [items |-> items, removed |-> {}, tombs |-> tombs]
        ELSE cachePutSimplified(f[n - 1], batch[n], folders)]
  OBVIOUS
<1>2. PutAll(items, tombs, batch, folders) = resolveUnresolvedCachedPaths(put[Len(batch)])
  BY DEF PutAll
<1> HIDE DEF put
<1>3. PICK g : IsPut(items, tombs, batch, folders, g, Len(batch))
  BY PutExists
<1>4. g = [n \in 0 .. Len(batch) |->
             IF n = 0 THEN [items |-> items, removed |-> {}, tombs |-> tombs]
             ELSE cachePutSimplified(g[n - 1], batch[n], folders)]
  BY <1>3 DEF IsPut, PutStep
<1>5. put = [n \in 0 .. Len(batch) |->
             IF n = 0 THEN [items |-> items, removed |-> {}, tombs |-> tombs]
             ELSE cachePutSimplified(put[n - 1], batch[n], folders)]
  BY <1>1, <1>4
<1>6. IsPut(items, tombs, batch, folders, put, Len(batch))
  BY <1>5 DEF IsPut, PutStep
<1> QED BY <1>2, <1>6

(* What the cache knows of items, paths apart: a set of facts.              *)
Fields == {"name", "parent", "ver"}
Fact(i, r) == [id |-> i, name |-> r.name, parent |-> r.parent, ver |-> r.ver]

Told(items, facts) ==
  /\ DOMAIN items \subseteq Item
  /\ \A i \in DOMAIN items :
       Fields \subseteq DOMAIN items[i] /\ Fact(i, items[i]) \in facts

TellsOnly(s, facts) == "items" \in DOMAIN s /\ Told(s.items, facts)

LEMMA ItemsFinite ==
  ASSUME DriveAssumption, NEW items, DOMAIN items \subseteq Item
  PROVE  Cardinality(DOMAIN items) \in Nat
BY FS_Subset, FS_CardinalityType DEF DriveAssumption

(* An item that is removed goes itself, as the first of its descendants.    *)
Near(items, path, ids) ==
  {j \in DOMAIN items :
     \/ items[j].parent \in ids
     \/ path # <<"?">> /\ items[j].path # <<"?">>
        /\ (items[j].path = path
            \/ (Len(path) < Len(items[j].path) /\ SubSeq(items[j].path, 1, Len(path)) = path))}
GrowStep(items, i, path, grown, n) ==
  IF n = 0 THEN {i} ELSE grown[n - 1] \cup Near(items, path, grown[n - 1])
IsGrown(items, i, path, grown, m) ==
  grown = [n \in 0 .. m |-> GrowStep(items, i, path, grown, n)]

LEMMA GrownExists ==
  ASSUME NEW items, NEW i, NEW path, NEW N \in Nat
  PROVE  \E f : IsGrown(items, i, path, f, N)
<1> DEFINE Has(m) == \E f : IsGrown(items, i, path, f, m)
<1>1. Has(0)
  <2> DEFINE f == [n \in 0 .. 0 |-> {i}]
  <2>1. IsGrown(items, i, path, f, 0)
    BY DEF IsGrown, GrowStep
  <2> QED BY <2>1
<1>2. ASSUME NEW m \in Nat, m # 0, Has(m - 1) PROVE Has(m)
  <2>1. PICK f : IsGrown(items, i, path, f, m - 1)
    BY <1>2
  <2> DEFINE g == [n \in 0 .. m |-> GrowStep(items, i, path, f, n)]
  <2>2. \A n \in 0 .. m - 1 : n \in 0 .. m /\ f[n] = GrowStep(items, i, path, f, n)
    BY <2>1 DEF IsGrown
  <2>3. \A n \in 0 .. m : n # 0 => n - 1 \in 0 .. m - 1
    OBVIOUS
  <2>4. \A n \in 0 .. m - 1 : g[n] = f[n]
    BY <2>2
  <2>5. \A n \in 0 .. m : GrowStep(items, i, path, f, n) = GrowStep(items, i, path, g, n)
    <3> HIDE DEF g
    <3> QED BY <2>3, <2>4 DEF GrowStep
  <2>6. IsGrown(items, i, path, g, m)
    BY <2>5 DEF IsGrown
  <2> QED BY <2>6
<1>3. ASSUME ~Has(N) PROVE FALSE
  <2> DEFINE Bad == {m \in Nat : ~Has(m)}
  <2>1. PICK m \in Bad : \A k \in Nat : k < m => k \notin Bad
    <3>1. N \in Bad
      BY <1>3
    <3> HIDE DEF Bad
    <3>2. Bad \subseteq Nat
      BY DEF Bad
    <3> QED BY <3>1, <3>2, LeastNat
  <2> HIDE DEF Has
  <2>2. m # 0
    BY <1>1
  <2>3. m - 1 \in Nat /\ m - 1 < m
    BY <2>2
  <2> QED BY <1>2, <2>1, <2>2, <2>3
<1> QED BY <1>3

LEMMA DescendantsHave ==
  ASSUME NEW items, NEW i, NEW path, Cardinality(DOMAIN items) \in Nat
  PROVE  i \in Descendants(items, i, path)
<1> DEFINE N == Cardinality(DOMAIN items)
           step(f) == [n \in 0 .. N |->
                         IF n = 0 THEN {i} ELSE f[n - 1] \cup Near(items, path, f[n - 1])]
           grown == CHOOSE f : f = step(f)
<1>1. Descendants(items, i, path) = grown[N]
  BY DEF Descendants, Near
<1>2. PICK g : IsGrown(items, i, path, g, N)
  BY GrownExists
<1>3. g = step(g)
  BY <1>2 DEF IsGrown, GrowStep
<1>4. grown = step(grown)
  BY <1>3
<1> HIDE DEF grown
<1>5. IsGrown(items, i, path, grown, N)
  BY <1>4 DEF IsGrown, GrowStep
<1> HIDE DEF N
<1>6. ASSUME NEW n \in 0 .. N, i \notin grown[n] PROVE FALSE
  <2> DEFINE Bad == {k \in 0 .. N : i \notin grown[k]}
  <2>1. PICK m \in Bad : \A k \in Nat : k < m => k \notin Bad
    <3>1. n \in Bad
      BY <1>6
    <3>2. Bad \subseteq Nat
      OBVIOUS
    <3> HIDE DEF Bad
    <3> QED BY <3>1, <3>2, LeastNat
  <2>2. grown[m] = GrowStep(items, i, path, grown, m)
    BY <1>5 DEF IsGrown
  <2>3. m # 0
    BY <2>2 DEF GrowStep
  <2>4. m - 1 \in 0 .. N /\ m - 1 \in Nat /\ m - 1 < m
    BY <2>3 DEF N
  <2>5. i \in grown[m - 1]
    BY <2>1, <2>4
  <2> QED BY <2>2, <2>3, <2>5 DEF GrowStep
<1>7. N \in 0 .. N
  BY DEF N
<1> QED BY <1>1, <1>6, <1>7

LEMMA RemoveTells ==
  ASSUME DriveAssumption, NEW s, NEW facts, TellsOnly(s, facts), NEW i, NEW path
  PROVE  TellsOnly(cacheRemoveItemAndDescendants(s, i, path), {f \in facts : f.id # i})
<1> DEFINE t == cacheRemoveItemAndDescendants(s, i, path)
<1>1. PICK old : /\ "items" \in DOMAIN t
                 /\ t.items = Restrict(s.items, DOMAIN s.items \
                                (Descendants(s.items, i, old) \cap DOMAIN s.items))
  BY DEF cacheRemoveItemAndDescendants, TellsOnly
<1>2. i \in Descendants(s.items, i, old)
  BY ItemsFinite, DescendantsHave DEF TellsOnly, Told
<1> HIDE DEF t
<1>3. /\ DOMAIN t.items \subseteq DOMAIN s.items /\ i \notin DOMAIN t.items
      /\ \A j \in DOMAIN t.items : t.items[j] = s.items[j]
  BY <1>1, <1>2 DEF Restrict
<1>4. \A j \in DOMAIN t.items :
        Fact(j, t.items[j]) \in facts /\ Fact(j, t.items[j]).id # i
  BY <1>3 DEF TellsOnly, Told, Fact
<1>5. Told(t.items, {f \in facts : f.id # i})
  BY <1>3, <1>4 DEF TellsOnly, Told
<1> QED BY <1>1, <1>5 DEF TellsOnly, t

LEMMA MoreFacts ==
  ASSUME NEW s, NEW facts, TellsOnly(s, facts), NEW more, facts \subseteq more
  PROVE  TellsOnly(s, more)
BY DEF TellsOnly, Told

LEMMA DisplaceTells ==
  ASSUME DriveAssumption, NEW s, NEW facts, TellsOnly(s, facts), NEW i, NEW path
  PROVE  TellsOnly(Displace(s, i, path), facts)
<1>1. CASE Displace(s, i, path) = s
  BY <1>1
<1>2. CASE \E j : Displace(s, i, path) = cacheRemoveItemAndDescendants(s, j, path)
  <2>1. PICK j : Displace(s, i, path) = cacheRemoveItemAndDescendants(s, j, path)
    BY <1>2
  <2> DEFINE t == cacheRemoveItemAndDescendants(s, j, path)
             less == {f \in facts : f.id # j}
  <2>2. TellsOnly(t, less) /\ less \subseteq facts
    BY RemoveTells
  <2> HIDE DEF t, less
  <2>3. TellsOnly(t, facts)
    BY <2>2, MoreFacts
  <2> QED BY <2>1, <2>3 DEF t
<1> QED BY <1>1, <1>2 DEF Displace

LEMMA DescendantsTell ==
  ASSUME NEW items, NEW facts, Told(items, facts), NEW old, NEW new
  PROVE  Told(updateCachedDescendantPaths(items, old, new), facts)
<1> DEFINE g == updateCachedDescendantPaths(items, old, new)
<1>1. DOMAIN g = DOMAIN items
  BY DEF updateCachedDescendantPaths
<1>2. ASSUME NEW j \in DOMAIN items
      PROVE  Fields \subseteq DOMAIN g[j] /\ Fact(j, g[j]) \in facts
  <2>1. Fields \subseteq DOMAIN items[j] /\ Fact(j, items[j]) \in facts
    BY DEF Told
  <2>2. g[j] = items[j] \/ \E path : g[j] = [items[j] EXCEPT !.path = path]
    BY DEF updateCachedDescendantPaths
  <2> HIDE DEF g
  <2> QED BY <2>1, <2>2 DEF Fact, Fields
<1> HIDE DEF g
<1>3. Told(g, facts)
  BY <1>1, <1>2 DEF Told
<1> QED BY <1>3 DEF g

(* An item that is put is known as it is put, and no longer as before.      *)
LEMMA PutTells ==
  ASSUME DriveAssumption, NEW s, NEW facts, TellsOnly(s, facts),
         NEW shown, shown.id \in Item, NEW folders
  PROVE  TellsOnly(cachePutSimplified(s, shown, folders),
                   {f \in facts : f.id # shown.id} \cup {Fact(shown.id, shown)})
<1> DEFINE i    == shown.id
           less == {f \in facts : f.id # i}
           more == less \cup {Fact(i, shown)}
           t    == cachePutSimplified(s, shown, folders)
<1>1. CASE shown.deleted
  <2> DEFINE rest == cacheRemoveItemAndDescendants(s, i, shown.path)
  <2>1. TellsOnly(rest, less)
    BY RemoveTells
  <2>2. PICK tombs : t = [rest EXCEPT !.tombs = tombs]
    BY <1>1 DEF cachePutSimplified
  <2>3. less \subseteq more
    OBVIOUS
  <2> HIDE DEF rest, t, less, more
  <2>4. DOMAIN t = DOMAIN rest /\ t.items = rest.items
    BY <2>1, <2>2 DEF TellsOnly
  <2>5. TellsOnly(t, more)
    BY <2>1, <2>3, <2>4 DEF TellsOnly, Told
  <2> QED BY <2>5 DEF t, more, less
<1>2. CASE ~shown.deleted
  <2> DEFINE path == resolveCachedItemPath(s.items, shown)
             free == Displace(s, i, path)
             entry == [name |-> shown.name, parent |-> shown.parent,
                       ver |-> shown.ver, path |-> path]
  <2>1. Told(free.items, facts)
    BY DisplaceTells DEF TellsOnly
  <2>2. \E below : /\ \/ below = free.items
                      \/ \E old, new : below = updateCachedDescendantPaths(free.items, old, new)
                   /\ "items" \in DOMAIN t
                   /\ t.items = [j \in DOMAIN below \cup {i} |-> IF j = i THEN entry ELSE below[j]]
    BY <1>2 DEF cachePutSimplified
  <2>3. Fields \subseteq DOMAIN entry /\ Fact(i, entry) = Fact(i, shown)
    BY DEF Fields, Fact
  <2>4. \A j, r : Fact(j, r) \in facts /\ j # i => Fact(j, r) \in more
    BY DEF Fact
  <2>6. Fact(i, shown) \in more
    OBVIOUS
  <2> HIDE DEF t, i, path, free, entry, less, more
  <2>5. PICK below : /\ Told(below, facts)
                     /\ "items" \in DOMAIN t
                     /\ t.items = [j \in DOMAIN below \cup {i} |-> IF j = i THEN entry ELSE below[j]]
    BY <2>1, <2>2, DescendantsTell
  <2>7. i \in Item
    BY DEF i
  <2>8. ASSUME NEW j \in DOMAIN t.items
        PROVE  j \in Item /\ Fields \subseteq DOMAIN t.items[j] /\ Fact(j, t.items[j]) \in more
    <3>1. CASE j = i
      BY <2>3, <2>5, <2>6, <2>7, <3>1
    <3>2. CASE j # i
      <4>1. j \in DOMAIN below /\ t.items[j] = below[j]
        BY <2>5, <3>2
      <4>2. j \in Item /\ Fields \subseteq DOMAIN below[j] /\ Fact(j, below[j]) \in facts
        BY <2>5, <4>1 DEF Told
      <4> QED BY <2>4, <3>2, <4>1, <4>2
    <3> QED BY <3>1, <3>2
  <2>9. TellsOnly(t, more)
    BY <2>5, <2>8 DEF TellsOnly, Told
  <2> QED BY <2>9 DEF t, more, less, i
<1> QED BY <1>1, <1>2

(* What one pass over the items whose paths are not known does.             *)
Waiting(s) ==
  {i \in DOMAIN s.items :
     /\ s.items[i].path = <<"?">>
     /\ cachedParentRemotePath(s.items, s.items[i].parent) # <<"?">>}
PassOne(s) ==
  LET i    == CHOOSE i \in Waiting(s) : TRUE
      path == Append(cachedParentRemotePath(s.items, s.items[i].parent), s.items[i].name)
      free == Displace(s, i, path)
  IN [free EXCEPT !.items =
        [j \in DOMAIN @ \cup {i} |->
           IF j = i THEN [s.items[i] EXCEPT !.path = path] ELSE @[j]]]
PassStep(state, pass, n) ==
  IF n = 0 THEN state
  ELSE IF Waiting(pass[n - 1]) = {} THEN pass[n - 1] ELSE PassOne(pass[n - 1])
IsPass(state, pass, m) == pass = [n \in 0 .. m |-> PassStep(state, pass, n)]

LEMMA PassExists ==
  ASSUME NEW state, NEW N \in Nat PROVE \E f : IsPass(state, f, N)
<1> DEFINE Has(m) == \E f : IsPass(state, f, m)
<1>1. Has(0)
  <2> DEFINE f == [n \in 0 .. 0 |-> state]
  <2>1. IsPass(state, f, 0)
    BY DEF IsPass, PassStep
  <2> QED BY <2>1
<1>2. ASSUME NEW m \in Nat, m # 0, Has(m - 1) PROVE Has(m)
  <2>1. PICK f : IsPass(state, f, m - 1)
    BY <1>2
  <2> DEFINE g == [n \in 0 .. m |-> PassStep(state, f, n)]
  <2>2. \A n \in 0 .. m - 1 : n \in 0 .. m /\ f[n] = PassStep(state, f, n)
    BY <2>1 DEF IsPass
  <2>3. \A n \in 0 .. m : n # 0 => n - 1 \in 0 .. m - 1
    OBVIOUS
  <2>4. \A n \in 0 .. m - 1 : g[n] = f[n]
    BY <2>2
  <2>5. \A n \in 0 .. m : PassStep(state, f, n) = PassStep(state, g, n)
    <3> HIDE DEF g
    <3> QED BY <2>3, <2>4 DEF PassStep
  <2>6. IsPass(state, g, m)
    BY <2>5 DEF IsPass
  <2> QED BY <2>6
<1>3. ASSUME ~Has(N) PROVE FALSE
  <2> DEFINE Bad == {m \in Nat : ~Has(m)}
  <2>1. PICK m \in Bad : \A k \in Nat : k < m => k \notin Bad
    <3>1. N \in Bad
      BY <1>3
    <3> HIDE DEF Bad
    <3>2. Bad \subseteq Nat
      BY DEF Bad
    <3> QED BY <3>1, <3>2, LeastNat
  <2> HIDE DEF Has
  <2>2. m # 0
    BY <1>1
  <2>3. m - 1 \in Nat /\ m - 1 < m
    BY <2>2
  <2> QED BY <1>2, <2>1, <2>2, <2>3
<1> QED BY <1>3

LEMMA PassIs ==
  ASSUME NEW state, Cardinality(DOMAIN state.items) \in Nat
  PROVE  \E pass : /\ IsPass(state, pass, Cardinality(DOMAIN state.items))
                   /\ resolveUnresolvedCachedPaths(state)
                        = pass[Cardinality(DOMAIN state.items)]
<1> DEFINE N == Cardinality(DOMAIN state.items)
           step(f) == [n \in 0 .. N |->
                         IF n = 0 THEN state
                         ELSE LET s == f[n - 1] IN IF Waiting(s) = {} THEN s ELSE PassOne(s)]
           pass == CHOOSE f : f = step(f)
<1>2. resolveUnresolvedCachedPaths(state) = pass[N]
  BY DEF resolveUnresolvedCachedPaths, Waiting, PassOne
<1>3. PICK g : IsPass(state, g, N)
  BY PassExists
<1>4. g = step(g)
  BY <1>3 DEF IsPass, PassStep
<1>5. pass = step(pass)
  BY <1>4
<1> HIDE DEF pass
<1>6. IsPass(state, pass, N)
  BY <1>5 DEF IsPass, PassStep
<1> QED BY <1>2, <1>6

LEMMA PassOneTells ==
  ASSUME DriveAssumption, NEW s, NEW facts, TellsOnly(s, facts), Waiting(s) # {}
  PROVE  TellsOnly(PassOne(s), facts)
<1> DEFINE i    == CHOOSE i \in Waiting(s) : TRUE
           path == Append(cachedParentRemotePath(s.items, s.items[i].parent), s.items[i].name)
           free == Displace(s, i, path)
           t    == PassOne(s)
           entry == [s.items[i] EXCEPT !.path = path]
<1>1. i \in DOMAIN s.items
  BY DEF Waiting
<1>2. TellsOnly(free, facts)
  BY DisplaceTells
<1>3. t = [free EXCEPT !.items =
             [j \in DOMAIN free.items \cup {i} |-> IF j = i THEN entry ELSE free.items[j]]]
  BY DEF PassOne
<1>4. i \in Item /\ Fields \subseteq DOMAIN s.items[i] /\ Fact(i, s.items[i]) \in facts
  BY <1>1 DEF TellsOnly, Told
<1> HIDE DEF i, path, free, t
<1>5. Fields \subseteq DOMAIN entry /\ Fact(i, entry) \in facts
  BY <1>4 DEF Fields, Fact
<1> HIDE DEF entry
<1>6. /\ "items" \in DOMAIN t
      /\ t.items = [j \in DOMAIN free.items \cup {i} |-> IF j = i THEN entry ELSE free.items[j]]
  BY <1>2, <1>3 DEF TellsOnly
<1>7. TellsOnly(t, facts)
  BY <1>2, <1>4, <1>5, <1>6 DEF TellsOnly, Told
<1> QED BY <1>7 DEF t

LEMMA PassesTell ==
  ASSUME DriveAssumption, NEW s, NEW facts, TellsOnly(s, facts)
  PROVE  TellsOnly(resolveUnresolvedCachedPaths(s), facts)
<1> DEFINE N == Cardinality(DOMAIN s.items)
<1>1. N \in Nat
  BY ItemsFinite DEF TellsOnly, Told
<1>2. PICK pass : IsPass(s, pass, N) /\ resolveUnresolvedCachedPaths(s) = pass[N]
  BY <1>1, PassIs
<1> HIDE DEF N
<1>3. ASSUME NEW n \in 0 .. N, ~TellsOnly(pass[n], facts) PROVE FALSE
  <2> DEFINE Bad == {k \in 0 .. N : ~TellsOnly(pass[k], facts)}
  <2>1. PICK m \in Bad : \A k \in Nat : k < m => k \notin Bad
    <3>1. n \in Bad
      BY <1>3
    <3>2. Bad \subseteq Nat
      OBVIOUS
    <3> HIDE DEF Bad
    <3> QED BY <3>1, <3>2, LeastNat
  <2>2. pass[m] = PassStep(s, pass, m)
    BY <1>2 DEF IsPass
  <2>3. m # 0
    BY <2>2 DEF PassStep
  <2>4. m - 1 \in 0 .. N /\ m - 1 \in Nat /\ m - 1 < m
    BY <1>1, <2>3
  <2>5. TellsOnly(pass[m - 1], facts)
    BY <2>1, <2>4
  <2>6. TellsOnly(pass[m], facts)
    BY <2>2, <2>3, <2>5, PassOneTells DEF PassStep
  <2> QED BY <2>6
<1>4. N \in 0 .. N
  BY <1>1
<1> QED BY <1>2, <1>3, <1>4

(* What is known after the first items of a batch.                          *)
KnownAfter(items, batch, n) ==
  {Fact(i, items[i]) : i \in {i \in DOMAIN items : \A k \in 1 .. n : batch[k].id # i}}
    \cup {Fact(batch[k].id, batch[k]) : k \in 1 .. n}

LEMMA KnownAfterOne ==
  ASSUME NEW items, NEW batch, NEW n \in Nat, n # 0
  PROVE  {f \in KnownAfter(items, batch, n - 1) : f.id # batch[n].id}
           \cup {Fact(batch[n].id, batch[n])}
         \subseteq KnownAfter(items, batch, n)
<1>1. \A k \in 1 .. n - 1 : k \in 1 .. n
  OBVIOUS
<1>2. \A k \in 1 .. n : k = n \/ k \in 1 .. n - 1
  OBVIOUS
<1>3. n \in 1 .. n
  OBVIOUS
<1>4. ASSUME NEW f \in KnownAfter(items, batch, n - 1), f.id # batch[n].id
      PROVE  f \in KnownAfter(items, batch, n)
  <2>1. CASE \E k \in 1 .. n - 1 : f = Fact(batch[k].id, batch[k])
    BY <1>1, <2>1 DEF KnownAfter
  <2>2. CASE \E i \in DOMAIN items :
               f = Fact(i, items[i]) /\ \A k \in 1 .. n - 1 : batch[k].id # i
    <3>1. PICK i \in DOMAIN items :
            f = Fact(i, items[i]) /\ \A k \in 1 .. n - 1 : batch[k].id # i
      BY <2>2
    <3>2. f.id = i
      BY <3>1 DEF Fact
    <3>3. \A k \in 1 .. n : batch[k].id # i
      BY <1>2, <1>4, <3>1, <3>2
    <3> QED BY <3>1, <3>3 DEF KnownAfter
  <2> QED BY <1>4, <2>1, <2>2 DEF KnownAfter
<1>5. Fact(batch[n].id, batch[n]) \in KnownAfter(items, batch, n)
  BY <1>3 DEF KnownAfter
<1> QED BY <1>4, <1>5

(* After a batch an item is known as in the batch, or else as before.       *)
LEMMA PutAllTells ==
  ASSUME DriveAssumption, NEW items, DOMAIN items \subseteq Item,
         \A i \in DOMAIN items : Fields \subseteq DOMAIN items[i],
         NEW tombs, NEW folders, NEW batch, Len(batch) \in Nat,
         \A n \in 1 .. Len(batch) : batch[n].id \in Item
  PROVE  Told(PutAll(items, tombs, batch, folders).items,
              KnownAfter(items, batch, Len(batch)))
<1> DEFINE N == Len(batch)
           facts(n) == KnownAfter(items, batch, n)
<1>1. PICK put : /\ IsPut(items, tombs, batch, folders, put, N)
                 /\ PutAll(items, tombs, batch, folders) = resolveUnresolvedCachedPaths(put[N])
  BY PutAllIs
<1>2. TellsOnly([items |-> items, removed |-> {}, tombs |-> tombs], facts(0))
  <2>1. \A i \in DOMAIN items : Fact(i, items[i]) \in facts(0)
    BY DEF KnownAfter
  <2> HIDE DEF facts
  <2> QED BY <2>1 DEF TellsOnly, Told
<1> HIDE DEF N
<1>3. ASSUME NEW n \in 0 .. N, ~TellsOnly(put[n], facts(n)) PROVE FALSE
  <2> DEFINE Bad == {k \in 0 .. N : ~TellsOnly(put[k], facts(k))}
  <2>1. PICK m \in Bad : \A k \in Nat : k < m => k \notin Bad
    <3>1. n \in Bad
      BY <1>3
    <3>2. Bad \subseteq Nat
      OBVIOUS
    <3> HIDE DEF Bad
    <3> QED BY <3>1, <3>2, LeastNat
  <2>2. put[m] = PutStep(items, tombs, batch, folders, put, m)
    BY <1>1 DEF IsPut
  <2>3. m # 0
    <3> HIDE DEF facts
    <3> QED BY <1>2, <2>1, <2>2 DEF PutStep
  <2>4. m \in 1 .. N /\ m - 1 \in 0 .. N /\ m - 1 \in Nat /\ m - 1 < m /\ m \in Nat
    BY <2>3 DEF N
  <2>5. TellsOnly(put[m - 1], facts(m - 1))
    BY <2>1, <2>4
  <2> DEFINE next == {f \in facts(m - 1) : f.id # batch[m].id}
                       \cup {Fact(batch[m].id, batch[m])}
  <2>6. next \subseteq facts(m)
    BY <2>3, <2>4, KnownAfterOne
  <2>7. put[m] = cachePutSimplified(put[m - 1], batch[m], folders) /\ batch[m].id \in Item
    BY <2>2, <2>3, <2>4 DEF PutStep, N
  <2>8. TellsOnly(put[m], next)
    <3> HIDE DEF facts
    <3> QED BY <2>5, <2>7, PutTells
  <2>9. TellsOnly(put[m], facts(m))
    <3> HIDE DEF facts, next
    <3> QED BY <2>6, <2>8, MoreFacts
  <2> QED BY <2>1, <2>9
<1>4. N \in 0 .. N
  BY DEF N
<1>5. TellsOnly(put[N], facts(N))
  BY <1>3, <1>4
<1>6. TellsOnly(PutAll(items, tombs, batch, folders), facts(N))
  <2> HIDE DEF facts
  <2> QED BY <1>1, <1>5, PassesTell
<1> QED BY <1>6 DEF TellsOnly, N

(* An item as cached, and as a request returns it, is not newer than the    *)
(* drive's.                                                                 *)
EntryOK(r, v) ==
  Fields \subseteq DOMAIN r /\ r.ver \in Nat /\ r.ver <= v

ItemsOK(items, top) ==
  DOMAIN items \subseteq DOMAIN top /\ \A i \in DOMAIN items : EntryOK(items[i], top[i])

ShownOK(shown, top) ==
  shown.id \in DOMAIN top /\ shown.ver \in Nat /\ shown.ver <= top[shown.id]

LEMMA PutAllOK ==
  ASSUME DriveAssumption, NEW items, NEW top, DOMAIN top = Item, ItemsOK(items, top),
         NEW tombs, NEW folders, NEW batch, Len(batch) \in Nat,
         \A n \in 1 .. Len(batch) : ShownOK(batch[n], top)
  PROVE  /\ ItemsOK(PutAll(items, tombs, batch, folders).items, top)
         /\ Told(PutAll(items, tombs, batch, folders).items,
                 KnownAfter(items, batch, Len(batch)))
<1> DEFINE put == PutAll(items, tombs, batch, folders).items
           facts == KnownAfter(items, batch, Len(batch))
<1>1. Told(put, facts)
  BY PutAllTells DEF ItemsOK, EntryOK, ShownOK
<1>2. ASSUME NEW f \in facts PROVE f.ver \in Nat /\ f.ver <= top[f.id]
  <2>1. CASE \E k \in 1 .. Len(batch) : f = Fact(batch[k].id, batch[k])
    BY <2>1 DEF Fact, ShownOK
  <2>2. CASE \E i \in DOMAIN items : f = Fact(i, items[i])
    BY <2>2 DEF Fact, ItemsOK, EntryOK
  <2> QED BY <2>1, <2>2 DEF KnownAfter
<1> HIDE DEF put, facts
<1>3. \A i \in DOMAIN put : EntryOK(put[i], top[i])
  <2> SUFFICES ASSUME NEW i \in DOMAIN put PROVE EntryOK(put[i], top[i])
    OBVIOUS
  <2>1. Fields \subseteq DOMAIN put[i] /\ Fact(i, put[i]) \in facts
    BY <1>1 DEF Told
  <2>2. Fact(i, put[i]).ver = put[i].ver /\ Fact(i, put[i]).id = i
    BY DEF Fact
  <2> QED BY <1>2, <2>1, <2>2 DEF EntryOK
<1> QED BY <1>1, <1>3 DEF ItemsOK, Told, put, facts

------------------------------------------------------------------------------
(* Batches without duplicates.                                              *)
LEMMA MaxOf ==
  ASSUME NEW S, S \subseteq Nat, S # {}, NEW n \in Nat, \A s \in S : s <= n
  PROVE  Max(S) \in S /\ \A s \in S : s <= Max(S)
<1> DEFINE T == {m \in Nat : \A s \in S : s <= m}
<1>1. PICK m \in T : \A k \in Nat : k < m => k \notin T
  <2>1. n \in T /\ T \subseteq Nat
    OBVIOUS
  <2> HIDE DEF T
  <2> QED BY <2>1, LeastNat
<1>2. m \in S
  <2>1. CASE m = 0
    <3>1. PICK s \in S : TRUE
      OBVIOUS
    <3>2. s \in Nat /\ s <= 0
      BY <1>1, <2>1
    <3>3. s = 0
      BY <3>2
    <3> QED BY <2>1, <3>3
  <2>2. CASE m # 0
    <3>1. m - 1 \in Nat /\ m - 1 < m
      BY <2>2
    <3>2. PICK s \in S : ~(s <= m - 1)
      BY <1>1, <3>1
    <3>3. s \in Nat /\ s <= m
      BY <1>1
    <3> QED BY <3>1, <3>2, <3>3
  <2> QED BY <2>1, <2>2
<1>3. \A s \in S : s \in Nat /\ s <= m
  BY <1>1
<1>4. \E x \in S : \A y \in S : x >= y
  BY <1>2, <1>3
<1> HIDE DEF T
<1>5. Max(S) \in S /\ \A y \in S : Max(S) >= y
  BY <1>4 DEF Max
<1> QED BY <1>5

LEMMA MinOf ==
  ASSUME NEW S, S \subseteq Nat, S # {}
  PROVE  Min(S) \in S /\ \A s \in S : Min(S) <= s
<1>1. PICK m \in S : \A k \in Nat : k < m => k \notin S
  BY LeastNat
<1>2. \E x \in S : \A y \in S : x <= y
  <2>1. \A y \in S : y \in Nat /\ m \in Nat
    OBVIOUS
  <2> QED BY <1>1, <2>1
<1> QED BY <1>2 DEF Min

LEMMA SeqOfSet ==
  ASSUME NEW S, IsFiniteSet(S)
  PROVE  /\ SetToSeq(S) \in Seq(S)
         /\ \A x \in S : \E k \in DOMAIN SetToSeq(S) : SetToSeq(S)[k] = x
<1> DEFINE n == Cardinality(S)
           s == SetToSeq(S)
<1>1. n \in Nat /\ ExistsBijection(1 .. n, S)
  BY FS_CardinalityType
<1>2. PICK f : f \in Bijection(1 .. n, S)
  BY <1>1 DEF ExistsBijection
<1>3. f \in [1 .. n -> S] /\ IsInjective(f)
  BY <1>2 DEF Bijection, Injection
<1>4. s \in [1 .. n -> S] /\ IsInjective(s)
  BY <1>3 DEF SetToSeq
<1>5. s \in Injection(1 .. n, S)
  BY <1>4 DEF Injection
<1>6. Cardinality(1 .. n) = n /\ IsFiniteSet(1 .. n)
  <2> HIDE DEF n
  <2> QED BY <1>1, FS_Interval
<1> HIDE DEF s
<1>7. s \in Surjection(1 .. n, S)
  BY <1>5, <1>6, FS_Injection
<1>8. s \in Seq(S)
  BY <1>1, <1>4
<1>9. \A x \in S : \E k \in 1 .. n : s[k] = x
  BY <1>7 DEF Surjection
<1> QED BY <1>4, <1>8, <1>9 DEF s
BatchOK(b, top) == \E S : b \in Seq(S) /\ \A x \in S : ShownOK(x, top)

LEMMA BatchLen ==
  ASSUME NEW b, NEW top, BatchOK(b, top)
  PROVE  /\ Len(b) \in Nat /\ DOMAIN b = 1 .. Len(b)
         /\ \A k \in DOMAIN b : ShownOK(b[k], top)
<1>1. PICK S : b \in Seq(S) /\ \A x \in S : ShownOK(x, top)
  BY DEF BatchOK
<1> QED BY <1>1, LenProperties, ElementOfSeq

(* Where an identity is in a batch, and the order of the first places.      *)
At(b, i) == {k \in DOMAIN b : b[k].id = i}
Firsts(b) == {k \in DOMAIN b : k = Min(At(b, b[k].id))}
PlaceIn(b, k) == Cardinality({m \in Firsts(b) : m <= k})

LEMMA AtOK ==
  ASSUME NEW b, NEW N \in Nat, DOMAIN b = 1 .. N, NEW i, At(b, i) # {}
  PROVE  /\ Max(At(b, i)) \in At(b, i) /\ Min(At(b, i)) \in At(b, i)
         /\ \A k \in At(b, i) : k <= Max(At(b, i))
<1>1. At(b, i) \subseteq Nat /\ \A k \in At(b, i) : k <= N
  BY DEF At
<1> QED BY <1>1, MaxOf, MinOf

LEMMA PlacesOK ==
  ASSUME NEW b, NEW N \in Nat, DOMAIN b = 1 .. N
  PROVE  /\ Cardinality(Firsts(b)) \in Nat
         /\ \A j, k \in Firsts(b) : PlaceIn(b, j) = PlaceIn(b, k) => j = k
         /\ \A k \in Firsts(b) : PlaceIn(b, k) \in 1 .. Cardinality(Firsts(b))
         /\ \A n \in 1 .. Cardinality(Firsts(b)) : \E k \in Firsts(b) : PlaceIn(b, k) = n
<1> DEFINE F == Firsts(b)
           upto(k) == {m \in F : m <= k}
           C == Cardinality(F)
<1>1. F \subseteq 1 .. N /\ F \subseteq Nat
  BY DEF Firsts
<1>2. IsFiniteSet(F) /\ C \in Nat
  <2>1. IsFiniteSet(1 .. N)
    BY FS_Interval
  <2> HIDE DEF F
  <2> QED BY <1>1, <2>1, FS_Subset, FS_CardinalityType
<1> HIDE DEF F
<1>3. ASSUME NEW k \in F PROVE Cardinality(upto(k)) \in 1 .. C
  <2>1. upto(k) \in SUBSET F /\ k \in upto(k)
    BY <1>1
  <2>2. IsFiniteSet(upto(k)) /\ Cardinality(upto(k)) <= C /\ Cardinality(upto(k)) \in Nat
    <3> HIDE DEF upto
    <3> QED BY <1>2, <2>1, FS_Subset, FS_CardinalityType
  <2>3. Cardinality(upto(k)) # 0
    <3> HIDE DEF upto
    <3> QED BY <2>1, <2>2, FS_EmptySet
  <2> HIDE DEF upto, C
  <2> QED BY <1>2, <2>2, <2>3
<1>4. ASSUME NEW j \in F, NEW k \in F, j < k
      PROVE  Cardinality(upto(j)) # Cardinality(upto(k))
  <2>1. j \in Nat /\ k \in Nat /\ \A m \in F : m \in Nat
    BY <1>1
  <2>2. \A m \in F : m <= j => m <= k
    BY <1>4, <2>1
  <2>4. upto(j) \subseteq upto(k)
    BY <2>2
  <2>3. k \in upto(k) /\ k \notin upto(j) /\ upto(k) \subseteq F
    BY <1>4, <2>1
  <2> HIDE DEF upto
  <2> QED BY <1>2, <2>4, <2>3, FS_Subset
<1>5. \A j, k \in F : Cardinality(upto(j)) = Cardinality(upto(k)) => j = k
  <2> HIDE DEF upto
  <2> QED BY <1>1, <1>4
<1>6. ASSUME NEW n \in 1 .. C PROVE \E k \in F : Cardinality(upto(k)) = n
  <2> DEFINE f == [k \in F |-> Cardinality(upto(k))]
  <2>1. f \in [F -> 1 .. C] /\ \A j, k \in F : f[j] = f[k] => j = k
    <3> HIDE DEF upto, C
    <3> QED BY <1>3, <1>5
  <2>2. f \in Injection(F, 1 .. C)
    <3> HIDE DEF f
    <3> QED BY <2>1 DEF Injection, IsInjective
  <2>3. IsFiniteSet(1 .. C) /\ Cardinality(1 .. C) = C
    <3> HIDE DEF C
    <3> QED BY <1>2, FS_Interval
  <2>4. f \in Surjection(F, 1 .. C)
    <3> HIDE DEF f
    <3> QED BY <2>2, <2>3, FS_Injection
  <2>5. PICK k \in F : f[k] = n
    <3> HIDE DEF f
    <3> QED BY <2>4 DEF Surjection
  <2> QED BY <2>5
<1>7. \A k : PlaceIn(b, k) = Cardinality(upto(k))
  BY DEF PlaceIn, F
<1> HIDE DEF upto
<1> QED BY <1>2, <1>3, <1>5, <1>6, <1>7 DEF F

LEMMA DeduplicatedOK ==
  ASSUME NEW b, NEW top, BatchOK(b, top)
  PROVE  /\ BatchOK(Deduplicated(b), top)
         /\ \A i : At(b, i) # {} =>
              /\ \E n \in DOMAIN Deduplicated(b) :
                   Deduplicated(b)[n] = b[Max(At(b, i))]
              /\ \A n \in DOMAIN Deduplicated(b) :
                   Deduplicated(b)[n].id = i => Deduplicated(b)[n] = b[Max(At(b, i))]
         /\ \A n \in DOMAIN Deduplicated(b) : \E k \in DOMAIN b : Deduplicated(b)[n] = b[k]
<1> DEFINE N == Len(b)
           C == Cardinality(Firsts(b))
           first(n) == CHOOSE k \in Firsts(b) : PlaceIn(b, k) = n
           d == [n \in 1 .. C |-> b[Max(At(b, b[first(n)].id))]]
           S == {b[k] : k \in DOMAIN b}
<1>1. N \in Nat /\ DOMAIN b = 1 .. N /\ \A k \in DOMAIN b : ShownOK(b[k], top)
  BY BatchLen
<1>2. Deduplicated(b) = d
  BY DEF Deduplicated, Firsts, At, PlaceIn
<1> HIDE DEF N
<1>3. /\ C \in Nat
      /\ \A j, k \in Firsts(b) : PlaceIn(b, j) = PlaceIn(b, k) => j = k
      /\ \A k \in Firsts(b) : PlaceIn(b, k) \in 1 .. C
      /\ \A n \in 1 .. C : \E k \in Firsts(b) : PlaceIn(b, k) = n
  BY <1>1, PlacesOK
<1>4. \A n \in 1 .. C : first(n) \in Firsts(b) /\ PlaceIn(b, first(n)) = n
  BY <1>3
<1>5. ASSUME NEW n \in 1 .. C PROVE d[n] \in S
  <2>1. first(n) \in DOMAIN b
    BY <1>4 DEF Firsts
  <2> HIDE DEF first
  <2>2. At(b, b[first(n)].id) # {}
    BY <2>1 DEF At
  <2>3. Max(At(b, b[first(n)].id)) \in DOMAIN b
    BY <1>1, <2>2, AtOK DEF At
  <2> QED BY <2>3
<1>6. d \in Seq(S)
  <2> HIDE DEF C, S
  <2>1. d \in [1 .. C -> S]
    BY <1>5
  <2> HIDE DEF d
  <2> QED BY <1>3, <2>1
<1>7. \A x \in S : ShownOK(x, top)
  BY <1>1
<1>8. BatchOK(d, top)
  <2> HIDE DEF d, S
  <2> QED BY <1>6, <1>7 DEF BatchOK
<1>9. ASSUME NEW i, At(b, i) # {} PROVE \E n \in DOMAIN d : d[n] = b[Max(At(b, i))]
  <2> DEFINE k == Min(At(b, i))
  <2>1. k \in At(b, i)
    BY <1>1, <1>9, AtOK
  <2>2. k \in DOMAIN b /\ b[k].id = i
    BY <2>1 DEF At
  <2>3. k \in Firsts(b)
    BY <2>2 DEF Firsts
  <2> HIDE DEF k
  <2>4. first(PlaceIn(b, k)) = k /\ PlaceIn(b, k) \in 1 .. C
    <3> HIDE DEF C
    <3> QED BY <1>3, <1>4, <2>3
  <2> HIDE DEF first
  <2>5. d[PlaceIn(b, k)] = b[Max(At(b, i))]
    BY <2>2, <2>4
  <2>6. PlaceIn(b, k) \in DOMAIN d
    BY <2>4
  <2> HIDE DEF d
  <2> QED BY <2>5, <2>6
<1>10. ASSUME NEW i, At(b, i) # {}, NEW n \in DOMAIN d, d[n].id = i
       PROVE  d[n] = b[Max(At(b, i))]
  <2> DEFINE j == b[first(n)].id
  <2>1. n \in 1 .. C /\ d[n] = b[Max(At(b, j))]
    OBVIOUS
  <2>2. first(n) \in DOMAIN b
    <3> HIDE DEF C
    <3> QED BY <1>4, <2>1 DEF Firsts
  <2> HIDE DEF first, d, C
  <2>3. At(b, j) # {}
    BY <2>2 DEF At
  <2>4. Max(At(b, j)) \in At(b, j)
    BY <1>1, <2>3, AtOK
  <2>5. b[Max(At(b, j))].id = j
    BY <2>4 DEF At
  <2> QED BY <1>10, <2>1, <2>5
<1>11. \A n \in DOMAIN d : \E k \in DOMAIN b : d[n] = b[k]
  <2> HIDE DEF C
  <2>1. \A n \in DOMAIN d : d[n] \in S
    <3> HIDE DEF S
    <3> QED BY <1>5
  <2> QED BY <2>1
<1> HIDE DEF d
<1> QED BY <1>2, <1>8, <1>9, <1>10, <1>11
------------------------------------------------------------------------------
(* What holds of the drive, the cache, the index and the calls together.    *)
Carries(j, fields) == fields \subseteq DOMAIN j

Top(d) == [i \in Item |-> d[i].ver]

(* A text is not older than the version it is labelled with, and not newer  *)
(* unless it was put together from the segments of an Office package.       *)
TextOK(entry) ==
  /\ entry.label \in Nat /\ entry.text \in Nat /\ entry.label <= entry.text
  /\ entry.form # "segments" => entry.text = entry.label
EntriesOK(e) == DOMAIN e \subseteq Item /\ \A i \in DOMAIN e : TextOK(e[i])

ChunkOK(chunk, ver) ==
  chunk # Note => chunk.text >= ver /\ (chunk.form # "segments" => chunk.text = ver)

(* A path that nothing is at or below.                                      *)
NothingAt(p, d) ==
  /\ p \in Seq(Name)
  /\ \A i \in Item : d[i].at = "live" => PathsOf(d)[i] # p /\ ~Below(p, PathsOf(d)[i])

(* A batch that is as the drive is.                                         *)
ElementRight(e, d) ==
  /\ e.ver = d[e.id].ver /\ e.name = d[e.id].name /\ e.parent = d[e.id].parent
  /\ ~e.deleted => d[e.id].at = "live" /\ e.path \in {NoPath, PathsOf(d)[e.id]}
  /\ e.deleted => d[e.id].at # "live" /\ (e.path = NoPath \/ NothingAt(e.path, d))
Current(b, d) == \A k \in DOMAIN b : ElementRight(b[k], d)

(* Reasons for which something was read in the order of the changes.        *)
InOrder(why) == why \subseteq {"loss", "behind", "ahead"}

(* What is cached is what was given last, and that is as the drive has it   *)
(* in that version.                                                         *)
RightItems(items, d, h) ==
  \A i \in DOMAIN items :
    /\ items[i].ver = h[i]
    /\ items[i].ver = d[i].ver => items[i].name = d[i].name /\ items[i].parent = d[i].parent

InTime(d, c) == \A i \in Item : d[i].changed <= c

(* A batch has an item in a version, and in no other after that.            *)
Given(b, i, v) ==
  \E k \in DOMAIN b :
    b[k].id = i /\ \A m \in DOMAIN b : k <= m /\ b[m].id = i => b[m].ver = v

(* Up to a place in the order of changes, every item that is there was      *)
(* given to the cache as it is, or is in a batch, or is still to come.      *)
Covers(upto, rest, b, d, h) ==
  \A i \in Item : d[i].at = "live" /\ d[i].changed <= upto =>
    \/ h[i] = d[i].ver
    \/ Given(b, i, d[i].ver)
    \/ \E n \in DOMAIN rest : rest[n] = i

TokenOK(token, c) ==
  Carries(token, {"upto", "rest"}) /\ token.upto \in 1 .. c /\ token.rest \in Seq(Item)

CursorOK(u, c) ==
  u = Keep \/ (u.link \in 0 .. c /\ (u.next = NoToken \/ TokenOK(u.next, c)))

CursorCovers(u, b, d, h) ==
  u = Keep \/
    /\ u.next = NoToken /\ u.link # NoLink => Covers(u.link, <<>>, b, d, h)
    /\ u.next # NoToken => Covers(u.next.upto, u.next.rest, b, d, h)

(* The file: what is cached is not newer than the drive, and the cursors    *)
(* cover the changes before them.                                           *)
StoredOK(s, d, c, h, m) ==
  /\ Carries(s, {"items", "tombs", "link", "next"})
  /\ ItemsOK(s.items, Top(d))
  /\ s.link \in 0 .. c /\ (s.next = NoToken \/ TokenOK(s.next, c))
  /\ "clear" \notin m =>
       /\ s.link # NoLink => Covers(s.link, <<>>, <<>>, d, h)
       /\ s.next # NoToken => Covers(s.next.upto, s.next.rest, <<>>, d, h)

(* What calls have in hand at each of their steps.                          *)
(* A text that goes into the index was fetched.                             *)
ReadingKept(j) ==
  /\ j.at \in {"fetch", "deliver", "warm"} =>
       Carries(j, {"item", "ver"}) /\ j.item \in Item /\ j.ver \in Nat
  /\ j.at \in {"deliver", "warm"} => Carries(j, {"chunk"}) /\ ChunkOK(j.chunk, j.ver)
  /\ j.at = "deliver" => j.chunk.indexed \/ j.chunk.form # "segments"
  /\ j.at = "warm" => j.chunk # Note /\ j.chunk.form # "segments"

Reading == {"info", "fetch", "deliver", "warm"}
Busy    == {"write", "page", "extract", "evict", "find", "info"}

ScanThen(n) == Carries(n, {"at", "late"}) /\ n.at \notin Busy \cup Reading \cup {"scan"}

WriteThen(n) ==
  /\ Carries(n, {"at", "late"}) /\ n.at \notin Busy /\ ReadingKept(n)
  /\ n.at = "scan" => Carries(n, {"batch", "then"}) /\ n.batch = <<>> /\ ScanThen(n.then)

WriteKept(j, d, c, h, m) ==
  /\ Carries(j, {"batch", "cursor", "then"})
  /\ BatchOK(j.batch, Top(d)) /\ CursorOK(j.cursor, c) /\ WriteThen(j.then)
  /\ "clear" \notin m \cup j.late => CursorCovers(j.cursor, j.batch, d, h)
  /\ InOrder(j.late) => Current(j.batch, d)

PageKept(j, d, c, h, m) ==
  /\ Carries(j, {"token", "persist", "batch", "cursor"})
  /\ TokenOK(j.token, c) /\ BatchOK(j.batch, Top(d))
  /\ j.cursor # Keep => j.persist /\ j.cursor = [link |-> j.token.upto, next |-> j.token]
  /\ j.persist /\ "clear" \notin m \cup j.late
       => Covers(j.token.upto, j.token.rest, j.batch, d, h)
  /\ InOrder(j.late) => Current(j.batch, d)

ScanKept(j, d) ==
  /\ Carries(j, {"batch", "then"}) /\ BatchOK(j.batch, Top(d)) /\ ScanThen(j.then)
  /\ InOrder(j.late) => Current(j.batch, d)

ExtractKept(j, d) ==
  /\ Carries(j, {"seen", "base", "todo", "new"})
  /\ ItemsOK(j.seen, Top(d)) /\ j.todo \subseteq DOMAIN j.seen
  /\ EntriesOK(j.base) /\ EntriesOK(j.new)

JobKept(j, d, c, h, m) ==
  /\ Carries(j, {"at", "late"}) /\ ReadingKept(j)
  /\ j.at = "write" => WriteKept(j, d, c, h, m)
  /\ j.at = "page" => PageKept(j, d, c, h, m)
  /\ j.at = "scan" => ScanKept(j, d)
  /\ j.at = "extract" => ExtractKept(j, d)
  /\ j.at = "evict" => Carries(j, {"new"}) /\ EntriesOK(j.new)
  /\ j.at = "find" => /\ Carries(j, {"got"}) /\ BatchOK(j.got, Top(d))
                      /\ InOrder(j.late) => Current(j.got, d)
  /\ j.at = "info" => Carries(j, {"item", "entry"}) /\ j.item \in Item /\ TextOK(j.entry)

HandedOK(h, d) == h \in [Item -> Nat] /\ \A i \in Item : h[i] <= d[i].ver

JobsKept ==
  DOMAIN job = Call /\ \A x \in Call : JobKept(job[x], drive, clock, handed, mixed)

CrawledOK(k, d) ==
  DOMAIN k \subseteq Item /\ \A i \in DOMAIN k : ShownOK(k[i], Top(d)) /\ ~k[i].deleted

CInv ==
  /\ DriveOK
  /\ InTime(drive, clock)
  /\ StoredOK(cache, drive, clock, handed, mixed)
  /\ InOrder(mixed) => RightItems(cache.items, drive, handed)
  /\ EntriesOK(index) /\ HandedOK(handed, drive) /\ CrawledOK(crawled, drive)
  /\ JobsKept

------------------------------------------------------------------------------
(* As the drive advances and more is given to the cache.                    *)
LEMMA TopOK ==
  ASSUME DriveOK, DriveAssumption
  PROVE  /\ DOMAIN Top(drive) = Item /\ IsFiniteSet(DOMAIN Top(drive))
         /\ Top(drive) \in [Item -> Nat]
BY DEF Top, DriveOK, DriveRecords, DriveAssumption

LEMMA ShownStays ==
  ASSUME DriveOK, Advances, NEW x, ShownOK(x, Top(drive)) PROVE ShownOK(x, Top(drive'))
<1>1. x.id \in Item /\ x.ver \in Nat /\ x.ver <= drive[x.id].ver
  BY DEF ShownOK, Top
<1>2. drive[x.id].ver \in Nat /\ drive'[x.id].ver \in Nat /\ drive[x.id].ver <= drive'[x.id].ver
  BY <1>1 DEF Advances, DriveOK, DriveRecords
<1> QED BY <1>1, <1>2 DEF ShownOK, Top

LEMMA BatchStays ==
  ASSUME DriveOK, Advances, NEW b, BatchOK(b, Top(drive)) PROVE BatchOK(b, Top(drive'))
BY ShownStays DEF BatchOK

LEMMA ItemsStay ==
  ASSUME DriveOK, Advances, NEW items, ItemsOK(items, Top(drive))
  PROVE  ItemsOK(items, Top(drive'))
<1> SUFFICES ASSUME NEW i \in DOMAIN items
             PROVE  i \in Item /\ EntryOK(items[i], drive'[i].ver)
  BY DEF ItemsOK, Top
<1>1. i \in Item /\ EntryOK(items[i], drive[i].ver)
  BY DEF ItemsOK, Top
<1>2. drive[i].ver \in Nat /\ drive'[i].ver \in Nat /\ drive[i].ver <= drive'[i].ver
  BY <1>1 DEF Advances, DriveOK, DriveRecords
<1> QED BY <1>1, <1>2 DEF EntryOK

LEMMA CoversStays ==
  ASSUME DriveOK, Advances, NEW h, NEW z, h \in [Item -> Nat], HandedOK(z, drive'),
         \A i \in Item : h[i] <= z[i],
         NEW upto \in Nat, upto <= clock, NEW rest, NEW b,
         Covers(upto, rest, b, drive, h)
  PROVE  Covers(upto, rest, b, drive', z)
<1> SUFFICES ASSUME NEW i \in Item, drive'[i].at = "live", drive'[i].changed <= upto
             PROVE  \/ z[i] = drive'[i].ver
                    \/ Given(b, i, drive'[i].ver)
                    \/ \E n \in DOMAIN rest : rest[n] = i
  BY DEF Covers
<1>1. drive'[i].changed \in Nat /\ clock \in Nat /\ drive'[i].ver \in Nat
  BY DEF Advances, DriveOK, DriveRecords
<1>2. ~(drive'[i].changed > clock)
  BY <1>1
<1>3. /\ drive'[i].changed = drive[i].changed /\ drive'[i].ver = drive[i].ver
      /\ drive[i].at = "live"
  BY <1>2 DEF Advances
<1>4. \/ h[i] = drive[i].ver \/ Given(b, i, drive[i].ver)
      \/ \E n \in DOMAIN rest : rest[n] = i
  BY <1>3 DEF Covers
<1>5. h[i] = drive[i].ver => z[i] = drive'[i].ver
  <2>1. h[i] \in Nat /\ z[i] \in Nat /\ h[i] <= z[i] /\ z[i] <= drive'[i].ver
    BY DEF HandedOK
  <2> QED BY <1>1, <1>3, <2>1
<1> QED BY <1>3, <1>4, <1>5

LEMMA TokenStays ==
  ASSUME DriveOK, Advances, NEW token, TokenOK(token, clock) PROVE TokenOK(token, clock')
BY DEF TokenOK, DriveOK, Advances

LEMMA CursorStays ==
  ASSUME DriveOK, Advances, NEW u, CursorOK(u, clock) PROVE CursorOK(u, clock')
<1>1. clock \in Nat /\ clock' \in Nat /\ clock <= clock'
  BY DEF DriveOK, Advances
<1> QED BY <1>1, TokenStays DEF CursorOK

LEMMA CursorCoversStays ==
  ASSUME DriveOK, Advances, NEW h, NEW z, h \in [Item -> Nat], HandedOK(z, drive'),
         \A i \in Item : h[i] <= z[i], NEW b, NEW u, CursorOK(u, clock),
         CursorCovers(u, b, drive, h)
  PROVE  CursorCovers(u, b, drive', z)
<1>1. CASE u = Keep
  BY <1>1 DEF CursorCovers
<1>2. CASE u # Keep
  <2>1. clock \in Nat /\ u.link \in 0 .. clock /\ (u.next = NoToken \/ TokenOK(u.next, clock))
    BY <1>2 DEF CursorOK, DriveOK
  <2>2. CASE u.next = NoToken
    <3>1. u.link \in Nat /\ u.link <= clock
      BY <2>1
    <3>2. u.link # NoLink => Covers(u.link, <<>>, b, drive, h)
      BY <1>2, <2>2 DEF CursorCovers
    <3>3. u.link # NoLink => Covers(u.link, <<>>, b, drive', z)
      BY <3>1, <3>2, CoversStays
    <3> QED BY <2>2, <3>3 DEF CursorCovers
  <2>3. CASE u.next # NoToken
    <3>1. u.next.upto \in Nat /\ u.next.upto <= clock
      BY <2>1, <2>3 DEF TokenOK
    <3>2. Covers(u.next.upto, u.next.rest, b, drive, h)
      BY <1>2, <2>3 DEF CursorCovers
    <3>3. Covers(u.next.upto, u.next.rest, b, drive', z)
      BY <3>1, <3>2, CoversStays
    <3> QED BY <2>3, <3>3 DEF CursorCovers
  <2> QED BY <2>2, <2>3
<1> QED BY <1>1, <1>2

LEMMA StoredStays ==
  ASSUME DriveOK, Advances, NEW h, NEW z, h \in [Item -> Nat], HandedOK(z, drive'),
         \A i \in Item : h[i] <= z[i], NEW s, NEW m, NEW n, m \subseteq n,
         StoredOK(s, drive, clock, h, m)
  PROVE  StoredOK(s, drive', clock', z, n)
<1>1. clock \in Nat /\ clock' \in Nat /\ clock <= clock'
  BY DEF DriveOK, Advances
<1>2. s.link \in 0 .. clock' /\ (s.next = NoToken \/ TokenOK(s.next, clock'))
  BY <1>1, TokenStays DEF StoredOK
<1>3. ASSUME "clear" \notin n, s.link # NoLink PROVE Covers(s.link, <<>>, <<>>, drive', z)
  <2>1. Covers(s.link, <<>>, <<>>, drive, h) /\ s.link \in Nat /\ s.link <= clock
    BY <1>1, <1>3 DEF StoredOK
  <2> QED BY <2>1, CoversStays
<1>4. ASSUME "clear" \notin n, s.next # NoToken
      PROVE  Covers(s.next.upto, s.next.rest, <<>>, drive', z)
  <2>1. Covers(s.next.upto, s.next.rest, <<>>, drive, h)
    BY <1>4 DEF StoredOK
  <2>2. s.next.upto \in Nat /\ s.next.upto <= clock
    BY <1>1, <1>4 DEF StoredOK, TokenOK
  <2> QED BY <2>1, <2>2, CoversStays
<1> QED BY <1>2, <1>3, <1>4, ItemsStay DEF StoredOK

(* What a call has in hand stays in order when others change the drive and  *)
(* the cache, and when the cache is cleared.                                *)
LEMMA LateIs ==
  ASSUME NEW j, NEW why, Carries(j, {"at", "late"}), j.at # "idle"
  PROVE  /\ DOMAIN Late(j, why) = DOMAIN j
         /\ \A f \in DOMAIN j : f # "late" => Late(j, why)[f] = j[f]
         /\ Late(j, why).at = j.at
         /\ j.late \subseteq Late(j, why).late /\ why \in Late(j, why).late
<1> DEFINE k == [j EXCEPT !.late = @ \cup {why}]
<1>1. Late(j, why) = k
  BY DEF Late
<1>2. DOMAIN k = DOMAIN j /\ \A f \in DOMAIN j : f # "late" => k[f] = j[f]
  OBVIOUS
<1>3. "late" \in DOMAIN j /\ "at" \in DOMAIN j
  BY DEF Carries
<1>4. k.late = j.late \cup {why}
  BY <1>3
<1>5. k.at = j.at
  BY <1>2, <1>3
<1> HIDE DEF k
<1> QED BY <1>1, <1>2, <1>4, <1>5

LEMMA JobStays ==
  ASSUME DriveOK, Advances, NEW h, NEW z, h \in [Item -> Nat], HandedOK(z, drive'),
         NEW why, (\A i \in Item : h[i] <= z[i]) \/ why = "clear", why \notin {"loss", "behind", "ahead"},
         NEW m, NEW n, m \subseteq n, NEW j, JobKept(j, drive, clock, h, m)
  PROVE  JobKept(Late(j, why), drive', clock', z, n)
<1>1. CASE j.at = "idle"
  BY <1>1 DEF Late, JobKept, ReadingKept
<1>2. CASE j.at # "idle"
  <2> DEFINE k == Late(j, why)
  <2>1. /\ DOMAIN k = DOMAIN j /\ \A f \in DOMAIN j : f # "late" => k[f] = j[f]
        /\ k.at = j.at /\ j.late \subseteq k.late /\ why \in k.late
    BY <1>2, LateIs DEF JobKept
  <2> HIDE DEF k
  <2>2. "clear" \notin n \cup k.late
          => "clear" \notin m \cup j.late /\ \A i \in Item : h[i] <= z[i]
    BY <2>1
  <2>10. ~InOrder(k.late)
    BY <2>1 DEF InOrder
  <2>3. Carries(k, {"at", "late"}) /\ ReadingKept(k)
    <3>1. Carries(k, {"at", "late"})
      BY <2>1 DEF JobKept, Carries
    <3>2. ReadingKept(j)
      BY DEF JobKept
    <3>3. k.at \in {"fetch", "deliver", "warm"} => k.item = j.item /\ k.ver = j.ver
      BY <2>1, <3>2 DEF ReadingKept, Carries
    <3>4. k.at \in {"deliver", "warm"} => k.chunk = j.chunk
      BY <2>1, <3>2 DEF ReadingKept, Carries
    <3>5. ReadingKept(k)
      BY <2>1, <3>2, <3>3, <3>4 DEF ReadingKept, Carries
    <3> QED BY <3>1, <3>5
  <2>4. ASSUME k.at = "write" PROVE WriteKept(k, drive', clock', z, n)
    <3>1. WriteKept(j, drive, clock, h, m)
      BY <2>1, <2>4 DEF JobKept
    <3>2. k.batch = j.batch /\ k.cursor = j.cursor /\ k.then = j.then
          /\ Carries(k, {"batch", "cursor", "then"})
      BY <2>1, <3>1 DEF WriteKept, Carries
    <3>3. BatchOK(j.batch, Top(drive')) /\ CursorOK(j.cursor, clock') /\ WriteThen(j.then)
      BY <3>1, BatchStays, CursorStays DEF WriteKept
    <3>4. "clear" \notin n \cup k.late => CursorCovers(j.cursor, j.batch, drive', z)
      BY <2>2, <3>1, CursorCoversStays DEF WriteKept
    <3> QED BY <2>10, <3>2, <3>3, <3>4 DEF WriteKept
  <2>5. ASSUME k.at = "page" PROVE PageKept(k, drive', clock', z, n)
    <3>1. PageKept(j, drive, clock, h, m)
      BY <2>1, <2>5 DEF JobKept
    <3>2. k.token = j.token /\ k.persist = j.persist /\ k.batch = j.batch /\ k.cursor = j.cursor
          /\ Carries(k, {"token", "persist", "batch", "cursor"})
      BY <2>1, <3>1 DEF PageKept, Carries
    <3>3. BatchOK(j.batch, Top(drive')) /\ TokenOK(j.token, clock')
      BY <3>1, BatchStays, TokenStays DEF PageKept
    <3>4. j.token.upto \in Nat /\ j.token.upto <= clock
      BY <3>1 DEF PageKept, TokenOK, DriveOK
    <3>5. j.persist /\ "clear" \notin n \cup k.late
            => Covers(j.token.upto, j.token.rest, j.batch, drive', z)
      BY <2>2, <3>1, <3>4, CoversStays DEF PageKept
    <3>6. j.cursor # Keep => j.persist /\ j.cursor = [link |-> j.token.upto, next |-> j.token]
      BY <3>1 DEF PageKept
    <3> QED BY <2>10, <3>2, <3>3, <3>5, <3>6 DEF PageKept
  <2>6. ASSUME k.at = "scan" PROVE ScanKept(k, drive')
    <3>1. ScanKept(j, drive)
      BY <2>1, <2>6 DEF JobKept
    <3>2. k.batch = j.batch /\ k.then = j.then /\ Carries(k, {"batch", "then"})
      BY <2>1, <3>1 DEF ScanKept, Carries
    <3> QED BY <2>10, <3>1, <3>2, BatchStays DEF ScanKept
  <2>7. ASSUME k.at = "extract" PROVE ExtractKept(k, drive')
    <3>1. ExtractKept(j, drive)
      BY <2>1, <2>7 DEF JobKept
    <3>2. k.seen = j.seen /\ k.base = j.base /\ k.todo = j.todo /\ k.new = j.new
          /\ Carries(k, {"seen", "base", "todo", "new"})
      BY <2>1, <3>1 DEF ExtractKept, Carries
    <3> QED BY <3>1, <3>2, ItemsStay DEF ExtractKept
  <2>8. /\ k.at = "evict" => Carries(k, {"new"}) /\ EntriesOK(k.new)
        /\ k.at = "info" => Carries(k, {"item", "entry"}) /\ k.item \in Item /\ TextOK(k.entry)
    BY <2>1 DEF JobKept, Carries
  <2>9. k.at = "find" => /\ Carries(k, {"got"}) /\ BatchOK(k.got, Top(drive'))
                         /\ ~InOrder(k.late)
    <3>1. ASSUME k.at = "find" PROVE Carries(k, {"got"}) /\ k.got = j.got /\ BatchOK(j.got, Top(drive))
      BY <2>1, <3>1 DEF JobKept, Carries
    <3> QED BY <2>10, <3>1, BatchStays
  <2> QED BY <2>3, <2>4, <2>5, <2>6, <2>7, <2>8, <2>9 DEF JobKept, k
<1> QED BY <1>1, <1>2
------------------------------------------------------------------------------
(* Steps in general.                                                        *)
LEMMA StoreStays ==
  ASSUME CInv, Advances, UNCHANGED <<cache, index, handed, mixed, crawled>>
  PROVE  /\ DriveOK' /\ InTime(drive', clock')
         /\ StoredOK(cache', drive', clock', handed', mixed')
         /\ InOrder(mixed') => RightItems(cache'.items, drive', handed')
         /\ EntriesOK(index') /\ HandedOK(handed', drive') /\ CrawledOK(crawled', drive')
<1>1. DriveOK /\ DriveOK' /\ handed \in [Item -> Nat]
  BY DEF CInv, Advances, HandedOK
<1>2. HandedOK(handed, drive')
  <2> SUFFICES ASSUME NEW i \in Item PROVE handed[i] <= drive'[i].ver
    BY <1>1 DEF HandedOK
  <2>1. /\ handed[i] \in Nat /\ drive[i].ver \in Nat /\ drive'[i].ver \in Nat
        /\ handed[i] <= drive[i].ver /\ drive[i].ver <= drive'[i].ver
    BY <1>1 DEF CInv, HandedOK, Advances, DriveOK, DriveRecords
  <2> QED BY <2>1
<1>3. \A i \in Item : handed[i] <= handed[i]
  BY <1>1
<1>4. StoredOK(cache, drive', clock', handed, mixed)
  BY <1>1, <1>2, <1>3, StoredStays DEF CInv
<1>5. CrawledOK(crawled, drive')
  BY <1>1, ShownStays DEF CInv, CrawledOK
<1>6. InTime(drive', clock')
  BY DEF InTime, CInv, Advances, DriveOK, DriveRecords
<1>7. ASSUME InOrder(mixed) PROVE RightItems(cache.items, drive', handed)
  <2> SUFFICES ASSUME NEW i \in DOMAIN cache.items
               PROVE  /\ cache.items[i].ver = handed[i]
                      /\ cache.items[i].ver = drive'[i].ver =>
                           cache.items[i].name = drive'[i].name
                           /\ cache.items[i].parent = drive'[i].parent
    BY DEF RightItems
  <2>1. i \in Item /\ EntryOK(cache.items[i], drive[i].ver)
    BY DEF CInv, StoredOK, ItemsOK, Top
  <2>2. /\ cache.items[i].ver = handed[i]
        /\ cache.items[i].ver = drive[i].ver =>
             cache.items[i].name = drive[i].name /\ cache.items[i].parent = drive[i].parent
    BY <1>7 DEF CInv, RightItems
  <2>3. drive[i].ver \in Nat /\ drive'[i].ver \in Nat /\ drive[i].ver <= drive'[i].ver
    BY <1>1, <2>1 DEF Advances, DriveOK, DriveRecords
  <2>4. cache.items[i].ver = drive'[i].ver => drive'[i].ver = drive[i].ver
    BY <2>1, <2>3 DEF EntryOK
  <2> QED BY <2>1, <2>2, <2>4 DEF Advances
<1> QED BY <1>1, <1>2, <1>4, <1>5, <1>6, <1>7 DEF CInv

LEMMA NothingElse ==
  ASSUME CInv, UNCHANGED <<driveVars, cache, index, handed, mixed, crawled>>,
         NEW c \in Call, NEW next, GoOn(c, next),
         JobKept(next, drive, clock, handed, mixed)
  PROVE  CInv'
<1>1. Advances
  BY StaysAdvances DEF CInv
<1>2. drive' = drive /\ clock' = clock
  BY DEF driveVars
<1>3. JobsKept'
  BY <1>2 DEF CInv, JobsKept, GoOn
<1> QED BY <1>1, <1>3, StoreStays DEF CInv

LEMMA LateKept ==
  ASSUME CInv, Advances, HandedOK(handed', drive'), mixed \subseteq mixed',
         NEW why, (\A i \in Item : handed[i] <= handed'[i]) \/ why = "clear", why \notin {"loss", "behind", "ahead"},
         NEW c \in Call, NEW next, GoOnLate(c, next, why),
         JobKept(next, drive', clock', handed', mixed')
  PROVE  JobsKept'
<1>1. \A x \in Call : JobKept(Late(job[x], why), drive', clock', handed', mixed')
  BY JobStays DEF CInv, JobsKept, HandedOK
<1> QED BY <1>1 DEF JobsKept, GoOnLate

LEMMA OvertakeKept ==
  ASSUME CInv, Advances, Overtake, UNCHANGED crawled PROVE CInv'
<1>1. UNCHANGED <<cache, index, handed, mixed, crawled>>
  BY DEF Overtake
<1>2. \A i \in Item : handed[i] <= handed'[i]
  BY <1>1 DEF CInv, HandedOK
<1>3. HandedOK(handed', drive')
  BY <1>1, StoreStays
<1>4. \A x \in Call : JobKept(Late(job[x], "change"), drive', clock', handed', mixed')
  BY <1>1, <1>2, <1>3, JobStays DEF CInv, JobsKept, HandedOK
<1>5. JobsKept'
  BY <1>4 DEF JobsKept, Overtake
<1> QED BY <1>1, <1>5, StoreStays DEF CInv

(* An index that changes alone.                                             *)
LEMMA IndexKept ==
  ASSUME CInv, UNCHANGED <<driveVars, cache, handed, mixed, crawled>>, EntriesOK(index'),
         NEW c \in Call, NEW next, GoOn(c, next),
         JobKept(next, drive, clock, handed, mixed)
  PROVE  CInv'
<1>1. drive' = drive /\ clock' = clock
  BY DEF driveVars
<1>2. JobsKept'
  BY <1>1 DEF CInv, JobsKept, GoOn
<1> QED BY <1>1, <1>2 DEF CInv, DriveOK, DriveRecords

------------------------------------------------------------------------------
(* Batches.                                                                 *)
LEMMA ShownIsOK ==
  ASSUME DriveOK, NEW i \in Item, NEW path
  PROVE  /\ ShownOK(Shown(i, path), Top(drive))
         /\ Shown(i, path).id = i /\ Shown(i, path).ver = drive[i].ver
         /\ Shown(i, path).name = drive[i].name /\ Shown(i, path).parent = drive[i].parent
BY DEF ShownOK, Shown, Top, DriveOK, DriveRecords

LEMMA ShownIsRight ==
  ASSUME DriveOK, NEW i \in Item, NEW path,
         IF Live(i) THEN path \in {NoPath, PathOf[i]} ELSE path = NoPath
  PROVE  ElementRight(Shown(i, path), drive)
<1> DEFINE e == Shown(i, path)
<1>1. /\ e.id = i /\ e.ver = drive[i].ver /\ e.name = drive[i].name
      /\ e.parent = drive[i].parent /\ e.path = path /\ e.deleted = ~Live(i)
  BY DEF Shown
<1> HIDE DEF e
<1>2. PathOf = PathsOf(drive)
  BY PathOfIs
<1>3. ElementRight(e, drive)
  BY <1>1, <1>2 DEF ElementRight, Live
<1> QED BY <1>3 DEF e

LEMMA BatchOf ==
  ASSUME NEW b, NEW S, b \in Seq(S), NEW top, \A x \in S : ShownOK(x, top)
  PROVE  BatchOK(b, top)
BY DEF BatchOK

LEMMA EmptyBatch == ASSUME NEW top PROVE BatchOK(<<>>, top) /\ DOMAIN <<>> = {}
<1> DEFINE b == <<>>
           S == {}
<1>1. b \in Seq(S) /\ \A x \in S : ShownOK(x, top)
  BY EmptySeq
<1>2. BatchOK(b, top)
  <2> HIDE DEF b, S
  <2> QED BY <1>1, BatchOf
<1>3. DOMAIN <<>> = {}
  OBVIOUS
<1> QED BY <1>2, <1>3

LEMMA OneBatch ==
  ASSUME NEW x, NEW top, ShownOK(x, top)
  PROVE  BatchOK(<<x>>, top)
<1> DEFINE b == <<x>>
           S == {x}
<1>1. b \in Seq(S) /\ \A y \in S : ShownOK(y, top)
  OBVIOUS
<1>2. BatchOK(b, top)
  <2> HIDE DEF b, S
  <2> QED BY <1>1, BatchOf
<1> QED BY <1>2

LEMMA FunctionBatch ==
  ASSUME NEW n \in Nat, NEW b, b = [k \in 1 .. n |-> b[k]], NEW top,
         \A k \in 1 .. n : ShownOK(b[k], top)
  PROVE  BatchOK(b, top) /\ DOMAIN b = 1 .. n
<1> DEFINE S == {b[k] : k \in 1 .. n}
<1>1. b \in [1 .. n -> S]
  OBVIOUS
<1>2. b \in Seq(S)
  <2> HIDE DEF S
  <2> QED BY <1>1
<1>3. \A x \in S : ShownOK(x, top)
  OBVIOUS
<1> HIDE DEF S
<1> QED BY <1>2, <1>3 DEF BatchOK

LEMMA Concat ==
  ASSUME NEW a, NEW b, NEW top, BatchOK(a, top), BatchOK(b, top)
  PROVE  /\ BatchOK(a \o b, top)
         /\ \A k \in DOMAIN a : k \in DOMAIN (a \o b) /\ (a \o b)[k] = a[k]
         /\ \A k \in DOMAIN b :
              Len(a) + k \in DOMAIN (a \o b) /\ (a \o b)[Len(a) + k] = b[k]
         /\ \A k \in DOMAIN (a \o b) : k \in DOMAIN a \/ k - Len(a) \in DOMAIN b
         /\ Len(a) \in Nat /\ DOMAIN a = 1 .. Len(a)
         /\ Len(b) \in Nat /\ DOMAIN b = 1 .. Len(b)
<1>1. PICK S : a \in Seq(S) /\ \A x \in S : ShownOK(x, top)
  BY DEF BatchOK
<1>2. PICK T : b \in Seq(T) /\ \A x \in T : ShownOK(x, top)
  BY DEF BatchOK
<1> DEFINE U == S \cup T
<1>3. a \in Seq(U) /\ b \in Seq(U) /\ \A x \in U : ShownOK(x, top)
  BY <1>1, <1>2, SeqMonotonic
<1> HIDE DEF U
<1>4. /\ Len(a) \in Nat /\ DOMAIN a = 1 .. Len(a)
      /\ Len(b) \in Nat /\ DOMAIN b = 1 .. Len(b)
  BY <1>3, LenProperties
<1>5. /\ a \o b \in Seq(U) /\ Len(a \o b) = Len(a) + Len(b)
      /\ \A k \in 1 .. Len(a) + Len(b) :
           (a \o b)[k] = IF k <= Len(a) THEN a[k] ELSE b[k - Len(a)]
  BY <1>3, ConcatProperties
<1>6. DOMAIN (a \o b) = 1 .. Len(a) + Len(b)
  BY <1>5, LenProperties
<1>7. BatchOK(a \o b, top)
  BY <1>3, <1>5 DEF BatchOK
<1> DEFINE ab == a \o b
<1>8. /\ DOMAIN ab = 1 .. Len(a) + Len(b)
      /\ \A k \in 1 .. Len(a) + Len(b) : ab[k] = IF k <= Len(a) THEN a[k] ELSE b[k - Len(a)]
  BY <1>5, <1>6
<1> HIDE DEF ab
<1>9. \A k \in DOMAIN b : Len(a) + k \in DOMAIN ab /\ ab[Len(a) + k] = b[k]
  <2> SUFFICES ASSUME NEW k \in 1 .. Len(b)
               PROVE  Len(a) + k \in DOMAIN ab /\ ab[Len(a) + k] = b[k]
    BY <1>4
  <2>1. Len(a) + k \in 1 .. Len(a) + Len(b) /\ ~(Len(a) + k <= Len(a))
        /\ Len(a) + k - Len(a) = k
    BY <1>4
  <2> QED BY <1>8, <2>1
<1>10. \A k \in DOMAIN a : k \in DOMAIN ab /\ ab[k] = a[k]
  BY <1>4, <1>8
<1>11. \A k \in DOMAIN ab : k \in DOMAIN a \/ k - Len(a) \in DOMAIN b
  BY <1>4, <1>8
<1> QED BY <1>4, <1>7, <1>9, <1>10, <1>11 DEF ab

LEMMA ConcatHas ==
  ASSUME NEW a, NEW b, NEW top, BatchOK(a, top), BatchOK(b, top)
  PROVE  /\ \A k \in DOMAIN b : \E n \in DOMAIN (a \o b) : (a \o b)[n] = b[k]
         /\ \A n \in DOMAIN (a \o b) :
              \/ \E k \in DOMAIN a : (a \o b)[n] = a[k]
              \/ \E k \in DOMAIN b : (a \o b)[n] = b[k]
<1> DEFINE ab == a \o b
<1>1. /\ \A k \in DOMAIN a : k \in DOMAIN ab /\ ab[k] = a[k]
      /\ \A k \in DOMAIN b : Len(a) + k \in DOMAIN ab /\ ab[Len(a) + k] = b[k]
      /\ \A k \in DOMAIN ab : k \in DOMAIN a \/ k - Len(a) \in DOMAIN b
      /\ Len(a) \in Nat /\ DOMAIN a = 1 .. Len(a)
      /\ Len(b) \in Nat /\ DOMAIN b = 1 .. Len(b)
      /\ BatchOK(ab, top)
  BY Concat
<1> HIDE DEF ab
<1>2. DOMAIN ab \subseteq Nat
  BY <1>1, BatchLen
<1>3. \A k \in DOMAIN b : \E n \in DOMAIN ab : ab[n] = b[k]
  BY <1>1
<1>4. ASSUME NEW n \in DOMAIN ab
      PROVE  (\E k \in DOMAIN a : ab[n] = a[k]) \/ (\E k \in DOMAIN b : ab[n] = b[k])
  <2>1. CASE n \in DOMAIN a
    BY <1>1, <2>1
  <2>2. CASE n - Len(a) \in DOMAIN b
    <3>1. Len(a) + (n - Len(a)) = n
      BY <1>1, <1>2
    <3> QED BY <1>1, <2>2, <3>1
  <2> QED BY <1>1, <2>1, <2>2
<1> QED BY <1>3, <1>4 DEF ab

LEMMA ConcatGiven ==
  ASSUME NEW a, NEW b, NEW top, BatchOK(a, top), BatchOK(b, top), NEW i, NEW v,
         \A k \in DOMAIN b : b[k].id = i => b[k].ver = v,
         Given(a, i, v) \/ \E k \in DOMAIN b : b[k].id = i
  PROVE  Given(a \o b, i, v)
<1> DEFINE ab == a \o b
<1>1. /\ \A k \in DOMAIN a : k \in DOMAIN ab /\ ab[k] = a[k]
      /\ \A k \in DOMAIN b : Len(a) + k \in DOMAIN ab /\ ab[Len(a) + k] = b[k]
      /\ \A k \in DOMAIN ab : k \in DOMAIN a \/ k - Len(a) \in DOMAIN b
      /\ Len(a) \in Nat /\ DOMAIN a = 1 .. Len(a)
      /\ Len(b) \in Nat /\ DOMAIN b = 1 .. Len(b)
      /\ BatchOK(ab, top)
  BY Concat
<1> HIDE DEF ab
<1>2. DOMAIN ab \subseteq Nat
  BY <1>1, BatchLen
<1>3. ASSUME NEW m \in DOMAIN ab, m \notin DOMAIN a PROVE m - Len(a) \in DOMAIN b /\ ab[m] = b[m - Len(a)]
  <2>1. m - Len(a) \in DOMAIN b /\ m \in Nat
    BY <1>1, <1>2, <1>3
  <2>2. Len(a) + (m - Len(a)) = m
    BY <1>1, <2>1
  <2> QED BY <1>1, <2>1, <2>2
<1>4. CASE Given(a, i, v)
  <2>1. PICK k \in DOMAIN a :
          a[k].id = i /\ \A m \in DOMAIN a : k <= m /\ a[m].id = i => a[m].ver = v
    BY <1>4 DEF Given
  <2>2. k \in DOMAIN ab /\ ab[k].id = i
    BY <1>1, <2>1
  <2>3. \A m \in DOMAIN ab : k <= m /\ ab[m].id = i => ab[m].ver = v
    BY <1>1, <1>3, <2>1
  <2> QED BY <2>2, <2>3 DEF Given, ab
<1>5. CASE \E k \in DOMAIN b : b[k].id = i
  <2>1. PICK k \in DOMAIN b : b[k].id = i
    BY <1>5
  <2>2. Len(a) + k \in DOMAIN ab /\ ab[Len(a) + k].id = i
    BY <1>1, <2>1
  <2>3. ASSUME NEW m \in DOMAIN ab, Len(a) + k <= m, ab[m].id = i PROVE ab[m].ver = v
    <3>1. m \notin DOMAIN a
      BY <1>1, <1>2, <2>1, <2>3
    <3> QED BY <1>3, <2>3, <3>1
  <2> QED BY <2>2, <2>3 DEF Given, ab
<1> QED BY <1>4, <1>5

LEMMA DeduplicatedGiven ==
  ASSUME NEW b, NEW top, BatchOK(b, top), NEW i, NEW v, Given(b, i, v)
  PROVE  Given(Deduplicated(b), i, v)
<1> DEFINE d == Deduplicated(b)
           k == Max(At(b, i))
<1>1. PICK m \in DOMAIN b :
        b[m].id = i /\ \A n \in DOMAIN b : m <= n /\ b[n].id = i => b[n].ver = v
  BY DEF Given
<1>2. m \in At(b, i)
  BY <1>1 DEF At
<1>3. k \in At(b, i) /\ m <= k
  BY <1>2, BatchLen, AtOK
<1>4. b[k].id = i /\ b[k].ver = v
  BY <1>1, <1>3 DEF At
<1>5. PICK n \in DOMAIN d : d[n] = b[k]
  BY <1>2, DeduplicatedOK
<1>6. \A x \in DOMAIN d : d[x].id = i => d[x] = b[k]
  BY <1>2, DeduplicatedOK
<1> HIDE DEF d, k
<1> QED BY <1>4, <1>5, <1>6 DEF Given, d

LEMMA DeduplicatedCurrent ==
  ASSUME NEW b, NEW top, BatchOK(b, top), NEW d, Current(b, d)
  PROVE  Current(Deduplicated(b), d)
<1>1. \A n \in DOMAIN Deduplicated(b) : \E k \in DOMAIN b : Deduplicated(b)[n] = b[k]
  BY DeduplicatedOK
<1> QED BY <1>1 DEF Current

LEMMA ConcatCurrent ==
  ASSUME NEW a, NEW b, NEW top, BatchOK(a, top), BatchOK(b, top), NEW d,
         Current(a, d), Current(b, d)
  PROVE  Current(a \o b, d)
<1> DEFINE ab == a \o b
<1>1. \A n \in DOMAIN ab :
        (\E k \in DOMAIN a : ab[n] = a[k]) \/ (\E k \in DOMAIN b : ab[n] = b[k])
  BY ConcatHas
<1> HIDE DEF ab
<1>2. Current(ab, d)
  BY <1>1 DEF Current
<1> QED BY <1>2 DEF ab

LEMMA NoneCurrent == ASSUME NEW d PROVE Current(<<>>, d)
BY EmptyBatch DEF Current

(* Hits that were not overtaken are as the drive is.                        *)
LEMMA HitsCurrent ==
  ASSUME DriveOK, NEW b, BatchOK(b, Top(drive)), \A k \in DOMAIN b : ~b[k].deleted,
         NEW why, InOrder(why \cup Overtaken(b))
  PROVE  Current(b, drive)
<1> SUFFICES ASSUME NEW k \in DOMAIN b
             PROVE  ElementRight(b[k], drive)
  BY DEF Current
<1>1. "hits" \notin Overtaken(b)
  BY DEF InOrder
<1>2. b[k] = ShownWithPath(b[k].id)
  BY <1>1 DEF Overtaken
<1> DEFINE i    == b[k].id
           path == PathOf[i]
<1>3. i \in Item
  BY BatchLen DEF ShownOK, Top
<1>4. b[k] = Shown(i, path)
  BY <1>2 DEF ShownWithPath
<1>5. Live(i)
  <2>1. b[k].deleted = ~Live(i)
    BY <1>4 DEF Shown
  <2> HIDE DEF i
  <2> QED BY <2>1
<1>6. ElementRight(Shown(i, path), drive)
  BY <1>3, <1>5, ShownIsRight
<1> QED BY <1>4, <1>6

(* What requests return is as the drive has it.                             *)
LEMMA SetBatch ==
  ASSUME DriveOK, DriveAssumption, NEW S \in SUBSET Item, \A i \in S : Live(i)
  PROVE  LET b == [k \in DOMAIN SetToSeq(S) |-> ShownWithPath(SetToSeq(S)[k])] IN
         BatchOK(b, Top(drive)) /\ Current(b, drive)
<1> DEFINE s == SetToSeq(S)
           b == [k \in DOMAIN s |-> ShownWithPath(s[k])]
<1>1. s \in Seq(S)
  BY FS_Subset, SeqOfSet DEF DriveAssumption
<1> HIDE DEF s
<1>2. Len(s) \in Nat /\ DOMAIN s = 1 .. Len(s) /\ \A k \in 1 .. Len(s) : s[k] \in S
  BY <1>1, LenProperties, ElementOfSeq
<1>3. b = [k \in 1 .. Len(s) |-> b[k]]
  BY <1>2
<1>4. ASSUME NEW k \in 1 .. Len(s)
      PROVE  ShownOK(b[k], Top(drive)) /\ ElementRight(b[k], drive)
  <2> DEFINE path == PathOf[s[k]]
  <2>1. s[k] \in Item /\ Live(s[k]) /\ b[k] = Shown(s[k], path)
    BY <1>2 DEF ShownWithPath
  <2>2. ShownOK(Shown(s[k], path), Top(drive)) /\ ElementRight(Shown(s[k], path), drive)
    BY <2>1, ShownIsOK, ShownIsRight
  <2> HIDE DEF b, path
  <2> QED BY <2>1, <2>2
<1>5. DOMAIN b = 1 .. Len(s)
  BY <1>2
<1> HIDE DEF b
<1>6. BatchOK(b, Top(drive)) /\ Current(b, drive)
  BY <1>2, <1>3, <1>4, <1>5, FunctionBatch DEF Current
<1> QED BY <1>6 DEF b, s

LEMMA ChildrenBatch ==
  ASSUME DriveOK, DriveAssumption, NEW f
  PROVE  BatchOK(ChildrenOf(f), Top(drive)) /\ Current(ChildrenOf(f), drive)
<1>1. Siblings(f) \in SUBSET Item /\ \A i \in Siblings(f) : Live(i)
  BY DEF Siblings
<1> QED BY <1>1, SetBatch DEF ChildrenOf

LEMMA PageBatch ==
  ASSUME DriveOK, DriveAssumption, NEW rest \in Seq(Item), NEW k \in 0 .. Len(rest)
  PROVE  LET p == [x \in 1 .. k |-> Shown(rest[x], NoPath)]
             b == hydrateDeltaParentItems(p)
         IN  /\ BatchOK(b, Top(drive)) /\ Current(b, drive)
             /\ \A x \in 1 .. k : \E n \in DOMAIN b : b[n].id = rest[x]
<1> DEFINE p == [x \in 1 .. k |-> Shown(rest[x], NoPath)]
           lacking == {f \in {p[x].parent : x \in DOMAIN p} \ ({Root} \cup {p[x].id : x \in DOMAIN p}) :
                         Live(f) /\ ~Known(cache.items, f)}
           h == [x \in DOMAIN SetToSeq(lacking) |-> ShownWithPath(SetToSeq(lacking)[x])]
<1>1. hydrateDeltaParentItems(p) = h \o p
  BY DEF hydrateDeltaParentItems
<1>2. k \in Nat /\ \A x \in 1 .. k : rest[x] \in Item
  BY LenProperties, ElementOfSeq
<1>3. p = [x \in 1 .. k |-> p[x]] /\ DOMAIN p = 1 .. k
  OBVIOUS
<1>4. \A x \in 1 .. k : /\ ShownOK(p[x], Top(drive)) /\ p[x].id = rest[x]
                        /\ ElementRight(p[x], drive) /\ p[x].parent = drive[rest[x]].parent
  BY <1>2, ShownIsOK, ShownIsRight DEF Shown
<1>5. lacking \in SUBSET Item /\ \A f \in lacking : Live(f)
  <2> SUFFICES ASSUME NEW f \in lacking PROVE f \in Item
    OBVIOUS
  <2>1. PICK x \in 1 .. k : f = drive[rest[x]].parent
    BY <1>3, <1>4
  <2>2. f \in Folder \cup {Root} /\ f # Root
    BY <1>2, <2>1 DEF DriveOK, DriveRecords
  <2> QED BY <2>2 DEF DriveAssumption
<1> HIDE DEF p, lacking
<1>6. BatchOK(p, Top(drive))
  BY <1>2, <1>3, <1>4, FunctionBatch
<1>7. BatchOK(h, Top(drive)) /\ Current(h, drive)
  BY <1>5, SetBatch
<1> HIDE DEF h
<1> DEFINE b == h \o p
<1>8. /\ BatchOK(b, Top(drive))
      /\ \A x \in DOMAIN p : \E n \in DOMAIN b : b[n] = p[x]
      /\ \A n \in DOMAIN b :
           (\E x \in DOMAIN h : b[n] = h[x]) \/ (\E x \in DOMAIN p : b[n] = p[x])
  BY <1>6, <1>7, Concat, ConcatHas
<1> HIDE DEF b
<1>9. \A n \in DOMAIN b : ElementRight(b[n], drive)
  BY <1>3, <1>4, <1>7, <1>8 DEF Current
<1>10. \A x \in 1 .. k : \E n \in DOMAIN b : b[n].id = rest[x]
  BY <1>3, <1>4, <1>8
<1>11. BatchOK(b, Top(drive)) /\ Current(b, drive)
  BY <1>8, <1>9 DEF Current
<1>12. hydrateDeltaParentItems(p) = b
  BY <1>1 DEF b
<1> QED BY <1>10, <1>11, <1>12 DEF p

LEMMA HitsBatch ==
  ASSUME DriveOK, DriveAssumption, CrawledOK(crawled, drive),
         NEW found \in SUBSET DOMAIN crawled, NEW tombs
  PROVE  /\ BatchOK(LiveHits(found, tombs), Top(drive))
         /\ \A k \in DOMAIN LiveHits(found, tombs) : ~LiveHits(found, tombs)[k].deleted
<1> DEFINE S == {i \in found : ~isSearchTombstoned(crawled[i], tombs)}
           ids == SetToSeq(S)
           b == [k \in DOMAIN ids |-> crawled[ids[k]]]
<1>1. S \subseteq DOMAIN crawled /\ S \in SUBSET Item
  BY DEF CrawledOK
<1>2. LiveHits(found, tombs) = b
  BY DEF LiveHits, Hits
<1> HIDE DEF S
<1>3. ids \in Seq(S)
  BY <1>1, FS_Subset, SeqOfSet DEF DriveAssumption
<1> HIDE DEF ids
<1>4. Len(ids) \in Nat /\ DOMAIN ids = 1 .. Len(ids) /\ \A k \in 1 .. Len(ids) : ids[k] \in S
  BY <1>3, LenProperties, ElementOfSeq
<1>5. b = [k \in 1 .. Len(ids) |-> b[k]]
  BY <1>4
<1>6. \A k \in 1 .. Len(ids) : ShownOK(b[k], Top(drive)) /\ ~b[k].deleted
  BY <1>1, <1>4 DEF CrawledOK
<1>7. DOMAIN b = 1 .. Len(ids)
  BY <1>4
<1> HIDE DEF b
<1> QED BY <1>2, <1>4, <1>5, <1>6, <1>7, FunctionBatch

LEMMA PreparedBatch ==
  ASSUME DriveOK, DriveAssumption, CrawledOK(crawled, drive),
         ItemsOK(cache.items, Top(drive)), NEW found \in SUBSET DOMAIN crawled, NEW tombs
  PROVE  /\ BatchOK(prepareSearchItems(found, tombs), Top(drive))
         /\ \A k \in DOMAIN prepareSearchItems(found, tombs) :
              ~prepareSearchItems(found, tombs)[k].deleted
<1> DEFINE live == LiveHits(found, tombs)
           b == [k \in DOMAIN live |-> preferCachedSearchItem(live[k])]
<1>1. prepareSearchItems(found, tombs) = b
  BY DEF prepareSearchItems
<1>2. BatchOK(live, Top(drive)) /\ \A k \in DOMAIN live : ~live[k].deleted
  BY HitsBatch
<1> HIDE DEF live
<1>3. Len(live) \in Nat /\ DOMAIN live = 1 .. Len(live)
      /\ \A k \in DOMAIN live : ShownOK(live[k], Top(drive))
  BY <1>2, BatchLen
<1>4. ASSUME NEW x, ShownOK(x, Top(drive)), ~x.deleted
      PROVE  ShownOK(preferCachedSearchItem(x), Top(drive)) /\ ~preferCachedSearchItem(x).deleted
  <2>1. CASE preferCachedSearchItem(x) = x
    BY <1>4, <2>1
  <2>2. CASE /\ x.id \in DOMAIN cache.items
             /\ preferCachedSearchItem(x) # x
    <3>1. EntryOK(cache.items[x.id], Top(drive)[x.id])
      BY <2>2 DEF ItemsOK
    <3>2. /\ preferCachedSearchItem(x).id = x.id
          /\ preferCachedSearchItem(x).ver = cache.items[x.id].ver
          /\ ~preferCachedSearchItem(x).deleted
      BY <2>2 DEF preferCachedSearchItem
    <3> QED BY <1>4, <3>1, <3>2 DEF ShownOK, EntryOK
  <2> QED BY <2>1, <2>2 DEF preferCachedSearchItem
<1>5. b = [k \in 1 .. Len(live) |-> b[k]]
  BY <1>3
<1>6. \A k \in 1 .. Len(live) : ShownOK(b[k], Top(drive)) /\ ~b[k].deleted
  BY <1>2, <1>3, <1>4
<1>7. DOMAIN b = 1 .. Len(live)
  BY <1>3
<1> HIDE DEF b
<1> QED BY <1>1, <1>3, <1>5, <1>6, <1>7, FunctionBatch

------------------------------------------------------------------------------
(* Writes of the cache.                                                     *)

LEMMA CoversGiven ==
  ASSUME DriveOK, NEW h, NEW z, h \in [Item -> Nat], HandedOK(z, drive),
         \A i \in Item : h[i] <= z[i],
         NEW b, \A i \in Item : Given(b, i, drive[i].ver) => z[i] = drive[i].ver,
         NEW upto, NEW rest, Covers(upto, rest, b, drive, h)
  PROVE  Covers(upto, rest, <<>>, drive, z)
<1> SUFFICES ASSUME NEW i \in Item, drive[i].at = "live", drive[i].changed <= upto
             PROVE  z[i] = drive[i].ver \/ \E n \in DOMAIN rest : rest[n] = i
  BY DEF Covers
<1>1. \/ h[i] = drive[i].ver \/ Given(b, i, drive[i].ver)
      \/ \E n \in DOMAIN rest : rest[n] = i
  BY DEF Covers
<1>2. h[i] = drive[i].ver => z[i] = drive[i].ver
  <2>1. h[i] \in Nat /\ z[i] \in Nat /\ h[i] <= z[i] /\ z[i] <= drive[i].ver
        /\ drive[i].ver \in Nat
    BY DEF HandedOK, DriveOK, DriveRecords
  <2> QED BY <2>1
<1> QED BY <1>1, <1>2

LEMMA GivenToCache ==
  ASSUME DriveOK, HandedOK(handed, drive), NEW b, BatchOK(b, Top(drive)),
         handed' = [i \in Item |->
           Max({handed[i]} \cup {b[k].ver : k \in {k \in DOMAIN b : b[k].id = i}})]
  PROVE  /\ HandedOK(handed', drive) /\ \A i \in Item : handed[i] <= handed'[i]
         /\ \A i \in Item : Given(b, i, drive[i].ver) => handed'[i] = drive[i].ver
<1> SUFFICES ASSUME NEW i \in Item
             PROVE  /\ handed'[i] \in Nat /\ handed[i] <= handed'[i]
                    /\ handed'[i] <= drive[i].ver
                    /\ Given(b, i, drive[i].ver) => handed'[i] = drive[i].ver
  <2> DEFINE mx(i) == Max({handed[i]} \cup {b[k].ver : k \in {k \in DOMAIN b : b[k].id = i}})
  <2>1. handed' = [i \in Item |-> mx(i)]
    OBVIOUS
  <2> HIDE DEF mx
  <2>2. handed' = [i \in Item |-> handed'[i]]
    BY <2>1
  <2> QED BY <2>2 DEF HandedOK
<1> DEFINE S == {handed[i]} \cup {b[k].ver : k \in {k \in DOMAIN b : b[k].id = i}}
<1>1. handed'[i] = Max(S)
  OBVIOUS
<1>2. handed[i] \in Nat /\ handed[i] <= drive[i].ver /\ drive[i].ver \in Nat
  BY DEF HandedOK, DriveOK, DriveRecords
<1>3. \A k \in DOMAIN b : b[k].id = i => b[k].ver \in Nat /\ b[k].ver <= drive[i].ver
  BY BatchLen DEF ShownOK, Top
<1>4. S \subseteq Nat /\ handed[i] \in S /\ \A s \in S : s <= drive[i].ver
  BY <1>2, <1>3
<1>5. ASSUME Given(b, i, drive[i].ver) PROVE drive[i].ver \in S
  <2>1. PICK k \in DOMAIN b : b[k].id = i /\ \A m \in DOMAIN b :
           k <= m /\ b[m].id = i => b[m].ver = drive[i].ver
    BY <1>5 DEF Given
  <2>2. k \in Nat
    BY BatchLen
  <2>3. b[k].ver = drive[i].ver
    BY <2>1, <2>2
  <2> QED BY <2>1, <2>3
<1> HIDE DEF S
<1>6. Max(S) \in S /\ \A s \in S : s <= Max(S)
  BY <1>2, <1>4, MaxOf
<1>7. Max(S) \in Nat /\ handed[i] <= Max(S) /\ Max(S) <= drive[i].ver
  BY <1>4, <1>6
<1>8. Given(b, i, drive[i].ver) => Max(S) = drive[i].ver
  BY <1>2, <1>5, <1>6, <1>7
<1> QED BY <1>1, <1>7, <1>8

LEMMA ThenKept ==
  ASSUME NEW n, WriteThen(n), NEW d, NEW c, NEW h, NEW m PROVE JobKept(n, d, c, h, m)
BY EmptyBatch, NoneCurrent DEF WriteThen, JobKept, Busy, ScanKept

LEMMA ReconciledOK ==
  ASSUME EntriesOK(index), NEW batch, NEW put PROVE EntriesOK(reconcile(batch, put))
<1>1. PICK out : reconcile(batch, put) = Restrict(index, DOMAIN index \ out)
  BY DEF reconcile
<1> QED BY <1>1 DEF EntriesOK, Restrict

LEMMA CursorStored ==
  ASSUME DriveOK, NEW s, NEW z, NEW n, NEW u, CursorOK(u, clock),
         Carries(s, {"items", "tombs", "link", "next"}),
         ItemsOK(s.items, Top(drive)), s.link \in 0 .. clock,
         s.next = NoToken \/ TokenOK(s.next, clock),
         "clear" \notin n =>
           /\ s.link # NoLink => Covers(s.link, <<>>, <<>>, drive, z)
           /\ s.next # NoToken => Covers(s.next.upto, s.next.rest, <<>>, drive, z)
           /\ CursorCovers(u, <<>>, drive, z)
  PROVE  StoredOK(WithCursor(s, u), drive, clock, z, n)
<1>1. CASE u = Keep
  BY <1>1 DEF WithCursor, StoredOK
<1>2. CASE u # Keep
  <2> DEFINE w == WithCursor(s, u)
             l == IF u.next # NoToken THEN s.link ELSE u.link
  <2>1. w = [s EXCEPT !.link = l, !.next = u.next]
    BY <1>2 DEF WithCursor
  <2>2. /\ DOMAIN w = DOMAIN s /\ w.items = s.items
        /\ w.link = l /\ w.next = u.next
    BY <2>1 DEF Carries
  <2> HIDE DEF w
  <2>3. w.link \in 0 .. clock /\ (w.next = NoToken \/ TokenOK(w.next, clock))
    BY <1>2, <2>2 DEF CursorOK
  <2>4. "clear" \notin n =>
          /\ w.link # NoLink => Covers(w.link, <<>>, <<>>, drive, z)
          /\ w.next # NoToken => Covers(w.next.upto, w.next.rest, <<>>, drive, z)
    BY <1>2, <2>2 DEF CursorCovers
  <2>5. StoredOK(w, drive, clock, z, n)
    BY <2>2, <2>3, <2>4 DEF StoredOK, Carries
  <2> QED BY <2>5 DEF w
<1> QED BY <1>1, <1>2

(* What is cached is what was given last, also after a batch in order.      *)
LEMMA PutRight ==
  ASSUME DriveOK, HandedOK(handed, drive), NEW b, BatchOK(b, Top(drive)), Current(b, drive),
         ItemsOK(cache.items, Top(drive)), RightItems(cache.items, drive, handed),
         handed' = [i \in Item |->
           Max({handed[i]} \cup {b[k].ver : k \in {k \in DOMAIN b : b[k].id = i}})],
         NEW new, Told(new, KnownAfter(cache.items, b, Len(b)))
  PROVE  RightItems(new, drive, handed')
<1> SUFFICES ASSUME NEW i \in DOMAIN new
             PROVE  /\ new[i].ver = handed'[i]
                    /\ new[i].ver = drive[i].ver =>
                         new[i].name = drive[i].name /\ new[i].parent = drive[i].parent
  BY DEF RightItems
<1>1. i \in Item /\ Fact(i, new[i]) \in KnownAfter(cache.items, b, Len(b))
  BY DEF Told
<1>2. DOMAIN b = 1 .. Len(b) /\ Len(b) \in Nat /\ \A k \in DOMAIN b : b[k].id \in Item
  BY BatchLen DEF ShownOK, Top
<1>3. CASE \E k \in 1 .. Len(b) : Fact(i, new[i]) = Fact(b[k].id, b[k])
  <2>1. PICK k \in DOMAIN b : Fact(i, new[i]) = Fact(b[k].id, b[k])
    BY <1>2, <1>3
  <2>2. /\ b[k].id = i /\ new[i].ver = b[k].ver
        /\ new[i].name = b[k].name /\ new[i].parent = b[k].parent
    BY <2>1 DEF Fact
  <2>3. /\ b[k].ver = drive[i].ver
        /\ b[k].name = drive[i].name /\ b[k].parent = drive[i].parent
    BY <2>2 DEF Current, ElementRight
  <2>4. Given(b, i, drive[i].ver)
    BY <2>2 DEF Given, Current, ElementRight
  <2>5. handed'[i] = drive[i].ver
    BY <1>1, <2>4, GivenToCache
  <2> QED BY <2>2, <2>3, <2>5
<1>4. CASE \E j \in DOMAIN cache.items :
             /\ Fact(i, new[i]) = Fact(j, cache.items[j])
             /\ \A k \in 1 .. Len(b) : b[k].id # j
  <2>1. /\ i \in DOMAIN cache.items /\ \A k \in 1 .. Len(b) : b[k].id # i
        /\ new[i].ver = cache.items[i].ver
        /\ new[i].name = cache.items[i].name /\ new[i].parent = cache.items[i].parent
    BY <1>4 DEF Fact
  <2>2. handed'[i] = handed[i]
    <3> DEFINE S == {handed[i]} \cup {b[k].ver : k \in {k \in DOMAIN b : b[k].id = i}}
    <3>1. S = {handed[i]} /\ handed'[i] = Max(S)
      BY <1>1, <1>2, <2>1
    <3>2. handed[i] \in Nat
      BY <1>1 DEF HandedOK
    <3> HIDE DEF S
    <3>3. S \subseteq Nat /\ S # {} /\ \A x \in S : x <= handed[i]
      BY <3>1, <3>2
    <3>4. Max(S) \in S
      BY <3>2, <3>3, MaxOf
    <3> QED BY <3>1, <3>4
  <2> QED BY <2>1, <2>2 DEF RightItems
<1> QED BY <1>1, <1>3, <1>4 DEF KnownAfter

LEMMA CacheItemsKept ==
  ASSUME CInv, DriveAssumption, NEW c \in Call, NEW batch, NEW cursor, NEW next, NEW otherwise,
         BatchOK(batch, Top(drive)), CursorOK(cursor, clock),
         "clear" \notin mixed \cup job[c].late => CursorCovers(cursor, batch, drive, handed),
         InOrder(job[c].late) => Current(batch, drive),
         WriteThen(next), WriteThen(otherwise), UNCHANGED <<driveVars, crawled>>,
         cacheItems(c, batch, cursor, next, otherwise)
  PROVE  CInv'
<1>0. drive' = drive /\ clock' = clock /\ crawled' = crawled /\ Advances
  BY StaysAdvances DEF driveVars, CInv
<1>1. CASE /\ GoOn(c, otherwise) /\ UNCHANGED <<cache, handed, mixed>>
           /\ \/ index' = index
              \/ \E put : index' = reconcile(batch, put)
  <2>1. EntriesOK(index')
    BY <1>1, ReconciledOK DEF CInv
  <2>2. JobKept(otherwise, drive, clock, handed, mixed)
    BY ThenKept
  <2> QED BY <1>0, <1>1, <2>1, <2>2, IndexKept
<1>2. CASE \E why \in {"deletion", "change"} :
             LET put == PutAll(cache.items, cache.tombs, batch, Folder)
                 new == WithCursor([cache EXCEPT !.items = put.items, !.tombs = put.tombs], cursor)
             IN  /\ cache' = new /\ index' = reconcile(batch, put)
                 /\ handed' = [i \in Item |->
                      Max({handed[i]} \cup
                          {batch[k].ver : k \in {k \in DOMAIN batch : batch[k].id = i}})]
                 /\ mixed \cup job[c].late \subseteq mixed'
                 /\ GoOnLate(c, next, why)
  <2> DEFINE put == PutAll(cache.items, cache.tombs, batch, Folder)
             mid == [cache EXCEPT !.items = put.items, !.tombs = put.tombs]
  <2>1. PICK why \in {"deletion", "change"} : GoOnLate(c, next, why)
    BY <1>2
  <2>2. /\ cache' = WithCursor(mid, cursor) /\ index' = reconcile(batch, put)
        /\ mixed \cup job[c].late \subseteq mixed'
    BY <1>2
  <2>3. /\ HandedOK(handed', drive) /\ \A i \in Item : handed[i] <= handed'[i]
        /\ \A i \in Item : Given(batch, i, drive[i].ver) => handed'[i] = drive[i].ver
    BY <1>2, GivenToCache DEF CInv
  <2>4. /\ ItemsOK(put.items, Top(drive))
        /\ Told(put.items, KnownAfter(cache.items, batch, Len(batch)))
    <3>1. /\ Len(batch) \in Nat /\ \A k \in 1 .. Len(batch) : ShownOK(batch[k], Top(drive))
      BY BatchLen
    <3>2. ItemsOK(cache.items, Top(drive)) /\ DOMAIN Top(drive) = Item
      BY TopOK DEF CInv, StoredOK
    <3> HIDE DEF put
    <3> QED BY <3>1, <3>2, PutAllOK DEF put
  <2> HIDE DEF put
  <2>5. /\ Carries(mid, {"items", "tombs", "link", "next"})
        /\ mid.items = put.items /\ mid.link = cache.link /\ mid.next = cache.next
    BY DEF CInv, StoredOK, Carries
  <2> HIDE DEF mid
  <2>6. handed \in [Item -> Nat] /\ HandedOK(handed', drive)
    BY <2>3 DEF CInv, HandedOK
  <2>7. ASSUME "clear" \notin mixed'
        PROVE  /\ cache.link # NoLink => Covers(cache.link, <<>>, <<>>, drive, handed')
               /\ cache.next # NoToken
                    => Covers(cache.next.upto, cache.next.rest, <<>>, drive, handed')
               /\ CursorCovers(cursor, <<>>, drive, handed')
    <3>1. "clear" \notin mixed \cup job[c].late
      BY <2>2, <2>7
    <3>2. \A i \in Item : ~Given(<<>>, i, drive[i].ver)
      BY EmptyBatch DEF Given
    <3>3. ASSUME NEW upto, NEW rest, Covers(upto, rest, <<>>, drive, handed)
          PROVE  Covers(upto, rest, <<>>, drive, handed')
      BY <2>3, <2>6, <3>2, <3>3, CoversGiven DEF CInv
    <3>4. ASSUME NEW upto, NEW rest, Covers(upto, rest, batch, drive, handed)
          PROVE  Covers(upto, rest, <<>>, drive, handed')
      BY <2>3, <2>6, <3>4, CoversGiven DEF CInv
    <3>5. CursorCovers(cursor, <<>>, drive, handed')
      BY <3>1, <3>4 DEF CursorCovers
    <3> QED BY <3>1, <3>3, <3>5 DEF CInv, StoredOK
  <2>8. StoredOK(WithCursor(mid, cursor), drive, clock, handed', mixed')
    <3>1. /\ DriveOK /\ ItemsOK(mid.items, Top(drive)) /\ mid.link \in 0 .. clock
          /\ mid.next = NoToken \/ TokenOK(mid.next, clock)
      BY <2>4, <2>5 DEF CInv, StoredOK
    <3>2. "clear" \notin mixed' =>
            /\ mid.link # NoLink => Covers(mid.link, <<>>, <<>>, drive, handed')
            /\ mid.next # NoToken => Covers(mid.next.upto, mid.next.rest, <<>>, drive, handed')
            /\ CursorCovers(cursor, <<>>, drive, handed')
      BY <2>5, <2>7
    <3> QED BY <2>5, <3>1, <3>2, CursorStored
  <2>12. ASSUME InOrder(mixed') PROVE RightItems(put.items, drive, handed')
    <3>1. InOrder(mixed) /\ InOrder(job[c].late)
      BY <2>2, <2>12 DEF InOrder
    <3> QED BY <1>2, <2>4, <3>1, PutRight DEF CInv, StoredOK
  <2>13. cache'.items = put.items
    BY <2>2, <2>5 DEF WithCursor, Carries
  <2>9. JobKept(next, drive', clock', handed', mixed')
    BY ThenKept
  <2>10. JobsKept'
    BY <1>0, <2>1, <2>2, <2>3, <2>9, LateKept
  <2>11. EntriesOK(index') /\ CrawledOK(crawled', drive') /\ DriveOK'
    BY <1>0, <2>2, ReconciledOK DEF CInv, Advances
  <2> QED BY <1>0, <2>2, <2>3, <2>8, <2>10, <2>11, <2>12, <2>13 DEF CInv
<1> QED BY <1>1, <1>2 DEF cacheItems

(* Calls that go on to a write, a scan or a round.                          *)
LEMMA WritingKept ==
  ASSUME NEW d, NEW c, NEW h, NEW m, NEW b, BatchOK(b, Top(d)), NEW u, CursorOK(u, c),
         NEW then, WriteThen(then), NEW late,
         "clear" \notin m \cup late => CursorCovers(u, b, d, h),
         InOrder(late) => Current(b, d)
  PROVE  JobKept([Writing(b, u, then) EXCEPT !.late = late], d, c, h, m)
<1> DEFINE j == [Writing(b, u, then) EXCEPT !.late = late]
<1>1. /\ DOMAIN j = {"at", "batch", "cursor", "then", "late"}
      /\ j.at = "write" /\ j.batch = b /\ j.cursor = u /\ j.then = then /\ j.late = late
  BY DEF Writing
<1> HIDE DEF j
<1>2. WriteKept(j, d, c, h, m)
  BY <1>1 DEF WriteKept, Carries
<1>3. ReadingKept(j) /\ Carries(j, {"at", "late"})
  BY <1>1 DEF ReadingKept, Carries
<1>4. JobKept(j, d, c, h, m)
  BY <1>1, <1>2, <1>3 DEF JobKept
<1> QED BY <1>4 DEF j

LEMMA KeepKept == ASSUME NEW c, NEW b, NEW d, NEW h PROVE CursorOK(Keep, c) /\ CursorCovers(Keep, b, d, h)
BY DEF CursorOK, CursorCovers

LEMMA JustWriting ==
  ASSUME NEW d, NEW c, NEW h, NEW m, NEW b, BatchOK(b, Top(d)), Current(b, d),
         NEW then, WriteThen(then)
  PROVE  JobKept(Writing(b, Keep, then), d, c, h, m)
<1>1. [Writing(b, Keep, then) EXCEPT !.late = {}] = Writing(b, Keep, then)
  BY DEF Writing
<1> DEFINE late == {}
<1>2. JobKept([Writing(b, Keep, then) EXCEPT !.late = late], d, c, h, m)
  <2> HIDE DEF late
  <2> QED BY KeepKept, WritingKept
<1> QED BY <1>1, <1>2

LEMMA IdleKept == ASSUME NEW d, NEW c, NEW h, NEW m
                  PROVE JobKept(Idle, d, c, h, m) /\ WriteThen(Idle) /\ ScanThen(Idle)
BY DEF JobKept, ReadingKept, WriteThen, ScanThen, Carries, Idle, Busy, Reading

LEMMA DeduplicatedCovers ==
  ASSUME NEW b, NEW top, BatchOK(b, top), NEW d, NEW h
  PROVE  /\ \A upto, rest : Covers(upto, rest, b, d, h) => Covers(upto, rest, Deduplicated(b), d, h)
         /\ \A u : CursorCovers(u, b, d, h) => CursorCovers(u, Deduplicated(b), d, h)
<1>1. \A i, v : Given(b, i, v) => Given(Deduplicated(b), i, v)
  BY DeduplicatedGiven
<1>2. \A upto, rest : Covers(upto, rest, b, d, h) => Covers(upto, rest, Deduplicated(b), d, h)
  BY <1>1 DEF Covers
<1> QED BY <1>2 DEF CursorCovers

LEMMA FinishKept ==
  ASSUME NEW d, NEW c, NEW h, NEW m, NEW b, BatchOK(b, Top(d)), NEW u, CursorOK(u, c),
         NEW late, "clear" \notin m \cup late => CursorCovers(u, b, d, h),
         InOrder(late) => Current(b, d)
  PROVE  JobKept(Finish(b, u, late), d, c, h, m)
<1>1. BatchOK(Deduplicated(b), Top(d))
  BY DeduplicatedOK
<1>2. "clear" \notin m \cup late => CursorCovers(u, Deduplicated(b), d, h)
  BY DeduplicatedCovers
<1>4. InOrder(late) => Current(Deduplicated(b), d)
  BY DeduplicatedCurrent
<1>3. JobKept([Writing(Deduplicated(b), u, Idle) EXCEPT !.late = late], d, c, h, m)
  BY <1>1, <1>2, <1>4, IdleKept, WritingKept
<1> QED BY <1>3, IdleKept DEF Finish

LEMMA ScanningKept ==
  ASSUME NEW then, ScanThen(then), NEW d, NEW c, NEW h, NEW m
  PROVE  WriteThen(Scanning(then)) /\ JobKept(Scanning(then), d, c, h, m)
<1>1. WriteThen(Scanning(then))
  BY DEF WriteThen, Scanning, Carries, Busy, ReadingKept
<1> QED BY <1>1, ThenKept

(* Rounds of delta.                                                         *)
LEMMA RoundHasAll ==
  ASSUME DriveAssumption, NEW from, NEW s \in Rounds(from)
  PROVE  /\ s \in Seq(Item)
         /\ \A i \in ChangedSince(from) : \E n \in DOMAIN s : s[n] = i
<1> DEFINE C == ChangedSince(from)
           N == Cardinality(C)
<1>1. C \subseteq Item /\ IsFiniteSet(C)
  BY FS_Subset DEF ChangedSince, DriveAssumption
<1>2. N \in Nat
  <2> HIDE DEF C
  <2> QED BY <1>1, FS_CardinalityType
<1>3. s \in [1 .. N -> C] /\ FoldersFirst(s)
  BY DEF Rounds
<1> HIDE DEF C, N
<1>4. \A a, b \in 1 .. N : a < b => s[a] # s[b]
  BY <1>3 DEF FoldersFirst
<1>5. \A a, b \in 1 .. N : s[a] = s[b] => a = b
  BY <1>2, <1>4
<1>6. s \in Injection(1 .. N, C)
  BY <1>3, <1>5 DEF Injection, IsInjective
<1>7. IsFiniteSet(1 .. N) /\ Cardinality(1 .. N) = N
  BY <1>2, FS_Interval
<1>8. s \in Surjection(1 .. N, C)
  BY <1>1, <1>6, <1>7, FS_Injection DEF N
<1>9. \A i \in C : \E n \in 1 .. N : s[n] = i
  BY <1>8 DEF Surjection
<1>10. s \in Seq(Item)
  <2>1. s \in [1 .. N -> Item]
    BY <1>1, <1>3
  <2> QED BY <1>2, <2>1
<1> QED BY <1>3, <1>9, <1>10 DEF C

(* A round of the changes after a cursor covers what the cursor covered and *)
(* what has changed until it begins.                                        *)
LEMMA RoundCovers ==
  ASSUME DriveOK, DriveAssumption, HandedOK(handed, drive), NEW from,
         from = Scratch \/ (from \in Nat /\ Covers(from, <<>>, <<>>, drive, handed)),
         NEW s \in Rounds(from)
  PROVE  Covers(clock, s, <<>>, drive, handed)
<1> SUFFICES ASSUME NEW i \in Item, drive[i].at = "live"
             PROVE  \/ handed[i] = drive[i].ver
                    \/ \E n \in DOMAIN s : s[n] = i
  BY DEF Covers
<1>1. CASE i \in ChangedSince(from)
  BY <1>1, RoundHasAll
<1>2. CASE i \notin ChangedSince(from)
  <2>1. from # Scratch /\ ~(drive[i].changed > from)
    BY <1>2 DEF ChangedSince, Live
  <2>2. drive[i].changed \in Nat /\ from \in Nat
    BY <2>1 DEF DriveOK, DriveRecords
  <2>3. drive[i].changed <= from
    BY <2>1, <2>2
  <2>4. ~Given(<<>>, i, drive[i].ver)
    BY EmptyBatch DEF Given
  <2> QED BY <2>1, <2>3, <2>4 DEF Covers
<1> QED BY <1>1, <1>2

LEMMA PagingKept ==
  ASSUME NEW d, NEW c, NEW h, NEW m, NEW token, TokenOK(token, c), NEW persist,
         persist /\ "clear" \notin m => Covers(token.upto, token.rest, <<>>, d, h)
  PROVE  JobKept(Paging(token, persist), d, c, h, m)
<1> DEFINE j == Paging(token, persist)
<1>1. /\ DOMAIN j = {"at", "token", "persist", "batch", "cursor", "late"}
      /\ j.at = "page" /\ j.token = token /\ j.persist = persist /\ j.batch = <<>>
      /\ j.cursor = Keep /\ j.late = {}
  BY DEF Paging
<1> HIDE DEF j
<1>2. BatchOK(<<>>, Top(d)) /\ Current(<<>>, d)
  BY EmptyBatch, NoneCurrent
<1>3. PageKept(j, d, c, h, m)
  BY <1>1, <1>2 DEF PageKept, Carries
<1>4. JobKept(j, d, c, h, m)
  BY <1>1, <1>3 DEF JobKept, ReadingKept, Carries
<1> QED BY <1>4 DEF j

LEMMA BeginRoundKept ==
  ASSUME CInv, DriveAssumption, UNCHANGED <<driveVars, cache, index, handed, mixed, crawled>>,
         NEW c \in Call, NEW from, NEW persist,
         persist /\ "clear" \notin mixed =>
           from = Scratch \/ (from \in Nat /\ Covers(from, <<>>, <<>>, drive, handed)),
         BeginRound(c, from, persist)
  PROVE  CInv'
<1>1. PICK s \in Rounds(from) : GoOn(c, Paging([upto |-> clock, rest |-> s], persist))
  BY DEF BeginRound
<1> DEFINE token == [upto |-> clock, rest |-> s]
<1>2. token.upto = clock /\ token.rest = s /\ Carries(token, {"upto", "rest"})
  BY DEF Carries
<1> HIDE DEF token
<1>3. clock \in 1 .. clock
  BY DEF CInv, DriveOK
<1>4. TokenOK(token, clock)
  BY <1>2, <1>3, RoundHasAll DEF TokenOK
<1>5. persist /\ "clear" \notin mixed => Covers(token.upto, token.rest, <<>>, drive, handed)
  BY <1>2, RoundCovers DEF CInv
<1>6. JobKept(Paging(token, persist), drive, clock, handed, mixed)
  BY <1>4, <1>5, PagingKept
<1>7. GoOn(c, Paging(token, persist))
  BY <1>1 DEF token
<1> QED BY <1>6, <1>7, NothingElse

(* A refresh, in the foreground or not, goes on from a stored cursor.       *)
LEMMA FromStored ==
  ASSUME CInv, DriveAssumption, UNCHANGED <<driveVars, cache, index, handed, mixed, crawled>>,
         NEW c \in Call,
         \/ cache.next # NoToken /\ GoOn(c, Paging(cache.next, TRUE))
         \/ cache.link # NoLink /\ BeginRound(c, cache.link, TRUE)
  PROVE  CInv'
<1>1. CASE cache.next # NoToken /\ GoOn(c, Paging(cache.next, TRUE))
  <2>1. TokenOK(cache.next, clock)
    BY <1>1 DEF CInv, StoredOK
  <2>2. "clear" \notin mixed => Covers(cache.next.upto, cache.next.rest, <<>>, drive, handed)
    BY <1>1 DEF CInv, StoredOK
  <2>3. JobKept(Paging(cache.next, TRUE), drive, clock, handed, mixed)
    BY <2>1, <2>2, PagingKept
  <2> QED BY <1>1, <2>3, NothingElse
<1>2. CASE cache.link # NoLink /\ BeginRound(c, cache.link, TRUE)
  <2>1. cache.link \in Nat
    BY DEF CInv, StoredOK
  <2>2. "clear" \notin mixed => Covers(cache.link, <<>>, <<>>, drive, handed)
    BY <1>2 DEF CInv, StoredOK
  <2> QED BY <1>2, <2>1, <2>2, BeginRoundKept
<1> QED BY <1>1, <1>2

(* Pages.                                                                   *)
LEMMA LeftOver ==
  ASSUME NEW S, NEW rest \in Seq(S), NEW n \in 0 .. Len(rest)
  PROVE  LET left == SubSeq(rest, n + 1, Len(rest)) IN
         /\ left \in Seq(S)
         /\ \A x \in DOMAIN rest : x \in 1 .. n \/ \E m \in DOMAIN left : left[m] = rest[x]
<1> DEFINE left == SubSeq(rest, n + 1, Len(rest))
           N == Len(rest)
<1>1. N \in Nat /\ DOMAIN rest = 1 .. N /\ \A x \in 1 .. N : rest[x] \in S
  BY LenProperties, ElementOfSeq
<1>2. n \in Nat /\ n <= N /\ n + 1 \in Int /\ N \in Int
  BY <1>1
<1>3. /\ left \in Seq(S)
      /\ Len(left) = IF n + 1 <= N THEN N - (n + 1) + 1 ELSE 0
      /\ \A i \in 1 .. N - (n + 1) + 1 : left[i] = rest[(n + 1) + i - 1]
  <2>1. \A i \in n + 1 .. N : rest[i] \in S
    BY <1>1, <1>2
  <2> QED BY <1>2, <2>1, SubSeqProperties
<1>4. DOMAIN left = 1 .. Len(left)
  BY <1>3, LenProperties
<1> HIDE DEF left, N
<1>5. ASSUME NEW x \in 1 .. N, x \notin 1 .. n
      PROVE  \E m \in DOMAIN left : left[m] = rest[x]
  <2> DEFINE m == x - n
  <2>1. x \in Nat /\ x <= N /\ n < x /\ m \in Nat /\ 1 <= m /\ m <= N - n
    BY <1>1, <1>2, <1>5
  <2>2. Len(left) = N - n
    BY <1>1, <1>2, <1>3, <2>1
  <2>3. m \in DOMAIN left
    BY <1>1, <1>2, <1>4, <2>1, <2>2
  <2>4. m \in 1 .. N - (n + 1) + 1 /\ (n + 1) + m - 1 = x
    BY <1>1, <1>2, <2>1
  <2>5. left[m] = rest[x]
    BY <1>3, <2>4
  <2> QED BY <2>3, <2>5
<1> QED BY <1>1, <1>3, <1>5 DEF left

(* The batch after some items of a page: what was covered still is, and     *)
(* these items do not have to come any more.                                *)
Collected(batch, rest, k) ==
  batch \o hydrateDeltaParentItems([x \in 1 .. k |-> Shown(rest[x], NoPath)])

LEMMA CollectedOK ==
  ASSUME DriveOK, DriveAssumption, NEW batch, BatchOK(batch, Top(drive)),
         NEW rest \in Seq(Item), NEW k \in 0 .. Len(rest)
  PROVE  /\ BatchOK(Collected(batch, rest, k), Top(drive))
         /\ Current(batch, drive) => Current(Collected(batch, rest, k), drive)
         /\ \A i : Given(batch, i, drive[i].ver) \/ (\E x \in 1 .. k : rest[x] = i)
                     => Given(Collected(batch, rest, k), i, drive[i].ver)
<1> DEFINE page == hydrateDeltaParentItems([x \in 1 .. k |-> Shown(rest[x], NoPath)])
<1>1. /\ BatchOK(page, Top(drive)) /\ Current(page, drive)
      /\ \A x \in 1 .. k : \E n \in DOMAIN page : page[n].id = rest[x]
  BY PageBatch
<1>2. Collected(batch, rest, k) = batch \o page
  BY DEF Collected
<1> HIDE DEF page
<1>3. /\ BatchOK(batch \o page, Top(drive))
      /\ Current(batch, drive) => Current(batch \o page, drive)
  BY <1>1, Concat, ConcatCurrent
<1>4. ASSUME NEW i, Given(batch, i, drive[i].ver) \/ \E x \in 1 .. k : rest[x] = i
      PROVE  Given(batch \o page, i, drive[i].ver)
  <2> DEFINE v == drive[i].ver
  <2>1. \A n \in DOMAIN page : page[n].id = i => page[n].ver = v
    BY <1>1 DEF Current, ElementRight
  <2>2. Given(batch, i, v) \/ \E n \in DOMAIN page : page[n].id = i
    BY <1>1, <1>4
  <2> HIDE DEF v
  <2>3. Given(batch \o page, i, v)
    BY <1>1, <2>1, <2>2, ConcatGiven
  <2> QED BY <2>3 DEF v
<1> QED BY <1>2, <1>3, <1>4

LEMMA CollectedCovers ==
  ASSUME DriveOK, DriveAssumption, NEW batch, BatchOK(batch, Top(drive)),
         NEW rest \in Seq(Item), NEW n \in 0 .. Len(rest), NEW upto, NEW h,
         Covers(upto, rest, batch, drive, h)
  PROVE  /\ Covers(upto, rest, Collected(batch, rest, n), drive, h)
         /\ Covers(upto, SubSeq(rest, n + 1, Len(rest)), Collected(batch, rest, n), drive, h)
<1> DEFINE left == SubSeq(rest, n + 1, Len(rest))
<1>1. \A x \in DOMAIN rest : x \in 1 .. n \/ \E m \in DOMAIN left : left[m] = rest[x]
  BY LeftOver
<1>2. \A i : Given(batch, i, drive[i].ver) \/ (\E x \in 1 .. n : rest[x] = i)
               => Given(Collected(batch, rest, n), i, drive[i].ver)
  BY CollectedOK
<1> HIDE DEF left
<1>3. Covers(upto, rest, Collected(batch, rest, n), drive, h)
  BY <1>2 DEF Covers
<1>4. Covers(upto, left, Collected(batch, rest, n), drive, h)
  BY <1>1, <1>2 DEF Covers
<1> QED BY <1>3, <1>4 DEF left

LEMMA CollectPagesKept ==
  ASSUME CInv, DriveAssumption, PageAssumption, NEW c \in Call, collectPages(c),
         UNCHANGED crawled
  PROVE  CInv'
<1> DEFINE j      == job[c]
           rest   == j.token.rest
           n      == Min({PageSize, Len(rest)})
           left   == SubSeq(rest, n + 1, Len(rest))
           token  == IF left = <<>> THEN NoToken ELSE [j.token EXCEPT !.rest = left]
           cursor == IF j.persist THEN [link |-> j.token.upto, next |-> token] ELSE Keep
           got(k) == Collected(j.batch, rest, k)
           more   == [j EXCEPT !.batch = got(n), !.cursor = cursor, !.token = token]
           clear  == "clear" \in mixed \cup j.late
<1>1. /\ j.at = "page"
      /\ \/ \E k \in 1 .. n - 1 : GoOn(c, Finish(got(k), j.cursor, j.late))
         \/ GoOn(c, Finish(got(n), cursor, j.late))
         \/ left # <<>> /\ GoOn(c, more)
      /\ UNCHANGED <<driveVars, cache, index, handed, mixed>>
  BY DEF collectPages, Collected, cursorAfterCutOff
<1>2. JobKept(j, drive, clock, handed, mixed) /\ PageKept(j, drive, clock, handed, mixed)
  BY <1>1 DEF CInv, JobsKept, JobKept
<1>3. /\ Carries(j, {"at", "late", "token", "persist", "batch", "cursor"})
      /\ TokenOK(j.token, clock) /\ BatchOK(j.batch, Top(drive)) /\ rest \in Seq(Item)
      /\ j.token.upto \in 1 .. clock /\ Carries(j.token, {"upto", "rest"})
      /\ j.cursor # Keep => j.persist /\ j.cursor = [link |-> j.token.upto, next |-> j.token]
  BY <1>2 DEF JobKept, PageKept, TokenOK, Carries
<1>4. n \in 0 .. Len(rest)
  <2> DEFINE S == {PageSize, Len(rest)}
  <2>1. S \subseteq Nat /\ Len(rest) \in S
    BY <1>3, LenProperties, PageAssumption
  <2> HIDE DEF S
  <2>2. Min(S) \in S /\ Min(S) <= Len(rest)
    BY <2>1, MinOf
  <2>3. Min(S) \in Nat /\ Len(rest) \in Nat
    BY <2>1, <2>2
  <2>4. n = Min(S)
    BY DEF S
  <2> HIDE DEF n
  <2> QED BY <2>2, <2>3, <2>4
<1>5. ASSUME NEW k \in 0 .. Len(rest), j.persist, ~clear
      PROVE  /\ Covers(j.token.upto, rest, got(k), drive, handed)
             /\ Covers(j.token.upto, SubSeq(rest, k + 1, Len(rest)), got(k), drive, handed)
  <2>1. Covers(j.token.upto, rest, j.batch, drive, handed)
    BY <1>2, <1>5 DEF PageKept
  <2> QED BY <1>3, <2>1, CollectedCovers DEF CInv
<1>6. ASSUME NEW k \in 0 .. Len(rest)
      PROVE  BatchOK(got(k), Top(drive)) /\ (InOrder(j.late) => Current(got(k), drive))
  BY <1>2, <1>3, CollectedOK DEF CInv, PageKept
<1>7. left \in Seq(Item)
  BY <1>3, <1>4, LeftOver
<1>8. left # <<>> =>
        /\ token.upto = j.token.upto /\ token.rest = left
        /\ TokenOK(token, clock) /\ token # NoToken
  <2> HIDE DEF left, rest
  <2> SUFFICES ASSUME left # <<>>
               PROVE  /\ token.upto = j.token.upto /\ token.rest = left
                      /\ TokenOK(token, clock) /\ token # NoToken
    OBVIOUS
  <2>1. token = [j.token EXCEPT !.rest = left]
    OBVIOUS
  <2> HIDE DEF token
  <2>2. DOMAIN token = DOMAIN j.token /\ token.upto = j.token.upto /\ token.rest = left
    BY <1>3, <2>1 DEF Carries
  <2>3. token.upto # 0
    BY <1>3, <2>2
  <2> QED BY <1>3, <1>7, <2>2, <2>3 DEF TokenOK, Carries, NoToken
<1>9. CursorOK(cursor, clock)
  <2>1. clock \in Nat /\ j.token.upto \in 0 .. clock
    BY <1>3 DEF CInv, DriveOK
  <2> HIDE DEF left, rest, j
  <2>2. token = NoToken \/ TokenOK(token, clock)
    BY <1>8
  <2> HIDE DEF token
  <2> QED BY <2>1, <2>2 DEF CursorOK
<1>10. ~clear => CursorCovers(cursor, got(n), drive, handed)
  <2> SUFFICES ASSUME ~clear, j.persist PROVE CursorCovers(cursor, got(n), drive, handed)
    BY DEF CursorCovers
  <2>1. Covers(j.token.upto, left, got(n), drive, handed)
    BY <1>4, <1>5
  <2>2. cursor.link = j.token.upto /\ cursor.next = token
    OBVIOUS
  <2> HIDE DEF left, got, cursor
  <2>3. token = NoToken => left = <<>>
    BY <1>8
  <2>4. token # NoToken => token.upto = j.token.upto /\ token.rest = left
    BY <1>8
  <2> HIDE DEF token
  <2> QED BY <2>1, <2>2, <2>3, <2>4 DEF CursorCovers
<1>11. CASE \E k \in 1 .. n - 1 : GoOn(c, Finish(got(k), j.cursor, j.late))
  <2>1. PICK k \in 1 .. n - 1 : GoOn(c, Finish(got(k), j.cursor, j.late))
    BY <1>11
  <2>2. k \in 0 .. Len(rest)
    <3>1. Len(rest) \in Nat
      BY <1>3, LenProperties
    <3> HIDE DEF n, rest
    <3> QED BY <1>4, <3>1
  <2>3. CursorOK(j.cursor, clock)
    <3>1. j.token.upto \in 0 .. clock
      BY <1>3 DEF CInv, DriveOK
    <3> HIDE DEF j
    <3> QED BY <1>3, <3>1 DEF CursorOK
  <2>4. ~clear => CursorCovers(j.cursor, got(k), drive, handed)
    <3> SUFFICES ASSUME ~clear, j.cursor # Keep PROVE CursorCovers(j.cursor, got(k), drive, handed)
      BY DEF CursorCovers
    <3>1. Covers(j.token.upto, rest, got(k), drive, handed)
      BY <1>3, <1>5, <2>2
    <3>2. j.token # NoToken
      BY <1>3 DEF NoToken
    <3>3. j.cursor.next = j.token
      BY <1>3
    <3> HIDE DEF got, j
    <3> QED BY <3>1, <3>2, <3>3 DEF CursorCovers, rest
  <2>5. BatchOK(got(k), Top(drive)) /\ (InOrder(j.late) => Current(got(k), drive))
    BY <1>6, <2>2
  <2> HIDE DEF got
  <2>6. JobKept(Finish(got(k), j.cursor, j.late), drive, clock, handed, mixed)
    BY <2>3, <2>4, <2>5, FinishKept
  <2> QED BY <1>1, <2>1, <2>6, NothingElse
<1>12. CASE GoOn(c, Finish(got(n), cursor, j.late))
  <2>1. BatchOK(got(n), Top(drive)) /\ (InOrder(j.late) => Current(got(n), drive))
    BY <1>4, <1>6
  <2> HIDE DEF got, cursor
  <2>2. JobKept(Finish(got(n), cursor, j.late), drive, clock, handed, mixed)
    BY <1>9, <1>10, <2>1, FinishKept
  <2> QED BY <1>1, <1>12, <2>2, NothingElse
<1>13. CASE left # <<>> /\ GoOn(c, more)
  <2>1. /\ DOMAIN more = DOMAIN j /\ \A f \in DOMAIN j \ {"batch", "cursor", "token"} : more[f] = j[f]
    OBVIOUS
  <2>2. more.batch = got(n) /\ more.cursor = cursor /\ more.token = token
    <3> HIDE DEF got, cursor, token
    <3> QED BY <1>3 DEF Carries
  <2>3. BatchOK(got(n), Top(drive)) /\ (InOrder(j.late) => Current(got(n), drive))
    BY <1>4, <1>6
  <2>4. j.persist /\ ~clear => Covers(token.upto, token.rest, got(n), drive, handed)
    BY <1>4, <1>5, <1>8, <1>13
  <2>5. cursor # Keep => j.persist /\ cursor = [link |-> token.upto, next |-> token]
    BY <1>8, <1>13
  <2>6. TokenOK(token, clock)
    BY <1>8, <1>13
  <2> HIDE DEF more, got, cursor, token
  <2>7. /\ more.at = "page" /\ more.persist = j.persist /\ more.late = j.late
        /\ Carries(more, {"at", "late", "token", "persist", "batch", "cursor"})
    BY <1>1, <1>3, <2>1 DEF Carries
  <2>8. PageKept(more, drive, clock, handed, mixed)
    BY <2>2, <2>3, <2>4, <2>5, <2>6, <2>7 DEF PageKept, Carries
  <2>9. JobKept(more, drive, clock, handed, mixed)
    BY <2>7, <2>8 DEF JobKept, ReadingKept, Carries
  <2> QED BY <1>1, <1>13, <2>9, NothingElse
<1> QED BY <1>1, <1>11, <1>12, <1>13

(* What a call has in hand, from the invariant.                             *)
LEMMA InHand ==
  ASSUME CInv, NEW c \in Call PROVE JobKept(job[c], drive, clock, handed, mixed)
BY DEF CInv, JobsKept

(* The calls of the cache.                                                  *)
LEMMA WriteStep ==
  ASSUME CInv, DriveAssumption, NEW c \in Call, Write(c), UNCHANGED crawled PROVE CInv'
<1>1. WriteKept(job[c], drive, clock, handed, mixed)
  BY InHand DEF Write, JobKept
<1>2. cacheItems(c, job[c].batch, job[c].cursor, job[c].then, job[c].then)
      /\ UNCHANGED driveVars
  BY DEF Write, bestEffort
<1>3. /\ BatchOK(job[c].batch, Top(drive)) /\ CursorOK(job[c].cursor, clock)
      /\ WriteThen(job[c].then)
      /\ "clear" \notin mixed \cup job[c].late
           => CursorCovers(job[c].cursor, job[c].batch, drive, handed)
      /\ InOrder(job[c].late) => Current(job[c].batch, drive)
  BY <1>1 DEF WriteKept
<1>4. UNCHANGED <<driveVars, crawled>>
  BY <1>2
<1> QED BY <1>2, <1>3, <1>4, CacheItemsKept

LEMMA OneShown ==
  ASSUME DriveOK, NEW i \in Item, Live(i), NEW c, NEW h, NEW m, NEW then, WriteThen(then)
  PROVE  JobKept(Writing(<<ShownWithPath(i)>>, Keep, then), drive, c, h, m)
<1> DEFINE b == <<ShownWithPath(i)>>
<1> DEFINE path == PathOf[i]
<1>3. b = <<Shown(i, path)>>
  BY DEF ShownWithPath
<1>4. ElementRight(Shown(i, path), drive)
  BY ShownIsRight
<1> HIDE DEF path, b
<1>1. BatchOK(b, Top(drive)) /\ Current(b, drive)
  BY <1>3, <1>4, ShownIsOK, OneBatch DEF Current
<1>2. JobKept(Writing(b, Keep, then), drive, c, h, m)
  BY <1>1, JustWriting
<1> QED BY <1>2 DEF b

LEMMA RequestSteps ==
  ASSUME CInv, DriveAssumption, NEW c \in Call, getRawInfo(c) \/ list(c) \/ RequestFails(c),
         UNCHANGED crawled
  PROVE  CInv'
<1>1. CASE getRawInfo(c)
  <2>1. PICK i \in Item : Live(i) /\ GoOn(c, Writing(<<ShownWithPath(i)>>, Keep, Idle))
    BY <1>1 DEF getRawInfo
  <2>2. UNCHANGED <<driveVars, cache, index, handed, mixed, crawled>>
    BY <1>1 DEF getRawInfo
  <2>3. JobKept(Writing(<<ShownWithPath(i)>>, Keep, Idle), drive, clock, handed, mixed)
    BY <2>1, IdleKept, OneShown DEF CInv
  <2> QED BY <2>1, <2>2, <2>3, NothingElse
<1>2. CASE list(c)
  <2>1. PICK f : GoOn(c, Writing(ChildrenOf(f), Keep, Idle))
    BY <1>2 DEF list
  <2>2. UNCHANGED <<driveVars, cache, index, handed, mixed, crawled>>
    BY <1>2 DEF list
  <2>3. JobKept(Writing(ChildrenOf(f), Keep, Idle), drive, clock, handed, mixed)
    BY IdleKept, ChildrenBatch, JustWriting DEF CInv
  <2> QED BY <2>1, <2>2, <2>3, NothingElse
<1>3. CASE RequestFails(c)
  <2>1. GoOn(c, Idle) /\ UNCHANGED <<driveVars, cache, index, handed, mixed, crawled>>
    BY <1>3 DEF RequestFails, Answer
  <2> QED BY <2>1, IdleKept, NothingElse
<1> QED BY <1>1, <1>2, <1>3

(* Nothing is left at the path of what was removed.                         *)
LEMMA NothingLeft ==
  ASSUME DriveOK, InTime(drive, clock), DriveTree(drive), NEW i \in Item, Trash(i),
         clock' = clock + 1
  PROVE  drive'[i].at # "live" /\ NothingAt(PathOf[i], drive')
<1> DEFINE P == PathsOf(drive)
<1>1. /\ PathOf = P /\ drive \in [Item -> DriveRecords] /\ Live(i)
  BY PathOfIs DEF DriveOK, Trash
<1>2. \A j \in Item : /\ drive'[j].name = drive[j].name /\ drive'[j].parent = drive[j].parent
                      /\ Inside(j, i) => drive'[j].at = "deleted"
                      /\ ~Inside(j, i) => drive'[j] = drive[j]
  BY TrashLeaves
<1>3. drive' \in [Item -> DriveRecords]
  BY TrashAdvances DEF Advances, DriveOK
<1>4. Founded(drive) /\ Founded(drive')
  BY TrashTree DEF DriveTree
<1>5. PathsOf(drive') = P
  BY <1>1, <1>2, <1>3, <1>4, DriveAssumption, PathsStay
<1>6. P[i] \in Seq(Name)
  BY <1>1, <1>4, DriveAssumption, PathsAre
<1>7. ASSUME NEW j \in Item, drive'[j].at = "live"
      PROVE  P[j] # P[i] /\ ~Below(P[i], P[j])
  <2>1. ~Inside(j, i) /\ Live(j)
    BY <1>2, <1>7 DEF Live
  <2> QED BY <1>1, <2>1, DriveAssumption, PathsDiffer DEF Inside, Live
<1> HIDE DEF P
<1>8. Inside(i, i)
  BY DEF Inside
<1> QED BY <1>1, <1>2, <1>5, <1>6, <1>7, <1>8 DEF NothingAt

LEMMA DeleteStep ==
  ASSUME CInv, DriveTree(drive), DriveAssumption, NEW c \in Call, deleteItem(c), UNCHANGED crawled
  PROVE  CInv'
<1>1. PICK i \in Item :
        /\ Trash(i) /\ Tick
        /\ LET shown == [ShownWithPath(i) EXCEPT !.deleted = TRUE, !.ver = @ + 1]
           IN  GoOnLate(c, Writing(<<shown>>, Keep, [at |-> "audit", of |-> shown, late |-> {}]),
                        "deletion")
        /\ UNCHANGED <<cache, index, handed, mixed>>
  BY DEF deleteItem
<1> DEFINE shown == [ShownWithPath(i) EXCEPT !.deleted = TRUE, !.ver = @ + 1]
           audit == [at |-> "audit", of |-> shown, late |-> {}]
           b == <<shown>>
<1>2. Advances
  BY <1>1, TrashAdvances DEF CInv, Tick
<1>3. /\ shown.id = i /\ shown.ver = drive[i].ver + 1
      /\ shown.name = drive[i].name /\ shown.parent = drive[i].parent
      /\ shown.deleted = TRUE /\ shown.path = PathOf[i]
  BY DEF ShownWithPath, Shown
<1>4. /\ drive'[i].ver = drive[i].ver + 1 /\ drive[i].ver \in Nat
      /\ drive'[i].name = drive[i].name /\ drive'[i].parent = drive[i].parent
  <2>1. drive[i] \in DriveRecords /\ Inside(i, i)
    BY DEF CInv, DriveOK, Inside
  <2>2. drive' = [j \in Item |->
          IF ~Inside(j, i) THEN drive[j]
          ELSE IF j # i THEN [drive[j] EXCEPT !.at = "deleted"]
          ELSE [drive[j] EXCEPT !.at = "deleted", !.ver = @ + 1, !.changed = clock + 1]]
    BY <1>1 DEF Trash
  <2>3. drive'[i] = [drive[i] EXCEPT !.at = "deleted", !.ver = @ + 1, !.changed = clock + 1]
    BY <2>1, <2>2
  <2> QED BY <2>1, <2>3 DEF DriveRecords
<1> HIDE DEF shown
<1>5. ShownOK(shown, Top(drive'))
  BY <1>3, <1>4 DEF ShownOK, Top
<1>13. ElementRight(shown, drive')
  <2>1. drive'[i].at # "live" /\ NothingAt(PathOf[i], drive')
    BY <1>1, NothingLeft DEF CInv, Tick
  <2> QED BY <1>3, <1>4, <2>1 DEF ElementRight
<1>6. BatchOK(b, Top(drive')) /\ Current(b, drive')
  BY <1>5, <1>13, OneBatch DEF Current
<1>7. WriteThen(audit)
  <2>1. DOMAIN audit = {"at", "of", "late"} /\ audit.at = "audit"
    OBVIOUS
  <2> HIDE DEF audit
  <2> QED BY <2>1 DEF WriteThen, Carries, Busy, ReadingKept
<1> HIDE DEF audit, b
<1>8. JobKept(Writing(b, Keep, audit), drive', clock', handed', mixed')
  BY <1>6, <1>7, JustWriting
<1>9. GoOnLate(c, Writing(b, Keep, audit), "deletion")
  BY <1>1 DEF b, audit, shown
<1>10. UNCHANGED <<cache, index, handed, mixed, crawled>>
  BY <1>1
<1>11. HandedOK(handed', drive') /\ \A x \in Item : handed[x] <= handed'[x]
  <2>1. HandedOK(handed', drive')
    BY <1>2, <1>10, StoreStays
  <2> QED BY <1>10, <2>1 DEF HandedOK
<1>12. JobsKept'
  BY <1>2, <1>8, <1>9, <1>10, <1>11, LateKept
<1> QED BY <1>2, <1>10, <1>12, StoreStays DEF CInv

LEMMA ScannedKept ==
  /\ ScanThen(Scanned) /\ ScanThen(Idle)
  /\ WriteThen(Primed) /\ WriteThen(Idle)
BY IdleKept DEF ScanThen, WriteThen, Scanned, Primed, Carries, Busy, Reading, ReadingKept

LEMMA ScanThenWrites == ASSUME NEW n, ScanThen(n) PROVE WriteThen(n)
BY DEF ScanThen, WriteThen, ReadingKept, Busy, Reading

LEMMA RoundSteps ==
  ASSUME CInv, DriveAssumption, NEW c \in Call, delta(c) \/ cacheRefresh(c) \/ prime(c),
         UNCHANGED crawled
  PROVE  CInv'
<1>1. CASE delta(c)
  <2>1. PICK from : BeginRound(c, from, FALSE)
    BY <1>1 DEF delta
  <2>2. UNCHANGED <<driveVars, cache, index, handed, mixed, crawled>>
    BY <1>1 DEF delta
  <2> QED BY <2>1, <2>2, BeginRoundKept
<1>2. CASE cacheRefresh(c)
  <2>1. UNCHANGED <<driveVars, cache, index, handed, mixed, crawled>>
    BY <1>2 DEF cacheRefresh
  <2>2. CASE GoOn(c, Scanning(Scanned))
    BY <2>1, <2>2, ScannedKept, ScanningKept, NothingElse
  <2>3. CASE \/ cache.next # NoToken /\ GoOn(c, Paging(cache.next, TRUE))
             \/ cache.link # NoLink /\ BeginRound(c, cache.link, TRUE)
    BY <2>1, <2>3, FromStored
  <2> QED BY <1>2, <2>2, <2>3 DEF cacheRefresh
<1>3. CASE prime(c)
  <2>1. BeginRound(c, Scratch, TRUE)
    BY <1>3 DEF prime
  <2>2. UNCHANGED <<driveVars, cache, index, handed, mixed, crawled>>
    BY <1>3 DEF prime
  <2> QED BY <2>1, <2>2, BeginRoundKept
<1> QED BY <1>1, <1>2, <1>3

LEMMA ScanStep ==
  ASSUME CInv, DriveAssumption, NEW c \in Call, scan(c), UNCHANGED crawled PROVE CInv'
<1> DEFINE j == job[c]
<1>1. /\ Carries(j, {"at", "late", "batch", "then"}) /\ j.at = "scan"
      /\ BatchOK(j.batch, Top(drive)) /\ ScanThen(j.then)
      /\ InOrder(j.late) => Current(j.batch, drive)
  BY InHand DEF scan, JobKept, ScanKept, Carries
<1>2. UNCHANGED <<driveVars, cache, index, handed, mixed, crawled>>
  BY DEF scan
<1>3. ASSUME NEW f \in j.todo, NEW todo, NEW b, b = <<>> \/ b = ChildrenOf(f),
             GoOn(c, [j EXCEPT !.batch = @ \o b, !.todo = todo])
      PROVE  CInv'
  <2> DEFINE k == [j EXCEPT !.batch = @ \o b, !.todo = todo]
  <2>1. BatchOK(b, Top(drive)) /\ Current(b, drive)
    BY <1>3, ChildrenBatch, EmptyBatch, NoneCurrent DEF CInv
  <2>2. /\ BatchOK(j.batch \o b, Top(drive))
        /\ InOrder(j.late) => Current(j.batch \o b, drive)
    BY <1>1, <2>1, Concat, ConcatCurrent
  <2>3. /\ Carries(k, {"at", "late", "batch", "then"}) /\ k.at = "scan"
        /\ k.batch = j.batch \o b /\ k.then = j.then /\ k.late = j.late
    BY <1>1 DEF Carries
  <2> HIDE DEF k, j
  <2>4. JobKept(k, drive, clock, handed, mixed)
    BY <1>1, <2>2, <2>3 DEF JobKept, ScanKept, ReadingKept, Carries
  <2> QED BY <1>2, <1>3, <2>4, NothingElse DEF k
<1>4. CASE \E f \in j.todo :
             GoOn(c, [j EXCEPT
               !.batch = @ \o (IF f = Root \/ Live(f) THEN ChildrenOf(f) ELSE <<>>),
               !.todo = (@ \ {f}) \cup
                        (IF f = Root \/ Live(f) THEN Siblings(f) \cap Folder ELSE {})])
  <2>1. PICK f \in j.todo :
             GoOn(c, [j EXCEPT
               !.batch = @ \o (IF f = Root \/ Live(f) THEN ChildrenOf(f) ELSE <<>>),
               !.todo = (@ \ {f}) \cup
                        (IF f = Root \/ Live(f) THEN Siblings(f) \cap Folder ELSE {})])
    BY <1>4
  <2> DEFINE b    == IF f = Root \/ Live(f) THEN ChildrenOf(f) ELSE <<>>
             todo == (j.todo \ {f}) \cup
                     (IF f = Root \/ Live(f) THEN Siblings(f) \cap Folder ELSE {})
  <2>2. GoOn(c, [j EXCEPT !.batch = @ \o b, !.todo = todo])
    BY <2>1
  <2>3. b = <<>> \/ b = ChildrenOf(f)
    OBVIOUS
  <2> HIDE DEF b, todo, j
  <2> QED BY <1>3, <2>2, <2>3
<1>5. CASE GoOn(c, [Writing(Deduplicated(j.batch), Keep, j.then) EXCEPT !.late = j.late])
  <2>1. /\ BatchOK(Deduplicated(j.batch), Top(drive)) /\ WriteThen(j.then)
        /\ InOrder(j.late) => Current(Deduplicated(j.batch), drive)
    BY <1>1, DeduplicatedOK, DeduplicatedCurrent, ScanThenWrites
  <2>2. JobKept([Writing(Deduplicated(j.batch), Keep, j.then) EXCEPT !.late = j.late],
                drive, clock, handed, mixed)
    BY <2>1, KeepKept, WritingKept
  <2> QED BY <1>2, <1>5, <2>2, NothingElse
<1> QED BY <1>4, <1>5 DEF scan

LEMMA RebuildSteps ==
  ASSUME CInv, DriveAssumption, NEW c \in Call, cacheRebuild(c) \/ dropCursor(c),
         UNCHANGED crawled
  PROVE  CInv'
<1>1. CASE cacheRebuild(c) /\ GoOn(c, Scanning(Scanned)) /\ UNCHANGED <<cache, handed>>
  <2>1. UNCHANGED <<driveVars, cache, index, handed, mixed, crawled>>
    BY <1>1 DEF cacheRebuild
  <2> QED BY <1>1, <2>1, ScannedKept, ScanningKept, NothingElse
<1>2. CASE /\ cacheRebuild(c) /\ GoOnLate(c, Scanning(Scanned), "clear")
           /\ cache' = Empty /\ handed' = [i \in Item |-> 0]
  <2>1. drive' = drive /\ clock' = clock /\ index' = index /\ mixed' = mixed
        /\ crawled' = crawled
    BY <1>2 DEF cacheRebuild, driveVars
  <2>2. Advances /\ DriveOK'
    BY <2>1, StaysAdvances DEF CInv, driveVars, Advances
  <2>3. HandedOK(handed', drive')
    BY <1>2, <2>1 DEF HandedOK, CInv, DriveOK, DriveRecords
  <2>4. JobKept(Scanning(Scanned), drive', clock', handed', mixed')
    BY ScannedKept, ScanningKept
  <2>5. JobsKept'
    BY <1>2, <2>1, <2>2, <2>3, <2>4, LateKept
  <2>6. /\ Carries(cache', {"items", "tombs", "link", "next"})
        /\ cache'.items = <<>> /\ cache'.link = NoLink /\ cache'.next = NoToken
    BY <1>2 DEF Empty, Carries
  <2>7. ItemsOK(cache'.items, Top(drive'))
    BY <2>6, EmptyBatch DEF ItemsOK
  <2>8. cache'.link \in 0 .. clock'
    BY <2>1, <2>6 DEF CInv, DriveOK, NoLink
  <2>9. StoredOK(cache', drive', clock', handed', mixed')
    BY <2>6, <2>7, <2>8 DEF StoredOK
  <2>10. RightItems(cache'.items, drive', handed') /\ InTime(drive', clock')
    BY <2>1, <2>6, EmptyBatch DEF RightItems, CInv
  <2> QED BY <2>1, <2>2, <2>3, <2>5, <2>9, <2>10 DEF CInv
<1>3. CASE dropCursor(c)
  <2> DEFINE cursor == [link |-> NoLink, next |-> NoToken]
             b == <<>>
  <2>1. cacheItems(c, b, cursor, Primed, Idle) /\ UNCHANGED <<driveVars, crawled>>
    BY <1>3 DEF dropCursor
  <2>2. CursorOK(cursor, clock)
    BY DEF CursorOK, NoLink, CInv, DriveOK
  <2>3. CursorCovers(cursor, b, drive, handed)
    BY DEF CursorCovers
  <2>4. BatchOK(b, Top(drive)) /\ Current(b, drive)
    BY EmptyBatch, NoneCurrent
  <2> HIDE DEF b, cursor
  <2> QED BY <2>1, <2>2, <2>3, <2>4, ScannedKept, CacheItemsKept
<1> QED BY <1>1, <1>2, <1>3 DEF cacheRebuild

(* The calls of the index.                                                  *)
LEMMA NoEntries == EntriesOK(<<>>)
BY EmptyBatch DEF EntriesOK

LEMMA MergedOK ==
  ASSUME EntriesOK(index), NEW new, EntriesOK(new) PROVE EntriesOK(Merged(new))
BY DEF EntriesOK, Merged

LEMMA RestrictedOK ==
  ASSUME NEW e, EntriesOK(e), NEW S PROVE EntriesOK(Restrict(e, DOMAIN e \ S))
BY DEF EntriesOK, Restrict

LEMMA ExtractStep ==
  ASSUME CInv, NEW c \in Call, extractCandidate(c), UNCHANGED crawled PROVE CInv'
<1> DEFINE j == job[c]
<1>1. /\ j.at = "extract" /\ ExtractKept(j, drive)
      /\ Carries(j, {"at", "late", "seen", "base", "todo", "new"})
  BY InHand DEF extractCandidate, JobKept, ExtractKept, Carries
<1>2. UNCHANGED <<driveVars, cache, index, handed, mixed, crawled>>
  BY DEF extractCandidate
<1>3. PICK i \in j.todo :
        LET ver   == j.seen[i].ver
            fresh == i \in DOMAIN j.base /\ contentIndexEntryFresh(j.base[i], ver)
        IN  \/ \E e \in IF fresh THEN {j.base[i]} ELSE extractIndexText(i, ver) :
                 GoOn(c, [j EXCEPT !.todo = @ \ {i},
                   !.new = [x \in DOMAIN @ \cup {i} |-> IF x = i THEN e ELSE @[x]]])
            \/ ~fresh /\ GoOn(c, [j EXCEPT !.todo = @ \ {i}])
  BY DEF extractCandidate
<1> DEFINE ver   == j.seen[i].ver
           fresh == i \in DOMAIN j.base /\ contentIndexEntryFresh(j.base[i], ver)
<1>4. i \in Item /\ EntryOK(j.seen[i], drive[i].ver)
  BY <1>1 DEF ExtractKept, ItemsOK, Top
<1>5. ASSUME NEW e \in IF fresh THEN {j.base[i]} ELSE extractIndexText(i, ver) PROVE TextOK(e)
  <2>1. CASE fresh
    BY <1>1, <1>5, <2>1 DEF ExtractKept, EntriesOK
  <2>2. CASE ~fresh
    <3>1. ver \in Nat /\ ver <= drive[i].ver /\ drive[i].ver \in Nat
      BY <1>4 DEF EntryOK, CInv, DriveOK, DriveRecords
    <3>2. e \in extractIndexText(i, ver)
      BY <1>5, <2>2
    <3> HIDE DEF ver, fresh, j
    <3>3. PICK f : /\ e = [label |-> ver, text |-> drive[i].ver, form |-> f]
                   /\ f = "segments" \/ drive[i].ver = ver
      BY <3>2 DEF extractIndexText
    <3> QED BY <3>1, <3>3 DEF TextOK
  <2> QED BY <2>1, <2>2
<1>6. ASSUME NEW new, EntriesOK(new), NEW k, k = [j EXCEPT !.todo = @ \ {i}, !.new = new], GoOn(c, k)
      PROVE  CInv'
  <2>1. /\ Carries(k, {"at", "late", "seen", "base", "todo", "new"}) /\ k.at = "extract"
        /\ k.seen = j.seen /\ k.base = j.base /\ k.todo = j.todo \ {i} /\ k.new = new
    BY <1>1, <1>6 DEF Carries
  <2> HIDE DEF j
  <2>2. JobKept(k, drive, clock, handed, mixed)
    BY <1>1, <1>6, <2>1 DEF JobKept, ExtractKept, ReadingKept, Carries
  <2> QED BY <1>2, <1>6, <2>2, NothingElse
<1>7. EntriesOK(j.new)
  BY <1>1 DEF ExtractKept
<1>8. ASSUME NEW e \in IF fresh THEN {j.base[i]} ELSE extractIndexText(i, ver),
             GoOn(c, [j EXCEPT !.todo = @ \ {i},
               !.new = [x \in DOMAIN @ \cup {i} |-> IF x = i THEN e ELSE @[x]]])
      PROVE  CInv'
  <2> DEFINE new == [x \in DOMAIN j.new \cup {i} |-> IF x = i THEN e ELSE j.new[x]]
             k   == [j EXCEPT !.todo = @ \ {i}, !.new = new]
  <2>1. TextOK(e)
    BY <1>5
  <2>2. GoOn(c, k)
    BY <1>8
  <2>3. EntriesOK(new)
    <3> HIDE DEF j, fresh, ver
    <3> QED BY <1>4, <1>7, <2>1 DEF EntriesOK
  <2>4. k = [j EXCEPT !.todo = @ \ {i}, !.new = new]
    OBVIOUS
  <2> HIDE DEF new, k
  <2> QED BY <1>6, <2>2, <2>3, <2>4
<1>9. ASSUME GoOn(c, [j EXCEPT !.todo = @ \ {i}]) PROVE CInv'
  <2> DEFINE new == j.new
             k   == [j EXCEPT !.todo = @ \ {i}]
  <2>1. k = [j EXCEPT !.todo = @ \ {i}, !.new = new]
    BY <1>1 DEF Carries
  <2> HIDE DEF new, k
  <2> QED BY <1>6, <1>7, <1>9, <2>1 DEF new, k
<1> QED BY <1>3, <1>8, <1>9

LEMMA IndexSteps ==
  ASSUME CInv, DriveAssumption, NEW c \in Call, UNCHANGED crawled,
         contentIndexRefresh(c) \/ saveContentIndex(c) \/ officeContentSearch(c) \/ evict(c)
  PROVE  CInv'
<1>1. CASE contentIndexRefresh(c)
  <2> DEFINE seen == Restrict(cache.items, DOMAIN cache.items \cap Files)
  <2>0. PICK base \in {index, <<>>} :
          GoOn(c, [at |-> "extract", seen |-> seen, base |-> base,
                   todo |-> DOMAIN seen, new |-> <<>>, late |-> {}])
    BY <1>1 DEF contentIndexRefresh
  <2> DEFINE j == [at |-> "extract", seen |-> seen, base |-> base,
                   todo |-> DOMAIN seen, new |-> <<>>, late |-> {}]
  <2>1. GoOn(c, j) /\ UNCHANGED <<driveVars, cache, index, handed, mixed, crawled>>
    BY <1>1, <2>0 DEF contentIndexRefresh
  <2>2. ItemsOK(seen, Top(drive))
    BY DEF CInv, StoredOK, ItemsOK, Restrict
  <2> HIDE DEF seen
  <2>3. /\ DOMAIN j = {"at", "seen", "base", "todo", "new", "late"}
        /\ j.at = "extract" /\ j.seen = seen /\ j.base = base /\ j.todo = DOMAIN seen
        /\ j.new = <<>>
    OBVIOUS
  <2> HIDE DEF j
  <2>5. EntriesOK(base)
    BY <2>0, NoEntries DEF CInv
  <2>4. JobKept(j, drive, clock, handed, mixed)
    BY <2>2, <2>3, <2>5, NoEntries DEF JobKept, ExtractKept, ReadingKept, Carries, CInv
  <2> QED BY <2>1, <2>4, NothingElse
<1>2. CASE saveContentIndex(c)
  <2>1. EntriesOK(job[c].new) /\ EntriesOK(index)
    BY <1>2, InHand DEF saveContentIndex, JobKept, ExtractKept, CInv
  <2>2. index' = Merged(job[c].new) \/ index' = index
    BY <1>2 DEF saveContentIndex
  <2>3. GoOn(c, Idle) /\ UNCHANGED <<driveVars, cache, handed, mixed, crawled>>
    BY <1>2 DEF saveContentIndex, Answer
  <2> QED BY <2>1, <2>2, <2>3, MergedOK, IdleKept, IndexKept
<1>3. CASE evict(c)
  <2>1. EntriesOK(job[c].new) /\ EntriesOK(index)
    BY <1>3, InHand DEF evict, JobKept, CInv
  <2>2. index' = Merged(job[c].new)
    BY <1>3 DEF evict
  <2>3. GoOn(c, Idle) /\ UNCHANGED <<driveVars, cache, handed, mixed, crawled>>
    BY <1>3 DEF evict, Answer
  <2> QED BY <2>1, <2>2, <2>3, MergedOK, IdleKept, IndexKept
<1>4. CASE officeContentSearch(c)
  <2>1. PICK i \in DOMAIN index :
          IF Live(i) THEN GoOn(c, Writing(<<ShownWithPath(i)>>, Keep, Idle))
          ELSE GoOn(c, [at |-> "evict", late |-> {},
                        new |-> Restrict(index, DOMAIN index \ {i})])
    BY <1>4 DEF officeContentSearch
  <2>2. UNCHANGED <<driveVars, cache, index, handed, mixed, crawled>>
    BY <1>4 DEF officeContentSearch
  <2>3. i \in Item /\ EntriesOK(index)
    BY DEF CInv, EntriesOK
  <2>4. Live(i) => JobKept(Writing(<<ShownWithPath(i)>>, Keep, Idle), drive, clock, handed, mixed)
    BY <2>3, IdleKept, OneShown DEF CInv
  <2> DEFINE new == Restrict(index, DOMAIN index \ {i})
             j == [at |-> "evict", late |-> {}, new |-> new]
  <2>5. EntriesOK(new)
    BY <2>3, RestrictedOK
  <2> HIDE DEF new
  <2>6. DOMAIN j = {"at", "late", "new"} /\ j.at = "evict" /\ j.new = new
    OBVIOUS
  <2> HIDE DEF j
  <2>7. JobKept(j, drive, clock, handed, mixed)
    BY <2>5, <2>6 DEF JobKept, ReadingKept, Carries
  <2>8. (Live(i) /\ GoOn(c, Writing(<<ShownWithPath(i)>>, Keep, Idle))) \/ GoOn(c, j)
    BY <2>1 DEF new, j
  <2> QED BY <2>2, <2>4, <2>7, <2>8, NothingElse
<1> QED BY <1>1, <1>2, <1>3, <1>4

LEMMA CacheCallKept ==
  ASSUME CInv, DriveTree(drive), DriveAssumption, PageAssumption, NEW c \in Call, CacheCall(c), UNCHANGED crawled
  PROVE  CInv'
BY WriteStep, RequestSteps, DeleteStep, CollectPagesKept, RoundSteps, ScanStep,
   RebuildSteps, ExtractStep, IndexSteps DEF CacheCall

(* Searches and listings.                                                   *)
LEMMA RememberingKept ==
  ASSUME NEW key, NEW shown, NEW knew
  PROVE  /\ WriteThen(Remembering(key, shown))
         /\ ScanThen([Remembering(key, shown) EXCEPT !.knew = knew])
<1> DEFINE r == Remembering(key, shown)
           k == [r EXCEPT !.knew = knew]
<1>1. /\ r.at = "remember" /\ Carries(r, {"at", "late"})
      /\ k.at = "remember" /\ Carries(k, {"at", "late"})
  BY DEF Remembering, Carries
<1> HIDE DEF r, k
<1>2. WriteThen(r) /\ ScanThen(k)
  BY <1>1 DEF WriteThen, ScanThen, Busy, Reading, ReadingKept
<1> QED BY <1>2 DEF r, k

LEMMA FoundKept == ASSUME NEW c \in Call PROVE ScanThen(Found(c))
<1>1. CASE job[c].by = "chatgpt"
  <2> DEFINE shown == job[c].shown
             knew == job[c].knew
             r == [Remembering(Query, shown) EXCEPT !.knew = knew]
  <2>1. Found(c) = r
    BY <1>1 DEF Found
  <2> HIDE DEF shown, knew
  <2>2. ScanThen(r)
    BY RememberingKept
  <2> QED BY <2>1, <2>2
<1>2. CASE job[c].by = "tool"
  <2>1. Found(c) = [at |-> "confirm", late |-> {}]
    BY <1>2 DEF Found
  <2> QED BY <2>1 DEF ScanThen, Carries, Busy, Reading
<1>3. CASE job[c].by \notin {"chatgpt", "tool"}
  BY <1>3, IdleKept DEF Found
<1> QED BY <1>1, <1>2, <1>3

LEMMA FindingKept ==
  ASSUME NEW by, NEW d, NEW c, NEW h, NEW m PROVE JobKept(Finding(by), d, c, h, m)
<1> DEFINE f == Finding(by)
<1>1. f.at = "find" /\ Carries(f, {"at", "late", "got"}) /\ f.got = <<>>
  BY DEF Finding, Carries
<1> HIDE DEF f
<1>2. JobKept(f, d, c, h, m)
  BY <1>1, EmptyBatch, NoneCurrent DEF JobKept, ReadingKept, Carries
<1> QED BY <1>2 DEF f

LEMMA AnswerSteps ==
  ASSUME CInv, DriveAssumption, NEW c \in Call,
         writeMutationAudit(c) \/ remember(c) \/ chatgptList(c) \/ search(c)
           \/ find(c) \/ chatgptSearch(c) \/ localFastPath(c)
  PROVE  CInv'
<1>1. CASE writeMutationAudit(c) \/ remember(c)
  <2>1. GoOn(c, Idle)
    BY <1>1 DEF writeMutationAudit, remember, Answer
  <2>2. UNCHANGED <<driveVars, cache, index, handed, mixed, crawled>>
    BY <1>1 DEF writeMutationAudit, remember, StaysCached
  <2> QED BY <2>1, <2>2, IdleKept, NothingElse
<1>2. CASE chatgptList(c)
  <2>1. PICK f : GoOn(c, Writing(ChildrenOf(f), Keep, Remembering(f, Siblings(f))))
    BY <1>2 DEF chatgptList
  <2>2. UNCHANGED <<driveVars, cache, index, handed, mixed, crawled>>
    BY <1>2 DEF chatgptList, StaysCached, readVars
  <2>3. /\ WriteThen(Remembering(f, Siblings(f)))
        /\ BatchOK(ChildrenOf(f), Top(drive)) /\ Current(ChildrenOf(f), drive)
    BY RememberingKept, ChildrenBatch DEF CInv
  <2>4. JobKept(Writing(ChildrenOf(f), Keep, Remembering(f, Siblings(f))),
                drive, clock, handed, mixed)
    BY <2>3, JustWriting
  <2> QED BY <2>1, <2>2, <2>4, NothingElse
<1>3. CASE search(c)
  <2>1. PICK found \in SUBSET DOMAIN crawled :
          LET batch == prepareSearchItems(found, cache.tombs) IN
          GoOn(c, Finish(batch, Keep, Overtaken(batch)))
    BY <1>3 DEF search
  <2> DEFINE batch == prepareSearchItems(found, cache.tombs)
  <2>2. UNCHANGED <<driveVars, cache, index, handed, mixed, crawled>>
    BY <1>3 DEF search, StaysCached, readVars
  <2>3. BatchOK(batch, Top(drive)) /\ \A k \in DOMAIN batch : ~batch[k].deleted
    BY PreparedBatch DEF CInv, StoredOK
  <2> HIDE DEF batch
  <2> DEFINE none == {}
  <2>5. none \cup Overtaken(batch) = Overtaken(batch)
    OBVIOUS
  <2> HIDE DEF none
  <2>6. InOrder(Overtaken(batch)) => Current(batch, drive)
    BY <2>3, <2>5, HitsCurrent DEF CInv
  <2>4. JobKept(Finish(batch, Keep, Overtaken(batch)), drive, clock, handed, mixed)
    BY <2>3, <2>6, KeepKept, FinishKept
  <2> QED BY <2>1, <2>2, <2>4, NothingElse DEF batch
<1>4. CASE find(c) \/ chatgptSearch(c)
  <2>1. PICK by : GoOn(c, Finding(by))
    BY <1>4 DEF find, chatgptSearch
  <2>2. UNCHANGED <<driveVars, cache, index, handed, mixed, crawled>>
    BY <1>4 DEF find, chatgptSearch, StaysCached, readVars
  <2> QED BY <2>1, <2>2, FindingKept, NothingElse
<1>5. CASE localFastPath(c)
  <2>1. GoOn(c, Found(c)) /\ UNCHANGED <<driveVars, cache, index, handed, mixed, crawled>>
    BY <1>5 DEF localFastPath, StaysCached
  <2>2. JobKept(Found(c), drive, clock, handed, mixed)
    BY FoundKept, ScanThenWrites, ThenKept
  <2> QED BY <2>1, <2>2, NothingElse
<1> QED BY <1>1, <1>2, <1>3, <1>4, <1>5

LEMMA SearchSteps ==
  ASSUME CInv, DriveAssumption, NEW c \in Call,
         executeSearchTerm(c) \/ cacheFound(c) \/ confirmCachedFindCandidates(c)
           \/ revalidate(c)
  PROVE  CInv'
<1>1. CASE executeSearchTerm(c)
  <2> DEFINE j == job[c]
  <2>1. PICK found \in SUBSET DOMAIN crawled :
          LET hits == LiveHits(found, job[c].tombs) IN
          /\ j.at = "find"
          /\ GoOn(c, [j EXCEPT !.got = hits,
                        !.shown = @ \cup {hits[k].id : k \in DOMAIN hits},
                        !.late = @ \cup Overtaken(hits)])
    BY <1>1 DEF executeSearchTerm
  <2> DEFINE hits == LiveHits(found, job[c].tombs)
             ids == j.shown \cup {hits[k].id : k \in DOMAIN hits}
             why == j.late \cup Overtaken(hits)
             k == [j EXCEPT !.got = hits, !.shown = ids, !.late = why]
  <2>2. BatchOK(hits, Top(drive)) /\ \A n \in DOMAIN hits : ~hits[n].deleted
    BY HitsBatch DEF CInv
  <2>3. UNCHANGED <<driveVars, cache, index, handed, mixed, crawled>>
    BY <1>1 DEF executeSearchTerm, StaysCached, readVars
  <2>4. Carries(j, {"at", "late", "got"})
    BY <2>1, InHand DEF JobKept, Carries
  <2>5. GoOn(c, k)
    BY <2>1
  <2> HIDE DEF hits, ids, j
  <2>8. InOrder(why) => Current(hits, drive)
    BY <2>2, HitsCurrent DEF CInv
  <2> HIDE DEF why
  <2>6. Carries(k, {"at", "late", "got"}) /\ k.at = "find" /\ k.got = hits /\ k.late = why
    BY <2>1, <2>4 DEF Carries
  <2> HIDE DEF k
  <2>7. JobKept(k, drive, clock, handed, mixed)
    BY <2>2, <2>6, <2>8 DEF JobKept, ReadingKept, Carries
  <2> QED BY <2>3, <2>5, <2>7, NothingElse
<1>2. CASE cacheFound(c)
  <2>1. PICK then \in {Found(c), Scanning(Found(c))} :
          \/ GoOn(c, then)
          \/ GoOn(c, [Writing(Deduplicated(job[c].got), Keep, then)
                        EXCEPT !.late = job[c].late])
    BY <1>2 DEF cacheFound
  <2>2. UNCHANGED <<driveVars, cache, index, handed, mixed, crawled>>
    BY <1>2 DEF cacheFound, StaysCached, readVars
  <2>3. WriteThen(then)
    BY FoundKept, ScanThenWrites, ScanningKept
  <2>6. /\ BatchOK(job[c].got, Top(drive))
        /\ InOrder(job[c].late) => Current(job[c].got, drive)
    BY <1>2, InHand DEF cacheFound, JobKept
  <2>4. /\ BatchOK(Deduplicated(job[c].got), Top(drive))
        /\ InOrder(job[c].late) => Current(Deduplicated(job[c].got), drive)
    BY <2>6, DeduplicatedOK, DeduplicatedCurrent
  <2>5. JobKept([Writing(Deduplicated(job[c].got), Keep, then) EXCEPT !.late = job[c].late],
                drive, clock, handed, mixed)
    BY <2>3, <2>4, KeepKept, WritingKept
  <2> QED BY <2>1, <2>2, <2>3, <2>5, ThenKept, NothingElse
<1>3. CASE confirmCachedFindCandidates(c)
  <2>1. PICK then \in {Idle, Scanning(Idle)} :
          \/ \E i \in DOMAIN cache.items :
               Live(i) /\ GoOn(c, Writing(<<ShownWithPath(i)>>, Keep, then))
          \/ GoOn(c, then)
    BY <1>3 DEF confirmCachedFindCandidates
  <2>2. UNCHANGED <<driveVars, cache, index, handed, mixed, crawled>>
    BY <1>3 DEF confirmCachedFindCandidates, StaysCached, readVars
  <2>3. WriteThen(then)
    BY IdleKept, ScanningKept
  <2>4. DOMAIN cache.items \subseteq Item
    BY DEF CInv, StoredOK, ItemsOK, Top
  <2>5. ASSUME NEW i \in DOMAIN cache.items, Live(i)
        PROVE  JobKept(Writing(<<ShownWithPath(i)>>, Keep, then), drive, clock, handed, mixed)
    BY <2>3, <2>4, <2>5, OneShown DEF CInv
  <2> QED BY <2>1, <2>2, <2>3, <2>5, ThenKept, NothingElse
<1>4. CASE revalidate(c)
  <2>1. UNCHANGED <<driveVars, cache, index, handed, mixed, crawled>>
    BY <1>4 DEF revalidate, StaysCached
  <2>2. CASE GoOn(c, Finding("background"))
    BY <2>1, <2>2, FindingKept, NothingElse
  <2>3. CASE \/ cache.next # NoToken /\ GoOn(c, Paging(cache.next, TRUE))
             \/ cache.link # NoLink /\ BeginRound(c, cache.link, TRUE)
    BY <2>1, <2>3, FromStored
  <2> QED BY <1>4, <2>2, <2>3 DEF revalidate
<1> QED BY <1>1, <1>2, <1>3, <1>4

(* Fetches.                                                                 *)
LEMMA ResolvedKept ==
  ASSUME NEW i \in Item, NEW ver \in Nat, NEW entry, TextOK(entry), NEW more
  PROVE  WriteThen(Resolved(i, ver, entry, more))
<1> DEFINE r == Resolved(i, ver, entry, more)
           chunk == Chunk(entry.text, entry.form, TRUE)
<1>1. /\ r.at \in {"deliver", "fetch"} /\ Carries(r, {"at", "late", "item", "ver"})
      /\ r.item = i /\ r.ver = ver
      /\ r.at = "deliver" => Carries(r, {"chunk"}) /\ r.chunk = chunk /\ entry.label = ver
  BY DEF Resolved, Carries, contentIndexEntryFresh
<1>2. chunk.text = entry.text /\ chunk.form = entry.form /\ chunk.indexed
  BY DEF Chunk
<1> HIDE DEF r, chunk
<1>3. entry.label = ver => ChunkOK(chunk, ver)
  BY <1>2 DEF TextOK, ChunkOK
<1>4. ReadingKept(r)
  BY <1>1, <1>2, <1>3 DEF ReadingKept, Carries
<1>5. r.at \notin Busy /\ r.at # "scan" /\ Carries(r, {"at", "late"})
  BY <1>1 DEF Busy, Carries
<1>6. WriteThen(r)
  BY <1>4, <1>5 DEF WriteThen
<1> QED BY <1>6 DEF r

LEMMA FetchSteps ==
  ASSUME CInv, DriveAssumption, NEW c \in Call,
         chatgptFetch(c) \/ getInfo(c) \/ extractChatgptFetchSnapshot(c)
           \/ rememberedChatgptFetchSnapshot(c)
  PROVE  CInv'
<1>1. CASE chatgptFetch(c)
  <2>1. UNCHANGED <<driveVars, cache, index, handed, mixed, crawled>>
    BY <1>1 DEF chatgptFetch, StaysCached, readVars
  <2>2. PICK i, entry, more :
          /\ i \in Files /\ entry = IF i \in DOMAIN index THEN index[i] ELSE NoEntry
          /\ \/ i \in DOMAIN cache.items /\ GoOn(c, Resolved(i, cache.items[i].ver, entry, more))
             \/ GoOn(c, [at |-> "info", item |-> i, entry |-> entry, more |-> more, late |-> {}])
    BY <1>1 DEF chatgptFetch
  <2>3. i \in Item
    BY <2>2 DEF Files
  <2>6. TextOK(entry)
    <3>1. TextOK(NoEntry)
      BY DEF TextOK, NoEntry
    <3> QED BY <2>2, <3>1 DEF CInv, EntriesOK
  <2>4. CASE i \in DOMAIN cache.items /\ GoOn(c, Resolved(i, cache.items[i].ver, entry, more))
    <3>1. cache.items[i].ver \in Nat
      BY <2>4 DEF CInv, StoredOK, ItemsOK, EntryOK
    <3>2. JobKept(Resolved(i, cache.items[i].ver, entry, more), drive, clock, handed, mixed)
      BY <2>3, <2>6, <3>1, ResolvedKept, ThenKept
    <3> QED BY <2>1, <2>4, <3>2, NothingElse
  <2>5. CASE GoOn(c, [at |-> "info", item |-> i, entry |-> entry, more |-> more, late |-> {}])
    <3> DEFINE j == [at |-> "info", item |-> i, entry |-> entry, more |-> more, late |-> {}]
    <3>1. /\ j.at = "info" /\ Carries(j, {"at", "late", "item", "entry"})
          /\ j.item = i /\ j.entry = entry
      BY DEF Carries
    <3> HIDE DEF j
    <3>2. JobKept(j, drive, clock, handed, mixed)
      BY <2>3, <2>6, <3>1 DEF JobKept, ReadingKept, Carries
    <3> QED BY <2>1, <2>5, <3>2, NothingElse DEF j
  <2> QED BY <2>2, <2>4, <2>5
<1>2. CASE getInfo(c)
  <2> DEFINE i == job[c].item
             then == Resolved(i, drive[i].ver, job[c].entry, job[c].more)
  <2>1. i \in Item /\ TextOK(job[c].entry)
    BY <1>2, InHand DEF getInfo, JobKept
  <2>2. UNCHANGED <<driveVars, cache, index, handed, mixed, crawled>>
    BY <1>2 DEF getInfo, StaysCached, readVars
  <2>3. GoOn(c, Idle) \/ (Live(i) /\ GoOn(c, Writing(<<ShownWithPath(i)>>, Keep, then)))
    BY <1>2 DEF getInfo, Answer
  <2>4. drive[i].ver \in Nat
    BY <2>1 DEF CInv, DriveOK, DriveRecords
  <2>5. WriteThen(then)
    BY <2>1, <2>4, ResolvedKept
  <2> HIDE DEF then, i
  <2>6. Live(i) => JobKept(Writing(<<ShownWithPath(i)>>, Keep, then), drive, clock, handed, mixed)
    BY <2>1, <2>5, OneShown DEF CInv
  <2> QED BY <2>2, <2>3, <2>6, IdleKept, NothingElse
<1>3. CASE extractChatgptFetchSnapshot(c)
  <2> DEFINE j == job[c]
  <2>1. UNCHANGED <<driveVars, cache, index, handed, mixed, crawled>>
    BY <1>3 DEF extractChatgptFetchSnapshot, StaysCached, readVars
  <2>2. \/ \E chunk :
             /\ \/ chunk = Note
                \/ \E f \in FetchForms :
                     SameVersion(j.item, j.ver) /\ chunk = Chunk(drive[j.item].ver, f, FALSE)
             /\ GoOn(c, [at |-> "deliver", item |-> j.item, ver |-> j.ver, more |-> j.more,
                         chunk |-> chunk, late |-> j.late])
        \/ GoOn(c, Idle)
    BY <1>3 DEF extractChatgptFetchSnapshot, Answer
  <2>3. j.item \in Item /\ j.ver \in Nat
    BY <1>3, InHand DEF extractChatgptFetchSnapshot, JobKept, ReadingKept
  <2> HIDE DEF j
  <2>4. ASSUME NEW chunk,
               \/ chunk = Note
               \/ \E f \in FetchForms :
                    SameVersion(j.item, j.ver) /\ chunk = Chunk(drive[j.item].ver, f, FALSE)
        PROVE  ChunkOK(chunk, j.ver) /\ chunk.form # "segments"
    <3>1. CASE chunk = Note
      BY <3>1 DEF ChunkOK, Note, Chunk
    <3>2. ASSUME NEW f \in FetchForms, SameVersion(j.item, j.ver),
                 chunk = Chunk(drive[j.item].ver, f, FALSE)
          PROVE  ChunkOK(chunk, j.ver) /\ chunk.form # "segments"
      <4>1. chunk.text = j.ver /\ chunk.form = f
        BY <3>2 DEF SameVersion, Chunk
      <4>2. f # "segments"
        BY DEF FetchForms
      <4> QED BY <2>3, <4>1, <4>2 DEF ChunkOK
    <3> QED BY <2>4, <3>1, <3>2
  <2>5. ASSUME NEW chunk, ChunkOK(chunk, j.ver), chunk.form # "segments",
               GoOn(c, [at |-> "deliver", item |-> j.item, ver |-> j.ver, more |-> j.more,
                        chunk |-> chunk, late |-> j.late])
        PROVE  CInv'
    <3> DEFINE k == [at |-> "deliver", item |-> j.item, ver |-> j.ver, more |-> j.more,
                     chunk |-> chunk, late |-> j.late]
    <3>1. /\ k.at = "deliver" /\ Carries(k, {"at", "late", "item", "ver", "chunk"})
          /\ k.item = j.item /\ k.ver = j.ver /\ k.chunk = chunk
      BY DEF Carries
    <3>2. GoOn(c, k)
      BY <2>5
    <3> HIDE DEF k
    <3>3. JobKept(k, drive, clock, handed, mixed)
      BY <2>3, <2>5, <3>1 DEF JobKept, ReadingKept, Carries
    <3> QED BY <2>1, <3>2, <3>3, NothingElse
  <2> QED BY <2>1, <2>2, <2>4, <2>5, IdleKept, NothingElse
<1>4. CASE rememberedChatgptFetchSnapshot(c)
  <2>1. UNCHANGED <<driveVars, cache, index, handed, mixed, crawled, job>>
    BY <1>4 DEF rememberedChatgptFetchSnapshot, StaysCached
  <2> QED BY <2>1 DEF CInv, JobsKept, DriveOK, DriveRecords, driveVars
<1> QED BY <1>1, <1>2, <1>3, <1>4

LEMMA DeliverSteps ==
  ASSUME CInv, NEW c \in Call, deliver(c) \/ warmContentIndexFromChatgptSnapshots(c)
  PROVE  CInv'
<1> DEFINE j == job[c]
<1>1. CASE deliver(c)
  <2> DEFINE k == [j EXCEPT !.at = "warm"]
  <2>1. UNCHANGED <<driveVars, cache, index, handed, mixed, crawled>>
    BY <1>1 DEF deliver, StaysCached
  <2>2. GoOn(c, Idle) \/ (j.chunk # Note /\ ~j.chunk.indexed /\ GoOn(c, k))
    BY <1>1 DEF deliver, Answer
  <2>3. /\ Carries(j, {"at", "late", "item", "ver", "chunk"})
        /\ j.item \in Item /\ j.ver \in Nat /\ ChunkOK(j.chunk, j.ver)
        /\ j.chunk.indexed \/ j.chunk.form # "segments"
    BY <1>1, InHand DEF deliver, JobKept, ReadingKept, Carries
  <2>4. /\ Carries(k, {"at", "late", "item", "ver", "chunk"}) /\ k.at = "warm"
        /\ k.item = j.item /\ k.ver = j.ver /\ k.chunk = j.chunk
    BY <2>3 DEF Carries
  <2> HIDE DEF k, j
  <2>5. j.chunk # Note /\ ~j.chunk.indexed => JobKept(k, drive, clock, handed, mixed)
    BY <2>3, <2>4 DEF JobKept, ReadingKept, Carries
  <2> QED BY <2>1, <2>2, <2>5, IdleKept, NothingElse
<1>2. CASE warmContentIndexFromChatgptSnapshots(c)
  <2> DEFINE e   == [label |-> j.ver, text |-> j.chunk.text, form |-> j.chunk.form]
             new == [i \in {j.item} |-> e]
  <2>1. j.item \in Item /\ j.ver \in Nat /\ j.chunk.text = j.ver
    BY <1>2, InHand DEF warmContentIndexFromChatgptSnapshots, JobKept, ReadingKept, ChunkOK
  <2>2. index' = Merged(new) \/ index' = index
    BY <1>2 DEF warmContentIndexFromChatgptSnapshots
  <2>3. GoOn(c, Idle) /\ UNCHANGED <<driveVars, cache, handed, mixed, crawled>>
    BY <1>2 DEF warmContentIndexFromChatgptSnapshots, Answer
  <2>5. TextOK(e)
    BY <2>1 DEF TextOK
  <2> HIDE DEF e
  <2>4. EntriesOK(new) /\ EntriesOK(index)
    BY <2>1, <2>5 DEF EntriesOK, CInv
  <2> HIDE DEF new
  <2> QED BY <2>2, <2>3, <2>4, MergedOK, IdleKept, IndexKept
<1> QED BY <1>1, <1>2

LEMMA ReadCallKept ==
  ASSUME CInv, DriveAssumption, NEW c \in Call, ReadCall(c) PROVE CInv'
BY AnswerSteps, SearchSteps, FetchSteps, DeliverSteps DEF ReadCall
------------------------------------------------------------------------------
(* All steps together.                                                      *)
LEMMA WorldKept ==
  ASSUME CInv, UNCHANGED <<driveVars, cacheVars>>, CrawledOK(crawled', drive) PROVE CInv'
BY DEF CInv, JobsKept, DriveOK, DriveRecords, driveVars, cacheVars

LEMMA TimePassesKept == ASSUME CInv, TimePasses PROVE CInv'
<1>1. UNCHANGED <<driveVars, cacheVars>>
  BY DEF TimePasses
<1>2. CASE Forget
  <2>1. crawled' = crawled
    BY <1>2 DEF Forget
  <2> QED BY <1>1, <2>1, WorldKept DEF CInv
<1>3. ASSUME NEW i \in Item, Crawl(i) PROVE CInv'
  <2>1. crawled' = [j \in (DOMAIN crawled \ {i}) \cup {x \in {i} : Live(x)} |->
                      IF j = i THEN ShownWithPath(i) ELSE crawled[j]]
    BY <1>3 DEF Crawl
  <2>2. /\ ShownOK(ShownWithPath(i), Top(drive))
        /\ Live(i) => ~ShownWithPath(i).deleted
    BY ShownIsOK DEF CInv, ShownWithPath, Shown
  <2>3. CrawledOK(crawled', drive)
    BY <2>1, <2>2 DEF CInv, CrawledOK
  <2> QED BY <1>1, <2>3, WorldKept
<1> QED BY <1>2, <1>3 DEF TimePasses

LEMMA InitCInv == ASSUME Init PROVE CInv
<1>1. DriveOK
  BY InitIInv DEF IInv
<1>2. clock = 1 /\ \A i \in Item : drive[i].ver = 1 /\ drive[i].changed = 1
  BY DEF Init, DriveInit
<1>3. JobsKept
  <2>1. job = [c \in Call |-> Idle]
    BY DEF Init, CacheInit
  <2> QED BY <2>1, IdleKept DEF JobsKept
<1>4. EntriesOK(index)
  BY NoEntries DEF Init, CacheInit
<1>5. CrawledOK(crawled, drive)
  <2>1. crawled = [i \in {j \in Item : Live(j)} |-> ShownWithPath(i)]
    BY DEF Init, ReadsInit
  <2>2. \A i \in Item : Live(i) => /\ ShownOK(ShownWithPath(i), Top(drive))
                                    /\ ~ShownWithPath(i).deleted
    BY <1>1, ShownIsOK DEF ShownWithPath, Shown
  <2> QED BY <2>1, <2>2 DEF CrawledOK
<1>6. handed = [i \in Item |-> IF i \in DOMAIN cache.items THEN 1 ELSE 0]
  BY DEF Init, CacheInit
<1>7. HandedOK(handed, drive)
  BY <1>2, <1>6 DEF HandedOK
<1>10. InTime(drive, clock)
  BY <1>2 DEF InTime
<1>8. CASE cache = Empty
  <2>1. /\ Carries(cache, {"items", "tombs", "link", "next"})
        /\ cache.items = <<>> /\ cache.link = NoLink /\ cache.next = NoToken
    BY <1>8 DEF Empty, Carries
  <2>2. ItemsOK(cache.items, Top(drive))
    BY <2>1, EmptyBatch DEF ItemsOK
  <2>3. StoredOK(cache, drive, clock, handed, mixed)
    BY <1>2, <2>1, <2>2 DEF StoredOK, NoLink
  <2>4. RightItems(cache.items, drive, handed)
    BY <2>1, EmptyBatch DEF RightItems
  <2> QED BY <1>1, <1>3, <1>4, <1>5, <1>7, <1>10, <2>3, <2>4 DEF CInv
<1>9. CASE cache = [Empty EXCEPT
             !.link = clock,
             !.items = [i \in {j \in Item : Live(j)} |->
               [name |-> drive[i].name, parent |-> drive[i].parent,
                ver |-> drive[i].ver, path |-> PathOf[i]]]]
  <2> DEFINE items == [i \in {j \in Item : Live(j)} |->
               [name |-> drive[i].name, parent |-> drive[i].parent,
                ver |-> drive[i].ver, path |-> PathOf[i]]]
  <2>1. DOMAIN items = {j \in Item : Live(j)}
        /\ \A i \in DOMAIN items :
             /\ Fields \subseteq DOMAIN items[i] /\ items[i].ver = drive[i].ver
             /\ items[i].name = drive[i].name /\ items[i].parent = drive[i].parent
    BY DEF Fields
  <2>2. cache = [Empty EXCEPT !.link = clock, !.items = items]
    BY <1>9
  <2> HIDE DEF items
  <2>3. /\ Carries(cache, {"items", "tombs", "link", "next"})
        /\ cache.items = items /\ cache.link = clock /\ cache.next = NoToken
    BY <2>2 DEF Empty, Carries
  <2>4. ItemsOK(cache.items, Top(drive))
    BY <1>2, <2>1, <2>3 DEF ItemsOK, EntryOK, Top
  <2>5. Covers(cache.link, <<>>, <<>>, drive, handed)
    BY <1>2, <1>6, <2>1, <2>3 DEF Covers, Live
  <2>6. StoredOK(cache, drive, clock, handed, mixed)
    BY <1>2, <2>3, <2>4, <2>5 DEF StoredOK
  <2>7. RightItems(cache.items, drive, handed)
    BY <1>2, <1>6, <2>1, <2>3 DEF RightItems
  <2> QED BY <1>1, <1>3, <1>4, <1>5, <1>7, <1>10, <2>6, <2>7 DEF CInv
<1> QED BY <1>8, <1>9 DEF Init, CacheInit

LEMMA NextCInv == ASSUME CInv, IInv, DriveTree(drive), [Next]_vars PROVE CInv'
<1>1. CASE UNCHANGED vars
  <2>1. UNCHANGED <<driveVars, cacheVars>> /\ crawled' = crawled
    BY <1>1 DEF vars, readVars
  <2> QED BY <2>1, WorldKept DEF CInv
<1>2. CASE OthersChange
  <2>1. Overtake /\ UNCHANGED crawled
    BY <1>2 DEF OthersChange, readVars
  <2> QED BY <1>2, <2>1, NextChange, ChangeAdvances, OvertakeKept DEF Next, CInv
<1>3. ASSUME NEW c \in Call, CacheCall(c), Follow(c) PROVE CInv'
  <2>1. UNCHANGED crawled
    BY <1>3 DEF Follow
  <2> QED BY <1>3, <2>1, CacheCallKept, DriveAssumption, PageAssumption
<1>4. ASSUME NEW c \in Call, ReadCall(c) PROVE CInv'
  BY <1>4, ReadCallKept, DriveAssumption
<1>5. CASE TimePasses
  BY <1>5, TimePassesKept
<1>6. CASE /\ Restart \/ \E t \in Task : TaskStep(t)
           /\ IF clock' = clock THEN UNCHANGED cacheVars ELSE Overtake
           /\ UNCHANGED readVars
  <2>1. UNCHANGED crawled
    BY <1>6 DEF readVars
  <2>2. Advances /\ (clock' = clock => UNCHANGED driveVars)
    BY <1>6, StaysAdvances, TaskStepChange, ChangeAdvances DEF Restart, CInv
  <2>3. CASE Overtake
    BY <2>1, <2>2, <2>3, OvertakeKept
  <2>4. CASE clock' = clock /\ UNCHANGED cacheVars
    BY <2>1, <2>2, <2>4, WorldKept DEF CInv
  <2> QED BY <1>6, <2>3, <2>4
<1> QED BY <1>1, <1>2, <1>3, <1>4, <1>5, <1>6 DEF Next

(* What the cache, the index and the calls hold is in order at all times:   *)
(* no version newer than the drive's, no text older than its label,         *)
(* cursors, stored or still in hand, that cover the changes before them,    *)
(* and, with nothing read or written out of order, entries that are what    *)
(* was given last, as the drive has it in that version.                     *)
THEOREM CacheInOrder == Spec => []CInv
<1>1. Init => CInv /\ IInv
  BY InitCInv, InitIInv
<1>2. CInv /\ IInv /\ DriveTree(drive) /\ [Next]_vars => CInv' /\ IInv'
  BY NextCInv, NextIInv
<1> QED BY <1>1, <1>2, DriveIsTree, PTL DEF Spec

(* A stored cursor skips no change: every item that is there and last       *)
(* changed before it was given to the cache as it was after that change,    *)
(* whatever pages were cut off and whichever writes and requests failed,    *)
(* unless the cache was cleared under a refresh (collectPages, cacheItems). *)
THEOREM NoChangeIsSkipped == Spec => []CursorCoversChanges
<1>1. CInv => CursorCoversChanges
  <2> SUFFICES ASSUME CInv, "clear" \notin mixed, cache.link # NoLink, NEW i \in Item,
                      Live(i), drive[i].changed <= cache.link
               PROVE  handed[i] = drive[i].ver
    BY DEF CursorCoversChanges
  <2>1. Covers(cache.link, <<>>, <<>>, drive, handed)
    BY DEF CInv, StoredOK
  <2>2. ~Given(<<>>, i, drive[i].ver) /\ ~\E n \in DOMAIN <<>> : <<>>[n] = i
    BY EmptyBatch DEF Given
  <2> QED BY <2>1, <2>2 DEF Covers, Live
<1> QED BY <1>1, CacheInOrder, PTL

(* Refreshed up to the drive's last change, the cache has the version, name *)
(* and parent of every item it holds that is there: what was given to it    *)
(* last, in the order of the changes, however often folders were moved,     *)
(* renamed, replaced and removed in between (cacheItems, cachePut).         *)
THEOREM RefreshedContent == Spec => []RefreshedContentIsRight
<1>1. CInv => RefreshedContentIsRight
  <2> SUFFICES ASSUME CInv, mixed \subseteq {"loss", "behind", "ahead"}, cache.link = clock,
                      NEW i \in DOMAIN cache.items, Live(i)
               PROVE  /\ cache.items[i].ver = drive[i].ver
                      /\ cache.items[i].name = drive[i].name
                      /\ cache.items[i].parent = drive[i].parent
    BY DEF RefreshedContentIsRight, Refreshed
  <2>1. "clear" \notin mixed /\ cache.link # NoLink
    BY DEF CInv, DriveOK, NoLink
  <2>2. i \in Item
    BY DEF CInv, StoredOK, ItemsOK, Top
  <2>3. drive[i].changed <= cache.link
    BY <2>2 DEF CInv, InTime
  <2>4. Covers(cache.link, <<>>, <<>>, drive, handed)
    BY <2>1 DEF CInv, StoredOK
  <2>5. ~Given(<<>>, i, drive[i].ver) /\ ~\E n \in DOMAIN <<>> : <<>>[n] = i
    BY EmptyBatch DEF Given
  <2>6. handed[i] = drive[i].ver
    BY <2>2, <2>3, <2>4, <2>5 DEF Covers, Live
  <2>7. RightItems(cache.items, drive, handed)
    BY DEF CInv, InOrder
  <2> QED BY <2>6, <2>7 DEF RightItems
<1> QED BY <1>1, CacheInOrder, PTL

(* No entry of the content index has a text that is older than the version  *)
(* it is labelled with, whatever is cached, extracted and merged in between *)
(* (contentIndexRefresh, reconcileContentIndexWithMetadata).                *)
THEOREM NoStaleText == Spec => []IndexedTextNotOlderThanLabel
<1>1. CInv => IndexedTextNotOlderThanLabel
  <2> SUFFICES ASSUME CInv, NEW i \in DOMAIN index PROVE index[i].text >= index[i].label
    BY DEF IndexedTextNotOlderThanLabel
  <2>1. index[i].label \in Nat /\ index[i].text \in Nat /\ index[i].label <= index[i].text
    BY DEF CInv, EntriesOK, TextOK
  <2> QED BY <2>1
<1> QED BY <1>1, CacheInOrder, PTL

------------------------------------------------------------------------------
(* Reading in chunks. A text that was fetched is that of its version, and   *)
(* so is one from the index unless it is segments, which may be newer.      *)
TextsOK ==
  /\ \A t \in copies : ChunkOK(t.chunk, t.ver)
  /\ \A x \in reader.texts : ChunkOK(x, reader.ver)

LEMMA DeliverTexts ==
  ASSUME CInv, TextsOK, NEW c \in Call, deliver(c)
  PROVE  TextsOK'
<1> DEFINE j == job[c]
<1>1. ChunkOK(j.chunk, j.ver)
  BY InHand DEF deliver, JobKept, ReadingKept
<1>2. \A t \in copies' : ChunkOK(t.chunk, t.ver)
  <2>1. copies' \subseteq copies \cup {[item |-> j.item, ver |-> j.ver, chunk |-> j.chunk]}
    BY DEF deliver
  <2> QED BY <1>1, <2>1 DEF TextsOK
<1>3. \A x \in reader'.texts : ChunkOK(x, reader'.ver)
  <2>1. CASE UNCHANGED reader
    BY <2>1 DEF TextsOK
  <2>2. CASE reader.ver = j.ver /\ reader' = [reader EXCEPT !.texts = @ \cup {j.chunk}]
    BY <1>1, <2>2 DEF TextsOK
  <2>3. CASE reader' = [item |-> j.item, ver |-> j.ver, texts |-> {j.chunk}]
    BY <1>1, <2>3
  <2> QED BY <2>1, <2>2, <2>3 DEF deliver, ReadOn
<1> QED BY <1>2, <1>3 DEF TextsOK

LEMMA FetchTexts ==
  ASSUME CInv, TextsOK, NEW c \in Call,
         rememberedChatgptFetchSnapshot(c) \/ warmContentIndexFromChatgptSnapshots(c)
  PROVE  TextsOK'
<1>1. CASE rememberedChatgptFetchSnapshot(c)
  <2>1. PICK t \in copies :
          /\ t.ver = reader.ver /\ UNCHANGED copies
          /\ reader' = [reader EXCEPT !.texts = @ \cup {t.chunk}] \/ UNCHANGED reader
    BY <1>1 DEF rememberedChatgptFetchSnapshot, ReadOn
  <2>2. ChunkOK(t.chunk, reader.ver)
    BY <2>1 DEF TextsOK
  <2>3. CASE UNCHANGED reader
    BY <2>1, <2>3 DEF TextsOK
  <2>4. CASE reader' = [reader EXCEPT !.texts = @ \cup {t.chunk}]
    BY <2>1, <2>2, <2>4 DEF TextsOK
  <2> QED BY <2>1, <2>3, <2>4
<1>2. CASE warmContentIndexFromChatgptSnapshots(c)
  <2>1. ChunkOK(job[c].chunk, job[c].ver)
    BY <1>2, InHand DEF warmContentIndexFromChatgptSnapshots, JobKept, ReadingKept
  <2>2. /\ reader' = [item |-> job[c].item, ver |-> job[c].ver, texts |-> {job[c].chunk}]
        /\ UNCHANGED copies
    BY <1>2 DEF warmContentIndexFromChatgptSnapshots
  <2> QED BY <2>1, <2>2 DEF TextsOK
<1> QED BY <1>1, <1>2

(* The other calls leave what the client and the copies have as it is.      *)
LEMMA OthersRead ==
  ASSUME NEW c \in Call,
         \/ writeMutationAudit(c) \/ remember(c) \/ chatgptList(c) \/ search(c)
         \/ find(c) \/ chatgptSearch(c) \/ localFastPath(c) \/ executeSearchTerm(c)
         \/ cacheFound(c) \/ confirmCachedFindCandidates(c) \/ revalidate(c)
         \/ chatgptFetch(c) \/ getInfo(c) \/ extractChatgptFetchSnapshot(c)
  PROVE  UNCHANGED <<copies, reader>>
<1>1. ASSUME writeMutationAudit(c) \/ remember(c) \/ chatgptList(c) \/ search(c)
             \/ find(c) \/ chatgptSearch(c) \/ localFastPath(c)
      PROVE  UNCHANGED <<copies, reader>>
  BY <1>1 DEF writeMutationAudit, remember, chatgptList, search, find, chatgptSearch,
              localFastPath, readVars
<1>2. ASSUME executeSearchTerm(c) \/ cacheFound(c) \/ confirmCachedFindCandidates(c)
             \/ revalidate(c) \/ chatgptFetch(c) \/ getInfo(c)
             \/ extractChatgptFetchSnapshot(c)
      PROVE  UNCHANGED <<copies, reader>>
  BY <1>2 DEF executeSearchTerm, cacheFound, confirmCachedFindCandidates, revalidate,
              chatgptFetch, getInfo, extractChatgptFetchSnapshot, readVars
<1> QED BY <1>1, <1>2

LEMMA NextTexts == ASSUME CInv, TextsOK, [Next]_vars PROVE TextsOK'
<1>1. ASSUME UNCHANGED <<copies, reader>> PROVE TextsOK'
  BY <1>1 DEF TextsOK
<1>2. CASE UNCHANGED vars
  BY <1>1, <1>2 DEF vars, readVars
<1>3. ASSUME NEW c \in Call, Follow(c) PROVE TextsOK'
  BY <1>1, <1>3 DEF Follow
<1>4. ASSUME NEW c \in Call, ReadCall(c) PROVE TextsOK'
  <2>1. CASE \/ rememberedChatgptFetchSnapshot(c) \/ deliver(c)
             \/ warmContentIndexFromChatgptSnapshots(c)
    BY <2>1, DeliverTexts, FetchTexts
  <2>2. CASE \/ writeMutationAudit(c) \/ remember(c) \/ chatgptList(c) \/ search(c)
             \/ find(c) \/ chatgptSearch(c) \/ localFastPath(c) \/ executeSearchTerm(c)
             \/ cacheFound(c) \/ confirmCachedFindCandidates(c) \/ revalidate(c)
             \/ chatgptFetch(c) \/ getInfo(c) \/ extractChatgptFetchSnapshot(c)
    BY <1>1, <2>2, OthersRead
  <2> QED BY <1>4, <2>1, <2>2 DEF ReadCall
<1>5. CASE TimePasses
  <2>1. reader' = reader /\ copies' \subseteq copies
    BY <1>5 DEF TimePasses, Forget, Crawl
  <2> QED BY <2>1 DEF TextsOK
<1>6. CASE UNCHANGED readVars
  BY <1>1, <1>6 DEF readVars
<1> QED BY <1>2, <1>3, <1>4, <1>5, <1>6 DEF Next, OthersChange

(* The chunks of a file that a client puts together are of the version that *)
(* it began to read, whatever becomes of the copies, the cache, the index   *)
(* and the file in between; but segments of an Office package, which come   *)
(* from the index, may be newer. Nothing is older (chatgptFetch,            *)
(* resolveChatgptFetchSnapshot, extractChatgptFetchSnapshot).               *)
THEOREM OneVersionIsRead == Spec => []ChunksAreOfOneVersion
<1>1. Init => TextsOK
  BY DEF Init, ReadsInit, NoReader, TextsOK
<1>2. CInv /\ TextsOK /\ [Next]_vars => TextsOK'
  BY NextTexts
<1>3. TextsOK => ChunksAreOfOneVersion
  BY DEF TextsOK, ChunkOK, TextsRead, ChunksAreOfOneVersion
<1> QED BY <1>1, <1>2, <1>3, CacheInOrder, PTL DEF Spec

------------------------------------------------------------------------------
(* What was deleted, in a batch. No item goes from the cache without being  *)
(* accounted for as removed; and an item that is buried, out of the cache   *)
(* with a tombstone at its path or at none, stays so.                       *)
Holds(s, had) ==
  /\ Carries(s, {"items", "removed", "tombs"})
  /\ DOMAIN s.items \subseteq Item
  /\ had \subseteq DOMAIN s.items \cup s.removed

Buried(s, i, p) ==
  i \notin DOMAIN s.items /\ i \in DOMAIN s.tombs /\ s.tombs[i] \in {NoPath, p}

(* An element of a batch that does not bring the item back.                 *)
Spares(e, i, p) ==
  /\ e.id = i => e.deleted /\ e.path \in {NoPath, p}
  /\ ~e.deleted => e.path # p

LEMMA RemoveHolds ==
  ASSUME DriveAssumption, NEW s, NEW had, Holds(s, had), NEW j, NEW path
  PROVE  LET t == cacheRemoveItemAndDescendants(s, j, path) IN
         /\ Holds(t, had) /\ t.tombs = s.tombs
         /\ j \notin DOMAIN t.items /\ DOMAIN t.items \subseteq DOMAIN s.items
<1> DEFINE t == cacheRemoveItemAndDescendants(s, j, path)
<1>1. PICK old :
        t = [s EXCEPT !.items = Restrict(@, DOMAIN @ \ (Descendants(s.items, j, old) \cap DOMAIN s.items)),
                      !.removed = @ \cup (Descendants(s.items, j, old) \cap DOMAIN s.items)]
  BY DEF cacheRemoveItemAndDescendants
<1> DEFINE lost == Descendants(s.items, j, old) \cap DOMAIN s.items
           left == Restrict(s.items, DOMAIN s.items \ lost)
<1>2. j \in DOMAIN s.items => j \in lost
  BY ItemsFinite, DescendantsHave DEF Holds
<1> HIDE DEF lost
<1>3. DOMAIN left = DOMAIN s.items \ lost
  BY DEF Restrict
<1> HIDE DEF left, t
<1>4. /\ Carries(t, {"items", "removed", "tombs"})
      /\ t.items = left /\ t.removed = s.removed \cup lost /\ t.tombs = s.tombs
  BY <1>1 DEF Holds, Carries, left, lost
<1>5. Holds(t, had)
  BY <1>3, <1>4 DEF Holds
<1> QED BY <1>2, <1>3, <1>4, <1>5 DEF t

LEMMA DisplaceHolds ==
  ASSUME DriveAssumption, NEW s, NEW had, Holds(s, had), NEW j, NEW path
  PROVE  LET t == Displace(s, j, path) IN
         Holds(t, had) /\ t.tombs = s.tombs /\ DOMAIN t.items \subseteq DOMAIN s.items
<1>1. CASE Displace(s, j, path) = s
  BY <1>1
<1>2. CASE \E k : Displace(s, j, path) = cacheRemoveItemAndDescendants(s, k, path)
  BY <1>2, RemoveHolds
<1> QED BY <1>1, <1>2 DEF Displace

LEMMA PutHolds ==
  ASSUME DriveAssumption, NEW s, NEW had, Holds(s, had), NEW shown, shown.id \in Item,
         NEW folders
  PROVE  LET t == cachePutSimplified(s, shown, folders) IN
         /\ Holds(t, had)
         /\ \A i, p : Spares(shown, i, p) /\ (Buried(s, i, p) \/ shown.id = i) => Buried(t, i, p)
<1> DEFINE i == shown.id
           t == cachePutSimplified(s, shown, folders)
<1>1. CASE shown.deleted
  <2> DEFINE rest == cacheRemoveItemAndDescendants(s, i, shown.path)
             lost == DOMAIN s.items \ DOMAIN rest.items
             tombs == recordSearchTombstones(s, shown, lost)
  <2>1. t = [rest EXCEPT !.tombs = tombs]
    BY <1>1 DEF cachePutSimplified
  <2>2. /\ Holds(rest, had)
        /\ i \notin DOMAIN rest.items /\ DOMAIN rest.items \subseteq DOMAIN s.items
    BY RemoveHolds
  <2>3. tombs = [j \in DOMAIN s.tombs \cup lost \cup {i} |->
                   IF j = i THEN shown.path
                   ELSE IF j \in lost THEN s.items[j].path ELSE s.tombs[j]]
    BY DEF recordSearchTombstones
  <2> HIDE DEF rest, tombs, t
  <2>4. /\ Carries(t, {"items", "removed", "tombs"})
        /\ t.items = rest.items /\ t.removed = rest.removed /\ t.tombs = tombs
    BY <2>1, <2>2 DEF Holds, Carries
  <2>5. Holds(t, had)
    BY <2>2, <2>4 DEF Holds
  <2>6. ASSUME NEW k, NEW p, Spares(shown, k, p), Buried(s, k, p) \/ i = k
        PROVE  Buried(t, k, p)
    <3>1. CASE k = i
      <4>1. i \in DOMAIN tombs /\ tombs[i] = shown.path
        BY <2>3
      <4> QED BY <2>2, <2>4, <2>6, <3>1, <4>1 DEF Buried, Spares
    <3>2. CASE k # i
      <4>1. k \notin lost /\ k \notin DOMAIN rest.items /\ k \in DOMAIN s.tombs
            /\ s.tombs[k] \in {NoPath, p}
        BY <2>2, <2>6, <3>2 DEF Buried
      <4>2. k \in DOMAIN tombs /\ tombs[k] = s.tombs[k]
        BY <2>3, <3>2, <4>1
      <4> QED BY <2>4, <4>1, <4>2 DEF Buried
    <3> QED BY <3>1, <3>2
  <2> QED BY <2>5, <2>6 DEF t
<1>2. CASE ~shown.deleted
  <2> DEFINE path == resolveCachedItemPath(s.items, shown)
             free == Displace(s, i, path)
             entry == [name |-> shown.name, parent |-> shown.parent,
                       ver |-> shown.ver, path |-> path]
             tombs == clearMatchingSearchTombstones(free.tombs, shown)
  <2>1. /\ Holds(free, had) /\ free.tombs = s.tombs
        /\ DOMAIN free.items \subseteq DOMAIN s.items
    BY DisplaceHolds
  <2>2. PICK below : /\ \/ below = free.items
                        \/ \E old, new : below = updateCachedDescendantPaths(free.items, old, new)
                     /\ t = [items |-> [j \in DOMAIN below \cup {i} |->
                                          IF j = i THEN entry ELSE below[j]],
                             removed |-> free.removed, tombs |-> tombs]
    BY <1>2 DEF cachePutSimplified
  <2>3. DOMAIN below = DOMAIN free.items
    BY <2>2 DEF updateCachedDescendantPaths
  <2>4. tombs = Restrict(s.tombs, {j \in DOMAIN s.tombs :
                  j # i /\ (shown.path = NoPath \/ s.tombs[j] # shown.path)})
    BY <2>1 DEF clearMatchingSearchTombstones, NoPath
  <2> HIDE DEF path, free, entry, tombs
  <2>5. /\ Carries(t, {"items", "removed", "tombs"})
        /\ DOMAIN t.items = DOMAIN free.items \cup {i}
        /\ t.removed = free.removed /\ t.tombs = tombs
    BY <2>2, <2>3 DEF Carries
  <2> HIDE DEF t
  <2>6. Holds(t, had)
    BY <2>1, <2>5 DEF Holds
  <2>7. ASSUME NEW k, NEW p, Spares(shown, k, p), Buried(s, k, p) \/ i = k
        PROVE  Buried(t, k, p)
    <3>1. k # i /\ shown.path # p
      BY <1>2, <2>7 DEF Spares
    <3>2. k \notin DOMAIN t.items /\ k \in DOMAIN s.tombs /\ s.tombs[k] \in {NoPath, p}
      BY <2>1, <2>5, <2>7, <3>1 DEF Buried
    <3>3. k \in DOMAIN tombs /\ tombs[k] = s.tombs[k]
      BY <2>4, <3>1, <3>2 DEF Restrict
    <3> QED BY <2>5, <3>2, <3>3 DEF Buried
  <2> QED BY <2>6, <2>7 DEF t
<1> QED BY <1>1, <1>2

LEMMA PassOneHolds ==
  ASSUME DriveAssumption, NEW s, NEW had, Holds(s, had), Waiting(s) # {}
  PROVE  LET t == PassOne(s) IN
         Holds(t, had) /\ t.tombs = s.tombs /\ DOMAIN t.items \subseteq DOMAIN s.items
<1> DEFINE i    == CHOOSE i \in Waiting(s) : TRUE
           path == Append(cachedParentRemotePath(s.items, s.items[i].parent), s.items[i].name)
           free == Displace(s, i, path)
           t    == PassOne(s)
           entry == [s.items[i] EXCEPT !.path = path]
<1>1. i \in DOMAIN s.items
  BY DEF Waiting
<1>2. Holds(free, had) /\ free.tombs = s.tombs /\ DOMAIN free.items \subseteq DOMAIN s.items
  BY DisplaceHolds
<1>3. t = [free EXCEPT !.items =
             [j \in DOMAIN free.items \cup {i} |-> IF j = i THEN entry ELSE free.items[j]]]
  BY DEF PassOne
<1>4. i \in Item
  BY <1>1 DEF Holds
<1> HIDE DEF i, path, free, t, entry
<1>5. /\ Carries(t, {"items", "removed", "tombs"})
      /\ DOMAIN t.items = DOMAIN free.items \cup {i}
      /\ t.removed = free.removed /\ t.tombs = free.tombs
  BY <1>2, <1>3 DEF Holds, Carries
<1>6. Holds(t, had)
  BY <1>2, <1>4, <1>5 DEF Holds
<1> QED BY <1>1, <1>2, <1>5, <1>6 DEF t

LEMMA PassesHold ==
  ASSUME DriveAssumption, NEW s, NEW had, Holds(s, had)
  PROVE  LET t == resolveUnresolvedCachedPaths(s) IN
         Holds(t, had) /\ t.tombs = s.tombs /\ DOMAIN t.items \subseteq DOMAIN s.items
<1> DEFINE N == Cardinality(DOMAIN s.items)
           Good(t) == Holds(t, had) /\ t.tombs = s.tombs /\ DOMAIN t.items \subseteq DOMAIN s.items
<1>1. N \in Nat
  BY ItemsFinite DEF Holds
<1>2. PICK pass : IsPass(s, pass, N) /\ resolveUnresolvedCachedPaths(s) = pass[N]
  BY <1>1, PassIs
<1> HIDE DEF N
<1>3. ASSUME NEW n \in 0 .. N, ~Good(pass[n]) PROVE FALSE
  <2> DEFINE Bad == {k \in 0 .. N : ~Good(pass[k])}
  <2>1. PICK m \in Bad : \A k \in Nat : k < m => k \notin Bad
    <3>1. n \in Bad
      BY <1>3
    <3>2. Bad \subseteq Nat
      OBVIOUS
    <3> HIDE DEF Bad
    <3> QED BY <3>1, <3>2, LeastNat
  <2>2. pass[m] = PassStep(s, pass, m)
    BY <1>2 DEF IsPass
  <2>3. m # 0
    BY <2>1, <2>2 DEF PassStep
  <2>4. m - 1 \in 0 .. N /\ m - 1 \in Nat /\ m - 1 < m
    BY <1>1, <2>3
  <2>5. Good(pass[m - 1])
    BY <2>1, <2>4
  <2>6. \/ pass[m] = pass[m - 1]
        \/ Waiting(pass[m - 1]) # {} /\ pass[m] = PassOne(pass[m - 1])
    BY <2>2, <2>3 DEF PassStep
  <2>7. Good(pass[m])
    <3>1. CASE pass[m] = pass[m - 1]
      BY <2>5, <3>1
    <3>2. CASE Waiting(pass[m - 1]) # {} /\ pass[m] = PassOne(pass[m - 1])
      BY <2>5, <3>2, PassOneHolds
    <3> QED BY <2>6, <3>1, <3>2
  <2> QED BY <2>1, <2>7
<1>4. N \in 0 .. N
  BY <1>1
<1> QED BY <1>2, <1>3, <1>4

(* After a batch that spares a buried item, or buries it with its first     *)
(* element, it is buried.                                                   *)
LEMMA PutAllHolds ==
  ASSUME DriveAssumption, NEW items, DOMAIN items \subseteq Item, NEW tombs, NEW folders,
         NEW batch, Len(batch) \in Nat, \A n \in 1 .. Len(batch) : batch[n].id \in Item
  PROVE  LET first == [items |-> items, removed |-> {}, tombs |-> tombs]
             t     == PutAll(items, tombs, batch, folders)
         IN  /\ Holds(t, DOMAIN items)
             /\ \A i, p :
                  /\ Buried(first, i, p) \/ (Len(batch) # 0 /\ batch[1].id = i)
                  /\ \A n \in 1 .. Len(batch) : Spares(batch[n], i, p)
                  => Buried(t, i, p)
<1> DEFINE N == Len(batch)
           had == DOMAIN items
           first == [items |-> items, removed |-> {}, tombs |-> tombs]
<1>1. PICK put : /\ IsPut(items, tombs, batch, folders, put, N)
                 /\ PutAll(items, tombs, batch, folders) = resolveUnresolvedCachedPaths(put[N])
  BY PutAllIs
<1>2. /\ first.items = items /\ first.removed = {} /\ first.tombs = tombs
      /\ Carries(first, {"items", "removed", "tombs"})
  BY DEF Carries
<1>3. Holds(first, had)
  BY <1>2 DEF Holds
<1>4. \A n \in 0 .. N : put[n] = IF n = 0 THEN first ELSE cachePutSimplified(put[n - 1], batch[n], folders)
  BY <1>1 DEF IsPut, PutStep
<1> HIDE DEF N, had, first
<1>5. N \in Nat
  BY DEF N
<1> DEFINE Sound(n) ==
             /\ Holds(put[n], had)
             /\ \A i, p :
                  /\ Buried(first, i, p) \/ (n # 0 /\ batch[1].id = i)
                  /\ \A k \in 1 .. N : Spares(batch[k], i, p)
                  => Buried(put[n], i, p)
<1>6. ASSUME NEW n \in 0 .. N, ~Sound(n) PROVE FALSE
  <2> DEFINE Bad == {k \in 0 .. N : ~Sound(k)}
  <2>1. PICK m \in Bad : \A k \in Nat : k < m => k \notin Bad
    <3>1. n \in Bad
      BY <1>6
    <3>2. Bad \subseteq Nat
      OBVIOUS
    <3> HIDE DEF Bad
    <3> QED BY <3>1, <3>2, LeastNat
  <2>2. CASE m = 0
    <3>1. put[m] = first
      BY <1>4, <2>2
    <3>2. Sound(m)
      BY <1>3, <2>2, <3>1
    <3> QED BY <2>1, <3>2
  <2>3. CASE m # 0
    <3>1. m \in 1 .. N /\ m - 1 \in 0 .. N /\ m - 1 \in Nat /\ m - 1 < m /\ m \in 0 .. N
      BY <1>5, <2>3
    <3>2. Sound(m - 1)
      BY <2>1, <3>1
    <3>3. put[m] = cachePutSimplified(put[m - 1], batch[m], folders) /\ batch[m].id \in Item
      BY <1>4, <2>3, <3>1 DEF N
    <3>4. Holds(put[m - 1], had)
      BY <3>2
    <3>5. /\ Holds(put[m], had)
          /\ \A i, p : Spares(batch[m], i, p) /\ (Buried(put[m - 1], i, p) \/ batch[m].id = i)
                         => Buried(put[m], i, p)
      BY <3>3, <3>4, PutHolds
    <3>6. ASSUME NEW i, NEW p, Buried(first, i, p) \/ (m # 0 /\ batch[1].id = i),
                 \A k \in 1 .. N : Spares(batch[k], i, p)
          PROVE  Buried(put[m], i, p)
      <4>1. CASE m = 1 /\ batch[1].id = i
        BY <3>1, <3>5, <3>6, <4>1
      <4>2. CASE Buried(first, i, p) \/ (m - 1 # 0 /\ batch[1].id = i)
        <5>1. Buried(put[m - 1], i, p)
          BY <3>2, <3>6, <4>2
        <5> QED BY <3>1, <3>5, <3>6, <5>1
      <4>3. m = 1 \/ m - 1 # 0
        BY <3>1
      <4> QED BY <3>6, <4>1, <4>2, <4>3
    <3>7. Sound(m)
      <4> HIDE DEF Bad
      <4> QED BY <3>5, <3>6
    <3> QED BY <2>1, <3>7
  <2> QED BY <2>2, <2>3
<1>7. N \in 0 .. N
  BY <1>5
<1>8. Sound(N)
  BY <1>6, <1>7
<1> DEFINE t == resolveUnresolvedCachedPaths(put[N])
<1>9. Holds(t, had) /\ t.tombs = put[N].tombs /\ DOMAIN t.items \subseteq DOMAIN put[N].items
  BY <1>8, PassesHold
<1> HIDE DEF t
<1>10. ASSUME NEW i, NEW p, Buried(first, i, p) \/ (N # 0 /\ batch[1].id = i),
              \A k \in 1 .. N : Spares(batch[k], i, p)
       PROVE  Buried(t, i, p)
  <2>1. Buried(put[N], i, p)
    BY <1>8, <1>10
  <2> QED BY <1>9, <2>1 DEF Buried
<1> QED BY <1>1, <1>9, <1>10 DEF t, N, had, first

(* What calls have in hand of what was deleted: an element that brings a    *)
(* path of a deleted item brings the path that it was deleted at; what must *)
(* stay away is not brought but as deleted, unless a deletion overtook the  *)
(* call; and an answer shows nothing that was known to be deleted.          *)
Dead(d) == {i \in Item : d[i].at = "deleted"}
Quiet   == faults = 0

(* Deletions that were given to the cache.                                  *)
Buries(j, i) == j.at = "write" /\ Deletes(j, i)
Written      == {i \in DOMAIN gone : \A c \in Call : ~Buries(job[c], i)}

ElementAway(e, dead, g, w) ==
  /\ e.deleted /\ e.path # NoPath => e.id \in dead /\ (e.id \in DOMAIN g => e.path = g[e.id])
  /\ e.id \in w => e.deleted
HandAway(b, dead, g, w) == \A k \in DOMAIN b : ElementAway(b[k], dead, g, w)

AnswerAway(n, dead, g) ==
  /\ Carries(n, {"key", "shown", "knew"})
  /\ \A i \in n.knew : i \in dead /\ (i \in DOMAIN g => i \notin n.shown)
ThenAway(n, dead, g) ==
  /\ n.at = "remember" => AnswerAway(n, dead, g)
  /\ n.at = "audit" => Carries(n, {"of"})
  /\ n.at = "scan" => n.then.at # "audit" /\ (n.then.at = "remember" => AnswerAway(n.then, dead, g))

FindAway(j, dead, g, w) ==
  /\ Carries(j, {"by", "tombs", "knew", "shown", "got"})
  /\ HandAway(j.got, dead, g, w) /\ w \subseteq DOMAIN j.tombs
  /\ \A i \in j.knew : i \in dead /\ (i \in DOMAIN g => i \notin j.shown /\ i \in DOMAIN j.tombs)
WriteAway(j, dead, g, w) ==
  /\ HandAway(j.batch, dead, g, w) /\ ThenAway(j.then, dead, g)
  /\ j.then.at = "audit" => j.batch = <<j.then.of>> /\ j.then.of.deleted

JobAway(j, dead, g, w) ==
  LET away == IF "deletion" \in j.late THEN {} ELSE w IN
  /\ ThenAway(j, dead, g)
  /\ j.at \in {"page", "scan"} => HandAway(j.batch, dead, g, away)
  /\ j.at = "find" => FindAway(j, dead, g, away)
  /\ j.at = "write" => WriteAway(j, dead, g, away)

(* What was given to the cache as deleted is out of it, with a tombstone,   *)
(* and out of the index, and what else was deleted is in the index only     *)
(* while it is cached; an answer that shows what was deleted is older.      *)
GoneAway ==
  /\ DOMAIN gone \subseteq Dead(drive)
  /\ \A i \in DOMAIN crawled : crawled[i].id = i /\ ~crawled[i].deleted
  /\ \A i \in Written : Buried(cache, i, gone[i]) /\ i \notin DOMAIN index
  /\ DOMAIN gone \cap DOMAIN index \subseteq DOMAIN cache.items
AnswersAway ==
  /\ DOMAIN remembered = Key
  /\ \A k \in Key, i \in Recorded : i \in remembered[k].shown => i \in remembered[k].late
JobsAway == \A c \in Call : JobAway(job[c], Dead(drive), gone, Written)

AllAway == GoneAway /\ AnswersAway /\ JobsAway

AwayInv == faults \in Nat /\ (Quiet => AllAway)

(* As more is deleted, and as fewer deletions are accounted for.            *)
LEMMA HandStays ==
  ASSUME NEW b, NEW dead, NEW more, dead \subseteq more, NEW g, NEW z,
         \A i \in DOMAIN z : (i \in DOMAIN g /\ z[i] = g[i]) \/ i \notin dead,
         NEW w, NEW v, v \subseteq w, HandAway(b, dead, g, w)
  PROVE  HandAway(b, more, z, v)
BY DEF HandAway, ElementAway

LEMMA ThenStays ==
  ASSUME NEW n, NEW dead, NEW more, dead \subseteq more, NEW g, NEW z,
         \A i \in DOMAIN z : (i \in DOMAIN g /\ z[i] = g[i]) \/ i \notin dead,
         ThenAway(n, dead, g)
  PROVE  ThenAway(n, more, z)
BY DEF ThenAway, AnswerAway

LEMMA AwayGrows ==
  ASSUME NEW j, NEW dead, NEW more, dead \subseteq more, NEW g, NEW z,
         \A i \in DOMAIN z : (i \in DOMAIN g /\ z[i] = g[i]) \/ i \notin dead,
         NEW w, NEW v, v \subseteq w, JobAway(j, dead, g, w)
  PROVE  JobAway(j, more, z, v)
<1> DEFINE a == IF "deletion" \in j.late THEN {} ELSE w
           c == IF "deletion" \in j.late THEN {} ELSE v
<1>1. c \subseteq a
  OBVIOUS
<1>2. /\ ThenAway(j, dead, g)
      /\ j.at \in {"page", "scan"} => HandAway(j.batch, dead, g, a)
      /\ j.at = "find" => FindAway(j, dead, g, a)
      /\ j.at = "write" => WriteAway(j, dead, g, a)
  BY DEF JobAway
<1> HIDE DEF a, c
<1>3. ThenAway(j, more, z)
  BY <1>2, ThenStays
<1>4. j.at \in {"page", "scan"} => HandAway(j.batch, more, z, c)
  BY <1>1, <1>2, HandStays
<1>5. ASSUME j.at = "find" PROVE FindAway(j, more, z, c)
  <2>1. FindAway(j, dead, g, a)
    BY <1>2, <1>5
  <2>2. HandAway(j.got, more, z, c)
    BY <1>1, <2>1, HandStays DEF FindAway
  <2> QED BY <1>1, <2>1, <2>2 DEF FindAway
<1>6. ASSUME j.at = "write" PROVE WriteAway(j, more, z, c)
  <2>1. WriteAway(j, dead, g, a)
    BY <1>2, <1>6
  <2>2. HandAway(j.batch, more, z, c)
    BY <1>1, <2>1, HandStays DEF WriteAway
  <2>3. ThenAway(j.then, more, z)
    BY <2>1, ThenStays DEF WriteAway
  <2> QED BY <2>1, <2>2, <2>3 DEF WriteAway
<1> QED BY <1>3, <1>4, <1>5, <1>6 DEF JobAway, c

LEMMA AwayLate ==
  ASSUME NEW j, NEW d, NEW t, NEW h, NEW m, JobKept(j, d, t, h, m),
         NEW dead, NEW g, NEW w, NEW v, JobAway(j, dead, g, w),
         NEW why, why = "deletion" \/ v \subseteq w
  PROVE  JobAway(Late(j, why), dead, g, v)
<1>1. CASE j.at = "idle"
  BY <1>1 DEF Late, JobAway, ThenAway
<1>2. CASE j.at # "idle"
  <2> DEFINE k == Late(j, why)
             a == IF "deletion" \in j.late THEN {} ELSE w
             c == IF "deletion" \in k.late THEN {} ELSE v
  <2>1. /\ DOMAIN k = DOMAIN j /\ \A f \in DOMAIN j : f # "late" => k[f] = j[f]
        /\ k.at = j.at /\ j.late \subseteq k.late /\ why \in k.late
    BY <1>2, LateIs DEF JobKept
  <2> HIDE DEF k
  <2>2. c \subseteq a
    BY <2>1
  <2>3. /\ ThenAway(j, dead, g)
        /\ j.at \in {"page", "scan"} => HandAway(j.batch, dead, g, a)
        /\ j.at = "find" => FindAway(j, dead, g, a)
        /\ j.at = "write" => WriteAway(j, dead, g, a)
    BY DEF JobAway
  <2> HIDE DEF a, c
  <2>7. dead \subseteq dead /\ \A i \in DOMAIN g : (i \in DOMAIN g /\ g[i] = g[i]) \/ i \notin dead
    OBVIOUS
  <2>4. ThenAway(k, dead, g)
    <3>1. k.at = "remember" => AnswerAway(k, dead, g)
      BY <2>1, <2>3 DEF ThenAway, AnswerAway, Carries
    <3>2. k.at = "audit" => Carries(k, {"of"})
      BY <2>1, <2>3 DEF ThenAway, Carries
    <3>3. k.at = "scan" => k.then = j.then
      BY <2>1 DEF JobKept, ScanKept, Carries
    <3> QED BY <2>1, <2>3, <3>1, <3>2, <3>3 DEF ThenAway
  <2>5. k.at \in {"page", "scan"} => HandAway(k.batch, dead, g, c)
    <3>1. k.at \in {"page", "scan"} => k.batch = j.batch
      BY <2>1 DEF JobKept, PageKept, ScanKept, Carries
    <3> QED BY <2>1, <2>2, <2>3, <2>7, <3>1, HandStays
  <2>6. ASSUME k.at = "find" PROVE FindAway(k, dead, g, c)
    <3>1. FindAway(j, dead, g, a)
      BY <2>1, <2>3, <2>6
    <3>2. /\ k.got = j.got /\ k.tombs = j.tombs /\ k.knew = j.knew /\ k.shown = j.shown
          /\ Carries(k, {"by", "tombs", "knew", "shown", "got"})
      BY <2>1, <3>1 DEF FindAway, Carries
    <3>3. HandAway(j.got, dead, g, c)
      BY <2>2, <2>7, <3>1, HandStays DEF FindAway
    <3> QED BY <2>2, <3>1, <3>2, <3>3 DEF FindAway
  <2>8. ASSUME k.at = "write" PROVE WriteAway(k, dead, g, c)
    <3>1. WriteAway(j, dead, g, a)
      BY <2>1, <2>3, <2>8
    <3>2. k.batch = j.batch /\ k.then = j.then
      BY <2>1, <2>8 DEF JobKept, WriteKept, Carries
    <3>3. HandAway(j.batch, dead, g, c)
      BY <2>2, <2>7, <3>1, HandStays DEF WriteAway
    <3> QED BY <3>1, <3>2, <3>3 DEF WriteAway
  <2> QED BY <2>4, <2>5, <2>6, <2>8 DEF JobAway, c, k
<1> QED BY <1>1, <1>2

(* Nothing becomes accounted for as deleted and cached, or as recorded, but *)
(* by the call whose deletion it is.                                        *)
LEMMA DeletesLate ==
  ASSUME NEW j, NEW d, NEW t, NEW h, NEW m, JobKept(j, d, t, h, m),
         NEW dead, NEW g, NEW w, JobAway(j, dead, g, w), NEW why, NEW i
  PROVE  /\ Deletes(Late(j, why), i) <=> Deletes(j, i)
         /\ Buries(Late(j, why), i) <=> Buries(j, i)
<1>1. CASE j.at = "idle"
  BY <1>1 DEF Late
<1>2. CASE j.at # "idle"
  <2> DEFINE k == Late(j, why)
  <2>1. /\ DOMAIN k = DOMAIN j /\ \A f \in DOMAIN j : f # "late" => k[f] = j[f]
        /\ k.at = j.at
    BY <1>2, LateIs DEF JobKept
  <2> HIDE DEF k
  <2>2. j.at = "audit" => k.of = j.of
    BY <2>1 DEF JobAway, ThenAway, Carries
  <2>3. j.at = "write" => k.then = j.then
    BY <2>1 DEF JobKept, WriteKept, Carries
  <2> QED BY <2>1, <2>2, <2>3 DEF Deletes, Buries, k
<1> QED BY <1>1, <1>2

LEMMA RecordedBy ==
  ASSUME CInv, JobsAway, NEW c \in Call, NEW next, NEW why,
         GoOn(c, next) \/ GoOnLate(c, next, why),
         \A i \in DOMAIN gone' : i \in DOMAIN gone \/ Buries(next, i)
  PROVE  /\ Written' \subseteq DOMAIN gone /\ Recorded' \subseteq DOMAIN gone
         /\ \A i \in Written' : i \in Written \/ Buries(job[c], i)
         /\ \A i \in Recorded' : i \in Recorded \/ Deletes(job[c], i)
<1>1. DOMAIN job = Call /\ job'[c] = next
  BY DEF CInv, JobsKept, GoOn, GoOnLate
<1>2. ASSUME NEW x \in Call, x # c, NEW i
      PROVE  (Deletes(job'[x], i) <=> Deletes(job[x], i)) /\ (Buries(job'[x], i) <=> Buries(job[x], i))
  <2>1. job'[x] = job[x] \/ job'[x] = Late(job[x], why)
    BY <1>1, <1>2 DEF GoOn, GoOnLate
  <2>2. JobKept(job[x], drive, clock, handed, mixed) /\ JobAway(job[x], Dead(drive), gone, Written)
    BY InHand DEF JobsAway
  <2> QED BY <2>1, <2>2, DeletesLate
<1>3. \A i : Buries(next, i) => Deletes(next, i)
  BY DEF Buries
<1>4. ASSUME NEW i \in Written' PROVE i \in DOMAIN gone /\ (i \in Written \/ Buries(job[c], i))
  <2>1. i \in DOMAIN gone' /\ \A x \in Call : ~Buries(job'[x], i)
    BY DEF Written
  <2>2. i \in DOMAIN gone
    BY <1>1, <2>1
  <2>3. \A x \in Call : x # c => ~Buries(job[x], i)
    BY <1>2, <2>1
  <2> QED BY <2>2, <2>3 DEF Written
<1>5. ASSUME NEW i \in Recorded' PROVE i \in DOMAIN gone /\ (i \in Recorded \/ Deletes(job[c], i))
  <2>1. i \in DOMAIN gone' /\ \A x \in Call : ~Deletes(job'[x], i)
    BY DEF Recorded
  <2>2. i \in DOMAIN gone
    BY <1>1, <1>3, <2>1
  <2>3. \A x \in Call : x # c => ~Deletes(job[x], i)
    BY <1>2, <2>1
  <2> QED BY <2>2, <2>3 DEF Recorded
<1> QED BY <1>4, <1>5

(* What the calls have in hand after a step of one.                         *)
LEMMA OthersAway ==
  ASSUME CInv, JobsAway, Dead(drive) \subseteq Dead(drive'),
         \A i \in DOMAIN gone' : (i \in DOMAIN gone /\ gone'[i] = gone[i]) \/ i \notin Dead(drive),
         NEW c \in Call, NEW next, NEW why, GoOn(c, next) \/ GoOnLate(c, next, why),
         (GoOnLate(c, next, why) /\ why = "deletion") \/ Written' \subseteq Written,
         JobAway(next, Dead(drive'), gone', Written')
  PROVE  JobsAway'
<1>1. DOMAIN job = Call /\ DOMAIN job' = Call /\ job'[c] = next
  BY DEF CInv, JobsKept, GoOn, GoOnLate
<1>2. ASSUME NEW x \in Call, x # c PROVE JobAway(job'[x], Dead(drive'), gone', Written')
  <2>1. JobKept(job[x], drive, clock, handed, mixed) /\ JobAway(job[x], Dead(drive), gone, Written)
    BY InHand DEF JobsAway
  <2>2. CASE GoOn(c, next) /\ Written' \subseteq Written
    <3>1. job'[x] = job[x]
      BY <1>1, <1>2, <2>2 DEF GoOn
    <3> QED BY <2>1, <2>2, <3>1, AwayGrows
  <2>3. CASE GoOnLate(c, next, why) /\ (why = "deletion" \/ Written' \subseteq Written)
    <3>1. job'[x] = Late(job[x], why)
      BY <1>2, <2>3 DEF GoOnLate
    <3>2. JobAway(Late(job[x], why), Dead(drive), gone, Written')
      BY <2>1, <2>3, AwayLate
    <3> QED BY <3>1, <3>2, AwayGrows
  <2> QED BY <2>2, <2>3
<1>3. \A x \in Call : JobAway(job'[x], Dead(drive'), gone', Written')
  BY <1>1, <1>2
<1> QED BY <1>3 DEF JobsAway

(* A step of a call that neither writes the cache nor records a deletion.   *)
LEMMA AwayStep ==
  ASSUME CInv, GoneAway, AnswersAway, JobsAway, Dead(drive) \subseteq Dead(drive'),
         NEW c \in Call, NEW next, NEW why, GoOn(c, next) \/ GoOnLate(c, next, why),
         job[c].at \notin {"write", "audit"}, UNCHANGED cache,
         \A i \in DOMAIN gone' :
           \/ i \in DOMAIN gone /\ gone'[i] = gone[i]
           \/ /\ i \in Dead(drive') \ Dead(drive) /\ Buries(next, i)
              /\ i \in DOMAIN index' => i \in DOMAIN cache.items,
         DOMAIN gone' \cap DOMAIN index' \subseteq DOMAIN index,
         \A i \in DOMAIN crawled' : crawled'[i].id = i /\ ~crawled'[i].deleted,
         JobAway(next, Dead(drive), gone, Written) \/ JobAway(next, Dead(drive'), gone', Written')
  PROVE  GoneAway' /\ JobsAway' /\ (UNCHANGED remembered => AnswersAway')
<1>1. \A i \in DOMAIN gone' : i \in DOMAIN gone \/ Buries(next, i)
  OBVIOUS
<1>2. ~\E i : Deletes(job[c], i) \/ Buries(job[c], i)
  BY DEF Deletes, Buries
<1>3. /\ Written' \subseteq DOMAIN gone /\ Recorded' \subseteq DOMAIN gone
      /\ Written' \subseteq Written /\ Recorded' \subseteq Recorded
  BY <1>1, <1>2, RecordedBy
<1>4. \A i \in DOMAIN gone' : (i \in DOMAIN gone /\ gone'[i] = gone[i]) \/ i \notin Dead(drive)
  OBVIOUS
<1>5. JobAway(next, Dead(drive'), gone', Written')
  BY <1>3, <1>4, AwayGrows
<1>6. JobsAway'
  BY <1>3, <1>4, <1>5, OthersAway
<1>7. Written' \subseteq DOMAIN gone'
  BY DEF Written
<1>8. \A i \in Written' : Buried(cache', i, gone'[i]) /\ i \notin DOMAIN index'
  <2> SUFFICES ASSUME NEW i \in Written' PROVE Buried(cache', i, gone'[i]) /\ i \notin DOMAIN index'
    OBVIOUS
  <2>1. i \in Written /\ i \in DOMAIN gone' /\ i \in DOMAIN gone
    BY <1>3, <1>7
  <2>2. gone'[i] = gone[i]
    BY <2>1 DEF GoneAway
  <2> QED BY <2>1, <2>2 DEF GoneAway
<1>9. DOMAIN gone' \subseteq Dead(drive') /\ DOMAIN gone' \cap DOMAIN index' \subseteq DOMAIN cache'.items
  BY DEF GoneAway
<1>10. GoneAway'
  BY <1>8, <1>9 DEF GoneAway
<1>11. UNCHANGED remembered => AnswersAway'
  BY <1>3 DEF AnswersAway
<1> QED BY <1>6, <1>10, <1>11

(* What calls go on with.                                                   *)
LEMMA NoneInHand ==
  ASSUME NEW n, NEW dead, NEW g, NEW w,
         n.at \notin {"write", "page", "scan", "find", "remember", "audit"}
  PROVE  JobAway(n, dead, g, w) /\ ThenAway(n, dead, g)
BY DEF JobAway, ThenAway

LEMMA EmptyHand == ASSUME NEW dead, NEW g, NEW w PROVE HandAway(<<>>, dead, g, w)
BY EmptyBatch DEF HandAway

LEMMA WritingAway ==
  ASSUME NEW b, NEW u, NEW then, NEW late, NEW dead, NEW g, NEW w,
         HandAway(b, dead, g, IF "deletion" \in late THEN {} ELSE w),
         ThenAway(then, dead, g), then.at # "audit"
  PROVE  JobAway([Writing(b, u, then) EXCEPT !.late = late], dead, g, w)
<1> DEFINE j == [Writing(b, u, then) EXCEPT !.late = late]
<1>1. j.at = "write" /\ j.batch = b /\ j.then = then /\ j.late = late
  BY DEF Writing
<1> HIDE DEF j
<1>2. JobAway(j, dead, g, w)
  BY <1>1 DEF JobAway, WriteAway, ThenAway
<1> QED BY <1>2 DEF j

LEMMA JustWritingAway ==
  ASSUME NEW b, NEW u, NEW then, NEW dead, NEW g, NEW w, HandAway(b, dead, g, w),
         ThenAway(then, dead, g), then.at # "audit"
  PROVE  JobAway(Writing(b, u, then), dead, g, w)
<1> DEFINE none == {}
<1>1. Writing(b, u, then) = [Writing(b, u, then) EXCEPT !.late = none]
  BY DEF Writing
<1>2. (IF "deletion" \in none THEN {} ELSE w) = w
  OBVIOUS
<1> HIDE DEF none
<1>3. JobAway([Writing(b, u, then) EXCEPT !.late = none], dead, g, w)
  BY <1>2, WritingAway
<1> QED BY <1>1, <1>3

LEMMA DeduplicatedAway ==
  ASSUME NEW b, NEW top, BatchOK(b, top), NEW dead, NEW g, NEW w, HandAway(b, dead, g, w)
  PROVE  HandAway(Deduplicated(b), dead, g, w)
<1>1. \A n \in DOMAIN Deduplicated(b) : \E k \in DOMAIN b : Deduplicated(b)[n] = b[k]
  BY DeduplicatedOK
<1> QED BY <1>1 DEF HandAway

LEMMA FinishAway ==
  ASSUME NEW b, NEW top, BatchOK(b, top), NEW u, NEW late, NEW dead, NEW g, NEW w,
         HandAway(b, dead, g, IF "deletion" \in late THEN {} ELSE w)
  PROVE  JobAway(Finish(b, u, late), dead, g, w)
<1> DEFINE a == IF "deletion" \in late THEN {} ELSE w
<1>1. HandAway(Deduplicated(b), dead, g, a)
  BY DeduplicatedAway
<1>2. Idle.at = "idle"
  BY DEF Idle
<1>3. ThenAway(Idle, dead, g) /\ JobAway(Idle, dead, g, w)
  BY <1>2, NoneInHand
<1>4. JobAway([Writing(Deduplicated(b), u, Idle) EXCEPT !.late = late], dead, g, w)
  BY <1>1, <1>2, <1>3, WritingAway
<1> QED BY <1>3, <1>4 DEF Finish

LEMMA ConcatAway ==
  ASSUME NEW a, NEW b, NEW top, BatchOK(a, top), BatchOK(b, top), NEW dead, NEW g, NEW w,
         HandAway(a, dead, g, w), HandAway(b, dead, g, w)
  PROVE  HandAway(a \o b, dead, g, w)
<1>1. \A n \in DOMAIN (a \o b) :
        \/ \E k \in DOMAIN a : (a \o b)[n] = a[k]
        \/ \E k \in DOMAIN b : (a \o b)[n] = b[k]
  BY ConcatHas
<1> QED BY <1>1 DEF HandAway

LEMMA ScanningAway ==
  ASSUME NEW then, NEW dead, NEW g, NEW w, ThenAway(then, dead, g), then.at # "audit"
  PROVE  JobAway(Scanning(then), dead, g, w) /\ ThenAway(Scanning(then), dead, g)
<1> DEFINE s == Scanning(then)
<1>1. s.at = "scan" /\ s.batch = <<>> /\ s.then = then
  BY DEF Scanning
<1> HIDE DEF s
<1>2. JobAway(s, dead, g, w) /\ ThenAway(s, dead, g)
  BY <1>1, EmptyHand DEF JobAway, ThenAway
<1> QED BY <1>2 DEF s

(* Items that are there.                                                    *)
LEMMA LiveShown ==
  ASSUME NEW i \in Item, Live(i), NEW path
  PROVE  Shown(i, path).id = i /\ ~Shown(i, path).deleted /\ i \notin Dead(drive)
BY DEF Shown, Live, Dead

LEMMA LiveAway ==
  ASSUME GoneAway, NEW b, \A k \in DOMAIN b : ~b[k].deleted /\ b[k].id \notin Dead(drive)
  PROVE  HandAway(b, Dead(drive), gone, Written)
<1>1. Written \subseteq Dead(drive)
  BY DEF GoneAway, Written
<1> QED BY <1>1 DEF HandAway, ElementAway

LEMMA OneLive ==
  ASSUME GoneAway, NEW i \in Item, Live(i)
  PROVE  HandAway(<<ShownWithPath(i)>>, Dead(drive), gone, Written)
<1> DEFINE path == PathOf[i]
           x == ShownWithPath(i)
           b == <<x>>
<1>1. x = Shown(i, path)
  BY DEF ShownWithPath
<1> HIDE DEF x, path
<1>2. x.id = i /\ ~x.deleted /\ i \notin Dead(drive)
  BY <1>1, LiveShown
<1>3. \A k \in DOMAIN b : b[k] = x
  OBVIOUS
<1> HIDE DEF b
<1>4. HandAway(b, Dead(drive), gone, Written)
  BY <1>2, <1>3, LiveAway
<1> QED BY <1>4 DEF b, x

LEMMA SetLive ==
  ASSUME DriveAssumption, GoneAway, NEW S \in SUBSET Item, \A i \in S : Live(i)
  PROVE  LET b == [k \in DOMAIN SetToSeq(S) |-> ShownWithPath(SetToSeq(S)[k])] IN
         HandAway(b, Dead(drive), gone, Written)
<1> DEFINE s == SetToSeq(S)
           b == [k \in DOMAIN s |-> ShownWithPath(s[k])]
<1>1. s \in Seq(S)
  BY FS_Subset, SeqOfSet DEF DriveAssumption
<1> HIDE DEF s
<1>2. \A k \in DOMAIN s : s[k] \in S
  BY <1>1, LenProperties, ElementOfSeq
<1>3. ASSUME NEW k \in DOMAIN b PROVE ~b[k].deleted /\ b[k].id \notin Dead(drive)
  <2> DEFINE i == s[k]
             path == PathOf[i]
  <2>1. i \in Item /\ Live(i)
    BY <1>2
  <2>2. b[k] = Shown(i, path)
    BY DEF ShownWithPath
  <2> HIDE DEF i, path, b
  <2> QED BY <2>1, <2>2, LiveShown
<1> HIDE DEF b
<1>4. HandAway(b, Dead(drive), gone, Written)
  BY <1>3, LiveAway
<1> QED BY <1>4 DEF b, s

LEMMA ChildrenAway ==
  ASSUME DriveAssumption, GoneAway, NEW f
  PROVE  HandAway(ChildrenOf(f), Dead(drive), gone, Written)
<1>1. Siblings(f) \in SUBSET Item /\ \A i \in Siblings(f) : Live(i)
  BY DEF Siblings
<1> QED BY <1>1, SetLive DEF ChildrenOf

------------------------------------------------------------------------------
(* What a call of the cache leaves accounted for as deleted.                *)
LEMMA FollowTells ==
  ASSUME NEW c \in Call, Follow(c)
  PROVE  /\ UNCHANGED <<crawled, remembered>>
         /\ \A i \in DOMAIN gone' :
              \/ /\ i \in DOMAIN gone /\ gone'[i] = gone[i]
                 /\ i \notin DOMAIN index' \ DOMAIN index
                 /\ ~(cache' = Empty /\ cache # Empty)
                 /\ job[c].at = "write" =>
                      \A k \in DOMAIN job[c].batch :
                        \/ job[c].batch[k].path = gone[i] /\ job[c].batch[k].id # i
                        \/ job[c].batch[k].id = i /\ "deletion" \in job[c].late
                        => job[c].batch[k].deleted
              \/ /\ i \in Item /\ Buries(job'[c], i) /\ gone'[i] = job'[c].then.of.path
                 /\ i \in DOMAIN index => i \in DOMAIN cache.items
<1> DEFINE batch   == IF job[c].at = "write" THEN job[c].batch ELSE <<>>
           taken   == {i \in DOMAIN gone : \E k \in DOMAIN batch :
                         batch[k].path = gone[i] /\ batch[k].id # i /\ ~batch[k].deleted}
           back    == {i \in DOMAIN gone : "deletion" \in job[c].late /\
                         \E k \in DOMAIN batch : batch[k].id = i /\ ~batch[k].deleted}
           deleted == {i \in Item : job'[c].at = "write" /\ Deletes(job'[c], i)}
                      \ (DOMAIN index \ DOMAIN cache.items)
           cleared == cache' = Empty /\ cache # Empty
           still   == IF cleared THEN {} ELSE DOMAIN gone \ (taken \cup back \cup NewlyIndexed)
<1>1. gone' = [i \in still \cup deleted |->
                   IF i \in deleted THEN job'[c].then.of.path ELSE gone[i]]
      /\ UNCHANGED <<crawled, remembered>>
  BY DEF Follow
<1>2. \A i \in deleted : i \in Item /\ Buries(job'[c], i) /\ (i \in DOMAIN index => i \in DOMAIN cache.items)
  BY DEF Buries
<1>3. \A i \in still : /\ i \in DOMAIN gone /\ ~cleared /\ i \notin DOMAIN index' \ DOMAIN index
                       /\ i \notin taken /\ i \notin back
  BY DEF NewlyIndexed
<1>4. \A i \in DOMAIN gone : i \notin taken /\ i \notin back =>
        \A k \in DOMAIN batch :
          \/ batch[k].path = gone[i] /\ batch[k].id # i
          \/ batch[k].id = i /\ "deletion" \in job[c].late
          => batch[k].deleted
  OBVIOUS
<1>5. job[c].at = "write" => batch = job[c].batch
  OBVIOUS
<1> HIDE DEF still, deleted, taken, back, batch
<1> SUFFICES ASSUME NEW i \in DOMAIN gone'
             PROVE  \/ /\ i \in DOMAIN gone /\ gone'[i] = gone[i]
                       /\ i \notin DOMAIN index' \ DOMAIN index
                       /\ ~(cache' = Empty /\ cache # Empty)
                       /\ job[c].at = "write" =>
                            \A k \in DOMAIN job[c].batch :
                              \/ job[c].batch[k].path = gone[i] /\ job[c].batch[k].id # i
                              \/ job[c].batch[k].id = i /\ "deletion" \in job[c].late
                              => job[c].batch[k].deleted
                    \/ /\ i \in Item /\ Buries(job'[c], i) /\ gone'[i] = job'[c].then.of.path
                       /\ i \in DOMAIN index => i \in DOMAIN cache.items
  BY <1>1
<1>6. i \in still \cup deleted
      /\ gone'[i] = IF i \in deleted THEN job'[c].then.of.path ELSE gone[i]
  BY <1>1
<1>7. CASE i \in deleted
  BY <1>2, <1>6, <1>7
<1>8. CASE i \notin deleted
  <2>1. i \in still /\ gone'[i] = gone[i]
    BY <1>6, <1>8
  <2>2. job[c].at = "write" =>
          \A k \in DOMAIN job[c].batch :
            \/ job[c].batch[k].path = gone[i] /\ job[c].batch[k].id # i
            \/ job[c].batch[k].id = i /\ "deletion" \in job[c].late
            => job[c].batch[k].deleted
    BY <1>3, <1>4, <1>5, <2>1
  <2> QED BY <1>3, <2>1, <2>2
<1> QED BY <1>7, <1>8

(* A call of the cache that goes on without having deleted or written.      *)
LEMMA GoesOnAway ==
  ASSUME CInv, AllAway, NEW c \in Call, Follow(c), job[c].at \notin {"write", "audit"},
         UNCHANGED <<driveVars, cache>>, NEW next, GoOn(c, next),
         \A i : ~Buries(next, i), JobAway(next, Dead(drive), gone, Written)
  PROVE  AllAway'
<1>1. job'[c] = next
  BY DEF CInv, JobsKept, GoOn
<1>2. /\ UNCHANGED <<crawled, remembered>>
      /\ \A i \in DOMAIN gone' : /\ i \in DOMAIN gone /\ gone'[i] = gone[i]
                                 /\ i \notin DOMAIN index' \ DOMAIN index
  BY <1>1, FollowTells
<1>3. Dead(drive') = Dead(drive)
  BY DEF driveVars
<1>4. \A i \in DOMAIN crawled' : crawled'[i].id = i /\ ~crawled'[i].deleted
  BY <1>2 DEF AllAway, GoneAway
<1>5. DOMAIN gone' \cap DOMAIN index' \subseteq DOMAIN index
  BY <1>2
<1> DEFINE why == "change"
<1>6. GoOn(c, next) \/ GoOnLate(c, next, why)
  OBVIOUS
<1>7. GoneAway /\ AnswersAway /\ JobsAway
  BY DEF AllAway
<1> HIDE DEF why
<1>8. GoneAway' /\ JobsAway' /\ (UNCHANGED remembered => AnswersAway')
  BY <1>2, <1>3, <1>4, <1>5, <1>6, <1>7, AwayStep
<1> QED BY <1>2, <1>8 DEF AllAway

LEMMA NotBuried ==
  ASSUME NEW n, n.at # "write" \/ n.then.at # "audit" PROVE \A i : ~Buries(n, i)
BY DEF Buries, Deletes

LEMMA WritesOnly ==
  ASSUME NEW b, NEW u, NEW then, then.at # "audit", NEW late
  PROVE  \A i : /\ ~Buries(Writing(b, u, then), i)
                /\ ~Buries([Writing(b, u, then) EXCEPT !.late = late], i)
<1> DEFINE j == Writing(b, u, then)
           k == [Writing(b, u, then) EXCEPT !.late = late]
<1>1. j.then = then /\ k.then = then
  BY DEF Writing
<1> HIDE DEF j, k
<1>2. \A i : ~Buries(j, i) /\ ~Buries(k, i)
  BY <1>1, NotBuried
<1> QED BY <1>2 DEF j, k

LEMMA IdleAway ==
  ASSUME NEW dead, NEW g, NEW w
  PROVE  /\ Idle.at = "idle" /\ JobAway(Idle, dead, g, w) /\ ThenAway(Idle, dead, g)
         /\ \A i : ~Buries(Idle, i)
<1>1. Idle.at = "idle"
  BY DEF Idle
<1> QED BY <1>1, NoneInHand, NotBuried

(* The calls of the cache.                                                  *)
LEMMA RequestAway ==
  ASSUME CInv, AllAway, DriveAssumption, NEW c \in Call, Follow(c),
         getRawInfo(c) \/ list(c) \/ RequestFails(c)
  PROVE  AllAway'
<1>1. /\ Idle.at = "idle" /\ ThenAway(Idle, Dead(drive), gone)
      /\ JobAway(Idle, Dead(drive), gone, Written) /\ \A i : ~Buries(Idle, i)
  BY IdleAway
<1>2. CASE getRawInfo(c)
  <2>1. PICK i \in Item : Live(i) /\ GoOn(c, Writing(<<ShownWithPath(i)>>, Keep, Idle))
    BY <1>2 DEF getRawInfo
  <2>2. UNCHANGED <<driveVars, cache>> /\ job[c].at = "idle"
    BY <1>2 DEF getRawInfo, Start
  <2> DEFINE b == <<ShownWithPath(i)>>
  <2>3. HandAway(b, Dead(drive), gone, Written)
    BY <2>1, OneLive DEF AllAway
  <2>5. GoOn(c, Writing(b, Keep, Idle))
    BY <2>1
  <2> HIDE DEF b
  <2>4. JobAway(Writing(b, Keep, Idle), Dead(drive), gone, Written)
        /\ \A x : ~Buries(Writing(b, Keep, Idle), x)
    BY <1>1, <2>3, JustWritingAway, WritesOnly
  <2> QED BY <2>2, <2>4, <2>5, GoesOnAway
<1>3. CASE list(c)
  <2>1. PICK f : GoOn(c, Writing(ChildrenOf(f), Keep, Idle))
    BY <1>3 DEF list
  <2>2. UNCHANGED <<driveVars, cache>> /\ job[c].at = "idle"
    BY <1>3 DEF list, Start
  <2>3. HandAway(ChildrenOf(f), Dead(drive), gone, Written)
    BY ChildrenAway DEF AllAway
  <2>4. JobAway(Writing(ChildrenOf(f), Keep, Idle), Dead(drive), gone, Written)
        /\ \A x : ~Buries(Writing(ChildrenOf(f), Keep, Idle), x)
    BY <1>1, <2>3, JustWritingAway, WritesOnly
  <2> QED BY <2>1, <2>2, <2>4, GoesOnAway
<1>4. CASE RequestFails(c)
  <2>1. GoOn(c, Idle) /\ UNCHANGED <<driveVars, cache>> /\ job[c].at \in {"page", "scan"}
    BY <1>4 DEF RequestFails, Answer
  <2> QED BY <1>1, <2>1, GoesOnAway
<1> QED BY <1>2, <1>3, <1>4

LEMMA PagingAway ==
  ASSUME NEW token, NEW persist, NEW dead, NEW g, NEW w
  PROVE  JobAway(Paging(token, persist), dead, g, w) /\ \A i : ~Buries(Paging(token, persist), i)
<1> DEFINE p == Paging(token, persist)
<1>1. p.at = "page" /\ p.batch = <<>>
  BY DEF Paging
<1> HIDE DEF p
<1>2. JobAway(p, dead, g, w)
  BY <1>1, EmptyHand DEF JobAway, ThenAway
<1> QED BY <1>1, <1>2, NotBuried DEF p

LEMMA RoundAway ==
  ASSUME NEW c, NEW from, NEW persist, BeginRound(c, from, persist)
  PROVE  \E token : GoOn(c, Paging(token, persist))
BY DEF BeginRound

LEMMA ScannedAway ==
  ASSUME NEW dead, NEW g, NEW w
  PROVE  JobAway(Scanning(Scanned), dead, g, w) /\ \A i : ~Buries(Scanning(Scanned), i)
<1>1. Scanned.at = "scanned"
  BY DEF Scanned
<1>2. ThenAway(Scanned, dead, g) /\ JobAway(Scanning(Scanned), dead, g, w)
  BY <1>1, NoneInHand, ScanningAway
<1>3. Scanning(Scanned).at = "scan"
  BY DEF Scanning
<1> QED BY <1>2, <1>3, NotBuried

LEMMA RoundsAway ==
  ASSUME CInv, AllAway, NEW c \in Call, Follow(c),
         delta(c) \/ cacheRefresh(c) \/ prime(c)
           \/ (cacheRebuild(c) /\ GoOn(c, Scanning(Scanned)) /\ UNCHANGED cache)
  PROVE  AllAway'
<1>1. UNCHANGED <<driveVars, cache>> /\ job[c].at \in {"idle", "prime"}
  BY DEF delta, cacheRefresh, prime, cacheRebuild, Start
<1>2. CASE \E token, persist : GoOn(c, Paging(token, persist))
  BY <1>1, <1>2, PagingAway, GoesOnAway
<1>3. CASE GoOn(c, Scanning(Scanned))
  BY <1>1, <1>3, ScannedAway, GoesOnAway
<1>4. CASE delta(c)
  BY <1>2, <1>4, RoundAway DEF delta
<1>5. CASE cacheRefresh(c)
  BY <1>2, <1>3, <1>5, RoundAway DEF cacheRefresh
<1>6. CASE prime(c)
  BY <1>2, <1>6, RoundAway DEF prime
<1> QED BY <1>3, <1>4, <1>5, <1>6

LEMMA IndexAway ==
  ASSUME CInv, AllAway, DriveAssumption, NEW c \in Call, Follow(c),
         contentIndexRefresh(c) \/ extractCandidate(c) \/ saveContentIndex(c)
           \/ officeContentSearch(c) \/ evict(c)
  PROVE  AllAway'
<1>1. /\ Idle.at = "idle" /\ ThenAway(Idle, Dead(drive), gone)
      /\ JobAway(Idle, Dead(drive), gone, Written) /\ \A i : ~Buries(Idle, i)
  BY IdleAway
<1>2. UNCHANGED <<driveVars, cache>> /\ job[c].at \in {"idle", "extract", "evict"}
  BY DEF contentIndexRefresh, extractCandidate, saveContentIndex, officeContentSearch, evict, Start
<1>3. ASSUME NEW n, n.at \in {"extract", "evict"}, GoOn(c, n) PROVE AllAway'
  BY <1>2, <1>3, NoneInHand, NotBuried, GoesOnAway
<1>4. CASE contentIndexRefresh(c)
  BY <1>3, <1>4 DEF contentIndexRefresh
<1>5. CASE extractCandidate(c)
  <2> DEFINE j == job[c]
  <2>2. Carries(j, {"at", "new"}) /\ j.at = "extract"
    BY <1>5, InHand DEF extractCandidate, JobKept, ExtractKept, Carries
  <2>1. PICK i \in j.todo : \E new : GoOn(c, [j EXCEPT !.todo = @ \ {i}, !.new = new])
    <3>1. PICK i \in j.todo :
            \/ \E new : GoOn(c, [j EXCEPT !.todo = @ \ {i}, !.new = new])
            \/ GoOn(c, [j EXCEPT !.todo = @ \ {i}])
      BY <1>5 DEF extractCandidate
    <3>2. [j EXCEPT !.todo = @ \ {i}] = [j EXCEPT !.todo = @ \ {i}, !.new = j.new]
      BY <2>2 DEF Carries
    <3> QED BY <3>1, <3>2
  <2>5. PICK new : GoOn(c, [j EXCEPT !.todo = @ \ {i}, !.new = new])
    BY <2>1
  <2> DEFINE k == [j EXCEPT !.todo = @ \ {i}, !.new = new]
  <2>3. k.at = j.at
    BY <2>2 DEF Carries
  <2>4. GoOn(c, k)
    BY <2>5
  <2> HIDE DEF k, j
  <2> QED BY <1>3, <2>2, <2>3, <2>4
<1>6. CASE saveContentIndex(c) \/ evict(c)
  BY <1>1, <1>2, <1>6, GoesOnAway DEF saveContentIndex, evict, Answer
<1>7. CASE officeContentSearch(c)
  <2>1. PICK i \in DOMAIN index :
          \/ Live(i) /\ GoOn(c, Writing(<<ShownWithPath(i)>>, Keep, Idle))
          \/ GoOn(c, [at |-> "evict", late |-> {},
                      new |-> Restrict(index, DOMAIN index \ {i})])
    BY <1>7 DEF officeContentSearch
  <2>2. i \in Item
    BY DEF CInv, EntriesOK
  <2>3. CASE GoOn(c, [at |-> "evict", late |-> {},
                      new |-> Restrict(index, DOMAIN index \ {i})])
    BY <1>3, <2>3
  <2>4. CASE Live(i) /\ GoOn(c, Writing(<<ShownWithPath(i)>>, Keep, Idle))
    <3> DEFINE b == <<ShownWithPath(i)>>
    <3>1. HandAway(b, Dead(drive), gone, Written)
      BY <2>2, <2>4, OneLive DEF AllAway
    <3>2. GoOn(c, Writing(b, Keep, Idle))
      BY <2>4
    <3> HIDE DEF b
    <3>3. JobAway(Writing(b, Keep, Idle), Dead(drive), gone, Written)
          /\ \A x : ~Buries(Writing(b, Keep, Idle), x)
      BY <1>1, <3>1, JustWritingAway, WritesOnly
    <3> QED BY <1>2, <3>2, <3>3, GoesOnAway
  <2> QED BY <2>1, <2>3, <2>4
<1> QED BY <1>4, <1>5, <1>6, <1>7

------------------------------------------------------------------------------
(* A deletion: the item was there, and goes to the cache as deleted at the  *)
(* path at which it is accounted for.                                       *)
LEMMA DeleteAway ==
  ASSUME CInv, AllAway, DriveAssumption, NEW c \in Call, Follow(c), deleteItem(c)
  PROVE  AllAway'
<1>1. PICK i \in Item :
        /\ Trash(i) /\ Tick
        /\ LET shown == [ShownWithPath(i) EXCEPT !.deleted = TRUE, !.ver = @ + 1]
           IN  GoOnLate(c, Writing(<<shown>>, Keep, [at |-> "audit", of |-> shown, late |-> {}]),
                        "deletion")
        /\ UNCHANGED <<cache, index>> /\ job[c].at = "idle"
  BY DEF deleteItem, Start
<1> DEFINE shown == [ShownWithPath(i) EXCEPT !.deleted = TRUE, !.ver = @ + 1]
           audit == [at |-> "audit", of |-> shown, late |-> {}]
           b     == <<shown>>
           next  == Writing(b, Keep, audit)
           why   == "deletion"
<1>2. Advances
  BY <1>1, TrashAdvances DEF CInv, Tick
<1>3. Dead(drive) \subseteq Dead(drive')
  BY <1>2 DEF Advances, Dead
<1>4. shown.id = i /\ shown.deleted
  BY DEF ShownWithPath, Shown
<1>5. i \in Dead(drive') /\ i \notin Dead(drive)
  <2>1. drive[i] \in DriveRecords /\ Inside(i, i) /\ Live(i)
    BY <1>1 DEF CInv, DriveOK, Inside, Trash
  <2>2. drive' = [j \in Item |->
          IF ~Inside(j, i) THEN drive[j]
          ELSE IF j # i THEN [drive[j] EXCEPT !.at = "deleted"]
          ELSE [drive[j] EXCEPT !.at = "deleted", !.ver = @ + 1, !.changed = clock + 1]]
    BY <1>1 DEF Trash
  <2>3. drive'[i] = [drive[i] EXCEPT !.at = "deleted", !.ver = @ + 1, !.changed = clock + 1]
    BY <2>1, <2>2
  <2>4. drive'[i].at = "deleted"
    BY <2>1, <2>3 DEF DriveRecords
  <2> QED BY <2>1, <2>4 DEF Dead, Live
<1>6. GoOnLate(c, next, why)
  BY <1>1
<1> HIDE DEF shown
<1>7. audit.at = "audit" /\ audit.of = shown /\ Carries(audit, {"of"})
  BY DEF Carries
<1>8. b[1] = shown /\ DOMAIN b = {1}
  OBVIOUS
<1>9. b = <<shown>>
  OBVIOUS
<1> HIDE DEF audit, b
<1>10. /\ next.at = "write" /\ next.batch = b /\ next.then = audit /\ next.late = {}
  BY DEF Writing
<1> HIDE DEF next, why
<1>11. job'[c] = next
  BY <1>6 DEF GoOnLate
<1>12. \A k : Buries(next, k) <=> k = i
  BY <1>4, <1>7, <1>10 DEF Buries, Deletes
<1>13. /\ UNCHANGED <<crawled, remembered>>
       /\ \A k \in DOMAIN gone' :
            \/ k \in DOMAIN gone /\ gone'[k] = gone[k] /\ k \notin DOMAIN index' \ DOMAIN index
            \/ k = i /\ gone'[k] = shown.path /\ (k \in DOMAIN index => k \in DOMAIN cache.items)
  BY <1>7, <1>10, <1>11, <1>12, FollowTells
<1>14. i \notin DOMAIN gone
  BY <1>5 DEF AllAway, GoneAway
<1>15. i \in DOMAIN gone' => gone'[i] = shown.path
  BY <1>13, <1>14
<1>16. HandAway(b, Dead(drive'), gone', Written')
  BY <1>4, <1>5, <1>8, <1>15 DEF HandAway, ElementAway
<1>17. ThenAway(audit, Dead(drive'), gone')
  BY <1>7 DEF ThenAway
<1>18. WriteAway(next, Dead(drive'), gone', Written')
  BY <1>4, <1>7, <1>9, <1>10, <1>16, <1>17 DEF WriteAway
<1>19. JobAway(next, Dead(drive'), gone', Written')
  BY <1>10, <1>18 DEF JobAway, ThenAway
<1>20. \A k \in DOMAIN gone' :
         \/ k \in DOMAIN gone /\ gone'[k] = gone[k]
         \/ /\ k \in Dead(drive') \ Dead(drive) /\ Buries(next, k)
            /\ k \in DOMAIN index' => k \in DOMAIN cache.items
  BY <1>1, <1>5, <1>12, <1>13
<1>21. DOMAIN gone' \cap DOMAIN index' \subseteq DOMAIN index
  BY <1>1
<1>22. \A k \in DOMAIN crawled' : crawled'[k].id = k /\ ~crawled'[k].deleted
  BY <1>13 DEF AllAway, GoneAway
<1>23. UNCHANGED cache /\ job[c].at \notin {"write", "audit"}
  BY <1>1
<1>24. GoneAway' /\ JobsAway' /\ (UNCHANGED remembered => AnswersAway')
  BY <1>3, <1>6, <1>19, <1>20, <1>21, <1>22, <1>23, AwayStep DEF AllAway
<1> QED BY <1>13, <1>24 DEF AllAway

LEMMA HandLess ==
  ASSUME NEW b, NEW dead, NEW g, NEW w, NEW v, v \subseteq w, HandAway(b, dead, g, w)
  PROVE  HandAway(b, dead, g, v)
BY DEF HandAway, ElementAway

(* A scan.                                                                  *)
LEMMA ScanAway ==
  ASSUME CInv, AllAway, DriveAssumption, NEW c \in Call, Follow(c), scan(c)
  PROVE  AllAway'
<1> DEFINE j == job[c]
           a == IF "deletion" \in j.late THEN {} ELSE Written
<1>1. /\ Carries(j, {"at", "late", "batch", "then"}) /\ j.at = "scan"
      /\ BatchOK(j.batch, Top(drive)) /\ ScanThen(j.then)
  BY InHand DEF scan, JobKept, ScanKept, Carries
<1>2. UNCHANGED <<driveVars, cache>>
  BY DEF scan
<1>3. JobAway(j, Dead(drive), gone, Written)
  BY DEF AllAway, JobsAway
<1>4. HandAway(j.batch, Dead(drive), gone, a) /\ ThenAway(j, Dead(drive), gone)
  BY <1>1, <1>3 DEF JobAway
<1>5. j.then.at # "audit" /\ ThenAway(j.then, Dead(drive), gone)
  BY <1>1, <1>4 DEF ThenAway, ScanThen
<1>6. ASSUME NEW f \in j.todo, NEW todo, NEW b, b = <<>> \/ b = ChildrenOf(f),
             GoOn(c, [j EXCEPT !.batch = @ \o b, !.todo = todo])
      PROVE  AllAway'
  <2> DEFINE k == [j EXCEPT !.batch = @ \o b, !.todo = todo]
  <2>1. BatchOK(b, Top(drive)) /\ HandAway(b, Dead(drive), gone, Written)
    BY <1>6, ChildrenBatch, ChildrenAway, EmptyBatch, EmptyHand DEF CInv, AllAway
  <2>2. HandAway(b, Dead(drive), gone, a)
    BY <2>1, HandLess
  <2>3. HandAway(j.batch \o b, Dead(drive), gone, a)
    BY <1>1, <1>4, <2>1, <2>2, ConcatAway
  <2>4. /\ k.at = "scan" /\ k.batch = j.batch \o b /\ k.then = j.then /\ k.late = j.late
    BY <1>1 DEF Carries
  <2>5. GoOn(c, k) /\ j.at \notin {"write", "audit"}
    BY <1>1, <1>6
  <2>6. a = IF "deletion" \in j.late THEN {} ELSE Written
    OBVIOUS
  <2> HIDE DEF k, a
  <2>7. JobAway(k, Dead(drive), gone, Written)
    BY <1>1, <1>4, <2>3, <2>4, <2>6 DEF JobAway, ThenAway
  <2> QED BY <1>2, <2>4, <2>5, <2>7, NotBuried, GoesOnAway
<1>7. CASE \E f \in j.todo :
             GoOn(c, [j EXCEPT
               !.batch = @ \o (IF f = Root \/ Live(f) THEN ChildrenOf(f) ELSE <<>>),
               !.todo = (@ \ {f}) \cup
                        (IF f = Root \/ Live(f) THEN Siblings(f) \cap Folder ELSE {})])
  <2>1. PICK f \in j.todo :
             GoOn(c, [j EXCEPT
               !.batch = @ \o (IF f = Root \/ Live(f) THEN ChildrenOf(f) ELSE <<>>),
               !.todo = (@ \ {f}) \cup
                        (IF f = Root \/ Live(f) THEN Siblings(f) \cap Folder ELSE {})])
    BY <1>7
  <2> DEFINE b    == IF f = Root \/ Live(f) THEN ChildrenOf(f) ELSE <<>>
             todo == (j.todo \ {f}) \cup
                     (IF f = Root \/ Live(f) THEN Siblings(f) \cap Folder ELSE {})
  <2>2. GoOn(c, [j EXCEPT !.batch = @ \o b, !.todo = todo])
    BY <2>1
  <2>3. b = <<>> \/ b = ChildrenOf(f)
    OBVIOUS
  <2> HIDE DEF b, todo, j
  <2> QED BY <1>6, <2>2, <2>3
<1>8. CASE GoOn(c, [Writing(Deduplicated(j.batch), Keep, j.then) EXCEPT !.late = j.late])
  <2>1. HandAway(Deduplicated(j.batch), Dead(drive), gone, a)
    BY <1>1, <1>4, DeduplicatedAway
  <2> DEFINE b == Deduplicated(j.batch)
             late == j.late
             then == j.then
             k == [Writing(b, Keep, then) EXCEPT !.late = late]
  <2>2. GoOn(c, k) /\ j.at \notin {"write", "audit"}
    BY <1>1, <1>8
  <2>3. HandAway(b, Dead(drive), gone, IF "deletion" \in late THEN {} ELSE Written)
        /\ then.at # "audit" /\ ThenAway(then, Dead(drive), gone)
    BY <1>5, <2>1
  <2> HIDE DEF b, late, then
  <2>4. JobAway(k, Dead(drive), gone, Written)
    BY <2>3, WritingAway
  <2>5. \A i : ~Buries(k, i)
    BY <2>3, WritesOnly
  <2> HIDE DEF k
  <2> QED BY <1>2, <2>2, <2>4, <2>5, GoesOnAway
<1> QED BY <1>7, <1>8 DEF scan

(* A page of delta results: what is deleted comes without its path.         *)
LEMMA PageAway ==
  ASSUME CInv, GoneAway, DriveAssumption, NEW rest \in Seq(Item), NEW k \in 0 .. Len(rest)
  PROVE  LET p == [x \in 1 .. k |-> Shown(rest[x], NoPath)] IN
         HandAway(hydrateDeltaParentItems(p), Dead(drive), gone, Written)
<1> DEFINE p == [x \in 1 .. k |-> Shown(rest[x], NoPath)]
           lacking == {f \in {p[x].parent : x \in DOMAIN p} \ ({Root} \cup {p[x].id : x \in DOMAIN p}) :
                         Live(f) /\ ~Known(cache.items, f)}
           h == [x \in DOMAIN SetToSeq(lacking) |-> ShownWithPath(SetToSeq(lacking)[x])]
<1>1. hydrateDeltaParentItems(p) = h \o p
  BY DEF hydrateDeltaParentItems
<1>2. k \in Nat /\ \A x \in 1 .. k : rest[x] \in Item
  BY LenProperties, ElementOfSeq
<1>3. p = [x \in 1 .. k |-> p[x]] /\ DOMAIN p = 1 .. k
  OBVIOUS
<1>4. \A x \in 1 .. k : /\ ShownOK(p[x], Top(drive)) /\ p[x].id = rest[x] /\ p[x].path = NoPath
                        /\ p[x].deleted = ~Live(rest[x]) /\ p[x].parent = drive[rest[x]].parent
  BY <1>2, ShownIsOK DEF Shown, CInv
<1>5. lacking \in SUBSET Item /\ \A f \in lacking : Live(f)
  <2> SUFFICES ASSUME NEW f \in lacking PROVE f \in Item
    OBVIOUS
  <2>1. PICK x \in 1 .. k : f = drive[rest[x]].parent
    BY <1>3, <1>4
  <2>2. f \in Folder \cup {Root} /\ f # Root
    BY <1>2, <2>1 DEF CInv, DriveOK, DriveRecords
  <2> QED BY <2>2 DEF DriveAssumption
<1> HIDE DEF p, lacking
<1>6. BatchOK(p, Top(drive))
  BY <1>2, <1>3, <1>4, FunctionBatch
<1>7. BatchOK(h, Top(drive)) /\ HandAway(h, Dead(drive), gone, Written)
  BY <1>5, SetBatch, SetLive DEF CInv
<1>8. HandAway(p, Dead(drive), gone, Written)
  <2>1. Written \subseteq Dead(drive)
    BY DEF GoneAway, Written
  <2>2. ASSUME NEW x \in DOMAIN p PROVE ElementAway(p[x], Dead(drive), gone, Written)
    <3>1. /\ rest[x] \in Item /\ p[x].id = rest[x] /\ p[x].path = NoPath
          /\ p[x].deleted = ~Live(rest[x])
      BY <1>2, <1>3, <1>4
    <3>2. p[x].id \in Dead(drive) => p[x].deleted
      BY <3>1 DEF Dead, Live
    <3> QED BY <2>1, <3>1, <3>2 DEF ElementAway
  <2> QED BY <2>2 DEF HandAway
<1> HIDE DEF h
<1>9. HandAway(h \o p, Dead(drive), gone, Written)
  BY <1>6, <1>7, <1>8, ConcatAway
<1> QED BY <1>1, <1>9 DEF p

LEMMA CollectedAway ==
  ASSUME CInv, GoneAway, DriveAssumption, NEW batch, BatchOK(batch, Top(drive)),
         NEW rest \in Seq(Item), NEW k \in 0 .. Len(rest),
         NEW w, w \subseteq Written, HandAway(batch, Dead(drive), gone, w)
  PROVE  /\ BatchOK(Collected(batch, rest, k), Top(drive))
         /\ HandAway(Collected(batch, rest, k), Dead(drive), gone, w)
<1> DEFINE page == hydrateDeltaParentItems([x \in 1 .. k |-> Shown(rest[x], NoPath)])
<1>1. BatchOK(page, Top(drive))
  BY PageBatch DEF CInv
<1>2. HandAway(page, Dead(drive), gone, Written)
  BY PageAway
<1>3. Collected(batch, rest, k) = batch \o page
  BY DEF Collected
<1>4. BatchOK(Collected(batch, rest, k), Top(drive))
  BY CollectedOK DEF CInv
<1> HIDE DEF page
<1>5. HandAway(page, Dead(drive), gone, w)
  BY <1>2, HandLess
<1>6. HandAway(batch \o page, Dead(drive), gone, w)
  BY <1>1, <1>5, ConcatAway
<1> QED BY <1>3, <1>4, <1>6

LEMMA CollectAway ==
  ASSUME CInv, AllAway, DriveAssumption, PageAssumption, NEW c \in Call, Follow(c),
         collectPages(c)
  PROVE  AllAway'
<1> DEFINE j      == job[c]
           rest   == j.token.rest
           n      == Min({PageSize, Len(rest)})
           left   == SubSeq(rest, n + 1, Len(rest))
           token  == IF left = <<>> THEN NoToken ELSE [j.token EXCEPT !.rest = left]
           cursor == IF j.persist THEN [link |-> j.token.upto, next |-> token] ELSE Keep
           got(k) == Collected(j.batch, rest, k)
           more   == [j EXCEPT !.batch = got(n), !.cursor = cursor, !.token = token]
           a      == IF "deletion" \in j.late THEN {} ELSE Written
<1>1. /\ j.at = "page"
      /\ \/ \E k \in 1 .. n - 1 : GoOn(c, Finish(got(k), j.cursor, j.late))
         \/ GoOn(c, Finish(got(n), cursor, j.late))
         \/ GoOn(c, more)
      /\ UNCHANGED <<driveVars, cache>>
  BY DEF collectPages, Collected, cursorAfterCutOff
<1>2. JobKept(j, drive, clock, handed, mixed) /\ PageKept(j, drive, clock, handed, mixed)
  BY <1>1 DEF CInv, JobsKept, JobKept
<1>3. /\ Carries(j, {"at", "late", "token", "batch", "cursor"})
      /\ BatchOK(j.batch, Top(drive)) /\ rest \in Seq(Item)
  BY <1>2 DEF JobKept, PageKept, TokenOK, Carries
<1>4. n \in 0 .. Len(rest) /\ Len(rest) \in Nat
  <2> DEFINE S == {PageSize, Len(rest)}
  <2>1. S \subseteq Nat /\ Len(rest) \in S
    BY <1>3, LenProperties, PageAssumption
  <2> HIDE DEF S
  <2>2. Min(S) \in S /\ Min(S) <= Len(rest)
    BY <2>1, MinOf
  <2>3. Min(S) \in Nat /\ Len(rest) \in Nat
    BY <2>1, <2>2
  <2>4. n = Min(S)
    BY DEF S
  <2> HIDE DEF n
  <2> QED BY <2>2, <2>3, <2>4
<1>5. a \subseteq Written /\ a = (IF "deletion" \in j.late THEN {} ELSE Written)
  OBVIOUS
<1>6. HandAway(j.batch, Dead(drive), gone, a)
  BY <1>1 DEF AllAway, JobsAway, JobAway
<1> HIDE DEF rest, a
<1>7. ASSUME NEW k \in 0 .. Len(rest)
      PROVE  BatchOK(got(k), Top(drive)) /\ HandAway(got(k), Dead(drive), gone, a)
  BY <1>3, <1>5, <1>6, CollectedAway DEF AllAway
<1>8. ASSUME NEW k \in 0 .. Len(rest), NEW u
      PROVE  /\ JobAway(Finish(got(k), u, j.late), Dead(drive), gone, Written)
             /\ \A i : ~Buries(Finish(got(k), u, j.late), i)
  <2> DEFINE b == got(k)
             late == j.late
  <2>1. /\ BatchOK(b, Top(drive))
        /\ HandAway(b, Dead(drive), gone, IF "deletion" \in late THEN {} ELSE Written)
    BY <1>5, <1>7
  <2> HIDE DEF b, late
  <2>2. JobAway(Finish(b, u, late), Dead(drive), gone, Written)
    BY <2>1, FinishAway
  <2>3. \A i : ~Buries(Finish(b, u, late), i)
    BY IdleAway, WritesOnly DEF Finish
  <2> QED BY <2>2, <2>3 DEF b, late
<1>9. j.at \notin {"write", "audit"}
  BY <1>1
<1>10. CASE \E k \in 1 .. n - 1 : GoOn(c, Finish(got(k), j.cursor, j.late))
  <2>1. PICK k \in 1 .. n - 1 : GoOn(c, Finish(got(k), j.cursor, j.late))
    BY <1>10
  <2>2. k \in 0 .. Len(rest)
    <3> HIDE DEF n
    <3> QED BY <1>4
  <2> HIDE DEF got
  <2> QED BY <1>1, <1>8, <1>9, <2>1, <2>2, GoesOnAway
<1>11. CASE GoOn(c, Finish(got(n), cursor, j.late))
  <2> HIDE DEF got, cursor, n
  <2> QED BY <1>1, <1>4, <1>8, <1>9, <1>11, GoesOnAway
<1>12. CASE GoOn(c, more)
  <2>1. /\ DOMAIN more = DOMAIN j /\ \A f \in DOMAIN j \ {"batch", "cursor", "token"} : more[f] = j[f]
    OBVIOUS
  <2>2. more.batch = got(n)
    <3> HIDE DEF got, cursor, token
    <3> QED BY <1>3 DEF Carries
  <2>3. HandAway(got(n), Dead(drive), gone, a)
    BY <1>4, <1>7
  <2> HIDE DEF more, got, cursor, token, n
  <2>4. more.at = "page" /\ more.late = j.late
    BY <1>1, <1>3, <2>1 DEF Carries
  <2>5. JobAway(more, Dead(drive), gone, Written)
    BY <1>5, <2>2, <2>3, <2>4 DEF JobAway, ThenAway
  <2> QED BY <1>1, <1>9, <1>12, <2>4, <2>5, NotBuried, GoesOnAway
<1> QED BY <1>1, <1>10, <1>11, <1>12

(* The cache is cleared: nothing is accounted for as deleted any more.      *)
LEMMA ClearAway ==
  ASSUME CInv, AllAway, NEW c \in Call, Follow(c), cacheRebuild(c),
         GoOnLate(c, Scanning(Scanned), "clear"), cache' = Empty
  PROVE  AllAway'
<1> DEFINE next == Scanning(Scanned)
           why == "clear"
<1>1. GoOnLate(c, next, why) /\ UNCHANGED <<driveVars, index>> /\ job[c].at = "idle"
  BY DEF cacheRebuild, Start
<1>2. \A g, w, dead : JobAway(next, dead, g, w) /\ \A i : ~Buries(next, i)
  BY ScannedAway
<1> HIDE DEF next, why
<1>3. job'[c] = next /\ Dead(drive') = Dead(drive)
  BY <1>1 DEF GoOnLate, driveVars
<1>4. /\ UNCHANGED <<crawled, remembered>>
      /\ \A i \in DOMAIN gone' : /\ i \in DOMAIN gone /\ gone'[i] = gone[i]
                                 /\ ~(cache' = Empty /\ cache # Empty)
  BY <1>2, <1>3, FollowTells
<1>5. \A i \in DOMAIN crawled' : crawled'[i].id = i /\ ~crawled'[i].deleted
  BY <1>4 DEF AllAway, GoneAway
<1>6. CASE cache = Empty
  <2>1. UNCHANGED cache /\ job[c].at \notin {"write", "audit"}
        /\ DOMAIN gone' \cap DOMAIN index' \subseteq DOMAIN index
        /\ Dead(drive) \subseteq Dead(drive')
    BY <1>1, <1>3, <1>6
  <2>2. JobAway(next, Dead(drive), gone, Written)
    BY <1>2
  <2>3. GoneAway' /\ JobsAway' /\ (UNCHANGED remembered => AnswersAway')
    BY <1>1, <1>4, <1>5, <2>1, <2>2, AwayStep DEF AllAway
  <2> QED BY <1>4, <2>3 DEF AllAway
<1>7. CASE cache # Empty
  <2>1. DOMAIN gone' = {}
    BY <1>4, <1>7
  <2>2. Written' = {} /\ Recorded' = {}
    BY <2>1 DEF Written, Recorded
  <2>3. GoneAway'
    BY <1>5, <2>1, <2>2 DEF GoneAway
  <2>4. AnswersAway'
    BY <1>4, <2>2 DEF AnswersAway, AllAway
  <2>5. JobAway(next, Dead(drive'), gone', Written') /\ Written' \subseteq Written
    BY <1>2, <2>2
  <2>6. Dead(drive) \subseteq Dead(drive')
        /\ \A i \in DOMAIN gone' : (i \in DOMAIN gone /\ gone'[i] = gone[i]) \/ i \notin Dead(drive)
    BY <1>3, <2>1
  <2>7. JobsAway'
    BY <1>1, <2>5, <2>6, OthersAway DEF AllAway
  <2> QED BY <2>3, <2>4, <2>7 DEF AllAway
<1> QED BY <1>6, <1>7

------------------------------------------------------------------------------
(* Writes of the cache. In a quiet history none fails; and what one brings  *)
(* that was read before a deletion is not accounted for after it.           *)
QuietStep == Quiet /\ Quiet'

LEMMA WriteTells ==
  ASSUME QuietStep, NEW c \in Call, NEW batch, NEW cursor, NEW next, NEW otherwise,
         cacheItems(c, batch, cursor, next, otherwise)
  PROVE  /\ LET put == PutAll(cache.items, cache.tombs, batch, Folder)
                mid == [cache EXCEPT !.items = put.items, !.tombs = put.tombs]
            IN  cache' = WithCursor(mid, cursor) /\ index' = reconcile(batch, put)
         /\ \E why : /\ GoOnLate(c, next, why)
                     /\ (\E k \in DOMAIN batch : batch[k].deleted) => why = "deletion"
<1> DEFINE why == IF \E k \in DOMAIN batch : batch[k].deleted THEN "deletion" ELSE "change"
<1>1. \/ /\ LET put == PutAll(cache.items, cache.tombs, batch, Folder)
                mid == [cache EXCEPT !.items = put.items, !.tombs = put.tombs]
            IN  cache' = WithCursor(mid, cursor) /\ index' = reconcile(batch, put)
         /\ GoOnLate(c, next, why)
      \/ Fails
  BY DEF cacheItems
<1>2. ~Fails
  BY DEF Fails, QuietStep, Quiet
<1>3. (\E k \in DOMAIN batch : batch[k].deleted) => why = "deletion"
  OBVIOUS
<1> HIDE DEF why
<1> QED BY <1>1, <1>2, <1>3

LEMMA StoredWith ==
  ASSUME NEW mid, NEW cursor
  PROVE  LET new == WithCursor(mid, cursor) IN
         new.items = mid.items /\ new.tombs = mid.tombs
<1>1. CASE cursor = Keep
  BY <1>1 DEF WithCursor
<1>2. CASE cursor # Keep
  <2> DEFINE l == IF cursor.next # NoToken THEN mid.link ELSE cursor.link
             n == cursor.next
             w == [mid EXCEPT !.link = l, !.next = n]
  <2>1. WithCursor(mid, cursor) = w
    BY <1>2 DEF WithCursor
  <2> HIDE DEF l, n
  <2>2. w.items = mid.items /\ w.tombs = mid.tombs
    OBVIOUS
  <2> HIDE DEF w
  <2> QED BY <2>1, <2>2
<1> QED BY <1>1, <1>2

LEMMA ReconcileLess ==
  ASSUME NEW batch, NEW put
  PROVE  DOMAIN reconcile(batch, put) \subseteq DOMAIN index \ put.removed
<1>1. PICK out : reconcile(batch, put) = Restrict(index, DOMAIN index \ out)
                 /\ put.removed \subseteq out
  BY DEF reconcile
<1> QED BY <1>1 DEF Restrict

LEMMA CacheItemsAway ==
  ASSUME CInv, AllAway, QuietStep, DriveAssumption, NEW c \in Call, Follow(c),
         UNCHANGED driveVars, NEW batch, BatchOK(batch, Top(drive)),
         job[c].at = "write" => batch = job[c].batch,
         job[c].at # "write" => batch = <<>>,
         HandAway(batch, Dead(drive), gone, IF "deletion" \in job[c].late THEN {} ELSE Written),
         NEW cursor, NEW next, NEW otherwise, cacheItems(c, batch, cursor, next, otherwise),
         \A g, w : g = gone => JobAway(next, Dead(drive), g, w),
         next.at # "write", \A i : Deletes(job[c], i) => Deletes(next, i),
         \A i : Buries(job[c], i) => Len(batch) = 1 /\ batch[1].id = i /\ batch[1].deleted
  PROVE  AllAway'
<1> DEFINE items == cache.items
           tombs == cache.tombs
           put == PutAll(items, tombs, batch, Folder)
           first == [items |-> items, removed |-> {}, tombs |-> tombs]
<1>1. PICK why : /\ GoOnLate(c, next, why)
                 /\ (\E k \in DOMAIN batch : batch[k].deleted) => why = "deletion"
  BY WriteTells
<1>2. cache'.items = put.items /\ cache'.tombs = put.tombs
  <2>1. Carries(cache, {"items", "tombs"})
    BY DEF CInv, StoredOK, Carries
  <2> DEFINE ni == put.items
             nt == put.tombs
             mid == [cache EXCEPT !.items = ni, !.tombs = nt]
  <2>2. cache' = WithCursor(mid, cursor)
    BY WriteTells
  <2> HIDE DEF ni, nt
  <2>3. mid.items = ni /\ mid.tombs = nt
    BY <2>1 DEF Carries
  <2> HIDE DEF mid
  <2>4. cache'.items = ni /\ cache'.tombs = nt
    BY <2>2, <2>3, StoredWith
  <2> QED BY <2>4 DEF ni, nt
<1>3. DOMAIN index' \subseteq DOMAIN index \ put.removed
  BY WriteTells, ReconcileLess
<1>4. /\ Len(batch) \in Nat /\ DOMAIN batch = 1 .. Len(batch)
      /\ \A k \in DOMAIN batch : ShownOK(batch[k], Top(drive))
  BY BatchLen
<1>5. \A n \in 1 .. Len(batch) : batch[n].id \in Item
  BY <1>4 DEF ShownOK, Top
<1>6. DOMAIN items \subseteq Item
  BY DEF CInv, StoredOK, ItemsOK, Top
<1> HIDE DEF items, tombs
<1>7. /\ Holds(put, DOMAIN items)
      /\ \A i, p :
           /\ Buried(first, i, p) \/ (Len(batch) # 0 /\ batch[1].id = i)
           /\ \A n \in 1 .. Len(batch) : Spares(batch[n], i, p)
           => Buried(put, i, p)
  BY <1>4, <1>5, <1>6, PutAllHolds
<1> HIDE DEF put
<1>8. \A i, p : Buried(cache, i, p) => Buried(first, i, p)
  BY DEF Buried, items, tombs
<1> HIDE DEF first
<1>9. job'[c] = next
  BY <1>1 DEF GoOnLate
<1>10. /\ UNCHANGED <<crawled, remembered>>
       /\ \A i \in DOMAIN gone' :
            /\ i \in DOMAIN gone /\ gone'[i] = gone[i]
            /\ \A k \in DOMAIN batch :
                 \/ batch[k].path = gone[i] /\ batch[k].id # i
                 \/ batch[k].id = i /\ "deletion" \in job[c].late
                 => batch[k].deleted
  <2>1. \A i : ~Buries(job'[c], i)
    BY <1>9, NotBuried
  <2>2. job[c].at # "write" => DOMAIN batch = {}
    BY EmptyBatch
  <2> QED BY <2>1, <2>2, FollowTells
<1>11. /\ Written' \subseteq DOMAIN gone /\ Recorded' \subseteq DOMAIN gone
       /\ \A i \in Written' : i \in Written \/ Buries(job[c], i)
       /\ \A i \in Recorded' : i \in Recorded \/ Deletes(job[c], i)
  <2>1. \A i \in DOMAIN gone' : i \in DOMAIN gone \/ Buries(next, i)
    BY <1>10
  <2> QED BY <1>1, <2>1, RecordedBy DEF AllAway
<1>12. Dead(drive') = Dead(drive)
  BY DEF driveVars
<1>13. ASSUME NEW i \in Written'
       PROVE  Buried(put, i, gone[i]) /\ i \notin DOMAIN index' /\ i \in DOMAIN gone'
  <2> DEFINE p == gone[i]
  <2>1. i \in DOMAIN gone' /\ i \in DOMAIN gone /\ gone'[i] = p
    BY <1>10 DEF Written
  <2>2. ASSUME NEW n \in 1 .. Len(batch) PROVE Spares(batch[n], i, p)
    <3>1. n \in DOMAIN batch
      BY <1>4
    <3>2. ElementAway(batch[n], Dead(drive), gone,
                      IF "deletion" \in job[c].late THEN {} ELSE Written)
      BY <3>1 DEF HandAway
    <3>3. /\ batch[n].path = p /\ batch[n].id # i => batch[n].deleted
          /\ batch[n].id = i /\ "deletion" \in job[c].late => batch[n].deleted
      BY <1>10, <2>1, <3>1
    <3>4. batch[n].id = i => batch[n].deleted
      <4>1. CASE i \in Written
        BY <3>2, <3>3, <4>1 DEF ElementAway
      <4>2. CASE Buries(job[c], i)
        <5>1. Len(batch) = 1 /\ batch[1].deleted
          BY <4>2
        <5>2. n = 1
          BY <5>1
        <5> QED BY <5>1, <5>2
      <4> QED BY <1>11, <4>1, <4>2
    <3>5. batch[n].id = i /\ batch[n].path # NoPath => batch[n].path = p
      BY <2>1, <3>2, <3>4 DEF ElementAway
    <3> QED BY <3>3, <3>4, <3>5 DEF Spares
  <2>3. Buried(first, i, p) \/ (Len(batch) # 0 /\ batch[1].id = i)
    <3>1. CASE i \in Written
      BY <1>8, <3>1 DEF AllAway, GoneAway
    <3>2. CASE Buries(job[c], i)
      BY <3>2
    <3> QED BY <1>11, <3>1, <3>2
  <2> HIDE DEF p
  <2>4. Buried(put, i, p)
    BY <1>7, <2>2, <2>3
  <2>5. i \notin DOMAIN index'
    <3>1. CASE i \notin DOMAIN index
      BY <1>3, <3>1
    <3>2. CASE i \in DOMAIN index
      <4>1. i \in DOMAIN items
        BY <2>1, <3>2 DEF AllAway, GoneAway, items
      <4>2. i \in put.removed
        BY <1>7, <2>4, <4>1 DEF Holds, Buried
      <4> QED BY <1>3, <4>2
    <3> QED BY <3>1, <3>2
  <2> QED BY <2>1, <2>4, <2>5 DEF p
<1>14. DOMAIN gone' \cap DOMAIN index' \subseteq DOMAIN cache'.items
  <2> SUFFICES ASSUME NEW i \in DOMAIN gone', i \in DOMAIN index' PROVE i \in DOMAIN put.items
    BY <1>2
  <2>1. i \in DOMAIN gone /\ i \in DOMAIN index /\ i \notin put.removed
    BY <1>3, <1>10
  <2>2. i \in DOMAIN items
    BY <2>1 DEF AllAway, GoneAway, items
  <2> QED BY <1>7, <2>1, <2>2 DEF Holds
<1>15. GoneAway'
  <2>1. DOMAIN gone' \subseteq Dead(drive')
    BY <1>10, <1>12 DEF AllAway, GoneAway
  <2>2. \A i \in DOMAIN crawled' : crawled'[i].id = i /\ ~crawled'[i].deleted
    BY <1>10 DEF AllAway, GoneAway
  <2>3. \A i \in Written' : Buried(cache', i, gone'[i]) /\ i \notin DOMAIN index'
    BY <1>2, <1>10, <1>13 DEF Buried
  <2> QED BY <1>14, <2>1, <2>2, <2>3 DEF GoneAway
<1>16. Recorded' \subseteq Recorded
  <2>1. ASSUME NEW i \in Recorded' PROVE ~Deletes(job[c], i)
    <3>1. ~Deletes(job'[c], i)
      BY DEF Recorded
    <3> QED BY <1>9, <3>1
  <2> QED BY <1>11, <2>1
<1>17. AnswersAway'
  BY <1>10, <1>16 DEF AllAway, AnswersAway
<1>18. why = "deletion" \/ Written' \subseteq Written
  <2>1. (\E i : Buries(job[c], i)) => why = "deletion"
    BY <1>1, <1>4
  <2> QED BY <1>11, <2>1
<1>19. JobsAway'
  <2>1. \A i \in DOMAIN gone' : i \in DOMAIN gone /\ gone'[i] = gone[i]
    BY <1>10
  <2>2. JobAway(next, Dead(drive), gone, Written')
    OBVIOUS
  <2>3. JobAway(next, Dead(drive'), gone', Written')
    BY <1>12, <2>1, <2>2, AwayGrows
  <2>4. Dead(drive) \subseteq Dead(drive')
    BY <1>12
  <2> QED BY <1>1, <1>18, <2>1, <2>3, <2>4, OthersAway DEF AllAway
<1> QED BY <1>15, <1>17, <1>19 DEF AllAway

LEMMA ThenJob ==
  ASSUME NEW n, WriteThen(n), NEW dead, NEW g, ThenAway(n, dead, g), NEW w
  PROVE  JobAway(n, dead, g, w)
BY EmptyHand DEF WriteThen, JobAway, Busy

LEMMA WriteAwayStep ==
  ASSUME CInv, AllAway, QuietStep, DriveAssumption, NEW c \in Call, Follow(c),
         Write(c) \/ dropCursor(c)
  PROVE  AllAway'
<1>1. CASE Write(c)
  <2> DEFINE j == job[c]
  <2>1. /\ j.at = "write" /\ UNCHANGED driveVars
        /\ cacheItems(c, j.batch, j.cursor, j.then, j.then)
    BY <1>1 DEF Write, bestEffort
  <2>2. BatchOK(j.batch, Top(drive)) /\ WriteThen(j.then)
    BY <2>1, InHand DEF JobKept, WriteKept
  <2>3. \A w : w = (IF "deletion" \in j.late THEN {} ELSE Written)
                   => WriteAway(j, Dead(drive), gone, w)
    BY <2>1 DEF AllAway, JobsAway, JobAway
  <2> DEFINE away == IF "deletion" \in j.late THEN {} ELSE Written
  <2>4. WriteAway(j, Dead(drive), gone, away)
    BY <2>3
  <2>5. HandAway(j.batch, Dead(drive), gone, away) /\ ThenAway(j.then, Dead(drive), gone)
    BY <2>4 DEF WriteAway
  <2>6. \A g, w : g = gone => JobAway(j.then, Dead(drive), g, w)
    BY <2>2, <2>5, ThenJob
  <2>7. j.then.at # "write"
    BY <2>2 DEF WriteThen, Busy
  <2>8. \A i : Deletes(j, i) => Deletes(j.then, i)
    BY <2>1 DEF Deletes
  <2>9. ASSUME NEW i, Buries(j, i)
        PROVE  Len(j.batch) = 1 /\ j.batch[1].id = i /\ j.batch[1].deleted
    <3>1. /\ j.batch = <<j.then.of>> /\ j.then.of.deleted /\ j.then.of.id = i
      BY <2>1, <2>4, <2>9 DEF Buries, Deletes, WriteAway
    <3> HIDE DEF j
    <3>2. Len(j.batch) = 1 /\ j.batch[1] = j.then.of
      BY <3>1
    <3> QED BY <3>1, <3>2
  <2> QED BY <2>1, <2>2, <2>5, <2>6, <2>7, <2>8, <2>9, CacheItemsAway
<1>2. CASE dropCursor(c)
  <2> DEFINE cursor == [link |-> NoLink, next |-> NoToken]
             b == <<>>
  <2>1. /\ job[c].at = "scanned" /\ UNCHANGED driveVars
        /\ cacheItems(c, b, cursor, Primed, Idle)
    BY <1>2 DEF dropCursor
  <2>2. /\ BatchOK(b, Top(drive))
        /\ HandAway(b, Dead(drive), gone, IF "deletion" \in job[c].late THEN {} ELSE Written)
    BY EmptyBatch, EmptyHand
  <2>3. Primed.at = "prime"
    BY DEF Primed
  <2>4. \A g, w : JobAway(Primed, Dead(drive), g, w)
    BY <2>3, NoneInHand
  <2>5. \A i : ~Deletes(job[c], i) /\ ~Buries(job[c], i)
    BY <2>1 DEF Deletes, Buries
  <2>6. b = <<>>
    OBVIOUS
  <2> HIDE DEF b, cursor
  <2> QED BY <2>1, <2>2, <2>3, <2>4, <2>5, <2>6, CacheItemsAway
<1> QED BY <1>1, <1>2

(* The calls of the cache together.                                         *)
LEMMA CacheCallAway ==
  ASSUME CInv, AllAway, QuietStep, DriveAssumption, PageAssumption, NEW c \in Call,
         CacheCall(c), Follow(c)
  PROVE  AllAway'
<1>1. CASE cacheRebuild(c)
  BY <1>1, RoundsAway, ClearAway DEF cacheRebuild
<1> QED BY <1>1, RequestAway, RoundsAway, IndexAway, DeleteAway, ScanAway, CollectAway,
           WriteAwayStep DEF CacheCall

------------------------------------------------------------------------------
(* Calls that find and read.                                                *)
LEMMA ReadOnAway ==
  ASSUME CInv, AllAway, NEW c \in Call, job[c].at \notin {"write", "audit"},
         StaysCached, UNCHANGED <<crawled, gone>>, NEW next, GoOn(c, next),
         JobAway(next, Dead(drive), gone, Written)
  PROVE  GoneAway' /\ JobsAway' /\ Recorded' \subseteq Recorded /\ (UNCHANGED remembered => AllAway')
<1> DEFINE why == "change"
<1>1. /\ UNCHANGED <<cache, index, crawled, gone>> /\ Dead(drive') = Dead(drive)
      /\ GoOn(c, next) \/ GoOnLate(c, next, why)
  BY DEF StaysCached, driveVars
<1> HIDE DEF why
<1>2. Dead(drive) \subseteq Dead(drive') /\ DOMAIN gone' \cap DOMAIN index' \subseteq DOMAIN index
  BY <1>1
<1>3. \A i \in DOMAIN gone' : i \in DOMAIN gone /\ gone'[i] = gone[i]
  BY <1>1
<1>4. \A i \in DOMAIN crawled' : crawled'[i].id = i /\ ~crawled'[i].deleted
  BY <1>1 DEF AllAway, GoneAway
<1>5. GoneAway' /\ JobsAway' /\ (UNCHANGED remembered => AnswersAway')
  BY <1>1, <1>2, <1>3, <1>4, AwayStep DEF AllAway
<1>6. \A i \in Recorded' : i \in Recorded \/ Deletes(job[c], i)
  BY <1>1, <1>3, RecordedBy DEF AllAway
<1>7. \A i : ~Deletes(job[c], i)
  BY DEF Deletes
<1> QED BY <1>5, <1>6, <1>7 DEF AllAway

LEMMA RecordedWritten == Recorded \subseteq Written
BY DEF Recorded, Written, Buries

LEMMA AuditAway ==
  ASSUME CInv, AllAway, NEW c \in Call, writeMutationAudit(c) PROVE AllAway'
<1> DEFINE why == "change"
<1>1. /\ job[c].at = "audit" /\ GoOn(c, Idle) /\ remembered' = [k \in Key |-> Nothing]
      /\ UNCHANGED <<cache, index, crawled, gone>> /\ Dead(drive') = Dead(drive)
  BY DEF writeMutationAudit, Answer, invalidateChatgptSnapshots, StaysCached, driveVars
<1>2. GoOn(c, Idle) \/ GoOnLate(c, Idle, why)
  BY <1>1
<1> HIDE DEF why
<1>3. \A i \in DOMAIN gone' : i \in DOMAIN gone /\ gone'[i] = gone[i]
  BY <1>1
<1>4. Written' \subseteq Written
  <2>1. \A i \in Written' : i \in Written \/ Buries(job[c], i)
    BY <1>2, <1>3, RecordedBy DEF AllAway
  <2> QED BY <1>1, <2>1 DEF Buries
<1>5. Dead(drive) \subseteq Dead(drive')
  BY <1>1
<1>6. JobAway(Idle, Dead(drive'), gone', Written')
  BY IdleAway
<1>7. JobsAway'
  BY <1>2, <1>3, <1>4, <1>5, <1>6, OthersAway DEF AllAway
<1>8. GoneAway'
  BY <1>1, <1>4 DEF AllAway, GoneAway
<1>9. AnswersAway'
  BY <1>1 DEF AnswersAway, Nothing
<1> QED BY <1>7, <1>8, <1>9 DEF AllAway

LEMMA RememberAway ==
  ASSUME CInv, AllAway, NEW c \in Call, remember(c) PROVE AllAway'
<1> DEFINE j == job[c]
           late == DOMAIN gone \ j.knew
<1>1. /\ j.at = "remember" /\ GoOn(c, Idle) /\ StaysCached /\ UNCHANGED <<crawled, gone>>
      /\ remembered' = [remembered EXCEPT ![j.key] =
           [shown |-> j.shown, late |-> late, kept |-> TRUE]]
  BY DEF remember, Answer
<1>2. AnswerAway(j, Dead(drive), gone)
  BY <1>1 DEF AllAway, JobsAway, JobAway, ThenAway
<1>3. GoneAway' /\ JobsAway' /\ Recorded' \subseteq Recorded
  <2>1. JobAway(Idle, Dead(drive), gone, Written)
    BY IdleAway
  <2>2. j.at \notin {"write", "audit"}
    BY <1>1
  <2> QED BY <1>1, <2>1, <2>2, ReadOnAway
<1>4. AnswersAway'
  <2>1. DOMAIN remembered' = Key
    BY <1>1 DEF AllAway, AnswersAway
  <2>2. ASSUME NEW k \in Key, NEW i \in Recorded', i \in remembered'[k].shown
        PROVE  i \in remembered'[k].late
    <3>1. i \in Recorded /\ i \in DOMAIN gone
      BY <1>3 DEF Recorded
    <3>2. CASE k = j.key
      <4>1. remembered'[k].shown = j.shown /\ remembered'[k].late = late
        BY <1>1, <3>2 DEF AllAway, AnswersAway
      <4>2. i \notin j.knew
        BY <1>2, <2>2, <3>1, <4>1 DEF AnswerAway
      <4> QED BY <3>1, <4>1, <4>2
    <3>3. CASE k # j.key
      <4>1. remembered'[k] = remembered[k]
        BY <1>1, <3>3 DEF AllAway, AnswersAway
      <4> QED BY <2>2, <3>1, <4>1 DEF AllAway, AnswersAway
    <3> QED BY <3>2, <3>3
  <2> QED BY <2>1, <2>2 DEF AnswersAway
<1> QED BY <1>3, <1>4 DEF AllAway

LEMMA RememberingAway ==
  ASSUME AllAway, NEW key, NEW shown, \A i \in shown : i \notin Dead(drive)
  PROVE  /\ Remembering(key, shown).at = "remember"
         /\ ThenAway(Remembering(key, shown), Dead(drive), gone)
<1> DEFINE r == Remembering(key, shown)
<1>1. /\ r.at = "remember" /\ Carries(r, {"key", "shown", "knew"})
      /\ r.shown = shown /\ r.knew = Recorded
  BY DEF Remembering, Carries
<1> HIDE DEF r
<1>2. Recorded \subseteq Dead(drive)
  BY DEF AllAway, GoneAway, Recorded
<1>3. ThenAway(r, Dead(drive), gone)
  BY <1>1, <1>2 DEF ThenAway, AnswerAway
<1> QED BY <1>1, <1>3 DEF r

LEMMA ListAway ==
  ASSUME CInv, AllAway, DriveAssumption, NEW c \in Call, chatgptList(c) PROVE AllAway'
<1>1. PICK f : GoOn(c, Writing(ChildrenOf(f), Keep, Remembering(f, Siblings(f))))
  BY DEF chatgptList
<1>2. StaysCached /\ UNCHANGED <<crawled, gone, remembered>> /\ job[c].at = "idle"
  BY DEF chatgptList, readVars, Start
<1> DEFINE b == ChildrenOf(f)
           s == Siblings(f)
           r == Remembering(f, s)
<1>3. HandAway(b, Dead(drive), gone, Written)
  BY ChildrenAway DEF AllAway
<1>4. \A i \in s : i \notin Dead(drive)
  BY DEF Siblings, Dead, Live
<1>5. GoOn(c, Writing(b, Keep, r))
  BY <1>1
<1> HIDE DEF b, s
<1>6. r.at = "remember" /\ ThenAway(r, Dead(drive), gone)
  BY <1>4, RememberingAway
<1> HIDE DEF r
<1>7. JobAway(Writing(b, Keep, r), Dead(drive), gone, Written)
  BY <1>3, <1>6, JustWritingAway
<1> QED BY <1>2, <1>5, <1>7, ReadOnAway

(* Hits are not deleted, and none is without a tombstone that has one.      *)
LEMMA HitsAway ==
  ASSUME CInv, GoneAway, DriveAssumption, NEW found \in SUBSET DOMAIN crawled, NEW tombs
  PROVE  \A k \in DOMAIN LiveHits(found, tombs) :
           /\ ~LiveHits(found, tombs)[k].deleted
           /\ LiveHits(found, tombs)[k].id \notin DOMAIN tombs
<1> DEFINE S == {i \in found : ~isSearchTombstoned(crawled[i], tombs)}
           ids == SetToSeq(S)
           b == [k \in DOMAIN ids |-> crawled[ids[k]]]
<1>1. S \subseteq DOMAIN crawled /\ S \in SUBSET Item
  BY DEF CInv, CrawledOK
<1>2. LiveHits(found, tombs) = b
  BY DEF LiveHits, Hits
<1>3. \A i \in S : /\ ~crawled[i].deleted /\ crawled[i].id = i
                   /\ i \notin DOMAIN tombs
  BY <1>1 DEF GoneAway, isSearchTombstoned
<1> HIDE DEF S
<1>4. ids \in Seq(S)
  BY <1>1, FS_Subset, SeqOfSet DEF DriveAssumption
<1> HIDE DEF ids
<1>5. DOMAIN b = DOMAIN ids /\ \A k \in DOMAIN b : ids[k] \in S /\ b[k] = crawled[ids[k]]
  BY <1>4, LenProperties, ElementOfSeq
<1> HIDE DEF b
<1>6. \A k \in DOMAIN b : ~b[k].deleted /\ b[k].id \notin DOMAIN tombs
  BY <1>3, <1>5
<1> QED BY <1>2, <1>6

LEMMA NotBrought ==
  ASSUME NEW b, NEW w, \A k \in DOMAIN b : ~b[k].deleted /\ b[k].id \notin w, NEW dead, NEW g
  PROVE  HandAway(b, dead, g, w)
BY DEF HandAway, ElementAway

LEMMA WrittenTombs == ASSUME CInv, AllAway PROVE Written \subseteq DOMAIN cache.tombs
BY DEF AllAway, GoneAway, Buried

LEMMA SearchAway ==
  ASSUME CInv, AllAway, DriveAssumption, NEW c \in Call, search(c) PROVE AllAway'
<1>1. PICK found \in SUBSET DOMAIN crawled :
        LET batch == prepareSearchItems(found, cache.tombs) IN
        GoOn(c, Finish(batch, Keep, Overtaken(batch)))
  BY DEF search
<1>2. StaysCached /\ UNCHANGED <<crawled, gone, remembered>> /\ job[c].at = "idle"
  BY DEF search, readVars, Start
<1> DEFINE b == prepareSearchItems(found, cache.tombs)
           late == Overtaken(b)
           live == LiveHits(found, cache.tombs)
<1>3. BatchOK(b, Top(drive))
  BY PreparedBatch DEF CInv, StoredOK
<1>4. \A k \in DOMAIN live : ~live[k].deleted /\ live[k].id \notin DOMAIN cache.tombs
  BY HitsAway DEF AllAway
<1>5. b = [k \in DOMAIN live |-> preferCachedSearchItem(live[k])]
  BY DEF prepareSearchItems
<1>6. \A x : preferCachedSearchItem(x).id = x.id
             /\ (~x.deleted => ~preferCachedSearchItem(x).deleted)
  BY DEF preferCachedSearchItem
<1>9. GoOn(c, Finish(b, Keep, late))
  BY <1>1
<1> HIDE DEF b, late, live
<1>7. \A k \in DOMAIN b : ~b[k].deleted /\ b[k].id \notin Written
  BY <1>4, <1>5, <1>6, WrittenTombs
<1> DEFINE a == IF "deletion" \in late THEN {} ELSE Written
<1>8. HandAway(b, Dead(drive), gone, a)
  BY <1>7, NotBrought
<1> HIDE DEF a
<1>10. JobAway(Finish(b, Keep, late), Dead(drive), gone, Written)
  BY <1>3, <1>8, FinishAway DEF a
<1> QED BY <1>2, <1>9, <1>10, ReadOnAway

LEMMA FindingAway ==
  ASSUME CInv, AllAway, NEW by PROVE JobAway(Finding(by), Dead(drive), gone, Written)
<1> DEFINE f == Finding(by)
<1>1. /\ f.at = "find" /\ Carries(f, {"by", "tombs", "knew", "shown", "got"}) /\ f.got = <<>>
      /\ f.tombs = cache.tombs /\ f.knew = Recorded /\ f.late = {}
      /\ f.shown = DOMAIN cache.items \cup DOMAIN index
  BY DEF Finding, Carries
<1> HIDE DEF f
<1>2. \A i \in Recorded : /\ i \in Dead(drive)
                          /\ i \notin DOMAIN cache.items /\ i \notin DOMAIN index
                          /\ i \in DOMAIN cache.tombs
  <2>1. Recorded \subseteq Dead(drive)
    BY DEF AllAway, GoneAway, Recorded
  <2> QED BY <2>1, RecordedWritten DEF AllAway, GoneAway, Buried
<1>3. FindAway(f, Dead(drive), gone, Written)
  BY <1>1, <1>2, WrittenTombs, EmptyHand DEF FindAway
<1>4. JobAway(f, Dead(drive), gone, Written)
  BY <1>1, <1>3 DEF JobAway, ThenAway
<1> QED BY <1>4 DEF f

LEMMA FindsAway ==
  ASSUME CInv, AllAway, NEW c \in Call, find(c) \/ chatgptSearch(c) \/ revalidate(c)
  PROVE  AllAway'
<1>1. StaysCached /\ UNCHANGED <<crawled, gone, remembered>> /\ job[c].at = "idle"
  BY DEF find, chatgptSearch, revalidate, readVars, Start
<1>2. ASSUME NEW by, GoOn(c, Finding(by)) PROVE AllAway'
  BY <1>1, <1>2, FindingAway, ReadOnAway
<1>3. ASSUME NEW token, NEW persist, GoOn(c, Paging(token, persist)) PROVE AllAway'
  BY <1>1, <1>3, PagingAway, ReadOnAway
<1>4. CASE find(c) \/ chatgptSearch(c)
  BY <1>2, <1>4 DEF find, chatgptSearch
<1>5. CASE revalidate(c)
  BY <1>2, <1>3, <1>5, RoundAway DEF revalidate
<1> QED BY <1>4, <1>5

LEMMA FoundAway ==
  ASSUME CInv, AllAway, NEW c \in Call, job[c].at = "find"
  PROVE  /\ Found(c).at # "audit" /\ ThenAway(Found(c), Dead(drive), gone)
         /\ JobAway(Found(c), Dead(drive), gone, Written)
<1> DEFINE j == job[c]
<1>1. FindAway(j, Dead(drive), gone, IF "deletion" \in j.late THEN {} ELSE Written)
  BY DEF AllAway, JobsAway, JobAway
<1>2. Found(c).at # "audit" /\ ThenAway(Found(c), Dead(drive), gone)
  <2>1. CASE j.by = "chatgpt"
    <3> DEFINE shown == j.shown
               knew == j.knew
               r == [Remembering(Query, shown) EXCEPT !.knew = knew]
    <3>1. Found(c) = r
      BY <2>1 DEF Found
    <3> HIDE DEF shown, knew
    <3>2. /\ r.at = "remember" /\ Carries(r, {"key", "shown", "knew"})
          /\ r.shown = shown /\ r.knew = knew
      BY DEF Remembering, Carries
    <3> HIDE DEF r
    <3>3. AnswerAway(r, Dead(drive), gone)
      BY <1>1, <3>2 DEF FindAway, AnswerAway, shown, knew
    <3> QED BY <3>1, <3>2, <3>3 DEF ThenAway
  <2>2. CASE j.by = "tool"
    <3>1. Found(c).at = "confirm"
      BY <2>2 DEF Found
    <3> QED BY <3>1, NoneInHand
  <2>3. CASE j.by \notin {"chatgpt", "tool"}
    <3>1. Found(c) = Idle
      BY <2>3 DEF Found
    <3> QED BY <3>1, IdleAway
  <2> QED BY <2>1, <2>2, <2>3
<1>3. WriteThen(Found(c))
  BY FoundKept, ScanThenWrites
<1> QED BY <1>2, <1>3, ThenJob

------------------------------------------------------------------------------
LEMMA TermAway ==
  ASSUME CInv, AllAway, DriveAssumption, NEW c \in Call, executeSearchTerm(c) PROVE AllAway'
<1> DEFINE j == job[c]
           a == IF "deletion" \in j.late THEN {} ELSE Written
<1>1. PICK found \in SUBSET DOMAIN crawled :
        LET hits == LiveHits(found, j.tombs) IN
        /\ j.at = "find"
        /\ GoOn(c, [j EXCEPT !.got = hits,
                      !.shown = @ \cup {hits[k].id : k \in DOMAIN hits},
                      !.late = @ \cup Overtaken(hits)])
  BY DEF executeSearchTerm
<1>2. StaysCached /\ UNCHANGED <<crawled, gone, remembered>>
  BY DEF executeSearchTerm, readVars
<1>3. FindAway(j, Dead(drive), gone, a)
  BY <1>1 DEF AllAway, JobsAway, JobAway
<1>4. Carries(j, {"at", "late", "by", "tombs", "knew", "shown", "got"})
  BY <1>1, <1>3, InHand DEF JobKept, FindAway, Carries
<1> DEFINE hits == LiveHits(found, j.tombs)
           ids  == {hits[k].id : k \in DOMAIN hits}
           show == j.shown \cup ids
           why  == j.late \cup Overtaken(hits)
           n    == [j EXCEPT !.got = hits, !.shown = show, !.late = why]
<1>5. \A k \in DOMAIN hits : ~hits[k].deleted /\ hits[k].id \notin DOMAIN j.tombs
  BY HitsAway DEF AllAway
<1>6. GoOn(c, n) /\ j.at \notin {"write", "audit"}
  BY <1>1
<1>7. j.late \subseteq why
  OBVIOUS
<1> HIDE DEF hits
<1>8. \A i \in ids : i \notin DOMAIN j.tombs
  BY <1>5
<1>9. show = j.shown \cup ids
  OBVIOUS
<1> HIDE DEF ids, show, why
<1>10. DOMAIN n = DOMAIN j /\ \A f \in DOMAIN j \ {"got", "shown", "late"} : n[f] = j[f]
  OBVIOUS
<1>11. n.got = hits /\ n.shown = show /\ n.late = why
  BY <1>4 DEF Carries
<1> HIDE DEF n
<1>12. /\ n.at = "find" /\ n.tombs = j.tombs /\ n.knew = j.knew
       /\ Carries(n, {"by", "tombs", "knew", "shown", "got"})
  BY <1>1, <1>4, <1>10 DEF Carries
<1> DEFINE b == IF "deletion" \in n.late THEN {} ELSE Written
<1>13. b \subseteq a
  BY <1>7, <1>11
<1>14. a \subseteq DOMAIN j.tombs
  BY <1>3 DEF FindAway
<1> HIDE DEF a
<1>15. b \subseteq DOMAIN j.tombs
  BY <1>13, <1>14
<1> HIDE DEF b
<1>16. HandAway(hits, Dead(drive), gone, b)
  BY <1>5, <1>15, NotBrought
<1>17. \A i \in j.knew : i \in Dead(drive) /\ (i \in DOMAIN gone => i \notin show /\ i \in DOMAIN j.tombs)
  BY <1>3, <1>8, <1>9 DEF FindAway
<1>18. FindAway(n, Dead(drive), gone, b)
  BY <1>11, <1>12, <1>15, <1>16, <1>17 DEF FindAway
<1>19. JobAway(n, Dead(drive), gone, Written)
  BY <1>12, <1>18 DEF JobAway, ThenAway, b
<1> QED BY <1>2, <1>6, <1>19, ReadOnAway

LEMMA FoundsAway ==
  ASSUME CInv, AllAway, NEW c \in Call, localFastPath(c) \/ cacheFound(c) PROVE AllAway'
<1> DEFINE f == Found(c)
<1>1. StaysCached /\ UNCHANGED <<crawled, gone, remembered>> /\ job[c].at = "find"
  BY DEF localFastPath, cacheFound, readVars
<1>2. /\ f.at # "audit" /\ ThenAway(f, Dead(drive), gone)
      /\ JobAway(f, Dead(drive), gone, Written)
  BY <1>1, FoundAway
<1>3. CASE localFastPath(c)
  BY <1>1, <1>2, <1>3, ReadOnAway DEF localFastPath
<1>4. CASE cacheFound(c)
  <2>1. PICK then \in {f, Scanning(f)} :
          \/ GoOn(c, then)
          \/ GoOn(c, [Writing(Deduplicated(job[c].got), Keep, then)
                        EXCEPT !.late = job[c].late])
    BY <1>4 DEF cacheFound
  <2> HIDE DEF f
  <2>2. /\ Scanning(f).at = "scan" /\ ThenAway(Scanning(f), Dead(drive), gone)
        /\ JobAway(Scanning(f), Dead(drive), gone, Written)
    BY <1>2, ScanningAway DEF Scanning
  <2>3. /\ then.at # "audit" /\ ThenAway(then, Dead(drive), gone)
        /\ JobAway(then, Dead(drive), gone, Written)
    BY <1>2, <2>2
  <2>4. CASE GoOn(c, then)
    BY <1>1, <2>3, <2>4, ReadOnAway
  <2>5. CASE GoOn(c, [Writing(Deduplicated(job[c].got), Keep, then)
                        EXCEPT !.late = job[c].late])
    <3> DEFINE b == Deduplicated(job[c].got)
               late == job[c].late
               k == [Writing(b, Keep, then) EXCEPT !.late = late]
               a == IF "deletion" \in late THEN {} ELSE Written
    <3>1. BatchOK(job[c].got, Top(drive))
      BY <1>1, InHand DEF JobKept
    <3>2. HandAway(job[c].got, Dead(drive), gone, a)
      BY <1>1 DEF AllAway, JobsAway, JobAway, FindAway
    <3>3. HandAway(b, Dead(drive), gone, a)
      BY <3>1, <3>2, DeduplicatedAway
    <3>4. GoOn(c, k)
      BY <2>5
    <3> HIDE DEF b, late
    <3>5. JobAway(k, Dead(drive), gone, Written)
      BY <2>3, <3>3, WritingAway
    <3> QED BY <1>1, <3>4, <3>5, ReadOnAway
  <2> QED BY <2>1, <2>4, <2>5
<1> QED BY <1>3, <1>4

LEMMA OneAway ==
  ASSUME AllAway, NEW i \in Item, Live(i), NEW then, then.at # "audit",
         ThenAway(then, Dead(drive), gone)
  PROVE  JobAway(Writing(<<ShownWithPath(i)>>, Keep, then), Dead(drive), gone, Written)
<1> DEFINE b == <<ShownWithPath(i)>>
<1>1. HandAway(b, Dead(drive), gone, Written)
  BY OneLive DEF AllAway
<1> HIDE DEF b
<1>2. JobAway(Writing(b, Keep, then), Dead(drive), gone, Written)
  BY <1>1, JustWritingAway
<1> QED BY <1>2 DEF b

LEMMA ConfirmAway ==
  ASSUME CInv, AllAway, NEW c \in Call, confirmCachedFindCandidates(c) PROVE AllAway'
<1>1. PICK then \in {Idle, Scanning(Idle)} :
        \/ \E i \in DOMAIN cache.items :
             Live(i) /\ GoOn(c, Writing(<<ShownWithPath(i)>>, Keep, then))
        \/ GoOn(c, then)
  BY DEF confirmCachedFindCandidates
<1>2. StaysCached /\ UNCHANGED <<crawled, gone, remembered>> /\ job[c].at = "confirm"
  BY DEF confirmCachedFindCandidates, readVars
<1>3. /\ Scanning(Idle).at = "scan" /\ ThenAway(Scanning(Idle), Dead(drive), gone)
      /\ JobAway(Scanning(Idle), Dead(drive), gone, Written)
  BY IdleAway, ScanningAway DEF Scanning
<1>4. /\ then.at # "audit" /\ ThenAway(then, Dead(drive), gone)
      /\ JobAway(then, Dead(drive), gone, Written)
  BY <1>3, IdleAway
<1>5. DOMAIN cache.items \subseteq Item
  BY DEF CInv, StoredOK, ItemsOK, Top
<1>6. CASE GoOn(c, then)
  BY <1>2, <1>4, <1>6, ReadOnAway
<1>7. ASSUME NEW i \in Item, Live(i), GoOn(c, Writing(<<ShownWithPath(i)>>, Keep, then))
      PROVE  AllAway'
  <2>1. JobAway(Writing(<<ShownWithPath(i)>>, Keep, then), Dead(drive), gone, Written)
    BY <1>4, <1>7, OneAway
  <2> QED BY <1>2, <1>7, <2>1, ReadOnAway
<1> QED BY <1>1, <1>5, <1>6, <1>7

LEMMA StillAway ==
  ASSUME AllAway, UNCHANGED <<driveVars, cache, index, job, crawled, remembered, gone>>
  PROVE  AllAway'
BY DEF AllAway, GoneAway, AnswersAway, JobsAway, Written, Recorded, driveVars

(* Fetches have nothing in hand that was deleted.                           *)
FetchAt == {"idle", "info", "fetch", "deliver", "warm"}

LEMMA FetchAway ==
  ASSUME NEW n, n.at \in FetchAt, NEW dead, NEW g, NEW w
  PROVE  n.at # "audit" /\ ThenAway(n, dead, g) /\ JobAway(n, dead, g, w)
BY NoneInHand DEF FetchAt

LEMMA FetchesAway ==
  ASSUME CInv, AllAway, NEW c \in Call,
         rememberedChatgptFetchSnapshot(c) \/ chatgptFetch(c) \/ getInfo(c)
           \/ extractChatgptFetchSnapshot(c) \/ deliver(c)
  PROVE  AllAway'
<1>1. StaysCached /\ UNCHANGED <<crawled, gone, remembered>> /\ job[c].at \in FetchAt
  BY DEF rememberedChatgptFetchSnapshot, chatgptFetch, getInfo, extractChatgptFetchSnapshot,
         deliver, readVars, Start, FetchAt
<1>2. job[c].at \notin {"write", "audit"}
  BY <1>1 DEF FetchAt
<1>3. ASSUME NEW n, n.at \in FetchAt, GoOn(c, n) PROVE AllAway'
  <2>1. JobAway(n, Dead(drive), gone, Written)
    BY <1>3, FetchAway
  <2> QED BY <1>1, <1>2, <1>3, <2>1, ReadOnAway
<1>4. Idle.at \in FetchAt
  BY DEF Idle, FetchAt
<1>5. \A i, ver, entry, more : Resolved(i, ver, entry, more).at \in FetchAt
  BY DEF Resolved, FetchAt
<1>6. CASE rememberedChatgptFetchSnapshot(c)
  BY <1>1, <1>6, StillAway DEF rememberedChatgptFetchSnapshot, StaysCached
<1>7. CASE chatgptFetch(c)
  <2>1. PICK i \in Files, fresh \in BOOLEAN, more \in BOOLEAN :
          LET entry == IF i \in DOMAIN index THEN index[i] ELSE NoEntry IN
          \/ GoOn(c, Resolved(i, cache.items[i].ver, entry, more))
          \/ GoOn(c, [at |-> "info", item |-> i, entry |-> entry, more |-> more,
                      late |-> {}])
    BY <1>7 DEF chatgptFetch
  <2> DEFINE entry == IF i \in DOMAIN index THEN index[i] ELSE NoEntry
             info == [at |-> "info", item |-> i, entry |-> entry, more |-> more, late |-> {}]
             ver == cache.items[i].ver
  <2>2. info.at \in FetchAt
    BY DEF FetchAt
  <2>3. GoOn(c, Resolved(i, ver, entry, more)) \/ GoOn(c, info)
    BY <2>1
  <2> HIDE DEF info, entry, ver
  <2> QED BY <1>3, <1>5, <2>2, <2>3
<1>8. CASE getInfo(c)
  <2> DEFINE i == job[c].item
             ver == drive[i].ver
             entry == job[c].entry
             more == job[c].more
             r == Resolved(i, ver, entry, more)
  <2>1. i \in Item
    BY <1>8, InHand DEF getInfo, JobKept
  <2>2. \/ GoOn(c, Idle)
        \/ Live(i) /\ GoOn(c, Writing(<<ShownWithPath(i)>>, Keep, r))
    BY <1>8 DEF getInfo, Answer
  <2>4. r.at \in FetchAt
    BY <1>5
  <2> HIDE DEF r, i
  <2>3. CASE Live(i) /\ GoOn(c, Writing(<<ShownWithPath(i)>>, Keep, r))
    <3>1. r.at # "audit" /\ ThenAway(r, Dead(drive), gone)
      BY <2>4, FetchAway
    <3>2. JobAway(Writing(<<ShownWithPath(i)>>, Keep, r), Dead(drive), gone, Written)
      BY <2>1, <2>3, <3>1, OneAway
    <3> QED BY <1>1, <1>2, <2>3, <3>2, ReadOnAway
  <2> QED BY <1>3, <1>4, <2>2, <2>3
<1>9. CASE extractChatgptFetchSnapshot(c)
  <2>1. GoOn(c, Idle) \/ \E n : n.at = "deliver" /\ GoOn(c, n)
    BY <1>9 DEF extractChatgptFetchSnapshot, Answer
  <2> QED BY <1>3, <1>4, <2>1 DEF FetchAt
<1>10. CASE deliver(c)
  <2> DEFINE j == job[c]
             n == [j EXCEPT !.at = "warm"]
  <2>1. GoOn(c, Idle) \/ GoOn(c, n)
    BY <1>10 DEF deliver, Answer
  <2>2. Carries(j, {"at"})
    BY InHand DEF JobKept, Carries
  <2>3. n.at \in FetchAt
    BY <2>2 DEF Carries, FetchAt
  <2> HIDE DEF n
  <2> QED BY <1>3, <1>4, <2>1, <2>3
<1> QED BY <1>6, <1>7, <1>8, <1>9, <1>10

(* A text that goes into the index: what it is of is not accounted for any  *)
(* more.                                                                    *)
LEMMA WarmAway ==
  ASSUME CInv, AllAway, NEW c \in Call, warmContentIndexFromChatgptSnapshots(c) PROVE AllAway'
<1> DEFINE why == "change"
<1>1. /\ job[c].at = "warm" /\ GoOn(c, Idle) /\ UNCHANGED <<cache, crawled, remembered>>
      /\ gone' = Restrict(gone, DOMAIN gone \ NewlyIndexed) /\ Dead(drive') = Dead(drive)
  BY DEF warmContentIndexFromChatgptSnapshots, Answer, driveVars
<1>2. GoOn(c, Idle) \/ GoOnLate(c, Idle, why)
  BY <1>1
<1> HIDE DEF why
<1>3. \A i \in DOMAIN gone' : i \in DOMAIN gone /\ gone'[i] = gone[i] /\ i \notin NewlyIndexed
  BY <1>1 DEF Restrict
<1>4. DOMAIN gone' \cap DOMAIN index' \subseteq DOMAIN index
  BY <1>3 DEF NewlyIndexed
<1>5. \A i \in DOMAIN crawled' : crawled'[i].id = i /\ ~crawled'[i].deleted
  BY <1>1 DEF AllAway, GoneAway
<1>6. JobAway(Idle, Dead(drive), gone, Written)
  BY IdleAway
<1>7. Dead(drive) \subseteq Dead(drive') /\ job[c].at \notin {"write", "audit"}
  BY <1>1
<1>8. GoneAway' /\ JobsAway' /\ (UNCHANGED remembered => AnswersAway')
  BY <1>1, <1>2, <1>3, <1>4, <1>5, <1>6, <1>7, AwayStep DEF AllAway
<1> QED BY <1>1, <1>8 DEF AllAway

LEMMA ReadCallAway ==
  ASSUME CInv, AllAway, DriveAssumption, NEW c \in Call, ReadCall(c) PROVE AllAway'
BY AuditAway, RememberAway, ListAway, SearchAway, FindsAway, TermAway, FoundsAway, ConfirmAway,
   FetchesAway, WarmAway DEF ReadCall

(* The drive changes: what calls have in hand is late.                      *)
LEMMA OvertakeAway ==
  ASSUME CInv, AllAway, Advances, Overtake, UNCHANGED readVars PROVE AllAway'
<1>1. UNCHANGED <<cache, index, crawled, remembered, gone>>
  BY DEF Overtake, readVars
<1>2. Dead(drive) \subseteq Dead(drive')
  BY DEF Advances, Dead
<1> DEFINE why == "change"
<1>3. \A x \in Call : job'[x] = Late(job[x], why)
  BY DEF Overtake
<1> HIDE DEF why
<1>4. ASSUME NEW x \in Call, NEW i
      PROVE  (Deletes(job'[x], i) <=> Deletes(job[x], i)) /\ (Buries(job'[x], i) <=> Buries(job[x], i))
  <2>1. JobKept(job[x], drive, clock, handed, mixed) /\ JobAway(job[x], Dead(drive), gone, Written)
    BY InHand DEF AllAway, JobsAway
  <2> QED BY <1>3, <2>1, DeletesLate
<1>5. Written' = Written /\ Recorded' = Recorded
  BY <1>1, <1>4 DEF Written, Recorded
<1>6. GoneAway'
  BY <1>1, <1>2, <1>5 DEF AllAway, GoneAway
<1>7. AnswersAway'
  BY <1>1, <1>5 DEF AllAway, AnswersAway
<1>8. ASSUME NEW x \in Call PROVE JobAway(job'[x], Dead(drive'), gone', Written')
  <2>1. JobKept(job[x], drive, clock, handed, mixed) /\ JobAway(job[x], Dead(drive), gone, Written)
    BY InHand DEF AllAway, JobsAway
  <2>2. JobAway(Late(job[x], why), Dead(drive), gone, Written')
    BY <1>5, <2>1, AwayLate
  <2>3. \A i \in DOMAIN gone' : i \in DOMAIN gone /\ gone'[i] = gone[i]
    BY <1>1
  <2> QED BY <1>2, <1>3, <2>2, <2>3, AwayGrows
<1> QED BY <1>6, <1>7, <1>8 DEF AllAway, JobsAway

(* Time passes.                                                             *)
LEMMA TimeAway == ASSUME CInv, AllAway, TimePasses PROVE AllAway'
<1>1. UNCHANGED <<driveVars, cache, index, job>>
  BY DEF TimePasses, cacheVars
<1>2. CASE Forget
  <2>1. UNCHANGED <<crawled, gone>>
    BY <1>2 DEF Forget
  <2>2. GoneAway' /\ JobsAway' /\ Recorded' = Recorded
    BY <1>1, <2>1 DEF AllAway, GoneAway, JobsAway, Written, Recorded, driveVars
  <2>3. remembered' = remembered \/ \E k \in Key : remembered' = [remembered EXCEPT ![k] = Nothing]
    BY <1>2 DEF Forget
  <2>4. AnswersAway'
    BY <2>2, <2>3 DEF AllAway, AnswersAway, Nothing
  <2> QED BY <2>2, <2>4 DEF AllAway
<1>3. ASSUME NEW i \in Item, Crawl(i) PROVE AllAway'
  <2>1. /\ UNCHANGED <<remembered, gone>>
        /\ crawled' = [j \in (DOMAIN crawled \ {i}) \cup {x \in {i} : Live(x)} |->
                         IF j = i THEN ShownWithPath(i) ELSE crawled[j]]
    BY <1>3 DEF Crawl
  <2>2. AnswersAway' /\ JobsAway' /\ Written' = Written
    BY <1>1, <2>1 DEF AllAway, AnswersAway, JobsAway, Written, Recorded, driveVars
  <2>3. Live(i) => ShownWithPath(i).id = i /\ ~ShownWithPath(i).deleted
    BY DEF ShownWithPath, Shown
  <2>4. \A j \in DOMAIN crawled' : crawled'[j].id = j /\ ~crawled'[j].deleted
    <3> DEFINE x == ShownWithPath(i)
    <3>1. Live(i) => x.id = i /\ ~x.deleted
      BY <2>3
    <3> HIDE DEF x
    <3>2. \A j \in DOMAIN crawled' : (j = i /\ Live(i) /\ crawled'[j] = x)
                                     \/ (j \in DOMAIN crawled /\ crawled'[j] = crawled[j])
      BY <2>1 DEF x
    <3> QED BY <3>1, <3>2 DEF AllAway, GoneAway
  <2>5. GoneAway'
    BY <1>1, <2>1, <2>2, <2>4 DEF AllAway, GoneAway, driveVars
  <2> QED BY <2>2, <2>5 DEF AllAway
<1> QED BY <1>2, <1>3 DEF TimePasses

------------------------------------------------------------------------------
(* Once not quiet, never quiet again.                                       *)
Louder == mixed \subseteq mixed' /\ faults' \in {faults, faults + 1}

LEMMA CacheLouder ==
  ASSUME NEW c \in Call, CacheCall(c) \/ ReadCall(c) PROVE Louder
<1>1. ASSUME getRawInfo(c) \/ list(c) \/ deleteItem(c) \/ delta(c) \/ collectPages(c)
             \/ RequestFails(c) \/ cacheRefresh(c) \/ cacheRebuild(c) \/ scan(c) \/ prime(c)
      PROVE  Louder
  BY <1>1 DEF Louder, getRawInfo, list, deleteItem, delta, collectPages, RequestFails,
              cacheRefresh, cacheRebuild, scan, prime, Start, Calls, Fails, sessionVars
<1>2. ASSUME contentIndexRefresh(c) \/ extractCandidate(c) \/ saveContentIndex(c)
             \/ officeContentSearch(c) \/ evict(c)
      PROVE  Louder
  BY <1>2 DEF Louder, contentIndexRefresh, extractCandidate, saveContentIndex,
              officeContentSearch, evict, Start, Calls, Fails, Works, sessionVars
<1>3. ASSUME NEW b, NEW u, NEW n, NEW o, cacheItems(c, b, u, n, o) PROVE Louder
  BY <1>3 DEF Louder, cacheItems, Fails, Works, sessionVars
<1>4. ASSUME Write(c) \/ dropCursor(c) PROVE Louder
  BY <1>3, <1>4 DEF Write, bestEffort, dropCursor
<1>5. ASSUME writeMutationAudit(c) \/ remember(c) \/ chatgptList(c) \/ search(c)
             \/ find(c) \/ chatgptSearch(c) \/ localFastPath(c) \/ executeSearchTerm(c)
             \/ cacheFound(c) \/ confirmCachedFindCandidates(c) \/ revalidate(c)
      PROVE  Louder
  BY <1>5 DEF Louder, writeMutationAudit, remember, chatgptList, search, find, chatgptSearch,
              localFastPath, executeSearchTerm, cacheFound, confirmCachedFindCandidates,
              revalidate, StaysCached, Start, Calls, sessionVars
<1>6. ASSUME rememberedChatgptFetchSnapshot(c) \/ chatgptFetch(c) \/ getInfo(c)
             \/ extractChatgptFetchSnapshot(c) \/ deliver(c)
             \/ warmContentIndexFromChatgptSnapshots(c)
      PROVE  Louder
  BY <1>6 DEF Louder, rememberedChatgptFetchSnapshot, chatgptFetch, getInfo,
              extractChatgptFetchSnapshot, deliver, warmContentIndexFromChatgptSnapshots,
              StaysCached, Start, Calls, Works, Fails, sessionVars
<1> QED BY <1>1, <1>2, <1>4, <1>5, <1>6 DEF CacheCall, ReadCall

LEMMA TaskFaults ==
  ASSUME NEW t \in Task, TaskStep(t) PROVE faults' \in {faults, faults + 1}
<1>1. ASSUME pollWatch(t) \/ endPoll(t) \/ fetchChanges(t) \/ markWorkspacesStale(t)
             \/ saveMarks(t) \/ savePoll(t) \/ watchStart(t) \/ addWatch(t)
             \/ watchStatus(t) \/ consumeEvents(t)
      PROVE  faults' \in {faults, faults + 1}
  BY <1>1 DEF pollWatch, endPoll, fetchChanges, markWorkspacesStale, saveMarks,
              savePoll, watchStart, addWatch, watchStatus, consumeEvents,
              Begins, Calls, Works, Fails, sessionVars
<1>2. ASSUME watchStop(t) \/ saveStop(t) \/ workspaceCreate(t) \/ copySource(t)
             \/ keepWorkspaces(t) \/ workspacePromote(t) \/ previewOrPromote(t)
             \/ putDraft(t) \/ verifyPromotion(t) \/ workspaceAbandon(t)
      PROVE  faults' \in {faults, faults + 1}
  BY <1>2 DEF watchStop, saveStop, workspaceCreate, copySource, keepWorkspaces,
              workspacePromote, previewOrPromote, putDraft, verifyPromotion,
              workspaceAbandon, Begins, Calls, Works, Fails, sessionVars
<1> QED BY <1>1, <1>2 DEF TaskStep

LEMMA NextLouder == ASSUME [Next]_vars PROVE Louder
<1>1. CASE UNCHANGED vars
  BY <1>1 DEF Louder, vars, cacheVars, sessionVars
<1>2. CASE OthersChange
  BY <1>2 DEF Louder, OthersChange, Overtake, sessionVars
<1>3. CASE TimePasses
  BY <1>3 DEF Louder, TimePasses, cacheVars, sessionVars
<1>4. CASE /\ Restart \/ \E t \in Task : TaskStep(t)
           /\ IF clock' = clock THEN UNCHANGED cacheVars ELSE Overtake
  <2>1. mixed' = mixed
    BY <1>4 DEF cacheVars, Overtake
  <2>2. faults' \in {faults, faults + 1}
    BY <1>4, TaskFaults DEF Restart, Calls
  <2> QED BY <2>1, <2>2 DEF Louder
<1> QED BY <1>1, <1>2, <1>3, <1>4, CacheLouder DEF Next

LEMMA NextAllAway ==
  ASSUME CInv, IInv, AllAway, QuietStep, [Next]_vars PROVE AllAway'
<1>1. CASE UNCHANGED vars
  BY <1>1, StillAway DEF vars, cacheVars, readVars
<1>2. CASE OthersChange
  BY <1>2, NextChange, ChangeAdvances, OvertakeAway DEF OthersChange, Next, CInv
<1>3. ASSUME NEW c \in Call, CacheCall(c), Follow(c) PROVE AllAway'
  BY <1>3, CacheCallAway, DriveAssumption, PageAssumption
<1>4. ASSUME NEW c \in Call, ReadCall(c) PROVE AllAway'
  BY <1>4, ReadCallAway, DriveAssumption
<1>5. CASE TimePasses
  BY <1>5, TimeAway
<1>6. CASE /\ Restart \/ \E t \in Task : TaskStep(t)
           /\ IF clock' = clock THEN UNCHANGED cacheVars ELSE Overtake
           /\ UNCHANGED readVars
  <2>1. Advances /\ (clock' = clock => UNCHANGED driveVars)
    BY <1>6, StaysAdvances, TaskStepChange, ChangeAdvances DEF Restart, CInv
  <2>2. CASE Overtake
    BY <1>6, <2>1, <2>2, OvertakeAway
  <2>3. CASE clock' = clock /\ UNCHANGED cacheVars
    BY <1>6, <2>1, <2>3, StillAway DEF cacheVars, readVars
  <2> QED BY <1>6, <2>2, <2>3
<1> QED BY <1>1, <1>2, <1>3, <1>4, <1>5, <1>6 DEF Next

LEMMA InitAway == ASSUME Init PROVE AwayInv
<1>1. /\ faults = 0 /\ gone = <<>> /\ job = [c \in Call |-> Idle]
      /\ remembered = [k \in Key |-> Nothing]
      /\ crawled = [i \in {j \in Item : Live(j)} |-> ShownWithPath(i)]
  BY DEF Init, SessionInit, CacheInit, ReadsInit
<1>2. DOMAIN gone = {}
  BY <1>1, EmptyBatch
<1>3. Written = {} /\ Recorded = {}
  BY <1>2 DEF Written, Recorded
<1>4. \A i \in DOMAIN crawled : crawled[i].id = i /\ ~crawled[i].deleted
  <2>1. \A i \in Item : Live(i) => ShownWithPath(i).id = i /\ ~ShownWithPath(i).deleted
    BY DEF ShownWithPath, Shown
  <2> QED BY <1>1, <2>1
<1>5. GoneAway
  BY <1>2, <1>3, <1>4 DEF GoneAway
<1>6. AnswersAway
  BY <1>1, <1>3 DEF AnswersAway
<1>7. JobsAway
  BY <1>1, IdleAway DEF JobsAway
<1> QED BY <1>1, <1>5, <1>6, <1>7 DEF AwayInv, AllAway

LEMMA NextAway == ASSUME CInv, IInv, AwayInv, [Next]_vars PROVE AwayInv'
<1>1. Louder
  BY NextLouder
<1>2. faults' \in Nat /\ (Quiet' => Quiet)
  BY <1>1 DEF Louder, AwayInv, Quiet
<1> QED BY <1>2, NextAllAway DEF AwayInv, QuietStep

(* What a call has deleted stays away: it is not in the cache, and only an  *)
(* answer that was under way when the deletion was recorded shows it,       *)
(* however calls overlap, however Graph's search index lags, and whatever   *)
(* others move and delete in between (recordSearchTombstones,               *)
(* isSearchTombstoned, writeMutationAudit). That takes a history in which   *)
(* no write failed; of an item that a call under way at a deletion put back *)
(* it says nothing from then on (Follow).                                   *)
THEOREM DeletedStays == Spec => []DeletedStaysAway
<1>1. Init => AwayInv
  BY InitAway
<1>2. CInv /\ IInv /\ AwayInv /\ [Next]_vars => AwayInv'
  BY NextAway
<1>3. AwayInv => DeletedStaysAway
  <2> SUFFICES ASSUME AllAway, NEW i \in Recorded
               PROVE  /\ i \notin DOMAIN cache.items
                      /\ \A k \in Key : i \in remembered[k].shown => i \in remembered[k].late
    BY DEF AwayInv, Quiet, DeletedStaysAway
  <2>1. Buried(cache, i, gone[i])
    BY RecordedWritten DEF AllAway, GoneAway
  <2> QED BY <2>1 DEF AllAway, AnswersAway, Buried
<1> QED BY <1>1, <1>2, <1>3, CacheInOrder, AllInOrder, PTL DEF Spec
=============================================================================
