----------------------------- MODULE CachedPaths -----------------------------
(* The functions of mcp/server.mjs that keep the items of the metadata cache *)
(* and their paths: what a batch of items from Graph does to the cache.      *)
(*                                                                          *)
(* items maps an item's identity to its name, parent, version and path; the *)
(* code's pathsByLower is the inverse of the paths and is not kept apart.   *)
(* The drive's root is known as a path root. tombs maps the items in        *)
(* searchTombstones to their paths; a tombstone's day is not over yet.      *)
EXTENDS SequencesExt

LOCAL Unknown == <<"?">>  \* the NoPath of Drive
LOCAL TheRoot == 0        \* its Root
LOCAL Under(p, q) == Len(p) < Len(q) /\ SubSeq(q, 1, Len(p)) = p

Known(items, i) == i \in DOMAIN items /\ items[i].path # Unknown

cachedParentRemotePath(items, parent) ==
  IF parent = TheRoot THEN <<>>
  ELSE IF parent \in DOMAIN items THEN items[parent].path ELSE Unknown

(* An item that comes with its path has it; else it is its parent's path    *)
(* and its name, and where the parent is not known either, its old parent's *)
(* if the parent is the same.                                               *)
resolveCachedItemPath(items, shown) ==
  LET parent == cachedParentRemotePath(items, shown.parent) IN
  CASE shown.path # Unknown -> shown.path
    [] shown.path = Unknown /\ parent # Unknown -> Append(parent, shown.name)
    [] shown.path = Unknown /\ parent = Unknown ->
         IF Known(items, shown.id) /\ items[shown.id].parent = shown.parent
         THEN Append(Front(items[shown.id].path), shown.name)
         ELSE Unknown

(* The items that go with one that goes: those whose cached path is at or   *)
(* below its path, those cached as its children, and so on from each.       *)
Descendants(items, i, path) ==
  LET near(ids) ==
        {j \in DOMAIN items :
           \/ items[j].parent \in ids
           \/ path # Unknown /\ items[j].path # Unknown
              /\ (items[j].path = path \/ Under(path, items[j].path))}
      grown[n \in 0 .. Cardinality(DOMAIN items)] ==
        IF n = 0 THEN {i} ELSE grown[n - 1] \cup near(grown[n - 1])
  IN grown[Cardinality(DOMAIN items)]

cacheRemoveItemAndDescendants(state, i, path) ==
  LET old  == IF Known(state.items, i) THEN state.items[i].path ELSE path
      gone == Descendants(state.items, i, old) \cap DOMAIN state.items
  IN [state EXCEPT !.items = Restrict(@, DOMAIN @ \ gone),
                   !.removed = @ \cup gone]

(* What goes with a deleted item gets a tombstone, the item itself with the *)
(* path that it came with.                                                  *)
recordSearchTombstones(state, shown, lost) ==
  [j \in DOMAIN state.tombs \cup lost \cup {shown.id} |->
     IF j = shown.id THEN shown.path
     ELSE IF j \in lost THEN state.items[j].path ELSE state.tombs[j]]

(* An item that is cached again loses its tombstone, and so does another    *)
(* one that was at its path.                                                *)
clearMatchingSearchTombstones(tombs, shown) ==
  Restrict(tombs, {j \in DOMAIN tombs :
    j # shown.id /\ (shown.path = Unknown \/ tombs[j] # shown.path)})

(* Mutant: no hit counts as deleted.                                        *)
NoneTombstoned(shown, tombs) == FALSE

isSearchTombstoned(shown, tombs) ==
  \E j \in DOMAIN tombs :
    \/ j = shown.id
    \/ /\ tombs[j] # Unknown /\ shown.path # Unknown
       /\ shown.path = tombs[j] \/ Under(tombs[j], shown.path)

(* Mutant: the item cached there stays.                                     *)
DisplaceNone(state, i, path) == state

(* Another item cached at a path that is now taken goes, with all below it. *)
Displace(state, i, path) ==
  LET there == {j \in DOMAIN state.items \ {i} : state.items[j].path = path} IN
  IF path = Unknown \/ there = {} THEN state
  ELSE cacheRemoveItemAndDescendants(state, CHOOSE j \in there : TRUE, path)

(* Mutant: it keeps its old path.                                           *)
DescendantsStay(items, old, new) == items

(* What is cached below a folder's old path follows the folder.             *)
updateCachedDescendantPaths(items, old, new) ==
  [j \in DOMAIN items |->
     IF old = Unknown \/ items[j].path = Unknown \/ ~Under(old, items[j].path)
     THEN items[j]
     ELSE [items[j] EXCEPT !.path =
            IF new = Unknown THEN Unknown
            ELSE new \o SubSeq(@, Len(old) + 1, Len(@))]]

(* state is the items, those removed so far and the tombstones; folders are *)
(* the items whose cached entry says that they are folders.                 *)
cachePutSimplified(state, shown, folders) ==
  IF shown.deleted
  THEN LET rest == cacheRemoveItemAndDescendants(state, shown.id, shown.path) IN
       [rest EXCEPT !.tombs = recordSearchTombstones(
          state, shown, DOMAIN state.items \ DOMAIN rest.items)]
  ELSE LET i      == shown.id
           path   == resolveCachedItemPath(state.items, shown)
           free   == Displace(state, i, path)
           moved  == /\ i \in folders /\ Known(state.items, i)
                     /\ state.items[i].path # path
           below  == IF moved
                     THEN updateCachedDescendantPaths(
                            free.items, state.items[i].path, path)
                     ELSE free.items
           entry  == [name |-> shown.name, parent |-> shown.parent,
                      ver |-> shown.ver, path |-> path]
       IN [items   |-> [j \in DOMAIN below \cup {i} |->
                          IF j = i THEN entry ELSE below[j]],
           removed |-> free.removed,
           tombs   |-> clearMatchingSearchTombstones(free.tombs, shown)]

(* Items whose parent's path has become known get theirs, pass after pass.  *)
resolveUnresolvedCachedPaths(state) ==
  LET waiting(s) == {i \in DOMAIN s.items :
                       /\ s.items[i].path = Unknown
                       /\ cachedParentRemotePath(s.items, s.items[i].parent) # Unknown}
      one(s) ==
        LET i    == CHOOSE i \in waiting(s) : TRUE
            path == Append(cachedParentRemotePath(s.items, s.items[i].parent),
                           s.items[i].name)
            free == Displace(s, i, path)
        IN [free EXCEPT !.items =
              [j \in DOMAIN @ \cup {i} |->
                 IF j = i THEN [s.items[i] EXCEPT !.path = path] ELSE @[j]]]
      pass[n \in 0 .. Cardinality(DOMAIN state.items)] ==
        IF n = 0 THEN state
        ELSE LET s == pass[n - 1] IN IF waiting(s) = {} THEN s ELSE one(s)
  IN pass[Cardinality(DOMAIN state.items)]

(* A batch, in its order: the items and tombstones afterwards and what was  *)
(* removed on the way.                                                      *)
PutAll(items, tombs, batch, folders) ==
  LET put[n \in 0 .. Len(batch)] ==
        IF n = 0 THEN [items |-> items, removed |-> {}, tombs |-> tombs]
        ELSE cachePutSimplified(put[n - 1], batch[n], folders)
  IN resolveUnresolvedCachedPaths(put[Len(batch)])
=============================================================================
