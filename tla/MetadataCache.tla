---------------------------- MODULE MetadataCache ----------------------------
(* The metadata cache and the content index of mcp/server.mjs: what the     *)
(* calls of one account do to the two files, each call in several steps,    *)
(* with other users changing the drive and the calls overlapping.           *)
(*                                                                          *)
(* A write of the cache holds its lock from the read of the file to the     *)
(* write of it, and is one step here; the copy in memory is compared with   *)
(* the file before it is used, and is not kept apart. Most writes are best  *)
(* effort: a failed one is a warning, and the call goes on. A version       *)
(* stands for the eTag, cTag, size and time of an item together. The limits *)
(* on items, entries and bytes are not reached.                             *)
EXTENDS Drive, Sessions, SequencesExt, FiniteSetsExt, Functions, CachedPaths

CONSTANTS
  Call,     \* calls in progress at once
  PageSize  \* the most items on a page of delta results

ASSUME PageAssumption == PageSize \in Nat \ {0}

VARIABLES
  cache,      \* metadata-cache.json: items, tombstones, deltaLink and
              \* deltaNextLink
  index,      \* content-index.json: per file the version its entry is
              \* labelled with, the version its text is from and its form
  job,        \* what each call in progress has read and will do next
  handed,     \* history: the last version of each item given to the cache
  mixed       \* history: why the cache may not be what the drive is: what was
              \* cached out of order, or went from it (cacheItems)

cacheVars == <<cache, index, job, handed, mixed>>

NoLink  == 0
NoToken == [upto |-> 0, rest |-> <<>>]
Empty   == [items |-> <<>>, tombs |-> <<>>, link |-> NoLink, next |-> NoToken]
Files   == Item \ Folder
Idle    == [at |-> "idle", late |-> {}]
Scanned == [at |-> "scanned", late |-> {}]
Primed  == [at |-> "prime", late |-> {}]

CacheInit ==
  /\ \/ cache = Empty
     \/ cache = [Empty EXCEPT
          !.link = clock,
          !.items = [i \in {j \in Item : Live(j)} |->
            [name |-> drive[i].name, parent |-> drive[i].parent,
             ver |-> drive[i].ver, path |-> PathOf[i]]]]
  /\ index = <<>> /\ job = [c \in Call |-> Idle]
  /\ mixed = {}
  /\ handed = [i \in Item |-> IF i \in DOMAIN cache.items THEN 1 ELSE 0]

------------------------------------------------------------------------------
(* Writes.                                                                  *)
(* The call goes on; what the others have read is late after a change of    *)
(* the drive or the cache, and after the cache was cleared.                 *)
GoOn(c, next) == job' = [job EXCEPT ![c] = next]
Late(j, why) == IF j.at = "idle" THEN j ELSE [j EXCEPT !.late = @ \cup {why}]
GoOnLate(c, next, why) ==
  job' = [x \in Call |-> IF x = c THEN next ELSE Late(job[x], why)]
Answer(c) == GoOn(c, Idle)

contentIndexEntryFresh(entry, ver) == entry.label = ver

(* Mutant: the entry of a changed item is labelled with its new version.    *)
ReconcileRelabels(batch, put) ==
  [i \in DOMAIN index \ put.removed |->
     IF i \in DOMAIN put.items THEN [index[i] EXCEPT !.label = put.items[i].ver]
     ELSE index[i]]

(* reconcileContentIndexWithMetadata: the entries of items that went and of *)
(* items cached under another version go.                                   *)
reconcile(batch, put) ==
  LET current == {batch[k].id : k \in DOMAIN batch}
                 \cup {i \in DOMAIN put.items \cap DOMAIN cache.items :
                         put.items[i] # cache.items[i]}
      stale   == {i \in DOMAIN index \cap DOMAIN put.items \cap current :
                    ~contentIndexEntryFresh(index[i], put.items[i].ver)}
  IN Restrict(index, DOMAIN index \ (put.removed \cup stale))

Keep == [link |-> FALSE]   \* cacheItems without cursor metadata

Position(m) == IF m.next # NoToken THEN m.next.upto ELSE m.link
WithCursor(m, cursor) ==
  IF cursor = Keep THEN m
  ELSE [m EXCEPT !.link = IF cursor.next # NoToken THEN @ ELSE cursor.link,
                 !.next = cursor.next]

Misplaced == {i \in DOMAIN cache.items : ~Live(i) \/ cache.items[i].path # PathOf[i]}

(* What a batch caches ahead of a folder that it is in and that comes later *)
(* in the batch or in the rest of the round under way. What comes with its  *)
(* path when no round is under way needs no order.                          *)
Ahead(batch, cursor, round) ==
  LET anyOrder(k) == cursor = Keep /\ round = NoToken /\ batch[k].path # NoPath
      toCome(k)   == {i \in Item :
                        \/ \E n \in DOMAIN round.rest : round.rest[n] = i
                        \/ \E m \in DOMAIN batch : m > k /\ batch[m].id = i /\ ~anyOrder(k)}
  IN {k \in DOMAIN batch : \E i \in toCome(k) \ {batch[k].id} : Inside(batch[k].id, i)}

(* cacheItems: the index is reconciled, then the cache is written; either   *)
(* may fail, and then the cache is as it was. The history: a batch is in    *)
(* order when nothing changed while it was read and, unless it comes with a *)
(* cursor that covers them, no change is waiting to be reported; it is a    *)
(* loss when an item that is there goes from the cache or is not kept in    *)
(* it; it comes behind what is cached when no deltaLink follows that and    *)
(* the drive has changed; and an item comes ahead of its folder when a      *)
(* change of that is still to be cached.                                    *)
cacheItems(c, batch, cursor, next, otherwise) ==
  LET put == PutAll(cache.items, cache.tombs, batch, Folder)
      new == WithCursor([cache EXCEPT !.items = put.items, !.tombs = put.tombs], cursor)
  IN \/ /\ cache' = new
        /\ index' = reconcile(batch, put)
        /\ handed' = [i \in Item |->
             Max({handed[i]} \cup
                 {batch[k].ver : k \in {k \in DOMAIN batch : batch[k].id = i}})]
        /\ mixed' = mixed \cup job[c].late \cup
             (IF batch = <<>> \/ Position(new) \in {NoLink, clock} THEN {}
              ELSE {"change"}) \cup
             {"loss" : i \in {i \in Item : /\ Live(i) /\ i \notin DOMAIN put.items
                                          /\ \/ i \in DOMAIN cache.items
                                             \/ \E k \in DOMAIN batch : batch[k].id = i}} \cup
             {"behind" : i \in {i \in Misplaced : cache.link = NoLink}} \cup
             {"ahead" : k \in Ahead(batch, cursor, new.next)}
        /\ GoOnLate(c, next,
             IF \E k \in DOMAIN batch : batch[k].deleted THEN "deletion" ELSE "change")
        /\ Works
     \/ /\ Fails
        /\ index' \in {index, reconcile(batch, put)}
        /\ GoOn(c, otherwise)
        /\ UNCHANGED <<cache, handed, mixed>>

bestEffort(c, batch, cursor, next) == cacheItems(c, batch, cursor, next, next)

Write(c) ==
  /\ job[c].at = "write"
  /\ bestEffort(c, job[c].batch, job[c].cursor, job[c].then)
  /\ UNCHANGED driveVars

Start(c, tool) ==
  /\ job[c].at = "idle" /\ Calls(tool)
  /\ Cardinality({x \in Call : job[x].at # "idle"}) < session.atOnce

(* new Map keeps an item at its first place and with its last content.      *)
Deduplicated(batch) ==
  LET at(i)    == {k \in DOMAIN batch : batch[k].id = i}
      firsts   == {k \in DOMAIN batch : k = Min(at(batch[k].id))}
      place(k) == Cardinality({m \in firsts : m <= k})
  IN [n \in 1 .. Cardinality(firsts) |->
        batch[Max(at(batch[CHOOSE k \in firsts : place(k) = n].id))]]

Writing(batch, cursor, then) ==
  [at |-> "write", batch |-> batch, cursor |-> cursor, then |-> then,
   late |-> {}]
Finish(batch, cursor, late) ==
  IF batch = <<>> /\ cursor = Keep THEN Idle
  ELSE [Writing(Deduplicated(batch), cursor, Idle) EXCEPT !.late = late]

------------------------------------------------------------------------------
(* Single requests: an item, or a page of the children of a folder.         *)
getRawInfo(c) ==
  \E i \in Item :
    /\ Start(c, "get") /\ Live(i)
    /\ GoOn(c, Writing(<<ShownWithPath(i)>>, Keep, Idle))
    /\ UNCHANGED <<driveVars, cache, index, handed, mixed>>

ChildrenOf(f) == [k \in DOMAIN SetToSeq(Siblings(f)) |->
                    ShownWithPath(SetToSeq(Siblings(f))[k])]

list(c) ==
  \E f \in Folder \cup {Root} :
    /\ Start(c, "list") /\ (f # Root => Live(f)) /\ Siblings(f) # {}
    /\ GoOn(c, Writing(ChildrenOf(f), Keep, Idle))
    /\ UNCHANGED <<driveVars, cache, index, handed, mixed>>

(* A deletion by the plugin: the item goes, then it is taken from the cache *)
(* and the deletion is recorded.                                            *)
deleteItem(c) ==
  \E i \in Item :
    /\ Start(c, "delete") /\ Trash(i) /\ Tick
    /\ LET shown == [ShownWithPath(i) EXCEPT !.deleted = TRUE, !.ver = @ + 1]
       IN GoOnLate(c, Writing(<<shown>>, Keep, [at |-> "audit", of |-> shown, late |-> {}]),
                   "deletion")
    /\ UNCHANGED <<cache, index, handed, mixed>>

------------------------------------------------------------------------------
(* Delta: pages are collected and cached together at the end, with the      *)
(* cursor when the caller persists it.                                      *)
Paging(token, persist) ==
  [at |-> "page", token |-> token, persist |-> persist, batch |-> <<>>,
   cursor |-> Keep, late |-> {}]

BeginRound(c, from, persist) ==
  \E s \in Rounds(from) :
    GoOn(c, Paging([upto |-> clock, rest |-> s], persist))

(* The parents of pathless items that neither the cache nor the page has    *)
(* are fetched, and come with their paths.                                  *)
hydrateDeltaParentItems(page) ==
  LET ids     == {page[k].id : k \in DOMAIN page}
      lacking == {p \in {page[k].parent : k \in DOMAIN page} \ ({Root} \cup ids) :
                    Live(p) /\ ~Known(cache.items, p)}
      parents == SetToSeq(lacking)
  IN [k \in DOMAIN parents |-> ShownWithPath(parents[k])] \o page

(* A page that was cut off leaves the call with the cursor of the pages     *)
(* before it.                                                               *)
(* Mutant: the cut-off page's own cursor is kept.                           *)
CutOffKeepsCursor(before, own) == own
cursorAfterCutOff(before, own) == before

(* collectPages, one page. A page that holds more than the call may still   *)
(* take is cut off: it gives no cursor and ends the call. maxItems and      *)
(* maxPages end it too, after a whole page.                                 *)
collectPages(c) ==
  LET j       == job[c]
      rest    == j.token.rest
      n       == Min({PageSize, Len(rest)})
      left    == SubSeq(rest, n + 1, Len(rest))
      token   == IF left = <<>> THEN NoToken ELSE [j.token EXCEPT !.rest = left]
      cursor  == IF j.persist THEN [link |-> j.token.upto, next |-> token] ELSE Keep
      got(k)  == j.batch \o
                 hydrateDeltaParentItems([x \in 1 .. k |-> Shown(rest[x], NoPath)])
  IN /\ j.at = "page"
     /\ \/ \E k \in 1 .. n - 1 : GoOn(c, Finish(got(k), cursorAfterCutOff(j.cursor, cursor), j.late))
        \/ GoOn(c, Finish(got(n), cursor, j.late))
        \/ /\ left # <<>>
           /\ GoOn(c, [j EXCEPT !.batch = got(n), !.cursor = cursor, !.token = token])
     /\ UNCHANGED <<driveVars, cache, index, sessionVars, handed, mixed>>

(* A request that fails ends the call, and what it had collected is lost.   *)
RequestFails(c) ==
  /\ job[c].at \in {"page", "scan"} /\ Fails
  /\ Answer(c)
  /\ UNCHANGED <<driveVars, cache, index, handed, mixed>>

(* The delta tool and the polls of watches: only the items are cached.      *)
delta(c) ==
  /\ Start(c, "delta")
  /\ \E from \in {Scratch, cache.link} : BeginRound(c, from, FALSE)
  /\ UNCHANGED <<driveVars, cache, index, handed, mixed>>

------------------------------------------------------------------------------
(* cacheRefresh: from the stored cursor; without one, or when asked to, a   *)
(* scan and then a round from nothing. A scan goes on where its caller says.*)
Scanning(then) ==
  [at |-> "scan", todo |-> {Root}, batch |-> <<>>, then |-> then, late |-> {}]

cacheRefresh(c) ==
  /\ Start(c, "refresh")
  /\ IF cache.next # NoToken THEN GoOn(c, Paging(cache.next, TRUE))
     ELSE IF cache.link # NoLink THEN BeginRound(c, cache.link, TRUE)
     ELSE GoOn(c, Scanning(Scanned))
  /\ UNCHANGED <<driveVars, cache, index, handed, mixed>>

(* mode "scan", with replaceCache or without.                               *)
cacheRebuild(c) ==
  /\ Start(c, "rebuild")
  /\ \/ GoOn(c, Scanning(Scanned)) /\ UNCHANGED <<cache, handed>>
     \/ /\ GoOnLate(c, Scanning(Scanned), "clear")
        /\ cache' = Empty /\ handed' = [i \in Item |-> 0]
  /\ UNCHANGED <<driveVars, index, mixed>>

(* One folder's children; maxItems or maxFolders may end the scan early.    *)
scan(c) ==
  /\ job[c].at = "scan"
  /\ \/ \E f \in job[c].todo :
          GoOn(c, [job[c] EXCEPT
            !.batch = @ \o (IF f = Root \/ Live(f) THEN ChildrenOf(f) ELSE <<>>),
            !.todo = (@ \ {f}) \cup
                     (IF f = Root \/ Live(f) THEN Siblings(f) \cap Folder ELSE {})])
     \/ GoOn(c, [Writing(Deduplicated(job[c].batch), Keep, job[c].then)
                   EXCEPT !.late = job[c].late])
  /\ UNCHANGED <<driveVars, cache, index, sessionVars, handed, mixed>>

(* Then the cursor goes; a failure of this write ends the call.             *)
dropCursor(c) ==
  /\ job[c].at = "scanned"
  /\ cacheItems(c, <<>>, [link |-> NoLink, next |-> NoToken], Primed, Idle)
  /\ UNCHANGED driveVars

prime(c) ==
  /\ job[c].at = "prime"
  /\ BeginRound(c, Scratch, TRUE)
  /\ UNCHANGED <<driveVars, cache, index, sessionVars, handed, mixed>>

------------------------------------------------------------------------------
(* The content index.                                                       *)
(* The forms that a text has there: read as it is, converted by the plugin   *)
(* or by Graph, or put together from the segments of an Office package.     *)
(* Only the last is not read under the version of the metadata.             *)
IndexForms ==
  CASE session.kind = "office" -> {"segments", "export"}
    [] session.kind = "common" -> {"document", "plain"}
    [] OTHER                   -> {"plain"}

extractIndexText(i, ver) ==
  {[label |-> ver, text |-> drive[i].ver, form |-> f] :
     f \in {g \in IndexForms : Live(i) /\ (g = "segments" \/ drive[i].ver = ver)}}

(* contentIndexRefresh reads the cache and the index, then file by file the *)
(* text, and at last merges what it has into the index then there. With     *)
(* force nothing that is indexed counts.                                    *)
contentIndexRefresh(c) ==
  /\ Start(c, "index")
  /\ LET seen == Restrict(cache.items, DOMAIN cache.items \cap Files) IN
     /\ DOMAIN seen # {}
     /\ \E base \in {index, <<>>} :
          GoOn(c, [at |-> "extract", seen |-> seen, base |-> base,
                   todo |-> DOMAIN seen, new |-> <<>>, late |-> {}])
  /\ UNCHANGED <<driveVars, cache, index, handed, mixed>>

extractCandidate(c) ==
  /\ job[c].at = "extract"
  /\ \E i \in job[c].todo :
       LET j     == job[c]
           ver   == j.seen[i].ver
           fresh == i \in DOMAIN j.base /\ contentIndexEntryFresh(j.base[i], ver)
       IN \/ \E e \in IF fresh THEN {j.base[i]} ELSE extractIndexText(i, ver) :
               GoOn(c, [j EXCEPT !.todo = @ \ {i},
                 !.new = [x \in DOMAIN @ \cup {i} |-> IF x = i THEN e ELSE @[x]]])
          \/ ~fresh /\ GoOn(c, [j EXCEPT !.todo = @ \ {i}])
  /\ UNCHANGED <<driveVars, cache, index, sessionVars, handed, mixed>>

Merged(new) ==
  [i \in DOMAIN index \cup DOMAIN new |-> IF i \in DOMAIN new THEN new[i] ELSE index[i]]

saveContentIndex(c) ==
  /\ job[c].at = "extract" /\ job[c].todo = {}
  /\ \/ index' = Merged(job[c].new) /\ Works
     \/ Fails /\ UNCHANGED index
  /\ Answer(c)
  /\ UNCHANGED <<driveVars, cache, handed, mixed>>

(* officeContentSearch: each hit is looked up, and the cache is given what  *)
(* comes back, which evicts a stale entry. The entry of a hit that cannot   *)
(* be looked up is taken from the index as loaded, and that is merged into  *)
(* the file.                                                                *)
officeContentSearch(c) ==
  /\ Start(c, "search")
  /\ \E i \in DOMAIN index :
       IF Live(i) THEN GoOn(c, Writing(<<ShownWithPath(i)>>, Keep, Idle))
       ELSE GoOn(c, [at |-> "evict", late |-> {},
                     new |-> Restrict(index, DOMAIN index \ {i})])
  /\ UNCHANGED <<driveVars, cache, index, handed, mixed>>

evict(c) ==
  /\ job[c].at = "evict"
  /\ index' = Merged(job[c].new)
  /\ Answer(c)
  /\ UNCHANGED <<driveVars, cache, sessionVars, handed, mixed>>

CacheCall(c) ==
  \/ Write(c) \/ getRawInfo(c) \/ list(c) \/ deleteItem(c)
  \/ delta(c) \/ collectPages(c) \/ RequestFails(c)
  \/ cacheRefresh(c) \/ cacheRebuild(c) \/ scan(c) \/ dropCursor(c) \/ prime(c)
  \/ contentIndexRefresh(c) \/ extractCandidate(c) \/ saveContentIndex(c)
  \/ officeContentSearch(c) \/ evict(c)

(* Other users change the drive: what calls have read so far is overtaken.  *)
Overtake ==
  /\ job' = [x \in Call |-> Late(job[x], "change")]
  /\ UNCHANGED <<cache, index, handed, mixed>>

------------------------------------------------------------------------------
(* Properties                                                               *)

(* A cursor skips no change: every item that is there and last changed      *)
(* before the stored cursor was given to the cache as it was after that     *)
(* change. A page cut off, a failed write or a failed request must not let  *)
(* the cursor pass what was not cached (collectPages, cacheItems). This is  *)
(* not so when replaceCache overtakes a refresh, which then writes its      *)
(* cursor over the cleared cache.                                           *)
CursorCoversChanges ==
  "clear" \notin mixed /\ cache.link # NoLink =>
    \A i \in Item : Live(i) /\ drive[i].changed <= cache.link
                      => handed[i] = drive[i].ver

Refreshed == cache.link = clock /\ cache.next = NoToken

(* Refreshed up to the drive's last change, the cache has the version, name *)
(* and parent of every item it holds; folders moved, renamed, replaced and  *)
(* removed on the way, over one or several partial rounds. That takes what  *)
(* was cached in the order of the drive's changes.                          *)
RefreshedContentIsRight ==
  mixed \subseteq {"loss", "behind", "ahead"} /\ Refreshed =>
    \A i \in DOMAIN cache.items : Live(i) =>
      /\ cache.items[i].ver = drive[i].ver
      /\ cache.items[i].name = drive[i].name /\ cache.items[i].parent = drive[i].parent

(* Every item that is there is then cached, at its path (cachePutSimplified *)
(* and its helpers). That also takes that no item went from the cache, as   *)
(* what is below a folder that is not cached keeps its path when the folder *)
(* moves, and that none came ahead of its folder: it would be moved with    *)
(* what is still cached there.                                              *)
RefreshedPathsAreRight ==
  mixed \subseteq {"behind"} /\ Refreshed =>
    \A i \in Item : Live(i) =>
      i \in DOMAIN cache.items /\ cache.items[i].path = PathOf[i]

(* Both together: a cache refreshed up to the last change is the drive as   *)
(* far as it goes.                                                          *)
RefreshedItemsAreRight == RefreshedContentIsRight /\ RefreshedPathsAreRight

(* No two items are cached at one path, so a path names one item, also in   *)
(* the middle of a round. What is below a folder that moves does not make   *)
(* way for what is already cached there (updateCachedDescendantPaths), so   *)
(* that takes a cache without items that others have moved or whose folder  *)
(* went.                                                                    *)
NoTwoAtOnePath ==
  mixed = {} =>
    \A i, j \in DOMAIN cache.items :
      i # j /\ cache.items[i].path # NoPath => cache.items[i].path # cache.items[j].path

(* An entry's text is never older than the version the entry is labelled    *)
(* with, so an entry that counts as fresh does not hide an edit: the label  *)
(* is the version cached before the text was read, and a changed item loses *)
(* its entry instead of relabelling it.                                     *)
IndexedTextNotOlderThanLabel ==
  \A i \in DOMAIN index : index[i].text >= index[i].label
=============================================================================
