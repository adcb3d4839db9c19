----------------------------- MODULE ChatgptReads -----------------------------
(* How mcp/server.mjs finds files and reads them for a client. A search asks *)
(* Graph, whose search index lags behind the drive, and what it finds goes   *)
(* into the metadata cache. Listings and answers are remembered for a        *)
(* minute, and the text of a large file is read in chunks, out of a copy     *)
(* that is kept for a while. Calls overlap, and others change the drive.     *)
(*                                                                          *)
(* Ranking is left out: an answer is taken to show every candidate. One     *)
(* query is asked and one client reads one file at a time; a text is as     *)
(* large as takes chunks. Copies and remembered answers may go at any time, *)
(* at their limits, after their time and with other mutations.              *)
EXTENDS MetadataCache

VARIABLES
  crawled,     \* Graph's search index: per item, as it was when last crawled
  remembered,  \* chatgptListSnapshots and chatgptSearchSnapshots
  copies,      \* chatgptFetchSnapshotsByScope: item, version, chunk of the text
  background,  \* chatgptRevalidations and the times that they started
  reader,      \* the client: the file it reads, and the texts of its chunks
  gone         \* history: the items that calls delete, and their paths

readVars == <<crawled, remembered, copies, background, reader, gone>>

Query    == 1 + Max(Item)   \* the key of the query's answer, beside folders
Key      == Folder \cup {Root, Query}
Nothing  == [shown |-> {}, late |-> {}, kept |-> FALSE]
NoEntry  == [label |-> 0, text |-> 0, form |-> "note"]
NoReader == [item |-> Root, ver |-> 0, texts |-> {}]

ReadsInit ==
  /\ crawled = [i \in {j \in Item : Live(j)} |-> ShownWithPath(i)]
  /\ remembered = [k \in Key |-> Nothing]
  /\ copies = {} /\ background = "none" /\ reader = NoReader /\ gone = <<>>

StaysCached == UNCHANGED <<driveVars, cache, index, handed, mixed>>

------------------------------------------------------------------------------
(* Answers that are remembered.                                             *)

invalidateChatgptSnapshots(answers) == [k \in Key |-> Nothing]

(* writeMutationAudit of a deletion that was made.                          *)
writeMutationAudit(c) ==
  /\ job[c].at = "audit"
  /\ remembered' = invalidateChatgptSnapshots(remembered)
  /\ Answer(c)
  /\ StaysCached /\ UNCHANGED <<sessionVars, crawled, copies, background, reader, gone>>

(* No call is still to cache and to record its deletion of the item.        *)
Deletes(j, i) ==
  \/ j.at = "audit" /\ j.of.id = i
  \/ j.at = "write" /\ j.then.at = "audit" /\ j.then.of.id = i
Recorded == {i \in DOMAIN gone : \A c \in Call : ~Deletes(job[c], i)}

(* An answer is remembered when it is there, whatever was deleted since the *)
(* call began.                                                              *)
Remembering(key, shown) ==
  [at |-> "remember", key |-> key, shown |-> shown, knew |-> Recorded,
   late |-> {}]

remember(c) ==
  /\ job[c].at = "remember"
  /\ remembered' = [remembered EXCEPT ![job[c].key] =
       [shown |-> job[c].shown, late |-> DOMAIN gone \ job[c].knew, kept |-> TRUE]]
  /\ Answer(c)
  /\ StaysCached /\ UNCHANGED <<sessionVars, crawled, copies, background, reader, gone>>

(* list with a snapshot key: a listing that is remembered is answered.      *)
chatgptList(c) ==
  \E f \in Folder \cup {Root} :
    /\ Start(c, "listing") /\ (f # Root => Live(f)) /\ Siblings(f) # {}
    /\ ~remembered[f].kept
    /\ GoOn(c, Writing(ChildrenOf(f), Keep, Remembering(f, Siblings(f))))
    /\ StaysCached /\ UNCHANGED readVars

------------------------------------------------------------------------------
(* Searches.                                                                *)

Hits(found) ==
  LET ids == SetToSeq(found) IN [k \in DOMAIN ids |-> crawled[ids[k]]]
Overtaken(batch) ==
  IF \E k \in DOMAIN batch : batch[k] # ShownWithPath(batch[k].id) THEN {"hits"} ELSE {}

(* A cached item that is newer than the hit is preferred.                   *)
preferCachedSearchItem(shown) ==
  LET i     == shown.id
      entry == cache.items[i]
  IN IF i \in DOMAIN cache.items /\ entry.ver > shown.ver
     THEN [id |-> i, deleted |-> FALSE, name |-> entry.name,
           parent |-> entry.parent, ver |-> entry.ver, path |-> entry.path]
     ELSE shown

(* Of what was found, the hits without a tombstone.                         *)
LiveHits(found, tombs) == Hits({i \in found : ~isSearchTombstoned(crawled[i], tombs)})

prepareSearchItems(found, tombs) ==
  LET live == LiveHits(found, tombs) IN
  [k \in DOMAIN live |-> preferCachedSearchItem(live[k])]

(* search of the full profile.                                              *)
search(c) ==
  \E found \in SUBSET DOMAIN crawled :
    /\ Start(c, "lookup")
    /\ LET batch == prepareSearchItems(found, cache.tombs) IN
         GoOn(c, Finish(batch, Keep, Overtaken(batch)))
    /\ StaysCached /\ UNCHANGED readVars

(* find loads the cache with its tombstones and the index, here in one step,  *)
(* for its own tool, for chatgptSearch and in the background.               *)
Finding(by) ==
  [at |-> "find", by |-> by, tombs |-> cache.tombs, got |-> <<>>,
   knew |-> Recorded, shown |-> DOMAIN cache.items \cup DOMAIN index, late |-> {}]

find(c) ==
  /\ Start(c, "find")
  /\ GoOn(c, Finding("tool"))
  /\ StaysCached /\ UNCHANGED readVars

(* A query whose answer is remembered is answered with it.                  *)
chatgptSearch(c) ==
  /\ Start(c, "query") /\ ~remembered[Query].kept
  /\ GoOn(c, Finding("chatgpt"))
  /\ StaysCached /\ UNCHANGED readVars

(* What comes after a find: chatgptSearch remembers its answer, the tool    *)
(* confirms what it has from the cache.                                     *)
Found(c) ==
  CASE job[c].by = "chatgpt" ->
         [Remembering(Query, job[c].shown) EXCEPT !.knew = job[c].knew]
    [] job[c].by = "tool"    -> [at |-> "confirm", late |-> {}]
    [] OTHER                 -> Idle

(* What is cached answers the query by itself. If that is not fresh any     *)
(* more, it is revalidated later, unless that was started shortly before.   *)
localFastPath(c) ==
  /\ job[c].at = "find" /\ job[c].by = "chatgpt" /\ job[c].got = <<>>
  /\ DOMAIN cache.items # {}
  /\ background' \in {background, IF background = "none" THEN "due" ELSE background}
  /\ GoOn(c, Found(c))
  /\ StaysCached /\ UNCHANGED <<sessionVars, crawled, remembered, copies, reader, gone>>

(* The terms: of what they find, that has no tombstone among those loaded.  *)
executeSearchTerm(c) ==
  \E found \in SUBSET DOMAIN crawled :
    LET hits == LiveHits(found, job[c].tombs) IN
    /\ job[c].at = "find" /\ job[c].got = <<>> /\ hits # <<>>
    /\ GoOn(c, [job[c] EXCEPT !.got = hits,
                  !.shown = @ \cup {hits[k].id : k \in DOMAIN hits},
                  !.late = @ \cup Overtaken(hits)])
    /\ StaysCached /\ UNCHANGED <<sessionVars, readVars>>

(* The terms have been asked, or failed: the hits go into the cache. Folders *)
(* may be scanned then.                                                     *)
cacheFound(c) ==
  /\ job[c].at = "find"
  /\ \E then \in {Found(c)} \cup
                 (IF job[c].by = "chatgpt" THEN {Scanning(Found(c))} ELSE {}) :
       IF job[c].got = <<>> THEN GoOn(c, then)
       ELSE GoOn(c, [Writing(Deduplicated(job[c].got), Keep, then)
                       EXCEPT !.late = job[c].late])
  /\ StaysCached /\ UNCHANGED <<sessionVars, readVars>>

confirmCachedFindCandidates(c) ==
  /\ job[c].at = "confirm"
  /\ \E then \in {Idle, Scanning(Idle)} :
       \/ \E i \in DOMAIN cache.items :
            Live(i) /\ GoOn(c, Writing(<<ShownWithPath(i)>>, Keep, then))
       \/ GoOn(c, then)
  /\ StaysCached /\ UNCHANGED <<sessionVars, readVars>>

(* In the background: the changes since the stored cursor, or else the      *)
(* query again.                                                             *)
revalidate(c) ==
  /\ job[c].at = "idle" /\ background = "due" /\ background' = "done"
  /\ IF cache.next # NoToken THEN GoOn(c, Paging(cache.next, TRUE))
     ELSE IF cache.link # NoLink THEN BeginRound(c, cache.link, TRUE)
     ELSE GoOn(c, Finding("background"))
  /\ StaysCached /\ UNCHANGED <<sessionVars, crawled, remembered, copies, reader, gone>>

------------------------------------------------------------------------------
(* Reading a file in chunks.                                                *)

(* The texts of one version of a file differ by their form. In place of a   *)
(* text that could not be read there may be a note that says so.            *)
Chunk(text, form, indexed) == [text |-> text, form |-> form, indexed |-> indexed]
Note == Chunk(0, "note", FALSE)

(* What the client has read then; a note has nothing beyond the first chunk.*)
ReadOn(chunk) ==
  \/ reader' = [reader EXCEPT !.texts = @ \cup {chunk}]
  \/ chunk = Note /\ UNCHANGED reader

(* The next chunk comes from the copy that is kept under its version.       *)
rememberedChatgptFetchSnapshot(c) ==
  \E t \in copies :
    /\ Start(c, "fetch") /\ t.item = reader.item /\ t.ver = reader.ver
    /\ ReadOn(t.chunk)
    /\ UNCHANGED <<job, crawled, remembered, copies, background, gone>>
    /\ StaysCached

Resolved(i, ver, entry, more) ==
  IF contentIndexEntryFresh(entry, ver)
  THEN [at |-> "deliver", item |-> i, ver |-> ver, more |-> more, late |-> {},
        chunk |-> Chunk(entry.text, entry.form, TRUE)]
  ELSE [at |-> "fetch", item |-> i, ver |-> ver, more |-> more, late |-> {}]

(* resolveChatgptFetchSnapshot: the cache and the index are loaded. If they *)
(* are fresh, what is cached of the item is believed.                       *)
chatgptFetch(c) ==
  \E i \in Files, fresh \in BOOLEAN, more \in BOOLEAN :
    LET entry == IF i \in DOMAIN index THEN index[i] ELSE NoEntry IN
    /\ Start(c, "fetch")
    /\ more => reader.item = i /\ ~\E t \in copies : t.item = i /\ t.ver = reader.ver
    /\ fresh => cache # Empty
    /\ IF fresh /\ i \in DOMAIN cache.items
       THEN GoOn(c, Resolved(i, cache.items[i].ver, entry, more))
       ELSE GoOn(c, [at |-> "info", item |-> i, entry |-> entry, more |-> more,
                     late |-> {}])
    /\ StaysCached /\ UNCHANGED readVars

getInfo(c) ==
  LET i == job[c].item IN
  /\ job[c].at = "info"
  /\ IF ~Live(i) THEN Answer(c)
     ELSE GoOn(c, Writing(<<ShownWithPath(i)>>, Keep,
                    Resolved(i, drive[i].ver, job[c].entry, job[c].more)))
  /\ StaysCached /\ UNCHANGED <<sessionVars, readVars>>

(* Mutant: the content is fetched without If-Match.                         *)
AnyVersion(i, ver) == Live(i)

SameVersion(i, ver) == Live(i) /\ drive[i].ver = ver

FetchForms == IF session.kind = "plain" THEN {"plain"} ELSE {"document", "export"}

(* The content is fetched under the version of the metadata. A plain text   *)
(* that is not had so fails the call. Of other files the plugin extracts    *)
(* the text; when it cannot, Graph exports it; and when that fails too, a   *)
(* note takes the place of the text.                                        *)
extractChatgptFetchSnapshot(c) ==
  LET j        == job[c]
      got(txt) == GoOn(c, [at |-> "deliver", item |-> j.item, ver |-> j.ver,
                           more |-> j.more, chunk |-> txt, late |-> j.late])
  IN /\ j.at = "fetch"
     /\ \/ \E f \in FetchForms :
             SameVersion(j.item, j.ver) /\ got(Chunk(drive[j.item].ver, f, FALSE))
        \/ session.kind = "plain" /\ ~SameVersion(j.item, j.ver) /\ Answer(c)
        \/ session.kind # "plain" /\ got(Note)
     /\ StaysCached /\ UNCHANGED <<sessionVars, readVars>>

(* rememberChatgptFetchSnapshot; a chunk of another version than the one    *)
(* that the client reads is refused. A first text may go into the index     *)
(* before it is answered; a first note is all there is, and neither kept    *)
(* nor indexed.                                                             *)
deliver(c) ==
  LET j    == job[c]
      kept == {t \in copies : t.item # j.item \/ t.ver # j.ver}
              \cup {[item |-> j.item, ver |-> j.ver, chunk |-> j.chunk]}
      read == [item |-> j.item, ver |-> j.ver, texts |-> {j.chunk}]
  IN /\ j.at = "deliver"
     /\ \/ /\ j.more /\ reader.item = j.item /\ reader.ver = j.ver
           /\ copies' = kept /\ ReadOn(j.chunk)
           /\ Answer(c)
        \/ /\ j.more /\ (reader.item # j.item \/ reader.ver # j.ver)
           /\ Answer(c) /\ UNCHANGED <<copies, reader>>
        \/ /\ ~j.more /\ j.chunk = Note
           /\ Answer(c) /\ UNCHANGED <<copies, reader>>
        \/ /\ ~j.more /\ j.chunk # Note /\ copies' = kept
           /\ IF j.chunk.indexed THEN reader' = read /\ Answer(c)
              ELSE GoOn(c, [j EXCEPT !.at = "warm"]) /\ UNCHANGED reader
     /\ StaysCached /\ UNCHANGED <<sessionVars, crawled, remembered, background, gone>>

NewlyIndexed == DOMAIN index' \ DOMAIN index

warmContentIndexFromChatgptSnapshots(c) ==
  LET j == job[c] IN
  /\ j.at = "warm"
  /\ \/ /\ index' = Merged([i \in {j.item} |->
               [label |-> j.ver, text |-> j.chunk.text, form |-> j.chunk.form]])
        /\ Works
     \/ Fails /\ UNCHANGED index
  /\ reader' = [item |-> j.item, ver |-> j.ver, texts |-> {j.chunk}]
  /\ gone' = Restrict(gone, DOMAIN gone \ NewlyIndexed)
  /\ Answer(c)
  /\ UNCHANGED <<driveVars, cache, handed, mixed, crawled, remembered, copies, background>>

------------------------------------------------------------------------------
ReadCall(c) ==
  \/ writeMutationAudit(c) \/ remember(c) \/ chatgptList(c)
  \/ search(c) \/ find(c) \/ chatgptSearch(c) \/ localFastPath(c) \/ executeSearchTerm(c)
  \/ cacheFound(c) \/ confirmCachedFindCandidates(c) \/ revalidate(c)
  \/ rememberedChatgptFetchSnapshot(c) \/ chatgptFetch(c) \/ getInfo(c)
  \/ extractChatgptFetchSnapshot(c) \/ deliver(c)
  \/ warmContentIndexFromChatgptSnapshots(c)

(* What another call does to the cache. What is deleted is not accounted    *)
(* for any more once another item is cached by its path, which takes its    *)
(* tombstone, once the cache is cleared, and once a call puts its text into *)
(* the index, which searches also show; nor is what was left in the index   *)
(* and is not cached. What a call caches that was under way at a deletion   *)
(* it may have read before that: then it puts the item back and takes its   *)
(* tombstone, and that is not accounted for either.                         *)
Follow(c) ==
  LET batch   == IF job[c].at = "write" THEN job[c].batch ELSE <<>>
      taken   == {i \in DOMAIN gone : \E k \in DOMAIN batch :
                    batch[k].path = gone[i] /\ batch[k].id # i /\ ~batch[k].deleted}
      back    == {i \in DOMAIN gone : "deletion" \in job[c].late /\
                    \E k \in DOMAIN batch : batch[k].id = i /\ ~batch[k].deleted}
      deleted == {i \in Item : job'[c].at = "write" /\ Deletes(job'[c], i)}
                 \ (DOMAIN index \ DOMAIN cache.items)
      cleared == cache' = Empty /\ cache # Empty
      still   == IF cleared THEN {} ELSE DOMAIN gone \ (taken \cup back \cup NewlyIndexed)
  IN /\ gone' = [i \in still \cup deleted |->
                   IF i \in deleted THEN job'[c].then.of.path ELSE gone[i]]
     /\ UNCHANGED <<crawled, remembered, copies, background, reader>>

(* Time passes: Graph crawls an item, a copy or an answer goes.             *)
Crawl(i) ==
  /\ session.tools \cap {"find", "query", "lookup"} # {}
  /\ crawled' = [j \in (DOMAIN crawled \ {i}) \cup {x \in {i} : Live(x)} |->
                   IF j = i THEN ShownWithPath(i) ELSE crawled[j]]
  /\ UNCHANGED <<remembered, copies, background, reader, gone>>

Forget ==
  \/ /\ \E k \in Key :
          remembered[k].kept /\ remembered' = [remembered EXCEPT ![k] = Nothing]
     /\ UNCHANGED <<crawled, copies, background, reader, gone>>
  \/ /\ \E t \in copies : copies' = copies \ {t}
     /\ UNCHANGED <<crawled, remembered, background, reader, gone>>

TimePasses ==
  /\ Forget \/ \E i \in Item : Crawl(i)
  /\ UNCHANGED <<driveVars, sessionVars, cacheVars>>

------------------------------------------------------------------------------
(* Properties                                                               *)

(* What a call has deleted and recorded is not in the cache, and no answer  *)
(* that is remembered later shows it: Graph's search index, which still has *)
(* it, does not bring it back, nor do the writes of calls that began after  *)
(* the deletion, in whatever order calls and changes come (cacheItems,      *)
(* recordSearchTombstones, isSearchTombstoned, writeMutationAudit). A call  *)
(* under way at a deletion does put back the items that it read before,     *)
(* tombstone or not (cachePutSimplified, line 7288): those items, and no    *)
(* others, are excepted from then on (Follow).                              *)
DeletedStaysAway ==
  faults = 0 =>
    \A i \in Recorded :
      /\ i \notin DOMAIN cache.items
      /\ \A k \in Key : i \in remembered[k].shown => i \in remembered[k].late

TextsRead == {x \in reader.texts : x # Note}

(* The chunks of a file that a client puts together are of the version that *)
(* it began to read, though the copy that they come from may be lost and    *)
(* the file be read again while others change it: from the drive under the  *)
(* version of the first chunk, or from the index. Only what the index has   *)
(* of an Office package, which is read without a condition, may be newer,   *)
(* and nothing is older (chatgptFetch, resolveChatgptFetchSnapshot,         *)
(* extractChatgptFetchSnapshot, extractIndexText).                          *)
ChunksAreOfOneVersion ==
  \A x \in TextsRead :
    x.text >= reader.ver /\ (x.form # "segments" => x.text = reader.ver)

(* The chunks that a client puts together, cut out of the text one after    *)
(* the other by offset, are of one text. The code does not keep to this for *)
(* files that are converted: when the copy is lost the next chunk is cut    *)
(* from another rendering of the same version, or is a note                 *)
(* (chatgptIndexedText, chatgptOfficeText, preview).                        *)
ChunksAreOfOneText ==
  \A a, b \in TextsRead : a.text = b.text /\ a.form = b.form
=============================================================================
