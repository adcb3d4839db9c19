--------------------------- MODULE LocalStateProofs ---------------------------
(* That no change is lost between a watch and its consumers, and that no    *)
(* promotion writes over an edit the draft does not have: for any number of *)
(* items, watches, workspaces, calls and polls, and for every order of      *)
(* them, of restarts and of failed writes.                                  *)
(* At the end, that the drive is a tree, and what this says of paths.       *)
EXTENDS LocalState, TLAPS, FiniteSetTheorems, WellFoundedInduction,
        NaturalsInduction, SequenceTheorems

DriveRecords ==
  [at : {"live", "absent", "deleted"}, name : Name,
   parent : Folder \cup {Root}, ver : Nat, changed : Nat]

DriveOK == drive \in [Item -> DriveRecords] /\ clock \in Nat \ {0}

(* A copy of the watches, in the file or loaded by somebody, that reports   *)
(* all changes up to its cursors, together with what was consumed.          *)
FileOK(f, seen, d, c) ==
  /\ f \in [Watch -> WatchRecords]
  /\ \A w \in Watch : f[w] # None =>
       /\ f[w].link \in 1 .. c
       /\ \A i \in Item :
            f[w].from < d[i].changed /\ d[i].changed <= f[w].link
              => \E e \in f[w].events \cup seen[w] : e.id = i /\ e.ver >= d[i].ver

(* A copy of the workspaces whose drafts are not older than the version     *)
(* they were begun from.                                                    *)
WorkOK(f) ==
  /\ f \in [Workspace -> WorkRecords]
  /\ \A k \in Workspace : f[k] # None => f[k].ver <= f[k].base

(* What a call or poll has in hand at each of its steps.                    *)
TaskOK(j, seen, d, c) ==
  /\ j.at \in {"fetch", "mark", "marked", "save"} => j.watch \in Watch
  /\ j.at = "fetch" => j.file[j.watch] # None
  /\ j.at \in {"fetch", "mark", "marked", "save", "stop"} => FileOK(j.file, seen, d, c)
  /\ j.at = "marked" => WorkOK(j.marks)
  /\ j.at = "start" => j.watch \in Watch /\ j.from \in 1 .. c
  /\ j.at = "consume" =>
       /\ j.watch \in Watch /\ j.events \in SUBSET Events
       /\ FileOK(j.file, [seen EXCEPT ![j.watch] = @ \cup j.events], d, c)
  /\ j.at = "copy" => /\ j.work \in Workspace /\ j.source \in Item
                      /\ j.ver \in Nat /\ j.ver <= d[j.source].ver
  /\ j.at \in {"status", "put", "verify", "keep"} => WorkOK(j.file)
  /\ j.at \in {"status", "put", "verify"} =>
       j.work \in Workspace /\ j.file[j.work] # None
  /\ j.at = "put" => j.ver = j.file[j.work].ver

PromotedOK == promoted \subseteq [over : Nat, base : Nat] /\ PromoteLosesNothing

IInv ==
  /\ DriveOK
  /\ consumed \in [Watch -> SUBSET Events]
  /\ FileOK(watchFile, consumed, drive, clock)
  /\ WorkOK(workFile)
  /\ timers \subseteq Watch
  /\ DOMAIN task = Task
  /\ \A t \in Task : TaskOK(task[t], consumed, drive, clock)
  /\ PromotedOK

(* What any step does to the drive: an item that changes or appears gets a  *)
(* later version and a place in the order of changes after all cursors, and *)
(* one that was deleted does not come back.                                 *)
Advances ==
  /\ DriveOK' /\ clock <= clock'
  /\ \A i \in Item :
       /\ drive[i].ver <= drive'[i].ver
       /\ drive'[i].ver = drive[i].ver =>
            /\ drive'[i].name = drive[i].name /\ drive'[i].parent = drive[i].parent
            /\ drive'[i].at = "live" => drive[i].at = "live"
       /\ \/ drive'[i].changed > clock /\ drive'[i].changed <= clock'
          \/ drive'[i].changed = drive[i].changed /\ drive'[i].ver = drive[i].ver
       /\ drive[i].at = "deleted" => drive'[i].at = "deleted"

(* The history of consumed events only grows.                               *)
SeenGrows(s, z) ==
  /\ s \in [Watch -> SUBSET Events] /\ z \in [Watch -> SUBSET Events]
  /\ \A w \in Watch : s[w] \subseteq z[w]

------------------------------------------------------------------------------
LEMMA FileStays ==
  ASSUME NEW f, NEW s, NEW z, DriveOK, Advances, SeenGrows(s, z),
         FileOK(f, s, drive, clock)
  PROVE  FileOK(f, z, drive', clock')
<1> SUFFICES ASSUME NEW w \in Watch, f[w] # None
             PROVE  /\ f[w].link \in 1 .. clock'
                    /\ \A i \in Item :
                         f[w].from < drive'[i].changed /\ drive'[i].changed <= f[w].link
                           => \E e \in f[w].events \cup z[w] :
                                e.id = i /\ e.ver >= drive'[i].ver
  BY DEF FileOK
<1>1. f[w].link \in 1 .. clock /\ clock <= clock' /\ clock \in Nat /\ clock' \in Nat
  BY DEF FileOK, DriveOK, Advances
<1>2. ASSUME NEW i \in Item,
             f[w].from < drive'[i].changed, drive'[i].changed <= f[w].link
      PROVE  \E e \in f[w].events \cup z[w] : e.id = i /\ e.ver >= drive'[i].ver
  <2>1. ~(drive'[i].changed > clock)
    <3>1. drive'[i].changed \in Nat
      BY DEF Advances, DriveOK, DriveRecords
    <3> QED BY <1>1, <1>2, <3>1
  <2>2. drive'[i].changed = drive[i].changed /\ drive'[i].ver = drive[i].ver
    BY <2>1 DEF Advances
  <2>3. \E e \in f[w].events \cup s[w] : e.id = i /\ e.ver >= drive[i].ver
    BY <1>2, <2>2 DEF FileOK
  <2> QED BY <2>2, <2>3 DEF SeenGrows
<1> QED BY <1>1, <1>2

LEMMA TaskStays ==
  ASSUME NEW j, NEW s, NEW z, DriveOK, Advances, SeenGrows(s, z),
         TaskOK(j, s, drive, clock)
  PROVE  TaskOK(j, z, drive', clock')
<1>1. j.at \in {"fetch", "mark", "marked", "save", "stop"}
        => FileOK(j.file, z, drive', clock')
  BY FileStays DEF TaskOK
<1>2. ASSUME j.at = "consume"
      PROVE  FileOK(j.file, [z EXCEPT ![j.watch] = @ \cup j.events], drive', clock')
  <2>1. SeenGrows([s EXCEPT ![j.watch] = @ \cup j.events],
                  [z EXCEPT ![j.watch] = @ \cup j.events])
    BY <1>2 DEF TaskOK, SeenGrows
  <2> QED BY <1>2, <2>1, FileStays DEF TaskOK
<1>3. j.at = "start" => j.from \in 1 .. clock'
  BY DEF TaskOK, Advances, DriveOK
<1>4. j.at = "copy" => j.ver <= drive'[j.source].ver
  BY DEF TaskOK, Advances, DriveOK, DriveRecords
<1> QED BY <1>1, <1>2, <1>3, <1>4 DEF TaskOK

(* A step keeps the invariant when the drive only advances, the files and   *)
(* the histories are in order, and one task goes on to something in order.  *)
LEMMA GoesOn ==
  ASSUME IInv, Advances, SeenGrows(consumed, consumed'),
         FileOK(watchFile', consumed', drive', clock'), WorkOK(workFile'),
         timers' \subseteq Watch, PromotedOK', NEW t \in Task, NEW next, GoTo(t, next),
         TaskOK(next, consumed', drive', clock')
  PROVE  IInv'
<1>1. \A x \in Task : TaskOK(task[x], consumed', drive', clock')
  BY TaskStays DEF IInv
<1>2. DOMAIN task' = Task /\ \A x \in Task : TaskOK(task'[x], consumed', drive', clock')
  BY <1>1 DEF GoTo, IInv
<1> QED BY <1>2 DEF IInv, Advances, SeenGrows

(* The same, when the drive and the histories stay and a file is saved.     *)
LEMMA FilesSaved ==
  ASSUME IInv, UNCHANGED <<driveVars, history>>,
         FileOK(watchFile', consumed, drive, clock), WorkOK(workFile'),
         timers' \subseteq Watch, NEW t \in Task, NEW next, GoTo(t, next),
         TaskOK(next, consumed, drive, clock)
  PROVE  IInv'
<1>1. drive' = drive /\ clock' = clock /\ consumed' = consumed /\ promoted' = promoted
  BY DEF driveVars, history
<1>2. Advances
  BY <1>1 DEF Advances, IInv, DriveOK, DriveRecords
<1>3. SeenGrows(consumed, consumed')
  BY <1>1 DEF SeenGrows, IInv
<1>4. PromotedOK'
  BY <1>1 DEF PromotedOK, PromoteLosesNothing, IInv
<1> QED BY <1>1, <1>2, <1>3, <1>4, GoesOn

(* The same, when the files stay too.                                       *)
LEMMA OnlyGoesOn ==
  ASSUME IInv, UNCHANGED <<driveVars, watchFile, workFile, history>>,
         timers' \subseteq Watch, NEW t \in Task, NEW next, GoTo(t, next),
         TaskOK(next, consumed, drive, clock)
  PROVE  IInv'
<1>1. FileOK(watchFile', consumed, drive, clock) /\ WorkOK(workFile')
  BY DEF IInv
<1> QED BY <1>1, FilesSaved
------------------------------------------------------------------------------
(* Steps of the drive.                                                      *)
LEMMA PlaceAdvances ==
  ASSUME DriveOK, DriveAssumption, NEW i \in Item, NEW n \in Name,
         NEW p \in Folder \cup {Root}, Place(i, n, p), clock' = clock + 1
  PROVE  Advances
<1>1. drive' = [drive EXCEPT ![i] =
        [at |-> "live", name |-> n, parent |-> p, ver |-> drive[i].ver + 1,
         changed |-> clock + 1]]
  BY DEF Place
<1>4. drive[i].at # "deleted"
  BY DEF Place
<1>2. DriveOK'
  BY <1>1 DEF DriveOK, DriveRecords
<1>3. ASSUME NEW j \in Item
      PROVE  /\ drive[j].ver <= drive'[j].ver
             /\ drive'[j].ver = drive[j].ver =>
                  /\ drive'[j].name = drive[j].name /\ drive'[j].parent = drive[j].parent
                  /\ drive'[j].at = "live" => drive[j].at = "live"
             /\ \/ drive'[j].changed > clock /\ drive'[j].changed <= clock'
                \/ drive'[j].changed = drive[j].changed /\ drive'[j].ver = drive[j].ver
             /\ drive[j].at = "deleted" => drive'[j].at = "deleted"
  BY <1>1, <1>4 DEF DriveOK, DriveRecords
<1> QED BY <1>2, <1>3 DEF Advances, DriveOK

LEMMA TrashAdvances ==
  ASSUME DriveOK, NEW i \in Item, Trash(i), clock' = clock + 1
  PROVE  Advances
<1> DEFINE After(j) ==
      IF ~Inside(j, i) THEN drive[j]
      ELSE IF j # i THEN [drive[j] EXCEPT !.at = "deleted"]
      ELSE [drive[j] EXCEPT !.at = "deleted", !.ver = @ + 1, !.changed = clock + 1]
<1>1. drive' = [j \in Item |-> After(j)]
  BY DEF Trash
<1>2. ASSUME NEW j \in Item
      PROVE  /\ After(j) \in DriveRecords
             /\ drive[j].ver <= After(j).ver
             /\ After(j).ver = drive[j].ver =>
                  /\ After(j).name = drive[j].name /\ After(j).parent = drive[j].parent
                  /\ After(j).at = "live" => drive[j].at = "live"
             /\ \/ After(j).changed > clock /\ After(j).changed <= clock'
                \/ After(j).changed = drive[j].changed /\ After(j).ver = drive[j].ver
             /\ drive[j].at = "deleted" => After(j).at = "deleted"
  <2>1. drive[j] \in DriveRecords /\ clock \in Nat
    BY DEF DriveOK
  <2>2. CASE ~Inside(j, i)
    BY <2>1, <2>2 DEF DriveRecords
  <2>3. CASE Inside(j, i) /\ j # i
    <3>1. After(j) = [drive[j] EXCEPT !.at = "deleted"]
      BY <2>3
    <3> QED BY <2>1, <3>1 DEF DriveRecords
  <2>4. CASE Inside(j, i) /\ j = i
    <3>1. After(j) = [drive[j] EXCEPT !.at = "deleted", !.ver = drive[j].ver + 1,
                                      !.changed = clock + 1]
      BY <2>4
    <3>2. After(j) = [at |-> "deleted", name |-> drive[j].name,
                      parent |-> drive[j].parent, ver |-> drive[j].ver + 1,
                      changed |-> clock + 1]
      BY <2>1, <3>1 DEF DriveRecords
    <3> HIDE DEF After
    <3> QED BY <2>1, <3>2 DEF DriveRecords
  <2> QED BY <2>2, <2>3, <2>4
<1> HIDE DEF After
<1>3. DriveOK'
  BY <1>1, <1>2 DEF DriveOK
<1> QED BY <1>1, <1>2, <1>3 DEF Advances, DriveOK

(* A step of the drive alone, with the watches and workspaces as they are.  *)
LEMMA DriveStep ==
  ASSUME IInv, Advances, UNCHANGED watchVars
  PROVE  IInv'
<1>1. watchFile' = watchFile /\ workFile' = workFile /\ task' = task
      /\ timers' = timers /\ consumed' = consumed /\ promoted' = promoted
  BY DEF watchVars
<1>2. SeenGrows(consumed, consumed)
  BY DEF SeenGrows, IInv
<1>3. FileOK(watchFile', consumed', drive', clock')
  BY <1>1, <1>2, FileStays DEF IInv
<1>4. \A t \in Task : TaskOK(task'[t], consumed', drive', clock')
  BY <1>1, <1>2, TaskStays DEF IInv
<1> QED BY <1>1, <1>3, <1>4 DEF IInv, Advances, PromotedOK, PromoteLosesNothing

LEMMA StaysAdvances == ASSUME DriveOK, UNCHANGED driveVars PROVE Advances
BY DEF Advances, DriveOK, DriveRecords, driveVars

(* What a step does to the drive.                                           *)
DriveChange ==
  \/ UNCHANGED driveVars
  \/ clock' = clock + 1 /\ \E i \in Item : Trash(i)
  \/ clock' = clock + 1 /\ \E i \in Item, n \in Name, p \in Folder \cup {Root} : Place(i, n, p)

LEMMA ChangeAdvances ==
  ASSUME DriveOK, DriveChange
  PROVE  Advances /\ (clock' = clock => UNCHANGED driveVars)
<1>1. clock \in Nat
  BY DEF DriveOK
<1> QED BY <1>1, PlaceAdvances, TrashAdvances, StaysAdvances, DriveAssumption DEF DriveChange

(* The calls of the cache change the drive at most by a deletion.           *)
LEMMA CacheCallChange ==
  ASSUME DriveOK, NEW c \in Call, CacheCall(c)
  PROVE  DriveChange
<1>1. ASSUME Write(c) \/ getRawInfo(c) \/ list(c) \/ delta(c) \/ collectPages(c)
             \/ RequestFails(c) \/ cacheRefresh(c) \/ cacheRebuild(c) \/ scan(c)
      PROVE  UNCHANGED driveVars
  BY <1>1 DEF Write, getRawInfo, list, delta, collectPages, RequestFails,
              cacheRefresh, cacheRebuild, scan
<1>2. ASSUME dropCursor(c) \/ prime(c) \/ contentIndexRefresh(c)
             \/ extractCandidate(c) \/ saveContentIndex(c)
             \/ officeContentSearch(c) \/ evict(c)
      PROVE  UNCHANGED driveVars
  BY <1>2 DEF dropCursor, prime, contentIndexRefresh, extractCandidate,
              saveContentIndex, officeContentSearch, evict
<1>3. CASE deleteItem(c)
  BY <1>3 DEF deleteItem, Tick, DriveChange
<1> QED BY <1>1, <1>2, <1>3 DEF CacheCall, DriveChange

(* The calls that find and read change it not at all.                       *)
LEMMA ReadCallStays == ASSUME NEW c \in Call, ReadCall(c) PROVE UNCHANGED driveVars
<1>1. ASSUME writeMutationAudit(c) \/ remember(c) \/ chatgptList(c) \/ search(c)
             \/ find(c) \/ chatgptSearch(c) \/ localFastPath(c) \/ executeSearchTerm(c)
      PROVE  StaysCached
  BY <1>1 DEF writeMutationAudit, remember, chatgptList, search, find, chatgptSearch,
              localFastPath, executeSearchTerm
<1>2. ASSUME cacheFound(c) \/ confirmCachedFindCandidates(c) \/ revalidate(c)
             \/ rememberedChatgptFetchSnapshot(c) \/ chatgptFetch(c) \/ getInfo(c)
             \/ extractChatgptFetchSnapshot(c) \/ deliver(c)
      PROVE  StaysCached
  BY <1>2 DEF cacheFound, confirmCachedFindCandidates, revalidate,
              rememberedChatgptFetchSnapshot, chatgptFetch, getInfo,
              extractChatgptFetchSnapshot, deliver
<1>3. ASSUME warmContentIndexFromChatgptSnapshots(c) PROVE UNCHANGED driveVars
  BY <1>3 DEF warmContentIndexFromChatgptSnapshots
<1> QED BY <1>1, <1>2, <1>3 DEF ReadCall, StaysCached
------------------------------------------------------------------------------
(* Steps of watches and their polls.                                        *)
LEMMA RestOK == ASSUME NEW s, NEW d, NEW c PROVE TaskOK(Rest, s, d, c)
BY DEF TaskOK, Rest

LEMMA LoadedAreWatches == ASSUME IInv PROVE ensureWatchesLoaded \subseteq Watch
BY DEF ensureWatchesLoaded, IInv

(* One watch of a copy is replaced by a record that reports its changes.    *)
LEMMA OneWatchOK ==
  ASSUME NEW f, NEW seen, NEW d, NEW c, NEW w \in Watch, NEW r \in WatchRecords,
         FileOK(f, seen, d, c),
         r # None =>
           /\ r.link \in 1 .. c
           /\ \A i \in Item : r.from < d[i].changed /\ d[i].changed <= r.link
                => \E e \in r.events \cup seen[w] : e.id = i /\ e.ver >= d[i].ver
  PROVE  FileOK([f EXCEPT ![w] = r], seen, d, c)
<1> DEFINE g == [f EXCEPT ![w] = r]
<1>1. g \in [Watch -> WatchRecords] /\ g[w] = r
      /\ \A x \in Watch \ {w} : g[x] = f[x]
  BY DEF FileOK
<1> HIDE DEF g
<1>2. FileOK(g, seen, d, c)
  BY <1>1 DEF FileOK
<1> QED BY <1>2 DEF g

FullRecords ==
  [status : {"active", "stopped", "expired", "error"}, from : Nat, link : Nat,
   events : SUBSET Events]

LEMMA FullOK ==
  ASSUME NEW f, NEW seen, NEW d, NEW c, FileOK(f, seen, d, c), NEW w \in Watch,
         f[w] # None
  PROVE  f[w] \in FullRecords
BY DEF FileOK, WatchRecords, FullRecords

(* Another status for a watch.                                              *)
LEMMA StatusOK ==
  ASSUME NEW f, NEW seen, NEW d, NEW c, FileOK(f, seen, d, c),
         NEW w \in Watch, f[w] # None,
         NEW status \in {"active", "stopped", "expired", "error"}
  PROVE  FileOK([f EXCEPT ![w].status = status], seen, d, c)
<1> DEFINE r == [status |-> status, from |-> f[w].from, link |-> f[w].link,
                 events |-> f[w].events]
<1>1. f[w] \in FullRecords
  BY FullOK
<1>2. [f[w] EXCEPT !.status = status] = r
  BY <1>1 DEF FullRecords
<1>3. r \in WatchRecords
  BY <1>1 DEF WatchRecords, FullRecords
<1>4. /\ r.link \in 1 .. c
      /\ \A i \in Item : r.from < d[i].changed /\ d[i].changed <= r.link
            => \E e \in r.events \cup seen[w] : e.id = i /\ e.ver >= d[i].ver
  BY DEF FileOK
<1> HIDE DEF r
<1>5. FileOK([f EXCEPT ![w] = r], seen, d, c)
  BY <1>3, <1>4, OneWatchOK
<1> QED BY <1>2, <1>5

(* A watch whose events go to a consumer.                                   *)
LEMMA ConsumedOK ==
  ASSUME NEW f, NEW seen \in [Watch -> SUBSET Events], NEW d, NEW c,
         FileOK(f, seen, d, c), NEW w \in Watch, f[w] # None
  PROVE  FileOK([f EXCEPT ![w].events = {}],
                [seen EXCEPT ![w] = @ \cup f[w].events], d, c)
<1> DEFINE r    == [f[w] EXCEPT !.events = {}]
           more == [seen EXCEPT ![w] = @ \cup f[w].events]
<1>1. f[w] \in FullRecords
  BY FullOK
<1>2. r \in FullRecords /\ r.from = f[w].from /\ r.link = f[w].link /\ r.events = {}
  BY <1>1 DEF FullRecords
<1>3. /\ more \in [Watch -> SUBSET Events] /\ more[w] = seen[w] \cup f[w].events
      /\ \A x \in Watch : seen[x] \subseteq more[x]
  BY <1>1 DEF FullRecords
<1> HIDE DEF r, more
<1>4. FileOK(f, more, d, c)
  BY <1>3 DEF FileOK
<1>5. r \in WatchRecords
  BY <1>2 DEF WatchRecords, FullRecords
<1>6. /\ r.link \in 1 .. c
      /\ \A i \in Item : r.from < d[i].changed /\ d[i].changed <= r.link
            => \E e \in r.events \cup more[w] : e.id = i /\ e.ver >= d[i].ver
  BY <1>2, <1>3 DEF FileOK
<1>7. FileOK([f EXCEPT ![w] = r], more, d, c)
  BY <1>4, <1>5, <1>6, OneWatchOK
<1> QED BY <1>7 DEF r, more

(* The changes since its cursor become a watch's events.                    *)
LEMMA NewEventsOK ==
  ASSUME IInv, NEW f, NEW w \in Watch, f[w] # None, FileOK(f, consumed, drive, clock)
  PROVE  FileOK([f EXCEPT ![w] = [f[w] EXCEPT
                   !.events = f[w].events \cup watchEvents(f[w].link), !.link = clock]],
                consumed, drive, clock)
<1> DEFINE new == watchEvents(f[w].link)
           r   == [f[w] EXCEPT !.events = f[w].events \cup new, !.link = clock]
<1>1. f[w] \in FullRecords
  BY FullOK
<1>3. clock \in Nat \ {0}
  BY DEF IInv, DriveOK
<1>4. new \subseteq Events
  <2>1. ChangedSince(f[w].link) \subseteq Item
    BY DEF ChangedSince
  <2>2. \A i \in Item : drive[i].ver \in Nat
    BY DEF IInv, DriveOK, DriveRecords
  <2> QED BY <2>1, <2>2 DEF watchEvents, Events
<1>5. /\ r \in FullRecords /\ r.from = f[w].from /\ r.link = clock
      /\ r.events = f[w].events \cup new
  <2>1. f[w].events \cup new \in SUBSET Events
    BY <1>1, <1>4 DEF FullRecords
  <2>2. PICK a \in SUBSET Events : a = f[w].events \cup new
    BY <2>1
  <2>3. r = [f[w] EXCEPT !.events = a, !.link = clock]
    BY <2>2
  <2> HIDE DEF new, r
  <2>4. clock \in Nat
    BY <1>3
  <2> QED BY <1>1, <2>2, <2>3, <2>4 DEF FullRecords
<1> HIDE DEF r
<1>6. ASSUME NEW i \in Item, r.from < drive[i].changed, drive[i].changed <= r.link
      PROVE  \E e \in r.events \cup consumed[w] : e.id = i /\ e.ver >= drive[i].ver
  <2>1. CASE drive[i].changed <= f[w].link
    BY <1>5, <1>6, <2>1 DEF FileOK
  <2>2. CASE drive[i].changed > f[w].link
    <3>1. f[w].link # Scratch
      BY <1>1, <1>3 DEF FileOK, Scratch
    <3>2. [id |-> i, ver |-> drive[i].ver] \in new
      BY <2>2, <3>1 DEF watchEvents, ChangedSince
    <3>3. drive[i].ver \in Nat
      BY DEF IInv, DriveOK, DriveRecords
    <3> QED BY <1>5, <3>2, <3>3
  <2>3. drive[i].changed \in Nat /\ f[w].link \in Nat
    BY <1>1 DEF IInv, DriveOK, DriveRecords, FullRecords
  <2> QED BY <2>1, <2>2, <2>3
<1>7. r.link \in 1 .. clock
  BY <1>3, <1>5
<1>8. r \in WatchRecords
  BY <1>5 DEF WatchRecords, FullRecords
<1>9. FileOK([f EXCEPT ![w] = r], consumed, drive, clock)
  BY <1>6, <1>7, <1>8, OneWatchOK
<1> QED BY <1>9 DEF r

LEMMA PollSteps ==
  ASSUME IInv, NEW t \in Task,
         pollWatch(t) \/ endPoll(t) \/ fetchChanges(t) \/ markWorkspacesStale(t)
  PROVE  IInv'
<1> DEFINE j == task[t]
<1>1. TaskOK(j, consumed, drive, clock) /\ timers \subseteq Watch
  BY DEF IInv
<1>2. CASE pollWatch(t)
  <2>1. PICK w \in timers :
          /\ timers' = timers \ {w}
          /\ GoTo(t, IF watchFile[w].status # "active" THEN Rest
                     ELSE [at |-> "fetch", watch |-> w, file |-> watchFile])
          /\ UNCHANGED <<driveVars, disk, loaded, tokens, drafts, used, history>>
    BY <1>2 DEF pollWatch
  <2>2. CASE watchFile[w].status # "active"
    BY <1>1, <2>1, <2>2, RestOK, OnlyGoesOn DEF disk
  <2>3. CASE watchFile[w].status = "active"
    <3>1. watchFile[w] # None
      BY <2>3 DEF None
    <3>2. TaskOK([at |-> "fetch", watch |-> w, file |-> watchFile],
                 consumed, drive, clock)
      BY <1>1, <3>1 DEF TaskOK, IInv
    <3> QED BY <1>1, <2>1, <2>3, <3>2, OnlyGoesOn DEF disk
  <2> QED BY <2>2, <2>3
<1>3. CASE endPoll(t)
  <2>1. PICK status \in {"expired", "error", "active"} :
          GoTo(t, [at |-> "save", watch |-> j.watch,
                   file |-> [j.file EXCEPT ![j.watch].status = status]])
    BY <1>3 DEF endPoll
  <2>2. FileOK([j.file EXCEPT ![j.watch].status = status], consumed, drive, clock)
    BY <1>1, <1>3, StatusOK DEF endPoll, TaskOK
  <2>3. TaskOK([at |-> "save", watch |-> j.watch,
                file |-> [j.file EXCEPT ![j.watch].status = status]],
               consumed, drive, clock)
    BY <1>1, <1>3, <2>2 DEF endPoll, TaskOK
  <2> QED BY <1>1, <1>3, <2>1, <2>3, OnlyGoesOn DEF endPoll, disk, memory
<1>4. CASE fetchChanges(t)
  <2> DEFINE f       == [j.file EXCEPT ![j.watch] = [j.file[j.watch] EXCEPT
                           !.events = j.file[j.watch].events
                                        \cup watchEvents(j.file[j.watch].link),
                           !.link = clock]]
             changed == {e.id : e \in watchEvents(j.file[j.watch].link)}
             next    == [at |-> IF changed = {} THEN "save" ELSE "mark",
                         watch |-> j.watch, changed |-> changed, file |-> f]
  <2>1. GoTo(t, next)
    BY <1>4 DEF fetchChanges, Polled
  <2>2. FileOK(f, consumed, drive, clock)
    BY <1>1, <1>4, NewEventsOK DEF fetchChanges, TaskOK
  <2>3. TaskOK(next, consumed, drive, clock)
    <3> HIDE DEF f, changed
    <3> QED BY <1>1, <1>4, <2>2 DEF fetchChanges, TaskOK
  <2> HIDE DEF next
  <2> QED BY <1>1, <1>4, <2>1, <2>3, OnlyGoesOn DEF fetchChanges, disk
<1>5. CASE markWorkspacesStale(t)
  <2>1. WorkOK(Marked(t))
    <3> SUFFICES ASSUME NEW k \in Workspace
                 PROVE  /\ Marked(t)[k] \in WorkRecords
                        /\ Marked(t)[k] # None => Marked(t)[k].ver <= Marked(t)[k].base
      BY DEF WorkOK, Marked
    <3>1. workFile[k] \in WorkRecords
          /\ (workFile[k] # None => workFile[k].ver <= workFile[k].base)
      BY DEF IInv, WorkOK
    <3>2. CASE Marked(t)[k] = workFile[k]
      BY <3>1, <3>2
    <3>3. CASE workFile[k] # None /\ Marked(t)[k] = [workFile[k] EXCEPT !.stale = TRUE]
      BY <3>1, <3>3 DEF WorkRecords
    <3> QED BY <3>2, <3>3 DEF Marked
  <2>2. TaskOK([at |-> "marked", watch |-> j.watch, file |-> j.file,
                marks |-> Marked(t)], consumed, drive, clock)
    BY <1>1, <1>5, <2>1 DEF markWorkspacesStale, TaskOK
  <2>3. TaskOK([at |-> "save", watch |-> j.watch, file |-> j.file],
               consumed, drive, clock)
    BY <1>1, <1>5 DEF markWorkspacesStale, TaskOK
  <2>4. \/ GoTo(t, [at |-> "marked", watch |-> j.watch, file |-> j.file,
                    marks |-> Marked(t)])
        \/ GoTo(t, [at |-> "save", watch |-> j.watch, file |-> j.file])
    BY <1>5 DEF markWorkspacesStale
  <2> QED BY <1>1, <1>5, <2>2, <2>3, <2>4, OnlyGoesOn
          DEF markWorkspacesStale, disk, memory
<1> QED BY <1>2, <1>3, <1>4, <1>5

LEMMA SaveSteps ==
  ASSUME IInv, NEW t \in Task, saveMarks(t) \/ savePoll(t) \/ saveStop(t)
  PROVE  IInv'
<1> DEFINE j == task[t]
<1>1. TaskOK(j, consumed, drive, clock) /\ timers \subseteq Watch
  BY DEF IInv
<1>2. CASE saveMarks(t)
  <2> DEFINE next == [at |-> "save", watch |-> j.watch, file |-> j.file]
  <2>1. WorkOK(workFile') /\ GoTo(t, next)
    BY <1>1, <1>2 DEF saveMarks, TaskOK, IInv
  <2>2. TaskOK(next, consumed, drive, clock)
    BY <1>1, <1>2 DEF saveMarks, TaskOK
  <2> HIDE DEF next
  <2> QED BY <1>1, <1>2, <2>1, <2>2, FilesSaved DEF saveMarks, memory, IInv
<1>3. CASE savePoll(t)
  <2>1. FileOK(watchFile', consumed, drive, clock)
    BY <1>1, <1>3 DEF savePoll, saveWatchState, TaskOK, IInv
  <2>2. timers' \subseteq Watch
    BY <1>1, <1>3 DEF savePoll, TaskOK
  <2> QED BY <1>3, <2>1, <2>2, RestOK, FilesSaved DEF savePoll, End, IInv
<1>4. CASE saveStop(t)
  <2>1. FileOK(watchFile', consumed, drive, clock)
    BY <1>1, <1>4 DEF saveStop, saveWatchState, TaskOK, IInv
  <2> QED BY <1>1, <1>4, <2>1, RestOK, FilesSaved DEF saveStop, End, memory, IInv
<1> QED BY <1>2, <1>3, <1>4

LEMMA WatchSteps ==
  ASSUME IInv, NEW t \in Task,
         watchStart(t) \/ addWatch(t) \/ watchStatus(t) \/ consumeEvents(t) \/ watchStop(t)
  PROVE  IInv'
<1> DEFINE j == task[t]
<1>1. TaskOK(j, consumed, drive, clock) /\ timers \subseteq Watch
      /\ ensureWatchesLoaded \subseteq Watch
      /\ FileOK(watchFile, consumed, drive, clock) /\ clock \in Nat \ {0}
  BY LoadedAreWatches DEF IInv, DriveOK
<1>2. CASE watchStart(t)
  <2>1. PICK w \in Watch \ used :
          GoTo(t, [at |-> "start", watch |-> w, from |-> clock])
    BY <1>2 DEF watchStart
  <2>2. TaskOK([at |-> "start", watch |-> w, from |-> clock], consumed, drive, clock)
    BY <1>1 DEF TaskOK
  <2> QED BY <1>1, <1>2, <2>1, <2>2, OnlyGoesOn DEF watchStart, disk
<1>3. CASE addWatch(t)
  <2> DEFINE r    == [status |-> "active", from |-> j.from, link |-> j.from,
                      events |-> {}]
             next == [at |-> "save", watch |-> j.watch,
                      file |-> [watchFile EXCEPT ![j.watch] = r]]
  <2>1. j.watch \in Watch /\ j.from \in 1 .. clock
    BY <1>1, <1>3 DEF addWatch, TaskOK
  <2>2. r \in WatchRecords /\ r.from = j.from /\ r.link = j.from
    BY <1>1, <2>1 DEF WatchRecords
  <2> HIDE DEF r
  <2>3. ASSUME NEW i \in Item
        PROVE  ~(r.from < drive[i].changed /\ drive[i].changed <= r.link)
    <3>1. drive[i].changed \in Nat
      BY DEF IInv, DriveOK, DriveRecords
    <3> QED BY <1>1, <2>1, <2>2, <3>1
  <2>4. FileOK([watchFile EXCEPT ![j.watch] = r], consumed, drive, clock)
    BY <1>1, <2>1, <2>2, <2>3, OneWatchOK
  <2>5. TaskOK(next, consumed, drive, clock)
    BY <2>1, <2>4 DEF TaskOK
  <2>6. GoTo(t, next)
    BY <1>3 DEF addWatch, r
  <2> HIDE DEF next
  <2> QED BY <1>1, <1>3, <2>5, <2>6, OnlyGoesOn DEF addWatch, disk, memory
<1>4. CASE watchStatus(t)
  <2>1. PICK w \in Watch :
          /\ watchFile[w] # None
          /\ GoTo(t, [at |-> "consume", watch |-> w, events |-> watchFile[w].events,
                      file |-> [watchFile EXCEPT ![w].events = {}]])
    BY <1>4 DEF watchStatus
  <2> DEFINE next == [at |-> "consume", watch |-> w, events |-> watchFile[w].events,
                      file |-> [watchFile EXCEPT ![w].events = {}]]
  <2>2. FileOK([watchFile EXCEPT ![w].events = {}],
               [consumed EXCEPT ![w] = @ \cup watchFile[w].events], drive, clock)
    BY <1>1, <2>1, ConsumedOK DEF IInv
  <2>3. watchFile[w].events \in SUBSET Events
    BY <1>1, <2>1, FullOK DEF FullRecords
  <2>4. TaskOK(next, consumed, drive, clock)
    BY <2>2, <2>3 DEF TaskOK
  <2> HIDE DEF next
  <2> QED BY <1>1, <1>4, <2>1, <2>4, OnlyGoesOn DEF watchStatus, disk, next
<1>5. CASE consumeEvents(t)
  <2>1. CASE UNCHANGED <<watchFile, consumed>>
    BY <1>1, <1>5, <2>1, RestOK, OnlyGoesOn
       DEF consumeEvents, End, memory, history
  <2>2. CASE /\ saveWatchState(t)
             /\ consumed' = [consumed EXCEPT ![j.watch] = @ \cup j.events]
    <3>1. /\ SeenGrows(consumed, consumed')
          /\ FileOK(watchFile', consumed', drive, clock)
      BY <1>1, <1>5, <2>2 DEF consumeEvents, saveWatchState, TaskOK, SeenGrows, IInv
    <3>2. /\ workFile' = workFile /\ timers' = timers /\ promoted' = promoted
          /\ UNCHANGED driveVars /\ GoTo(t, Rest)
      BY <1>5 DEF consumeEvents, End, memory
    <3>3. Advances /\ drive' = drive /\ clock' = clock
      BY <3>2, StaysAdvances DEF IInv, driveVars
    <3>4. PromotedOK'
      BY <3>2 DEF PromotedOK, PromoteLosesNothing, IInv
    <3> QED BY <1>1, <3>1, <3>2, <3>3, <3>4, RestOK, GoesOn DEF IInv
  <2> QED BY <1>5, <2>1, <2>2 DEF consumeEvents
<1>6. CASE watchStop(t)
  <2>1. PICK w \in Watch :
          /\ watchFile[w] # None
          /\ GoTo(t, [at |-> "stop", file |-> [watchFile EXCEPT ![w].status = "stopped"]])
          /\ timers' = ensureWatchesLoaded \ {w}
    BY <1>6 DEF watchStop
  <2>2. FileOK([watchFile EXCEPT ![w].status = "stopped"], consumed, drive, clock)
    BY <1>1, <2>1, StatusOK
  <2>3. TaskOK([at |-> "stop", file |-> [watchFile EXCEPT ![w].status = "stopped"]],
               consumed, drive, clock)
    BY <2>2 DEF TaskOK
  <2> QED BY <1>1, <1>6, <2>1, <2>3, OnlyGoesOn DEF watchStop, disk
<1> QED BY <1>2, <1>3, <1>4, <1>5, <1>6
------------------------------------------------------------------------------
(* Steps of workspaces.                                                     *)
LEMMA OneWorkspaceOK ==
  ASSUME NEW f, WorkOK(f), NEW k \in Workspace, NEW r \in WorkRecords,
         r # None => r.ver <= r.base
  PROVE  WorkOK([f EXCEPT ![k] = r])
<1> DEFINE g == [f EXCEPT ![k] = r]
<1>1. g \in [Workspace -> WorkRecords] /\ g[k] = r
      /\ \A x \in Workspace \ {k} : g[x] = f[x]
  BY DEF WorkOK
<1> HIDE DEF g
<1>2. WorkOK(g)
  BY <1>1 DEF WorkOK
<1> QED BY <1>2 DEF g

LEMMA CreateSteps ==
  ASSUME IInv, NEW t \in Task,
         workspaceCreate(t) \/ copySource(t) \/ keepWorkspaces(t) \/ workspaceAbandon(t)
  PROVE  IInv'
<1> DEFINE j == task[t]
<1>1. /\ TaskOK(j, consumed, drive, clock) /\ timers \subseteq Watch
      /\ WorkOK(workFile) /\ None \in WorkRecords
  BY DEF IInv, WorkRecords
<1>2. CASE workspaceCreate(t)
  <2>1. PICK k \in Workspace, i \in Item :
          GoTo(t, [at |-> "copy", work |-> k, source |-> i, ver |-> drive[i].ver])
    BY <1>2 DEF workspaceCreate
  <2>2. TaskOK([at |-> "copy", work |-> k, source |-> i, ver |-> drive[i].ver],
               consumed, drive, clock)
    BY DEF TaskOK, IInv, DriveOK, DriveRecords
  <2> QED BY <1>1, <1>2, <2>1, <2>2, OnlyGoesOn DEF workspaceCreate, disk, memory
<1>3. CASE copySource(t)
  <2> DEFINE r    == [status |-> "ready", source |-> j.source, ver |-> j.ver,
                      base |-> drive[j.source].ver, stale |-> FALSE]
             next == [at |-> "keep", made |-> {j.work},
                      file |-> [workFile EXCEPT ![j.work] = r]]
  <2>1. /\ j.work \in Workspace /\ j.source \in Item
        /\ j.ver \in Nat /\ j.ver <= drive[j.source].ver
    BY <1>1, <1>3 DEF copySource, TaskOK
  <2>2. r \in WorkRecords /\ r.ver <= r.base
    BY <2>1 DEF WorkRecords, IInv, DriveOK, DriveRecords
  <2>3. GoTo(t, next) \/ GoTo(t, Rest)
    BY <1>3 DEF copySource, End
  <2> HIDE DEF r
  <2>4. TaskOK(next, consumed, drive, clock)
    BY <1>1, <2>1, <2>2, OneWorkspaceOK DEF TaskOK
  <2> HIDE DEF next
  <2> QED BY <1>1, <1>3, <2>3, <2>4, RestOK, OnlyGoesOn DEF copySource, disk, memory
<1>4. CASE keepWorkspaces(t)
  <2>1. WorkOK(workFile')
    BY <1>1, <1>4 DEF keepWorkspaces, saveWorkspaceState, TaskOK
  <2> QED BY <1>1, <1>4, <2>1, RestOK, FilesSaved DEF keepWorkspaces, End, memory, IInv
<1>5. CASE workspaceAbandon(t)
  <2>1. PICK k \in Workspace :
          GoTo(t, [at |-> "keep", made |-> {}, file |-> [workFile EXCEPT ![k] = None]])
    BY <1>5 DEF workspaceAbandon
  <2>2. WorkOK([workFile EXCEPT ![k] = None])
    BY <1>1, OneWorkspaceOK
  <2>3. TaskOK([at |-> "keep", made |-> {}, file |-> [workFile EXCEPT ![k] = None]],
               consumed, drive, clock)
    BY <2>2 DEF TaskOK
  <2> QED BY <1>1, <1>5, <2>1, <2>3, OnlyGoesOn DEF workspaceAbandon, disk, memory
<1> QED BY <1>2, <1>3, <1>4, <1>5

(* A promotion changes the drive by a new version of its source.            *)
LEMMA PutDraftChange ==
  ASSUME IInv, NEW t \in Task, putDraft(t)
  PROVE  DriveChange
<1> DEFINE j == task[t]
           m == j.file[j.work]
<1>1. WorkOK(j.file) /\ j.work \in Workspace /\ m # None
  BY DEF putDraft, IInv, TaskOK
<1>2. m \in WorkRecords /\ m # None
  BY <1>1 DEF WorkOK
<1>3. m.source \in Item
  <2> HIDE DEF m
  <2>1. m \in [status : {"ready"}, source : Item, ver : Nat, base : Nat, stale : BOOLEAN]
    BY <1>2 DEF WorkRecords
  <2> QED BY <2>1
<1> DEFINE i == m.source
<1>4. \/ UNCHANGED driveVars
      \/ Place(i, drive[i].name, drive[i].parent) /\ clock' = clock + 1
  BY DEF putDraft, Manifest
<1>5. drive[i].name \in Name /\ drive[i].parent \in Folder \cup {Root}
  BY <1>3 DEF IInv, DriveOK, DriveRecords
<1> HIDE DEF i
<1>6. i \in Item
  BY <1>3 DEF i
<1> QED BY <1>4, <1>5, <1>6 DEF DriveChange

LEMMA PromoteSteps ==
  ASSUME IInv, NEW t \in Task,
         workspacePromote(t) \/ previewOrPromote(t) \/ putDraft(t) \/ verifyPromotion(t)
  PROVE  IInv'
<1> DEFINE j == task[t]
           m == j.file[j.work]
<1>1. /\ TaskOK(j, consumed, drive, clock) /\ timers \subseteq Watch
      /\ WorkOK(workFile) /\ None \in WorkRecords
  BY DEF IInv, WorkRecords
<1>2. CASE workspacePromote(t)
  <2>1. PICK k \in Workspace :
          /\ workFile[k] # None
          /\ GoTo(t, [at |-> "status", work |-> k, file |-> workFile])
    BY <1>2 DEF workspacePromote
  <2>2. TaskOK([at |-> "status", work |-> k, file |-> workFile], consumed, drive, clock)
    BY <1>1, <2>1 DEF TaskOK
  <2> QED BY <1>1, <1>2, <2>1, <2>2, OnlyGoesOn DEF workspacePromote, disk, memory
<1>3. ASSUME j.at \in {"status", "put", "verify"}
      PROVE  /\ WorkOK(j.file) /\ j.work \in Workspace
             /\ m.source \in Item /\ m.ver \in Nat /\ m.base \in Nat /\ m.ver <= m.base
             /\ j.at = "put" => j.ver = m.ver
  <2>1. WorkOK(j.file) /\ j.work \in Workspace /\ m # None
        /\ (j.at = "put" => j.ver = m.ver)
    BY <1>1, <1>3 DEF TaskOK
  <2>2. m \in WorkRecords /\ m.ver <= m.base
    BY <2>1 DEF WorkOK
  <2>3. m \in [status : {"ready"}, source : Item, ver : Nat, base : Nat, stale : BOOLEAN]
    BY <2>1, <2>2 DEF WorkRecords
  <2> HIDE DEF m
  <2> QED BY <2>1, <2>2, <2>3
<1>4. CASE previewOrPromote(t)
  <2> DEFINE next == [at |-> "put", work |-> j.work, ver |-> drive[m.source].ver,
                      file |-> j.file]
  <2>1. \/ GoTo(t, Rest)
        \/ GoTo(t, next) /\ drive[m.source].ver = m.ver
    BY <1>4 DEF previewOrPromote, End, promotionReady, Manifest
  <2>2. j.file[j.work] # None
    BY <1>1, <1>4 DEF previewOrPromote, TaskOK
  <2>3. drive[m.source].ver = m.ver => TaskOK(next, consumed, drive, clock)
    BY <1>3, <1>4, <2>2 DEF previewOrPromote, TaskOK
  <2>4. timers' \subseteq Watch /\ UNCHANGED <<driveVars, watchFile, workFile, history>>
    BY <1>1, <1>4 DEF previewOrPromote, disk
  <2> HIDE DEF next
  <2> QED BY <2>1, <2>3, <2>4, RestOK, OnlyGoesOn
<1>5. CASE putDraft(t)
  <2> DEFINE i    == m.source
             next == [at |-> "verify", work |-> j.work, ver |-> drive[i].ver + 1,
                      file |-> j.file]
  <2>1. CASE GoTo(t, Rest) /\ UNCHANGED <<driveVars, promoted>>
    BY <1>1, <1>5, <2>1, RestOK, OnlyGoesOn DEF putDraft, disk, memory, history
  <2>2. CASE /\ Unchanged(t) /\ GoTo(t, next)
             /\ Place(i, drive[i].name, drive[i].parent) /\ clock' = clock + 1
             /\ promoted' = promoted \cup {[over |-> drive[i].ver, base |-> m.base]}
    <3>1. drive[i].ver = j.ver
      BY <2>2 DEF Unchanged, Manifest
    <3>2. /\ i \in Item /\ m.base \in Nat /\ drive[i].ver <= m.base
          /\ drive[i].ver \in Nat /\ clock \in Nat \ {0}
      BY <1>3, <1>5, <3>1 DEF putDraft, IInv, DriveOK, DriveRecords
    <3>3. Advances
      BY <1>5, PutDraftChange, ChangeAdvances DEF IInv
    <3>4. PromotedOK'
      <4> HIDE DEF i, m
      <4> QED BY <2>2, <3>2 DEF PromotedOK, PromoteLosesNothing, IInv
    <3>5. TaskOK(next, consumed', drive', clock')
      BY <1>1, <1>3, <1>5 DEF putDraft, TaskOK
    <3>6. /\ watchFile' = watchFile /\ workFile' = workFile /\ timers' = timers
          /\ consumed' = consumed
      BY <1>5 DEF putDraft, disk, memory
    <3>7. SeenGrows(consumed, consumed')
      BY <3>6 DEF SeenGrows, IInv
    <3>8. FileOK(watchFile', consumed', drive', clock')
      BY <3>3, <3>6, <3>7, FileStays DEF IInv
    <3> HIDE DEF next
    <3> QED BY <1>1, <2>2, <3>3, <3>4, <3>5, <3>6, <3>7, <3>8, GoesOn
  <2> QED BY <1>5, <2>1, <2>2 DEF putDraft, End, Manifest
<1>6. CASE verifyPromotion(t)
  <2> DEFINE next == [at |-> "keep", made |-> {},
                      file |-> [j.file EXCEPT ![j.work] = None]]
  <2>1. GoTo(t, next) \/ GoTo(t, Rest)
    BY <1>6 DEF verifyPromotion, End
  <2>2. TaskOK(next, consumed, drive, clock)
    BY <1>1, <1>3, <1>6, OneWorkspaceOK DEF verifyPromotion, TaskOK
  <2> HIDE DEF next
  <2> QED BY <1>1, <1>6, <2>1, <2>2, RestOK, OnlyGoesOn DEF verifyPromotion, disk, memory
<1> QED BY <1>2, <1>4, <1>5, <1>6
------------------------------------------------------------------------------
LEMMA InitIInv == ASSUME Init PROVE IInv
<1>1. PICK start \in session.drives : DriveInit(start)
  BY DEF Init
<1>2. start \in [Item -> [at : {"live", "absent", "deleted"}, name : Name,
                         parent : Folder \cup {Root}]]
  BY <1>1, SessionAssumption DEF Init, SessionInit
<1>3. DriveOK
  <2>1. ASSUME NEW i \in Item
        PROVE  [at |-> start[i].at, name |-> start[i].name, parent |-> start[i].parent,
                ver |-> 1, changed |-> 1] \in DriveRecords
    BY <1>2 DEF DriveRecords
  <2> QED BY <1>1, <2>1 DEF DriveInit, DriveOK
<1>4. FileOK(watchFile, consumed, drive, clock) /\ WorkOK(workFile)
  BY DEF Init, WatchInit, FileOK, WorkOK, WatchRecords, WorkRecords
<1>5. DOMAIN task = Task /\ \A t \in Task : TaskOK(task[t], consumed, drive, clock)
  BY RestOK DEF Init, WatchInit
<1>6. PromotedOK /\ timers \subseteq Watch /\ consumed \in [Watch -> SUBSET Events]
  BY DEF Init, WatchInit, PromotedOK, PromoteLosesNothing
<1> QED BY <1>3, <1>4, <1>5, <1>6 DEF IInv

LEMMA RestartKeepsIInv == ASSUME IInv, Restart PROVE IInv'
<1>1. /\ drive' = drive /\ clock' = clock /\ watchFile' = watchFile
      /\ workFile' = workFile /\ consumed' = consumed /\ promoted' = promoted
      /\ timers' = {} /\ task' = [t \in Task |-> Rest]
  BY DEF Restart, driveVars, disk, history
<1>2. DOMAIN task' = Task /\ \A t \in Task : TaskOK(task'[t], consumed, drive, clock)
  BY <1>1, RestOK
<1> QED BY <1>1, <1>2 DEF IInv, DriveOK, PromotedOK, PromoteLosesNothing

(* What each step does to the drive.                                        *)
LEMMA TaskStepChange ==
  ASSUME IInv, NEW t \in Task, TaskStep(t)
  PROVE  DriveChange
<1>1. ASSUME pollWatch(t) \/ endPoll(t) \/ fetchChanges(t) \/ markWorkspacesStale(t)
             \/ saveMarks(t) \/ savePoll(t) \/ watchStart(t) \/ addWatch(t)
             \/ watchStatus(t) \/ consumeEvents(t)
      PROVE  UNCHANGED driveVars
  BY <1>1 DEF pollWatch, endPoll, fetchChanges, markWorkspacesStale, saveMarks,
              savePoll, watchStart, addWatch, watchStatus, consumeEvents
<1>2. ASSUME watchStop(t) \/ saveStop(t) \/ workspaceCreate(t) \/ copySource(t)
             \/ keepWorkspaces(t) \/ workspacePromote(t) \/ previewOrPromote(t)
             \/ verifyPromotion(t) \/ workspaceAbandon(t)
      PROVE  UNCHANGED driveVars
  BY <1>2 DEF watchStop, saveStop, workspaceCreate, copySource, keepWorkspaces,
              workspacePromote, previewOrPromote, verifyPromotion, workspaceAbandon
<1> QED BY <1>1, <1>2, PutDraftChange DEF TaskStep, DriveChange

LEMMA NextChange == ASSUME IInv, [Next]_vars PROVE DriveChange
<1>1. CASE UNCHANGED vars
  BY <1>1 DEF vars, DriveChange
<1>2. CASE OthersChange
  BY <1>2 DEF OthersChange, Tick, DriveChange
<1>3. ASSUME NEW c \in Call, CacheCall(c)
      PROVE  DriveChange
  BY <1>3, CacheCallChange DEF IInv
<1>4. ASSUME NEW c \in Call, ReadCall(c)
      PROVE  DriveChange
  BY <1>4, ReadCallStays DEF DriveChange
<1>5. CASE TimePasses \/ Restart
  BY <1>5 DEF TimePasses, Restart, DriveChange
<1>6. ASSUME NEW t \in Task, TaskStep(t)
      PROVE  DriveChange
  BY <1>6, TaskStepChange
<1> QED BY <1>1, <1>2, <1>3, <1>4, <1>5, <1>6 DEF Next

(* Every step keeps the invariant.                                          *)
LEMMA NextIInv == ASSUME IInv, [Next]_vars PROVE IInv'
<1>1. DriveOK
  BY DEF IInv
<1>2. CASE UNCHANGED vars
  BY <1>1, <1>2, StaysAdvances, DriveStep DEF vars
<1>3. CASE OthersChange
  BY <1>1, <1>3, NextChange, ChangeAdvances, DriveStep DEF OthersChange, Next
<1>4. ASSUME NEW c \in Call, CacheCall(c), UNCHANGED watchVars
      PROVE  IInv'
  BY <1>1, <1>4, CacheCallChange, ChangeAdvances, DriveStep
<1>7. ASSUME NEW c \in Call, ReadCall(c), UNCHANGED watchVars
      PROVE  IInv'
  BY <1>1, <1>7, ReadCallStays, StaysAdvances, DriveStep
<1>8. CASE TimePasses /\ UNCHANGED watchVars
  BY <1>1, <1>8, StaysAdvances, DriveStep DEF TimePasses
<1>5. CASE Restart
  BY <1>5, RestartKeepsIInv
<1>6. ASSUME NEW t \in Task, TaskStep(t)
      PROVE  IInv'
  BY <1>6, PollSteps, SaveSteps, WatchSteps, CreateSteps, PromoteSteps DEF TaskStep
<1> QED BY <1>2, <1>3, <1>4, <1>5, <1>6, <1>7, <1>8 DEF Next

(* The watches and workspaces in the files, and the copies that calls and   *)
(* polls have loaded and may still save, are in order at all times.         *)
THEOREM AllInOrder == Spec => []IInv
<1>1. Init => IInv
  BY InitIInv
<1>2. IInv /\ [Next]_vars => IInv'
  BY NextIInv
<1> QED BY <1>1, <1>2, PTL DEF Spec

(* Of every change between a watch's baseline and its stored cursor there   *)
(* is an event in the file or with a consumer, whatever polls, consumers,   *)
(* stops and restarts interleave and whichever saves fail (pollWatch,       *)
(* watchStatus, watchStop).                                                 *)
THEOREM NoChangeIsLost == Spec => []EveryChangeReported
<1>1. IInv => EveryChangeReported
  BY DEF IInv, FileOK, EveryChangeReported
<1> QED BY <1>1, AllInOrder, PTL

(* A promotion never writes over a version later than the one the draft was *)
(* copied from, also when the stale marks of the workspace were lost        *)
(* (workspaceCreate, workspacePromote).                                     *)
THEOREM NoEditIsOverwritten == Spec => []PromoteLosesNothing
<1>1. IInv => PromoteLosesNothing
  BY DEF IInv, PromotedOK
<1> QED BY <1>1, AllInOrder, PTL
------------------------------------------------------------------------------
LEMMA LeastNat ==
  ASSUME NEW S, S \subseteq Nat, S # {}
  PROVE  \E m \in S : \A k \in Nat : k < m => k \notin S
<1>1. IsWellFoundedOn(OpToRel(<, Nat), Nat)
  BY NatLessThanWellFounded
<1>2. PICK m \in S : \A k \in S : <<k, m>> \notin OpToRel(<, Nat)
  BY <1>1, WFMin
<1>3. ASSUME NEW k \in Nat, k < m, k \in S PROVE FALSE
  <2>1. <<k, m>> \in OpToRel(<, Nat)
    BY <1>3 DEF OpToRel
  <2> QED BY <1>2, <1>3, <2>1
<1> QED BY <1>3

------------------------------------------------------------------------------
(* Paths.                                                                   *)
LEMMA BelowIs ==
  ASSUME NEW T, NEW p \in Seq(T), NEW q \in Seq(T)
  PROVE  Below(p, q) <=> Len(p) < Len(q) /\ \A k \in 1 .. Len(p) : q[k] = p[k]
<1>1. ASSUME Len(p) < Len(q)
      PROVE  /\ SubSeq(q, 1, Len(p)) \in Seq(T) /\ Len(SubSeq(q, 1, Len(p))) = Len(p)
             /\ \A k \in 1 .. Len(p) : SubSeq(q, 1, Len(p))[k] = q[k]
  BY <1>1
<1>2. ASSUME Len(p) < Len(q), \A k \in 1 .. Len(p) : q[k] = p[k]
      PROVE  SubSeq(q, 1, Len(p)) = p
  BY <1>1, <1>2, SeqEqual
<1> QED BY <1>1, <1>2 DEF Below

LEMMA BelowAppend ==
  ASSUME NEW T, NEW p \in Seq(T), NEW q \in Seq(T), NEW x \in T
  PROVE  Below(p, Append(q, x)) <=> p = q \/ Below(p, q)
<1>1. Append(q, x) \in Seq(T) /\ Len(Append(q, x)) = Len(q) + 1
      /\ \A k \in 1 .. Len(q) : Append(q, x)[k] = q[k]
  BY AppendProperties
<1>2. Below(p, Append(q, x)) <=>
        Len(p) <= Len(q) /\ \A k \in 1 .. Len(p) : q[k] = p[k]
  <2> DEFINE a == Append(q, x)
  <2>1. Below(p, a) <=> Len(p) < Len(a) /\ \A k \in 1 .. Len(p) : a[k] = p[k]
    BY <1>1, BelowIs
  <2> HIDE DEF a
  <2>2. Len(a) = Len(q) + 1 /\ \A k \in 1 .. Len(q) : a[k] = q[k]
    BY <1>1 DEF a
  <2>3. Len(p) < Len(a) <=> Len(p) <= Len(q)
    BY <2>2
  <2>4. Len(p) <= Len(q) => \A k \in 1 .. Len(p) : a[k] = q[k]
    BY <2>2
  <2>5. Below(p, a) <=> Len(p) <= Len(q) /\ \A k \in 1 .. Len(p) : q[k] = p[k]
    BY <2>1, <2>3, <2>4
  <2> QED BY <2>5 DEF a
<1>3. p = q => Below(p, Append(q, x))
  BY <1>2
<1>4. ASSUME Below(p, Append(q, x)), ~Below(p, q) PROVE p = q
  <2>1. Len(p) = Len(q) /\ \A k \in 1 .. Len(p) : q[k] = p[k]
    BY <1>2, <1>4, BelowIs
  <2> QED BY <2>1, SeqEqual
<1> QED BY <1>2, <1>3, <1>4, BelowIs

LEMMA BelowBelow ==
  ASSUME NEW T, NEW p \in Seq(T), NEW q \in Seq(T), NEW r \in Seq(T), Below(p, q), Below(q, r)
  PROVE  Below(p, r)
<1>1. /\ Len(p) < Len(q) /\ \A k \in 1 .. Len(p) : q[k] = p[k]
      /\ Len(q) < Len(r) /\ \A k \in 1 .. Len(q) : r[k] = q[k]
  BY BelowIs
<1>2. \A k \in 1 .. Len(p) : k \in 1 .. Len(q)
  BY <1>1
<1> QED BY <1>1, <1>2, BelowIs

LEMMA AboveOne ==
  ASSUME NEW T, NEW p \in Seq(T), NEW q \in Seq(T), NEW r \in Seq(T), Below(p, r), Below(q, r)
  PROVE  p = q \/ Below(p, q) \/ Below(q, p)
<1>1. /\ Len(p) < Len(r) /\ \A k \in 1 .. Len(p) : r[k] = p[k]
      /\ Len(q) < Len(r) /\ \A k \in 1 .. Len(q) : r[k] = q[k]
  BY BelowIs
<1>2. CASE Len(p) = Len(q)
  BY <1>1, <1>2, SeqEqual
<1>3. CASE Len(p) < Len(q)
  BY <1>1, <1>3, BelowIs
<1>4. CASE Len(q) < Len(p)
  BY <1>1, <1>4, BelowIs
<1> QED BY <1>2, <1>3, <1>4

(* A path that was at or below another, below a third instead.              *)
Moved(q, old, new) == new \o SubSeq(q, Len(old) + 1, Len(q))

MovedOK(T, q, old, new, m) ==
  /\ m \in Seq(T) /\ Len(m) = Len(new) + (Len(q) - Len(old))
  /\ \A k \in 1 .. Len(new) : m[k] = new[k]
  /\ \A k \in 1 .. Len(q) - Len(old) : m[Len(new) + k] = q[Len(old) + k]

LEMMA MovedIs ==
  ASSUME NEW T, NEW q \in Seq(T), NEW old \in Seq(T), NEW new \in Seq(T),
         q = old \/ Below(old, q)
  PROVE  MovedOK(T, q, old, new, Moved(q, old, new))
<1> DEFINE s == SubSeq(q, Len(old) + 1, Len(q))
<1>1. Len(old) <= Len(q)
  BY BelowIs
<1>2. s \in Seq(T) /\ Len(s) = Len(q) - Len(old)
      /\ \A k \in 1 .. Len(q) - Len(old) : s[k] = q[Len(old) + k]
  BY <1>1
<1> HIDE DEF s
<1>3. /\ new \o s \in Seq(T) /\ Len(new \o s) = Len(new) + Len(s)
      /\ \A k \in 1 .. Len(new) + Len(s) :
           (new \o s)[k] = IF k <= Len(new) THEN new[k] ELSE s[k - Len(new)]
  BY <1>2, ConcatProperties
<1>4. Moved(q, old, new) = new \o s
  BY DEF Moved, s
<1>5. ASSUME NEW k \in 1 .. Len(q) - Len(old)
      PROVE  (new \o s)[Len(new) + k] = q[Len(old) + k]
  <2>1. Len(new) + k \in 1 .. Len(new) + Len(s) /\ ~(Len(new) + k <= Len(new))
        /\ Len(new) + k - Len(new) = k
    BY <1>2
  <2>2. (new \o s)[Len(new) + k] = s[k]
    BY <1>3, <2>1
  <2> QED BY <1>2, <2>2
<1>6. \A k \in 1 .. Len(new) : k \in 1 .. Len(new) + Len(s) /\ k <= Len(new)
  BY <1>2
<1> QED BY <1>2, <1>3, <1>4, <1>5, <1>6 DEF MovedOK

LEMMA MovedAppend ==
  ASSUME NEW T, NEW q \in Seq(T), NEW old \in Seq(T), NEW new \in Seq(T), NEW x \in T,
         q = old \/ Below(old, q)
  PROVE  Moved(Append(q, x), old, new) = Append(Moved(q, old, new), x)
<1> DEFINE a == Append(q, x)
           m == Moved(q, old, new)
<1>1. /\ a \in Seq(T) /\ Len(a) = Len(q) + 1 /\ a[Len(q) + 1] = x
      /\ \A k \in 1 .. Len(q) : a[k] = q[k]
  BY AppendProperties
<1>2. Below(old, a)
  BY BelowAppend
<1> HIDE DEF a
<1>3. Len(old) <= Len(q)
  BY BelowIs
<1>4. /\ m \in Seq(T) /\ Len(m) = Len(new) + (Len(q) - Len(old))
      /\ \A k \in 1 .. Len(new) : m[k] = new[k]
      /\ \A k \in 1 .. Len(q) - Len(old) : m[Len(new) + k] = q[Len(old) + k]
  <2>1. MovedOK(T, q, old, new, m)
    BY MovedIs
  <2> HIDE DEF m
  <2> QED BY <2>1 DEF MovedOK
<1> HIDE DEF m
<1>5. /\ Append(m, x) \in Seq(T) /\ Len(Append(m, x)) = Len(m) + 1 /\ Append(m, x)[Len(m) + 1] = x
      /\ \A k \in 1 .. Len(m) : Append(m, x)[k] = m[k]
  BY <1>4, AppendProperties
<1>6. /\ Moved(a, old, new) \in Seq(T)
      /\ Len(Moved(a, old, new)) = Len(new) + (Len(a) - Len(old))
      /\ \A k \in 1 .. Len(new) : Moved(a, old, new)[k] = new[k]
      /\ \A k \in 1 .. Len(a) - Len(old) : Moved(a, old, new)[Len(new) + k] = a[Len(old) + k]
  <2> DEFINE n == Moved(a, old, new)
  <2>1. MovedOK(T, a, old, new, n)
    BY <1>1, <1>2, MovedIs
  <2> HIDE DEF n
  <2>2. /\ n \in Seq(T)
        /\ Len(n) = Len(new) + (Len(a) - Len(old))
        /\ \A k \in 1 .. Len(new) : n[k] = new[k]
        /\ \A k \in 1 .. Len(a) - Len(old) : n[Len(new) + k] = a[Len(old) + k]
    BY <2>1 DEF MovedOK
  <2> QED BY <2>2 DEF n
<1> HIDE DEF Moved
<1>7. Len(Moved(a, old, new)) = Len(Append(m, x))
  BY <1>1, <1>3, <1>4, <1>5, <1>6
<1>8. ASSUME NEW k \in 1 .. Len(Append(m, x)) PROVE Moved(a, old, new)[k] = Append(m, x)[k]
  <2>1. CASE k <= Len(new)
    BY <1>4, <1>5, <1>6, <2>1, <1>3
  <2>2. CASE k > Len(new) /\ k <= Len(m)
    <3> DEFINE n == k - Len(new)
    <3>1. n \in 1 .. Len(q) - Len(old) /\ n \in 1 .. Len(a) - Len(old) /\ k = Len(new) + n
          /\ Len(old) + n \in 1 .. Len(q) /\ k \in 1 .. Len(m)
      BY <1>1, <1>3, <1>4, <2>2
    <3> HIDE DEF n
    <3> QED BY <1>1, <1>4, <1>5, <1>6, <3>1
  <2>3. CASE k = Len(m) + 1
    <3> DEFINE n == Len(a) - Len(old)
    <3>1. n \in 1 .. Len(a) - Len(old) /\ k = Len(new) + n /\ Len(old) + n = Len(q) + 1
      BY <1>1, <1>3, <1>4, <2>3
    <3> HIDE DEF n
    <3> QED BY <1>1, <1>5, <1>6, <2>3, <3>1
  <2>4. k <= Len(new) \/ (k > Len(new) /\ k <= Len(m)) \/ k = Len(m) + 1
    <3>1. Len(new) \in Nat /\ Len(m) \in Nat /\ k \in 1 .. Len(m) + 1
      BY <1>4, <1>5
    <3> QED BY <3>1
  <2> QED BY <2>1, <2>2, <2>3, <2>4
<1>9. Moved(a, old, new) = Append(m, x)
  BY <1>5, <1>6, <1>7, <1>8, SeqEqual
<1> QED BY <1>9 DEF a, m

LEMMA MovedBelow ==
  ASSUME NEW T, NEW q \in Seq(T), NEW old \in Seq(T), NEW new \in Seq(T), Below(old, q)
  PROVE  Below(new, Moved(q, old, new))
<1>1. Len(old) < Len(q)
  BY BelowIs
<1>2. MovedOK(T, q, old, new, Moved(q, old, new))
  BY MovedIs
<1> QED BY <1>1, <1>2, BelowIs DEF MovedOK

LEMMA MovedOne ==
  ASSUME NEW T, NEW q \in Seq(T), NEW r \in Seq(T), NEW old \in Seq(T), NEW new \in Seq(T),
         q = old \/ Below(old, q), r = old \/ Below(old, r),
         Moved(q, old, new) = Moved(r, old, new)
  PROVE  q = r
<1>1. Len(old) <= Len(q) /\ Len(old) <= Len(r)
      /\ (\A k \in 1 .. Len(old) : q[k] = old[k]) /\ \A k \in 1 .. Len(old) : r[k] = old[k]
  BY BelowIs
<1> DEFINE m == Moved(q, old, new)
<1>4. MovedOK(T, q, old, new, m) /\ MovedOK(T, r, old, new, m)
  BY MovedIs
<1> HIDE DEF m
<1>2. Len(q) = Len(r)
  BY <1>1, <1>4 DEF MovedOK
<1>3. ASSUME NEW k \in 1 .. Len(q) PROVE q[k] = r[k]
  <2>1. CASE k <= Len(old)
    BY <1>1, <2>1
  <2>2. CASE k > Len(old)
    <3> DEFINE n == k - Len(old)
    <3>1. n \in 1 .. Len(q) - Len(old) /\ n \in 1 .. Len(r) - Len(old) /\ k = Len(old) + n
      BY <1>1, <1>2, <2>2
    <3> HIDE DEF n
    <3>2. m[Len(new) + n] = q[Len(old) + n] /\ m[Len(new) + n] = r[Len(old) + n]
      BY <1>4, <3>1 DEF MovedOK
    <3> QED BY <3>1, <3>2
  <2> QED BY <2>1, <2>2
<1> QED BY <1>2, <1>3, SeqEqual

LEMMA AppendOne ==
  ASSUME NEW T, NEW p \in Seq(T), NEW q \in Seq(T), NEW x \in T, NEW y \in T,
         Append(p, x) = Append(q, y)
  PROVE  p = q /\ x = y
BY AppendInjective

LEMMA AppendNotEmpty ==
  ASSUME NEW T, NEW p \in Seq(T), NEW x \in T
  PROVE  Append(p, x) # <<>> /\ Append(p, x) # p /\ Append(p, x) \in Seq(T)
<1>1. Append(p, x) \in Seq(T) /\ Len(Append(p, x)) = Len(p) + 1
  BY AppendProperties
<1>2. Len(<<>>) = 0
  BY EmptySeq
<1> QED BY <1>1, <1>2
------------------------------------------------------------------------------
(* The drive is a tree.                                                     *)
Founded(d) == \A S \in SUBSET Item : S # {} => \E i \in S : d[i].parent \notin S

DriveTree(d) ==
  /\ \A i \in Item : d[i].at = "live" /\ d[i].parent # Root => d[d[i].parent].at = "live"
  /\ \A i, j \in Item : /\ i # j /\ d[i].at = "live" /\ d[j].at = "live"
                        /\ d[i].parent = d[j].parent
                        => d[i].name # d[j].name
  /\ Founded(d)

PathStep(d, S, f) ==
  [i \in S \cup {Root} |-> IF i = Root THEN <<>> ELSE Append(f[d[i].parent], d[i].name)]

LEMMA PathsOne ==
  ASSUME NEW d \in [Item -> DriveRecords], DriveAssumption, Founded(d),
         NEW f, NEW g, f = PathStep(d, Item, f), g = PathStep(d, Item, g)
  PROVE  f = g
<1> DEFINE S == {i \in Item : f[i] # g[i]}
<1>1. /\ DOMAIN f = Item \cup {Root} /\ DOMAIN g = Item \cup {Root}
      /\ f = [i \in Item \cup {Root} |-> f[i]] /\ g = [i \in Item \cup {Root} |-> g[i]]
      /\ f[Root] = <<>> /\ g[Root] = <<>> /\ Root \notin Item
      /\ \A i \in Item : /\ f[i] = Append(f[d[i].parent], d[i].name)
                         /\ g[i] = Append(g[d[i].parent], d[i].name)
  BY DEF PathStep, DriveAssumption
<1>2. ASSUME S # {} PROVE FALSE
  <2>1. PICK i \in S : d[i].parent \notin S
    BY <1>2 DEF Founded
  <2>2. d[i].parent \in Item \cup {Root}
    BY <2>1, DriveAssumption DEF DriveRecords, DriveAssumption
  <2>3. f[d[i].parent] = g[d[i].parent]
    BY <1>1, <2>1, <2>2
  <2> QED BY <1>1, <2>1, <2>3
<1> QED BY <1>1, <1>2

LEMMA PathsExist ==
  ASSUME NEW d \in [Item -> DriveRecords], DriveAssumption, Founded(d)
  PROVE  \E f \in [Item \cup {Root} -> Seq(Name)] : f = PathStep(d, Item, f)
<1> DEFINE G == {S \in SUBSET Item :
                   /\ \A i \in S : d[i].parent \in S \cup {Root}
                   /\ \E f \in [S \cup {Root} -> Seq(Name)] : f = PathStep(d, S, f)}
           N == {Cardinality(Item \ S) : S \in G}
<1>1. {} \in G
  <2> DEFINE f == [i \in {Root} |-> <<>>]
  <2>1. f \in [{} \cup {Root} -> Seq(Name)] /\ f = PathStep(d, {}, f)
    BY DEF PathStep
  <2> QED BY <2>1
<1>2. N # {} /\ N \subseteq Nat
  <2>1. \A S \in SUBSET Item : Cardinality(Item \ S) \in Nat
    BY FS_Difference, FS_CardinalityType DEF DriveAssumption
  <2>2. G \subseteq SUBSET Item
    OBVIOUS
  <2> HIDE DEF G
  <2>3. Cardinality(Item \ {}) \in N
    BY <1>1
  <2>4. N \subseteq Nat
    <3>1. \A S \in G : Cardinality(Item \ S) \in Nat
      BY <2>1, <2>2
    <3> QED BY <3>1
  <2> HIDE DEF N
  <2> QED BY <2>3, <2>4
<1>3. PICK m \in N : \A k \in Nat : k < m => k \notin N
  <2> HIDE DEF N
  <2> QED BY <1>2, LeastNat
<1>4. PICK S \in G : m = Cardinality(Item \ S)
  BY <1>3
<1>5. ASSUME S # Item PROVE FALSE
  <2>1. Item \ S # {} /\ Item \ S \in SUBSET Item
    BY <1>4, <1>5
  <2>2. PICK i \in Item \ S : d[i].parent \notin Item \ S
    BY <2>1 DEF Founded
  <2>3. d[i].parent \in S \cup {Root} /\ d[i].name \in Name /\ i # Root
    BY <2>2 DEF DriveRecords, DriveAssumption
  <2>4. PICK f \in [S \cup {Root} -> Seq(Name)] : f = PathStep(d, S, f)
    BY <1>4
  <2>5. \A j \in S : d[j].parent \in S \cup {Root} /\ j # Root
    BY <1>4 DEF DriveAssumption
  <2> DEFINE R == S \cup {i}
             x == Append(f[d[i].parent], d[i].name)
             g == [j \in R \cup {Root} |-> IF j = i THEN x ELSE f[j]]
  <2>6. x \in Seq(Name)
    BY <2>3, <2>4, AppendProperties
  <2>7. g \in [R \cup {Root} -> Seq(Name)]
    <3> HIDE DEF x
    <3> QED BY <2>4, <2>6
  <2>8. \A j \in S \cup {Root} : g[j] = f[j]
    BY <2>2, <2>3
  <2>9. ASSUME NEW j \in R \cup {Root}
        PROVE  g[j] = IF j = Root THEN <<>> ELSE Append(g[d[j].parent], d[j].name)
    <3>1. CASE j = i
      <4>1. g[d[i].parent] = f[d[i].parent]
        BY <2>3, <2>8
      <4> QED BY <2>3, <3>1, <4>1
    <3>2. CASE j # i
      <4>1. f[j] = IF j = Root THEN <<>> ELSE Append(f[d[j].parent], d[j].name)
        BY <2>4, <2>9, <3>2 DEF PathStep
      <4>2. j # Root => g[d[j].parent] = f[d[j].parent]
        BY <2>5, <2>8, <2>9, <3>2
      <4>3. g[j] = f[j]
        BY <2>8, <2>9, <3>2
      <4> HIDE DEF g
      <4> QED BY <4>1, <4>2, <4>3
    <3> QED BY <3>1, <3>2
  <2>10. g = PathStep(d, R, g)
    <3>1. g = [j \in R \cup {Root} |-> g[j]]
      OBVIOUS
    <3> HIDE DEF g, R
    <3> QED BY <2>9, <3>1 DEF PathStep
  <2>11. R \in G
    <3>1. \A j \in R : d[j].parent \in R \cup {Root}
      BY <2>3, <2>5
    <3>2. R \in SUBSET Item
      BY <1>4
    <3> HIDE DEF g, R
    <3> QED BY <2>7, <2>10, <3>1, <3>2
  <2>12. Cardinality(Item \ R) = m - 1 /\ m - 1 \in Nat /\ m - 1 < m
    <3>1. Item \ R = (Item \ S) \ {i}
      OBVIOUS
    <3>2. IsFiniteSet(Item \ S)
      BY FS_Difference DEF DriveAssumption
    <3>3. Cardinality((Item \ S) \ {i}) = Cardinality(Item \ S) - 1
          /\ Cardinality(Item \ S) \in Nat /\ Cardinality((Item \ S) \ {i}) \in Nat
      BY <2>2, <3>2, FS_RemoveElement, FS_CardinalityType
    <3>4. m = Cardinality(Item \ S)
      BY <1>4
    <3> HIDE DEF G, R, N
    <3>5. Cardinality(Item \ R) = Cardinality((Item \ S) \ {i})
      BY <3>1
    <3> QED BY <3>3, <3>4, <3>5
  <2>13. m - 1 \in N
    <3> HIDE DEF G, R
    <3> QED BY <2>11, <2>12
  <2> HIDE DEF N
  <2> QED BY <1>3, <2>12, <2>13
<1> QED BY <1>4, <1>5

PathsOf(d) ==
  LET to[j \in Item \cup {Root}] ==
        IF j = Root THEN <<>> ELSE Append(to[d[j].parent], d[j].name)
  IN to

LEMMA PathsAre ==
  ASSUME NEW d \in [Item -> DriveRecords], DriveAssumption, Founded(d)
  PROVE  /\ PathsOf(d) \in [Item \cup {Root} -> Seq(Name)] /\ PathsOf(d)[Root] = <<>>
         /\ \A i \in Item : PathsOf(d)[i] = Append(PathsOf(d)[d[i].parent], d[i].name)
         /\ PathsOf(d) = PathStep(d, Item, PathsOf(d))
<1> DEFINE step(f) == [j \in Item \cup {Root} |->
                         IF j = Root THEN <<>> ELSE Append(f[d[j].parent], d[j].name)]
           to == CHOOSE f : f = step(f)
<1>1. PathsOf(d) = to
  BY DEF PathsOf
<1>2. PICK g \in [Item \cup {Root} -> Seq(Name)] : g = PathStep(d, Item, g)
  BY PathsExist
<1>3. g = step(g)
  BY <1>2 DEF PathStep
<1>4. to = step(to)
  BY <1>3
<1> HIDE DEF to
<1>5. to = PathStep(d, Item, to)
  BY <1>4 DEF PathStep
<1>6. to = g
  BY <1>2, <1>5, PathsOne
<1> QED BY <1>1, <1>2, <1>5, <1>6 DEF PathStep, DriveAssumption

LEMMA PathOfIs == PathOf = PathsOf(drive) /\ PathOf' = PathsOf(drive')
BY DEF PathOf, PathsOf

LEMMA PathsStay ==
  ASSUME NEW d \in [Item -> DriveRecords], NEW e \in [Item -> DriveRecords],
         DriveAssumption, Founded(d), Founded(e),
         \A i \in Item : e[i].name = d[i].name /\ e[i].parent = d[i].parent
  PROVE  PathsOf(e) = PathsOf(d)
<1>1. PathsOf(d) = PathStep(d, Item, PathsOf(d)) /\ PathsOf(e) = PathStep(e, Item, PathsOf(e))
  BY PathsAre
<1>2. PathStep(e, Item, PathsOf(e)) = PathStep(d, Item, PathsOf(e))
  BY DEF PathStep
<1> QED BY <1>1, <1>2, PathsOne

LEMMA PathsDiffer ==
  ASSUME NEW d \in [Item -> DriveRecords], DriveAssumption, DriveTree(d),
         NEW i \in Item, NEW j \in Item, d[i].at = "live", d[j].at = "live",
         PathsOf(d)[i] = PathsOf(d)[j]
  PROVE  i = j
<1> DEFINE P == PathsOf(d)
           S == {a \in Item : d[a].at = "live" /\ \E b \in Item : d[b].at = "live" /\ b # a /\ P[a] = P[b]}
<1>1. /\ P \in [Item \cup {Root} -> Seq(Name)] /\ P[Root] = <<>>
      /\ \A a \in Item : P[a] = Append(P[d[a].parent], d[a].name)
  BY PathsAre DEF DriveTree
<1> HIDE DEF P
<1>2. ASSUME S # {} PROVE FALSE
  <2>1. PICK a \in S : d[a].parent \notin S
    BY <1>2 DEF DriveTree, Founded
  <2>2. PICK b \in Item : d[b].at = "live" /\ b # a /\ P[a] = P[b]
    BY <2>1
  <2> DEFINE p == d[a].parent
             q == d[b].parent
  <2>3. /\ a \in Item /\ d[a].at = "live"
        /\ p \in Item \cup {Root} /\ q \in Item \cup {Root}
        /\ d[a].name \in Name /\ d[b].name \in Name
        /\ P[p] \in Seq(Name) /\ P[q] \in Seq(Name)
    BY <1>1, <2>1, <2>2 DEF DriveRecords, DriveAssumption
  <2>4. P[p] = P[q] /\ d[a].name = d[b].name
    <3>1. Append(P[p], d[a].name) = Append(P[q], d[b].name)
      BY <1>1, <2>2, <2>3
    <3>2. \A u, v \in Seq(Name) : \A x, y \in Name : Append(u, x) = Append(v, y) => u = v /\ x = y
      BY AppendOne
    <3> DEFINE u == P[p]
               v == P[q]
    <3>3. u \in Seq(Name) /\ v \in Seq(Name) /\ Append(u, d[a].name) = Append(v, d[b].name)
      BY <2>3, <3>1
    <3> HIDE DEF u, v
    <3>4. u = v /\ d[a].name = d[b].name
      BY <2>3, <3>2, <3>3
    <3> QED BY <3>4 DEF u, v
  <2>5. p # q
    BY <2>2, <2>3, <2>4 DEF DriveTree
  <2>6. ASSUME NEW c \in Item, P[c] = <<>> PROVE FALSE
    <3>1. d[c].parent \in Item \cup {Root} /\ d[c].name \in Name
      BY DEF DriveRecords, DriveAssumption
    <3>2. P[c] = Append(P[d[c].parent], d[c].name) /\ P[d[c].parent] \in Seq(Name)
      BY <1>1, <3>1
    <3> QED BY <2>6, <3>1, <3>2, AppendNotEmpty
  <2>7. p # Root /\ q # Root
    BY <1>1, <2>3, <2>4, <2>5, <2>6
  <2>8. d[p].at = "live" /\ d[q].at = "live" /\ p \in Item /\ q \in Item
    BY <2>2, <2>3, <2>7 DEF DriveTree
  <2> QED BY <2>1, <2>4, <2>5, <2>8
<1>3. i \in S \/ i = j
  BY DEF P
<1> QED BY <1>2, <1>3

(* What is above the path of an item that is there is the path of another.  *)
LEMMA PathAbove ==
  ASSUME NEW d \in [Item -> DriveRecords], DriveAssumption, DriveTree(d),
         NEW i \in Item, d[i].at = "live", NEW p \in Seq(Name), p # <<>>,
         Below(p, PathsOf(d)[i])
  PROVE  \E a \in Item : d[a].at = "live" /\ PathsOf(d)[a] = p
<1> DEFINE P == PathsOf(d)
           S == {a \in Item : d[a].at = "live" /\ Below(p, P[a])
                              /\ ~\E b \in Item : d[b].at = "live" /\ P[b] = p}
<1>1. /\ P \in [Item \cup {Root} -> Seq(Name)] /\ P[Root] = <<>>
      /\ \A a \in Item : P[a] = Append(P[d[a].parent], d[a].name)
  BY PathsAre DEF DriveTree
<1> HIDE DEF P
<1>2. ASSUME S # {} PROVE FALSE
  <2>1. PICK a \in S : d[a].parent \notin S
    BY <1>2 DEF DriveTree, Founded
  <2> DEFINE q == d[a].parent
  <2>3. /\ a \in Item /\ d[a].at = "live" /\ q \in Item \cup {Root}
        /\ d[a].name \in Name /\ P[q] \in Seq(Name)
    BY <1>1, <2>1 DEF DriveRecords, DriveAssumption
  <2>4. p = P[q] \/ Below(p, P[q])
    <3>1. \A u, v \in Seq(Name) : \A x \in Name : Below(u, Append(v, x)) => u = v \/ Below(u, v)
      BY BelowAppend
    <3>2. P[a] = Append(P[q], d[a].name)
      BY <1>1, <2>3
    <3> HIDE DEF q
    <3> QED BY <2>1, <2>3, <3>1, <3>2
  <2>5. q # Root
    <3>1. ~Below(p, <<>>)
      BY EmptySeq DEF Below
    <3> QED BY <1>1, <2>4, <3>1
  <2>6. q \in Item /\ d[q].at = "live"
    BY <2>3, <2>5 DEF DriveTree
  <2> QED BY <2>1, <2>4, <2>6
<1>3. i \in S \/ \E a \in Item : d[a].at = "live" /\ P[a] = p
  BY DEF P
<1> QED BY <1>2, <1>3 DEF P

LEMMA PathsKnown == ASSUME NEW p \in Seq(Name) PROVE p # NoPath
<1>1. ASSUME p = NoPath PROVE FALSE
  <2>1. Len(p) = 1 /\ p[1] = "?"
    BY <1>1 DEF NoPath
  <2>2. "?" \in Name
    BY <2>1
  <2> QED BY <2>2, NameAssumption DEF NameAssumption, NoPath
<1> QED BY <1>1
(* Being inside a folder goes from parent to child.                         *)
LEMMA InsideParent ==
  ASSUME DriveOK, DriveTree(drive), NEW i \in Item, NEW j \in Item, Live(i), Live(j), i # j
  PROVE  Inside(j, i) <=> \/ drive[j].parent = i
                          \/ drive[j].parent # Root /\ Inside(drive[j].parent, i)
<1> DEFINE P == PathOf
           q == drive[j].parent
<1>1. /\ P = PathsOf(drive) /\ drive \in [Item -> DriveRecords] /\ Founded(drive)
  BY PathOfIs DEF DriveOK, DriveTree
<1>2. /\ P \in [Item \cup {Root} -> Seq(Name)] /\ P[Root] = <<>>
      /\ P[j] = Append(P[q], drive[j].name) /\ P[i] = Append(P[drive[i].parent], drive[i].name)
  BY <1>1, DriveAssumption, PathsAre
<1> HIDE DEF P
<1>3. /\ q \in Item \cup {Root} /\ drive[j].name \in Name /\ drive[i].name \in Name
      /\ drive[i].parent \in Item \cup {Root} /\ i # Root
  BY <1>1, DriveAssumption DEF DriveRecords, DriveAssumption
<1>4. P[q] \in Seq(Name) /\ P[i] \in Seq(Name) /\ P[drive[i].parent] \in Seq(Name)
  BY <1>2, <1>3
<1>5. Below(P[i], P[j]) <=> P[i] = P[q] \/ Below(P[i], P[q])
  <2>1. \A u, v \in Seq(Name) : \A x \in Name : Below(u, Append(v, x)) <=> u = v \/ Below(u, v)
    BY BelowAppend
  <2> DEFINE r == P[q]
  <2>2. P[j] = Append(r, drive[j].name) /\ r \in Seq(Name)
    BY <1>2, <1>4
  <2> HIDE DEF r, q
  <2>3. Below(P[i], P[j]) <=> P[i] = r \/ Below(P[i], r)
    BY <1>3, <1>4, <2>1, <2>2
  <2> QED BY <2>3 DEF r
<1>6. P[i] # <<>>
  <2>1. \A u \in Seq(Name) : \A x \in Name : Append(u, x) # <<>>
    BY AppendNotEmpty
  <2> QED BY <1>2, <1>3, <1>4, <2>1
<1>7. Inside(j, i) <=> Below(P[i], P[j])
  BY DEF Inside, P
<1>8. CASE q = Root
  <2>1. ~Below(P[i], <<>>)
    BY <1>4, EmptySeq DEF Below
  <2> QED BY <1>2, <1>3, <1>5, <1>6, <1>7, <1>8, <2>1
<1>9. CASE q # Root
  <2>1. q \in Item /\ Live(q)
    BY <1>3, <1>9 DEF DriveTree, Live
  <2>2. P[i] = P[q] => i = q
    BY <1>1, <2>1, DriveAssumption, PathsDiffer DEF Live
  <2>3. Inside(q, i) <=> q = i \/ Below(P[i], P[q])
    BY <2>1 DEF Inside, P
  <2> QED BY <1>5, <1>7, <1>9, <2>2, <2>3
<1> QED BY <1>8, <1>9

LEMMA InsideLive ==
  ASSUME NEW i \in Item, NEW j \in Item, Live(i), Inside(j, i)
  PROVE  Live(j)
BY DEF Inside, Live

------------------------------------------------------------------------------
LEMMA PlaceTree ==
  ASSUME DriveOK, DriveTree(drive), NEW i \in Item, NEW n \in Name,
         NEW p \in Folder \cup {Root}, Place(i, n, p)
  PROVE  DriveTree(drive')
<1>1. /\ drive'[i] = [at |-> "live", name |-> n, parent |-> p, ver |-> drive[i].ver + 1,
                      changed |-> clock + 1]
      /\ \A j \in Item \ {i} : drive'[j] = drive[j]
  BY DEF Place, DriveOK
<1>2. /\ p # Root => Live(p) /\ (Live(i) => ~Inside(p, i))
      /\ \A j \in Siblings(p) \ {i} : drive[j].name # n
  BY DEF Place
<1>3. drive'[i].at = "live" /\ drive'[i].name = n /\ drive'[i].parent = p
  BY <1>1
<1>4. p \in Item \cup {Root} /\ Root \notin Item
      /\ \A j \in Item : drive[j].parent \in Item \cup {Root}
  BY DriveAssumption DEF DriveAssumption, DriveOK, DriveRecords
<1>5. ASSUME NEW j \in Item, drive'[j].at = "live", drive'[j].parent # Root
      PROVE  drive'[drive'[j].parent].at = "live"
  <2>1. CASE j = i
    <3>1. p \in Item /\ drive[p].at = "live"
      BY <1>2, <1>3, <1>4, <1>5, <2>1 DEF Live
    <3> QED BY <1>1, <1>3, <2>1, <3>1
  <2>2. CASE j # i
    <3>1. drive[j].parent \in Item /\ drive[drive[j].parent].at = "live"
      BY <1>1, <1>4, <1>5, <2>2 DEF DriveTree
    <3> QED BY <1>1, <1>3, <1>5, <2>2, <3>1
  <2> QED BY <2>1, <2>2
<1>6. ASSUME NEW j \in Item, NEW k \in Item, j # k, drive'[j].at = "live", drive'[k].at = "live",
             drive'[j].parent = drive'[k].parent
      PROVE  drive'[j].name # drive'[k].name
  <2>1. CASE j = i
    BY <1>1, <1>2, <1>3, <1>6, <2>1 DEF Siblings, Live
  <2>2. CASE k = i
    BY <1>1, <1>2, <1>3, <1>6, <2>2 DEF Siblings, Live
  <2>3. CASE j # i /\ k # i
    BY <1>1, <1>6, <2>3 DEF DriveTree
  <2> QED BY <2>1, <2>2, <2>3
<1>7. ASSUME NEW S \in SUBSET Item, S # {}, \A j \in S : drive'[j].parent \in S
      PROVE  FALSE
  <2>1. \A j \in S \ {i} : drive[j].parent \in S
    BY <1>1, <1>7
  <2>2. i \in S
    <3>1. PICK j \in S : drive[j].parent \notin S
      BY <1>7 DEF DriveTree, Founded
    <3> QED BY <2>1, <3>1
  <2>3. p \in S /\ Live(p)
    BY <1>2, <1>3, <1>4, <1>7, <2>2
  <2>4. CASE Live(i)
    <3> DEFINE T == {j \in S : Live(j) /\ ~Inside(j, i)}
    <3>1. p \in T
      BY <1>2, <1>4, <2>3, <2>4
    <3>2. ASSUME NEW j \in T PROVE drive[j].parent \in T
      <4>1. j \in S /\ Live(j) /\ ~Inside(j, i) /\ j # i
        BY <2>2 DEF Inside
      <4> DEFINE q == drive[j].parent
      <4>2. q \in S /\ q # Root /\ q # i
        BY <1>4, <2>1, <2>4, <4>1, InsideParent
      <4>3. Live(q)
        BY <4>1, <4>2 DEF DriveTree, Live
      <4>4. ~Inside(q, i)
        BY <2>4, <4>1, <4>2, InsideParent
      <4> QED BY <4>2, <4>3, <4>4
    <3>3. T \in SUBSET Item /\ T # {}
      BY <3>1
    <3> HIDE DEF T
    <3> QED BY <3>2, <3>3 DEF DriveTree, Founded
  <2>5. CASE ~Live(i)
    <3> DEFINE T == {j \in S : Live(j)}
    <3>1. p \in T
      BY <2>3
    <3>2. ASSUME NEW j \in T PROVE drive[j].parent \in T
      <4>1. j \in S /\ Live(j) /\ j # i
        BY <2>5
      <4>2. drive[j].parent \in S /\ drive[j].parent # Root
        BY <1>4, <2>1, <4>1
      <4>3. Live(drive[j].parent)
        BY <4>1, <4>2 DEF DriveTree, Live
      <4> QED BY <4>2, <4>3
    <3>3. T \in SUBSET Item /\ T # {}
      BY <3>1
    <3> HIDE DEF T
    <3> QED BY <3>2, <3>3 DEF DriveTree, Founded
  <2> QED BY <2>4, <2>5
<1>8. Founded(drive')
  BY <1>7 DEF Founded
<1> QED BY <1>5, <1>6, <1>8 DEF DriveTree

LEMMA TrashLeaves ==
  ASSUME DriveOK, NEW i \in Item, Trash(i), NEW j \in Item
  PROVE  /\ drive'[j].name = drive[j].name /\ drive'[j].parent = drive[j].parent
         /\ Inside(j, i) => drive'[j].at = "deleted"
         /\ ~Inside(j, i) => drive'[j] = drive[j]
<1> DEFINE After(k) ==
      IF ~Inside(k, i) THEN drive[k]
      ELSE IF k # i THEN [drive[k] EXCEPT !.at = "deleted"]
      ELSE [drive[k] EXCEPT !.at = "deleted", !.ver = @ + 1, !.changed = clock + 1]
<1>1. drive'[j] = After(j)
  BY DEF Trash
<1>2. drive[j] \in DriveRecords /\ clock \in Nat
  BY DEF DriveOK
<1>3. CASE ~Inside(j, i)
  BY <1>1, <1>3 DEF Inside
<1>4. CASE Inside(j, i) /\ j # i
  <2>1. After(j) = [drive[j] EXCEPT !.at = "deleted"]
    BY <1>4
  <2> HIDE DEF After
  <2> QED BY <1>1, <1>2, <1>4, <2>1 DEF DriveRecords
<1>5. CASE Inside(j, i) /\ j = i
  <2>1. After(j) = [drive[j] EXCEPT !.at = "deleted", !.ver = drive[j].ver + 1,
                                    !.changed = clock + 1]
    BY <1>5
  <2>2. After(j) = [at |-> "deleted", name |-> drive[j].name, parent |-> drive[j].parent,
                    ver |-> drive[j].ver + 1, changed |-> clock + 1]
    BY <1>2, <2>1 DEF DriveRecords
  <2> HIDE DEF After
  <2> QED BY <1>1, <1>5, <2>2
<1> QED BY <1>3, <1>4, <1>5

LEMMA TrashTree ==
  ASSUME DriveOK, DriveTree(drive), NEW i \in Item, Trash(i)
  PROVE  DriveTree(drive')
<1>1. Live(i)
  BY DEF Trash
<1>2. \A j \in Item : /\ drive'[j].name = drive[j].name /\ drive'[j].parent = drive[j].parent
                      /\ Inside(j, i) => drive'[j].at = "deleted"
                      /\ ~Inside(j, i) => drive'[j] = drive[j]
  BY TrashLeaves
<1>3. \A j \in Item : drive[j].parent \in Item \cup {Root}
  BY DriveAssumption DEF DriveAssumption, DriveOK, DriveRecords
<1>4. ASSUME NEW j \in Item, drive'[j].at = "live", drive'[j].parent # Root
      PROVE  drive'[drive'[j].parent].at = "live"
  <2>1. ~Inside(j, i) /\ Live(j) /\ j # i
    BY <1>1, <1>2, <1>4 DEF Live, Inside
  <2> DEFINE q == drive[j].parent
  <2>2. q \in Item /\ Live(q) /\ drive'[j].parent = q /\ q # Root
    BY <1>2, <1>3, <1>4, <2>1 DEF DriveTree, Live
  <2>3. ~Inside(q, i)
    BY <1>1, <2>1, <2>2, InsideParent
  <2> QED BY <1>2, <2>2, <2>3 DEF Live
<1>5. ASSUME NEW j \in Item, NEW k \in Item, j # k, drive'[j].at = "live", drive'[k].at = "live",
             drive'[j].parent = drive'[k].parent
      PROVE  drive'[j].name # drive'[k].name
  BY <1>2, <1>5 DEF DriveTree
<1>6. Founded(drive')
  BY <1>2 DEF DriveTree, Founded
<1> QED BY <1>4, <1>5, <1>6 DEF DriveTree

LEMMA StayTree == ASSUME DriveTree(drive), UNCHANGED driveVars PROVE DriveTree(drive')
BY DEF driveVars, DriveTree, Founded

LEMMA InitTree == ASSUME Init PROVE DriveTree(drive)
<1>1. PICK start \in session.drives : DriveInit(start)
  BY DEF Init
<1>2. session \in Session
  BY DEF Init, SessionInit
<1>3. /\ start \in [Item -> [at : {"live", "absent", "deleted"}, name : Name,
                             parent : Folder \cup {Root}]]
      /\ \A i \in Item : start[i].at = "live" /\ start[i].parent # Root
                           => start[start[i].parent].at = "live"
      /\ \A i, j \in Item :
           /\ i # j /\ start[i].at = "live" /\ start[j].at = "live"
           /\ start[i].parent = start[j].parent
           => start[i].name # start[j].name
      /\ \A S \in SUBSET Item : S # {} => \E i \in S : start[i].parent \notin S
  BY <1>1, <1>2, SessionAssumption DEF SessionAssumption
<1>4. \A i \in Item : /\ drive[i].at = start[i].at /\ drive[i].name = start[i].name
                      /\ drive[i].parent = start[i].parent
  BY <1>1 DEF DriveInit
<1>5. \A i \in Item : start[i].parent \in Item \cup {Root}
  BY <1>3, DriveAssumption DEF DriveAssumption
<1>6. \A i \in Item : drive[i].at = "live" /\ drive[i].parent # Root
                        => drive[drive[i].parent].at = "live"
  BY <1>3, <1>4, <1>5
<1>7. Founded(drive)
  BY <1>3, <1>4 DEF Founded
<1> QED BY <1>3, <1>4, <1>6, <1>7 DEF DriveTree

LEMMA NextTree == ASSUME IInv, DriveTree(drive), [Next]_vars PROVE DriveTree(drive')
<1>1. DriveOK
  BY DEF IInv
<1> QED BY <1>1, NextChange, PlaceTree, TrashTree, StayTree DEF DriveChange

(* The drive stays a tree: what is there is in a folder that is there,      *)
(* beside others by other names, and no folder comes to be below itself,    *)
(* whoever moves, renames, removes and replaces.                            *)
THEOREM DriveIsTree == Spec => []DriveTree(drive)
<1>1. Init => DriveTree(drive)
  BY InitTree
<1>2. IInv /\ DriveTree(drive) /\ [Next]_vars => DriveTree(drive)'
  BY NextTree
<1> QED BY <1>1, <1>2, AllInOrder, PTL DEF Spec
=============================================================================
