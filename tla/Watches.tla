------------------------------- MODULE Watches -------------------------------
(* Delta watches and managed editing workspaces of mcp/server.mjs. Both are *)
(* kept in a file that a call loads whole, changes and saves whole, with no *)
(* lock: polls run from timers while tools are called, and a save writes    *)
(* back whatever else it loaded.                                            *)
(*                                                                          *)
(* A poll reads what changed in one piece: of more than the 5000 changes    *)
(* one delta call takes, the code keeps only the last call's. The ring of   *)
(* 500 events does not overflow, and consuming returns all events. What a   *)
(* poll puts in the metadata cache is the delta call of MetadataCache.      *)
(* Previews of workspace creation and abandonment, and the version of the   *)
(* draft, are left out.                                                     *)
EXTENDS Drive, Sessions

CONSTANTS
  Watch, Workspace,
  Task  \* calls and polls in progress at once

VARIABLES
  watchFile,  \* watch-state.json
  workFile,   \* workspaces.json
  timers,     \* memory: the watches with a timer
  loaded,     \* memory: whether the file's watches have been given timers
  tokens,     \* memory: the preview tokens for promotions
  drafts,     \* the workspaces whose draft is on the drive
  used,       \* the identities given to watches and workspaces
  task,       \* what each call or poll has loaded and will do next
  consumed,   \* history: per watch the events given to a consumer
  promoted    \* history: per promotion the version written over and the
              \* version the draft was made from

watchVars == <<watchFile, workFile, timers, loaded, tokens, drafts, used, task,
               consumed, promoted>>
history   == <<consumed, promoted>>
disk      == <<watchFile, workFile>>
memory    == <<timers, loaded, tokens>>

None == [status |-> "none"]
Rest == [at |-> "rest"]

Events == [id : Item, ver : Nat]
WatchRecords ==
  {None} \cup
  [status : {"active", "stopped", "expired", "error"}, from : Nat, link : Nat,
   events : SUBSET Events]
WorkRecords ==
  {None} \cup [status : {"ready"}, source : Item, ver : Nat, base : Nat,
               stale : BOOLEAN]

WatchInit ==
  /\ watchFile = [w \in Watch |-> None] /\ workFile = [k \in Workspace |-> None]
  /\ timers = {} /\ loaded = FALSE /\ tokens = {} /\ drafts = {} /\ used = {}
  /\ task = [t \in Task |-> Rest]
  /\ consumed = [w \in Watch |-> {}] /\ promoted = {}

GoTo(t, next) == task' = [task EXCEPT ![t] = next]
End(t) == GoTo(t, Rest)
Begins(t, tool) == task[t] = Rest /\ Calls(tool)

(* ensureWatchesLoaded: each tool of a watch first sees that the watches of *)
(* the file have timers.                                                    *)
ensureWatchesLoaded ==
  IF loaded THEN timers ELSE {w \in Watch : watchFile[w].status = "active"}

(* Saves one of the two files whole. A tool whose save fails ends with the  *)
(* error.                                                                   *)
saveWatchState(t) == watchFile' = task[t].file
saveWorkspaceState(t) == workFile' = task[t].file

------------------------------------------------------------------------------
(* Polls.                                                                   *)

(* A timer fires; the poll loads the file.                                  *)
pollWatch(t) ==
  \E w \in timers :
    /\ Begins(t, "poll")
    /\ timers' = timers \ {w}
    /\ GoTo(t, IF watchFile[w].status # "active" THEN Rest
               ELSE [at |-> "fetch", watch |-> w, file |-> watchFile])
    /\ UNCHANGED <<driveVars, disk, loaded, tokens, drafts, used, history>>

Polled(t) == task[t].file[task[t].watch]

(* Past its time, the watch expires. A request that fails for good stops    *)
(* it; after another failure it stays active.                               *)
endPoll(t) ==
  /\ task[t].at = "fetch"
  /\ \E status \in {"expired", "error", "active"} :
       /\ IF status = "expired" THEN Works ELSE Fails
       /\ GoTo(t, [at |-> "save", watch |-> task[t].watch,
                   file |-> [task[t].file EXCEPT ![task[t].watch].status = status]])
  /\ UNCHANGED <<driveVars, disk, memory, drafts, used, history>>

watchEvents(link) == {[id |-> i, ver |-> drive[i].ver] : i \in ChangedSince(link)}

(* The changes since the watch's cursor become events, and the preview      *)
(* tokens of what changed go.                                               *)
fetchChanges(t) ==
  /\ task[t].at = "fetch" /\ Works
  /\ LET new     == watchEvents(Polled(t).link)
         changed == {e.id : e \in new}
         polled  == [Polled(t) EXCEPT !.events = Polled(t).events \cup new,
                                      !.link = clock]
     IN /\ tokens' = {x \in tokens : x.source \notin changed}
        /\ GoTo(t, [at |-> IF changed = {} THEN "save" ELSE "mark",
                    watch |-> task[t].watch, changed |-> changed,
                    file |-> [task[t].file EXCEPT ![task[t].watch] = polled]])
  /\ UNCHANGED <<driveVars, disk, timers, loaded, drafts, used, history>>

(* markWorkspacesStale loads the workspaces and, when one is made of what   *)
(* changed, saves them. If it fails the watch is saved all the same.        *)
Marked(t) ==
  [k \in Workspace |->
     IF workFile[k] # None /\ workFile[k].source \in task[t].changed
     THEN [workFile[k] EXCEPT !.stale = TRUE] ELSE workFile[k]]

markWorkspacesStale(t) ==
  /\ task[t].at = "mark" /\ Works
  /\ GoTo(t, IF \E k \in Workspace :
                  workFile[k] # None /\ workFile[k].source \in task[t].changed
             THEN [at |-> "marked", watch |-> task[t].watch,
                   file |-> task[t].file, marks |-> Marked(t)]
             ELSE [at |-> "save", watch |-> task[t].watch, file |-> task[t].file])
  /\ UNCHANGED <<driveVars, disk, memory, drafts, used, history>>

saveMarks(t) ==
  /\ task[t].at = "marked"
  /\ \/ workFile' = task[t].marks /\ Works
     \/ Fails /\ UNCHANGED workFile
  /\ GoTo(t, [at |-> "save", watch |-> task[t].watch, file |-> task[t].file])
  /\ UNCHANGED <<driveVars, watchFile, memory, drafts, used, history>>

(* The watches are saved and an active one is scheduled again. A poll tries *)
(* a save that fails once more, and failing twice loses the timer.          *)
savePoll(t) ==
  /\ task[t].at = "save"
  /\ \/ /\ saveWatchState(t) /\ Works
        /\ timers' = timers \cup {w \in {task[t].watch} : Polled(t).status = "active"}
     \/ Fails /\ UNCHANGED <<watchFile, timers>>
  /\ End(t)
  /\ UNCHANGED <<driveVars, workFile, loaded, tokens, drafts, used, history>>

------------------------------------------------------------------------------
(* The tools of watches.                                                    *)

(* watchStart: the baseline round gives the cursor; then the file is loaded *)
(* and saved with the watch added, and the watch is scheduled.              *)
watchStart(t) ==
  \E w \in Watch \ used :
    /\ Begins(t, "watch") /\ used' = used \cup {w}
    /\ timers' = ensureWatchesLoaded /\ loaded' = TRUE
    /\ GoTo(t, [at |-> "start", watch |-> w, from |-> clock])
    /\ UNCHANGED <<driveVars, disk, tokens, drafts, history>>

addWatch(t) ==
  /\ task[t].at = "start" /\ Works
  /\ GoTo(t, [at |-> "save", watch |-> task[t].watch,
              file |-> [watchFile EXCEPT ![task[t].watch] =
                [status |-> "active", from |-> task[t].from, link |-> task[t].from,
                 events |-> {}]]])
  /\ UNCHANGED <<driveVars, disk, memory, drafts, used, history>>

(* watchStatus with consume: the events are answered once they are gone     *)
(* from the file.                                                           *)
watchStatus(t) ==
  \E w \in Watch :
    /\ Begins(t, "watch") /\ watchFile[w] # None
    /\ timers' = ensureWatchesLoaded /\ loaded' = TRUE
    /\ GoTo(t, [at |-> "consume", watch |-> w, events |-> watchFile[w].events,
                file |-> [watchFile EXCEPT ![w].events = {}]])
    /\ UNCHANGED <<driveVars, disk, tokens, drafts, used, history>>

(* Mutant: the events are cleared in the file as it is by now.              *)
ConsumeClearsNow(t) ==
  /\ task[t].at = "consume" /\ Works
  /\ watchFile' = [watchFile EXCEPT ![task[t].watch].events = {}]
  /\ consumed' = [consumed EXCEPT ![task[t].watch] = @ \cup task[t].events]
  /\ End(t)
  /\ UNCHANGED <<driveVars, workFile, memory, drafts, used, promoted>>

consumeEvents(t) ==
  /\ task[t].at = "consume"
  /\ \/ /\ saveWatchState(t) /\ Works
        /\ consumed' = [consumed EXCEPT ![task[t].watch] = @ \cup task[t].events]
     \/ Fails /\ UNCHANGED <<watchFile, consumed>>
  /\ End(t)
  /\ UNCHANGED <<driveVars, workFile, memory, drafts, used, promoted>>

watchStop(t) ==
  \E w \in Watch :
    /\ Begins(t, "watch") /\ watchFile[w] # None
    /\ timers' = ensureWatchesLoaded \ {w} /\ loaded' = TRUE
    /\ GoTo(t, [at |-> "stop", file |-> [watchFile EXCEPT ![w].status = "stopped"]])
    /\ UNCHANGED <<driveVars, disk, tokens, drafts, used, history>>

saveStop(t) ==
  /\ task[t].at = "stop"
  /\ \/ saveWatchState(t) /\ Works
     \/ Fails /\ UNCHANGED watchFile
  /\ End(t)
  /\ UNCHANGED <<driveVars, workFile, memory, drafts, used, history>>

------------------------------------------------------------------------------
(* Workspaces.                                                              *)

(* workspaceCreate looks at the source; then it reads the content, writes   *)
(* the draft, and loads the workspaces; at last it saves them.              *)
workspaceCreate(t) ==
  \E k \in Workspace \ used, i \in Item \ Folder :
    /\ Begins(t, "workspace") /\ Live(i) /\ used' = used \cup {k}
    /\ GoTo(t, [at |-> "copy", work |-> k, source |-> i, ver |-> drive[i].ver])
    /\ UNCHANGED <<driveVars, disk, memory, drafts, history>>

copySource(t) ==
  LET k == task[t].work  i == task[t].source IN
  /\ task[t].at = "copy" /\ Works
  /\ IF Live(i)
     THEN /\ drafts' = drafts \cup {k}
          /\ GoTo(t, [at |-> "keep", made |-> {k},
               file |-> [workFile EXCEPT ![k] =
                 [status |-> "ready", source |-> i, ver |-> task[t].ver,
                  base |-> drive[i].ver, stale |-> FALSE]]])
     ELSE End(t) /\ UNCHANGED drafts
  /\ UNCHANGED <<driveVars, disk, memory, used, history>>

(* The last step of a creation, a promotion and an abandonment; the draft   *)
(* of a creation that fails here is removed again.                          *)
keepWorkspaces(t) ==
  /\ task[t].at = "keep"
  /\ \/ saveWorkspaceState(t) /\ Works /\ UNCHANGED drafts
     \/ Fails /\ drafts' = drafts \ task[t].made /\ UNCHANGED workFile
  /\ End(t)
  /\ UNCHANGED <<driveVars, watchFile, memory, used, history>>

(* workspacePromote loads the workspaces, and workspaceStatus looks at the  *)
(* source and the draft.                                                    *)
workspacePromote(t) ==
  \E k \in Workspace :
    /\ Begins(t, "workspace") /\ workFile[k] # None
    /\ GoTo(t, [at |-> "status", work |-> k, file |-> workFile])
    /\ UNCHANGED <<driveVars, disk, memory, drafts, used, history>>

Manifest(t) == task[t].file[task[t].work]
promotionReady(manifest, ver) == ver = manifest.ver /\ ~manifest.stale

(* Without confirmation a token is issued for the version looked at; with   *)
(* it, the source must be ready and the token one for this version.         *)
previewOrPromote(t) ==
  /\ task[t].at = "status" /\ Works
  /\ LET source == Manifest(t).source
         token  == [work |-> task[t].work, source |-> source, ver |-> drive[source].ver]
     IN IF ~Live(source) \/ task[t].work \notin drafts THEN End(t) /\ UNCHANGED tokens
        ELSE \/ End(t) /\ tokens' = tokens \cup {token}
             \/ IF promotionReady(Manifest(t), token.ver) /\ token \in tokens
                THEN /\ tokens' = tokens \ {token}
                     /\ GoTo(t, [at |-> "put", work |-> task[t].work, ver |-> token.ver,
                                 file |-> task[t].file])
                ELSE End(t) /\ UNCHANGED tokens
  /\ UNCHANGED <<driveVars, disk, timers, loaded, drafts, used, history>>

(* Mutant: only that the source is there.                                   *)
StillThere(t) == Live(Manifest(t).source)

(* If-Match: the source is still the version seen.                          *)
Unchanged(t) ==
  LET source == Manifest(t).source IN Live(source) /\ drive[source].ver = task[t].ver

(* The draft is read again and written over the source with If-Match.       *)
putDraft(t) ==
  /\ task[t].at = "put" /\ Works
  /\ IF Unchanged(t) /\ task[t].work \in drafts
     THEN LET i == Manifest(t).source IN
          /\ Place(i, drive[i].name, drive[i].parent) /\ clock' = clock + 1
          /\ promoted' = promoted \cup
               {[over |-> drive[i].ver, base |-> Manifest(t).base]}
          /\ GoTo(t, [at |-> "verify", work |-> task[t].work,
                      ver |-> drive[i].ver + 1, file |-> task[t].file])
     ELSE End(t) /\ UNCHANGED <<driveVars, promoted>>
  /\ UNCHANGED <<disk, memory, drafts, used, consumed>>

(* The source is read back; if it is the draft, the draft's folder goes.    *)
verifyPromotion(t) ==
  /\ task[t].at = "verify" /\ Works
  /\ IF Unchanged(t)
     THEN /\ drafts' = drafts \ {task[t].work}
          /\ GoTo(t, [at |-> "keep", made |-> {},
                      file |-> [task[t].file EXCEPT ![task[t].work] = None]])
     ELSE End(t) /\ UNCHANGED drafts
  /\ UNCHANGED <<driveVars, disk, memory, used, history>>

workspaceAbandon(t) ==
  \E k \in Workspace :
    /\ Begins(t, "workspace") /\ workFile[k] # None /\ k \in drafts
    /\ drafts' = drafts \ {k}
    /\ GoTo(t, [at |-> "keep", made |-> {}, file |-> [workFile EXCEPT ![k] = None]])
    /\ UNCHANGED <<driveVars, disk, memory, used, history>>

------------------------------------------------------------------------------
(* The process ends and is started again: only the files are left.          *)
Restart ==
  /\ Calls("restart")
  /\ timers' = {} /\ loaded' = FALSE
  /\ tokens' = {} /\ task' = [t \in Task |-> Rest]
  /\ UNCHANGED <<driveVars, disk, drafts, used, history>>

TaskStep(t) ==
  \/ pollWatch(t) \/ endPoll(t) \/ fetchChanges(t)
  \/ markWorkspacesStale(t) \/ saveMarks(t) \/ savePoll(t)
  \/ watchStart(t) \/ addWatch(t) \/ watchStatus(t) \/ consumeEvents(t)
  \/ watchStop(t) \/ saveStop(t)
  \/ workspaceCreate(t) \/ copySource(t) \/ keepWorkspaces(t)
  \/ workspacePromote(t) \/ previewOrPromote(t) \/ putDraft(t) \/ verifyPromotion(t)
  \/ workspaceAbandon(t)

------------------------------------------------------------------------------
(* Properties                                                               *)

(* No change is lost: of every change since a watch's baseline that its     *)
(* stored cursor has passed, an event is in the file or was given to a      *)
(* consumer, whatever polls of this and other watches, consumers and stops  *)
(* write the file over one another, and after a restart (pollWatch,         *)
(* watchStatus). An event may come twice.                                   *)
EveryChangeReported ==
  \A w \in Watch : watchFile[w] # None =>
    \A i \in Item :
      watchFile[w].from < drive[i].changed /\ drive[i].changed <= watchFile[w].link
        => \E e \in watchFile[w].events \cup consumed[w] :
             e.id = i /\ e.ver >= drive[i].ver

(* A promotion writes over nothing the draft was not made from: no edit of  *)
(* the source after the draft was copied is lost, also where a stale mark   *)
(* was lost to another save of the workspaces (workspacePromote).           *)
PromoteLosesNothing == \A p \in promoted : p.over <= p.base
=============================================================================
