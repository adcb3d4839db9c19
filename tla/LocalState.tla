----------------------------- MODULE LocalState ------------------------------
(* The local state that follows one drive: the metadata cache and content   *)
(* index, what calls find and read through them, and the watches and        *)
(* workspaces. They meet in the drive: other users' changes, deletions by a *)
(* tool and promotions are what each of them learns of later.               *)
EXTENDS ChatgptReads, Watches

vars == <<driveVars, sessionVars, cacheVars, readVars, watchVars>>

(* What sessions start from are drives: what is there is in a folder that   *)
(* is there, beside others by other names, and no folder is below itself.   *)
ASSUME SessionAssumption ==
  \A s \in Session : s.kind \in {"plain", "office", "common"} /\ \A start \in s.drives :
    /\ start \in [Item -> [at : {"live", "absent", "deleted"}, name : Name,
                          parent : Folder \cup {Root}]]
    /\ \A i \in Item : start[i].at = "live" /\ start[i].parent # Root
                         => start[start[i].parent].at = "live"
    /\ \A i, j \in Item :
         /\ i # j /\ start[i].at = "live" /\ start[j].at = "live"
         /\ start[i].parent = start[j].parent
         => start[i].name # start[j].name
    /\ \A S \in SUBSET Item : S # {} => \E i \in S : start[i].parent \notin S

Init ==
  /\ SessionInit
  /\ \E start \in session.drives : DriveInit(start)
  /\ CacheInit /\ (cache.link # NoLink) \in session.cached
  /\ ReadsInit
  /\ WatchInit

OthersChange ==
  /\ clock <= session.changes /\ Tick
  /\ \E i \in Item :
       Trash(i) \/ \E n \in Name, p \in Folder \cup {Root} : Place(i, n, p)
  /\ Overtake
  /\ UNCHANGED <<sessionVars, readVars, watchVars>>

Next ==
  \/ OthersChange
  \/ \E c \in Call : CacheCall(c) /\ Follow(c) /\ UNCHANGED watchVars
  \/ \E c \in Call : ReadCall(c) /\ UNCHANGED watchVars
  \/ TimePasses /\ UNCHANGED watchVars
  \/ /\ Restart \/ \E t \in Task : TaskStep(t)
     /\ IF clock' = clock THEN UNCHANGED cacheVars ELSE Overtake
     /\ UNCHANGED readVars

Spec == Init /\ [][Next]_vars
=============================================================================
