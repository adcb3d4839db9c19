-------------------------------- MODULE Drive --------------------------------
(* A drive as Microsoft Graph shows it: a tree of items with versions, and  *)
(* the record of what changed when, which delta requests read from a        *)
(* cursor. Other users change it at any time.                               *)
(*                                                                          *)
(* Of delta requests it is assumed that a round reports every item changed  *)
(* after the cursor once, as it is when its page is read and without its    *)
(* path, the folders an item is in before the item; that the removal of a   *)
(* folder is reported for the folder alone; that a round from no cursor     *)
(* reports all there is; and that the deltaLink at the end of a round       *)
(* covers what had changed when the round began.                            *)
EXTENDS Naturals, Sequences, FiniteSets

CONSTANTS
  Item,       \* numbers, the identities of files and folders
  Folder,     \* the items that are folders
  Name,
  MaxChanges  \* bound on the changes made to the drive

Root == 0

ASSUME DriveAssumption ==
  /\ Item \subseteq Nat \ {Root} /\ IsFiniteSet(Item) /\ Folder \subseteq Item
  /\ MaxChanges \in Nat

VARIABLES
  drive,  \* per item: where it is, its version and when it last changed
  clock   \* counts the changes; a deltaLink is a value of the clock

driveVars == <<drive, clock>>

Scratch == 0          \* the cursor of a round that starts from nothing
NoPath  == <<"?">>    \* a path that is not known

ASSUME NameAssumption == \A n \in Name : <<n>> # NoPath

Live(i) == drive[i].at = "live"

PathOf ==
  LET to[j \in Item \cup {Root}] ==
        IF j = Root THEN <<>> ELSE Append(to[drive[j].parent], drive[j].name)
  IN to

Below(p, q) == Len(p) < Len(q) /\ SubSeq(q, 1, Len(p)) = p
Inside(i, f) == i = f \/ (Live(i) /\ Below(PathOf[f], PathOf[i]))
Siblings(p) == {j \in Item : Live(j) /\ drive[j].parent = p}

DriveInit(start) ==
  /\ clock = 1
  /\ drive = [i \in Item |->
       [at |-> start[i].at, name |-> start[i].name, parent |-> start[i].parent,
        ver |-> 1, changed |-> 1]]

(* Create, rename or move an item, or write its content.                    *)
Place(i, n, p) ==
  /\ drive[i].at # "deleted"
  /\ p # Root => Live(p) /\ (Live(i) => ~Inside(p, i))
  /\ \A j \in Siblings(p) \ {i} : drive[j].name # n
  /\ drive' = [drive EXCEPT ![i] =
       [at |-> "live", name |-> n, parent |-> p, ver |-> @.ver + 1,
        changed |-> clock + 1]]

(* A removed folder takes along what is in it.                              *)
Trash(i) ==
  /\ Live(i)
  /\ drive' = [j \in Item |->
       IF ~Inside(j, i) THEN drive[j]
       ELSE IF j # i THEN [drive[j] EXCEPT !.at = "deleted"]
       ELSE [drive[j] EXCEPT !.at = "deleted", !.ver = @ + 1,
                             !.changed = clock + 1]]

Tick == clock <= MaxChanges /\ clock' = clock + 1

(* What a round of delta from a cursor reports, in the orders it may.       *)
ChangedSince(from) ==
  {i \in Item : IF from = Scratch THEN Live(i) ELSE drive[i].changed > from}
FoldersFirst(s) ==
  \A a, b \in DOMAIN s :
    a < b => s[a] # s[b] /\ (Live(s[b]) => ~Inside(s[a], s[b]))
Rounds(from) ==
  LET C == ChangedSince(from) IN
  {s \in [1 .. Cardinality(C) -> C] : FoldersFirst(s)}

(* An item as a request returns it.                                         *)
Shown(i, path) ==
  [id |-> i, deleted |-> ~Live(i), name |-> drive[i].name,
   parent |-> drive[i].parent, ver |-> drive[i].ver, path |-> path]
ShownWithPath(i) == Shown(i, PathOf[i])
=============================================================================
