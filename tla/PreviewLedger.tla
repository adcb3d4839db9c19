---------------------------- MODULE PreviewLedger ----------------------------
(* What a preview promises to the one who confirms it.  A preview is issued *)
(* once and is open until it is confirmed or forgotten; a confirmed preview *)
(* licenses the changes it showed, each of them once; one that was          *)
(* forgotten, or confirmed before, licenses nothing.                        *)
EXTENDS Naturals

VARIABLES
  open,       \* previews that can be confirmed
  confirmed,  \* previews that were
  done,       \* the changes made: <<preview, change>>
  made        \* how many requests made a change

vars == <<open, confirmed, done, made>>

Init == open = {} /\ confirmed = {} /\ done = {} /\ made = 0

Issue ==
  /\ \E p \in open' : p \notin open \cup confirmed /\ open' \subseteq open \cup {p}
  /\ UNCHANGED <<confirmed, done, made>>

Forget ==
  /\ open' \subseteq open
  /\ UNCHANGED <<confirmed, done, made>>

Confirm ==
  /\ \E p \in open : open' \subseteq open \ {p} /\ confirmed' = confirmed \cup {p}
  /\ UNCHANGED <<done, made>>

MakeChange ==
  /\ \E change \in done' \ done :
       change[1] \in confirmed /\ done' = done \cup {change}
  /\ made' = made + 1
  /\ UNCHANGED <<open, confirmed>>

Next == Issue \/ Forget \/ Confirm \/ MakeChange

Spec == Init /\ [][Next]_vars
=============================================================================
