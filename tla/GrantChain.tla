----------------------------- MODULE GrantChain -----------------------------
(***************************************************************************)
(* What the token endpoint promises about the credentials it gives out,    *)
(* apart from any store, request or failure: "a hashed, rotating one-time  *)
(* handle" (README.md).  A credential is spent at most once, and a spent   *)
(* credential has at most one successor, a handle that was neither given   *)
(* out nor spent before.  So the handles descending from a code form a     *)
(* chain, and never a tree.                                                *)
(***************************************************************************)
CONSTANTS Code, Handle, None

VARIABLES
  spent,    \* the codes and handles exchanged
  source    \* for each handle given out, the credential it was given for

vars == <<spent, source>>

Init == spent = {} /\ source = [h \in Handle |-> None]

Spend(g) ==
  /\ g \notin spent
  /\ spent' = spent \cup {g}
  /\ UNCHANGED source

Succeed(g, h) ==
  /\ g \in spent /\ h \notin spent
  /\ source[h] = None
  /\ \A other \in Handle : source[other] # g
  /\ source' = [source EXCEPT ![h] = g]
  /\ UNCHANGED spent

Next ==
  \/ \E g \in Code \cup Handle : Spend(g)
  \/ \E g \in Code \cup Handle, h \in Handle : Succeed(g, h)

Spec == Init /\ [][Next]_vars

=============================================================================
