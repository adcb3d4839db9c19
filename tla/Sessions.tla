------------------------------- MODULE Sessions -------------------------------
(* What a behaviour explores: the drives it may start from and whether they *)
(* are cached, of which kind the files are (plain text, Office packages or  *)
(* other documents that are converted), which tools are called, how many    *)
(* calls of the cache are in progress at once, and the bounds on the calls, *)
(* on the changes of other users and on the requests and local writes that  *)
(* fail. Small sessions with different tools together reach what one with   *)
(* all could not.                                                           *)
EXTENDS Naturals

CONSTANT Session  \* records [drives, cached, kind, tools, atOnce, calls, changes,
                  \* faults]

VARIABLES session, calls, faults

sessionVars == <<session, calls, faults>>

SessionInit == session \in Session /\ calls = 0 /\ faults = 0

Calls(tool) ==
  /\ tool \in session.tools /\ calls < session.calls
  /\ calls' = calls + 1
  /\ UNCHANGED <<session, faults>>
Fails == /\ faults < session.faults /\ faults' = faults + 1
         /\ UNCHANGED <<session, calls>>
Works == UNCHANGED sessionVars
=============================================================================
