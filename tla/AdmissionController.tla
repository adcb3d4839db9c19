------------------------- MODULE AdmissionController -------------------------
(* The admission controllers of mcp/heavyweight-subprocess-admission.mjs    *)
(* and mcp/resource-read-admission.mjs, which are the same program with     *)
(* other limits: counters of the leases in use, of all and per subject, and *)
(* leases that are released once. These are the operators on the state of a *)
(* controller; the checks of the arguments' form are left out.              *)
EXTENDS Integers

CONSTANTS Subject, MaxGlobal, MaxPerSubject

ASSUME LimitsAssumption ==
  /\ MaxGlobal \in Nat \ {0}
  /\ MaxPerSubject \in 1 .. MaxGlobal

(* given: the leases given out, of which released are the released ones.    *)
(* activeBySubject: a subject the Map has no entry for has 0.               *)
NewController ==
  [given |-> {}, released |-> {}, activeGlobal |-> 0,
   activeBySubject |-> [s \in Subject |-> 0]]

LeaseOf(w, s) == [work |-> w, subject |-> s]
InUse(ctl) == {l \in ctl.given : l.work \notin ctl.released}

Busy(ctl, s) ==
  \/ ctl.activeGlobal >= MaxGlobal
  \/ ctl.activeBySubject[s] >= MaxPerSubject

(* acquire, when not busy: a lease for the work w.                          *)
Acquire(ctl, w, s) ==
  [given |-> ctl.given \cup {LeaseOf(w, s)}, released |-> ctl.released,
   activeGlobal |-> ctl.activeGlobal + 1,
   activeBySubject |-> [ctl.activeBySubject EXCEPT ![s] = @ + 1]]

AtLeast0(n) == IF n < 0 THEN 0 ELSE n

(* Mutant: a lease that was released is released again.                     *)
ReleaseAgain(ctl, w, s) ==
  [given |-> ctl.given, released |-> ctl.released \cup {w},
   activeGlobal |-> AtLeast0(ctl.activeGlobal - 1),
   activeBySubject |-> [ctl.activeBySubject EXCEPT ![s] = AtLeast0(@ - 1)]]

(* release: the first call counts, the others do nothing.                   *)
Release(ctl, w, s) ==
  IF w \in ctl.released THEN ctl
  ELSE [given |-> ctl.given, released |-> ctl.released \cup {w},
        activeGlobal |-> AtLeast0(ctl.activeGlobal - 1),
        activeBySubject |-> [ctl.activeBySubject EXCEPT ![s] = AtLeast0(@ - 1)]]

Held(ctl, w) == \E l \in ctl.given : l.work = w /\ w \notin ctl.released
=============================================================================
