---------------------------- MODULE ArtifactQuota ----------------------------
(***************************************************************************)
(* The quota on plugin-managed backups, mcp/managed-artifact-quota.mjs:    *)
(* every writer, in any process that shares the storage directory, takes   *)
(* the lock file, measures what is stored, is admitted or refused, writes, *)
(* measures again, and removes the lock file.                              *)
(*                                                                         *)
(* The lock is a file created exclusively.  Waiters poll it with open and  *)
(* stat, two separate calls, and take it for abandoned when its mtime is   *)
(* older than staleLockMs; nothing refreshes the mtime, and a lock file is *)
(* removed by its path, whoever created it.  withFileLock in server.mjs    *)
(* is the same algorithm with other delays.                                *)
(*                                                                         *)
(* An operation is one call of withReservation, withMaintenance or         *)
(* reconcile (a maintenance that deletes nothing) and runs once.  Sizes    *)
(* are abstract units of bytes; the quotas on entries and per scope are    *)
(* compared alike.  A scan of the storage directory is one step.           *)
(***************************************************************************)
EXTENDS Naturals

CONSTANTS
  Writer,      \* reservations
  Maintainer,  \* maintenance operations
  None,        \* no lock file
  MaxBytes,    \* the quota
  MaxRequest,  \* bound on expectedBytes
  MaxExcess,   \* bound on what a writer writes beyond expectedBytes
  MaxCrashes   \* bound on the processes that die

Operation == Writer \cup Maintainer

ASSUME OperationsAssumption == None \notin Operation /\ Writer \cap Maintainer = {}

ASSUME BoundsAssumption ==
  MaxBytes \in Nat /\ MaxRequest \in Nat /\ MaxExcess \in Nat /\ MaxCrashes \in Nat

VARIABLES
  lock,      \* who created the lock file, or None
  stale,     \* whether its mtime is older than staleLockMs
  pc,        \* where each operation is
  late,      \* the operations that have waited for lockTimeoutMs
  expected,  \* expectedBytes of each writer
  bytes,     \* what the managed directories hold
  outcome,   \* what each operation reported
  (* History.                                                              *)
  everStale, \* whether a lock file was ever older than staleLockMs
  excess,    \* what writers wrote beyond what they had reserved
  crashes    \* processes that died

vars == <<lock, stale, pc, late, expected, bytes, outcome, everStale, excess, crashes>>

Waiting == {"open", "stat", "remove"}
Holding == {"hold", "write", "verify", "unlock"}

Holds(o) == pc[o] \in Holding

-----------------------------------------------------------------------------
(* withLock.                                                               *)

Goto(o, label) == pc' = [pc EXCEPT ![o] = label]

Start(o) ==
  /\ pc[o] = "idle"
  /\ Goto(o, "open")
  /\ \E n \in IF o \in Writer THEN 0..MaxRequest ELSE {0} :
       expected' = [expected EXCEPT ![o] = n]
  /\ UNCHANGED <<lock, stale, late, bytes, outcome, everStale, excess, crashes>>

(* open(lockPath, "wx") creates the file, or finds it.                     *)
CreateLock(o) ==
  /\ pc[o] = "open" /\ lock = None
  /\ lock' = o /\ stale' = FALSE
  /\ Goto(o, "hold")
  /\ late' = late \ {o}
  /\ UNCHANGED <<expected, bytes, outcome, everStale, excess, crashes>>

FindLock(o) ==
  /\ pc[o] = "open" /\ lock # None
  /\ Goto(o, "stat")
  /\ UNCHANGED <<lock, stale, late, expected, bytes, outcome, everStale, excess, crashes>>

(* stat(lockPath): the file is gone, or is stale and will be removed, or   *)
(* is not, and the operation gives up or sleeps and tries again.           *)
LockGone(o) ==
  /\ pc[o] = "stat" /\ lock = None
  /\ Goto(o, "open")
  /\ UNCHANGED <<lock, stale, late, expected, bytes, outcome, everStale, excess, crashes>>

LockIsStale(o) ==
  /\ pc[o] = "stat" /\ lock # None /\ stale
  /\ Goto(o, "remove")
  /\ UNCHANGED <<lock, stale, late, expected, bytes, outcome, everStale, excess, crashes>>

RemoveStaleLock(o) ==
  /\ pc[o] = "remove"
  /\ lock' = None /\ stale' = FALSE
  /\ Goto(o, "open")
  /\ UNCHANGED <<late, expected, bytes, outcome, everStale, excess, crashes>>

(* Mutant: the deadline is not looked at while the lock is held.           *)
GivesUpNever(o) == FALSE

GivesUp(o) == o \in late

KeepWaiting(o) ==
  /\ pc[o] = "stat" /\ lock # None /\ ~stale
  /\ ~GivesUp(o)
  /\ Goto(o, "open")
  /\ UNCHANGED <<lock, stale, late, expected, bytes, outcome, everStale, excess, crashes>>

(* Mutant: the finally that removes the lock file also covers the wait.    *)
LeaveRemovingLock(o) == lock' = None /\ stale' = FALSE

LeaveWait(o) == UNCHANGED <<lock, stale>>

Busy(o) ==
  /\ pc[o] = "stat" /\ lock # None /\ ~stale
  /\ GivesUp(o)
  /\ LeaveWait(o)
  /\ Goto(o, "done")
  /\ outcome' = [outcome EXCEPT ![o] = "busy"]
  /\ late' = late \ {o}
  /\ UNCHANGED <<expected, bytes, everStale, excess, crashes>>

(* The finally: close, then rm(lockPath), whichever file that is by now.   *)
Unlock(o) ==
  /\ pc[o] = "unlock"
  /\ lock' = None /\ stale' = FALSE
  /\ Goto(o, "done")
  /\ UNCHANGED <<late, expected, bytes, outcome, everStale, excess, crashes>>

-----------------------------------------------------------------------------
(* withReservation and withMaintenance, with the lock.                     *)

OverQuota(b) == b > MaxBytes

(* Mutant: the request itself is not counted.                              *)
AdmitsUnlessOver(n) == ~OverQuota(bytes)

Admits(n) == ~OverQuota(bytes) /\ bytes + n <= MaxBytes

Admit(w) ==
  /\ pc[w] = "hold"
  /\ Admits(expected[w])
  /\ Goto(w, "write")
  /\ UNCHANGED <<lock, stale, late, expected, bytes, outcome, everStale, excess, crashes>>

Refuse(w) ==
  /\ pc[w] = "hold"
  /\ ~Admits(expected[w])
  /\ Goto(w, "unlock")
  /\ outcome' = [outcome EXCEPT ![w] = "refused"]
  /\ UNCHANGED <<lock, stale, late, expected, bytes, everStale, excess, crashes>>

(* The writer leaves n bytes: less than it reserved, or more when its      *)
(* estimate was wrong.                                                     *)
Leaves(w, n) ==
  /\ bytes' = bytes + n
  /\ excess' = excess + (IF n > expected[w] THEN n - expected[w] ELSE 0)

Write(w) ==
  /\ pc[w] = "write"
  /\ \E n \in 0..(expected[w] + MaxExcess) : Leaves(w, n)
  /\ Goto(w, "verify")
  /\ UNCHANGED <<lock, stale, late, expected, outcome, everStale, crashes>>

(* The writer throws: a single backup is removed again, a batch keeps the  *)
(* backups of its earlier items.  The quota is not measured again.         *)
WriterFails(w) ==
  /\ pc[w] = "write"
  /\ \E n \in 0..(expected[w] + MaxExcess) : Leaves(w, n)
  /\ Goto(w, "unlock")
  /\ outcome' = [outcome EXCEPT ![w] = "failed"]
  /\ UNCHANGED <<lock, stale, late, expected, everStale, crashes>>

(* Mutant: the second inventory is taken and not looked at.                *)
VerifiedUnlooked == "stored"

Verified == IF OverQuota(bytes) THEN "exceeded" ELSE "stored"

Verify(w) ==
  /\ pc[w] = "verify"
  /\ outcome' = [outcome EXCEPT ![w] = Verified]
  /\ Goto(w, "unlock")
  /\ UNCHANGED <<lock, stale, late, expected, bytes, everStale, excess, crashes>>

Maintain(m) ==
  /\ pc[m] = "hold"
  /\ bytes' \in 0..bytes
  /\ outcome' = [outcome EXCEPT ![m] = "stored"]
  /\ Goto(m, "unlock")
  /\ UNCHANGED <<lock, stale, late, expected, everStale, excess, crashes>>

-----------------------------------------------------------------------------
(* Time passes, and processes die.                                         *)

LockAges ==
  /\ lock # None /\ ~stale
  /\ stale' = TRUE /\ everStale' = TRUE
  /\ UNCHANGED <<lock, pc, late, expected, bytes, outcome, excess, crashes>>

WaitAges(o) ==
  /\ pc[o] \in Waiting /\ o \notin late
  /\ late' = late \cup {o}
  /\ UNCHANGED <<lock, stale, pc, expected, bytes, outcome, everStale, excess, crashes>>

(* A process that dies leaves the lock file, and what it had written.      *)
Crash(o) ==
  /\ pc[o] \in Waiting \cup Holding
  /\ crashes < MaxCrashes
  /\ crashes' = crashes + 1
  /\ outcome' = [outcome EXCEPT ![o] = "crashed"]
  /\ Goto(o, "done")
  /\ IF pc[o] = "write" THEN \E n \in 0..(expected[o] + MaxExcess) : Leaves(o, n)
     ELSE UNCHANGED <<bytes, excess>>
  /\ late' = late \ {o}
  /\ UNCHANGED <<lock, stale, expected, everStale>>

Init ==
  /\ lock = None /\ stale = FALSE
  /\ pc = [o \in Operation |-> "idle"]
  /\ late = {}
  /\ expected = [o \in Operation |-> 0]
  /\ bytes \in 0..MaxBytes
  /\ outcome = [o \in Operation |-> "none"]
  /\ everStale = FALSE /\ excess = 0 /\ crashes = 0

WaitStep(o) ==
  \/ CreateLock(o)
  \/ FindLock(o)
  \/ LockGone(o)
  \/ LockIsStale(o)
  \/ RemoveStaleLock(o)
  \/ KeepWaiting(o)
  \/ Busy(o)

WriterStep(w) == Admit(w) \/ Refuse(w) \/ Write(w) \/ WriterFails(w) \/ Verify(w)

Next ==
  \/ LockAges
  \/ \E o \in Operation : Start(o) \/ WaitStep(o) \/ Unlock(o) \/ WaitAges(o) \/ Crash(o)
  \/ \E w \in Writer : WriterStep(w)
  \/ \E m \in Maintainer : Maintain(m)

Spec == Init /\ [][Next]_vars

(* The event loop goes on with an operation that waits, and time passes.   *)
(* Nothing says how long a holder takes.                                   *)
FairSpec == Spec /\ \A o \in Operation : WF_vars(WaitStep(o)) /\ WF_vars(WaitAges(o))

-----------------------------------------------------------------------------
(* Properties.                                                             *)

TypeOK ==
  /\ lock \in Operation \cup {None}
  /\ stale \in BOOLEAN /\ everStale \in BOOLEAN
  /\ pc \in [Operation -> {"idle", "done"} \cup Waiting \cup Holding]
  /\ late \subseteq Operation
  /\ expected \in [Operation -> 0..MaxRequest]
  /\ bytes \in Nat /\ excess \in Nat
  /\ outcome \in [Operation -> {"none", "busy", "refused", "failed", "stored",
                                "exceeded", "crashed"}]
  /\ crashes \in 0..MaxCrashes

(* Until some lock file has grown older than staleLockMs, at most one      *)
(* operation is between taking the lock and removing it, even though other *)
(* operations time out, fail or die.                                       *)
ExclusiveUntilStale ==
  ~everStale => \A o1, o2 \in Operation : Holds(o1) /\ Holds(o2) => o1 = o2

(* The quota is a hard ceiling: until a lock file has grown stale, more    *)
(* than it is stored only by what writers wrote beyond their reservations. *)
HardCeiling == ~everStale => bytes <= MaxBytes + excess

(* However many writers hold the lock at once, the quota is never exceeded *)
(* with every writer told of success: one failed, is about to, or died.    *)
OverrunIsReported ==
  OverQuota(bytes) =>
    \E w \in Writer :
      pc[w] = "verify" \/ outcome[w] \in {"exceeded", "failed", "crashed"}

(* An operation that waits for the lock gets it or reports that it is      *)
(* busy, even when the lock file was left by a process that died.          *)
WaitersAnswered == \A o \in Operation : pc[o] \in Waiting ~> pc[o] \notin Waiting

(* What the test says, "cross-controller writers should serialize and      *)
(* admit only one reservation", of the lock in general.                    *)
CrossControllerWritersSerialize ==
  \A o1, o2 \in Operation : Holds(o1) /\ Holds(o2) => o1 = o2

=============================================================================
