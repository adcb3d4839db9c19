------------------------ MODULE ArtifactQuotaProofs ------------------------
(***************************************************************************)
(* Theorems about ArtifactQuota, for every number of writers, maintainers  *)
(* and crashes, and every quota and request.                               *)
(***************************************************************************)
EXTENDS ArtifactQuota, TLAPS

(* While no lock file has grown stale, the file names the one holder.      *)
LockNamesHolder ==
  ~everStale =>
    /\ ~stale
    /\ \A o \in Operation : Holds(o) => lock = o
    /\ \A o \in Operation : pc[o] # "remove"

(* What a writer was admitted for is still free when it writes.            *)
ReservationStands ==
  ~everStale =>
    \A w \in Writer : pc[w] = "write" => bytes + expected[w] <= MaxBytes + excess

(* An operation reports once, at its end.                                  *)
ReportedAtEnd ==
  \A o \in Operation :
    outcome[o] \in {"exceeded", "failed", "crashed"} => pc[o] \in {"unlock", "done"}

OnlyWritersWrite ==
  \A o \in Operation : pc[o] \in {"write", "verify"} => o \in Writer

IInv ==
  /\ TypeOK /\ OnlyWritersWrite
  /\ LockNamesHolder
  /\ ReservationStands /\ HardCeiling
  /\ ReportedAtEnd /\ OverrunIsReported

(* Types.                                                                  *)
LEMMA TypeInductive == ASSUME TypeOK, [Next]_vars PROVE TypeOK'
<1> USE DEF TypeOK, Waiting, Holding, Goto, Operation
<1>1. CASE LockAges
  BY <1>1 DEF LockAges
<1>2. ASSUME NEW o \in Operation, Start(o) PROVE TypeOK'
  <2>1. PICK n \in IF o \in Writer THEN 0..MaxRequest ELSE {0} :
          expected' = [expected EXCEPT ![o] = n]
    BY <1>2 DEF Start
  <2>2. n \in 0..MaxRequest
    BY <2>1, BoundsAssumption
  <2> QED
    BY <1>2, <2>1, <2>2 DEF Start
<1>3. ASSUME NEW o \in Operation, WaitStep(o) PROVE TypeOK'
  BY <1>3 DEF WaitStep, CreateLock, FindLock, LockGone, LockIsStale, RemoveStaleLock,
              KeepWaiting, Busy, LeaveWait
<1>4. ASSUME NEW o \in Operation, Unlock(o) \/ WaitAges(o) PROVE TypeOK'
  BY <1>4 DEF Unlock, WaitAges
<1>5. ASSUME NEW w \in Operation, NEW n \in 0..(expected[w] + MaxExcess), Leaves(w, n)
      PROVE  bytes' \in Nat /\ excess' \in Nat
  BY <1>5, BoundsAssumption DEF Leaves
<1>6. ASSUME NEW o \in Operation, Crash(o) PROVE TypeOK'
  <2>1. bytes' \in Nat /\ excess' \in Nat
    BY <1>5, <1>6 DEF Crash
  <2> QED
    BY <1>6, <2>1, BoundsAssumption DEF Crash
<1>7. ASSUME NEW w \in Writer, WriterStep(w) PROVE TypeOK'
  <2>1. CASE Write(w) \/ WriterFails(w)
    <3>1. bytes' \in Nat /\ excess' \in Nat
      BY <1>5, <2>1 DEF Write, WriterFails
    <3> QED
      BY <2>1, <3>1 DEF Write, WriterFails
  <2>2. CASE Admit(w) \/ Refuse(w) \/ Verify(w)
    BY <2>2 DEF Admit, Refuse, Verify, Verified
  <2> QED
    BY <1>7, <2>1, <2>2 DEF WriterStep
<1>8. ASSUME NEW m \in Maintainer, Maintain(m) PROVE TypeOK'
  BY <1>8 DEF Maintain
<1>9. CASE UNCHANGED vars
  BY <1>9 DEF vars
<1> QED
  BY <1>1, <1>2, <1>3, <1>4, <1>6, <1>7, <1>8, <1>9 DEF Next

(* Exclusion: only the creator of the lock file is past the wait.          *)
LEMMA LockInductive == ASSUME TypeOK, LockNamesHolder, [Next]_vars PROVE LockNamesHolder'
<1> USE DEF TypeOK, LockNamesHolder, Holds, Holding, Goto, Operation
<1>1. CASE LockAges
  BY <1>1 DEF LockAges
<1>2. ASSUME NEW o \in Operation, Start(o) \/ WaitAges(o) \/ Crash(o) PROVE LockNamesHolder'
  BY <1>2 DEF Start, WaitAges, Crash
<1>3. ASSUME NEW o \in Operation, WaitStep(o) PROVE LockNamesHolder'
  <2>1. CASE CreateLock(o)
    BY <2>1, OperationsAssumption DEF CreateLock
  <2>2. CASE FindLock(o) \/ LockGone(o) \/ LockIsStale(o) \/ KeepWaiting(o) \/ Busy(o)
    BY <2>2 DEF FindLock, LockGone, LockIsStale, KeepWaiting, Busy, LeaveWait
  <2>3. CASE RemoveStaleLock(o)
    BY <2>3 DEF RemoveStaleLock
  <2> QED
    BY <1>3, <2>1, <2>2, <2>3 DEF WaitStep
<1>4. ASSUME NEW o \in Operation, Unlock(o) PROVE LockNamesHolder'
  BY <1>4, OperationsAssumption DEF Unlock
<1>5. ASSUME NEW w \in Writer, WriterStep(w) PROVE LockNamesHolder'
  BY <1>5 DEF WriterStep, Admit, Refuse, Write, WriterFails, Verify
<1>6. ASSUME NEW m \in Maintainer, Maintain(m) PROVE LockNamesHolder'
  BY <1>6 DEF Maintain
<1>7. CASE UNCHANGED vars
  BY <1>7 DEF vars
<1> QED
  BY <1>1, <1>2, <1>3, <1>4, <1>5, <1>6, <1>7 DEF Next

(* The ceiling: what is left by an admitted writer fits what it reserved,  *)
(* and nobody else writes meanwhile.                                       *)
LEMMA CeilingInductive ==
  ASSUME TypeOK, OnlyWritersWrite, LockNamesHolder, ReservationStands, HardCeiling,
         [Next]_vars
  PROVE  ReservationStands' /\ HardCeiling'
<1>0. ~everStale' => ~everStale
  BY DEF Next, WaitStep, WriterStep, LockAges, Start, CreateLock, FindLock, LockGone,
         LockIsStale, RemoveStaleLock, KeepWaiting, Busy, Unlock, WaitAges, Crash,
         Admit, Refuse, Write, WriterFails, Verify, Maintain, vars
<1>1. SUFFICES ASSUME ~everStale
      PROVE  /\ \A w \in Writer :
                  pc'[w] = "write" => bytes' + expected'[w] <= MaxBytes + excess'
             /\ bytes' <= MaxBytes + excess'
  BY <1>0 DEF ReservationStands, HardCeiling
<1>2. /\ \A w \in Writer : pc[w] = "write" => bytes + expected[w] <= MaxBytes + excess
      /\ bytes <= MaxBytes + excess
      /\ \A o1, o2 \in Operation : Holds(o1) /\ Holds(o2) => o1 = o2
      /\ bytes \in Nat /\ excess \in Nat /\ expected \in [Operation -> Nat]
      /\ MaxBytes \in Nat /\ MaxExcess \in Nat
  BY <1>1, BoundsAssumption DEF ReservationStands, HardCeiling, LockNamesHolder, TypeOK
<1> USE DEF Goto, Holds, Holding, Operation, TypeOK
(* A writer that is left alone keeps its reservation.                      *)
<1>3. ASSUME UNCHANGED <<bytes, excess>>,
             \A w \in Writer : pc'[w] = "write" =>
               pc[w] = "write" /\ expected'[w] = expected[w]
      PROVE  /\ \A w \in Writer :
                  pc'[w] = "write" => bytes' + expected'[w] <= MaxBytes + excess'
             /\ bytes' <= MaxBytes + excess'
  BY <1>2, <1>3
<1>4. ASSUME NEW w \in Operation, pc[w] = "write", w \in Writer,
             NEW n \in 0..(expected[w] + MaxExcess), Leaves(w, n)
      PROVE  bytes' <= MaxBytes + excess'
  BY <1>2, <1>4 DEF Leaves
<1>5. CASE LockAges \/ UNCHANGED vars
  BY <1>3, <1>5 DEF LockAges, vars
<1>6. ASSUME NEW o \in Operation, Start(o)
      PROVE  /\ UNCHANGED <<bytes, excess>>
             /\ \A w \in Writer : pc'[w] = "write" =>
                  pc[w] = "write" /\ expected'[w] = expected[w]
  BY <1>6 DEF Start
<1>7. ASSUME NEW o \in Operation, WaitStep(o) \/ Unlock(o) \/ WaitAges(o)
      PROVE  /\ UNCHANGED <<bytes, excess>>
             /\ \A w \in Writer : pc'[w] = "write" =>
                  pc[w] = "write" /\ expected'[w] = expected[w]
  BY <1>7 DEF WaitStep, CreateLock, FindLock, LockGone, LockIsStale, RemoveStaleLock,
              KeepWaiting, Busy, Unlock, WaitAges
<1>8. ASSUME NEW o \in Operation, Crash(o)
      PROVE  /\ \A w \in Writer :
                  pc'[w] = "write" => bytes' + expected'[w] <= MaxBytes + excess'
             /\ bytes' <= MaxBytes + excess'
  <2>1. pc'[o] = "done" /\ \A w \in Writer : w # o => pc'[w] = pc[w]
    BY <1>8 DEF Crash
  <2>2. CASE pc[o] # "write"
    BY <1>3, <1>8, <2>1, <2>2 DEF Crash
  <2>3. CASE pc[o] = "write" /\ o \in Writer
    <3>1. bytes' <= MaxBytes + excess'
      BY <1>4, <1>8, <2>3 DEF Crash
    <3>2. \A w \in Writer : pc'[w] # "write"
      BY <1>2, <2>1, <2>3
    <3> QED
      BY <3>1, <3>2
  <2>4. pc[o] = "write" => o \in Writer
    BY DEF OnlyWritersWrite
  <2> QED
    BY <2>2, <2>3, <2>4
<1>9. ASSUME NEW w \in Writer, WriterStep(w)
      PROVE  /\ \A x \in Writer :
                  pc'[x] = "write" => bytes' + expected'[x] <= MaxBytes + excess'
             /\ bytes' <= MaxBytes + excess'
  <2>1. CASE Admit(w)
    <3>1. bytes + expected[w] <= MaxBytes /\ UNCHANGED <<bytes, excess, expected>>
      BY <2>1 DEF Admit, Admits
    <3>2. \A x \in Writer : pc'[x] = "write" => x = w \/ pc[x] = "write"
      BY <2>1 DEF Admit
    <3> QED
      BY <1>2, <3>1, <3>2
  <2>2. CASE Write(w) \/ WriterFails(w)
    <3>1. bytes' <= MaxBytes + excess'
      BY <1>4, <2>2 DEF Write, WriterFails
    <3>2. \A x \in Writer : pc'[x] # "write"
      BY <1>2, <2>2 DEF Write, WriterFails
    <3> QED
      BY <3>1, <3>2
  <2>3. CASE Refuse(w) \/ Verify(w)
    BY <1>3, <2>3 DEF Refuse, Verify
  <2> QED
    BY <1>9, <2>1, <2>2, <2>3 DEF WriterStep
<1>10. ASSUME NEW m \in Maintainer, Maintain(m)
      PROVE  /\ \A w \in Writer :
                  pc'[w] = "write" => bytes' + expected'[w] <= MaxBytes + excess'
             /\ bytes' <= MaxBytes + excess'
  <2>1. bytes' \in 0..bytes /\ UNCHANGED <<excess, expected>>
        /\ \A w \in Writer : pc'[w] = "write" => pc[w] = "write"
    BY <1>10 DEF Maintain
  <2> QED
    BY <1>2, <2>1
<1> QED
  BY <1>3, <1>5, <1>6, <1>7, <1>8, <1>9, <1>10 DEF Next

LEMMA WritersInductive == ASSUME TypeOK, OnlyWritersWrite, [Next]_vars PROVE OnlyWritersWrite'
BY DEF TypeOK, OnlyWritersWrite, Operation, Goto, Next, WaitStep, WriterStep, LockAges,
       Start, CreateLock, FindLock, LockGone, LockIsStale, RemoveStaleLock, KeepWaiting,
       Busy, Unlock, WaitAges, Crash, Admit, Refuse, Write, WriterFails, Verify,
       Maintain, vars

LEMMA ReportInductive == ASSUME TypeOK, ReportedAtEnd, [Next]_vars PROVE ReportedAtEnd'
<1> USE DEF TypeOK, ReportedAtEnd, Operation, Goto
<1>1. CASE LockAges \/ UNCHANGED vars
  BY <1>1 DEF LockAges, vars
<1>2. ASSUME NEW o \in Operation, Start(o) \/ Unlock(o) \/ WaitAges(o) \/ Crash(o)
      PROVE  ReportedAtEnd'
  BY <1>2 DEF Start, Unlock, WaitAges, Crash
<1>3. ASSUME NEW o \in Operation, WaitStep(o) PROVE ReportedAtEnd'
  BY <1>3 DEF WaitStep, CreateLock, FindLock, LockGone, LockIsStale, RemoveStaleLock,
              KeepWaiting, Busy
<1>4. ASSUME NEW w \in Writer, WriterStep(w) PROVE ReportedAtEnd'
  BY <1>4 DEF WriterStep, Admit, Refuse, Write, WriterFails, Verify
<1>5. ASSUME NEW m \in Maintainer, Maintain(m) PROVE ReportedAtEnd'
  BY <1>5 DEF Maintain
<1> QED
  BY <1>1, <1>2, <1>3, <1>4, <1>5 DEF Next

(* The last writer to raise the total answers for it.                      *)
LEMMA OverrunInductive ==
  ASSUME TypeOK, OnlyWritersWrite, ReportedAtEnd, OverrunIsReported, [Next]_vars
  PROVE  OverrunIsReported'
<1> DEFINE Answers(w) == pc[w] = "verify" \/ outcome[w] \in {"exceeded", "failed", "crashed"}
<1> USE DEF TypeOK, Operation, Goto
<1>1. SUFFICES ASSUME OverQuota(bytes')
      PROVE  \E w \in Writer :
               pc'[w] = "verify" \/ outcome'[w] \in {"exceeded", "failed", "crashed"}
  BY DEF OverrunIsReported, OverQuota
(* Any step that leaves the total alone, or lowers it, keeps the witness.  *)
<1>2. ASSUME OverQuota(bytes),
             \A w \in Writer : Answers(w) =>
               pc'[w] = "verify" \/ outcome'[w] \in {"exceeded", "failed", "crashed"}
      PROVE  \E w \in Writer :
               pc'[w] = "verify" \/ outcome'[w] \in {"exceeded", "failed", "crashed"}
  BY <1>2 DEF OverrunIsReported
<1>3. CASE LockAges \/ UNCHANGED vars
  BY <1>1, <1>2, <1>3 DEF LockAges, vars
<1>4. ASSUME NEW o \in Operation, Start(o) \/ Unlock(o) \/ WaitAges(o)
      PROVE  OverQuota(bytes) /\ \A w \in Writer : Answers(w) =>
               pc'[w] = "verify" \/ outcome'[w] \in {"exceeded", "failed", "crashed"}
  BY <1>1, <1>4 DEF Start, Unlock, WaitAges
<1>5. ASSUME NEW o \in Operation, WaitStep(o)
      PROVE  OverQuota(bytes) /\ \A w \in Writer : Answers(w) =>
               pc'[w] = "verify" \/ outcome'[w] \in {"exceeded", "failed", "crashed"}
  BY <1>1, <1>5 DEF WaitStep, CreateLock, FindLock, LockGone, LockIsStale,
                    RemoveStaleLock, KeepWaiting, Busy, ReportedAtEnd
<1>6. ASSUME NEW o \in Operation, Crash(o)
      PROVE  \E w \in Writer :
               pc'[w] = "verify" \/ outcome'[w] \in {"exceeded", "failed", "crashed"}
  <2>1. outcome'[o] = "crashed" /\ \A w \in Operation : w # o =>
          pc'[w] = pc[w] /\ outcome'[w] = outcome[w]
    BY <1>6 DEF Crash
  <2>2. CASE o \in Writer
    BY <2>1, <2>2
  <2>3. CASE o \notin Writer
    <3>1. bytes' = bytes
      BY <1>6, <2>3 DEF Crash, OnlyWritersWrite
    <3> QED
      BY <1>1, <1>2, <2>1, <2>3, <3>1
  <2> QED
    BY <2>2, <2>3
<1>7. ASSUME NEW w \in Writer, WriterStep(w)
      PROVE  \E x \in Writer :
               pc'[x] = "verify" \/ outcome'[x] \in {"exceeded", "failed", "crashed"}
  <2>1. CASE Write(w) \/ WriterFails(w)
    BY <2>1 DEF Write, WriterFails
  <2>2. CASE Verify(w)
    BY <1>1, <2>2 DEF Verify, Verified
  <2>3. CASE Admit(w) \/ Refuse(w)
    BY <1>1, <1>2, <2>3 DEF Admit, Refuse, ReportedAtEnd
  <2> QED
    BY <1>7, <2>1, <2>2, <2>3 DEF WriterStep
<1>8. ASSUME NEW m \in Maintainer, Maintain(m)
      PROVE  \E w \in Writer :
               pc'[w] = "verify" \/ outcome'[w] \in {"exceeded", "failed", "crashed"}
  <2>1. OverQuota(bytes)
    BY <1>1, <1>8, BoundsAssumption DEF Maintain, OverQuota
  <2>2. \A w \in Writer : w # m
    BY <1>8, OperationsAssumption
  <2> QED
    BY <1>2, <1>8, <2>1, <2>2 DEF Maintain
<1> QED
  BY <1>2, <1>3, <1>4, <1>5, <1>6, <1>7, <1>8 DEF Next

(* The invariant of the quota and its lock.                                *)
THEOREM Invariance == Spec => []IInv
<1>1. ASSUME Init PROVE IInv
  <2>1. TypeOK
    <3>1. bytes \in Nat /\ 0 \in 0..MaxRequest /\ 0 \in 0..MaxCrashes
      BY <1>1, BoundsAssumption DEF Init
    <3> QED
      BY <1>1, <3>1 DEF Init, TypeOK
  <2>2. \A o \in Operation : pc[o] = "idle" /\ outcome[o] = "none"
    BY <1>1 DEF Init
  <2>3. OnlyWritersWrite /\ LockNamesHolder /\ ReservationStands /\ ReportedAtEnd
    BY <1>1, <2>2 DEF Init, OnlyWritersWrite, LockNamesHolder, ReservationStands,
                      ReportedAtEnd, Holds, Holding, Operation
  <2>4. bytes <= MaxBytes /\ excess = 0 /\ bytes \in Nat
    BY <1>1, BoundsAssumption DEF Init
  <2>5. HardCeiling /\ OverrunIsReported
    BY <2>4, BoundsAssumption DEF HardCeiling, OverrunIsReported, OverQuota
  <2> QED
    BY <2>1, <2>3, <2>5 DEF IInv
<1>2. IInv /\ [Next]_vars => IInv'
  BY TypeInductive, LockInductive, CeilingInductive, WritersInductive,
     ReportInductive, OverrunInductive DEF IInv
<1> QED
  BY <1>1, <1>2, PTL DEF Spec

(* Whatever processes do to the lock file, every operation stays where    *)
(* withLock and withReservation can be, with a reservation within bounds.  *)
THEOREM TypeCorrect == Spec => []TypeOK
<1>1. IInv => TypeOK
  BY DEF IInv
<1> QED
  BY <1>1, Invariance, PTL

(* Until a lock file has grown stale, operations hold the lock one at a    *)
(* time, whichever of them give up, fail or die.                           *)
THEOREM Exclusion == Spec => []ExclusiveUntilStale
<1>1. IInv => ExclusiveUntilStale
  BY DEF IInv, LockNamesHolder, ExclusiveUntilStale
<1> QED
  BY <1>1, Invariance, PTL

(* And until then the quota is exceeded only by wrong estimates.           *)
THEOREM Ceiling == Spec => []HardCeiling
<1>1. IInv => HardCeiling
  BY DEF IInv
<1> QED
  BY <1>1, Invariance, PTL

(* Even with several holders at once, an exceeded quota is reported.       *)
THEOREM NoSilentOverrun == Spec => []OverrunIsReported
<1>1. IInv => OverrunIsReported
  BY DEF IInv
<1> QED
  BY <1>1, Invariance, PTL

============================================================================
