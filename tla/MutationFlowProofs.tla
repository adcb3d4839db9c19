------------------------- MODULE MutationFlowProofs -------------------------
(***************************************************************************)
(* Theorems about MutationFlow, for every set of items, every session of   *)
(* tool calls, every number of targets and every interleaving with other   *)
(* users of the drive.                                                     *)
(***************************************************************************)
EXTENDS MutationFlow, FiniteSetTheorems, WellFoundedInduction, TLAPS

Early == {"idle", "reading", "content", "gate"}
Conditional == {"patch", "remove", "erase", "put", "chunk"}
BackedUp == {"officeBatchUpdate", "officeRestoreBackup", "officeBatchTransform",
             "updateFile"}
Steps(c) == It(c).steps

(* A call that is not admitted yet has done nothing.                       *)
EarlyOK(c) ==
  call[c].phase \in Early =>
    /\ call[c].k = 1 /\ call[c].step = 1 /\ call[c].token = 0
    /\ ~call[c].landed /\ call[c].status = "success"
    /\ \A e \in effects : e.call # c
    /\ \A r \in audit : r.call # c

(* What a call asks for, and what it has read: never newer than the drive. *)
ReadingOK(c) ==
  /\ call[c].intent \in UpdateIntent => call[c].tool = "updateFile"
  /\ Len(call[c].seen) <= Len(call[c].targets)
  /\ call[c].phase # "idle" => call[c].targets # <<>>
  /\ call[c].phase # "idle" /\ It(c).several = "one" => Len(call[c].targets) = 1
  /\ call[c].phase = "reading" => Len(call[c].seen) < Len(call[c].targets)
  /\ call[c].phase \in {"content", "gate", "running", "record", "verify", "saving"} =>
       Len(call[c].seen) = Len(call[c].targets)
  /\ \A j \in DOMAIN call[c].seen :
       /\ call[c].seen[j] <= drive[call[c].targets[j]].ver
       /\ It(c).reads = "live" => call[c].seen[j] # 0
  /\ Len(call[c].inner) = IF It(c).nested THEN Len(call[c].seen) ELSE 0

(* The token of an admitted call was issued for what the call then read,   *)
(* and can be presented no more.                                           *)
TokenOK(c) ==
  call[c].token # 0 => issued[call[c].token] = Proof(c) /\ call[c].token \notin tokens

(* Where a call is.                                                        *)
PlaceOK(c) ==
  /\ call[c].phase = "running" =>
       /\ call[c].k \in DOMAIN call[c].targets
       /\ call[c].step \in DOMAIN Steps(c)
       /\ It(c).several = "distinct" => ~Duplicates(c)
       /\ call[c].landed => StepOf(c) = "chunk"
       /\ call[c].status \in {"success", "accepted"}
  /\ call[c].phase = "record" =>
       (call[c].status \in {"success", "accepted"}
          => call[c].k = Len(call[c].targets) + 1)
  /\ call[c].phase = "verify" => call[c].k = 1

(* The changes made for a call: of a target and a step it has come to, with*)
(* its token, under the condition its preview showed, over a backup.       *)
EffectOK(c, e) ==
  /\ e.k \in DOMAIN call[c].targets /\ e.k \in DOMAIN call[c].seen
  /\ e.item = call[c].targets[e.k]
  /\ e.step \in DOMAIN Steps(c)
  /\ e.token = call[c].token
  /\ e.from # 0 /\ e.act \in Conditional /\ call[c].intent \notin Unconditional
       => e.from = call[c].seen[e.k] /\ It(c).proof = "version"
  /\ call[c].tool \in BackedUp /\ call[c].intent \notin Unconditional /\ call[c].backup
       => <<e.item, e.from>> \in backups
  /\ It(c).several = "any" =>
       \A j \in DOMAIN call[c].seen :
         call[c].targets[j] = e.item => call[c].seen[j] < drive[e.item].ver

Reached(c, e) ==
  /\ call[c].phase = "running" =>
       \/ e.k < call[c].k
       \/ e.k = call[c].k /\ e.step < call[c].step
       \/ e.k = call[c].k /\ e.step = call[c].step /\ call[c].landed
  /\ call[c].phase = "record" => e.k <= call[c].k
  /\ call[c].phase = "record" /\ call[c].status = "refused" => e.k # call[c].k

EffectsOK(c) ==
  \A e \in effects : e.call = c => EffectOK(c, e) /\ Reached(c, e)

OnceEach(c) ==
  \A d, e \in effects :
    d.call = c /\ e.call = c /\ d.item = e.item /\ d.step = e.step => d = e

(* What is behind a call is done.                                          *)
DoneOK(c) ==
  /\ call[c].phase \in {"running", "record"} =>
       \A j \in DOMAIN call[c].targets :
         j < call[c].k => Changing(call[c].tool) \subseteq Applied(c, j)
  /\ call[c].phase = "running" =>
       \A s \in Changing(call[c].tool) :
         s < call[c].step => s \in Applied(c, call[c].k)
  /\ call[c].phase = "record" /\ call[c].status = "partial" => 1 \in Applied(c, 1)

(* A request that is to have a backup has it, or will not be accepted.     *)
BackupOK(c) ==
  call[c].phase = "running" /\ call[c].backup =>
    /\ \A s \in DOMAIN Steps(c) : Steps(c)[s] = "backup" /\ s < call[c].step =>
         <<Target(c), Base(c)>> \in backups
    /\ call[c].tool = "updateFile" /\ call[c].step = 2 =>
         <<Target(c), Base(c)>> \in backups \/ drive[Target(c)].ver > Base(c)

RecordOK(c, r) ==
  /\ r.item = 0 => call[c].phase \in {"verify", "saving", "ended", "killed"}
  /\ r.status \in {"partial", "refused"} => r.item = 0
  /\ \A k \in DOMAIN call[c].targets :
       /\ k <= r.done => Changing(call[c].tool) \subseteq Applied(c, k)
       /\ k > r.done + 1 => r.item # 0 \/ Applied(c, k) = {}
  /\ r.item = 0 /\ r.status \in {"success", "accepted"} => r.done = Len(call[c].targets)
  /\ r.status = "refused" => Applied(c, r.done + 1) = {}
  /\ r.status = "partial" => 1 \in Applied(c, 1)

RecordsOK(c) == \A r \in audit : r.call = c => RecordOK(c, r)

(* A call that is past its record has left it, or a warning.               *)
LeftOK(c) ==
  call[c].phase \in {"verify", "saving", "ended"} =>
    \A e \in effects : e.call = c =>
      call[c].warned \/ \E r \in audit : r.call = c /\ r.item = 0

CallOK(c) ==
  /\ EarlyOK(c) /\ ReadingOK(c) /\ TokenOK(c) /\ PlaceOK(c)
  /\ EffectsOK(c) /\ OnceEach(c) /\ DoneOK(c) /\ BackupOK(c)
  /\ RecordsOK(c) /\ LeftOK(c)

OwnTokens == \A c, d \in Call : call[c].token # 0 /\ call[c].token = call[d].token => c = d

IInv ==
  /\ TypeOK /\ IsFiniteSet(effects) /\ OwnTokens
  /\ \A c \in Call : CallOK(c)

-----------------------------------------------------------------------------
(* The handlers.                                                           *)
(* What the proofs use of a handler: how it was read where it sends a      *)
(* condition, which steps only batches take or only come first or last, and*)
(* that a backup comes before what needs it.                               *)
StepOK(tool, h, s, a) ==
  /\ a \in {"patch", "remove", "erase"} => h.reads = "live"
  /\ a \in Conditional => h.proof = "version"
  /\ h.several = "any" /\ a \in Requests \cup {"chunk"} => a = "patch"
  /\ a \in {"again", "note"} => h.several = "any"
  /\ a \in {"again", "locate", "keep"} => s = 1
  /\ a \in {"locate", "keep", "chunk"} => h.several = "one"
  /\ (a = "keep") <=> (tool = "updateFile" /\ s = 1)
  /\ a \in {"chunk", "note"} => s = Len(h.steps)
  /\ tool = "restoreDeleted" /\ a \in {"name", "confirm"} => s > 1
  /\ tool \in BackedUp \ {"updateFile"} /\ a \in Requests \cup {"chunk"}
       => a = "patch" /\ \E b \in 1 .. (s - 1) : h.steps[b] = "backup"
  /\ tool = "updateFile" => s = 1 \/ (s = 2 /\ a = "put")

(* Whether a batch is nested is said by several, too.                      *)
HandlerOK(tool, h) ==
  /\ Len(h.steps) \in Nat \ {0} /\ DOMAIN h.steps = 1 .. Len(h.steps)
  /\ h.nested = (h.several = "any")
  /\ h.several = "any" => h.reads = "live" /\ h.steps[1] = "again"
  /\ h.several \in {"one", "distinct", "any"}
  /\ tool = "updateFile" => h.several = "one" /\ h.reads = "live"
  /\ tool = "restoreDeleted" => h.several = "one" /\ h.steps[1] = "restore"
  /\ \A s \in 1 .. Len(h.steps) : StepOK(tool, h, s, h.steps[s])

Is(h, reads, proof, several, steps) ==
  /\ h.reads = reads /\ h.proof = proof /\ h.several = several /\ h.steps = steps
  /\ h.nested = (several = "any")

LEMMA Handlers == \A tool \in Tool : HandlerOK(tool, callTool[tool])
<1>1. HandlerOK("createFolder", callTool["createFolder"])
  <2>1. Is(callTool["createFolder"], "nothing", "version", "one", <<"create">>)
    BY DEF Is, callTool, createFolder, Handler
  <2>2. LET h == callTool["createFolder"] IN
        \A s \in 1 .. Len(h.steps) : StepOK("createFolder", h, s, h.steps[s])
    BY <2>1 DEF Is, StepOK, Requests, Conditional, BackedUp
  <2> QED
    BY <2>1, <2>2 DEF Is, HandlerOK
<1>2. HandlerOK("rename", callTool["rename"])
  <2>1. Is(callTool["rename"], "live", "version", "one", <<"patch">>)
    BY DEF Is, callTool, rename, Handler
  <2>2. LET h == callTool["rename"] IN
        \A s \in 1 .. Len(h.steps) : StepOK("rename", h, s, h.steps[s])
    BY <2>1 DEF Is, StepOK, Requests, Conditional, BackedUp
  <2> QED
    BY <2>1, <2>2 DEF Is, HandlerOK
<1>3. HandlerOK("moveItem", callTool["moveItem"])
  <2>1. Is(callTool["moveItem"], "live", "version", "one", <<"patch">>)
    BY DEF Is, callTool, moveItem, Handler
  <2>2. LET h == callTool["moveItem"] IN
        \A s \in 1 .. Len(h.steps) : StepOK("moveItem", h, s, h.steps[s])
    BY <2>1 DEF Is, StepOK, Requests, Conditional, BackedUp
  <2> QED
    BY <2>1, <2>2 DEF Is, HandlerOK
<1>4. HandlerOK("copyItem", callTool["copyItem"])
  <2>1. Is(callTool["copyItem"], "live", "version", "one", <<"post", "monitor">>)
    BY DEF Is, callTool, copyItem, Handler
  <2>2. LET h == callTool["copyItem"] IN
        \A s \in 1 .. Len(h.steps) : StepOK("copyItem", h, s, h.steps[s])
    BY <2>1 DEF Is, StepOK, Requests, Conditional, BackedUp
  <2> QED
    BY <2>1, <2>2 DEF Is, HandlerOK
<1>5. HandlerOK("createSharingLink", callTool["createSharingLink"])
  <2>1. Is(callTool["createSharingLink"], "live", "identity", "one", <<"post">>)
    BY DEF Is, callTool, createSharingLink, Handler
  <2>2. LET h == callTool["createSharingLink"] IN
        \A s \in 1 .. Len(h.steps) : StepOK("createSharingLink", h, s, h.steps[s])
    BY <2>1 DEF Is, StepOK, Requests, Conditional, BackedUp
  <2> QED
    BY <2>1, <2>2 DEF Is, HandlerOK
<1>6. HandlerOK("invitePermission", callTool["invitePermission"])
  <2>1. Is(callTool["invitePermission"], "live", "identity", "one", <<"post">>)
    BY DEF Is, callTool, invitePermission, Handler
  <2>2. LET h == callTool["invitePermission"] IN
        \A s \in 1 .. Len(h.steps) : StepOK("invitePermission", h, s, h.steps[s])
    BY <2>1 DEF Is, StepOK, Requests, Conditional, BackedUp
  <2> QED
    BY <2>1, <2>2 DEF Is, HandlerOK
<1>7. HandlerOK("revokePermission", callTool["revokePermission"])
  <2>1. Is(callTool["revokePermission"], "live", "identity", "one", <<"post">>)
    BY DEF Is, callTool, revokePermission, Handler
  <2>2. LET h == callTool["revokePermission"] IN
        \A s \in 1 .. Len(h.steps) : StepOK("revokePermission", h, s, h.steps[s])
    BY <2>1 DEF Is, StepOK, Requests, Conditional, BackedUp
  <2> QED
    BY <2>1, <2>2 DEF Is, HandlerOK
<1>8. HandlerOK("batchRevokePermissions", callTool["batchRevokePermissions"])
  <2>1. Is(callTool["batchRevokePermissions"], "live", "identity", "distinct", <<"post">>)
    BY DEF Is, callTool, batchRevokePermissions, Handler
  <2>2. LET h == callTool["batchRevokePermissions"] IN
        \A s \in 1 .. Len(h.steps) : StepOK("batchRevokePermissions", h, s, h.steps[s])
    BY <2>1 DEF Is, StepOK, Requests, Conditional, BackedUp
  <2> QED
    BY <2>1, <2>2 DEF Is, HandlerOK
<1>9. HandlerOK("batchMove", callTool["batchMove"])
  <2>1. Is(callTool["batchMove"], "live", "version", "distinct", <<"patch">>)
    BY DEF Is, callTool, batchMove, Handler
  <2>2. LET h == callTool["batchMove"] IN
        \A s \in 1 .. Len(h.steps) : StepOK("batchMove", h, s, h.steps[s])
    BY <2>1 DEF Is, StepOK, Requests, Conditional, BackedUp
  <2> QED
    BY <2>1, <2>2 DEF Is, HandlerOK
<1>10. HandlerOK("batchDelete", callTool["batchDelete"])
  <2>1. Is(callTool["batchDelete"], "live", "version", "distinct", <<"remove">>)
    BY DEF Is, callTool, batchDelete, Handler
  <2>2. LET h == callTool["batchDelete"] IN
        \A s \in 1 .. Len(h.steps) : StepOK("batchDelete", h, s, h.steps[s])
    BY <2>1 DEF Is, StepOK, Requests, Conditional, BackedUp
  <2> QED
    BY <2>1, <2>2 DEF Is, HandlerOK
<1>11. HandlerOK("deleteItem", callTool["deleteItem"])
  <2>1. Is(callTool["deleteItem"], "live", "version", "one", <<"remove">>)
    BY DEF Is, callTool, deleteItem, Handler
  <2>2. LET h == callTool["deleteItem"] IN
        \A s \in 1 .. Len(h.steps) : StepOK("deleteItem", h, s, h.steps[s])
    BY <2>1 DEF Is, StepOK, Requests, Conditional, BackedUp
  <2> QED
    BY <2>1, <2>2 DEF Is, HandlerOK
<1>12. HandlerOK("permanentDeleteItem", callTool["permanentDeleteItem"])
  <2>1. Is(callTool["permanentDeleteItem"], "live", "version", "one", <<"locate", "erase">>)
    BY DEF Is, callTool, permanentDeleteItem, Handler
  <2>2. LET h == callTool["permanentDeleteItem"] IN
        \A s \in 1 .. Len(h.steps) : StepOK("permanentDeleteItem", h, s, h.steps[s])
    BY <2>1 DEF Is, StepOK, Requests, Conditional, BackedUp
  <2> QED
    BY <2>1, <2>2 DEF Is, HandlerOK
<1>13. HandlerOK("restoreDeleted", callTool["restoreDeleted"])
  <2>1. Is(callTool["restoreDeleted"], "nothing", "identity", "one", <<"restore", "name", "confirm">>)
    BY DEF Is, callTool, restoreDeleted, Handler
  <2>2. LET h == callTool["restoreDeleted"] IN
        \A s \in 1 .. Len(h.steps) : StepOK("restoreDeleted", h, s, h.steps[s])
    BY <2>1 DEF Is, StepOK, Requests, Conditional, BackedUp
  <2> QED
    BY <2>1, <2>2 DEF Is, HandlerOK
<1>14. HandlerOK("restoreVersion", callTool["restoreVersion"])
  <2>1. Is(callTool["restoreVersion"], "live", "version", "one", <<"patch", "confirm">>)
    BY DEF Is, callTool, restoreVersion, Handler
  <2>2. LET h == callTool["restoreVersion"] IN
        \A s \in 1 .. Len(h.steps) : StepOK("restoreVersion", h, s, h.steps[s])
    BY <2>1 DEF Is, StepOK, Requests, Conditional, BackedUp
  <2> QED
    BY <2>1, <2>2 DEF Is, HandlerOK
<1>15. HandlerOK("patchText", callTool["patchText"])
  <2>1. Is(callTool["patchText"], "live", "version", "one", <<"patch", "confirm">>)
    BY DEF Is, callTool, patchText, Handler
  <2>2. LET h == callTool["patchText"] IN
        \A s \in 1 .. Len(h.steps) : StepOK("patchText", h, s, h.steps[s])
    BY <2>1 DEF Is, StepOK, Requests, Conditional, BackedUp
  <2> QED
    BY <2>1, <2>2 DEF Is, HandlerOK
<1>16. HandlerOK("upload", callTool["upload"])
  <2>1. Is(callTool["upload"], "any", "version", "one", <<"put">>)
    BY DEF Is, callTool, upload, Handler, Creator
  <2>2. LET h == callTool["upload"] IN
        \A s \in 1 .. Len(h.steps) : StepOK("upload", h, s, h.steps[s])
    BY <2>1 DEF Is, StepOK, Requests, Conditional, BackedUp
  <2> QED
    BY <2>1, <2>2 DEF Is, HandlerOK
<1>17. HandlerOK("uploadLarge", callTool["uploadLarge"])
  <2>1. Is(callTool["uploadLarge"], "any", "version", "one", <<"session", "chunk">>)
    BY DEF Is, callTool, uploadLarge, Handler, Creator
  <2>2. LET h == callTool["uploadLarge"] IN
        \A s \in 1 .. Len(h.steps) : StepOK("uploadLarge", h, s, h.steps[s])
    BY <2>1 DEF Is, StepOK, Requests, Conditional, BackedUp
  <2> QED
    BY <2>1, <2>2 DEF Is, HandlerOK
<1>18. HandlerOK("writeText", callTool["writeText"])
  <2>1. Is(callTool["writeText"], "any", "version", "one", <<"put">>)
    BY DEF Is, callTool, writeText, Handler, Creator
  <2>2. LET h == callTool["writeText"] IN
        \A s \in 1 .. Len(h.steps) : StepOK("writeText", h, s, h.steps[s])
    BY <2>1 DEF Is, StepOK, Requests, Conditional, BackedUp
  <2> QED
    BY <2>1, <2>2 DEF Is, HandlerOK
<1>19. HandlerOK("uploadChatgptFile", callTool["uploadChatgptFile"])
  <2>1. Is(callTool["uploadChatgptFile"], "any", "version", "one", <<"put">>)
    BY DEF Is, callTool, uploadChatgptFile, Handler, Creator
  <2>2. LET h == callTool["uploadChatgptFile"] IN
        \A s \in 1 .. Len(h.steps) : StepOK("uploadChatgptFile", h, s, h.steps[s])
    BY <2>1 DEF Is, StepOK, Requests, Conditional, BackedUp
  <2> QED
    BY <2>1, <2>2 DEF Is, HandlerOK
<1>20. HandlerOK("createOfficeFile", callTool["createOfficeFile"])
  <2>1. Is(callTool["createOfficeFile"], "any", "version", "one", <<"put">>)
    BY DEF Is, callTool, createOfficeFile, Handler, Creator
  <2>2. LET h == callTool["createOfficeFile"] IN
        \A s \in 1 .. Len(h.steps) : StepOK("createOfficeFile", h, s, h.steps[s])
    BY <2>1 DEF Is, StepOK, Requests, Conditional, BackedUp
  <2> QED
    BY <2>1, <2>2 DEF Is, HandlerOK
<1>21. HandlerOK("exportFileToOneDrive", callTool["exportFileToOneDrive"])
  <2>1. Is(callTool["exportFileToOneDrive"], "any", "version", "one", <<"put", "confirm">>)
    BY DEF Is, callTool, exportFileToOneDrive, Handler, Creator
  <2>2. LET h == callTool["exportFileToOneDrive"] IN
        \A s \in 1 .. Len(h.steps) : StepOK("exportFileToOneDrive", h, s, h.steps[s])
    BY <2>1 DEF Is, StepOK, Requests, Conditional, BackedUp
  <2> QED
    BY <2>1, <2>2 DEF Is, HandlerOK
<1>22. HandlerOK("officeBatchUpdate", callTool["officeBatchUpdate"])
  <2>1. Is(callTool["officeBatchUpdate"], "live", "version", "one", <<"backup", "patch">>)
    BY DEF Is, callTool, officeBatchUpdate, Handler
  <2>2. LET h == callTool["officeBatchUpdate"] IN
        \A s \in 1 .. Len(h.steps) : StepOK("officeBatchUpdate", h, s, h.steps[s])
    BY <2>1 DEF Is, StepOK, Requests, Conditional, BackedUp
  <2> QED
    BY <2>1, <2>2 DEF Is, HandlerOK
<1>23. HandlerOK("applyExcelGraphOperations", callTool["applyExcelGraphOperations"])
  <2>1. Is(callTool["applyExcelGraphOperations"], "live", "version", "one", <<"backup", "workbook", "cells">>)
    BY DEF Is, callTool, applyExcelGraphOperations, Handler
  <2>2. LET h == callTool["applyExcelGraphOperations"] IN
        \A s \in 1 .. Len(h.steps) : StepOK("applyExcelGraphOperations", h, s, h.steps[s])
    BY <2>1 DEF Is, StepOK, Requests, Conditional, BackedUp
  <2> QED
    BY <2>1, <2>2 DEF Is, HandlerOK
<1>24. HandlerOK("officeRestoreBackup", callTool["officeRestoreBackup"])
  <2>1. Is(callTool["officeRestoreBackup"], "live", "version", "one", <<"download", "backup", "patch">>)
    BY DEF Is, callTool, officeRestoreBackup, Handler
  <2>2. LET h == callTool["officeRestoreBackup"] IN
        \A s \in 1 .. Len(h.steps) : StepOK("officeRestoreBackup", h, s, h.steps[s])
    BY <2>1 DEF Is, StepOK, Requests, Conditional, BackedUp
  <2> QED
    BY <2>1, <2>2 DEF Is, HandlerOK
<1>25. HandlerOK("officeBatchTransform", callTool["officeBatchTransform"])
  <2>1. Is(callTool["officeBatchTransform"], "live", "version", "any", <<"again", "backup", "patch", "note">>)
    BY DEF Is, callTool, officeBatchTransformAdmitted, Handler
  <2>2. LET h == callTool["officeBatchTransform"] IN
        \A s \in 1 .. Len(h.steps) : StepOK("officeBatchTransform", h, s, h.steps[s])
    BY <2>1 DEF Is, StepOK, Requests, Conditional, BackedUp
  <2> QED
    BY <2>1, <2>2 DEF Is, HandlerOK
<1>26. HandlerOK("updateFile", callTool["updateFile"])
  <2>1. Is(callTool["updateFile"], "live", "version", "one", <<"keep", "put">>)
    BY DEF Is, callTool, updateFile, Handler
  <2>2. LET h == callTool["updateFile"] IN
        \A s \in 1 .. Len(h.steps) : StepOK("updateFile", h, s, h.steps[s])
    BY <2>1 DEF Is, StepOK, Requests, Conditional, BackedUp
  <2> QED
    BY <2>1, <2>2 DEF Is, HandlerOK
<1> QED
  BY <1>1, <1>2, <1>3, <1>4, <1>5, <1>6, <1>7, <1>8, <1>9, <1>10, <1>11, <1>12, <1>13, <1>14, <1>15, <1>16, <1>17, <1>18, <1>19, <1>20, <1>21, <1>22, <1>23, <1>24, <1>25, <1>26 DEF Tool, callTool
-----------------------------------------------------------------------------
(* What every step leaves to the calls it is not about.                    *)
Grows ==
  /\ session' = session
  /\ \A i \in Item : drive[i].ver <= drive'[i].ver
  /\ backups \subseteq backups'
  /\ Len(issued) <= Len(issued')
  /\ \A j \in 1 .. Len(issued) : issued'[j] = issued[j]
  /\ \A t \in tokens' : t \in tokens \/ t > Len(issued)

Leaves(d) ==
  /\ call'[d] = call[d]
  /\ \A e \in effects \cup effects' : e.call = d => (e \in effects <=> e \in effects')
  /\ \A r \in audit \cup audit' : r.call = d => (r \in audit <=> r \in audit')

(* The parts of a call's record have their types.                          *)
Typed(r) ==
  /\ r.tool \in Tool /\ r.targets \in Seq(Item) /\ r.dry \in BOOLEAN
  /\ r.intent \in Intent \cup UpdateIntent /\ r.backup \in BOOLEAN
  /\ r.seen \in Seq(Nat) /\ r.inner \in Seq(Nat)
  /\ r.token \in Nat /\ r.k \in Nat \ {0} /\ r.step \in Nat \ {0}
  /\ r.tries \in Nat /\ r.landed \in BOOLEAN /\ r.status \in Statuses
  /\ r.warned \in BOOLEAN /\ r.named \in Nat

(* A call that a step does not concern stays as it was, however the drive, *)
(* the backups and the tokens grow.                                        *)
LEMMA LeftAlone ==
  ASSUME TypeOK, NEW d \in Call, CallOK(d), Grows, Leaves(d), TypeOK'
  PROVE  CallOK(d)'
<1> DEFINE tg == call[d].targets
           sn == call[d].seen
<1>1. /\ tg \in Seq(Item) /\ sn \in Seq(Nat) /\ Len(tg) \in Nat /\ Len(sn) \in Nat
      /\ DOMAIN tg = 1 .. Len(tg) /\ DOMAIN sn = 1 .. Len(sn)
      /\ \A j \in DOMAIN tg : tg[j] \in Item
      /\ \A j \in DOMAIN sn : sn[j] \in Nat
  BY DEF TypeOK
<1>2. /\ \A i \in Item : drive[i].ver \in Nat /\ drive'[i].ver \in Nat
      /\ call[d].token \in 0 .. Len(issued) /\ Len(issued) \in Nat
      /\ call[d].k \in Nat
  BY DEF TypeOK
<1>3. call'[d] = call[d]
  BY DEF Leaves
<1>4. \A k : Applied(d, k)' = Applied(d, k)
  BY DEF Applied, Leaves
<1>5. Len(sn) <= Len(tg)
  BY DEF CallOK, ReadingOK
<1> HIDE DEF tg, sn
<1>6. /\ (It(d) = It(d))' /\ It(d)' = It(d) /\ Steps(d)' = Steps(d)
      /\ StepOf(d)' = StepOf(d) /\ Target(d)' = Target(d) /\ Base(d)' = Base(d)
      /\ Duplicates(d)' = Duplicates(d) /\ Proof(d)' = Proof(d)
  BY <1>3 DEF It, Steps, StepOf, Target, Base, Duplicates, Proof
<1>7. EarlyOK(d)'
  BY <1>3 DEF Leaves, CallOK, EarlyOK
<1>8. ReadingOK(d)'
  <2>0. \A j \in DOMAIN sn : sn[j] <= drive[tg[j]].ver
    BY DEF CallOK, ReadingOK, tg, sn
  <2>1. \A j \in DOMAIN sn : sn[j] <= drive'[tg[j]].ver
    BY <1>1, <1>2, <1>5, <2>0 DEF Grows
  <2> QED
    BY <1>3, <1>6, <2>1 DEF CallOK, ReadingOK, tg, sn
<1>9. TokenOK(d)'
  BY <1>2, <1>3, <1>6 DEF CallOK, TokenOK, Grows
<1>10. PlaceOK(d)'
  BY <1>3, <1>6 DEF CallOK, PlaceOK
<1>11. EffectsOK(d)'
  <2> SUFFICES ASSUME NEW e \in effects', e.call = d
               PROVE  EffectOK(d, e)' /\ Reached(d, e)'
    BY DEF EffectsOK
  <2>1. e \in effects /\ EffectOK(d, e) /\ Reached(d, e)
    BY DEF Leaves, CallOK, EffectsOK
  <2>2. Reached(d, e)'
    BY <1>3, <2>1 DEF Reached
  <2>3. \A j \in DOMAIN sn : tg[j] = e.item =>
                  (sn[j] < drive[e.item].ver => sn[j] < drive'[e.item].ver)
    BY <1>1, <1>2, <1>5 DEF Grows
  <2>4. EffectOK(d, e)'
    BY <1>3, <1>6, <2>1, <2>3 DEF EffectOK, Grows, tg, sn
  <2> QED
    BY <2>2, <2>4
<1>12. OnceEach(d)'
  BY DEF Leaves, CallOK, OnceEach
<1>13. DoneOK(d)'
  BY <1>3, <1>4 DEF CallOK, DoneOK
<1>14. BackupOK(d)'
  <2>1. CASE call[d].phase = "running"
    <3>1. Target(d) \in Item /\ Base(d) \in Nat
      BY <1>1, <2>1 DEF CallOK, PlaceOK, ReadingOK, Target, Base, tg, sn
    <3> QED
      BY <1>2, <1>3, <1>6, <3>1 DEF CallOK, BackupOK, Grows
  <2> QED
    BY <1>3, <2>1 DEF BackupOK
<1>15. RecordsOK(d)'
  BY <1>3, <1>4 DEF Leaves, CallOK, RecordsOK, RecordOK
<1>16. LeftOK(d)'
  BY <1>3 DEF Leaves, CallOK, LeftOK
<1> QED
  BY <1>7, <1>8, <1>9, <1>10, <1>11, <1>12, <1>13, <1>14, <1>15, <1>16 DEF CallOK

-----------------------------------------------------------------------------
(* Preview tokens.                                                         *)

LEMMA SmallestOf ==
  ASSUME NEW S, IsFiniteSet(S), S \subseteq Nat, S # {}
  PROVE  \E m \in S : \A y \in S : m <= y
<1> DEFINE below(x) == {u \in S : u < x}
           B == {below(x) : x \in S}
           R == StrictSubsetOrdering(S)
<1>1. IsWellFoundedOn(R, SUBSET S)
  BY FS_StrictSubsetOrderingWellFounded, FS_FiniteSubsetsOfFinite
<1>2. B \subseteq SUBSET S /\ B # {}
  OBVIOUS
<1>3. PICK b \in B : \A a \in B : <<a, b>> \notin R
  <2> HIDE DEF B, R
  <2> QED
    BY <1>1, <1>2, WFMin
<1>4. PICK m \in S : b = below(m)
  BY <1>3
<1>5. ASSUME NEW y \in S, y < m PROVE FALSE
  <2>1. below(y) \subseteq below(m) /\ y \in below(m) /\ y \notin below(y)
    <3>1. y \in Nat /\ m \in Nat /\ \A u \in S : u \in Nat
      OBVIOUS
    <3>2. \A u \in S : u < y => u < m
      BY <1>5, <3>1
    <3>3. below(y) \subseteq below(m)
      BY <3>2
    <3>4. y \in below(m)
      BY <1>5
    <3>5. y \notin below(y)
      BY <3>1
    <3> QED
      BY <3>3, <3>4, <3>5
  <2>2. below(y) \in B /\ <<below(y), below(m)>> \in R
    BY <2>1 DEF StrictSubsetOrdering
  <2> QED
    BY <1>3, <1>4, <2>2
<1> QED
  BY <1>4, <1>5

(* After a cleanup there is room for one more token.                       *)
LEMMA CleanupMakesRoom ==
  ASSUME NEW T, IsFiniteSet(T), T \subseteq Nat
  PROVE  LET C == cleanupPreviewTokens(T)
         IN  C \subseteq T /\ IsFiniteSet(C) /\ Cardinality(C) <= Capacity - 1
<1> DEFINE C == cleanupPreviewTokens(T)
<1>1. C \subseteq T /\ IsFiniteSet(C) /\ Cardinality(C) \in Nat
  BY FS_Subset, FS_CardinalityType DEF cleanupPreviewTokens
<1>2. CASE C = {}
  BY <1>1, <1>2, FS_EmptySet, BoundsAssumption
<1>3. CASE C # {}
  <2>1. PICK m \in C : \A y \in C : m <= y
    BY <1>1, <1>3, SmallestOf
  <2>2. \A y \in C : y = m \/ y > m
    <3>1. m \in Nat /\ \A y \in C : y \in Nat
      BY <1>1, <2>1
    <3> QED
      BY <2>1, <3>1
  <2> DEFINE U == {u \in T : u > m}
  <2>3. IsFiniteSet(U) /\ Cardinality(U) < Capacity - 1
    BY <2>1, FS_Subset DEF cleanupPreviewTokens
  <2>4. C \ {m} \subseteq U
    BY <1>1, <2>2
  <2>5. Cardinality(C \ {m}) = Cardinality(C) - 1
    BY <1>1, <2>1, FS_RemoveElement
  <2>6. Cardinality(C \ {m}) <= Cardinality(U) /\ Cardinality(U) \in Nat
    BY <2>3, <2>4, FS_Subset, FS_CardinalityType
  <2> QED
    BY <1>1, <2>3, <2>5, <2>6, BoundsAssumption
<1> QED
  BY <1>1, <1>2, <1>3

TokensOK(T, n) == T \subseteq 1 .. n /\ Cardinality(T) <= Capacity

LEMMA TokensFinite ==
  ASSUME NEW n \in Nat, NEW T, T \subseteq 1 .. n
  PROVE  IsFiniteSet(T) /\ T \subseteq Nat /\ Cardinality(T) \in Nat
<1>1. IsFiniteSet(1 .. n)
  BY FS_Interval
<1>2. IsFiniteSet(T)
  BY <1>1, FS_Subset
<1> QED
  BY <1>2, FS_CardinalityType

(* However tokens are issued, consumed and forgotten, they keep to the cap.*)
LEMMA TokenSets ==
  ASSUME TypeOK
  PROVE  /\ TokensOK(cleanupPreviewTokens(tokens), Len(issued))
         /\ TokensOK(cleanupPreviewTokens(tokens) \cup {Len(issued) + 1}, Len(issued) + 1)
         /\ \A t : /\ TokensOK(cleanupPreviewTokens(tokens) \ {t}, Len(issued))
                   /\ TokensOK(tokens \ {t}, Len(issued))
         /\ cleanupPreviewTokens(tokens) \subseteq tokens
<1> DEFINE n == Len(issued)
           C == cleanupPreviewTokens(tokens)
<1>1. n \in Nat /\ tokens \subseteq 1 .. n /\ Cardinality(tokens) <= Capacity
  BY DEF TypeOK
<1>2. IsFiniteSet(tokens) /\ tokens \subseteq Nat
  BY <1>1, TokensFinite
<1>3. C \subseteq tokens /\ IsFiniteSet(C) /\ Cardinality(C) <= Capacity - 1
      /\ Cardinality(C) \in Nat
  BY <1>2, CleanupMakesRoom, FS_CardinalityType
<1> HIDE DEF n, C
<1>4. TokensOK(C, n)
  BY <1>1, <1>3, BoundsAssumption DEF TokensOK
<1>5. TokensOK(C \cup {n + 1}, n + 1)
  <2>1. n + 1 \notin C
    BY <1>1, <1>3
  <2>2. Cardinality(C \cup {n + 1}) = Cardinality(C) + 1
    BY <1>3, <2>1, FS_AddElement
  <2> QED
    BY <1>1, <1>3, <2>2, BoundsAssumption DEF TokensOK
<1>6. ASSUME NEW S, NEW t, IsFiniteSet(S), TokensOK(S, n) PROVE TokensOK(S \ {t}, n)
  BY <1>6, FS_Subset, FS_CardinalityType, BoundsAssumption DEF TokensOK
<1>7. \A t : TokensOK(C \ {t}, n) /\ TokensOK(tokens \ {t}, n)
  BY <1>1, <1>2, <1>3, <1>4, <1>6 DEF TokensOK
<1> QED
  BY <1>3, <1>4, <1>5, <1>7 DEF n, C

-----------------------------------------------------------------------------
(* What the moves of a call change, field by field.                        *)
Phases == {"idle", "reading", "content", "gate", "running", "record", "verify",
           "saving", "ended", "killed"}

CallRecord(n) ==
  [phase : Phases, tool : Tool, targets : Seq(Item), dry : BOOLEAN,
   intent : Intent \cup UpdateIntent, backup : BOOLEAN, named : Nat,
   seen : Seq(Nat), inner : Seq(1 .. n), token : 0 .. n,
   k : Nat \ {0}, step : Nat \ {0}, tries : Nat, landed : BOOLEAN,
   status : Statuses, warned : BOOLEAN]

LEMMA CallRecords ==
  TypeOK => /\ Len(issued) \in Nat
            /\ call \in [Call -> CallRecord(Len(issued))]
            /\ \A c \in Call : call[c] \in CallRecord(Len(issued))
  BY DEF TypeOK, CallRecord, Phases

(* Tokens that are issued later take nothing from a call's type.           *)
LEMMA RecordsGrow ==
  ASSUME NEW n \in Nat, NEW m \in Nat, n <= m
  PROVE  CallRecord(n) \subseteq CallRecord(m)
<1>1. 1 .. n \subseteq 1 .. m /\ 0 .. n \subseteq 0 .. m
  OBVIOUS
<1>2. \A s : s \in Seq(1 .. n) => s \in Seq(1 .. m)
  <2> SUFFICES ASSUME NEW s \in Seq(1 .. n) PROVE s \in Seq(1 .. m)
    OBVIOUS
  <2> QED
    BY <1>1
<1> QED
  BY <1>1, <1>2 DEF CallRecord

Moved(c) == DOMAIN call' = Call /\ \A d \in Call \ {c} : call'[d] = call[d]
SameAsk(c) ==
  LET r == call[c] IN
  /\ call'[c].tool = r.tool /\ call'[c].targets = r.targets
  /\ call'[c].dry = r.dry /\ call'[c].intent = r.intent
  /\ call'[c].backup = r.backup
SameRead(c) ==
  call'[c].seen = call[c].seen /\ call'[c].inner = call[c].inner
SamePlace(c) ==
  /\ call'[c].k = call[c].k /\ call'[c].step = call[c].step
SameToken(c)  == call'[c].token = call[c].token
SameLanded(c) == call'[c].landed = call[c].landed

(* Setting one call to a record.                                           *)
Sets(c, r) == call' = [call EXCEPT ![c] = r]

LEMMA SetMoves ==
  ASSUME TypeOK, NEW c \in Call, NEW n \in Nat, Len(issued) <= n,
         NEW r \in CallRecord(n), Sets(c, r)
  PROVE  call' \in [Call -> CallRecord(n)] /\ Moved(c) /\ call'[c] = r
<1>1. call \in [Call -> CallRecord(n)]
  BY CallRecords, RecordsGrow
<1> QED
  BY <1>1 DEF Sets, Moved

LEMMA ToMoves ==
  ASSUME TypeOK, NEW c \in Call, NEW p \in Phases, To(c, p)
  PROVE  /\ call' \in [Call -> CallRecord(Len(issued))] /\ Moved(c)
         /\ SameAsk(c) /\ SameRead(c) /\ SamePlace(c) /\ SameToken(c) /\ SameLanded(c)
         /\ call'[c].phase = p /\ call'[c].status = call[c].status
         /\ call'[c].warned = call[c].warned /\ call'[c].named = call[c].named
  BY CallRecords DEF To, CallRecord, Moved, SameAsk, SameRead, SamePlace, SameToken, SameLanded

LEMMA AdmitMoves ==
  ASSUME TypeOK, NEW c \in Call, NEW t \in 0 .. Len(issued), Admit(c, t)
  PROVE  /\ call' \in [Call -> CallRecord(Len(issued))] /\ Moved(c)
         /\ SameAsk(c) /\ SameRead(c) /\ SamePlace(c)
         /\ call'[c].phase = "running" /\ call'[c].token = t
         /\ call'[c].landed = call[c].landed /\ call'[c].status = call[c].status
<1> DEFINE r == [call[c] EXCEPT !.phase = "running", !.token = t]
<1>1. Sets(c, r)
  BY DEF Admit, Sets
<1>2. /\ r.k = call[c].k /\ r.step = call[c].step /\ r.landed = call[c].landed
      /\ r.status = call[c].status /\ r.phase = "running" /\ r.token = t
      /\ r.tool = call[c].tool /\ r.targets = call[c].targets /\ r.dry = call[c].dry
      /\ r.backup = call[c].backup
      /\ r.intent = call[c].intent /\ r.seen = call[c].seen /\ r.inner = call[c].inner
  BY CallRecords DEF CallRecord
<1>3. r \in CallRecord(Len(issued))
  BY CallRecords DEF CallRecord, Phases
<1> HIDE DEF r
<1>4. call'[c] = r /\ call' \in [Call -> CallRecord(Len(issued))] /\ Moved(c)
  BY <1>1, <1>3, SetMoves, CallRecords
<1> QED
  BY <1>2, <1>4 DEF SameAsk, SameRead, SamePlace

LEMMA FailMoves ==
  ASSUME TypeOK, NEW c \in Call, Fail(c)
  PROVE  /\ call' \in [Call -> CallRecord(Len(issued))] /\ Moved(c)
         /\ SameAsk(c) /\ SameRead(c) /\ SamePlace(c) /\ SameToken(c) /\ SameLanded(c)
         /\ call'[c].phase = "record"
         /\ call'[c].status \in {"failed", "partial"}
         /\ call'[c].status = "partial" =>
              StepOf(c) \in {"name", "confirm"} /\ call[c].tool = "restoreDeleted"
<1>1. PICK st \in {"failed", "partial"} :
        /\ Sets(c, [call[c] EXCEPT !.phase = "record", !.status = st])
        /\ st = "partial" =>
             StepOf(c) \in {"name", "confirm"} /\ call[c].tool = "restoreDeleted"
  BY DEF Fail, Sets
<1> DEFINE r == [call[c] EXCEPT !.phase = "record", !.status = st]
<1>2. /\ r.k = call[c].k /\ r.step = call[c].step /\ r.landed = call[c].landed
      /\ r.status = st /\ r.phase = "record" /\ r.token = call[c].token
      /\ r.tool = call[c].tool /\ r.targets = call[c].targets /\ r.dry = call[c].dry
      /\ r.backup = call[c].backup
      /\ r.intent = call[c].intent /\ r.seen = call[c].seen /\ r.inner = call[c].inner
  BY CallRecords DEF CallRecord
<1>3. r \in CallRecord(Len(issued))
  <2>1. call[c] \in CallRecord(Len(issued)) /\ "record" \in Phases /\ st \in Statuses
    BY CallRecords DEF Phases, Statuses
  <2> QED
    BY <2>1 DEF CallRecord
<1>4. Sets(c, r)
  BY <1>1
<1> HIDE DEF r
<1>5. call'[c] = r /\ call' \in [Call -> CallRecord(Len(issued))] /\ Moved(c)
  BY <1>3, <1>4, SetMoves, CallRecords
<1> QED
  BY <1>1, <1>2, <1>5 DEF SameAsk, SameRead, SamePlace, SameToken, SameLanded

LEMMA AdvanceMoves ==
  ASSUME TypeOK, NEW c \in Call, NEW st \in Statuses, Advance(c, st)
  PROVE  /\ call' \in [Call -> CallRecord(Len(issued))] /\ Moved(c)
         /\ SameAsk(c) /\ SameRead(c) /\ SameToken(c) /\ SameLanded(c)
         /\ call'[c].status = st
         /\ LET last == call[c].step = Len(Steps(c))
                whole == call[c].k = Len(call[c].targets) IN
            /\ ~last => call'[c].step = call[c].step + 1 /\ call'[c].k = call[c].k
            /\ last => call'[c].step = 1 /\ call'[c].k = call[c].k + 1
            /\ call'[c].phase = IF last /\ whole THEN "record" ELSE call[c].phase
<1> DEFINE last == call[c].step = Len(Steps(c))
           whole == call[c].k = Len(call[c].targets)
           step == IF last THEN 1 ELSE call[c].step + 1
           k == IF last THEN call[c].k + 1 ELSE call[c].k
           phase == IF last /\ whole THEN "record" ELSE call[c].phase
           r == [call[c] EXCEPT !.step = step, !.k = k, !.tries = 0, !.status = st,
                                !.phase = phase]
<1>1. /\ step \in Nat \ {0} /\ k \in Nat \ {0} /\ phase \in Phases
  BY CallRecords DEF CallRecord, Phases
<1>2. Sets(c, r)
  BY DEF Advance, Sets, Steps
<1> HIDE DEF step, k, phase
<1>3. /\ r.k = k /\ r.step = step /\ r.landed = call[c].landed
      /\ r.status = st /\ r.phase = phase /\ r.token = call[c].token
      /\ r.tool = call[c].tool /\ r.targets = call[c].targets /\ r.dry = call[c].dry
      /\ r.backup = call[c].backup
      /\ r.intent = call[c].intent /\ r.seen = call[c].seen /\ r.inner = call[c].inner
  BY CallRecords DEF CallRecord
<1>4. r \in CallRecord(Len(issued))
  BY <1>1, CallRecords DEF CallRecord
<1> HIDE DEF r
<1>5. call'[c] = r /\ call' \in [Call -> CallRecord(Len(issued))] /\ Moved(c)
  BY <1>2, <1>4, SetMoves, CallRecords
<1> QED
  BY <1>3, <1>5 DEF SameAsk, SameRead, SameToken, SameLanded, step, k, phase, last, whole

-----------------------------------------------------------------------------
(* A step of one call keeps the invariant if it keeps the call's part of it.*)
ProofRecord == [tool : Tool, targets : Seq(Item), backup : BOOLEAN, seen : Seq(Nat)]

OwnWork(c) ==
  /\ \A e \in effects \cup effects' : e.call # c => (e \in effects <=> e \in effects')
  /\ \A r \in audit \cup audit' : r.call # c => (r \in audit <=> r \in audit')

LEMMA TypeWhenLocal ==
  ASSUME TypeOK, UNCHANGED local, call' \in [Call -> CallRecord(Len(issued'))],
         TokensOK(tokens', Len(issued')), issued' \in Seq(ProofRecord)
  PROVE  TypeOK'
  BY DEF TypeOK, local, CallRecord, Phases, TokensOK, ProofRecord, Call

LEMMA StepKeeps ==
  ASSUME IInv, NEW c \in Call, Moved(c), Grows, OwnWork(c), TypeOK', CallOK(c)',
         IsFiniteSet(effects'),
         call'[c].token = call[c].token \/ call'[c].token \in {0} \cup tokens
  PROVE  IInv'
<1>1. Call' = Call
  BY DEF Call, Grows
<1>2. \A d \in Call \ {c} : CallOK(d)'
  <2> SUFFICES ASSUME NEW d \in Call \ {c} PROVE CallOK(d)'
    OBVIOUS
  <2>1. Leaves(d)
    BY DEF Leaves, Moved, OwnWork
  <2> QED
    BY <2>1, LeftAlone DEF IInv
<1>3. OwnTokens'
  <2>1. \A d \in Call \ {c} : call'[d].token = call[d].token /\
          (call[d].token # 0 => call[d].token # call[c].token /\ call[d].token \notin tokens)
    BY DEF Moved, IInv, OwnTokens, CallOK, TokenOK
  <2>2. \A d \in Call \ {c} : call'[d].token # 0 => call'[d].token # call'[c].token
    BY <2>1
  <2> QED
    BY <1>1, <2>1, <2>2 DEF OwnTokens, IInv
<1> QED
  BY <1>1, <1>2, <1>3 DEF IInv

(* Before it is admitted, a call only has to keep what it read in order.   *)
LEMMA EarlyKeeps ==
  ASSUME IInv, NEW c \in Call, call[c].phase \in Early, UNCHANGED local,
         call' \in [Call -> CallRecord(Len(issued'))], Moved(c), Grows,
         TokensOK(tokens', Len(issued')), issued' \in Seq(ProofRecord),
         call'[c].k = 1, call'[c].step = 1, call'[c].token = 0, ~call'[c].landed,
         call'[c].phase \in Early \cup {"ended", "saving", "record"},
         call'[c].phase \in Early => call'[c].status = "success",
         call'[c].phase = "record" => call'[c].status = "failed",
         ReadingOK(c)'
  PROVE  IInv'
<1>1. TypeOK'
  BY TypeWhenLocal DEF IInv
<1>2. effects' = effects /\ audit' = audit
      /\ (\A e \in effects : e.call # c) /\ (\A r \in audit : r.call # c)
  BY DEF local, IInv, CallOK, EarlyOK
<1>3. EarlyOK(c)' /\ TokenOK(c)'
  BY <1>2 DEF EarlyOK, TokenOK
<1>4. EffectsOK(c)' /\ OnceEach(c)' /\ RecordsOK(c)' /\ LeftOK(c)'
  BY <1>2 DEF EffectsOK, OnceEach, RecordsOK, LeftOK
<1>5. PlaceOK(c)' /\ BackupOK(c)' /\ DoneOK(c)'
  <2>1. call'[c].phase \notin {"running", "verify"}
    BY DEF Early
  <2>2. \A j \in DOMAIN call'[c].targets : ~(j < 1)
    <3>1. call'[c].targets \in Seq(Item)
      BY DEF CallRecord
    <3> QED
      BY <3>1
  <2> QED
    BY <2>1, <2>2 DEF PlaceOK, BackupOK, DoneOK, Early
<1>6. CallOK(c)'
  BY <1>3, <1>4, <1>5 DEF CallOK
<1>7. OwnWork(c) /\ IsFiniteSet(effects')
  BY <1>2 DEF OwnWork, IInv
<1> QED
  BY <1>1, <1>6, <1>7, StepKeeps

-----------------------------------------------------------------------------
(* The steps before a call is admitted.                                    *)
LEMMA HandlerOf ==
  ASSUME TypeOK, NEW c \in Call
  PROVE  HandlerOK(call[c].tool, It(c)) /\ call[c].tool \in Tool
<1>1. call[c].tool \in Tool
  BY DEF TypeOK
<1> QED
  BY <1>1, Handlers DEF It

LEMMA NothingGrows ==
  ASSUME TypeOK, UNCHANGED <<session, drive, backups, issued>>, tokens' \subseteq tokens
  PROVE  Grows
<1>1. Len(issued) \in Nat /\ \A i \in Item : drive[i].ver \in Nat
  BY DEF TypeOK
<1> QED
  BY <1>1 DEF Grows

LEMMA IssueGrows ==
  ASSUME TypeOK, UNCHANGED local, NEW proof \in ProofRecord, issuePreviewToken(proof)
  PROVE  /\ Grows /\ issued' \in Seq(ProofRecord) /\ Len(issued') = Len(issued) + 1
         /\ TokensOK(tokens', Len(issued'))
<1>1. /\ Len(issued) \in Nat /\ \A i \in Item : drive[i].ver \in Nat
      /\ issued \in Seq(ProofRecord)
  BY DEF TypeOK, ProofRecord
<1>2. /\ issued' \in Seq(ProofRecord) /\ Len(issued') = Len(issued) + 1
      /\ \A j \in 1 .. Len(issued) : issued'[j] = issued[j]
  BY <1>1 DEF issuePreviewToken
<1>3. TokensOK(tokens', Len(issued'))
  BY <1>2, TokenSets DEF issuePreviewToken
<1>4. \A t \in tokens' : t \in tokens \/ t > Len(issued)
  BY <1>1, TokenSets DEF issuePreviewToken
<1> QED
  BY <1>1, <1>2, <1>3, <1>4 DEF Grows, local

(* A call that issues nothing and goes on, or ends, before it is admitted. *)
LEMMA QuietEarlyKeeps ==
  ASSUME IInv, NEW c \in Call, call[c].phase \in {"reading", "content", "gate"},
         UNCHANGED local, UNCHANGED issued, tokens' \subseteq tokens,
         TokensOK(tokens', Len(issued)),
         call' \in [Call -> CallRecord(Len(issued))], Moved(c), SameAsk(c), SameRead(c),
         SamePlace(c), SameToken(c), SameLanded(c),
         \/ call'[c].phase = "gate" /\ call[c].phase = "content"
         \/ call'[c].phase = "saving" /\ call[c].phase = "gate"
         \/ call'[c].phase = "ended"
         \/ call'[c].phase = "record" /\ call'[c].status = "failed"
              /\ call[c].phase = "content",
         call'[c].phase # "record" => call'[c].status = call[c].status
  PROVE  IInv'
<1>1. TypeOK /\ CallOK(c) /\ call[c].phase \in Early
  BY DEF IInv, Early
<1>2. Grows /\ issued' \in Seq(ProofRecord)
  BY <1>1, NothingGrows DEF local, TypeOK, ProofRecord
<1>3. /\ call'[c].k = 1 /\ call'[c].step = 1 /\ call'[c].token = 0 /\ ~call'[c].landed
      /\ call'[c].phase # "record" => call'[c].status = "success"
  BY <1>1 DEF CallOK, EarlyOK, SamePlace, SameToken, SameLanded
<1>4. ReadingOK(c)'
  BY <1>1 DEF CallOK, ReadingOK, SameAsk, SameRead, It, local
<1>5. /\ call' \in [Call -> CallRecord(Len(issued'))] /\ TokensOK(tokens', Len(issued'))
      /\ call'[c].phase \in Early \cup {"ended", "saving", "record"}
      /\ call'[c].phase \in Early => call'[c].status = "success"
      /\ call'[c].phase = "record" => call'[c].status = "failed"
  BY <1>3 DEF Early
<1> QED
  BY <1>1, <1>2, <1>3, <1>4, <1>5, EarlyKeeps

LEMMA AdmitKeeps ==
  ASSUME IInv, NEW c \in Call, call[c].phase = "gate", UNCHANGED local,
         UNCHANGED issued, tokens' \subseteq tokens, TokensOK(tokens', Len(issued)),
         NEW t \in 0 .. Len(issued), Admit(c, t),
         It(c).several = "distinct" => ~Duplicates(c),
         t # 0 => t \in tokens /\ issued[t] = Proof(c) /\ t \notin tokens'
  PROVE  IInv'
<1>1. TypeOK /\ CallOK(c) /\ call[c].phase \in Early
  BY DEF IInv, Early
<1>2. Grows /\ issued' \in Seq(ProofRecord) /\ issued' = issued
  BY <1>1, NothingGrows DEF local, TypeOK, ProofRecord
<1>3. /\ call' \in [Call -> CallRecord(Len(issued))] /\ Moved(c)
      /\ SameAsk(c) /\ SameRead(c) /\ SamePlace(c)
      /\ call'[c].phase = "running" /\ call'[c].token = t
      /\ call'[c].landed = call[c].landed /\ call'[c].status = call[c].status
  BY <1>1, AdmitMoves
<1>4. TypeOK'
  BY <1>1, <1>2, <1>3, TypeWhenLocal
<1>5. /\ call[c].k = 1 /\ call[c].step = 1 /\ ~call[c].landed /\ call[c].status = "success"
      /\ (\A e \in effects : e.call # c) /\ (\A r \in audit : r.call # c)
      /\ effects' = effects /\ audit' = audit /\ drive' = drive
  BY <1>1 DEF CallOK, EarlyOK, local
<1>6. /\ It(c)' = It(c) /\ Proof(c)' = Proof(c) /\ Duplicates(c)' = Duplicates(c)
      /\ Steps(c)' = Steps(c) /\ StepOf(c)' = StepOf(c)
      /\ call'[c].k = 1 /\ call'[c].step = 1
  BY <1>3, <1>5 DEF SameAsk, SameRead, SamePlace, It, Proof, Duplicates, Steps, StepOf
<1>7. EarlyOK(c)' /\ TokenOK(c)'
  BY <1>2, <1>3, <1>6 DEF Early, EarlyOK, TokenOK
<1>8. ReadingOK(c)'
  BY <1>1, <1>3, <1>5, <1>6 DEF CallOK, ReadingOK, SameAsk, SameRead
<1>9. PlaceOK(c)'
  <2>1. call[c].targets \in Seq(Item) /\ call[c].targets # <<>>
    BY <1>1 DEF TypeOK, CallOK, ReadingOK
  <2>2. 1 \in DOMAIN call[c].targets /\ 1 \in DOMAIN Steps(c)
    BY <1>1, <2>1, HandlerOf DEF HandlerOK, Steps
  <2> QED
    BY <1>3, <1>5, <1>6, <2>2 DEF PlaceOK, SameAsk
<1>10. EffectsOK(c)' /\ OnceEach(c)' /\ RecordsOK(c)' /\ LeftOK(c)'
  BY <1>5 DEF EffectsOK, OnceEach, RecordsOK, LeftOK
<1>11. DoneOK(c)'
  <2>1. /\ \A j \in DOMAIN call'[c].targets : ~(j < 1)
        /\ \A s \in Changing(call'[c].tool) : ~(s < 1)
    <3>1. call'[c].targets \in Seq(Item) /\ call'[c].tool = call[c].tool
      BY <1>3 DEF CallRecord, SameAsk
    <3>2. Changing(call[c].tool) \subseteq 1 .. Len(Steps(c)) /\ Len(Steps(c)) \in Nat
      BY <1>1, HandlerOf DEF HandlerOK, Changing, Steps, It
    <3> QED
      BY <3>1, <3>2
  <2> QED
    BY <1>3, <1>6, <2>1 DEF DoneOK
<1>12. BackupOK(c)'
  <2>1. \A s \in DOMAIN Steps(c) : ~(s < 1)
    BY <1>1, HandlerOf DEF HandlerOK, Steps
  <2> QED
    BY <1>3, <1>6, <2>1 DEF BackupOK
<1>13. CallOK(c)'
  BY <1>7, <1>8, <1>9, <1>10, <1>11, <1>12 DEF CallOK
<1>14. OwnWork(c) /\ IsFiniteSet(effects') /\ t \in {0} \cup tokens
  BY <1>5 DEF OwnWork, IInv
<1> QED
  BY <1>2, <1>3, <1>4, <1>13, <1>14, StepKeeps

LEMMA EndsEarly ==
  ASSUME IInv, NEW c \in Call, call[c].phase \in {"reading", "content", "gate"},
         UNCHANGED local, UNCHANGED issued, tokens' \subseteq tokens,
         TokensOK(tokens', Len(issued)), To(c, "ended")
  PROVE  IInv'
<1>1. TypeOK /\ "ended" \in Phases
  BY DEF IInv, Phases
<1> QED
  BY <1>1, ToMoves, QuietEarlyKeeps

LEMMA TokensStay == TypeOK => TokensOK(tokens, Len(issued))
  BY DEF TypeOK, TokensOK

LEMMA EarlyEnds ==
  ASSUME IInv, NEW c \in Call,
         \/ ReadFails(c) \/ readVersionContent(c) \/ GateRefuses(c) \/ checkout(c)
  PROVE  IInv'
<1>1. /\ TypeOK /\ {"ended", "gate", "saving", "record"} \subseteq Phases
      /\ TokensOK(tokens, Len(issued)) /\ "failed" \in Statuses
  BY TokensStay DEF IInv, Phases, Statuses
<1>2. UNCHANGED local /\ UNCHANGED issued /\ tokens' \subseteq tokens
      /\ TokensOK(tokens', Len(issued))
      /\ call[c].phase \in {"reading", "content", "gate"}
  BY <1>1 DEF ReadFails, readVersionContent, GateRefuses, checkout
<1>3. CASE To(c, "ended")
  BY <1>2, <1>3, EndsEarly
<1>4. CASE To(c, "gate") /\ call[c].phase = "content"
  BY <1>1, <1>2, <1>4, ToMoves, QuietEarlyKeeps
<1>5. ASSUME NEW r, Sets(c, r), r \in CallRecord(Len(issued)),
             r.tool = call[c].tool, r.targets = call[c].targets, r.dry = call[c].dry,
             r.intent = call[c].intent, r.backup = call[c].backup,
             r.seen = call[c].seen, r.inner = call[c].inner,
             r.k = call[c].k, r.step = call[c].step, r.landed = call[c].landed,
             r.token = call[c].token,
             \/ r.phase = "saving" /\ call[c].phase = "gate" /\ r.status = call[c].status
             \/ r.phase = "record" /\ r.status = "failed" /\ call[c].phase = "content"
      PROVE  IInv'
  <2>1. call'[c] = r /\ call' \in [Call -> CallRecord(Len(issued))] /\ Moved(c)
    BY <1>1, <1>5, SetMoves, CallRecords
  <2>2. SameAsk(c) /\ SameRead(c) /\ SamePlace(c) /\ SameToken(c) /\ SameLanded(c)
    BY <1>5, <2>1 DEF SameAsk, SameRead, SamePlace, SameToken, SameLanded
  <2> QED
    BY <1>2, <1>5, <2>1, <2>2, QuietEarlyKeeps
<1>6. CASE call' = [call EXCEPT ![c].phase = "record", ![c].status = "failed"]
             /\ call[c].phase = "content"
  <2> DEFINE r == [call[c] EXCEPT !.phase = "record", !.status = "failed"]
  <2>1. /\ Sets(c, r) /\ r \in CallRecord(Len(issued))
        /\ r.tool = call[c].tool /\ r.targets = call[c].targets /\ r.dry = call[c].dry
        /\ r.backup = call[c].backup
        /\ r.intent = call[c].intent /\ r.seen = call[c].seen /\ r.inner = call[c].inner
        /\ r.k = call[c].k /\ r.step = call[c].step /\ r.landed = call[c].landed
        /\ r.token = call[c].token /\ r.phase = "record" /\ r.status = "failed"
    BY <1>1, <1>6, CallRecords DEF CallRecord, Sets
  <2> HIDE DEF r
  <2> QED
    BY <1>5, <1>6, <2>1
<1>7. CASE checkout(c)
  <2> DEFINE named == ETag(Target(c))
             r == [call[c] EXCEPT !.phase = "saving", !.named = named]
  <2>1. named \in Nat
    <3>1. call[c].targets \in Seq(Item) /\ call[c].targets # <<>> /\ call[c].k = 1
      BY <1>1, <1>7 DEF checkout, IInv, CallOK, EarlyOK, ReadingOK, Early, TypeOK
    <3>2. Target(c) \in Item
      BY <3>1 DEF Target
    <3> QED
      BY <1>1, <3>2 DEF ETag, TypeOK
  <2>2. Sets(c, r)
    BY <1>7 DEF checkout, Sets
  <2> HIDE DEF named
  <2>3. /\ r \in CallRecord(Len(issued))
        /\ r.tool = call[c].tool /\ r.targets = call[c].targets /\ r.dry = call[c].dry
        /\ r.backup = call[c].backup
        /\ r.intent = call[c].intent /\ r.seen = call[c].seen /\ r.inner = call[c].inner
        /\ r.k = call[c].k /\ r.step = call[c].step /\ r.landed = call[c].landed
        /\ r.token = call[c].token /\ r.phase = "saving" /\ r.status = call[c].status
    BY <1>1, <2>1, CallRecords DEF CallRecord
  <2> HIDE DEF r
  <2> QED
    BY <1>5, <1>7, <2>2, <2>3 DEF checkout
<1> QED
  BY <1>3, <1>4, <1>6, <1>7 DEF ReadFails, readVersionContent, GateRefuses

LEMMA AdmissionKeeps ==
  ASSUME IInv, NEW c \in Call,
         \/ GoOn(c) \/ commit(c)
         \/ \E t \in 1 .. Len(issued) : previewTokenRequiredResult(c, t)
  PROVE  IInv'
<1>1. TypeOK /\ TokensOK(tokens, Len(issued)) /\ Len(issued) \in Nat
  BY TokensStay, CallRecords DEF IInv
<1>2. ~Blocked(c) => (It(c).several = "distinct" => ~Duplicates(c))
  BY DEF Blocked
<1>3. CASE GoOn(c)
  BY <1>1, <1>2, <1>3, AdmitKeeps DEF GoOn
<1>4. CASE commit(c)
  <2>1. It(c).several # "distinct"
    <3>1. call[c].tool = "updateFile"
      BY <1>4 DEF commit, IInv, CallOK, ReadingOK, UpdateIntent
    <3> QED
      BY <1>1, <3>1, HandlerOf DEF HandlerOK
  <2> QED
    BY <1>1, <1>4, <2>1, AdmitKeeps DEF commit
<1>5. ASSUME NEW t \in 1 .. Len(issued), previewTokenRequiredResult(c, t) PROVE IInv'
  <2>1. UNCHANGED local /\ UNCHANGED issued /\ call[c].phase = "gate" /\ ~Blocked(c)
    BY <1>5 DEF previewTokenRequiredResult
  <2>2. CASE Matching(t, Proof(c))
    <3>1. /\ tokens' \subseteq tokens /\ TokensOK(tokens', Len(issued))
          /\ t \in tokens /\ issued[t] = Proof(c) /\ t \notin tokens'
      BY <1>1, <1>5, <2>2, TokenSets
      DEF previewTokenRequiredResult, consumePreviewToken, Matching
    <3>2. Admit(c, t) /\ t \in 0 .. Len(issued)
      BY <1>1, <1>5, <2>2 DEF previewTokenRequiredResult
    <3> QED
      BY <1>2, <2>1, <3>1, <3>2, AdmitKeeps
  <2>3. CASE ~Matching(t, Proof(c))
    <3>1. tokens' \subseteq tokens /\ TokensOK(tokens', Len(issued)) /\ To(c, "ended")
      BY <1>1, <1>5, <2>3, TokenSets DEF previewTokenRequiredResult
    <3> QED
      BY <2>1, <3>1, EndsEarly
  <2> QED
    BY <2>2, <2>3
<1> QED
  BY <1>3, <1>4, <1>5

LEMMA BeginKeeps ==
  ASSUME IInv, NEW c \in Call, NEW tool \in Tool, NEW targets \in session.targets,
         NEW dry \in BOOLEAN, NEW intent \in Intent \cup UpdateIntent,
         NEW backup \in BOOLEAN, Begin(c, tool, targets, dry, intent, backup)
  PROVE  IInv'
<1> DEFINE h == callTool[tool]
           none == h.reads = "nothing"
           named == IF tool = "updateFile" THEN manifest[targets[1]] ELSE 0
           seen == IF none THEN [k \in DOMAIN targets |-> 0] ELSE <<>>
           phase == IF none THEN "gate" ELSE "reading"
           r == [NoCall EXCEPT !.tool = tool, !.targets = targets, !.dry = dry,
                               !.intent = intent, !.backup = backup, !.named = named,
                               !.seen = seen, !.phase = phase]
<1>1. /\ TypeOK /\ Len(issued) \in Nat /\ call[c].phase \in Early /\ HandlerOK(tool, h)
      /\ TokensOK(tokens, Len(issued)) /\ issued \in Seq(ProofRecord)
  <2>1. TypeOK
    BY DEF IInv
  <2>2. issued \in Seq(ProofRecord)
    BY <2>1 DEF TypeOK, ProofRecord
  <2> QED
    BY <2>1, <2>2, TokensStay, CallRecords, Handlers DEF Begin, Early
<1>2. targets \in Seq(Item) /\ targets # <<>>
  BY <1>1, SessionsAssumption DEF TypeOK
<1>3. /\ Len(targets) \in Nat \ {0} /\ DOMAIN targets = 1 .. Len(targets)
      /\ \A j \in DOMAIN targets : targets[j] \in Item
  BY <1>2
<1>4. named \in Nat
  <2>1. targets[1] \in Item
    BY <1>3
  <2> QED
    BY <1>1, <2>1 DEF TypeOK
<1>5. /\ seen \in Seq(Nat) /\ Len(seen) = (IF none THEN Len(targets) ELSE 0)
      /\ \A j \in DOMAIN seen : seen[j] = 0 /\ j \in DOMAIN targets
  <2>1. CASE none
    <3>1. seen = [k \in 1 .. Len(targets) |-> 0]
      BY <1>3, <2>1
    <3> QED
      BY <1>3, <2>1, <3>1
  <2>2. CASE ~none
    BY <2>2
  <2> QED
    BY <2>1, <2>2
<1>6. Sets(c, r) /\ UNCHANGED local /\ UNCHANGED <<tokens, issued>>
      /\ (h.several = "one" => Len(targets) = 1)
      /\ (intent \in UpdateIntent => tool = "updateFile")
  BY DEF Begin, Sets, Intent, UpdateIntent
<1> HIDE DEF named, seen, none
<1>7. /\ phase \in {"gate", "reading"} /\ (none => phase = "gate")
      /\ (~none => phase = "reading")
  OBVIOUS
<1> HIDE DEF phase
<1>8. /\ r.phase = phase /\ r.tool = tool /\ r.targets = targets /\ r.intent = intent
      /\ r.seen = seen /\ r.inner = <<>> /\ r.token = 0 /\ r.k = 1 /\ r.step = 1
      /\ r.landed = FALSE /\ r.status = "success"
  BY DEF NoCall
<1>9. r \in CallRecord(Len(issued))
  <2>1. NoCall \in CallRecord(Len(issued))
    <3>1. /\ <<>> \in Seq(1 .. Len(issued)) /\ 0 \in 0 .. Len(issued)
          /\ "rename" \in Tool
      BY <1>1 DEF Tool, callTool
    <3> QED
      BY <3>1 DEF NoCall, CallRecord, Phases, Statuses, Intent
  <2>2. ASSUME NEW q \in CallRecord(Len(issued))
        PROVE  [q EXCEPT !.tool = tool, !.targets = targets, !.dry = dry,
                         !.intent = intent, !.backup = backup, !.named = named,
                         !.seen = seen, !.phase = phase] \in CallRecord(Len(issued))
    BY <1>2, <1>4, <1>5, <1>7 DEF CallRecord, Phases
  <2> QED
    BY <2>1, <2>2
<1> HIDE DEF r
<1>10. call'[c] = r /\ call' \in [Call -> CallRecord(Len(issued))] /\ Moved(c)
  BY <1>1, <1>6, <1>9, SetMoves
<1>11. ReadingOK(c)'
  <2>1. \A j \in DOMAIN seen : seen[j] <= drive[targets[j]].ver /\ ~(h.reads = "live")
    <3>1. \A i \in Item : drive[i].ver \in Nat
      BY <1>1 DEF TypeOK
    <3>2. CASE none
      BY <1>3, <1>5, <3>1, <3>2 DEF none
    <3>3. CASE ~none
      <4>1. DOMAIN seen = {}
        BY <1>5, <3>3
      <4> QED
        BY <4>1
    <3> QED
      BY <3>2, <3>3
  <2>2. Len(<<>>) = IF h.nested THEN Len(seen) ELSE 0
    BY <1>1, <1>5 DEF HandlerOK, none
  <2>3. It(c)' = h
    BY <1>8, <1>10 DEF It
  <2>4. /\ drive' = drive /\ phase # "content" /\ phase # "running"
        /\ phase \notin {"record", "verify", "saving"}
        /\ Len(seen) <= Len(targets)
        /\ (phase = "gate" => Len(seen) = Len(targets))
        /\ (phase = "reading" => Len(seen) < Len(targets))
    BY <1>3, <1>5, <1>6, <1>7 DEF local
  <2> QED
    BY <1>2, <1>6, <1>8, <1>10, <2>1, <2>2, <2>3, <2>4 DEF ReadingOK
<1>12. Grows /\ Len(issued') = Len(issued) /\ issued' \in Seq(ProofRecord)
       /\ TokensOK(tokens', Len(issued'))
  BY <1>1, <1>6, NothingGrows DEF local
<1>13. call' \in [Call -> CallRecord(Len(issued'))]
  BY <1>10, <1>12
<1>14. /\ call'[c].k = 1 /\ call'[c].step = 1 /\ call'[c].token = 0 /\ ~call'[c].landed
       /\ call'[c].phase \in {"gate", "reading"} /\ call'[c].status = "success"
  BY <1>7, <1>8, <1>10
<1> QED
  BY <1>1, <1>6, <1>10, <1>11, <1>12, <1>13, <1>14, EarlyKeeps DEF Early

LEMMA ReadKeeps ==
  ASSUME IInv, NEW c \in Call, getRawInfo(c)
  PROVE  IInv'
<1> DEFINE sn == call[c].seen
           tg == call[c].targets
           n  == Len(sn) + 1
           i  == tg[n]
           v  == IF ReadsTarget(c) THEN ETag(i) ELSE 0
           seen  == Append(sn, v)
           inner == IF It(c).nested THEN Append(call[c].inner, Len(issued) + 1)
                    ELSE call[c].inner
           phase == IF n < Len(tg) THEN "reading"
                    ELSE IF It(c).content = "none" THEN "gate" ELSE "content"
           r == [call[c] EXCEPT !.seen = seen, !.inner = inner, !.phase = phase]
           m == Len(issued')
           proof == previewProof("officeBatchUpdate", <<i>>, <<v>>, call[c].backup)
<1>1. /\ TypeOK /\ CallOK(c) /\ Len(issued) \in Nat /\ call[c] \in CallRecord(Len(issued))
      /\ TokensOK(tokens, Len(issued)) /\ call[c].phase = "reading" /\ UNCHANGED local
      /\ HandlerOK(call[c].tool, It(c)) /\ call[c].phase \in Early
  BY CallRecords, TokensStay, HandlerOf DEF IInv, getRawInfo, Early
<1>2. /\ sn \in Seq(Nat) /\ tg \in Seq(Item) /\ Len(sn) \in Nat /\ Len(tg) \in Nat
      /\ Len(sn) < Len(tg) /\ call[c].inner \in Seq(1 .. Len(issued))
      /\ Len(call[c].inner) = IF It(c).nested THEN Len(sn) ELSE 0
      /\ DOMAIN sn = 1 .. Len(sn)
      /\ \A j \in DOMAIN sn : sn[j] <= drive[tg[j]].ver
                               /\ (It(c).reads = "live" => sn[j] # 0)
  <2>1. sn \in Seq(Nat) /\ tg \in Seq(Item) /\ call[c].inner \in Seq(1 .. Len(issued))
    BY <1>1 DEF CallRecord
  <2> QED
    BY <1>1, <2>1 DEF CallOK, ReadingOK
<1>3. i \in Item /\ v \in Nat /\ v <= drive[i].ver
  <2>1. i \in Item
    BY <1>2
  <2> QED
    BY <1>1, <2>1 DEF ETag, TypeOK
<1>4. (It(c).reads = "live" => v # 0) /\ Sets(c, r)
  BY DEF getRawInfo, Sets
<1>5. /\ Grows /\ issued' \in Seq(ProofRecord) /\ m \in Nat /\ Len(issued) <= m
      /\ TokensOK(tokens', m)
      /\ It(c).nested => m = Len(issued) + 1
  <2>1. CASE It(c).nested
    <3>1. proof \in ProofRecord
      <4>1. "officeBatchUpdate" \in Tool
        BY DEF Tool, callTool
      <4>2. <<i>> \in Seq(Item) /\ <<v>> \in Seq(Nat) /\ <<>> \in Seq(Nat)
            /\ call[c].backup \in BOOLEAN
        BY <1>1, <1>3 DEF CallRecord
      <4> QED
        BY <4>1, <4>2 DEF previewProof, ProofRecord
    <3>2. issuePreviewToken(proof)
      BY <2>1 DEF getRawInfo
    <3> QED
      BY <1>1, <3>1, <3>2, IssueGrows
  <2>2. CASE ~It(c).nested
    <3>1. UNCHANGED <<tokens, issued>>
      BY <2>2 DEF getRawInfo
    <3>2. issued \in Seq(ProofRecord)
      BY <1>1 DEF TypeOK, ProofRecord
    <3> QED
      BY <1>1, <2>2, <3>1, <3>2, NothingGrows DEF local
  <2> QED
    BY <2>1, <2>2
<1>6. /\ seen \in Seq(Nat) /\ Len(seen) = Len(sn) + 1
      /\ \A j \in DOMAIN seen :
           (j \in DOMAIN sn /\ seen[j] = sn[j]) \/ (j = n /\ seen[j] = v)
  <2>1. sn \in Seq(Nat) /\ v \in Nat /\ Len(sn) \in Nat /\ DOMAIN sn = 1 .. Len(sn)
    BY <1>2, <1>3
  <2> HIDE DEF sn, v
  <2>2. seen \in Seq(Nat) /\ Len(seen) = Len(sn) + 1
    BY <2>1
  <2>3. ASSUME NEW j \in DOMAIN seen
        PROVE  (j \in DOMAIN sn /\ seen[j] = sn[j]) \/ (j = n /\ seen[j] = v)
    BY <2>1, <2>3
  <2> QED
    BY <2>2, <2>3
<1>7. inner \in Seq(1 .. m) /\ Len(inner) = IF It(c).nested THEN Len(seen) ELSE 0
  <2>1. call[c].inner \in Seq(1 .. m)
    <3>1. call[c] \in CallRecord(m)
      BY <1>1, <1>5, RecordsGrow
    <3> QED
      BY <3>1 DEF CallRecord
  <2>2. CASE It(c).nested
    <3>1. Len(issued) + 1 \in 1 .. m
      BY <1>1, <1>5, <2>2
    <3> QED
      BY <1>2, <1>6, <2>1, <2>2, <3>1
  <2>3. CASE ~It(c).nested
    BY <1>2, <2>1, <2>3
  <2> QED
    BY <2>2, <2>3
<1>8. /\ phase \in {"reading", "gate", "content"}
      /\ phase = "reading" => Len(seen) < Len(tg)
      /\ phase # "reading" => Len(seen) = Len(tg)
  BY <1>2, <1>6
<1>9. \A j \in DOMAIN seen : seen[j] <= drive[tg[j]].ver
                             /\ (It(c).reads = "live" => seen[j] # 0)
  BY <1>2, <1>3, <1>4, <1>6
<1> HIDE DEF seen, inner, phase, m
<1>10. /\ r.phase = phase /\ r.seen = seen /\ r.inner = inner /\ r.tool = call[c].tool
       /\ r.targets = call[c].targets /\ r.intent = call[c].intent
       /\ r.k = call[c].k /\ r.step = call[c].step /\ r.token = call[c].token
       /\ r.landed = call[c].landed /\ r.status = call[c].status
  BY <1>1 DEF CallRecord
<1>11. r \in CallRecord(m)
  <2>1. call[c] \in CallRecord(m) /\ phase \in Phases
    BY <1>1, <1>5, <1>8, RecordsGrow DEF Phases
  <2> QED
    BY <1>6, <1>7, <2>1 DEF CallRecord
<1> HIDE DEF r
<1>12. call'[c] = r /\ call' \in [Call -> CallRecord(m)] /\ Moved(c)
  BY <1>1, <1>4, <1>5, <1>11, SetMoves
<1>13. ReadingOK(c)'
  <2>1. It(c)' = It(c) /\ drive' = drive
    BY <1>1, <1>10, <1>12 DEF It, local
  <2>2. Len(seen) <= Len(tg)
    BY <1>2, <1>8, <1>6
  <2> QED
    BY <1>1, <1>7, <1>8, <1>9, <1>10, <1>12, <2>1, <2>2 DEF ReadingOK, CallOK
<1>14. /\ call'[c].k = 1 /\ call'[c].step = 1 /\ call'[c].token = 0 /\ ~call'[c].landed
       /\ call'[c].phase \in Early /\ call'[c].status = "success"
  BY <1>1, <1>8, <1>10, <1>12 DEF CallOK, EarlyOK, Early
<1> QED
  <2>1. call' \in [Call -> CallRecord(Len(issued'))] /\ TokensOK(tokens', Len(issued'))
    BY <1>5, <1>12 DEF m
  <2> QED
    BY <1>1, <1>5, <1>12, <1>13, <1>14, <2>1, EarlyKeeps DEF Early

LEMMA PreviewKeeps ==
  ASSUME IInv, NEW c \in Call, previewWithToken(c)
  PROVE  IInv'
<1>1. /\ TypeOK /\ CallOK(c) /\ TokensOK(tokens, Len(issued)) /\ Len(issued) \in Nat
      /\ call[c] \in CallRecord(Len(issued)) /\ call[c].phase \in Early
      /\ To(c, "ended") /\ UNCHANGED local /\ call[c].phase = "gate"
  BY CallRecords, TokensStay DEF IInv, previewWithToken, Early
<1>2. CASE UNCHANGED <<tokens, issued>>
  BY <1>1, <1>2, EndsEarly
<1>3. CASE issuePreviewToken(Proof(c))
  <2>1. Proof(c) \in ProofRecord
    BY <1>1 DEF Proof, previewProof, ProofRecord, CallRecord
  <2>2. /\ Grows /\ issued' \in Seq(ProofRecord) /\ TokensOK(tokens', Len(issued'))
        /\ Len(issued') \in Nat /\ Len(issued) <= Len(issued')
    BY <1>1, <1>3, <2>1, IssueGrows
  <2>3. /\ call' \in [Call -> CallRecord(Len(issued))] /\ Moved(c)
        /\ SameAsk(c) /\ SameRead(c) /\ SamePlace(c) /\ SameToken(c) /\ SameLanded(c)
        /\ call'[c].phase = "ended" /\ call'[c].status = call[c].status
    BY <1>1, ToMoves DEF Phases
  <2>4. call' \in [Call -> CallRecord(Len(issued'))]
    BY <1>1, <2>2, <2>3, RecordsGrow
  <2>5. ReadingOK(c)'
    BY <1>1, <2>3 DEF CallOK, ReadingOK, SameAsk, SameRead, It, local
  <2>6. /\ call'[c].k = 1 /\ call'[c].step = 1 /\ call'[c].token = 0 /\ ~call'[c].landed
    BY <1>1, <2>3 DEF CallOK, EarlyOK, SamePlace, SameToken, SameLanded
  <2> QED
    BY <1>1, <2>2, <2>3, <2>4, <2>5, <2>6, EarlyKeeps DEF Early
<1> QED
  BY <1>2, <1>3 DEF previewWithToken

-----------------------------------------------------------------------------
(* The steps of an admitted call.                                          *)
LEMMA Running ==
  ASSUME IInv, NEW c \in Call, call[c].phase = "running"
  PROVE  /\ TypeOK /\ CallOK(c) /\ Len(issued) \in Nat
         /\ call[c] \in CallRecord(Len(issued))
         /\ HandlerOK(call[c].tool, It(c))
         /\ call[c].k \in 1 .. Len(call[c].targets) /\ Len(call[c].targets) \in Nat
         /\ DOMAIN call[c].targets = 1 .. Len(call[c].targets)
         /\ DOMAIN call[c].seen = 1 .. Len(call[c].targets)
         /\ call[c].step \in 1 .. Len(Steps(c)) /\ Len(Steps(c)) \in Nat
         /\ DOMAIN Steps(c) = 1 .. Len(Steps(c))
         /\ StepOK(call[c].tool, It(c), call[c].step, StepOf(c))
         /\ Target(c) \in Item /\ Base(c) \in Nat
         /\ It(c).several = "one" => call[c].k = 1 /\ Len(call[c].targets) = 1
         /\ call[c].status \in {"success", "accepted"}
         /\ call[c].landed => StepOf(c) = "chunk"
<1>1. /\ TypeOK /\ CallOK(c) /\ Len(issued) \in Nat /\ call[c] \in CallRecord(Len(issued))
      /\ HandlerOK(call[c].tool, It(c))
  BY CallRecords, HandlerOf DEF IInv
<1>2. call[c].targets \in Seq(Item) /\ call[c].seen \in Seq(Nat)
  BY <1>1 DEF CallRecord
<1>3. /\ Len(call[c].seen) = Len(call[c].targets) /\ call[c].k \in DOMAIN call[c].targets
      /\ call[c].step \in DOMAIN Steps(c)
      /\ It(c).several = "one" => Len(call[c].targets) = 1
      /\ call[c].status \in {"success", "accepted"}
      /\ call[c].landed => StepOf(c) = "chunk"
  BY <1>1 DEF CallOK, ReadingOK, PlaceOK
<1>4. /\ DOMAIN Steps(c) = 1 .. Len(Steps(c)) /\ Len(Steps(c)) \in Nat
      /\ \A s \in 1 .. Len(Steps(c)) : StepOK(call[c].tool, It(c), s, Steps(c)[s])
  BY <1>1 DEF HandlerOK, Steps
<1>5. StepOf(c) = Steps(c)[call[c].step]
  BY DEF StepOf, Steps
<1>6. /\ Len(call[c].targets) \in Nat /\ DOMAIN call[c].targets = 1 .. Len(call[c].targets)
      /\ DOMAIN call[c].seen = 1 .. Len(call[c].seen)
      /\ Target(c) \in Item /\ Base(c) \in Nat
  BY <1>2, <1>3 DEF Target, Base
<1>7. It(c).several = "one" => call[c].k = 1
  <2>1. call[c].k \in 1 .. Len(call[c].targets)
    BY <1>3, <1>6
  <2>2. Len(call[c].targets) = 1 => call[c].k = 1
    BY <2>1
  <2> QED
    BY <1>3, <2>2
<1> QED
  BY <1>1, <1>3, <1>4, <1>5, <1>6, <1>7

(* EffectOK, of the backups and the drive that a step leaves.              *)
EffectAt(c, e, kept, now) ==
  /\ e.k \in DOMAIN call[c].targets /\ e.k \in DOMAIN call[c].seen
  /\ e.item = call[c].targets[e.k]
  /\ e.step \in DOMAIN Steps(c)
  /\ e.token = call[c].token
  /\ e.from # 0 /\ e.act \in Conditional /\ call[c].intent \notin Unconditional
       => e.from = call[c].seen[e.k] /\ It(c).proof = "version"
  /\ call[c].tool \in BackedUp /\ call[c].intent \notin Unconditional /\ call[c].backup
       => <<e.item, e.from>> \in kept
  /\ It(c).several = "any" =>
       \A j \in DOMAIN call[c].seen :
         call[c].targets[j] = e.item => call[c].seen[j] < now[e.item].ver

Behind(c, e) ==
  e.k < call[c].k \/ (e.k = call[c].k /\ e.step < call[c].step)
Here(c, e) == e.k = call[c].k /\ e.step = call[c].step

(* What a step of an admitted call may do to the world: its changes are of *)
(* the target and the step the call is at.                                 *)
World(c) ==
  /\ Grows /\ effects \subseteq effects' /\ IsFiniteSet(effects')
  /\ \A e \in effects' : e.call # c => e \in effects
  /\ \A e \in effects' : e.call = c =>
       EffectAt(c, e, backups', drive') /\ (Behind(c, e) \/ Here(c, e))
  /\ OnceEach(c)'

LEMMA SameHandler ==
  ASSUME NEW c \in Call, SameAsk(c), SameRead(c), SameToken(c)
  PROVE  /\ It(c)' = It(c) /\ Steps(c)' = Steps(c) /\ Duplicates(c)' = Duplicates(c)
         /\ Proof(c)' = Proof(c) /\ Changing(call[c].tool)' = Changing(call[c].tool)
         /\ \A e : EffectAt(c, e, backups', drive') <=> EffectOK(c, e)'
<1>1. /\ It(c)' = It(c) /\ Steps(c)' = Steps(c) /\ Duplicates(c)' = Duplicates(c)
      /\ Proof(c)' = Proof(c) /\ Changing(call[c].tool)' = Changing(call[c].tool)
  BY DEF SameAsk, SameRead, It, Steps, Duplicates, Proof, Changing
<1> QED
  BY <1>1 DEF SameAsk, SameRead, SameToken, EffectAt, EffectOK

(* The records of a running call are of files of a batch, and stay true.   *)
LEMMA RecordsStay ==
  ASSUME IInv, NEW c \in Call, call[c].phase = "running", World(c), audit' = audit,
         SameAsk(c), SameRead(c), SameToken(c)
  PROVE  RecordsOK(c)'
<1> SUFFICES ASSUME NEW r \in audit, r.call = c PROVE RecordOK(c, r)'
  BY DEF RecordsOK
<1>1. RecordOK(c, r) /\ r.item # 0
  BY DEF IInv, CallOK, RecordsOK, RecordOK
<1>2. \A k : Applied(c, k) \subseteq Applied(c, k)'
  BY DEF Applied, World
<1>3. Changing(call[c].tool)' = Changing(call[c].tool)
  BY SameHandler
<1> QED
  BY <1>1, <1>2, <1>3 DEF RecordOK, SameAsk

LEMMA WorldWork ==
  ASSUME NEW c \in Call, World(c), audit' = audit
  PROVE  OwnWork(c) /\ Grows /\ IsFiniteSet(effects')
  BY DEF World, OwnWork

LEMMA ReadingStays ==
  ASSUME IInv, NEW c \in Call, call[c].phase = "running", Grows, TypeOK',
         SameAsk(c), SameRead(c), SameToken(c),
         call'[c].phase \in {"running", "record", "ended"}
  PROVE  ReadingOK(c)' /\ TokenOK(c)'
<1>1. TypeOK /\ CallOK(c) /\ DOMAIN call[c].seen = 1 .. Len(call[c].targets)
      /\ DOMAIN call[c].targets = 1 .. Len(call[c].targets) /\ Len(issued) \in Nat
      /\ It(c)' = It(c) /\ Proof(c)' = Proof(c)
  BY Running, SameHandler
<1>2. \A j \in DOMAIN call[c].seen :
        /\ call[c].seen[j] \in Nat /\ call[c].targets[j] \in Item
        /\ call[c].seen[j] <= drive[call[c].targets[j]].ver
        /\ It(c).reads = "live" => call[c].seen[j] # 0
  <2>1. call[c].targets \in Seq(Item) /\ call[c].seen \in Seq(Nat)
    BY <1>1 DEF TypeOK
  <2> QED
    BY <1>1, <2>1 DEF CallOK, ReadingOK
<1>3. \A i \in Item : drive[i].ver \in Nat /\ drive'[i].ver \in Nat
                      /\ drive[i].ver <= drive'[i].ver
  BY <1>1 DEF TypeOK, Grows
<1>4. \A j \in DOMAIN call[c].seen : call[c].seen[j] <= drive'[call[c].targets[j]].ver
  BY <1>2, <1>3
<1>5. ReadingOK(c)'
  BY <1>1, <1>2, <1>4 DEF CallOK, ReadingOK, SameAsk, SameRead
<1>6. TokenOK(c)'
  <2>1. call[c].token \in 0 .. Len(issued)
    BY <1>1 DEF TypeOK
  <2> QED
    BY <1>1, <2>1 DEF CallOK, TokenOK, SameToken, Grows
<1> QED
  BY <1>5, <1>6

LEMMA FailKeeps ==
  ASSUME IInv, NEW c \in Call, call[c].phase = "running", World(c), audit' = audit,
         TypeOK', Moved(c), SameAsk(c), SameRead(c), SamePlace(c), SameToken(c),
         call'[c].phase = "record",
         \/ call'[c].status = "failed"
         \/ /\ call'[c].status = "partial"
            /\ StepOf(c) \in {"name", "confirm"} /\ call[c].tool = "restoreDeleted"
         \/ /\ call'[c].status = "refused"
            /\ \A e \in effects' : e.call = c => Behind(c, e) /\ e.k # call[c].k
  PROVE  IInv'
<1>1. /\ TypeOK /\ CallOK(c) /\ HandlerOK(call[c].tool, It(c))
      /\ call[c].k \in Nat /\ call[c].step \in 1 .. Len(Steps(c)) /\ Len(Steps(c)) \in Nat
      /\ StepOK(call[c].tool, It(c), call[c].step, StepOf(c))
      /\ It(c).several = "one" => call[c].k = 1
  BY Running
<1>2. EarlyOK(c)' /\ PlaceOK(c)' /\ BackupOK(c)' /\ LeftOK(c)'
  BY DEF EarlyOK, Early, PlaceOK, BackupOK, LeftOK
<1>3. ReadingOK(c)' /\ TokenOK(c)' /\ RecordsOK(c)'
  BY ReadingStays, RecordsStay DEF World
<1>4. \A e \in effects' : e.call = c => e.k \in Nat /\ e.k <= call[c].k
  <2> SUFFICES ASSUME NEW e \in effects', e.call = c PROVE e.k \in Nat /\ e.k <= call[c].k
    OBVIOUS
  <2>1. e.k \in Nat
    BY DEF TypeOK
  <2> QED
    BY <1>1, <2>1 DEF World, Behind, Here
<1>5. EffectsOK(c)' /\ OnceEach(c)'
  <2>1. ASSUME NEW e \in effects', e.call = c PROVE Reached(c, e)'
    BY <1>4, <2>1 DEF Reached, SamePlace
  <2> QED
    BY <2>1, SameHandler DEF World, EffectsOK
<1>6. DoneOK(c)'
  <2>1. \A k : Applied(c, k) \subseteq Applied(c, k)'
    BY DEF Applied, World
  <2>2. Changing(call[c].tool)' = Changing(call[c].tool)
    BY SameHandler
  <2>3. call'[c].status = "partial" => 1 \in Applied(c, 1)
    <3> SUFFICES ASSUME call'[c].status = "partial" PROVE 1 \in Applied(c, 1)
      OBVIOUS
    <3>1. /\ call[c].k = 1 /\ call[c].step > 1 /\ Steps(c)[1] = "restore"
      BY <1>1 DEF HandlerOK, StepOK, Steps
    <3>2. 1 \in Changing(call[c].tool)
      BY <1>1, <3>1 DEF Changing, Steps, It, HandlerOK
    <3> QED
      BY <1>1, <3>1, <3>2 DEF CallOK, DoneOK
  <2> QED
    BY <1>1, <2>1, <2>2, <2>3 DEF CallOK, DoneOK, SameAsk, SamePlace
<1>7. CallOK(c)'
  BY <1>2, <1>3, <1>5, <1>6 DEF CallOK
<1> QED
  BY <1>7, WorldWork, StepKeeps DEF SameToken

(* The call goes on to its next step, its next target or its audit record. *)
GoesOn(c) ==
  LET last  == call[c].step = Len(Steps(c))
      whole == call[c].k = Len(call[c].targets) IN
  /\ ~last => call'[c].step = call[c].step + 1 /\ call'[c].k = call[c].k
  /\ last => call'[c].step = 1 /\ call'[c].k = call[c].k + 1
  /\ call'[c].phase = IF last /\ whole THEN "record" ELSE "running"

(* What the step that is behind the call now was for.                      *)
StepDone(c) ==
  /\ call[c].step \in Changing(call[c].tool) => \E e \in effects' : e.call = c /\ Here(c, e)
  /\ StepOf(c) = "backup" /\ call[c].backup => <<Target(c), Base(c)>> \in backups'
  /\ StepOf(c) = "keep" /\ call[c].backup =>
       <<Target(c), Base(c)>> \in backups' \/ drive'[Target(c)].ver > Base(c)

LEMMA AdvanceKeeps ==
  ASSUME IInv, NEW c \in Call, call[c].phase = "running", ~call[c].landed, World(c),
         OwnWork(c), RecordsOK(c)', TypeOK', Moved(c), SameAsk(c), SameRead(c),
         SameToken(c), SameLanded(c), GoesOn(c), StepDone(c), call'[c].status \in {"success", "accepted"}
  PROVE  IInv'
<1> PICK k, step : k = call[c].k /\ step = call[c].step
  OBVIOUS
<1> DEFINE len == Len(Steps(c))
           all == Len(call[c].targets)
           changing == Changing(call[c].tool)
<1>1. /\ TypeOK /\ CallOK(c) /\ HandlerOK(call[c].tool, It(c))
      /\ k \in 1 .. all /\ all \in Nat /\ step \in 1 .. len /\ len \in Nat
      /\ DOMAIN Steps(c) = 1 .. len /\ DOMAIN call[c].targets = 1 .. all
      /\ StepOK(call[c].tool, It(c), step, StepOf(c))
      /\ changing \subseteq 1 .. len
  BY Running DEF Changing, Steps, It
<1>2. /\ It(c)' = It(c) /\ Steps(c)' = Steps(c) /\ Duplicates(c)' = Duplicates(c)
      /\ Changing(call[c].tool)' = changing
  BY SameHandler
<1>3. /\ step # len => call'[c].step = step + 1 /\ call'[c].k = k
      /\ step = len => call'[c].step = 1 /\ call'[c].k = k + 1
      /\ call'[c].phase = IF step = len /\ k = all THEN "record" ELSE "running"
  BY DEF GoesOn
<1>4. call'[c].targets = call[c].targets /\ call'[c].seen = call[c].seen
      /\ call'[c].tool = call[c].tool /\ ~call'[c].landed
      /\ call'[c].backup = call[c].backup
  BY DEF SameAsk, SameRead, SameLanded
<1>5. /\ \A j \in 1 .. all : j < k => changing \subseteq Applied(c, j)
      /\ \A s \in changing : s < step => s \in Applied(c, k)
  BY <1>1 DEF CallOK, DoneOK
<1>6. \A j : Applied(c, j) \subseteq Applied(c, j)'
  BY DEF Applied, World
<1>7. step \in changing => step \in Applied(c, k)'
  <2> SUFFICES ASSUME step \in changing PROVE step \in Applied(c, k)'
    OBVIOUS
  <2>1. PICK e \in effects' : e.call = c /\ e.k = k /\ e.step = step
    BY DEF StepDone, Here
  <2> QED
    BY <2>1 DEF Applied
<1>8. EarlyOK(c)' /\ LeftOK(c)'
  BY <1>3 DEF EarlyOK, Early, LeftOK
<1>9. ReadingOK(c)' /\ TokenOK(c)'
  BY <1>3, ReadingStays DEF World
<1>10. EffectsOK(c)' /\ OnceEach(c)'
  <2> SUFFICES ASSUME NEW e \in effects', e.call = c PROVE Reached(c, e)'
    BY SameHandler DEF World, EffectsOK
  <2>1. e.k \in Nat /\ e.step \in Nat
    BY DEF TypeOK
  <2>2. e.k < k \/ (e.k = k /\ e.step <= step)
    BY <1>1, <2>1 DEF World, Behind, Here
  <2>3. CASE step # len
    BY <1>1, <1>3, <2>1, <2>2, <2>3 DEF Reached
  <2>4. CASE step = len
    BY <1>1, <1>3, <2>1, <2>2, <2>4 DEF Reached
  <2> QED
    BY <2>3, <2>4
<1> HIDE DEF changing
<1>11. PlaceOK(c)'
  <2>1. CASE step # len
    <3>1. step + 1 \in 1 .. len
      BY <1>1, <2>1
    <3> QED
      BY <1>1, <1>2, <1>3, <1>4, <2>1, <3>1 DEF PlaceOK, CallOK
  <2>2. CASE step = len /\ k # all
    <3>1. k + 1 \in 1 .. all /\ 1 \in 1 .. len
      BY <1>1, <2>2
    <3> QED
      BY <1>1, <1>2, <1>3, <1>4, <2>2, <3>1 DEF PlaceOK, CallOK
  <2>3. CASE step = len /\ k = all
    BY <1>3, <1>4, <2>3 DEF PlaceOK
  <2> QED
    BY <2>1, <2>2, <2>3
<1>12. DoneOK(c)'
  <2>1. CASE step # len
    <3>1. \A s \in changing : s < step + 1 => s < step \/ s = step
      BY <1>1
    <3> QED
      BY <1>1, <1>2, <1>3, <1>4, <1>5, <1>6, <1>7, <2>1, <3>1 DEF DoneOK
  <2>2. CASE step = len
    <3>1. changing \subseteq Applied(c, k)'
      <4> SUFFICES ASSUME NEW s \in changing PROVE s \in Applied(c, k)'
        OBVIOUS
      <4>1. s < step \/ s = step
        BY <1>1, <2>2
      <4> QED
        BY <1>5, <1>6, <1>7, <4>1
    <3>2. /\ \A j \in 1 .. all : j < k + 1 => j < k \/ j = k
          /\ \A s \in changing : ~(s < 1)
      BY <1>1
    <3>3. \A j \in 1 .. all : j < k + 1 => changing \subseteq Applied(c, j)'
      <4> SUFFICES ASSUME NEW j \in 1 .. all, j < k + 1
                   PROVE  changing \subseteq Applied(c, j)'
        OBVIOUS
      <4>1. j < k \/ j = k
        BY <3>2
      <4>2. CASE j < k
        BY <1>5, <1>6, <4>2
      <4>3. CASE j = k
        BY <3>1, <4>3
      <4> QED
        BY <4>1, <4>2, <4>3
    <3> QED
      BY <1>1, <1>2, <1>3, <1>4, <2>2, <3>2, <3>3 DEF DoneOK
  <2> QED
    BY <2>1, <2>2
<1>13. BackupOK(c)'
  <2>1. CASE step # len
    <3>1. Target(c)' = Target(c) /\ Base(c)' = Base(c)
      BY <1>3, <1>4, <2>1 DEF Target, Base
    <3>2. \A s \in 1 .. len : s < step + 1 => s < step \/ s = step
      BY <1>1
    <3>3. \A s \in 1 .. len :
            Steps(c)[s] = "backup" /\ s < step + 1 /\ call[c].backup =>
              <<Target(c), Base(c)>> \in backups'
      BY <1>1, <3>2 DEF CallOK, BackupOK, StepDone, World, Grows, StepOf, Steps
    <3>4. call[c].tool = "updateFile" /\ step + 1 = 2 => StepOf(c) = "keep"
      BY <1>1 DEF StepOK
    <3> QED
      BY <1>1, <1>2, <1>3, <1>4, <2>1, <3>1, <3>3, <3>4 DEF BackupOK, StepDone
  <2>2. CASE step = len
    <3>1. \A s \in 1 .. len : ~(s < 1)
      BY <1>1
    <3> QED
      BY <1>1, <1>2, <1>3, <2>2, <3>1 DEF BackupOK
  <2> QED
    BY <2>1, <2>2
<1>14. CallOK(c)'
  BY <1>8, <1>9, <1>10, <1>11, <1>12, <1>13 DEF CallOK
<1> QED
  BY <1>14, StepKeeps DEF SameToken, World

(* A call that waits, or whose answer was lost, stays where it is.         *)
LEMMA StayKeeps ==
  ASSUME IInv, NEW c \in Call, call[c].phase = "running", World(c), audit' = audit,
         TypeOK', Moved(c), SameAsk(c), SameRead(c), SamePlace(c), SameToken(c),
         call'[c].phase = "running", call'[c].status = call[c].status,
         call'[c].landed => StepOf(c) = "chunk",
         \A e \in effects' : e.call = c => Behind(c, e) \/ call'[c].landed
  PROVE  IInv'
<1>1. TypeOK /\ CallOK(c) /\ StepOf(c)' = StepOf(c) /\ Target(c)' = Target(c)
      /\ Base(c)' = Base(c) /\ Target(c) \in Item /\ Base(c) \in Nat
  BY Running DEF SameAsk, SameRead, SamePlace, StepOf, It, Target, Base
<1>2. /\ It(c)' = It(c) /\ Steps(c)' = Steps(c) /\ Duplicates(c)' = Duplicates(c)
      /\ Changing(call[c].tool)' = Changing(call[c].tool)
  BY SameHandler
<1>3. EarlyOK(c)' /\ LeftOK(c)'
  BY DEF EarlyOK, Early, LeftOK
<1>4. ReadingOK(c)' /\ TokenOK(c)' /\ RecordsOK(c)'
  BY ReadingStays, RecordsStay DEF World
<1>5. PlaceOK(c)'
  BY <1>1, <1>2 DEF CallOK, PlaceOK, SameAsk, SamePlace, SameToken
<1>6. EffectsOK(c)' /\ OnceEach(c)'
  <2>1. ASSUME NEW e \in effects', e.call = c PROVE Reached(c, e)'
    BY <2>1 DEF World, Behind, Here, Reached, SamePlace, SameToken
  <2> QED
    BY <2>1, SameHandler DEF World, EffectsOK
<1>7. DoneOK(c)'
  <2>1. \A k : Applied(c, k) \subseteq Applied(c, k)'
    BY DEF Applied, World
  <2> QED
    BY <1>1, <1>2, <2>1 DEF CallOK, DoneOK, SameAsk, SamePlace
<1>8. BackupOK(c)'
  <2>1. drive'[Target(c)].ver \in Nat /\ drive[Target(c)].ver \in Nat
        /\ drive[Target(c)].ver <= drive'[Target(c)].ver
    BY <1>1 DEF TypeOK, World, Grows
  <2> QED
    BY <1>1, <1>2, <2>1 DEF CallOK, BackupOK, World, Grows, SameAsk, SamePlace
<1>9. CallOK(c)'
  BY <1>3, <1>4, <1>5, <1>6, <1>7, <1>8 DEF CallOK
<1> QED
  BY <1>9, WorldWork, StepKeeps DEF SameToken

(* A call that ends at its first step has done nothing.                    *)
LEMMA QuitKeeps ==
  ASSUME IInv, NEW c \in Call, call[c].phase = "running",
         call[c].k = 1, call[c].step = 1, ~call[c].landed,
         UNCHANGED local, UNCHANGED <<tokens, issued>>, To(c, "ended")
  PROVE  IInv'
<1>1. /\ TypeOK /\ CallOK(c) /\ Len(issued) \in Nat /\ TokensOK(tokens, Len(issued))
      /\ effects' = effects /\ audit' = audit
  BY Running, TokensStay DEF local
<1>2. Grows /\ issued' \in Seq(ProofRecord) /\ issued' = issued /\ TokensOK(tokens', Len(issued'))
  BY <1>1, NothingGrows DEF local, TypeOK, ProofRecord
<1>3. /\ call' \in [Call -> CallRecord(Len(issued))] /\ Moved(c)
      /\ SameAsk(c) /\ SameRead(c) /\ SamePlace(c) /\ SameToken(c)
      /\ call'[c].phase = "ended"
  BY <1>1, ToMoves DEF Phases
<1>4. TypeOK'
  BY <1>1, <1>2, <1>3, TypeWhenLocal
<1>5. \A e \in effects : e.call # c
  <2> SUFFICES ASSUME NEW e \in effects, e.call = c PROVE FALSE
    OBVIOUS
  <2>1. /\ e.k \in DOMAIN call[c].targets /\ e.step \in DOMAIN Steps(c)
        /\ e.k < 1 \/ (e.k = 1 /\ e.step < 1)
    BY <1>1 DEF CallOK, EffectsOK, EffectOK, Reached
  <2>2. e.k \in 1 .. Len(call[c].targets) /\ e.step \in 1 .. Len(Steps(c))
    BY <2>1, Running
  <2> QED
    BY <2>1, <2>2, Running
<1>6. ReadingOK(c)' /\ TokenOK(c)'
  BY <1>2, <1>3, <1>4, ReadingStays
<1>7. EarlyOK(c)' /\ PlaceOK(c)' /\ BackupOK(c)' /\ DoneOK(c)'
  BY <1>3 DEF EarlyOK, Early, PlaceOK, BackupOK, DoneOK
<1>8. EffectsOK(c)' /\ OnceEach(c)' /\ LeftOK(c)'
  BY <1>1, <1>5 DEF EffectsOK, OnceEach, LeftOK
<1>9. RecordsOK(c)'
  <2>1. \A k : Applied(c, k)' = Applied(c, k)
    BY <1>1 DEF Applied
  <2>2. Changing(call[c].tool)' = Changing(call[c].tool)
    BY <1>3, SameHandler
  <2> QED
    BY <1>1, <1>3, <2>1, <2>2 DEF CallOK, RecordsOK, RecordOK, SameAsk
<1>10. CallOK(c)'
  BY <1>6, <1>7, <1>8, <1>9 DEF CallOK
<1> QED
  BY <1>1, <1>2, <1>3, <1>4, <1>10, StepKeeps DEF OwnWork, SameToken, IInv

LEMMA DriveTyped ==
  ASSUME TypeOK, NEW i \in Item
  PROVE  /\ drive[i] \in [at : {"absent", "live", "recycled", "gone"}, ver : Nat]
         /\ drive[i].ver \in Nat /\ ETag(i) \in Nat
         /\ ETag(i) # 0 => drive[i].at = "live" /\ ETag(i) = drive[i].ver
<1>1. drive[i] \in [at : {"absent", "live", "recycled", "gone"}, ver : Nat]
  BY DEF TypeOK
<1> QED
  BY <1>1 DEF ETag

(* A step that asks nothing of the drive.                                  *)
LEMMA Resting ==
  ASSUME IInv, NEW c \in Call, call[c].phase = "running", effects' = effects, Grows,
         TypeOK'
  PROVE  /\ World(c)
         /\ \A e \in effects' : e.call = c => Behind(c, e) \/ call[c].landed
<1>1. /\ TypeOK /\ CallOK(c) /\ DOMAIN call[c].seen = 1 .. Len(call[c].targets)
      /\ DOMAIN call[c].targets = 1 .. Len(call[c].targets)
  BY Running
<1>2. /\ \A j \in DOMAIN call[c].seen : call[c].seen[j] \in Nat
      /\ \A i \in Item : /\ drive[i].ver \in Nat /\ drive'[i].ver \in Nat
                         /\ drive[i].ver <= drive'[i].ver
      /\ backups \subseteq backups'
      /\ \A e \in effects : e.item \in Item
  <2>1. \A e \in effects : e.item \in Item
    BY <1>1 DEF TypeOK
  <2>2. \A j \in DOMAIN call[c].seen : call[c].seen[j] \in Nat
    <3>1. call[c].seen \in Seq(Nat)
      BY <1>1 DEF TypeOK
    <3> QED
      BY <3>1
  <2>3. \A i \in Item : drive'[i].ver \in Nat
    BY DEF TypeOK
  <2> QED
    BY <1>1, <2>1, <2>2, <2>3, DriveTyped DEF Grows
<1>3. ASSUME NEW e \in effects, e.call = c
      PROVE  /\ EffectAt(c, e, backups', drive')
             /\ Behind(c, e) \/ (Here(c, e) /\ call[c].landed)
  <2>1. EffectOK(c, e) /\ Reached(c, e)
    BY <1>1, <1>3 DEF CallOK, EffectsOK
  <2>2. It(c).several = "any" => \A j \in DOMAIN call[c].seen :
          call[c].targets[j] = e.item => call[c].seen[j] < drive'[e.item].ver
    BY <1>2, <2>1 DEF EffectOK
  <2>3. EffectAt(c, e, backups', drive')
    BY <1>2, <2>1, <2>2 DEF EffectOK, EffectAt
  <2> QED
    BY <2>1, <2>3 DEF Reached, Behind, Here
<1>4. OnceEach(c)'
  BY <1>1 DEF CallOK, OnceEach
<1> QED
  BY <1>3, <1>4 DEF World, IInv

LEMMA AfterGrows ==
  ASSUME TypeOK, NEW c \in Call, NEW s, NEW i \in Item
  PROVE  /\ After(c, s, i) \in [at : {"absent", "live", "recycled", "gone"}, ver : Nat]
         /\ drive[i].ver <= After(c, s, i).ver
         /\ s = "patch" => After(c, s, i).ver = drive[i].ver + 1
<1> PICK was : was = drive[i]
  OBVIOUS
<1>1. was \in [at : {"absent", "live", "recycled", "gone"}, ver : Nat]
  BY DriveTyped
<1>2. /\ [was EXCEPT !.at = "recycled"] \in
           [at : {"absent", "live", "recycled", "gone"}, ver : Nat]
      /\ [was EXCEPT !.at = "recycled"].ver = was.ver
      /\ [was EXCEPT !.at = "gone"] \in
           [at : {"absent", "live", "recycled", "gone"}, ver : Nat]
      /\ [was EXCEPT !.at = "gone"].ver = was.ver
      /\ [at |-> "live", ver |-> was.ver + 1] \in
           [at : {"absent", "live", "recycled", "gone"}, ver : Nat]
  BY <1>1
<1>3. was.ver \in Nat
  BY <1>1
<1> QED
  BY <1>1, <1>2, <1>3 DEF After

(* A request the drive accepts.                                            *)
LEMMA Landing ==
  ASSUME IInv, NEW c \in Call, ~call[c].landed, NEW s \in Requests \cup {"chunk"},
         Doing(c, s), Apply(c, s), UNCHANGED <<session, issued, tokens, backups>>
  PROVE  /\ World(c)
         /\ \E e : /\ e \notin effects /\ effects' = effects \cup {e} /\ e.call = c
                   /\ Here(c, e) /\ e.token = call[c].token
         /\ drive' \in [Item -> [at : {"absent", "live", "recycled", "gone"}, ver : Nat]]
         /\ effects' \subseteq
              [call : Call, token : Nat, item : Item, k : Nat, step : Nat, try : Nat,
               from : Nat, act : Requests \cup {"chunk"}]
<1> PICK i, k, step : i = Target(c) /\ k = call[c].k /\ step = call[c].step
  OBVIOUS
<1> PICK base, etag : base = Base(c) /\ etag = ETag(i)
  OBVIOUS
<1> PICK e : /\ e = [call |-> c, token |-> call[c].token, item |-> i, k |-> k,
                     step |-> step, try |-> call[c].tries,
                     from |-> IF s \in {"put", "chunk"} /\ ~Replaces(c) THEN 0 ELSE etag,
                     act |-> s]
  OBVIOUS
<1>1. /\ TypeOK /\ CallOK(c) /\ HandlerOK(call[c].tool, It(c))
      /\ call[c] \in CallRecord(Len(issued)) /\ Len(issued) \in Nat
      /\ k \in 1 .. Len(call[c].targets) /\ step \in 1 .. Len(Steps(c))
      /\ DOMAIN call[c].targets = 1 .. Len(call[c].targets)
      /\ DOMAIN call[c].seen = 1 .. Len(call[c].targets)
      /\ Len(call[c].targets) \in Nat /\ Len(Steps(c)) \in Nat
      /\ DOMAIN Steps(c) = 1 .. Len(Steps(c))
      /\ StepOK(call[c].tool, It(c), step, s) /\ Steps(c)[step] = s
      /\ i \in Item /\ base \in Nat /\ i = call[c].targets[k] /\ base = call[c].seen[k]
      /\ call[c].phase = "running" /\ (It(c).several = "one" => k = 1)
  BY Running DEF Doing, StepOf, Steps, Target, Base
<1>2. /\ etag \in Nat /\ drive[i].ver \in Nat /\ (etag # 0 => etag = drive[i].ver)
      /\ \A j \in DOMAIN call[c].seen : call[c].seen[j] \in Nat
      /\ drive \in [Item -> [at : {"absent", "live", "recycled", "gone"}, ver : Nat]]
  <2>1. \A j \in DOMAIN call[c].seen : call[c].seen[j] \in Nat
    <3>1. call[c].seen \in Seq(Nat)
      BY <1>1 DEF CallRecord
    <3> QED
      BY <3>1
  <2>2. drive \in [Item -> [at : {"absent", "live", "recycled", "gone"}, ver : Nat]]
    BY <1>1 DEF TypeOK
  <2>3. etag \in Nat /\ drive[i].ver \in Nat /\ (etag # 0 => etag = drive[i].ver)
    BY <1>1, DriveTyped
  <2> QED
    BY <2>1, <2>2, <2>3
<1>3. /\ effects' = effects \cup {e} /\ drive' = [drive EXCEPT ![i] = After(c, s, i)]
      /\ Accepts(c, s, i)
  BY DEF Apply
<1>4. /\ e.call = c /\ e.token = call[c].token /\ e.item = i /\ e.k = k /\ e.step = step
      /\ e.act = s
      /\ e.from = IF s \in {"put", "chunk"} /\ ~Replaces(c) THEN 0 ELSE etag
  OBVIOUS
<1>5. /\ It(c).reads = "live" => base # 0
      /\ \A j \in DOMAIN call[c].seen : call[c].seen[j] <= drive[call[c].targets[j]].ver
  BY <1>1 DEF CallOK, ReadingOK
<1>6. /\ s \in {"patch", "remove", "erase"} => etag = base
      /\ s \in {"put", "chunk"} /\ Replaces(c) /\ call[c].intent \notin Unconditional
           => etag = base
  <2>1. s \in {"patch", "remove", "erase"} => It(c).reads = "live"
    BY <1>1 DEF StepOK
  <2>2. Replaces(c) => base # 0
    BY DEF Replaces
  <2>3. LET version == mutationMatchHeaders(c, s) IN version # 0 => etag = version
    BY <1>3 DEF Accepts
  <2> QED
    BY <1>5, <2>1, <2>2, <2>3 DEF mutationMatchHeaders
<1> HIDE <1>3
<1>7. /\ drive' \in [Item -> [at : {"absent", "live", "recycled", "gone"}, ver : Nat]]
      /\ \A j \in Item : drive[j].ver <= drive'[j].ver
      /\ s = "patch" => drive'[i].ver = drive[i].ver + 1
  <2>1. /\ After(c, s, i) \in [at : {"absent", "live", "recycled", "gone"}, ver : Nat]
        /\ drive[i].ver <= After(c, s, i).ver
        /\ s = "patch" => After(c, s, i).ver = drive[i].ver + 1
    BY <1>1, AfterGrows
  <2> QED
    BY <1>1, <1>2, <1>3, <2>1
<1>8. Grows
  BY <1>1, <1>7 DEF Grows
<1>9. ASSUME NEW d \in effects, d.call = c
      PROVE  /\ EffectAt(c, d, backups', drive') /\ Behind(c, d)
             /\ d.item = i => d.step # step
  <2>1. EffectOK(c, d) /\ Reached(c, d) /\ d.item \in Item
    BY <1>1, <1>9 DEF CallOK, EffectsOK, TypeOK
  <2>2. Behind(c, d)
    BY <1>1, <2>1 DEF Reached, Behind
  <2>3. It(c).several = "any" => \A j \in DOMAIN call[c].seen :
          call[c].targets[j] = d.item => call[c].seen[j] < drive'[d.item].ver
    BY <1>2, <1>7, <2>1 DEF EffectOK
  <2>4. EffectAt(c, d, backups', drive')
    BY <2>1, <2>3 DEF EffectOK, EffectAt
  <2>5. ASSUME d.item = i, d.step = step PROVE FALSE
    <3>1. d.k < k /\ d.k \in DOMAIN call[c].targets /\ call[c].targets[d.k] = call[c].targets[k]
      BY <1>1, <2>1, <2>2, <2>5 DEF Behind, EffectOK
    <3>2. CASE It(c).several = "one"
      BY <1>1, <3>1, <3>2
    <3>3. CASE It(c).several = "distinct"
      BY <1>1, <3>1, <3>3 DEF CallOK, PlaceOK, Duplicates
    <3>4. CASE It(c).several = "any"
      <4>1. s = "patch" /\ It(c).reads = "live"
        BY <1>1, <3>4 DEF StepOK, HandlerOK
      <4>2. base < drive[i].ver
        BY <1>1, <2>1, <2>5, <3>4 DEF EffectOK
      <4> QED
        BY <1>2, <1>5, <1>6, <4>1, <4>2
    <3> QED
      BY <1>1, <3>2, <3>3, <3>4 DEF HandlerOK
  <2> QED
    BY <2>2, <2>4, <2>5
<1>10. EffectAt(c, e, backups', drive')
  <2>1. e.from # 0 /\ e.act \in Conditional /\ call[c].intent \notin Unconditional
          => e.from = call[c].seen[e.k] /\ It(c).proof = "version"
    BY <1>1, <1>4, <1>6 DEF Conditional, StepOK
  <2>2. ASSUME call[c].tool \in BackedUp, call[c].intent \notin Unconditional, call[c].backup
        PROVE  <<e.item, e.from>> \in backups'
    <3>1. CASE call[c].tool # "updateFile"
      <4>1. s = "patch" /\ \E b \in 1 .. (step - 1) : Steps(c)[b] = "backup"
        BY <1>1, <2>2, <3>1 DEF StepOK, Steps
      <4>2. PICK b \in 1 .. (step - 1) : Steps(c)[b] = "backup"
        BY <4>1
      <4>3. b \in DOMAIN Steps(c) /\ b < step
        BY <1>1
      <4>4. <<i, base>> \in backups
        BY <1>1, <2>2, <4>2, <4>3 DEF CallOK, BackupOK
      <4> QED
        BY <1>4, <1>6, <4>1, <4>4
    <3>2. CASE call[c].tool = "updateFile"
      <4>1. step = 2 /\ s = "put" /\ It(c).reads = "live"
        BY <1>1, <3>2 DEF StepOK, HandlerOK, Requests
      <4>2. Replaces(c) /\ etag = base /\ base # 0
        BY <1>5, <1>6, <2>2, <3>2, <4>1 DEF Replaces
      <4>3. <<i, base>> \in backups
        BY <1>1, <1>2, <2>2, <3>2, <4>1, <4>2 DEF CallOK, BackupOK
      <4> QED
        BY <1>4, <4>1, <4>2, <4>3
    <3> QED
      BY <3>1, <3>2
  <2>3. It(c).several = "any" => \A j \in DOMAIN call[c].seen :
          call[c].targets[j] = e.item => call[c].seen[j] < drive'[e.item].ver
    <3> SUFFICES ASSUME It(c).several = "any", NEW j \in DOMAIN call[c].seen,
                        call[c].targets[j] = i
                 PROVE  call[c].seen[j] < drive'[i].ver
      BY <1>4
    <3>1. s = "patch"
      BY <1>1 DEF StepOK
    <3> QED
      BY <1>2, <1>5, <1>7, <3>1
  <2> QED
    BY <1>1, <1>4, <2>1, <2>2, <2>3 DEF EffectAt
<1>11. e \notin effects /\ Here(c, e)
  BY <1>1, <1>4, <1>9 DEF Here
<1>12. OnceEach(c)'
  <2> SUFFICES ASSUME NEW f \in effects', NEW d \in effects', f.call = c, d.call = c,
                      f.item = d.item, f.step = d.step
               PROVE  f = d
    BY DEF OnceEach
  <2>1. CASE f \in effects /\ d \in effects
    BY <1>1, <2>1 DEF CallOK, OnceEach
  <2>2. CASE f = e \/ d = e
    BY <1>3, <1>4, <1>9, <2>2
  <2> QED
    BY <1>3, <2>1, <2>2
<1>13. IsFiniteSet(effects')
  BY <1>3, FS_AddElement DEF IInv
<1>14. World(c)
  BY <1>3, <1>4, <1>8, <1>9, <1>10, <1>11, <1>12, <1>13 DEF World
<1>15. e \in [call : Call, token : Nat, item : Item, k : Nat, step : Nat, try : Nat,
              from : Nat, act : Requests \cup {"chunk"}]
  <2>1. call[c].token \in Nat /\ call[c].tries \in Nat /\ k \in Nat /\ step \in Nat
        /\ (IF s \in {"put", "chunk"} /\ ~Replaces(c) THEN 0 ELSE etag) \in Nat
    BY <1>1, <1>2 DEF CallRecord
  <2> QED
    BY <1>1, <2>1
<1>16. effects' \subseteq
         [call : Call, token : Nat, item : Item, k : Nat, step : Nat, try : Nat,
          from : Nat, act : Requests \cup {"chunk"}]
  BY <1>1, <1>3, <1>15 DEF TypeOK
<1> QED
  BY <1>3, <1>4, <1>7, <1>11, <1>14, <1>16

EffectRecord ==
  [call : Call, token : Nat, item : Item, k : Nat, step : Nat, try : Nat, from : Nat,
   act : Requests \cup {"chunk"}]
AuditRecord == [call : Call, item : Nat, status : Statuses, done : Nat]
DriveRecord == [at : {"absent", "live", "recycled", "gone"}, ver : Nat]

LEMMA TypeAgain ==
  ASSUME TypeOK, session' = session, issued' = issued, TokensOK(tokens', Len(issued)),
         call' \in [Call -> CallRecord(Len(issued))], drive' \in [Item -> DriveRecord],
         backups' \subseteq Item \X Nat, manifest' \in [Item -> Nat],
         audit' \subseteq AuditRecord, effects' \subseteq EffectRecord,
         others' \in 0 .. MaxOthers
  PROVE  TypeOK'
  BY DEF TypeOK, CallRecord, Phases, TokensOK, EffectRecord, AuditRecord, DriveRecord,
         Call

(* The parts of TypeOK that TypeAgain asks for.                            *)
LEMMA TypeNow ==
  ASSUME TypeOK
  PROVE  /\ TokensOK(tokens, Len(issued)) /\ drive \in [Item -> DriveRecord]
         /\ backups \subseteq Item \X Nat /\ manifest \in [Item -> Nat]
         /\ audit \subseteq AuditRecord /\ effects \subseteq EffectRecord
         /\ others \in 0 .. MaxOthers
  BY DEF TypeOK, TokensOK, EffectRecord, AuditRecord, DriveRecord

(* Steps that send nothing: the call goes on, or fails.                    *)
LEMMA QuietAdvance ==
  ASSUME IInv, NEW c \in Call, call[c].phase = "running", ~call[c].landed,
         NEW st \in {"success", "accepted"}, Advance(c, st),
         UNCHANGED <<session, drive, manifest, audit, effects, others, issued>>,
         backups \subseteq backups', backups' \subseteq Item \X Nat,
         tokens' \subseteq tokens, TokensOK(tokens', Len(issued)),
         StepOf(c) \notin {"create", "patch", "remove", "erase", "post", "put", "chunk",
                           "restore", "cells"},
         StepOf(c) = "backup" /\ call[c].backup => <<Target(c), Base(c)>> \in backups',
         StepOf(c) = "keep" /\ call[c].backup =>
           <<Target(c), Base(c)>> \in backups' \/ drive[Target(c)].ver > Base(c)
  PROVE  IInv'
<1>1. TypeOK /\ "success" \in Statuses /\ "accepted" \in Statuses
  BY DEF IInv, Statuses
<1>2. /\ call' \in [Call -> CallRecord(Len(issued))] /\ Moved(c)
      /\ SameAsk(c) /\ SameRead(c) /\ SameToken(c) /\ SameLanded(c)
      /\ call'[c].status = st /\ GoesOn(c)
  BY <1>1, AdvanceMoves DEF GoesOn
<1>3. TypeOK'
  BY <1>1, <1>2, TypeNow, TypeAgain
<1>4. Grows
  <2>1. Len(issued) \in Nat
    BY <1>1, CallRecords
  <2>2. \A i \in Item : drive[i].ver <= drive'[i].ver
    BY <1>1, DriveTyped
  <2> QED
    BY <2>1, <2>2 DEF Grows
<1>5. World(c)
  BY <1>3, <1>4, Resting
<1>6. RecordsOK(c)' /\ OwnWork(c)
  BY <1>2, <1>5, RecordsStay, WorldWork
<1>7. StepDone(c)
  <2>1. call[c].step \notin Changing(call[c].tool)
    BY DEF Changing, StepOf, It
  <2> QED
    BY <2>1 DEF StepDone
<1> QED
  BY <1>2, <1>3, <1>5, <1>6, <1>7, AdvanceKeeps

LEMMA QuietFail ==
  ASSUME IInv, NEW c \in Call, call[c].phase = "running", Fail(c),
         UNCHANGED local, UNCHANGED <<tokens, issued>>
  PROVE  IInv'
<1>1. TypeOK
  BY DEF IInv
<1>2. /\ call' \in [Call -> CallRecord(Len(issued))] /\ Moved(c)
      /\ SameAsk(c) /\ SameRead(c) /\ SamePlace(c) /\ SameToken(c)
      /\ call'[c].phase = "record" /\ call'[c].status \in {"failed", "partial"}
      /\ call'[c].status = "partial" =>
           StepOf(c) \in {"name", "confirm"} /\ call[c].tool = "restoreDeleted"
  BY <1>1, FailMoves
<1>3. TypeOK'
  BY <1>1, <1>2, TypeNow, TypeAgain DEF local
<1>4. Grows
  BY <1>1, NothingGrows DEF local
<1>5. World(c) /\ audit' = audit
  BY <1>3, <1>4, Resting DEF local
<1> QED
  BY <1>2, <1>3, <1>5, FailKeeps

(* A request: it may be accepted, and its answer lost.                     *)
LEMMA RequestKeeps ==
  ASSUME IInv, NEW c \in Call, graph(c)
  PROVE  IInv'
<1> PICK s \in Requests :
      /\ Doing(c, s)
      /\ \/ Apply(c, s) /\ (Advance(c, call[c].status) \/ Fail(c))
         \/ Fail(c) /\ UNCHANGED <<drive, effects>>
  BY DEF graph
<1>1. /\ UNCHANGED <<session, tokens, issued, backups, manifest, audit, others>>
      /\ call[c].phase = "running" /\ StepOf(c) = s
  BY DEF graph, Doing
<1>2. /\ TypeOK /\ ~call[c].landed /\ call[c].status \in {"success", "accepted"}
      /\ call[c].status \in Statuses
  <2>1. s # "chunk"
    BY DEF Requests
  <2> QED
    BY <1>1, <2>1, Running DEF Statuses
<1>3. CASE Fail(c) /\ UNCHANGED <<drive, effects>>
  BY <1>1, <1>3, QuietFail DEF local
<1>4. CASE Apply(c, s)
  <2>1. /\ World(c) /\ drive' \in [Item -> DriveRecord] /\ effects' \subseteq EffectRecord
        /\ \E e \in effects' : e.call = c /\ Here(c, e)
    BY <1>1, <1>2, <1>4, Landing DEF DriveRecord, EffectRecord
  <2>2. ASSUME call' \in [Call -> CallRecord(Len(issued))] PROVE TypeOK'
    BY <1>1, <1>2, <2>1, <2>2, TypeNow, TypeAgain
  <2>3. CASE Fail(c)
    <3>1. /\ call' \in [Call -> CallRecord(Len(issued))] /\ Moved(c)
          /\ SameAsk(c) /\ SameRead(c) /\ SamePlace(c) /\ SameToken(c)
          /\ call'[c].phase = "record" /\ call'[c].status \in {"failed", "partial"}
          /\ call'[c].status = "partial" =>
               StepOf(c) \in {"name", "confirm"} /\ call[c].tool = "restoreDeleted"
      BY <1>2, <2>3, FailMoves
    <3> QED
      BY <1>1, <2>1, <2>2, <3>1, FailKeeps
  <2>4. CASE Advance(c, call[c].status)
    <3>1. /\ call' \in [Call -> CallRecord(Len(issued))] /\ Moved(c)
          /\ SameAsk(c) /\ SameRead(c) /\ SameToken(c) /\ SameLanded(c)
          /\ call'[c].status \in {"success", "accepted"} /\ GoesOn(c)
      BY <1>1, <1>2, <2>4, AdvanceMoves DEF GoesOn
    <3>2. RecordsOK(c)' /\ OwnWork(c)
      BY <1>1, <2>1, <3>1, RecordsStay, WorldWork
    <3>3. StepDone(c)
      BY <1>1, <2>1 DEF StepDone, Requests
    <3> QED
      BY <1>1, <1>2, <2>1, <2>2, <3>1, <3>2, <3>3, AdvanceKeeps
  <2> QED
    BY <1>4, <2>3, <2>4
<1> QED
  BY <1>3, <1>4

(* A call that only counts a try.                                          *)
LEMMA TriesMoves ==
  ASSUME TypeOK, NEW c \in Call, NEW landed \in BOOLEAN,
         Sets(c, [call[c] EXCEPT !.tries = call[c].tries + 1, !.landed = landed])
  PROVE  /\ call' \in [Call -> CallRecord(Len(issued))] /\ Moved(c)
         /\ SameAsk(c) /\ SameRead(c) /\ SamePlace(c) /\ SameToken(c)
         /\ call'[c].phase = call[c].phase /\ call'[c].status = call[c].status
         /\ call'[c].landed = landed
<1> DEFINE r == [call[c] EXCEPT !.tries = call[c].tries + 1, !.landed = landed]
<1>1. /\ r.k = call[c].k /\ r.step = call[c].step /\ r.landed = landed
      /\ r.status = call[c].status /\ r.phase = call[c].phase /\ r.token = call[c].token
      /\ r.tool = call[c].tool /\ r.targets = call[c].targets /\ r.dry = call[c].dry
      /\ r.backup = call[c].backup
      /\ r.intent = call[c].intent /\ r.seen = call[c].seen /\ r.inner = call[c].inner
  BY CallRecords DEF CallRecord
<1>2. r \in CallRecord(Len(issued))
  <2>1. call[c] \in CallRecord(Len(issued)) /\ call[c].tries + 1 \in Nat
    BY CallRecords DEF CallRecord
  <2>2. PICK n \in Nat : n = call[c].tries + 1
    BY <2>1
  <2>3. [call[c] EXCEPT !.tries = n, !.landed = landed] \in CallRecord(Len(issued))
    BY <2>1 DEF CallRecord
  <2> QED
    BY <2>2, <2>3
<1>3. Sets(c, r)
  OBVIOUS
<1> HIDE DEF r
<1>4. call'[c] = r /\ call' \in [Call -> CallRecord(Len(issued))] /\ Moved(c)
  BY <1>2, <1>3, SetMoves, CallRecords
<1> QED
  BY <1>1, <1>4 DEF SameAsk, SameRead, SamePlace, SameToken

LEMMA QuietTry ==
  ASSUME IInv, NEW c \in Call, call[c].phase = "running",
         Sets(c, [call[c] EXCEPT !.tries = call[c].tries + 1, !.landed = call[c].landed]),
         UNCHANGED local, UNCHANGED <<tokens, issued>>
  PROVE  IInv'
<1>1. TypeOK /\ call[c].landed \in BOOLEAN /\ (call[c].landed => StepOf(c) = "chunk")
  BY Running DEF CallRecord
<1>2. /\ call' \in [Call -> CallRecord(Len(issued))] /\ Moved(c)
      /\ SameAsk(c) /\ SameRead(c) /\ SamePlace(c) /\ SameToken(c)
      /\ call'[c].phase = call[c].phase /\ call'[c].status = call[c].status
      /\ call'[c].landed = call[c].landed
  BY <1>1, TriesMoves
<1>3. TypeOK' /\ Grows /\ audit' = audit
  BY <1>1, <1>2, TypeNow, TypeAgain, NothingGrows DEF local
<1>4. World(c) /\ \A e \in effects' : e.call = c => Behind(c, e) \/ call'[c].landed
  BY <1>2, <1>3, Resting DEF local
<1> QED
  BY <1>1, <1>2, <1>3, <1>4, StayKeeps

LEMMA ChunkKeeps ==
  ASSUME IInv, NEW c \in Call, SendChunk(c)
  PROVE  IInv'
<1>1. /\ UNCHANGED <<session, tokens, issued, backups, manifest, audit, others>>
      /\ call[c].phase = "running" /\ StepOf(c) = "chunk" /\ Doing(c, "chunk")
  BY DEF SendChunk, Doing
<1>2. /\ TypeOK /\ call[c].status \in {"success", "accepted"}
      /\ call[c].status \in Statuses /\ call[c] \in CallRecord(Len(issued))
  BY <1>1, Running DEF Statuses
<1>3. CASE Fail(c) /\ UNCHANGED <<drive, effects>>
  BY <1>1, <1>3, QuietFail DEF local
<1>4. CASE call' = [call EXCEPT ![c].tries = @ + 1] /\ UNCHANGED <<drive, effects>>
  <2>1. Sets(c, [call[c] EXCEPT !.tries = call[c].tries + 1])
    BY <1>4 DEF Sets
  <2>2. [call[c] EXCEPT !.tries = call[c].tries + 1]
          = [call[c] EXCEPT !.tries = call[c].tries + 1, !.landed = call[c].landed]
    BY <1>2 DEF CallRecord
  <2>3. UNCHANGED local /\ UNCHANGED <<tokens, issued>>
    BY <1>1, <1>4 DEF local
  <2> QED
    BY <1>1, <2>1, <2>2, <2>3, QuietTry
<1>5. CASE ~call[c].landed /\ Apply(c, "chunk")
  <2>1. /\ World(c) /\ drive' \in [Item -> DriveRecord] /\ effects' \subseteq EffectRecord
        /\ \E e \in effects' : e.call = c /\ Here(c, e)
    BY <1>1, <1>2, <1>5, Landing DEF DriveRecord, EffectRecord
  <2>2. ASSUME call' \in [Call -> CallRecord(Len(issued))] PROVE TypeOK'
    BY <1>1, <1>2, <2>1, <2>2, TypeNow, TypeAgain
  <2>3. CASE Fail(c)
    <3>1. /\ call' \in [Call -> CallRecord(Len(issued))] /\ Moved(c)
          /\ SameAsk(c) /\ SameRead(c) /\ SamePlace(c) /\ SameToken(c)
          /\ call'[c].phase = "record" /\ call'[c].status \in {"failed", "partial"}
          /\ call'[c].status = "partial" =>
               StepOf(c) \in {"name", "confirm"} /\ call[c].tool = "restoreDeleted"
      BY <1>2, <2>3, FailMoves
    <3> QED
      BY <1>1, <2>1, <2>2, <3>1, FailKeeps
  <2>4. CASE Advance(c, call[c].status)
    <3>1. /\ call' \in [Call -> CallRecord(Len(issued))] /\ Moved(c)
          /\ SameAsk(c) /\ SameRead(c) /\ SameToken(c) /\ SameLanded(c)
          /\ call'[c].status \in {"success", "accepted"} /\ GoesOn(c)
      BY <1>1, <1>2, <2>4, AdvanceMoves DEF GoesOn
    <3>2. RecordsOK(c)' /\ OwnWork(c)
      BY <1>1, <2>1, <3>1, RecordsStay, WorldWork
    <3>3. StepDone(c)
      BY <1>1, <2>1 DEF StepDone
    <3> QED
      BY <1>1, <1>5, <2>1, <2>2, <3>1, <3>2, <3>3, AdvanceKeeps
  <2>5. CASE call' = [call EXCEPT ![c].tries = @ + 1, ![c].landed = TRUE]
    <3>1. Sets(c, [call[c] EXCEPT !.tries = call[c].tries + 1, !.landed = TRUE])
      BY <2>5 DEF Sets
    <3>2. /\ call' \in [Call -> CallRecord(Len(issued))] /\ Moved(c)
          /\ SameAsk(c) /\ SameRead(c) /\ SamePlace(c) /\ SameToken(c)
          /\ call'[c].phase = call[c].phase /\ call'[c].status = call[c].status
          /\ call'[c].landed = TRUE
      BY <1>2, <3>1, TriesMoves
    <3> QED
      BY <1>1, <2>1, <2>2, <3>2, StayKeeps
  <2> QED
    BY <1>5, <2>3, <2>4, <2>5, <1>3, <1>4 DEF SendChunk
<1> QED
  BY <1>3, <1>4, <1>5 DEF SendChunk

(* The steps that read, wait, verify, or keep a backup.                    *)
LEMMA LocalStepsKeep ==
  ASSUME IInv, NEW c \in Call,
         \/ SkipName(c) \/ Check(c) \/ persistOfficeBackup(c) \/ SkipBackup(c) \/ keep(c)
         \/ Locate(c) \/ pollCopyMonitor(c)
  PROVE  IInv'
<1>1. /\ call[c].phase = "running" /\ UNCHANGED <<tokens, issued>>
      /\ UNCHANGED <<session, drive, manifest, audit, effects, others>>
      /\ StepOf(c) \in {"name", "confirm", "workbook", "session", "download", "backup",
                        "keep", "locate", "monitor"}
  BY DEF SkipName, Check, persistOfficeBackup, SkipBackup, keep, Locate, pollCopyMonitor, Doing, local
<1>2. /\ TypeOK /\ ~call[c].landed /\ call[c].status \in {"success", "accepted"}
      /\ Target(c) \in Item /\ Base(c) \in Nat /\ call[c] \in CallRecord(Len(issued))
      /\ TokensOK(tokens, Len(issued)) /\ backups \subseteq Item \X Nat
      /\ ETag(Target(c)) \in Nat
      /\ ETag(Target(c)) # 0 => ETag(Target(c)) = drive[Target(c)].ver
      /\ drive[Target(c)].ver \in Nat /\ Base(c) <= drive[Target(c)].ver
  <2>1. /\ TypeOK /\ ~call[c].landed /\ call[c].status \in {"success", "accepted"}
        /\ Target(c) \in Item /\ Base(c) \in Nat /\ call[c] \in CallRecord(Len(issued))
    BY <1>1, Running
  <2>2. Base(c) <= drive[Target(c)].ver
    <3>1. call[c].k \in DOMAIN call[c].seen /\ CallOK(c)
      BY <1>1, Running
    <3> QED
      BY <3>1 DEF CallOK, ReadingOK, Base, Target
  <2> QED
    BY <2>1, <2>2, DriveTyped, TypeNow
<1>3. CASE Fail(c) /\ UNCHANGED backups
  BY <1>1, <1>3, QuietFail DEF local
<1>4. CASE To(c, "ended") /\ UNCHANGED backups /\ StepOf(c) \in {"keep", "locate"}
  <2>1. call[c].k = 1 /\ call[c].step = 1
    BY <1>1, <1>4, Running DEF StepOK
  <2> QED
    BY <1>1, <1>2, <1>4, <2>1, QuitKeeps DEF local
<1>5. ASSUME NEW st \in {"success", "accepted"}, Advance(c, st), UNCHANGED backups,
             StepOf(c) \notin {"backup", "keep"} \/ ~call[c].backup
      PROVE  IInv'
  BY <1>1, <1>2, <1>5, QuietAdvance
<1>6. CASE persistOfficeBackup(c)
  <2>1. CASE /\ backups' = backups \cup {<<Target(c), Base(c)>>}
             /\ Advance(c, call[c].status)
    <3>1. StepOf(c) = "backup"
      BY <1>6 DEF persistOfficeBackup, Doing
    <3>2. /\ backups \subseteq backups' /\ backups' \subseteq Item \X Nat
          /\ <<Target(c), Base(c)>> \in backups'
      BY <1>2, <2>1
    <3> PICK st \in {"success", "accepted"} : st = call[c].status
      BY <1>2
    <3>3. Advance(c, st)
      BY <2>1
    <3> QED
      BY <1>1, <1>2, <3>1, <3>2, <3>3, QuietAdvance
  <2> QED
    BY <1>3, <1>6, <2>1 DEF persistOfficeBackup
<1>7. CASE keep(c)
  <2>1. CASE /\ ETag(Target(c)) # 0
             /\ backups' = backups \cup {<<Target(c), ETag(Target(c))>>}
             /\ Advance(c, call[c].status)
    <3>1. StepOf(c) = "keep"
      BY <1>7 DEF keep, Doing
    <3>2. <<Target(c), Base(c)>> \in backups' \/ drive[Target(c)].ver > Base(c)
      BY <1>2, <2>1
    <3> QED
      BY <1>1, <1>2, <2>1, <3>1, <3>2, QuietAdvance
  <2> QED
    BY <1>4, <1>7, <2>1 DEF keep, Doing
<1>8. CASE SkipName(c) \/ Check(c) \/ Locate(c)
  <2>1. UNCHANGED backups /\ StepOf(c) \notin {"backup", "keep"}
    BY <1>8 DEF SkipName, Check, Locate, Doing, local
  <2>2. \/ Advance(c, call[c].status) \/ Fail(c)
        \/ To(c, "ended") /\ StepOf(c) = "locate"
    BY <1>8 DEF SkipName, Check, Locate, Doing
  <2> QED
    BY <1>2, <1>3, <1>4, <1>5, <2>1, <2>2
<1>9. CASE pollCopyMonitor(c)
  <2>1. UNCHANGED backups /\ StepOf(c) = "monitor"
    BY <1>9 DEF pollCopyMonitor, Doing, local
  <2>2. CASE call' = [call EXCEPT ![c].tries = @ + 1]
    <3>1. Sets(c, [call[c] EXCEPT !.tries = call[c].tries + 1])
      BY <2>2 DEF Sets
    <3>2. [call[c] EXCEPT !.tries = call[c].tries + 1]
            = [call[c] EXCEPT !.tries = call[c].tries + 1, !.landed = call[c].landed]
      BY <1>2 DEF CallRecord
    <3> QED
      BY <1>1, <2>1, <3>1, <3>2, QuietTry DEF local
  <2> QED
    BY <1>5, <1>9, <2>1, <2>2 DEF pollCopyMonitor
<1>10. CASE SkipBackup(c)
  <2>1. UNCHANGED backups /\ ~call[c].backup /\ Advance(c, call[c].status)
    BY <1>10 DEF SkipBackup, local
  <2> PICK st \in {"success", "accepted"} : st = call[c].status
    BY <1>2
  <2> QED
    BY <1>5, <2>1
<1> QED
  BY <1>6, <1>7, <1>8, <1>9, <1>10

(* The commit of one file of a batch.                                      *)
LEMMA RefuseMoves ==
  ASSUME TypeOK, NEW c \in Call,
         Sets(c, [call[c] EXCEPT !.phase = "record", !.status = "refused"])
  PROVE  /\ call' \in [Call -> CallRecord(Len(issued))] /\ Moved(c)
         /\ SameAsk(c) /\ SameRead(c) /\ SamePlace(c) /\ SameToken(c)
         /\ call'[c].phase = "record" /\ call'[c].status = "refused"
<1> DEFINE r == [call[c] EXCEPT !.phase = "record", !.status = "refused"]
<1>1. /\ r.k = call[c].k /\ r.step = call[c].step
      /\ r.status = "refused" /\ r.phase = "record" /\ r.token = call[c].token
      /\ r.tool = call[c].tool /\ r.targets = call[c].targets /\ r.dry = call[c].dry
      /\ r.backup = call[c].backup
      /\ r.intent = call[c].intent /\ r.seen = call[c].seen /\ r.inner = call[c].inner
  BY CallRecords DEF CallRecord
<1>2. r \in CallRecord(Len(issued))
  BY CallRecords DEF CallRecord, Phases, Statuses
<1>3. Sets(c, r)
  OBVIOUS
<1> HIDE DEF r
<1>4. call'[c] = r /\ call' \in [Call -> CallRecord(Len(issued))] /\ Moved(c)
  BY <1>2, <1>3, SetMoves, CallRecords
<1> QED
  BY <1>1, <1>4 DEF SameAsk, SameRead, SamePlace, SameToken

LEMMA AgainKeeps ==
  ASSUME IInv, NEW c \in Call, Again(c)
  PROVE  IInv'
<1>1. /\ call[c].phase = "running" /\ StepOf(c) = "again" /\ UNCHANGED <<local, issued>>
  BY DEF Again, Doing
<1>2. /\ TypeOK /\ ~call[c].landed /\ call[c].step = 1
      /\ call[c].status \in {"success", "accepted"}
      /\ call[c].k \in Nat /\ TokensOK(tokens, Len(issued))
  BY <1>1, Running, TokensStay DEF StepOK, CallRecord
<1>3. CASE Fail(c) /\ UNCHANGED tokens
  BY <1>1, <1>3, QuietFail
<1>4. CASE call[c].k = 1 /\ To(c, "ended") /\ UNCHANGED tokens
  BY <1>1, <1>2, <1>4, QuitKeeps
<1>5. CASE \E t : consumePreviewToken(t) /\ Advance(c, call[c].status)
  <2>1. PICK t : tokens' = cleanupPreviewTokens(tokens) \ {t}
    BY <1>5 DEF consumePreviewToken
  <2>2. tokens' \subseteq tokens /\ TokensOK(tokens', Len(issued))
    BY <1>2, <2>1, TokenSets
  <2> PICK st \in {"success", "accepted"} : st = call[c].status
    BY <1>2
  <2>3. Advance(c, st)
    BY <1>5
  <2>4. /\ UNCHANGED <<session, drive, manifest, audit, effects, others, issued>>
        /\ backups' = backups /\ backups \subseteq Item \X Nat
    BY <1>1, <1>2, TypeNow DEF local
  <2> QED
    BY <1>1, <1>2, <2>2, <2>3, <2>4, QuietAdvance
<1>6. CASE /\ tokens' = cleanupPreviewTokens(tokens)
           /\ Sets(c, [call[c] EXCEPT !.phase = "record", !.status = "refused"])
  <2>1. tokens' \subseteq tokens /\ TokensOK(tokens', Len(issued))
    BY <1>2, <1>6, TokenSets
  <2>2. /\ call' \in [Call -> CallRecord(Len(issued))] /\ Moved(c)
        /\ SameAsk(c) /\ SameRead(c) /\ SamePlace(c) /\ SameToken(c)
        /\ call'[c].phase = "record" /\ call'[c].status = "refused"
    BY <1>2, <1>6, RefuseMoves
  <2>3. TypeOK' /\ Grows /\ audit' = audit /\ effects' = effects
    BY <1>1, <1>2, <2>1, <2>2, TypeNow, TypeAgain, NothingGrows DEF local
  <2>4. World(c) /\ \A e \in effects' : e.call = c => Behind(c, e)
    BY <1>1, <1>2, <2>3, Resting
  <2>5. \A e \in effects' : e.call = c => e.step \in Nat \ {0} /\ e.k \in Nat
    <3>1. \A e \in effects : e.call = c => e.step \in DOMAIN Steps(c) /\ e.k \in DOMAIN call[c].targets
      <4>1. CallOK(c)
        BY <1>1, Running
      <4> QED
        BY <4>1 DEF CallOK, EffectsOK, EffectOK
    <3> QED
      BY <1>1, <2>3, <3>1, Running
  <2>6. \A e \in effects' : e.call = c => e.k # call[c].k
    BY <1>2, <2>4, <2>5 DEF Behind
  <2> QED
    BY <1>1, <2>2, <2>3, <2>4, <2>6, FailKeeps
<1> QED
  BY <1>3, <1>4, <1>5, <1>6 DEF Again, Sets
(* A record of the audit log, and what it does to the call.                *)
Noted(r, k, s, w, p) == [r EXCEPT !.step = s, !.k = k, !.warned = w, !.phase = p]

LEMMA NotedIs ==
  ASSUME NEW n \in Nat, NEW r \in CallRecord(n),
         NEW k \in Nat \ {0}, NEW s \in Nat \ {0}, NEW w \in BOOLEAN, NEW p \in Phases
  PROVE  LET q == Noted(r, k, s, w, p) IN
         /\ q \in CallRecord(n)
         /\ q.k = k /\ q.step = s /\ q.phase = p /\ q.warned = w
         /\ q.landed = r.landed /\ q.status = r.status /\ q.token = r.token
         /\ q.tool = r.tool /\ q.targets = r.targets /\ q.dry = r.dry
         /\ q.backup = r.backup
         /\ q.intent = r.intent /\ q.seen = r.seen /\ q.inner = r.inner
         /\ q.named = r.named
<1> DEFINE q == [r EXCEPT !.step = s, !.k = k, !.phase = p]
<1>1. /\ q \in CallRecord(n)
      /\ q.k = k /\ q.step = s /\ q.phase = p
      /\ q.landed = r.landed /\ q.status = r.status /\ q.token = r.token
      /\ q.tool = r.tool /\ q.targets = r.targets /\ q.dry = r.dry
      /\ q.backup = r.backup
      /\ q.intent = r.intent /\ q.seen = r.seen /\ q.inner = r.inner
      /\ q.named = r.named
  BY DEF CallRecord
<1>2. Noted(r, k, s, w, p) = [q EXCEPT !.warned = w]
  BY DEF CallRecord, Noted
<1> HIDE DEF q
<1>3. [q EXCEPT !.warned = w] \in CallRecord(n)
  BY <1>1, Zenon DEF CallRecord
<1>4. LET z == [q EXCEPT !.warned = w] IN
      /\ z.k = q.k /\ z.step = q.step /\ z.phase = q.phase /\ z.warned = w
      /\ z.landed = q.landed /\ z.status = q.status /\ z.token = q.token
      /\ z.tool = q.tool /\ z.targets = q.targets /\ z.dry = q.dry
      /\ z.backup = q.backup
      /\ z.intent = q.intent /\ z.seen = q.seen /\ z.inner = q.inner
      /\ z.named = q.named
  BY <1>1 DEF CallRecord
<1> QED
  BY <1>1, <1>2, <1>3, <1>4

LEMMA NoteMoves ==
  ASSUME TypeOK, NEW c \in Call, NEW k \in Nat \ {0}, NEW s \in Nat \ {0},
         NEW w \in BOOLEAN, NEW p \in Phases, Sets(c, Noted(call[c], k, s, w, p))
  PROVE  /\ call' \in [Call -> CallRecord(Len(issued))] /\ Moved(c)
         /\ SameAsk(c) /\ SameRead(c) /\ SameToken(c) /\ SameLanded(c)
         /\ call'[c].status = call[c].status /\ call'[c].named = call[c].named
         /\ call'[c].step = s /\ call'[c].k = k /\ call'[c].phase = p
         /\ w => call'[c].warned
<1>1. Len(issued) \in Nat /\ call[c] \in CallRecord(Len(issued))
  BY CallRecords
<1> PICK r : r = Noted(call[c], k, s, w, p)
  OBVIOUS
<1>2. /\ r \in CallRecord(Len(issued))
      /\ r.k = k /\ r.step = s /\ r.phase = p /\ r.warned = w
      /\ r.landed = call[c].landed /\ r.status = call[c].status
      /\ r.token = call[c].token /\ r.tool = call[c].tool /\ r.targets = call[c].targets
      /\ r.dry = call[c].dry /\ r.backup = call[c].backup
      /\ r.intent = call[c].intent /\ r.seen = call[c].seen
      /\ r.inner = call[c].inner /\ r.named = call[c].named
  BY <1>1, NotedIs
<1>3. call'[c] = r /\ call' \in [Call -> CallRecord(Len(issued))] /\ Moved(c)
  BY <1>1, <1>2, SetMoves
<1> QED
  BY <1>2, <1>3 DEF SameAsk, SameRead, SameToken, SameLanded

LEMMA NoteSets ==
  ASSUME TypeOK, NEW c \in Call, Note(c)
  PROVE  \E kept \in SUBSET {Entry(c, call[c].k, "success")} :
           /\ audit' = audit \cup kept
           /\ \E k \in Nat \ {0}, w \in BOOLEAN, p \in Phases :
                /\ k = call[c].k + 1
                /\ p = IF call[c].k = Len(call[c].targets) THEN "record" ELSE "running"
                /\ Sets(c, Noted(call[c], k, 1, w, p))
<1>1. call[c].phase = "running" /\ call[c].k \in Nat \ {0}
  BY CallRecords DEF Note, Doing, CallRecord
<1>2. call[c].warned \in BOOLEAN
  BY CallRecords DEF CallRecord
<1>3. PICK kept \in SUBSET {Entry(c, call[c].k, "success")} :
        /\ audit' = audit \cup kept
        /\ LET last == call[c].k = Len(call[c].targets) IN
           call' = [call EXCEPT
             ![c].step = 1, ![c].k = @ + 1,
             ![c].warned = @ \/ kept = {},
             ![c].phase = IF last THEN "record" ELSE @]
  BY DEF Note
<1> DEFINE k == call[c].k + 1
           w == call[c].warned \/ kept = {}
           p == IF call[c].k = Len(call[c].targets) THEN "record" ELSE "running"
<1>4. k \in Nat \ {0} /\ w \in BOOLEAN /\ p \in Phases
  BY <1>1, <1>2 DEF Phases
<1>5. Sets(c, Noted(call[c], k, 1, w, p))
  BY <1>1, <1>3 DEF Sets, Noted
<1> QED
  BY <1>3, <1>4, <1>5

LEMMA NoteKeeps ==
  ASSUME IInv, NEW c \in Call, Note(c)
  PROVE  IInv'
<1>1. /\ call[c].phase = "running" /\ StepOf(c) = "note"
      /\ UNCHANGED <<session, drive, tokens, issued, backups, manifest, effects, others>>
  BY DEF Note, Doing
<1>2. /\ TypeOK /\ ~call[c].landed /\ call[c].step = Len(Steps(c))
      /\ call[c].status \in {"success", "accepted"} /\ CallOK(c)
      /\ call[c].k \in Nat \ {0} /\ call[c].warned \in BOOLEAN
      /\ call[c].k \in DOMAIN call[c].targets /\ DOMAIN call[c].targets \subseteq Nat
  <2>1. call[c] \in CallRecord(Len(issued))
    BY <1>1, Running
  <2>2. call[c].k \in Nat \ {0} /\ call[c].warned \in BOOLEAN
    BY <2>1 DEF CallRecord
  <2>3. ~call[c].landed /\ call[c].step = Len(Steps(c))
    BY <1>1, Running DEF StepOK, Steps
  <2> QED
    BY <1>1, <2>2, <2>3, Running
<1> PICK kept \in SUBSET {Entry(c, call[c].k, "success")} :
      /\ audit' = audit \cup kept
      /\ \E k \in Nat \ {0}, w \in BOOLEAN, p \in Phases :
           /\ k = call[c].k + 1
           /\ p = IF call[c].k = Len(call[c].targets) THEN "record" ELSE "running"
           /\ Sets(c, Noted(call[c], k, 1, w, p))
  BY <1>2, NoteSets
<1>3. audit' = audit \cup kept
  OBVIOUS
<1>4. PICK k \in Nat \ {0}, w \in BOOLEAN, p \in Phases :
        /\ k = call[c].k + 1
        /\ p = IF call[c].k = Len(call[c].targets) THEN "record" ELSE "running"
        /\ Sets(c, Noted(call[c], k, 1, w, p))
  OBVIOUS
<1>5. /\ call' \in [Call -> CallRecord(Len(issued))] /\ Moved(c)
      /\ SameAsk(c) /\ SameRead(c) /\ SameToken(c) /\ SameLanded(c)
      /\ call'[c].status = call[c].status
      /\ call'[c].step = 1 /\ call'[c].k = k /\ call'[c].phase = p
  <2>1. TypeOK /\ 1 \in Nat \ {0}
    BY <1>2
  <2>2. Sets(c, Noted(call[c], k, 1, w, p))
    BY <1>4
  <2> QED
    BY <2>1, <2>2, NoteMoves
<1>6. kept \subseteq AuditRecord
  BY <1>2 DEF Entry, AuditRecord, Statuses
<1>7. TypeOK'
  BY <1>1, <1>2, <1>3, <1>5, <1>6, TypeNow, TypeAgain
<1>8. World(c)
  BY <1>1, <1>2, <1>7, Resting, NothingGrows
<1>9. OwnWork(c)
  <2>1. \A r \in kept : r.call = c
    BY DEF Entry
  <2> QED
    BY <1>1, <1>3, <2>1 DEF OwnWork
<1>10. RecordsOK(c)'
  <2>1. /\ \A j : Applied(c, j)' = Applied(c, j)
        /\ Changing(call[c].tool)' = Changing(call[c].tool)
        /\ call'[c].targets = call[c].targets
    BY <1>1, <1>5 DEF Applied, Changing, SameAsk
  <2>2. ASSUME NEW r \in audit, r.call = c PROVE RecordOK(c, r)'
    <3>1. RecordOK(c, r) /\ r.item # 0
      BY <1>1, <1>2, <2>2 DEF CallOK, RecordsOK, RecordOK
    <3> QED
      BY <2>1, <3>1 DEF RecordOK
  <2>3. ASSUME NEW r, r = Entry(c, call[c].k, "success") PROVE RecordOK(c, r)'
    <3>1. r.item = call[c].k /\ r.status = "success" /\ r.done = call[c].k - 1
      BY <2>3 DEF Entry
    <3>2. \A j \in DOMAIN call[c].targets :
            j < call[c].k => Changing(call[c].tool) \subseteq Applied(c, j)
      BY <1>1, <1>2 DEF CallOK, DoneOK
    <3>3. \A j \in DOMAIN call[c].targets : j <= r.done => j < call[c].k
      BY <1>2, <3>1
    <3> QED
      BY <1>2, <2>1, <3>1, <3>2, <3>3 DEF RecordOK
  <2> QED
    BY <1>3, <2>2, <2>3 DEF RecordsOK
<1>11. GoesOn(c)
  BY <1>2, <1>4, <1>5 DEF GoesOn
<1>12. StepDone(c)
  <2>1. call[c].step \notin Changing(call[c].tool)
    BY <1>1 DEF Changing, StepOf, It
  <2> QED
    BY <1>1, <2>1 DEF StepDone
<1> QED
  BY <1>1, <1>2, <1>5, <1>7, <1>8, <1>9, <1>10, <1>11, <1>12, AdvanceKeeps
-----------------------------------------------------------------------------
(* The steps after the last request.                                       *)
LEMMA AfterwardsKeeps ==
  ASSUME IInv, NEW c \in Call, call[c].phase \in {"record", "verify", "saving"},
         UNCHANGED <<session, drive, tokens, issued, backups, effects>>,
         TypeOK', Moved(c), OwnWork(c), SameAsk(c), SameRead(c), SameToken(c),
         call'[c].phase \in {"verify", "saving", "ended"},
         call'[c].phase = "verify" => call'[c].k = 1, RecordsOK(c)', LeftOK(c)'
  PROVE  IInv'
<1>1. TypeOK /\ CallOK(c)
  BY DEF IInv
<1>2. Grows /\ IsFiniteSet(effects')
  BY <1>1, NothingGrows DEF IInv
<1>3. /\ It(c)' = It(c) /\ Steps(c)' = Steps(c) /\ Proof(c)' = Proof(c)
      /\ \A i : drive'[i] = drive[i]
  BY SameHandler
<1>4. EarlyOK(c)' /\ PlaceOK(c)' /\ DoneOK(c)' /\ BackupOK(c)'
  BY DEF EarlyOK, PlaceOK, DoneOK, BackupOK, Early
<1>5. ReadingOK(c)'
  BY <1>1, <1>3 DEF CallOK, ReadingOK, SameAsk, SameRead
<1>6. TokenOK(c)'
  BY <1>1, <1>3 DEF CallOK, TokenOK, SameToken
<1>7. EffectsOK(c)' /\ OnceEach(c)'
  <2>1. OnceEach(c)'
    BY <1>1 DEF CallOK, OnceEach
  <2>2. ASSUME NEW e \in effects, e.call = c PROVE EffectOK(c, e)' /\ Reached(c, e)'
    <3>1. EffectOK(c, e)
      BY <1>1, <2>2 DEF CallOK, EffectsOK
    <3>2. EffectOK(c, e)'
      BY <1>3, <3>1 DEF EffectOK, SameAsk, SameRead, SameToken
    <3> QED
      BY <3>2 DEF Reached
  <2> QED
    BY <2>1, <2>2 DEF EffectsOK
<1>8. CallOK(c)'
  BY <1>4, <1>5, <1>6, <1>7 DEF CallOK
<1> QED
  BY <1>2, <1>8, StepKeeps DEF SameToken

(* The records of a call that is in its last phases stay true.             *)
LEMMA OldRecordsStay ==
  ASSUME IInv, NEW c \in Call, UNCHANGED effects, SameAsk(c),
         call'[c].phase \in {"verify", "saving", "ended"}
  PROVE  \A r \in audit : r.call = c => RecordOK(c, r)'
<1> SUFFICES ASSUME NEW r \in audit, r.call = c PROVE RecordOK(c, r)'
  OBVIOUS
<1>1. /\ \A j : Applied(c, j)' = Applied(c, j)
      /\ Changing(call[c].tool)' = Changing(call[c].tool)
      /\ call'[c].targets = call[c].targets
  BY DEF Applied, Changing, SameAsk
<1>2. RecordOK(c, r)
  BY DEF IInv, CallOK, RecordsOK
<1> QED
  BY <1>1, <1>2 DEF RecordOK

(* A commit reads the version it made, and saves it in its manifest.       *)
LEMMA SavingKeeps ==
  ASSUME IInv, NEW c \in Call, verify(c) \/ saveManifest(c)
  PROVE  IInv'
<1>1. /\ UNCHANGED <<session, drive, tokens, issued, backups, audit, effects, others>>
      /\ call[c].phase \in {"verify", "saving"}
  BY DEF verify, saveManifest, local
<1>2. /\ TypeOK /\ CallOK(c) /\ Len(issued) \in Nat
      /\ call[c] \in CallRecord(Len(issued)) /\ call[c].k \in Nat
      /\ call[c].targets \in Seq(Item) /\ call[c].seen \in Seq(Nat)
  BY CallRecords DEF IInv, CallRecord
<1>3. /\ call' \in [Call -> CallRecord(Len(issued))] /\ Moved(c)
      /\ SameAsk(c) /\ SameRead(c) /\ SameToken(c)
      /\ call'[c].phase \in {"saving", "ended"} /\ call'[c].warned = call[c].warned
      /\ manifest' \in [Item -> Nat]
  <2>1. CASE verify(c)
    <3>1. PICK version \in {ETag(Target(c)), Base(c) + 1} \ {0} :
            Sets(c, [call[c] EXCEPT !.phase = "saving", !.named = version])
      BY <2>1 DEF verify, Sets
    <3>2. version \in Nat
      <4>1. call[c].k \in DOMAIN call[c].targets /\ call[c].k \in DOMAIN call[c].seen
        BY <1>1, <1>2, <2>1 DEF verify, CallOK, PlaceOK, ReadingOK
      <4>2. Target(c) \in Item /\ Base(c) \in Nat
        BY <1>2, <4>1 DEF Target, Base
      <4> QED
        BY <1>2, <3>1, <4>2, DriveTyped
    <3> DEFINE r == [call[c] EXCEPT !.phase = "saving", !.named = version]
    <3>3. /\ r.k = call[c].k /\ r.step = call[c].step
          /\ r.warned = call[c].warned /\ r.phase = "saving" /\ r.token = call[c].token
          /\ r.tool = call[c].tool /\ r.targets = call[c].targets /\ r.dry = call[c].dry
          /\ r.backup = call[c].backup
          /\ r.intent = call[c].intent /\ r.seen = call[c].seen /\ r.inner = call[c].inner
      BY <1>2 DEF CallRecord
    <3>4. r \in CallRecord(Len(issued))
      BY <1>2, <3>2 DEF CallRecord, Phases
    <3>5. Sets(c, r)
      BY <3>1
    <3> HIDE DEF r
    <3>6. call'[c] = r /\ call' \in [Call -> CallRecord(Len(issued))] /\ Moved(c)
      BY <1>2, <3>4, <3>5, SetMoves
    <3>7. manifest' \in [Item -> Nat]
      BY <1>2, <2>1, TypeNow DEF verify, local
    <3> QED
      BY <3>3, <3>6, <3>7 DEF SameAsk, SameRead, SameToken
  <2>2. CASE saveManifest(c)
    <3>1. manifest' \in [Item -> Nat]
      <4>1. manifest \in [Item -> Nat] /\ call[c].named \in Nat
        BY <1>2, TypeNow DEF CallRecord
      <4> QED
        BY <2>2, <4>1 DEF saveManifest
    <3>2. To(c, "ended")
      BY <2>2 DEF saveManifest
    <3> QED
      BY <1>2, <3>1, <3>2, ToMoves DEF Phases
  <2> QED
    BY <2>1, <2>2
<1>4. TypeOK'
  BY <1>1, <1>2, <1>3, TypeNow, TypeAgain
<1>5. RecordsOK(c)' /\ OwnWork(c)
  BY <1>1, <1>3, OldRecordsStay DEF RecordsOK, OwnWork
<1>6. LeftOK(c)'
  BY <1>1, <1>2, <1>3 DEF CallOK, LeftOK
<1> QED
  BY <1>1, <1>3, <1>4, <1>5, <1>6, AfterwardsKeeps
(* What a record of the call says is so.                                   *)
LEMMA EntryTrue ==
  ASSUME IInv, NEW c \in Call, call[c].phase = "record", UNCHANGED effects, SameAsk(c),
         call'[c].phase \in {"verify", "ended"},
         NEW r, \/ r = Entry(c, 0, call[c].status)
                \/ r = Entry(c, call[c].k, "failed")
  PROVE  RecordOK(c, r)'
<1>1. TypeOK /\ CallOK(c) /\ call[c] \in CallRecord(Len(issued))
  BY CallRecords DEF IInv
<1>2. /\ call[c].k \in Nat \ {0} /\ call[c].targets \in Seq(Item)
      /\ DOMAIN call[c].targets = 1 .. Len(call[c].targets) /\ Len(call[c].targets) \in Nat
  BY <1>1 DEF CallRecord
<1>3. /\ r.done = call[c].k - 1
      /\ \/ r.item = 0 /\ r.status = call[c].status
         \/ r.item # 0 /\ r.status = "failed"
  BY <1>2 DEF Entry
<1>4. /\ \A j : Applied(c, j)' = Applied(c, j)
      /\ Changing(call[c].tool)' = Changing(call[c].tool)
      /\ call'[c].targets = call[c].targets
  BY DEF Applied, Changing, SameAsk
<1>5. /\ \A j \in DOMAIN call[c].targets :
           j < call[c].k => Changing(call[c].tool) \subseteq Applied(c, j)
      /\ call[c].status = "partial" => 1 \in Applied(c, 1)
      /\ call[c].status \in {"success", "accepted"} => call[c].k = Len(call[c].targets) + 1
  BY <1>1 DEF CallOK, DoneOK, PlaceOK
<1>6. /\ \A e \in effects : e.call = c => e.k <= call[c].k /\ e.k \in Nat
      /\ call[c].status = "refused" => \A e \in effects : e.call = c => e.k # call[c].k
  <2> SUFFICES ASSUME NEW e \in effects, e.call = c
               PROVE  /\ e.k <= call[c].k /\ e.k \in Nat
                      /\ call[c].status = "refused" => e.k # call[c].k
    OBVIOUS
  <2>1. EffectOK(c, e) /\ Reached(c, e)
    BY <1>1 DEF CallOK, EffectsOK
  <2> QED
    BY <1>2, <2>1 DEF EffectOK, Reached
<1>7. /\ \A j \in DOMAIN call[c].targets : j > call[c].k => Applied(c, j) = {}
      /\ call[c].status = "refused" => Applied(c, call[c].k) = {}
  BY <1>2, <1>6 DEF Applied
<1>8. /\ r.item = 0 => call'[c].phase \in {"verify", "saving", "ended", "killed"}
      /\ r.status \in {"partial", "refused"} => r.item = 0
  BY <1>3
<1>9. \A j \in DOMAIN call[c].targets :
        /\ j <= r.done => Changing(call[c].tool) \subseteq Applied(c, j)
        /\ j > r.done + 1 => Applied(c, j) = {}
  BY <1>2, <1>3, <1>5, <1>7
<1>10. /\ r.item = 0 /\ r.status \in {"success", "accepted"}
            => r.done = Len(call[c].targets)
       /\ r.status = "refused" => Applied(c, r.done + 1) = {}
       /\ r.status = "partial" => 1 \in Applied(c, 1)
  <2>1. r.done + 1 = call[c].k
    BY <1>2, <1>3
  <2> QED
    BY <1>2, <1>3, <1>5, <1>7, <2>1
<1> QED
  BY <1>4, <1>8, <1>9, <1>10 DEF RecordOK

Recorded(c, kept, k, w, p) ==
  LET whole == Entry(c, 0, call[c].status)
      file  == Entry(c, call[c].k, "failed") IN
  /\ audit' = audit \cup kept /\ kept \subseteq {whole, file}
  /\ w \/ whole \in kept
  /\ p = "verify" => k = 1
  /\ k = call[c].k \/ call[c].intent \in {"commit", "unchecked"}
  /\ Sets(c, Noted(call[c], k, call[c].step, w, p))

LEMMA RecordMoves ==
  ASSUME TypeOK, NEW c \in Call, Record(c)
  PROVE  \E kept : \E k \in Nat \ {0}, w \in BOOLEAN, p \in {"verify", "ended"} :
           Recorded(c, kept, k, w, p)
<1>1. call[c].k \in Nat \ {0} /\ DOMAIN call = Call
  BY CallRecords DEF CallRecord
<1>6. call[c].warned \in BOOLEAN
  BY CallRecords DEF CallRecord
<1> DEFINE whole == Entry(c, 0, call[c].status)
           file == Entry(c, call[c].k, "failed")
           more == call[c].intent \in {"commit", "unchecked"} /\ call[c].status = "success"
           ended == [call EXCEPT ![c].phase = IF more THEN "verify" ELSE "ended",
                                 ![c].k = IF more THEN 1 ELSE @]
<1>2. PICK entries \in {{whole}, {whole, file}} : writeMutationAudit(c, entries, ended)
  BY DEF Record
<1>3. PICK kept \in SUBSET entries :
        /\ audit' = audit \cup kept
        /\ call' = [ended EXCEPT ![c].warned = @ \/ kept # entries]
  BY <1>2 DEF writeMutationAudit
<1>4. PICK k \in Nat \ {0}, w \in BOOLEAN, p \in {"verify", "ended"} :
        /\ p = "verify" => k = 1
        /\ k = call[c].k \/ call[c].intent \in {"commit", "unchecked"}
        /\ w = (call[c].warned \/ kept # entries)
        /\ Sets(c, Noted(call[c], k, call[c].step, w, p))
  <2> DEFINE p == IF more THEN "verify" ELSE "ended"
             k == IF more THEN 1 ELSE call[c].k
             w == call[c].warned \/ kept # entries
  <2>1. k \in Nat \ {0} /\ w \in BOOLEAN /\ p \in {"verify", "ended"}
        /\ (p = "verify" => k = 1) /\ (k = call[c].k \/ call[c].intent \in {"commit", "unchecked"})
    BY <1>1, <1>6
  <2>2. Sets(c, Noted(call[c], k, call[c].step, w, p))
    BY <1>1, <1>3 DEF Sets, Noted
  <2> QED
    BY <2>1, <2>2
<1>5. Recorded(c, kept, k, w, p)
  BY <1>3, <1>4 DEF Recorded
<1> QED
  BY <1>5

LEMMA RecordKeeps ==
  ASSUME IInv, NEW c \in Call, Record(c)
  PROVE  IInv'
<1>1. /\ UNCHANGED <<session, drive, tokens, issued, backups, manifest, effects, others>>
      /\ call[c].phase = "record"
  BY DEF Record
<1>2. /\ TypeOK /\ Len(issued) \in Nat
      /\ call[c] \in CallRecord(Len(issued)) /\ call[c].k \in Nat \ {0}
      /\ call[c].step \in Nat \ {0} /\ call[c].status \in Statuses
  BY CallRecords DEF IInv, CallRecord
<1> DEFINE whole == Entry(c, 0, call[c].status)
           file == Entry(c, call[c].k, "failed")
<1> PICK kept : \E k \in Nat \ {0}, w \in BOOLEAN, p \in {"verify", "ended"} :
      Recorded(c, kept, k, w, p)
  BY <1>2, RecordMoves
<1> PICK k \in Nat \ {0}, w \in BOOLEAN, p \in {"verify", "ended"} :
      Recorded(c, kept, k, w, p)
  OBVIOUS
<1>3. /\ audit' = audit \cup kept /\ kept \subseteq {whole, file}
      /\ w \/ whole \in kept
      /\ p = "verify" => k = 1
      /\ Sets(c, Noted(call[c], k, call[c].step, w, p))
  BY DEF Recorded
<1>4. /\ call' \in [Call -> CallRecord(Len(issued))] /\ Moved(c)
      /\ SameAsk(c) /\ SameRead(c) /\ SameToken(c)
      /\ call'[c].k = k /\ call'[c].phase = p /\ (w => call'[c].warned)
  <2>1. p \in Phases /\ Sets(c, Noted(call[c], k, call[c].step, w, p))
    BY <1>3 DEF Phases
  <2> QED
    BY <1>2, <2>1, NoteMoves
<1>5. \A r \in kept : r.call = c /\ r \in AuditRecord /\ (r = whole \/ r = file)
  BY <1>2, <1>3 DEF Entry, AuditRecord, Statuses
<1>6. TypeOK'
  BY <1>1, <1>2, <1>3, <1>4, <1>5, TypeNow, TypeAgain
<1>7. OwnWork(c)
  BY <1>1, <1>3, <1>5 DEF OwnWork
<1>8. RecordsOK(c)'
  <2>1. \A r \in kept : RecordOK(c, r)'
    BY <1>1, <1>3, <1>4, <1>5, EntryTrue
  <2> QED
    BY <1>1, <1>3, <1>4, <2>1, OldRecordsStay DEF RecordsOK
<1>9. LeftOK(c)'
  <2>1. whole.call = c /\ whole.item = 0
    BY DEF Entry
  <2> QED
    BY <1>3, <1>4, <2>1 DEF LeftOK
<1> QED
  BY <1>1, <1>3, <1>4, <1>6, <1>7, <1>8, <1>9, AfterwardsKeeps

-----------------------------------------------------------------------------
(* What happens to the calls from outside.                                 *)
LEMMA OutsideKeeps ==
  ASSUME IInv, Grows, TypeOK', UNCHANGED <<call, audit, effects>>
  PROVE  IInv'
<1>1. TypeOK /\ Call' = Call
  BY DEF IInv, Grows, Call
<1>2. ASSUME NEW d \in Call PROVE CallOK(d)'
  <2>1. Leaves(d) /\ CallOK(d)
    BY DEF Leaves, IInv
  <2> QED
    BY <1>1, <2>1, LeftAlone
<1> QED
  BY <1>1, <1>2 DEF IInv, OwnTokens

LEMMA ForgetKeeps ==
  ASSUME IInv, NEW t, Forget(t)
  PROVE  IInv'
<1>1. TypeOK /\ UNCHANGED <<local, call, issued>> /\ tokens' = tokens \ {t}
  BY DEF IInv, Forget
<1>2. Grows
  BY <1>1, NothingGrows DEF local
<1>3. call \in [Call -> CallRecord(Len(issued))]
  BY <1>1, CallRecords
<1>4. TypeOK'
  BY <1>1, <1>3, TokenSets, TypeNow, TypeAgain DEF local
<1> QED
  BY <1>1, <1>2, <1>4, OutsideKeeps DEF local

LEMMA OtherKeeps ==
  ASSUME IInv, NEW i \in Item, Other(i)
  PROVE  IInv'
<1>1. /\ TypeOK /\ UNCHANGED <<session, call, tokens, issued, backups, manifest, audit, effects>>
      /\ others' = others + 1 /\ others < MaxOthers
  BY DEF IInv, Other
<1>2. PICK r \in DriveRecord : drive' = [drive EXCEPT ![i] = r] /\ drive[i].ver <= r.ver
  <2>1. drive[i] \in DriveRecord
    BY <1>1, DriveTyped DEF DriveRecord
  <2>2. CASE drive' = [drive EXCEPT ![i] = [at |-> "live", ver |-> @.ver + 1]]
    <3>1. /\ [at |-> "live", ver |-> drive[i].ver + 1] \in DriveRecord
          /\ drive[i].ver <= drive[i].ver + 1
      BY <2>1 DEF DriveRecord
    <3> QED
      BY <2>2, <3>1
  <2>3. CASE drive' = [drive EXCEPT ![i].at = "recycled"]
    <3>1. [drive[i] EXCEPT !.at = "recycled"] \in DriveRecord
      BY <2>1 DEF DriveRecord
    <3>2. [drive[i] EXCEPT !.at = "recycled"].ver = drive[i].ver /\ drive[i].ver \in Nat
      BY <2>1 DEF DriveRecord
    <3>3. drive' = [drive EXCEPT ![i] = [drive[i] EXCEPT !.at = "recycled"]]
      BY <2>3
    <3> PICK r : r = [drive[i] EXCEPT !.at = "recycled"]
      OBVIOUS
    <3>4. r \in DriveRecord /\ drive' = [drive EXCEPT ![i] = r] /\ drive[i].ver <= r.ver
      BY <3>1, <3>2, <3>3
    <3> QED
      BY <3>4
  <2> QED
    BY <2>2, <2>3 DEF Other
<1>3. drive \in [Item -> DriveRecord]
  BY <1>1, TypeNow
<1>4. /\ drive' \in [Item -> DriveRecord]
      /\ \A j \in Item : drive[j].ver <= drive'[j].ver
  BY <1>2, <1>3 DEF DriveRecord
<1>5. Grows
  BY <1>1, <1>4 DEF Grows
<1>6. others' \in 0 .. MaxOthers
  BY <1>1, TypeNow, BoundsAssumption
<1>7. TypeOK'
  BY <1>1, <1>4, <1>6, CallRecords, TypeNow, TypeAgain
<1> QED
  BY <1>1, <1>5, <1>7, OutsideKeeps

(* A crash ends every call where it is.                                    *)
LEMMA KilledMoves ==
  ASSUME TypeOK, NEW c \in Call
  PROVE  LET r == [call[c] EXCEPT !.phase = "killed"] IN
         /\ r \in CallRecord(Len(issued)) /\ r.phase = "killed"
         /\ r.k = call[c].k /\ r.step = call[c].step /\ r.token = call[c].token
         /\ r.tool = call[c].tool /\ r.targets = call[c].targets /\ r.dry = call[c].dry
         /\ r.backup = call[c].backup
         /\ r.intent = call[c].intent /\ r.seen = call[c].seen /\ r.inner = call[c].inner
  BY CallRecords DEF CallRecord, Phases

LEMMA CrashKeeps ==
  ASSUME IInv, Crash
  PROVE  IInv'
<1>1. /\ TypeOK /\ UNCHANGED <<local, issued>> /\ tokens' = {}
      /\ call' = [c \in Call |-> IF Active(c) THEN [call[c] EXCEPT !.phase = "killed"]
                                 ELSE call[c]]
  BY DEF IInv, Crash
<1>2. \A c \in Call : Active(c) =>
        /\ call'[c] \in CallRecord(Len(issued)) /\ call'[c].phase = "killed"
        /\ SamePlace(c) /\ SameToken(c) /\ SameAsk(c) /\ SameRead(c)
  BY <1>1, KilledMoves DEF SamePlace, SameToken, SameAsk, SameRead
<1>3. \A c \in Call : ~Active(c) => call'[c] = call[c]
  BY <1>1
<1>4. /\ call' \in [Call -> CallRecord(Len(issued))]
      /\ \A c \in Call : call'[c].token = call[c].token
  BY <1>1, <1>2, <1>3, CallRecords DEF SameToken
<1>5. TokensOK({}, Len(issued))
  BY FS_EmptySet, BoundsAssumption DEF TokensOK
<1>6. TypeOK'
  BY <1>1, <1>4, <1>5, TypeNow, TypeAgain DEF local
<1>7. Grows
  BY <1>1, NothingGrows DEF local
<1>8. ASSUME NEW d \in Call PROVE CallOK(d)'
  <2>1. CallOK(d)
    BY DEF IInv
  <2>2. CASE ~Active(d)
    BY <1>1, <1>3, <1>6, <1>7, <2>1, <2>2, LeftAlone DEF Leaves, local
  <2>3. CASE Active(d)
    <3>1. /\ call'[d].phase = "killed" /\ SameToken(d) /\ SameAsk(d) /\ SameRead(d)
          /\ call[d].phase # "idle" /\ UNCHANGED <<drive, backups, effects, audit, issued>>
      BY <1>1, <1>2, <2>3 DEF Active, local
    <3>2. /\ It(d)' = It(d) /\ Steps(d)' = Steps(d) /\ Proof(d)' = Proof(d)
          /\ Changing(call[d].tool)' = Changing(call[d].tool)
      BY <3>1, SameHandler
    <3>3. EarlyOK(d)' /\ PlaceOK(d)' /\ DoneOK(d)' /\ BackupOK(d)' /\ LeftOK(d)'
      BY <3>1 DEF EarlyOK, PlaceOK, DoneOK, BackupOK, LeftOK, Early
    <3>4. ReadingOK(d)'
      BY <2>1, <3>1, <3>2 DEF CallOK, ReadingOK, SameAsk, SameRead
    <3>5. TokenOK(d)'
      BY <1>1, <2>1, <3>1, <3>2 DEF CallOK, TokenOK, SameToken
    <3>6. OnceEach(d)'
      BY <2>1, <3>1 DEF CallOK, OnceEach
    <3>7. EffectsOK(d)'
      <4>1. ASSUME NEW e \in effects, e.call = d PROVE EffectOK(d, e)' /\ Reached(d, e)'
        <5>1. EffectOK(d, e)
          BY <2>1, <4>1 DEF CallOK, EffectsOK
        <5>2. EffectOK(d, e)'
          BY <3>1, <3>2, <5>1 DEF EffectOK, SameAsk, SameRead, SameToken
        <5> QED
          BY <3>1, <5>2 DEF Reached
      <4> QED
        BY <3>1, <4>1 DEF EffectsOK
    <3>8. RecordsOK(d)'
      <4>1. \A j : Applied(d, j)' = Applied(d, j)
        BY <3>1 DEF Applied
      <4>2. ASSUME NEW r \in audit, r.call = d PROVE RecordOK(d, r)'
        <5>1. RecordOK(d, r)
          BY <2>1, <4>2 DEF CallOK, RecordsOK
        <5> QED
          BY <3>1, <3>2, <4>1, <5>1 DEF RecordOK, SameAsk
      <4> QED
        BY <3>1, <4>2 DEF RecordsOK
    <3> QED
      BY <3>3, <3>4, <3>5, <3>6, <3>7, <3>8 DEF CallOK
  <2> QED
    BY <2>2, <2>3
<1>9. Call' = Call /\ OwnTokens'
  BY <1>1, <1>4 DEF IInv, OwnTokens, Call, local
<1> QED
  BY <1>1, <1>6, <1>8, <1>9 DEF IInv, local
-----------------------------------------------------------------------------
LEMMA NoCallIs ==
  /\ NoCall \in CallRecord(0) /\ NoCall.phase = "idle" /\ NoCall.token = 0
  /\ NoCall.k = 1 /\ NoCall.step = 1 /\ ~NoCall.landed /\ NoCall.status = "success"
  /\ NoCall.targets = <<>> /\ NoCall.seen = <<>> /\ NoCall.inner = <<>>
  /\ NoCall.intent = "fail"
<1>1. "rename" \in Tool
  BY DEF Tool, callTool
<1>2. <<>> \in Seq(Item) /\ <<>> \in Seq(Nat) /\ <<>> \in Seq(1 .. 0)
  OBVIOUS
<1> QED
  BY <1>1, <1>2 DEF NoCall, CallRecord, Phases, Intent, Statuses

LEMMA Initially == Init => IInv
<1> SUFFICES ASSUME Init PROVE IInv
  OBVIOUS
<1>1. /\ tokens = {} /\ issued = <<>> /\ Len(issued) = 0 /\ effects = {} /\ audit = {}
      /\ backups = {} /\ others = 0
      /\ DOMAIN call = Call /\ \A c \in Call : call[c] = NoCall
  BY DEF Init, Call
<1>2. TypeOK
  <2>1. session \in Sessions /\ session.start \in [Item -> {"absent", "live", "recycled"}]
    BY SessionsAssumption DEF Init
  <2>2. drive \in [Item -> DriveRecord]
    BY <2>1 DEF Init, DriveRecord
  <2>3. manifest \in [Item -> Nat]
    BY DEF Init
  <2>4. call \in [Call -> CallRecord(Len(issued))]
    BY <1>1, NoCallIs DEF Init, Call
  <2>5. TokensOK(tokens, Len(issued))
    BY <1>1, FS_EmptySet, BoundsAssumption DEF TokensOK
  <2>6. issued \in Seq(ProofRecord)
    BY <1>1
  <2>7. others \in 0 .. MaxOthers
    BY <1>1, BoundsAssumption
  <2> QED
    BY <1>1, <2>1, <2>2, <2>3, <2>4, <2>5, <2>6, <2>7
    DEF TypeOK, TokensOK, DriveRecord, CallRecord, Phases, ProofRecord
<1>3. IsFiniteSet(effects)
  BY <1>1, FS_EmptySet
<1>4. OwnTokens
  BY <1>1, NoCallIs DEF OwnTokens
<1>5. ASSUME NEW c \in Call PROVE CallOK(c)
  <2>1. /\ call[c].phase = "idle" /\ call[c].token = 0
        /\ call[c].k = 1 /\ call[c].step = 1 /\ ~call[c].landed
        /\ call[c].status = "success" /\ call[c].targets = <<>>
        /\ call[c].seen = <<>> /\ call[c].inner = <<>> /\ call[c].intent = "fail"
    BY <1>1, NoCallIs
  <2>2. EarlyOK(c) /\ TokenOK(c) /\ PlaceOK(c) /\ DoneOK(c) /\ BackupOK(c)
    BY <1>1, <2>1 DEF EarlyOK, TokenOK, PlaceOK, DoneOK, BackupOK
  <2>3. EffectsOK(c) /\ OnceEach(c) /\ RecordsOK(c) /\ LeftOK(c)
    BY <1>1 DEF EffectsOK, OnceEach, RecordsOK, LeftOK
  <2>4. ReadingOK(c)
    BY <2>1 DEF ReadingOK, UpdateIntent
  <2> QED
    BY <2>2, <2>3, <2>4 DEF CallOK
<1> QED
  BY <1>2, <1>3, <1>4, <1>5 DEF IInv

(* Nothing happens.                                                        *)
LEMMA StutterKeeps ==
  ASSUME IInv, UNCHANGED vars
  PROVE  IInv'
<1>1. TypeOK
  BY DEF IInv
<1>2. UNCHANGED <<local, call, tokens, issued>>
  BY DEF vars, local
<1>3. TypeOK'
  BY <1>1, <1>2, CallRecords, TypeNow, TypeAgain DEF local
<1>4. Grows
  BY <1>1, <1>2, NothingGrows DEF local
<1> QED
  BY <1>2, <1>3, <1>4, OutsideKeeps DEF local

LEMMA Inductive == IInv /\ [Next]_vars => IInv'
<1> SUFFICES ASSUME IInv, [Next]_vars PROVE IInv'
  OBVIOUS
<1>1. ASSUME NEW c \in Call, Step(c) PROVE IInv'
  <2>1. CASE getRawInfo(c)
    BY <2>1, ReadKeeps
  <2>2. CASE ReadFails(c) \/ readVersionContent(c) \/ GateRefuses(c) \/ checkout(c)
    BY <2>2, EarlyEnds
  <2>3. CASE previewWithToken(c)
    BY <2>3, PreviewKeeps
  <2>4. CASE \/ GoOn(c) \/ commit(c)
             \/ \E t \in 1 .. Len(issued) : previewTokenRequiredResult(c, t)
    BY <2>4, AdmissionKeeps
  <2>5. CASE graph(c)
    BY <2>5, RequestKeeps
  <2>6. CASE SendChunk(c)
    BY <2>6, ChunkKeeps
  <2>7. CASE \/ SkipName(c) \/ Check(c) \/ persistOfficeBackup(c) \/ SkipBackup(c) \/ keep(c)
             \/ Locate(c) \/ pollCopyMonitor(c)
    BY <2>7, LocalStepsKeep
  <2>8. CASE Again(c)
    BY <2>8, AgainKeeps
  <2>9. CASE Note(c)
    BY <2>9, NoteKeeps
  <2>10. CASE Record(c)
    BY <2>10, RecordKeeps
  <2>11. CASE verify(c) \/ saveManifest(c)
    BY <2>11, SavingKeeps
  <2> QED
    BY <1>1, <2>1, <2>2, <2>3, <2>4, <2>5, <2>6, <2>7, <2>8, <2>9, <2>10, <2>11 DEF Step
<1>2. ASSUME NEW c \in Call, NEW tool \in Tool, NEW targets \in session.targets,
             NEW dry \in BOOLEAN, NEW intent \in Intent \cup UpdateIntent,
             NEW backup \in BOOLEAN, Begin(c, tool, targets, dry, intent, backup)
      PROVE  IInv'
  BY <1>2, BeginKeeps
<1> QED
  BY <1>1, <1>2, CrashKeeps, ForgetKeeps, OtherKeeps, StutterKeeps DEF Next

THEOREM Invariant == Spec => []IInv
BY Initially, Inductive, PTL DEF Spec

-----------------------------------------------------------------------------
(* Calls, tokens, the drive and the audit log have their types, and there  *)
(* are never more tokens to present than the cap of a scope: however calls *)
(* are interleaved, a dry run forgets the oldest token before it issues one*)
(* more.                                                                   *)
THEOREM Types == Spec => []TypeOK
<1>1. IInv => TypeOK
  BY DEF IInv
<1> QED
  BY <1>1, Invariant, PTL

LEMMA OnceInvariant == IInv => OneEffectPerPreview
<1> SUFFICES ASSUME IInv, NEW d \in effects, NEW e \in effects,
                    d.token = e.token, d.item = e.item, d.step = e.step,
                    d.token # 0 \/ d.call = e.call
             PROVE  d = e
  BY DEF OneEffectPerPreview
<1>1. d.call \in Call /\ e.call \in Call
  BY DEF IInv, TypeOK
<1>2. d.token = call[d.call].token /\ e.token = call[e.call].token
  BY <1>1 DEF IInv, CallOK, EffectsOK, EffectOK
<1>3. d.call = e.call
  BY <1>1, <1>2 DEF IInv, OwnTokens
<1> QED
  BY <1>1, <1>3 DEF IInv, CallOK, OnceEach

(* A confirmed preview changes each of its targets at most once: the token *)
(* was consumed before the first request, no other call holds it, and a    *)
(* request that may have landed is not sent again except the last chunk of *)
(* an upload session that is still there.                                  *)
THEOREM ConfirmedOnce == Spec => []OneEffectPerPreview
BY OnceInvariant, Invariant, PTL

(* What a confirmed preview renames, moves, deletes or overwrites is the   *)
(* version it showed: the handler reads again, its token matches only what *)
(* was then read, and the request is conditional on it.                    *)
THEOREM PreviewedVersion == Spec => []ChangesWhatWasPreviewed
<1>1. ASSUME IInv PROVE ChangesWhatWasPreviewed
  <2> SUFFICES ASSUME NEW e \in effects, e.from # 0, e.act \in Conditional,
                      call[e.call].intent \notin Unconditional
               PROVE  /\ e.from = call[e.call].seen[e.k]
                      /\ e.token # 0 => e.from = issued[e.token].seen[e.k]
    BY DEF ChangesWhatWasPreviewed, Conditional
  <2> DEFINE c == e.call
  <2>1. c \in Call
    BY <1>1 DEF IInv, TypeOK
  <2>2. /\ e.from = call[c].seen[e.k] /\ It(c).proof = "version"
        /\ e.token = call[c].token
    BY <1>1, <2>1 DEF IInv, CallOK, EffectsOK, EffectOK
  <2>3. e.token # 0 => issued[e.token].seen = call[c].seen
    <3>1. call[c].token # 0 => issued[call[c].token] = Proof(c)
      BY <1>1, <2>1 DEF IInv, CallOK, TokenOK
    <3>2. Proof(c).seen = call[c].seen
      BY <2>2 DEF Proof, previewProof, It
    <3> QED
      BY <2>2, <3>1, <3>2
  <2> QED
    BY <2>2, <2>3
<1> QED
  BY <1>1, Invariant, PTL

(* A call that asks for a backup, or whose preview said there would be one,*)
(* replaces only a version that is in a managed backup: the token matches  *)
(* only a call with the same option, the backup is of the version the write*)
(* is then conditional on, and what changes in between is refused.         *)
THEOREM BackupFirst == Spec => []ReplacedVersionBackedUp
<1>1. ASSUME IInv PROVE ReplacedVersionBackedUp
  <2> SUFFICES ASSUME NEW e \in effects, call[e.call].tool \in BackedUp,
                      call[e.call].intent \notin Unconditional,
                      call[e.call].backup \/ (e.token # 0 /\ issued[e.token].backup)
               PROVE  <<e.item, e.from>> \in backups
    BY DEF ReplacedVersionBackedUp, BackedUp
  <2>1. e.call \in Call
    BY <1>1 DEF IInv, TypeOK
  <2>2. EffectOK(e.call, e) /\ TokenOK(e.call)
    BY <1>1, <2>1 DEF IInv, CallOK, EffectsOK
  <2>3. e.token # 0 => issued[e.token].backup = call[e.call].backup
    BY <2>2 DEF EffectOK, TokenOK, Proof, previewProof
  <2> QED
    BY <2>2, <2>3 DEF EffectOK
<1> QED
  BY <1>1, Invariant, PTL

(* The audit log tells the truth about partial failure, for any number of  *)
(* targets: a record counts the targets that are behind the call, and a    *)
(* call changes its targets in order.                                      *)
THEOREM AuditTrue == Spec => []AuditIsTrue
<1>1. ASSUME IInv PROVE AuditIsTrue
  <2> SUFFICES ASSUME NEW r \in audit
               PROVE  LET tool == call[r.call].tool all == DOMAIN call[r.call].targets IN
         /\ \A k \in all : k <= r.done => Changing(tool) \subseteq Applied(r.call, k)
         /\ \A k \in all : k > r.done + 1 => r.item # 0 \/ Applied(r.call, k) = {}
         /\ r.item = 0 /\ r.status \in {"success", "accepted"}
              => r.done = Len(call[r.call].targets)
         /\ r.status = "refused" => Applied(r.call, r.done + 1) = {}
         /\ r.status = "partial" => 1 \in Applied(r.call, 1)
    BY DEF AuditIsTrue
  <2>1. r.call \in Call
    BY <1>1 DEF IInv, TypeOK
  <2>2. RecordOK(r.call, r)
    BY <1>1, <2>1 DEF IInv, CallOK, RecordsOK
  <2> QED
    BY <2>2 DEF RecordOK
<1> QED
  BY <1>1, Invariant, PTL

(* A call that changed the drive and returned has left an audit record, or *)
(* warned that it could not.                                               *)
THEOREM ChangesAudited == Spec => []EffectsAreAudited
<1>1. ASSUME IInv PROVE EffectsAreAudited
  <2>1. \A e \in effects : e.call \in Call
    BY <1>1 DEF IInv, TypeOK
  <2> QED
    BY <1>1, <2>1 DEF IInv, CallOK, LeftOK, EffectsAreAudited
<1> QED
  BY <1>1, Invariant, PTL
-----------------------------------------------------------------------------
(* The ledger of previews.                                                 *)
(* The previews a call has confirmed: its own, and those of the files of a *)
(* batch that it has come to.                                              *)
Settled(c) ==
  {j \in DOMAIN call[c].inner : j < call[c].k \/ (j = call[c].k /\ call[c].step > 1)}
Holds(c) == ({call[c].token} \ {0}) \cup {call[c].inner[j] : j \in Settled(c)}
AllConfirmed == Confirmed \cup ConfirmedInner

LEMMA ConfirmedIs == AllConfirmed = UNION {Holds(c) : c \in Call}
  BY DEF AllConfirmed, Confirmed, ConfirmedInner, Holds, Settled

LEMMA ConfirmedGrows ==
  ASSUME NEW c \in Call, Moved(c), Call' = Call, NEW P, Holds(c)' = Holds(c) \cup P
  PROVE  AllConfirmed' = AllConfirmed \cup P
<1>1. \A d \in Call \ {c} : Holds(d)' = Holds(d)
  BY DEF Moved, Holds, Settled
<1>2. AllConfirmed' = UNION {Holds(d)' : d \in Call}
  BY DEF AllConfirmed, Confirmed, ConfirmedInner, Holds, Settled
<1> HIDE DEF Holds
<1>3. \A x : x \in UNION {Holds(d)' : d \in Call} <=> (x \in UNION {Holds(d) : d \in Call} \/ x \in P)
  BY <1>1
<1> QED
  BY <1>2, <1>3, ConfirmedIs

LEMMA HoldsStay ==
  ASSUME NEW c \in Call, SameToken(c), SameRead(c), SamePlace(c)
  PROVE  Holds(c)' = Holds(c) \cup {}
  BY DEF SameToken, SameRead, SamePlace, Holds, Settled

(* Only the commit of a file of a batch confirms the preview of that file. *)
LEMMA HoldsAdvance ==
  ASSUME IInv, NEW c \in Call, call[c].phase = "running", StepOf(c) # "again",
         SameToken(c), SameRead(c),
         LET last == call[c].step = Len(Steps(c)) IN
         /\ ~last => call'[c].step = call[c].step + 1 /\ call'[c].k = call[c].k
         /\ last => call'[c].step = 1 /\ call'[c].k = call[c].k + 1
  PROVE  Holds(c)' = Holds(c) \cup {}
<1>1. /\ TypeOK /\ CallOK(c) /\ call[c] \in CallRecord(Len(issued))
      /\ HandlerOK(call[c].tool, It(c)) /\ Len(issued) \in Nat
      /\ call[c].step \in 1 .. Len(Steps(c)) /\ Len(Steps(c)) \in Nat
  BY Running
<1>2. /\ call[c].k \in Nat /\ call[c].inner \in Seq(1 .. Len(issued))
      /\ DOMAIN call[c].inner = 1 .. Len(call[c].inner) /\ Len(call[c].inner) \in Nat
  BY <1>1 DEF CallRecord
<1>3. Settled(c)' = Settled(c)
  <2>1. CASE It(c).nested
    <3>1. call[c].step > 1
      <4>1. Steps(c)[1] = "again"
        BY <1>1, <2>1 DEF HandlerOK, Steps
      <4>2. call[c].step # 1
        BY <4>1 DEF StepOf, Steps
      <4> QED
        BY <1>1, <4>2
    <3> QED
      BY <1>1, <1>2, <3>1 DEF Settled, SameRead
  <2>2. CASE ~It(c).nested
    <3>1. Len(call[c].inner) = 0
      BY <1>1, <2>2 DEF CallOK, ReadingOK
    <3>2. DOMAIN call[c].inner = {}
      BY <1>2, <3>1
    <3> QED
      BY <3>2 DEF Settled, SameRead
  <2> QED
    BY <2>1, <2>2
<1> QED
  BY <1>3 DEF Holds, SameToken, SameRead

(* A call that is not admitted yet has confirmed nothing.                  *)
LEMMA EarlyHolds ==
  ASSUME TypeOK, NEW c \in Call, call[c].token = 0, call[c].k = 1, call[c].step = 1
  PROVE  Holds(c) = {}
<1>1. DOMAIN call[c].inner \subseteq Nat \ {0}
  BY CallRecords DEF CallRecord
<1>2. Settled(c) = {}
  BY <1>1 DEF Settled
<1> QED
  BY <1>2 DEF Holds

LEMMA ConfirmedIssued == TypeOK => AllConfirmed \subseteq 1 .. Len(issued)
<1> SUFFICES ASSUME TypeOK, NEW c \in Call PROVE Holds(c) \subseteq 1 .. Len(issued)
  BY ConfirmedIs
<1>1. /\ Len(issued) \in Nat /\ call[c].token \in 0 .. Len(issued)
      /\ call[c].inner \in Seq(1 .. Len(issued))
  BY CallRecords DEF CallRecord
<1>2. \A j \in Settled(c) : call[c].inner[j] \in 1 .. Len(issued)
  BY <1>1 DEF Settled
<1> QED
  BY <1>1, <1>2 DEF Holds

(* The four steps of the ledger.                                           *)
LEMMA LedgerForgets ==
  ASSUME tokens' \subseteq tokens, UNCHANGED effects, AllConfirmed' = AllConfirmed
  PROVE  Ledger!Next
  BY DEF Ledger!Next, Ledger!Forget, AllConfirmed, Licensed

LEMMA LedgerIssues ==
  ASSUME TypeOK, NEW proof, issuePreviewToken(proof), UNCHANGED effects,
         AllConfirmed' = AllConfirmed
  PROVE  Ledger!Next
<1>1. cleanupPreviewTokens(tokens) \subseteq tokens /\ Len(issued) \in Nat
  BY TokenSets, CallRecords
<1>2. Len(issued) + 1 \notin tokens \cup AllConfirmed
  <2>1. tokens \subseteq 1 .. Len(issued) /\ AllConfirmed \subseteq 1 .. Len(issued)
    BY ConfirmedIssued, TokensStay DEF TokensOK
  <2> QED
    BY <1>1, <2>1
<1>3. Ledger!Issue
  BY <1>1, <1>2 DEF Ledger!Issue, issuePreviewToken, AllConfirmed, Licensed
<1> QED
  BY <1>3 DEF Ledger!Next

LEMMA LedgerConfirms ==
  ASSUME NEW t \in tokens, tokens' \subseteq tokens \ {t}, UNCHANGED effects,
         AllConfirmed' = AllConfirmed \cup {t}
  PROVE  Ledger!Next
  BY DEF Ledger!Next, Ledger!Confirm, AllConfirmed, Licensed

LEMMA LedgerChanges ==
  ASSUME IInv, IInv', NEW c \in Call, NEW e, e \notin effects, effects' = effects \cup {e},
         e.call = c, e.token = call[c].token, tokens' = tokens,
         AllConfirmed' = AllConfirmed
  PROVE  Ledger!Next
<1>1. CASE e.token = 0
  <2>1. Licensed' = Licensed
    BY <1>1 DEF Licensed
  <2> QED
    BY <2>1 DEF Ledger!Next, Ledger!Forget, AllConfirmed
<1>2. CASE e.token # 0
  <2> DEFINE change == <<e.token, <<e.item, e.step>>>>
             Made(E) == {<<d.token, <<d.item, d.step>>>> : d \in E}
  <2>1. Licensed' = Licensed \cup {e} /\ e \notin Licensed
    BY <1>2 DEF Licensed
  <2>2. IsFiniteSet(Licensed)
    BY FS_Subset DEF IInv, Licensed
  <2>3. Cardinality(Licensed') = Cardinality(Licensed) + 1
    BY <2>1, <2>2, FS_AddElement
  <2>4. change \notin Made(Licensed)
    <3> SUFFICES ASSUME NEW d \in Licensed, d.token = e.token, d.item = e.item,
                        d.step = e.step
                 PROVE  FALSE
      OBVIOUS
    <3>1. d \in effects' /\ e \in effects' /\ d # e
      BY <2>1 DEF Licensed
    <3>2. OneEffectPerPreview'
      BY OnceInvariant, PTL
    <3> QED
      BY <1>2, <3>1, <3>2 DEF OneEffectPerPreview
  <2>5. Made(Licensed') = Made(Licensed) \cup {change}
    BY <2>1
  <2>6. e.token \in AllConfirmed
    BY <1>2, ConfirmedIs DEF Holds
  <2>7. Ledger!MakeChange
    <3>1. change \in Made(Licensed') \ Made(Licensed) /\ change[1] \in AllConfirmed
      BY <2>4, <2>5, <2>6
    <3> QED
      BY <2>3, <2>5, <3>1 DEF Ledger!MakeChange, AllConfirmed
  <2> QED
    BY <2>7 DEF Ledger!Next
<1> QED
  BY <1>1, <1>2
(* A step of one call that makes no change and confirms no preview.        *)
LEMMA LedgerRests ==
  ASSUME NEW c \in Call, Moved(c), session' = session, tokens' \subseteq tokens,
         UNCHANGED effects, Holds(c)' = Holds(c) \cup {}
  PROVE  Ledger!Next
<1>1. Call' = Call
  BY DEF Call
<1>2. AllConfirmed' = AllConfirmed \cup {}
  BY <1>1, ConfirmedGrows
<1> QED
  BY <1>2, LedgerForgets

(* What a call that is not admitted yet holds after a step: its token.     *)
LEMMA HoldsEarly ==
  ASSUME IInv, NEW c \in Call, call[c].phase \in Early,
         call'[c].k = 1, call'[c].step = 1, DOMAIN call'[c].inner \subseteq Nat \ {0}
  PROVE  Holds(c)' = Holds(c) \cup ({call'[c].token} \ {0})
<1>1. TypeOK /\ call[c].token = 0 /\ call[c].k = 1 /\ call[c].step = 1
  BY DEF IInv, CallOK, EarlyOK
<1>2. Holds(c) = {}
  BY <1>1, EarlyHolds
<1>3. Settled(c)' = {}
  BY DEF Settled
<1> QED
  BY <1>2, <1>3 DEF Holds

LEMMA InnerIndices ==
  ASSUME NEW n, NEW c \in Call, call' \in [Call -> CallRecord(n)]
  PROVE  DOMAIN call'[c].inner \subseteq Nat \ {0}
  BY DEF CallRecord

(* An early step in which the call is given no token.                      *)
LEMMA EarlyRests ==
  ASSUME IInv, IInv', NEW c \in Call, call[c].phase \in Early, session' = session,
         Moved(c), UNCHANGED effects,
         call'[c].k = 1, call'[c].step = 1, call'[c].token = 0,
         \/ tokens' \subseteq tokens
         \/ \E proof : issuePreviewToken(proof)
  PROVE  Ledger!Next
<1>1. TypeOK /\ Call' = Call
  BY DEF IInv, Call
<1>2. DOMAIN call'[c].inner \subseteq Nat \ {0}
  <2>1. call' \in [Call -> CallRecord(Len(issued'))]
    BY <1>1 DEF IInv, TypeOK, CallRecord, Phases
  <2> QED
    BY <2>1, InnerIndices
<1>3. AllConfirmed' = AllConfirmed
  <2>1. Holds(c)' = Holds(c) \cup ({call'[c].token} \ {0})
    BY <1>2, HoldsEarly
  <2>2. {call'[c].token} \ {0} = {}
    OBVIOUS
  <2>3. Holds(c)' = Holds(c) \cup {}
    BY <2>1, <2>2
  <2>4. AllConfirmed' = AllConfirmed \cup {}
    BY <1>1, <2>3, ConfirmedGrows
  <2> QED
    BY <2>4
<1> QED
  BY <1>1, <1>3, LedgerForgets, LedgerIssues

LEMMA EarlyLedger ==
  ASSUME IInv, IInv', NEW c \in Call,
         \/ getRawInfo(c) \/ ReadFails(c) \/ readVersionContent(c) \/ previewWithToken(c)
         \/ GoOn(c) \/ GateRefuses(c) \/ checkout(c) \/ commit(c)
  PROVE  Ledger!Next
<1>1. /\ call[c].phase \in Early /\ UNCHANGED local
  BY DEF getRawInfo, ReadFails, readVersionContent, previewWithToken, GoOn, GateRefuses,
         checkout, commit, Early
<1>2. /\ TypeOK /\ call[c].token = 0 /\ call[c].k = 1 /\ call[c].step = 1
      /\ DOMAIN call = Call /\ Len(issued) \in Nat
      /\ call[c] \in CallRecord(Len(issued))
  BY <1>1, CallRecords DEF IInv, CallOK, EarlyOK
<1>3. /\ Moved(c) /\ call'[c].token = 0 /\ call'[c].k = 1 /\ call'[c].step = 1
  <2>1. CASE GoOn(c) \/ commit(c)
    <3>1. Admit(c, 0)
      BY <2>1 DEF GoOn, commit
    <3> QED
      BY <1>2, <3>1, AdmitMoves DEF SamePlace
  <2>2. CASE \E p \in Phases : To(c, p)
    BY <1>2, <2>2, ToMoves DEF SamePlace, SameToken
  <2>3. CASE getRawInfo(c)
    BY <1>2, <2>3 DEF getRawInfo, Moved, CallRecord
  <2>4. CASE readVersionContent(c) /\ call' = [call EXCEPT ![c].phase = "record", ![c].status = "failed"]
    BY <1>2, <2>4 DEF Moved, CallRecord
  <2>5. CASE checkout(c)
    BY <1>2, <2>5 DEF checkout, Moved, CallRecord
  <2> QED
    BY <2>1, <2>2, <2>3, <2>4, <2>5
    DEF Phases, ReadFails, readVersionContent, previewWithToken, GateRefuses
<1>4. \/ tokens' \subseteq tokens
      \/ \E proof : issuePreviewToken(proof)
  BY DEF getRawInfo, ReadFails, readVersionContent, previewWithToken, GoOn, GateRefuses,
         checkout, commit
<1> QED
  BY <1>1, <1>3, <1>4, EarlyRests DEF local

LEMMA BeginLedger ==
  ASSUME IInv, IInv', NEW c \in Call, NEW tool, NEW targets, NEW dry, NEW intent,
         NEW backup, Begin(c, tool, targets, dry, intent, backup)
  PROVE  Ledger!Next
<1>1. DOMAIN call = Call
  BY CallRecords DEF IInv
<1>2. /\ Moved(c) /\ call'[c].token = 0 /\ call'[c].k = 1 /\ call'[c].step = 1
  BY <1>1 DEF Begin, Moved, NoCall
<1>3. call[c].phase \in Early /\ UNCHANGED <<local, tokens>>
  BY DEF Begin, Early
<1> QED
  BY <1>2, <1>3, EarlyRests DEF local

(* A token that matches is consumed, and the call goes on with it.         *)
LEMMA PresentLedger ==
  ASSUME IInv, IInv', NEW c \in Call, NEW t \in 1 .. Len(issued),
         previewTokenRequiredResult(c, t)
  PROVE  Ledger!Next
<1>1. /\ call[c].phase \in Early /\ UNCHANGED local /\ UNCHANGED issued
  BY DEF previewTokenRequiredResult, Early
<1>2. /\ TypeOK /\ call[c].token = 0 /\ call[c].k = 1 /\ call[c].step = 1
      /\ Len(issued) \in Nat /\ cleanupPreviewTokens(tokens) \subseteq tokens
      /\ Call' = Call
  BY <1>1, CallRecords, TokenSets DEF IInv, CallOK, EarlyOK, local, Call
<1>3. CASE tokens' = cleanupPreviewTokens(tokens) /\ To(c, "ended")
  <2>1. /\ Moved(c) /\ call'[c].token = 0 /\ call'[c].k = 1 /\ call'[c].step = 1
    BY <1>2, <1>3, ToMoves DEF Phases, SamePlace, SameToken
  <2> QED
    BY <1>1, <1>2, <1>3, <2>1, EarlyRests DEF local
<1>4. CASE Matching(t, Proof(c)) /\ consumePreviewToken(t) /\ Admit(c, t)
  <2>1. /\ Moved(c) /\ call'[c].token = t /\ call'[c].k = 1 /\ call'[c].step = 1
        /\ call' \in [Call -> CallRecord(Len(issued))]
    BY <1>2, <1>4, AdmitMoves DEF SamePlace
  <2>2. Holds(c)' = Holds(c) \cup {t}
    <3>1. {t} \ {0} = {t}
      BY <1>2
    <3> QED
      BY <1>1, <2>1, <3>1, HoldsEarly, InnerIndices
  <2>3. AllConfirmed' = AllConfirmed \cup {t}
    BY <1>2, <2>1, <2>2, ConfirmedGrows
  <2>4. t \in tokens /\ tokens' \subseteq tokens \ {t}
    BY <1>2, <1>4 DEF Matching, consumePreviewToken
  <2> QED
    BY <1>1, <2>3, <2>4, LedgerConfirms DEF local
<1> QED
  BY <1>3, <1>4 DEF previewTokenRequiredResult
(* A step of an admitted call that moves it on, or leaves it where it is.  *)
LEMMA MovesRest ==
  ASSUME IInv, NEW c \in Call, call[c].phase = "running",
         \/ Fail(c)
         \/ \E p \in Phases : To(c, p)
         \/ StepOf(c) # "again" /\ \E st \in Statuses : Advance(c, st)
         \/ \E landed \in BOOLEAN :
              Sets(c, [call[c] EXCEPT !.tries = call[c].tries + 1, !.landed = landed])
         \/ Sets(c, [call[c] EXCEPT !.phase = "record", !.status = "refused"])
  PROVE  Moved(c) /\ Holds(c)' = Holds(c) \cup {}
<1>1. TypeOK
  BY DEF IInv
<1>2. CASE Fail(c)
  BY <1>1, <1>2, FailMoves, HoldsStay
<1>3. CASE \E p \in Phases : To(c, p)
  BY <1>1, <1>3, ToMoves, HoldsStay
<1>4. ASSUME StepOf(c) # "again", NEW st \in Statuses, Advance(c, st)
      PROVE  Moved(c) /\ Holds(c)' = Holds(c) \cup {}
  <2>1. /\ Moved(c) /\ SameRead(c) /\ SameToken(c)
        /\ LET last == call[c].step = Len(Steps(c)) IN
           /\ ~last => call'[c].step = call[c].step + 1 /\ call'[c].k = call[c].k
           /\ last => call'[c].step = 1 /\ call'[c].k = call[c].k + 1
    BY <1>1, <1>4, AdvanceMoves
  <2> QED
    BY <1>4, <2>1, HoldsAdvance
<1>5. ASSUME NEW landed \in BOOLEAN,
             Sets(c, [call[c] EXCEPT !.tries = call[c].tries + 1, !.landed = landed])
      PROVE  Moved(c) /\ Holds(c)' = Holds(c) \cup {}
  <2>1. Moved(c) /\ SameRead(c) /\ SamePlace(c) /\ SameToken(c)
    BY <1>1, <1>5, TriesMoves
  <2> QED
    BY <2>1, HoldsStay
<1>6. CASE Sets(c, [call[c] EXCEPT !.phase = "record", !.status = "refused"])
  BY <1>1, <1>6, RefuseMoves, HoldsStay
<1> QED
  BY <1>2, <1>3, <1>4, <1>5, <1>6

LEMMA RequestLedger ==
  ASSUME IInv, IInv', NEW c \in Call, graph(c) \/ SendChunk(c)
  PROVE  Ledger!Next
<1>1. /\ call[c].phase = "running" /\ StepOf(c) \in Requests \cup {"chunk"}
      /\ UNCHANGED <<session, tokens, issued, backups>>
  BY DEF graph, SendChunk, Doing
<1>2. /\ Call' = Call /\ StepOf(c) # "again" /\ call[c].status \in Statuses
      /\ (call[c].landed => StepOf(c) = "chunk") /\ call[c] \in CallRecord(Len(issued))
  BY <1>1, Running DEF Call, Requests, Statuses
<1>3. Moved(c) /\ Holds(c)' = Holds(c) \cup {}
  <2>1. CASE call' = [call EXCEPT ![c].tries = @ + 1]
    <3>1. Sets(c, [call[c] EXCEPT !.tries = call[c].tries + 1])
      BY <2>1 DEF Sets
    <3>2. [call[c] EXCEPT !.tries = call[c].tries + 1]
            = [call[c] EXCEPT !.tries = call[c].tries + 1, !.landed = call[c].landed]
      BY <1>2 DEF CallRecord
    <3>3. call[c].landed \in BOOLEAN
      BY <1>2 DEF CallRecord
    <3> QED
      BY <1>1, <3>1, <3>2, <3>3, MovesRest
  <2>2. CASE call' = [call EXCEPT ![c].tries = @ + 1, ![c].landed = TRUE]
    <3>1. Sets(c, [call[c] EXCEPT !.tries = call[c].tries + 1, !.landed = TRUE])
      BY <2>2 DEF Sets
    <3> QED
      BY <1>1, <3>1, MovesRest
  <2>3. CASE Fail(c) \/ Advance(c, call[c].status)
    BY <1>1, <1>2, <2>3, MovesRest
  <2> QED
    BY <2>1, <2>2, <2>3 DEF graph, SendChunk
<1>4. CASE UNCHANGED effects
  BY <1>1, <1>3, <1>4, LedgerRests
<1>5. CASE ~call[c].landed /\ \E s \in Requests \cup {"chunk"} : Doing(c, s) /\ Apply(c, s)
  <2>1. PICK e : /\ e \notin effects /\ effects' = effects \cup {e} /\ e.call = c
                 /\ e.token = call[c].token
    BY <1>1, <1>5, Landing
  <2>2. AllConfirmed' = AllConfirmed \cup {}
    BY <1>2, <1>3, ConfirmedGrows
  <2>3. AllConfirmed' = AllConfirmed
    BY <2>2
  <2> QED
    BY <1>1, <2>1, <2>3, LedgerChanges
<1>6. \/ UNCHANGED effects
      \/ ~call[c].landed /\ \E s \in Requests \cup {"chunk"} : Doing(c, s) /\ Apply(c, s)
  <2>1. CASE graph(c)
    <3>1. PICK s \in Requests : Doing(c, s) /\ (Apply(c, s) \/ UNCHANGED effects)
      BY <2>1 DEF graph
    <3>2. s # "chunk" /\ StepOf(c) = s
      BY <3>1 DEF Requests, Doing
    <3> QED
      BY <1>2, <3>1, <3>2
  <2>2. CASE SendChunk(c)
    BY <2>2 DEF SendChunk
  <2> QED
    BY <2>1, <2>2
<1> QED
  BY <1>4, <1>5, <1>6

LEMMA LocalLedger ==
  ASSUME IInv, NEW c \in Call,
         \/ SkipName(c) \/ Check(c) \/ persistOfficeBackup(c) \/ SkipBackup(c) \/ keep(c)
         \/ Locate(c) \/ pollCopyMonitor(c)
  PROVE  Ledger!Next
<1>1. /\ call[c].phase = "running" /\ UNCHANGED <<session, tokens, effects>>
      /\ StepOf(c) # "again"
  BY DEF SkipName, Check, persistOfficeBackup, SkipBackup, keep, Locate, pollCopyMonitor, Doing, local
<1>2. /\ call[c].status \in Statuses /\ call[c] \in CallRecord(Len(issued))
      /\ {"success", "accepted"} \subseteq Statuses /\ "ended" \in Phases
  BY <1>1, Running DEF Statuses, Phases
<1>3. CASE call' = [call EXCEPT ![c].tries = @ + 1]
  <2>1. Sets(c, [call[c] EXCEPT !.tries = call[c].tries + 1])
    BY <1>3 DEF Sets
  <2>2. [call[c] EXCEPT !.tries = call[c].tries + 1]
          = [call[c] EXCEPT !.tries = call[c].tries + 1, !.landed = call[c].landed]
    BY <1>2 DEF CallRecord
  <2>3. call[c].landed \in BOOLEAN
    BY <1>2 DEF CallRecord
  <2> QED
    BY <1>1, <2>1, <2>2, <2>3, MovesRest, LedgerRests
<1>4. CASE Fail(c) \/ To(c, "ended") \/ \E st \in Statuses : Advance(c, st)
  <2>1. Moved(c) /\ Holds(c)' = Holds(c) \cup {}
    BY <1>1, <1>2, <1>4, MovesRest
  <2> QED
    BY <1>1, <2>1, LedgerRests
<1> QED
  BY <1>2, <1>3, <1>4
  DEF SkipName, Check, persistOfficeBackup, SkipBackup, keep, Locate, pollCopyMonitor
(* The commit of a file of a batch confirms the preview of that file.      *)
LEMMA AgainLedger ==
  ASSUME IInv, NEW c \in Call, Again(c)
  PROVE  Ledger!Next
<1>1. /\ call[c].phase = "running" /\ StepOf(c) = "again" /\ UNCHANGED <<local, issued>>
      /\ UNCHANGED <<session, effects>>
  BY DEF Again, Doing, local
<1>2. /\ TypeOK /\ CallOK(c) /\ call[c] \in CallRecord(Len(issued))
      /\ HandlerOK(call[c].tool, It(c)) /\ Len(issued) \in Nat
      /\ StepOK(call[c].tool, It(c), call[c].step, StepOf(c))
      /\ call[c].k \in 1 .. Len(call[c].targets) /\ Len(call[c].targets) \in Nat
      /\ call[c].status \in Statuses /\ Call' = Call
  BY <1>1, Running DEF Statuses, Call
<1>3. cleanupPreviewTokens(tokens) \subseteq tokens
  BY <1>2, TokenSets
<1>4. CASE tokens' \subseteq tokens /\ (Fail(c) \/ To(c, "ended")
            \/ Sets(c, [call[c] EXCEPT !.phase = "record", !.status = "refused"]))
  <2>1. Moved(c) /\ Holds(c)' = Holds(c) \cup {}
    BY <1>1, <1>4, MovesRest DEF Phases
  <2> QED
    BY <1>1, <1>4, <2>1, LedgerRests
<1>5. CASE \E proof : /\ Matching(call[c].inner[call[c].k], proof)
                      /\ consumePreviewToken(call[c].inner[call[c].k])
                      /\ Advance(c, call[c].status)
  <2> PICK k, t : k = call[c].k /\ t = call[c].inner[k]
    OBVIOUS
  <2>1. t \in tokens /\ tokens' \subseteq tokens \ {t}
    BY <1>3, <1>5 DEF Matching, consumePreviewToken
  <2>2. k \in DOMAIN call[c].inner /\ DOMAIN call[c].inner \subseteq Nat
    <3>1. It(c).nested /\ call[c].inner \in Seq(1 .. Len(issued))
      BY <1>1, <1>2 DEF HandlerOK, StepOK, CallRecord
    <3>2. Len(call[c].inner) = Len(call[c].targets)
      BY <1>1, <1>2, <3>1 DEF CallOK, ReadingOK
    <3> QED
      BY <1>2, <3>1, <3>2
  <2>3. /\ Moved(c) /\ SameRead(c) /\ SameToken(c)
        /\ LET last == call[c].step = Len(Steps(c)) IN
           /\ ~last => call'[c].step = call[c].step + 1 /\ call'[c].k = call[c].k
           /\ last => call'[c].step = 1 /\ call'[c].k = call[c].k + 1
    BY <1>2, <1>5, AdvanceMoves
  <2>4. Settled(c) = {j \in DOMAIN call[c].inner : j < k}
    BY <1>1, <1>2 DEF Settled, StepOK
  <2>5. Settled(c)' = Settled(c) \cup {k}
    <3>1. call[c].step = 1
      BY <1>1, <1>2 DEF StepOK
    <3>2. Settled(c)' = {j \in DOMAIN call[c].inner : j <= k}
      BY <1>2, <2>2, <2>3, <3>1 DEF Settled, SameRead
    <3> QED
      BY <1>2, <2>2, <2>4, <3>2
  <2>6. Holds(c)' = Holds(c) \cup {t}
    BY <2>3, <2>5 DEF Holds, SameRead, SameToken
  <2>7. AllConfirmed' = AllConfirmed \cup {t}
    BY <1>2, <2>3, <2>6, ConfirmedGrows
  <2> QED
    BY <1>1, <2>1, <2>7, LedgerConfirms
<1> QED
  BY <1>3, <1>4, <1>5 DEF Again, Sets

(* The steps that record, and those after them.                            *)
LEMMA RecordLedger ==
  ASSUME IInv, NEW c \in Call, Note(c) \/ Record(c) \/ verify(c) \/ saveManifest(c)
  PROVE  Ledger!Next
<1>1. UNCHANGED <<session, tokens, effects>>
  BY DEF Note, Record, verify, saveManifest, local
<1>2. /\ TypeOK /\ CallOK(c) /\ call[c] \in CallRecord(Len(issued)) /\ DOMAIN call = Call
      /\ call[c].k \in Nat \ {0} /\ call[c].step \in Nat \ {0} /\ Len(issued) \in Nat
  BY CallRecords DEF IInv, CallRecord
<1>3. CASE Note(c)
  <2>1. call[c].phase = "running" /\ StepOf(c) = "note"
    BY <1>3 DEF Note, Doing
  <2>2. PICK k \in Nat \ {0}, w \in BOOLEAN, p \in Phases :
          k = call[c].k + 1 /\ Sets(c, Noted(call[c], k, 1, w, p))
    BY <1>2, <1>3, NoteSets
  <2>3. /\ Moved(c) /\ SameRead(c) /\ SameToken(c)
        /\ call'[c].step = 1 /\ call'[c].k = k
    BY <1>2, <2>2, NoteMoves
  <2>4. call[c].step = Len(Steps(c))
    BY <2>1, Running DEF StepOK, Steps
  <2>5. Holds(c)' = Holds(c) \cup {}
    BY <2>1, <2>2, <2>3, <2>4, HoldsAdvance
  <2> QED
    BY <1>1, <2>3, <2>5, LedgerRests
<1>4. CASE Record(c)
  <2> PICK kept : \E k \in Nat \ {0}, w \in BOOLEAN, p \in {"verify", "ended"} :
        Recorded(c, kept, k, w, p)
    BY <1>2, <1>4, RecordMoves
  <2> PICK k \in Nat \ {0}, w \in BOOLEAN, p \in {"verify", "ended"} :
        Recorded(c, kept, k, w, p)
    OBVIOUS
  <2>1. /\ k = call[c].k \/ call[c].intent \in {"commit", "unchecked"}
        /\ Sets(c, Noted(call[c], k, call[c].step, w, p))
    BY DEF Recorded
  <2>2. p \in Phases
    BY DEF Phases
  <2>3. /\ Moved(c) /\ SameRead(c) /\ SameToken(c)
        /\ call'[c].step = call[c].step /\ call'[c].k = k
    BY <1>2, <2>1, <2>2, NoteMoves
  <2>4. CASE k = call[c].k
    BY <1>1, <2>3, <2>4, HoldsStay, LedgerRests DEF SamePlace
  <2>5. CASE call[c].intent \in {"commit", "unchecked"}
    <3>1. ~It(c).nested
      BY <1>2, <2>5, HandlerOf DEF CallOK, ReadingOK, UpdateIntent, HandlerOK
    <3>2. Len(call[c].inner) = 0 /\ call[c].inner \in Seq(1 .. Len(issued))
      BY <1>2, <3>1 DEF CallOK, ReadingOK, CallRecord
    <3>3. DOMAIN call[c].inner = {}
      BY <3>2
    <3>4. Holds(c)' = Holds(c) \cup {}
      BY <2>3, <3>3 DEF Holds, Settled, SameRead, SameToken
    <3> QED
      BY <1>1, <2>3, <3>4, LedgerRests
  <2> QED
    BY <2>1, <2>4, <2>5
<1>5. CASE verify(c)
  <2>1. PICK version : call' = [call EXCEPT ![c].phase = "saving", ![c].named = version]
    BY <1>5 DEF verify
  <2>2. Moved(c) /\ SameRead(c) /\ SameToken(c) /\ SamePlace(c)
    BY <1>2, <2>1 DEF Moved, SameRead, SameToken, SamePlace, CallRecord
  <2> QED
    BY <1>1, <2>2, HoldsStay, LedgerRests
<1>6. CASE saveManifest(c)
  <2>1. To(c, "ended") /\ "ended" \in Phases
    BY <1>6 DEF saveManifest, Phases
  <2> QED
    BY <1>1, <1>2, <2>1, ToMoves, HoldsStay, LedgerRests
<1> QED
  BY <1>3, <1>4, <1>5, <1>6

(* Whatever happens from outside, previews are only forgotten.             *)
LEMMA OutsideLedger ==
  ASSUME IInv,
         \/ Crash \/ (\E t \in 1 .. Len(issued) : Forget(t)) \/ (\E i \in Item : Other(i))
         \/ UNCHANGED vars
  PROVE  Ledger!Next
<1>1. TypeOK /\ UNCHANGED <<session, effects>> /\ tokens' \subseteq tokens
  BY DEF IInv, Crash, Forget, Other, vars, local
<1>2. \A c \in Call : SameToken(c) /\ SameRead(c) /\ SamePlace(c)
  <2>1. CASE Crash
    <3>1. call' = [c \in Call |-> IF Active(c) THEN [call[c] EXCEPT !.phase = "killed"]
                                  ELSE call[c]]
      BY <2>1 DEF Crash
    <3> QED
      BY <1>1, <3>1, KilledMoves DEF SameToken, SameRead, SamePlace
  <2>2. CASE UNCHANGED call
    BY <2>2 DEF SameToken, SameRead, SamePlace
  <2> QED
    BY <2>1, <2>2 DEF Forget, Other, vars
<1>3. \A c \in Call : Holds(c)' = Holds(c)
  BY <1>2, HoldsStay
<1>4. AllConfirmed' = UNION {Holds(c)' : c \in Call}
  BY <1>1 DEF AllConfirmed, Confirmed, ConfirmedInner, Holds, Settled, Call
<1> HIDE DEF Holds
<1>5. AllConfirmed' = AllConfirmed
  BY <1>3, <1>4, ConfirmedIs
<1> QED
  BY <1>1, <1>5, LedgerForgets

LEMMA LedgerInit == Init => Ledger!Init
<1> SUFFICES ASSUME Init PROVE Ledger!Init
  OBVIOUS
<1>1. IInv /\ effects = {} /\ tokens = {}
  BY Initially DEF Init
<1>2. \A c \in Call : Holds(c) = {}
  <2> TAKE c \in Call
  <2>1. TypeOK /\ call[c].token = 0 /\ call[c].k = 1 /\ call[c].step = 1
    BY <1>1, NoCallIs DEF Init, Call, IInv
  <2> QED
    BY <2>1, EarlyHolds
<1>3. AllConfirmed = {}
  BY <1>2, ConfirmedIs
<1>4. Licensed = {} /\ Cardinality(Licensed) = 0
  BY <1>1, FS_EmptySet DEF Licensed
<1> QED
  BY <1>1, <1>3, <1>4 DEF Ledger!Init, AllConfirmed

LEMMA LedgerNext == IInv /\ IInv' /\ [Next]_vars => [Ledger!Next]_Ledger!vars
<1> SUFFICES ASSUME IInv, IInv', [Next]_vars PROVE Ledger!Next
  OBVIOUS
<1>1. ASSUME NEW c \in Call, Step(c) PROVE Ledger!Next
  <2>1. CASE \/ getRawInfo(c) \/ ReadFails(c) \/ readVersionContent(c)
             \/ previewWithToken(c) \/ GoOn(c) \/ GateRefuses(c) \/ checkout(c)
             \/ commit(c)
    BY <2>1, EarlyLedger
  <2>2. CASE \E t \in 1 .. Len(issued) : previewTokenRequiredResult(c, t)
    BY <2>2, PresentLedger
  <2>3. CASE graph(c) \/ SendChunk(c)
    BY <2>3, RequestLedger
  <2>4. CASE \/ SkipName(c) \/ Check(c) \/ persistOfficeBackup(c) \/ SkipBackup(c) \/ keep(c)
             \/ Locate(c) \/ pollCopyMonitor(c)
    BY <2>4, LocalLedger
  <2>5. CASE Again(c)
    BY <2>5, AgainLedger
  <2>6. CASE Note(c) \/ Record(c) \/ verify(c) \/ saveManifest(c)
    BY <2>6, RecordLedger
  <2> QED
    BY <1>1, <2>1, <2>2, <2>3, <2>4, <2>5, <2>6 DEF Step
<1>2. ASSUME NEW c \in Call, NEW tool, NEW targets, NEW dry, NEW intent, NEW backup,
             Begin(c, tool, targets, dry, intent, backup)
      PROVE  Ledger!Next
  BY <1>2, BeginLedger
<1> QED
  BY <1>1, <1>2, OutsideLedger DEF Next

(* The tokens, the calls and the drive implement the ledger of previews: a *)
(* preview is issued once, confirmed at most once and only while it is     *)
(* open, and licenses each change it showed once; a batch of Office edits  *)
(* confirms the preview of each file when it comes to it.                  *)
THEOREM LedgerImplemented == Spec => ImplementsPreviewLedger
<1>1. IInv /\ [Next]_vars => IInv'
  BY Inductive
<1> QED
  BY <1>1, Invariant, LedgerInit, LedgerNext, PTL
  DEF Spec, ImplementsPreviewLedger, Ledger!Spec
=============================================================================
