---------------------------- MODULE MutationFlow ----------------------------
(* The tools that change a drive: mcp/server.mjs, from the first read of    *)
(* the target to the audit record.  A call reads its targets; a dry run     *)
(* then issues a preview token bound to what was read; a live call reads    *)
(* again and must present a token of the same tool and the same proof,      *)
(* which it consumes before its first request.  Requests are conditional    *)
(* on the eTag where the handler sends If-Match, and are not repeated       *)
(* unless the handler asks for it, so a lost answer is a failure whatever   *)
(* the drive did.  Calls interleave at every request, with each other and   *)
(* with other users of the drive.                                           *)
(*                                                                          *)
(* A handler is a record: what it reads, what its proof holds, and the      *)
(* requests and local steps it takes for each target, in order.             *)
(*                                                                          *)
(* Of Microsoft Graph it is assumed that an eTag is never used twice for an *)
(* item and changes with its content, name and place, that a condition is   *)
(* checked in the same step as the change, and that an upload session keeps *)
(* the condition it was opened with.                                        *)
EXTENDS Naturals, Sequences, FiniteSets

CONSTANTS
  Item,       \* positive numbers: an item of the drive, or a path of it
  Sessions,   \* the tools, calls, targets, options and drive of one behaviour
  MaxCalls,
  Capacity,   \* previewTokenMaxPerScope
  MaxOthers,  \* bound on what other users of the drive do
  MaxPolls,   \* bound on the polls before the deadline of a monitor
  ChunkRetries

VARIABLES
  session,  \* the session of this behaviour
  drive,    \* per item, where it is and its version
  call,     \* the tool calls of the session, begun in order
  tokens,   \* previewTokensByScope: the tokens that can be presented
  issued,   \* every token issued, in order; a token is its index
  backups,  \* managed backups: <<item, version>>
  manifest, \* per item, the version its checkout manifest names; 0 for none
  audit,    \* the mutation audit log
  (* History.                                                              *)
  effects,  \* the changes the drive made for a call
  others    \* how often another user changed the drive

vars == <<session, drive, call, tokens, issued, backups, manifest, audit, effects,
          others>>

-----------------------------------------------------------------------------
(* The handlers.                                                            *)

(* reads: the state of a target the handler goes on with.  gate: whether a  *)
(* live call needs a token (always, only where it replaces a file, never).  *)
(* proof: what the token is bound to, the version of each target or only    *)
(* its identity.  several: whether it takes many targets, and refuses the   *)
(* same one twice.  content: whether it downloads what it edits before the  *)
(* token is asked for, and which calls audit that this failed.              *)
Handler(proof, steps) ==
  [reads |-> "live", gate |-> "always", proof |-> proof, several |-> "one",
   content |-> "none", nested |-> FALSE, steps |-> steps]
Creator(gate, steps) ==
  [Handler("version", steps) EXCEPT !.reads = "any", !.gate = gate]

createFolder ==
  [Handler("version", <<"create">>) EXCEPT !.reads = "nothing", !.gate = "never"]
rename   == Handler("version", <<"patch">>)
moveItem == Handler("version", <<"patch">>)
copyItem == Handler("version", <<"post", "monitor">>)
createSharingLink == Handler("identity", <<"post">>)
invitePermission  == Handler("identity", <<"post">>)
revokePermission  == Handler("identity", <<"post">>)
batchRevokePermissions ==
  [Handler("identity", <<"post">>) EXCEPT !.several = "distinct"]
batchMove ==
  [Handler("version", <<"patch">>) EXCEPT !.several = "distinct", !.gate = "live"]
batchDelete == [Handler("version", <<"remove">>) EXCEPT !.several = "distinct"]
deleteItem  == Handler("version", <<"remove">>)
permanentDeleteItem == Handler("version", <<"locate", "erase">>)
restoreDeleted ==
  [Handler("identity", <<"restore", "name", "confirm">>) EXCEPT !.reads = "nothing"]
restoreVersion == Handler("version", <<"patch", "confirm">>)
patchText ==
  [Handler("version", <<"patch", "confirm">>) EXCEPT !.content = "unaudited"]
upload      == Creator("replacement", <<"put">>)
uploadLarge == Creator("replacement", <<"session", "chunk">>)
writeText   == Creator("write", <<"put">>)
uploadChatgptFile    == Creator("always", <<"put">>)
createOfficeFile     == Creator("always", <<"put">>)
exportFileToOneDrive == Creator("always", <<"put", "confirm">>)
officeBatchUpdate ==
  [Handler("version", <<"backup", "patch">>) EXCEPT !.content = "live"]
applyExcelGraphOperations ==
  [Handler("version", <<"backup", "workbook", "cells">>) EXCEPT !.content = "live"]
officeRestoreBackup ==
  [Handler("version", <<"download", "backup", "patch">>) EXCEPT !.content = "always"]
officeBatchTransformAdmitted ==
  [Handler("version", <<"again", "backup", "patch", "note">>)
     EXCEPT !.several = "any", !.nested = TRUE]

(* The steps that are a request to change the drive, sent once.             *)
Requests == {"create", "patch", "remove", "erase", "post", "put", "restore", "name",
             "cells"}
Statuses == {"success", "accepted", "partial", "failed", "refused"}

updateFile == [Handler("version", <<"keep", "put">>) EXCEPT !.gate = "manifest"]

callTool ==
  [createFolder |-> createFolder, rename |-> rename, moveItem |-> moveItem,
   copyItem |-> copyItem, createSharingLink |-> createSharingLink,
   invitePermission |-> invitePermission, revokePermission |-> revokePermission,
   batchRevokePermissions |-> batchRevokePermissions, batchMove |-> batchMove,
   batchDelete |-> batchDelete, deleteItem |-> deleteItem,
   permanentDeleteItem |-> permanentDeleteItem, restoreDeleted |-> restoreDeleted,
   restoreVersion |-> restoreVersion, patchText |-> patchText, upload |-> upload,
   uploadLarge |-> uploadLarge, writeText |-> writeText,
   uploadChatgptFile |-> uploadChatgptFile, createOfficeFile |-> createOfficeFile,
   exportFileToOneDrive |-> exportFileToOneDrive,
   officeBatchUpdate |-> officeBatchUpdate,
   applyExcelGraphOperations |-> applyExcelGraphOperations,
   officeRestoreBackup |-> officeRestoreBackup,
   officeBatchTransform |-> officeBatchTransformAdmitted,
   updateFile |-> updateFile]

Tool   == DOMAIN callTool
(* conflictBehavior; for updateFile its mode, and whether a commit skips    *)
(* the check for conflicts, or is forced and looks at no manifest either.   *)
Intent == {"fail", "replace", "rename"}
UpdateIntent == {"checkout", "commit", "unchecked", "force"}
Unconditional == {"unchecked", "force"}
(* The tools with an option createBackup.                                   *)
BackupOptional == {"officeBatchUpdate", "applyExcelGraphOperations",
                   "officeBatchTransform", "updateFile"}
Call   == 1 .. session.calls

ASSUME ItemAssumption == Item \subseteq Nat
(* A call names at least one item: the schemas of the batches say minItems. *)
ASSUME SessionsAssumption ==
  \A s \in Sessions :
    /\ s.tools \subseteq Tool /\ s.calls \in 1 .. MaxCalls
    /\ s.targets \subseteq Seq(Item) \ {<<>>}
    /\ s.intents \subseteq Intent \cup UpdateIntent /\ s.backup \subseteq BOOLEAN
    /\ s.start \in [Item -> {"absent", "live", "recycled"}]
ASSUME BoundsAssumption ==
  Capacity \in Nat \ {0} /\ {MaxCalls, MaxOthers, MaxPolls, ChunkRetries} \subseteq Nat

-----------------------------------------------------------------------------
(* What a call knows, and what the drive holds.                             *)

NoCall ==
  [phase |-> "idle", tool |-> "rename", targets |-> <<>>, dry |-> TRUE,
   intent |-> "fail", backup |-> TRUE, seen |-> <<>>, inner |-> <<>>, token |-> 0, k |-> 1,
   step |-> 1, tries |-> 0, landed |-> FALSE, status |-> "success",
   warned |-> FALSE, named |-> 0]

Init ==
  /\ session \in Sessions
  /\ drive = [i \in Item |-> [at |-> session.start[i], ver |-> 1]]
  /\ call = [c \in 1 .. session.calls |-> NoCall]
  /\ tokens = {} /\ issued = <<>> /\ backups = {} /\ audit = {}
  /\ manifest = [i \in Item |-> IF session.start[i] = "live" THEN 1 ELSE 0]
  /\ effects = {} /\ others = 0

It(c)      == callTool[call[c].tool]
Target(c)  == call[c].targets[call[c].k]
Base(c)    == call[c].seen[call[c].k]
StepOf(c)  == It(c).steps[call[c].step]
Doing(c, s) == call[c].phase = "running" /\ StepOf(c) = s
ETag(i)    == IF drive[i].at = "live" THEN drive[i].ver ELSE 0
Active(c)  == call[c].phase \notin {"idle", "ended", "killed"}

local == <<session, drive, backups, manifest, audit, effects, others>>

To(c, phase) == call' = [call EXCEPT ![c].phase = phase]

(* The handler throws inside its try, or a batch returns its partial        *)
(* results: what has been answered before step is known to be done.         *)
Fail(c) ==
  call' = [call EXCEPT ![c].phase = "record", ![c].status =
             IF StepOf(c) \in {"name", "confirm"} /\ call[c].tool = "restoreDeleted"
             THEN "partial" ELSE "failed"]

(* The step is done: the next one, the next target, or the audit record.    *)
Advance(c, status) ==
  LET last == call[c].step = Len(It(c).steps) IN
  call' = [call EXCEPT
    ![c].step = IF last THEN 1 ELSE @ + 1,
    ![c].k = IF last THEN @ + 1 ELSE @,
    ![c].tries = 0,
    ![c].status = status,
    ![c].phase = IF last /\ call[c].k = Len(call[c].targets) THEN "record" ELSE @]

-----------------------------------------------------------------------------
(* Preview tokens.                                                          *)

cleanupPreviewTokens(T) ==
  {t \in T : Cardinality({u \in T : u > t}) < Capacity - 1}

(* Mutant: the proof of an edit does not say whether it makes a backup.     *)
ProofOmitsBackup(tool, targets, seen, backup) ==
  [tool |-> tool, targets |-> targets, backup |-> TRUE,
   seen |-> IF callTool[tool].proof = "version" THEN seen ELSE <<>>]

(* The proof of an Office edit says whether a backup will be made.          *)
previewProof(tool, targets, seen, backup) ==
  [tool |-> tool, targets |-> targets, backup |-> backup,
   seen |-> IF callTool[tool].proof = "version" THEN seen ELSE <<>>]

issuePreviewToken(proof) ==
  /\ issued' = Append(issued, proof)
  /\ tokens' = cleanupPreviewTokens(tokens) \cup {Len(issued) + 1}

(* Mutant: a token is taken for what it says.                               *)
MatchingAnyIssued(t, proof) == issued[t] = proof

Matching(t, proof) == t \in cleanupPreviewTokens(tokens) /\ issued[t] = proof

consumePreviewToken(t) == tokens' = cleanupPreviewTokens(tokens) \ {t}

Proof(c) ==
  previewProof(call[c].tool, call[c].targets, call[c].seen, call[c].backup)

-----------------------------------------------------------------------------
(* Before the first request that changes anything.                          *)

Begin(c, tool, targets, dry, intent, backup) ==
  /\ call[c].phase = "idle"
  /\ c > 1 => call[c - 1].phase # "idle"
  /\ tool \in session.tools /\ targets \in session.targets
  /\ callTool[tool].several = "one" => Len(targets) = 1
  /\ callTool[tool].gate \in {"never", "manifest"} => ~dry
  /\ intent \in session.intents
  /\ intent \in CASE tool = "updateFile"          -> UpdateIntent
                  [] callTool[tool].reads = "any" -> Intent
                  [] OTHER                        -> {"fail"}
  /\ backup \in IF tool \in BackupOptional THEN session.backup ELSE {TRUE}
  /\ call' = [call EXCEPT ![c] = [NoCall EXCEPT
       !.tool = tool, !.targets = targets, !.dry = dry, !.intent = intent,
       !.backup = backup,
       !.named = IF tool = "updateFile" THEN manifest[targets[1]] ELSE 0,
       !.seen = IF callTool[tool].reads = "nothing"
                THEN [k \in DOMAIN targets |-> 0] ELSE <<>>,
       !.phase = IF callTool[tool].reads = "nothing" THEN "gate" ELSE "reading"]]
  /\ UNCHANGED <<local, tokens, issued>>

ReadsTarget(c) ==
  It(c).reads = "live" \/ call[c].intent = "replace"
    \/ call[c].tool \in {"writeText", "createOfficeFile", "exportFileToOneDrive"}

(* getRawInfo of the next target.  A batch of Office edits previews each    *)
(* file as it goes, and each preview issues a token of its own.             *)
getRawInfo(c) ==
  LET i    == call[c].targets[Len(call[c].seen) + 1]
      seen == IF ReadsTarget(c) THEN ETag(i) ELSE 0
      rest == Len(call[c].seen) + 1 < Len(call[c].targets) IN
  /\ call[c].phase = "reading"
  /\ It(c).reads = "live" => seen # 0
  /\ call' = [call EXCEPT
       ![c].seen = Append(@, seen),
       ![c].inner = IF It(c).nested THEN Append(@, Len(issued) + 1) ELSE @,
       ![c].phase = IF rest THEN "reading"
                    ELSE IF It(c).content = "none" THEN "gate" ELSE "content"]
  /\ IF It(c).nested
     THEN issuePreviewToken(previewProof("officeBatchUpdate", <<i>>, <<seen>>,
                                         call[c].backup))
     ELSE UNCHANGED <<tokens, issued>>
  /\ UNCHANGED local

(* A target that cannot be read, or is not what was expected, ends the call *)
(* before anything is changed; a batch reads the others and then refuses.   *)
ReadFails(c) ==
  /\ call[c].phase = "reading"
  /\ To(c, "ended")
  /\ UNCHANGED <<local, tokens, issued>>

(* The content to edit, with If-Match of the version that was read.  An     *)
(* edit that changes nothing ends the call.                                 *)
readVersionContent(c) ==
  /\ call[c].phase = "content"
  /\ \/ ETag(Target(c)) = Base(c) /\ To(c, "gate")
     \/ To(c, "ended")
     \/ /\ It(c).content = "always" \/ (It(c).content = "live" /\ ~call[c].dry)
        /\ call' = [call EXCEPT ![c].phase = "record", ![c].status = "failed"]
  /\ UNCHANGED <<local, tokens, issued>>

Duplicates(c) ==
  \E j, k \in DOMAIN call[c].targets : j # k /\ call[c].targets[j] = call[c].targets[k]

Blocked(c) ==
  \/ It(c).several = "distinct" /\ Duplicates(c)
  \/ /\ call[c].intent = "fail" /\ Base(c) # 0
     /\ \/ call[c].tool = "createOfficeFile"
        \/ call[c].tool = "exportFileToOneDrive" /\ ~call[c].dry

guardPublicReplacement(c) == call[c].intent = "replace" /\ Base(c) # 0

(* The calls that go on without a token.  upload looks at dryRun only where *)
(* it would replace a file.                                                 *)
Ungated(c) ==
  \/ It(c).gate \in {"never", "live"} /\ ~call[c].dry
  \/ It(c).gate = "write" /\ ~call[c].dry /\ ~guardPublicReplacement(c)
  \/ It(c).gate = "replacement" /\ ~guardPublicReplacement(c)

previewWithToken(c) ==
  /\ call[c].phase = "gate" /\ call[c].dry /\ ~Blocked(c) /\ ~Ungated(c)
  /\ IF It(c).gate = "live" THEN UNCHANGED <<tokens, issued>>
     ELSE issuePreviewToken(Proof(c))
  /\ To(c, "ended")
  /\ UNCHANGED local

Admit(c, t) ==
  call' = [call EXCEPT ![c].phase = "running", ![c].token = t]

GoOn(c) ==
  /\ call[c].phase = "gate" /\ ~Blocked(c) /\ Ungated(c)
  /\ Admit(c, 0)
  /\ UNCHANGED <<local, tokens, issued>>

previewTokenRequiredResult(c, t) ==
  /\ call[c].phase = "gate" /\ ~call[c].dry /\ ~Blocked(c)
  /\ It(c).gate \in {"always", "write", "replacement"}
  /\ Ungated(c) => It(c).gate = "write"
  /\ IF Matching(t, Proof(c))
     THEN consumePreviewToken(t) /\ Admit(c, t)
     ELSE tokens' = cleanupPreviewTokens(tokens) /\ To(c, "ended")
  /\ UNCHANGED <<local, issued>>

(* Duplicates, a conflict, no confirmation, no identity or no token.        *)
GateRefuses(c) ==
  /\ call[c].phase = "gate"
  /\ Blocked(c) \/ (~call[c].dry /\ It(c).gate # "never")
  /\ To(c, "ended")
  /\ UNCHANGED <<local, tokens, issued>>

-----------------------------------------------------------------------------
(* The steps of an admitted call.                                           *)

Replaces(c) ==
  Base(c) # 0 /\ (call[c].intent = "replace"
                    \/ call[c].tool \in {"exportFileToOneDrive", "updateFile"})

(* Mutant: If-Match is left out.                                            *)
NoMatchHeaders(c, s) == 0

(* The version a request of step s is conditional on, or 0. Rename, move,   *)
(* delete and content writes send If-Match; copy, sharing, restore, the     *)
(* rename after a restore, workbook writes, and updates that are forced or  *)
(* skip the check for conflicts do not.                                     *)
mutationMatchHeaders(c, s) ==
  IF \/ s \in {"patch", "remove", "erase"}
     \/ /\ s \in {"put", "session", "chunk"} /\ Replaces(c)
        /\ call[c].intent \notin Unconditional
  THEN Base(c) ELSE 0

(* Whether the drive accepts the request of step s for target i.            *)
Accepts(c, s, i) ==
  LET version == mutationMatchHeaders(c, s) IN
  /\ version # 0 => ETag(i) = version
  /\ CASE s \in {"patch", "remove", "erase", "post", "name", "cells"} -> ETag(i) # 0
       [] s = "restore" -> drive[i].at = "recycled"
       [] s = "create"  -> ETag(i) = 0
       [] s \in {"put", "session", "chunk"} ->
            Replaces(c) \/ ETag(i) = 0 \/ call[c].intent = "rename"

(* What the drive holds once it has accepted it.                            *)
After(c, s, i) ==
  CASE s = "remove" -> [drive[i] EXCEPT !.at = "recycled"]
    [] s = "erase"  -> [drive[i] EXCEPT !.at = "gone"]
    [] s = "post"   -> drive[i]
    [] s \in {"put", "chunk"} /\ ~Replaces(c) /\ ETag(i) # 0 -> drive[i]
    [] OTHER -> [at |-> "live", ver |-> drive[i].ver + 1]

Apply(c, s) ==
  LET i == Target(c) IN
  /\ Accepts(c, s, i)
  /\ drive' = [drive EXCEPT ![i] = After(c, s, i)]
  /\ effects' = effects \cup
       {[call |-> c, token |-> call[c].token, item |-> i, k |-> call[c].k,
         step |-> call[c].step, try |-> call[c].tries,
         from |-> IF s \in {"put", "chunk"} /\ ~Replaces(c) THEN 0 ELSE ETag(i),
         act |-> s]}

(* Mutant: a request whose answer is lost is sent again.                    *)
GraphRetried(c) ==
  /\ \E s \in Requests :
       /\ Doing(c, s)
       /\ \/ /\ Apply(c, s)
             /\ \/ Advance(c, call[c].status)
                \/ call[c].tries = 0 /\ call' = [call EXCEPT ![c].tries = 1]
          \/ Fail(c) /\ UNCHANGED <<drive, effects>>
  /\ UNCHANGED <<session, tokens, issued, backups, manifest, audit, others>>

(* A request that is sent once.  Whatever is wrong with its answer, it is a *)
(* failure; the drive may have made the change.                             *)
graph(c) ==
  /\ \E s \in Requests :
       /\ Doing(c, s)
       /\ \/ Apply(c, s) /\ (Advance(c, call[c].status) \/ Fail(c))
          \/ Fail(c) /\ UNCHANGED <<drive, effects>>
  /\ UNCHANGED <<session, tokens, issued, backups, manifest, audit, others>>

(* The rename after a restore is left out where the restore applied it.     *)
SkipName(c) ==
  /\ Doing(c, "name")
  /\ Advance(c, call[c].status)
  /\ UNCHANGED <<local, tokens, issued>>

(* Mutant: the verification is outside the try.                             *)
CheckUncaught(c) ==
  /\ \E s \in {"confirm", "workbook", "session", "download"} :
       /\ Doing(c, s)
       /\ \/ Advance(c, call[c].status)
          \/ To(c, "ended")
  /\ UNCHANGED <<local, tokens, issued>>

(* Reads and local work that must succeed.                                  *)
Check(c) ==
  /\ \E s \in {"confirm", "workbook", "session", "download"} :
       /\ Doing(c, s)
       /\ \/ /\ s = "session"  => Accepts(c, s, Target(c))
             /\ s = "download" => ETag(Target(c)) = Base(c)
             /\ Advance(c, call[c].status)
          \/ Fail(c)
  /\ UNCHANGED <<local, tokens, issued>>

(* The last chunk of an upload session, which is sent again when its answer *)
(* is lost.  A session that has made its file is gone.                      *)
SendChunk(c) ==
  /\ Doing(c, "chunk")
  /\ \/ /\ ~call[c].landed
        /\ Apply(c, "chunk")
        /\ \/ Advance(c, call[c].status)
           \/ /\ call[c].tries < ChunkRetries
              /\ call' = [call EXCEPT ![c].tries = @ + 1, ![c].landed = TRUE]
           \/ call[c].tries = ChunkRetries /\ Fail(c)
     \/ /\ \/ Fail(c)
           \/ /\ call[c].tries < ChunkRetries
              /\ call' = [call EXCEPT ![c].tries = @ + 1]
        /\ UNCHANGED <<drive, effects>>
  /\ UNCHANGED <<session, tokens, issued, backups, manifest, audit, others>>

(* Mutant: an edit goes on without its backup.                              *)
BackupBestEffort(c) ==
  /\ Doing(c, "backup") /\ call[c].backup
  /\ Advance(c, call[c].status)
  /\ backups' \in {backups, backups \cup {<<Target(c), Base(c)>>}}
  /\ UNCHANGED <<session, drive, tokens, issued, manifest, audit, effects, others>>

persistOfficeBackup(c) ==
  /\ Doing(c, "backup") /\ call[c].backup
  /\ \/ backups' = backups \cup {<<Target(c), Base(c)>>} /\ Advance(c, call[c].status)
     \/ Fail(c) /\ UNCHANGED backups
  /\ UNCHANGED <<session, drive, tokens, issued, manifest, audit, effects, others>>

(* createBackup: false.                                                     *)
SkipBackup(c) ==
  /\ Doing(c, "backup") \/ Doing(c, "keep")
  /\ ~call[c].backup
  /\ Advance(c, call[c].status)
  /\ UNCHANGED <<local, tokens, issued>>

(* updateFile. A checkout downloads the version it finds and saves it in    *)
(* the manifest. A commit goes on if the version it reads is the one the    *)
(* manifest named; one that skips the check only needs a manifest, and a    *)
(* forced one asks for nothing.                                             *)
checkout(c) ==
  /\ call[c].phase = "gate" /\ call[c].intent = "checkout"
  /\ ETag(Target(c)) # 0
  /\ call' = [call EXCEPT ![c].phase = "saving", ![c].named = ETag(Target(c))]
  /\ UNCHANGED <<local, tokens, issued>>

commit(c) ==
  /\ call[c].phase = "gate"
  /\ \/ call[c].intent = "commit" /\ call[c].named = Base(c)
     \/ call[c].intent = "unchecked" /\ call[c].named # 0
     \/ call[c].intent = "force"
  /\ Admit(c, 0)
  /\ UNCHANGED <<local, tokens, issued>>

(* What is on the drive by then is downloaded to the managed backups.       *)
keep(c) ==
  /\ Doing(c, "keep") /\ call[c].backup
  /\ \/ /\ ETag(Target(c)) # 0
        /\ backups' = backups \cup {<<Target(c), ETag(Target(c))>>}
        /\ Advance(c, call[c].status)
     \/ To(c, "ended") /\ UNCHANGED backups
  /\ UNCHANGED <<session, drive, tokens, issued, manifest, audit, effects, others>>

(* A commit that was made goes on with the version it then reads, or with   *)
(* the one it made when that cannot be read.                                *)
verify(c) ==
  /\ call[c].phase = "verify"
  /\ \E version \in {ETag(Target(c)), Base(c) + 1} \ {0} :
       call' = [call EXCEPT ![c].phase = "saving", ![c].named = version]
  /\ UNCHANGED <<local, tokens, issued>>

(* Saving the manifest is best effort.                                      *)
saveManifest(c) ==
  /\ call[c].phase = "saving"
  /\ manifest' \in {manifest, [manifest EXCEPT ![Target(c)] = call[c].named]}
  /\ To(c, "ended")
  /\ UNCHANGED <<session, drive, tokens, issued, backups, audit, effects, others>>

(* The drive of the item is looked up outside the try: when that fails the  *)
(* call ends without an audit record.                                       *)
Locate(c) ==
  /\ Doing(c, "locate")
  /\ Advance(c, call[c].status) \/ To(c, "ended")
  /\ UNCHANGED <<local, tokens, issued>>

(* Mutant: polling has no deadline.                                         *)
PollWithoutDeadline(c) ==
  /\ Doing(c, "monitor")
  /\ \/ \E status \in {"success", "accepted"} : Advance(c, status)
     \/ call' = [call EXCEPT ![c].tries = 1 - @]
  /\ UNCHANGED <<local, tokens, issued>>

(* A copy goes on after it was accepted.  Not waiting, no monitor, a poll   *)
(* that fails, a copy that fails and the deadline all leave it accepted.    *)
pollCopyMonitor(c) ==
  /\ Doing(c, "monitor")
  /\ \/ \E status \in {"success", "accepted"} : Advance(c, status)
     \/ call[c].tries < MaxPolls /\ call' = [call EXCEPT ![c].tries = @ + 1]
  /\ UNCHANGED <<local, tokens, issued>>

(* The commit of one file of a batch reads it again, and consumes the token *)
(* that its own preview issued.  Room for the backups, if there will be     *)
(* any, is reserved first; without it the call ends with no audit record.   *)
Again(c) ==
  /\ Doing(c, "again")
  /\ LET i == Target(c)
         t == call[c].inner[call[c].k]
         proof == previewProof("officeBatchUpdate", <<i>>, <<ETag(i)>>,
                               call[c].backup) IN
     \/ Fail(c) /\ UNCHANGED tokens
     \/ call[c].k = 1 /\ call[c].backup /\ To(c, "ended") /\ UNCHANGED tokens
     \/ /\ ETag(i) # 0
        /\ IF Matching(t, proof)
           THEN consumePreviewToken(t) /\ Advance(c, call[c].status)
           ELSE /\ tokens' = cleanupPreviewTokens(tokens)
                /\ call' = [call EXCEPT ![c].phase = "record", ![c].status = "refused"]
  /\ UNCHANGED <<local, issued>>

(* Mutant: the target that failed counts as done.                           *)
EntryCountsFailed(c, k, status) ==
  [call |-> c, item |-> k, status |-> status, done |-> call[c].k]

Entry(c, k, status) ==
  [call |-> c, item |-> k, status |-> status, done |-> call[c].k - 1]

(* writeMutationAudit is best effort: a record that cannot be written is a  *)
(* warning of the call's result.                                            *)
writeMutationAudit(c, entries, then) ==
  \E kept \in SUBSET entries :
    /\ audit' = audit \cup kept
    /\ call' = [then EXCEPT ![c].warned = @ \/ kept # entries]

(* The record of one file of a batch.                                       *)
Note(c) ==
  /\ Doing(c, "note")
  /\ \E kept \in SUBSET {Entry(c, call[c].k, "success")} :
       /\ audit' = audit \cup kept
       /\ LET last == call[c].k = Len(call[c].targets) IN
          call' = [call EXCEPT
            ![c].step = 1, ![c].k = @ + 1,
            ![c].warned = @ \/ kept = {},
            ![c].phase = IF last THEN "record" ELSE @]
  /\ UNCHANGED <<session, drive, tokens, issued, backups, manifest, effects, others>>

(* The record of the call; a file of a batch that failed has one before it. *)
Record(c) ==
  /\ call[c].phase = "record"
  /\ LET whole == Entry(c, 0, call[c].status)
         file  == {Entry(c, call[c].k, "failed")}
         more  == call[c].intent \in {"commit", "unchecked"} /\ call[c].status = "success"
         ended == [call EXCEPT ![c].phase = IF more THEN "verify" ELSE "ended",
                               ![c].k = IF more THEN 1 ELSE @] IN
     \/ /\ ~It(c).nested \/ call[c].status # "failed" \/ call[c].step = 1
        /\ writeMutationAudit(c, {whole}, ended)
     \/ /\ It(c).nested /\ call[c].status = "failed"
        /\ writeMutationAudit(c, {whole} \cup file, ended)
  /\ UNCHANGED <<session, drive, tokens, issued, backups, manifest, effects, others>>

-----------------------------------------------------------------------------
(* What happens to a call from outside.                                     *)

(* The process ends, and with it every call and every token.                *)
Crash ==
  /\ \E c \in Call : Active(c)
  /\ call' = [c \in Call |-> IF Active(c) THEN [call[c] EXCEPT !.phase = "killed"]
                             ELSE call[c]]
  /\ tokens' = {}
  /\ UNCHANGED <<local, issued>>

(* A token expires, or a poll sees its item change.                         *)
Forget(t) ==
  /\ t \in tokens
  /\ tokens' = tokens \ {t}
  /\ UNCHANGED <<local, call, issued>>

(* Another user of the drive edits, removes, restores or creates an item.   *)
Other(i) ==
  /\ others < MaxOthers
  /\ \/ /\ drive[i].at # "gone"
        /\ drive' = [drive EXCEPT ![i] = [at |-> "live", ver |-> @.ver + 1]]
     \/ drive[i].at = "live" /\ drive' = [drive EXCEPT ![i].at = "recycled"]
  /\ others' = others + 1
  /\ UNCHANGED <<session, call, tokens, issued, backups, manifest, audit, effects>>

Step(c) ==
  \/ getRawInfo(c) \/ ReadFails(c) \/ readVersionContent(c)
  \/ previewWithToken(c) \/ GoOn(c) \/ GateRefuses(c)
  \/ \E t \in 1 .. Len(issued) : previewTokenRequiredResult(c, t)
  \/ graph(c) \/ SkipName(c) \/ Check(c) \/ SendChunk(c) \/ persistOfficeBackup(c)
  \/ SkipBackup(c) \/ checkout(c) \/ commit(c) \/ keep(c) \/ verify(c) \/ saveManifest(c)
  \/ Locate(c) \/ pollCopyMonitor(c) \/ Again(c) \/ Note(c) \/ Record(c)

Next ==
  \/ \E c \in Call :
       \/ \E tool \in Tool, targets \in session.targets, dry \in BOOLEAN,
            intent \in Intent \cup UpdateIntent, backup \in BOOLEAN :
            Begin(c, tool, targets, dry, intent, backup)
       \/ Step(c)
  \/ Crash
  \/ \E t \in 1 .. Len(issued) : Forget(t)
  \/ \E i \in Item : Other(i)

Spec == Init /\ [][Next]_vars

(* Every request has a timeout and every poll a deadline, so a handler that *)
(* was called returns.                                                      *)
FairSpec == Spec /\ \A c \in 1 .. MaxCalls : WF_vars(c \in Call /\ Step(c))

-----------------------------------------------------------------------------
(* What the variables hold. A token that can be presented was issued, and   *)
(* there are never more of them than the cap of the scope.                  *)
TypeOK ==
  /\ session \in Sessions
  /\ drive \in [Item -> [at : {"absent", "live", "recycled", "gone"}, ver : Nat]]
  /\ call \in [Call ->
       [phase : {"idle", "reading", "content", "gate", "running", "record", "verify",
                 "saving", "ended", "killed"},
        tool : Tool, targets : Seq(Item), dry : BOOLEAN,
        intent : Intent \cup UpdateIntent, backup : BOOLEAN, named : Nat,
        seen : Seq(Nat), inner : Seq(1 .. Len(issued)), token : 0 .. Len(issued),
        k : Nat \ {0}, step : Nat \ {0}, tries : Nat, landed : BOOLEAN,
        status : Statuses, warned : BOOLEAN]]
  /\ tokens \subseteq 1 .. Len(issued) /\ Cardinality(tokens) <= Capacity
  /\ issued \in Seq([tool : Tool, targets : Seq(Item), backup : BOOLEAN, seen : Seq(Nat)])
  /\ backups \subseteq Item \X Nat
  /\ manifest \in [Item -> Nat]
  /\ audit \subseteq [call : Call, item : Nat, status : Statuses, done : Nat]
  /\ effects \subseteq [call : Call, token : Nat, item : Item, k : Nat, step : Nat,
                       try : Nat, from : Nat, act : Requests \cup {"chunk"}]
  /\ others \in 0 .. MaxOthers

(* A confirmed preview changes each of its targets at most once, however    *)
(* often its token is presented, its requests are sent again and whoever    *)
(* else works on the drive.                                                 *)
OneEffectPerPreview ==
  \A d, e \in effects :
    d.token = e.token /\ d.item = e.item /\ d.step = e.step
      /\ (d.token # 0 \/ d.call = e.call) => d = e

(* What a confirmed preview renames, moves, deletes or overwrites is the    *)
(* version it showed, an edit is put over the content it was made from, and *)
(* an update over the version its manifest named; a change another user     *)
(* makes in between is never lost.  Workbook writes, and updates that are   *)
(* forced or skip the check, send no condition and are not claimed here.    *)
ChangesWhatWasPreviewed ==
  \A e \in effects :
    (e.from # 0 /\ e.act \in {"patch", "remove", "erase", "put", "chunk"}
       /\ call[e.call].intent \notin Unconditional) =>
      /\ e.from = call[e.call].seen[e.k]
      /\ e.token # 0 => e.from = issued[e.token].seen[e.k]

(* A restored backup, and an Office edit or an update of a file unless it   *)
(* says createBackup: false, replace only a version that is kept in a       *)
(* managed backup, whatever else fails and who else changes the file        *)
(* between the backup and the write; nor can an edit whose preview showed   *)
(* that a backup will be made be confirmed as one that makes none.  Updates *)
(* without a condition may replace a newer version than they backed up.     *)
ReplacedVersionBackedUp ==
  \A e \in effects :
    (/\ call[e.call].tool \in {"officeBatchUpdate", "officeRestoreBackup",
                               "officeBatchTransform", "updateFile"}
     /\ call[e.call].intent \notin Unconditional
     /\ call[e.call].backup \/ (e.token # 0 /\ issued[e.token].backup))
      => <<e.item, e.from>> \in backups

Applied(c, k) == {e.step : e \in {d \in effects : d.call = c /\ d.k = k}}
Changing(tool) ==
  {j \in DOMAIN callTool[tool].steps :
     callTool[tool].steps[j] \in {"create", "patch", "remove", "erase", "post", "put",
                                  "chunk", "restore", "cells"}}

(* The audit log tells the truth about partial failure: what it calls done  *)
(* was done, all of it, and beyond the target it calls failed nothing was   *)
(* touched; a restore it calls failed was not answered, one it calls        *)
(* partial was made.                                                        *)
AuditIsTrue ==
  \A r \in audit :
    LET tool == call[r.call].tool all == DOMAIN call[r.call].targets IN
    /\ \A k \in all : k <= r.done => Changing(tool) \subseteq Applied(r.call, k)
    /\ \A k \in all : k > r.done + 1 => r.item # 0 \/ Applied(r.call, k) = {}
    /\ r.item = 0 /\ r.status \in {"success", "accepted"} => r.done = Len(call[r.call].targets)
    /\ r.status = "refused" => Applied(r.call, r.done + 1) = {}
    /\ r.status = "partial" => 1 \in Applied(r.call, 1)

(* A call that changed the drive and returned, with a result or an error,   *)
(* has left an audit record, or warned that it could not.                   *)
EffectsAreAudited ==
  \A e \in effects :
    call[e.call].phase = "ended" /\ ~call[e.call].warned
      => \E r \in audit : r.call = e.call /\ r.item = 0

(* The tokens, the calls and the drive together implement PreviewLedger.    *)
Confirmed == {call[c].token : c \in Call} \ {0}
ConfirmedInner ==
  UNION {{call[c].inner[k] : k \in {j \in DOMAIN call[c].inner :
            j < call[c].k \/ (j = call[c].k /\ call[c].step > 1)}} : c \in Call}
Licensed  == {e \in effects : e.token # 0}
Ledger == INSTANCE PreviewLedger WITH
  open      <- tokens,
  confirmed <- Confirmed \cup ConfirmedInner,
  done      <- {<<e.token, <<e.item, e.step>>>> : e \in Licensed},
  made      <- Cardinality(Licensed)
ImplementsPreviewLedger == Ledger!Spec

(* Every call returns.                                                      *)
CallsReturn == \A c \in 1 .. MaxCalls : (c \in Call /\ Active(c)) ~> ~(c \in Call /\ Active(c))
=============================================================================
