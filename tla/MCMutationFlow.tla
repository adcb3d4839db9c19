--------------------------- MODULE MCMutationFlow ---------------------------
(* Small instances of MutationFlow for TLC: what one behaviour does.        *)
EXTENDS MutationFlow, TLC

Alone(tools, calls, at) ==
  [tools |-> tools, calls |-> calls, targets |-> {<<1>>},
   intents |-> Intent \cup UpdateIntent, backup |-> BOOLEAN,
   start |-> [i \in Item |-> at]]

Batch(tools, calls, targets) ==
  [tools |-> tools, calls |-> calls, targets |-> targets,
   intents |-> {"fail"}, backup |-> {TRUE},
   start |-> [i \in Item |-> "live"]]

(* Every tool with a second call of it, and some with a third; files that   *)
(* exist and paths that are free; batches of two targets, also of the same  *)
(* target twice; edits and updates with and without a backup.               *)
EverySession ==
  {Alone({t}, 3, "live") : t \in {"rename", "createSharingLink"}}
    \cup {Alone({t}, 2, "live") :
          t \in {"moveItem", "copyItem", "invitePermission", "revokePermission",
                 "deleteItem", "permanentDeleteItem", "restoreVersion", "patchText",
                 "applyExcelGraphOperations", "upload", "writeText",
                 "uploadChatgptFile", "createOfficeFile", "exportFileToOneDrive"}}
    \cup {Alone({t}, 2, "absent") :
          t \in {"createFolder", "writeText", "createOfficeFile"}}
    \cup {Alone({t}, 1, "absent") : t \in {"upload", "uploadLarge"}}
    \cup {[Alone({"updateFile"}, 2, "live") EXCEPT !.backup = {TRUE}, !.intents = I] :
          I \in {{"checkout", "commit"}, {"commit", "force"}}}
    \cup {[Alone({"uploadLarge"}, 2, "live") EXCEPT !.intents = {"fail", "replace"}]}
    \cup {Alone({t}, 1, "live") : t \in {"updateFile", "uploadLarge"}}
    \cup {Alone({"restoreDeleted"}, 2, "recycled"),
          Alone({"rename", "moveItem"}, 2, "live"),
          Alone({"officeBatchUpdate", "officeRestoreBackup"}, 2, "live"),
          Alone({"officeBatchTransform"}, 2, "live")}
    \cup {Batch({t}, 2, {<<1, 2>>, <<1, 1>>}) :
          t \in {"batchDelete", "batchRevokePermissions"}}
    \cup {Batch({"batchMove"}, 1, {<<1, 2>>, <<1, 1>>}),
          Batch({"officeBatchTransform"}, 2, {<<1, 2>>}),
          Batch({"officeBatchTransform"}, 2, {<<1, 1>>})}
=============================================================================
