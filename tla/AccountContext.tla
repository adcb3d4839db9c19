--------------------------- MODULE AccountContext ---------------------------
(***************************************************************************)
(* The account a process of the MCP server acts for, and the tool calls    *)
(* that run while it changes: mcp/server.mjs, device login, logout, access *)
(* tokens and their refresh, the storage scope, Graph requests, account-   *)
(* scoped local files and preview tokens.                                  *)
(*                                                                         *)
(* Calls interleave at every await.  A call is a record that says what it  *)
(* waits for and what it has read; the code between two awaits is one      *)
(* step.  Nothing is locked: a call remembers the generation and the login *)
(* it began under and compares them, again and again, with the current     *)
(* ones.                                                                   *)
(*                                                                         *)
(* A login is known by its auth_context_id, and stands for its account and *)
(* its drive.  authGeneration and storageScopeGeneration are incremented   *)
(* together, always, and are one number here.  Every credential has a      *)
(* refresh token, and an access token that an hour makes stale.            *)
(***************************************************************************)
EXTENDS Naturals, FiniteSets

CONSTANTS
  Call,           \* slots for concurrent tool calls
  Context,        \* auth_context_ids
  None,
  MaxGeneration,  \* bound on logins and logouts of one process
  MaxDevice,      \* bound on device logins started by one process
  MaxForeign      \* bound on what other processes do to the stored credential

ASSUME SetsAssumption ==
  None \notin Call \cup Context \cup Nat \cup [ctx : Context, fresh : BOOLEAN]
ASSUME BoundsAssumption ==
  MaxGeneration \in Nat /\ MaxDevice \in Nat /\ MaxForeign \in Nat

VARIABLES
  tokenCache,       \* the credential in memory
  vault,            \* the stored credential
  generation,       \* authGeneration and storageScopeGeneration
  deviceGeneration, \* deviceLoginGeneration
  pendingDevice,    \* the device login to poll, by its generation
  refreshing,       \* tokenRefreshPromise, by the call that made it
  flight,           \* the refresh each call made, until it is answered
  activeScope,      \* activeStorageScopePromise, its key and generation
  previews,         \* previewTokensByScope
  files,            \* per login, whose data its local files hold
  call,             \* the tool calls
  (* History.                                                              *)
  used,             \* auth_context_ids ever drawn
  allowed,          \* logins the user has left a credential for
  standing,         \* polls that no logout and no newer start has cancelled
  foreign           \* what other processes did

auth == <<tokenCache, vault, generation, deviceGeneration, pendingDevice>>
history == <<used, allowed, standing, foreign>>
vars == <<tokenCache, vault, generation, deviceGeneration, pendingDevice,
          refreshing, flight, activeScope, previews, files, call,
          used, allowed, standing, foreign>>

-----------------------------------------------------------------------------
Token == [ctx : Context, fresh : BOOLEAN]
Scope == [ctx : Context, drive : Context]

(* pc: what the call waits for.  step: how far its tool has come.  need:   *)
(* what its access token is for.                                           *)
Idle == [pc |-> "idle", step |-> "none", need |-> "none", gen |-> 0,
         ctx |-> None, using |-> None, via |-> None, found |-> None,
         guard |-> None, item |-> None, dev |-> None, session |-> None]

(* tokenCache || getKeychainToken().                                       *)
Current == IF tokenCache # None THEN tokenCache ELSE vault
CurrentIs(c) == Current # None /\ Current.ctx = c

Set(c, r) == call' = [call EXCEPT ![c] = r]
Goto(c, pc) == Set(c, [call[c] EXCEPT !.pc = pc])
At(c, pc, need) == call[c].pc = pc /\ call[c].need = need

(* assertToolAccountGeneration.                                            *)
SameGeneration(c) == call[c].gen = generation

(* assertGraphAccountContext.                                              *)
(* Mutant: the account is captured and never compared.                     *)
SameAccountAssumed(c) == TRUE

SameAccount(c) == SameGeneration(c) /\ CurrentIs(call[c].ctx)

(* assertStorageScopeGuard.                                                *)
ScopeHolds(c, s) ==
  /\ SameGeneration(c)
  /\ CurrentIs(s.ctx)
  /\ activeScope # None
  /\ activeScope.gen = generation
  /\ activeScope.ctx = s.ctx /\ activeScope.drive = s.drive

-----------------------------------------------------------------------------
(* getAccessToken: a credential with a fresh access token is used at once; *)
(* otherwise the call joins the refresh in progress, or starts one.        *)
GetAccessToken(c, r) ==
  /\ Current # None
  /\ IF Current.fresh
     THEN /\ tokenCache' = Current
          /\ Set(c, [r EXCEPT !.pc = "token", !.using = Current.ctx])
          /\ UNCHANGED <<refreshing, flight>>
     ELSE /\ IF refreshing # None
             THEN /\ Set(c, [r EXCEPT !.pc = "refresh", !.via = refreshing])
                  /\ UNCHANGED <<refreshing, flight>>
             ELSE /\ Set(c, [r EXCEPT !.pc = "refresh", !.via = c])
                  /\ refreshing' = c
                  /\ flight' = [flight EXCEPT ![c] =
                                  [ctx |-> Current.ctx, gen |-> generation]]
          /\ UNCHANGED tokenCache

(* The answer to a refresh reaches everyone who awaits it.                 *)
Awaiting(d) == {c \in Call : call[c].pc = "refresh" /\ call[c].via = d}
Settle(d, pc, using) ==
  call' = [c \in Call |->
             IF c \in Awaiting(d)
             THEN [call[c] EXCEPT !.pc = pc, !.via = None, !.using = using]
             ELSE call[c]]

(* The finally of getAccessToken.                                          *)
(* Mutant: it clears whatever refresh is in progress by now.               *)
DoneAlways(d) == refreshing' = None

Done(d) == refreshing' = IF refreshing = d THEN None ELSE refreshing

(* Mutant: what was awaited is stored without another look.                *)
StillWantedAlways(d) == TRUE

StillWanted(d) == flight[d].gen = generation

RefreshAnswers(d) ==
  LET token == [ctx |-> flight[d].ctx, fresh |-> TRUE]
  IN /\ flight[d] # None
     /\ flight' = [flight EXCEPT ![d] = None]
     /\ Done(d)
     /\ \/ /\ StillWanted(d)
           /\ tokenCache' = token
           /\ \/ vault' = token /\ Settle(d, "token", token.ctx)
              \/ UNCHANGED vault /\ Settle(d, "refused", None)
        \/ UNCHANGED <<tokenCache, vault>> /\ Settle(d, "refused", None)
     /\ UNCHANGED <<generation, deviceGeneration, pendingDevice, activeScope,
                    previews, files, history>>

-----------------------------------------------------------------------------
(* activeStorageScope.  It is resolved when a tool call begins, and again  *)
(* whenever the call writes local state.                                   *)

Resolve(c, r) ==
  /\ GetAccessToken(c, [r EXCEPT !.need = "scope"])
  /\ UNCHANGED <<vault, generation, deviceGeneration, pendingDevice,
                 activeScope, previews, files, history>>

Begin(c) ==
  /\ call[c].pc = "idle"
  /\ Resolve(c, [Idle EXCEPT !.step = "open", !.gen = generation])

(* A tool that is not one of previewScopedTools.                           *)
BeginUnscoped(c) ==
  /\ call[c].pc = "idle"
  /\ Set(c, [Idle EXCEPT !.pc = "body", !.step = "read", !.gen = generation])
  /\ UNCHANGED <<auth, refreshing, flight, activeScope, previews, files, history>>

Joinable(ctx) ==
  /\ activeScope # None
  /\ activeScope.gen = generation
  /\ activeScope.ctx = ctx

ScopeKnown == activeScope.drive # None

(* The token is there: join the resolution in progress, or one that is     *)
(* done.                                                                   *)
JoinScope(c) ==
  /\ At(c, "token", "scope")
  /\ SameGeneration(c)
  /\ Current # None /\ Joinable(Current.ctx)
  /\ IF ScopeKnown
     THEN Set(c, [call[c] EXCEPT !.pc = "joined", !.using = None,
                    !.found = [ctx |-> activeScope.ctx, drive |-> activeScope.drive]])
     ELSE Set(c, [call[c] EXCEPT !.pc = "wait", !.using = None, !.via = activeScope.by])
  /\ UNCHANGED <<auth, refreshing, flight, activeScope, previews, files, history>>

(* Or begin one, with a Graph request for /me/drive.                       *)
StartScope(c) ==
  /\ At(c, "token", "scope")
  /\ SameGeneration(c)
  /\ Current # None /\ ~Joinable(Current.ctx)
  /\ activeScope' = [by |-> c, gen |-> generation, ctx |-> Current.ctx, drive |-> None]
  /\ GetAccessToken(c, [call[c] EXCEPT !.need = "drive", !.ctx = Current.ctx, !.using = None])
  /\ UNCHANGED <<vault, generation, deviceGeneration, pendingDevice, previews, files, history>>

(* The drive is known: the call that asked for it publishes the scope, and *)
(* those that wait for it go on.                                           *)
Joiners(c) == {d \in Call : call[d].pc = "wait" /\ call[d].via = c}

Publishable(c) ==
  /\ activeScope # None
  /\ activeScope.by = c /\ activeScope.drive = None
  /\ SameAccount(c)

(* The call goes on with the scope it found: as its storageScope when it   *)
(* begins, as the guard of a local write otherwise.                        *)
WithScope(r) ==
  IF r.step = "open"
  THEN [r EXCEPT !.pc = "body", !.step = "read", !.guard = r.found, !.found = None,
                 !.need = "none", !.ctx = None]
  ELSE [r EXCEPT !.pc = "commit", !.need = "none", !.ctx = None]

PublishScope(c) ==
  /\ call[c].pc = "publish"
  /\ activeScope' = IF Publishable(c)
                    THEN [activeScope EXCEPT !.drive = call[c].found.drive]
                    ELSE IF activeScope # None /\ activeScope.by = c THEN None
                    ELSE activeScope
  /\ call' = [d \in Call |->
                IF d = c
                THEN IF Publishable(c) THEN WithScope(call[c])
                     ELSE [call[c] EXCEPT !.pc = "refused", !.need = "scope", !.found = None]
                ELSE IF d \in Joiners(c)
                THEN [call[d] EXCEPT !.pc = "joined", !.via = None, !.found = call[c].found]
                ELSE call[d]]
  /\ UNCHANGED <<auth, refreshing, flight, previews, files, history>>

Joined(c) ==
  /\ call[c].pc = "joined"
  /\ IF ScopeHolds(c, call[c].found) THEN Set(c, WithScope(call[c]))
     ELSE Set(c, [call[c] EXCEPT !.pc = "refused", !.found = None])
  /\ UNCHANGED <<auth, refreshing, flight, activeScope, previews, files, history>>

-----------------------------------------------------------------------------
(* graph(): capture the account, get a token, look again, send, look again *)
(* at the answer.                                                          *)

(* graph() begins with the generation compared and the login read.         *)
Request(c, r) ==
  /\ SameGeneration(c)
  /\ Current # None
  /\ GetAccessToken(c, [r EXCEPT !.need = "graph", !.ctx = Current.ctx])

Send(c) ==
  /\ call[c].pc = "token" /\ call[c].need \in {"drive", "graph"}
  /\ Goto(c, IF SameAccount(c) THEN "fetch" ELSE "refused")
  /\ UNCHANGED <<auth, refreshing, flight, activeScope, previews, files, history>>

(* The step that follows an answered request, or a local write.            *)
After == [read |-> "save", save |-> "decide", mutate |-> "resave", resave |-> "end"]

Proceed(r) ==
  [r EXCEPT !.pc = "body", !.step = After[r.step], !.need = "none",
            !.ctx = None, !.using = None, !.found = None]

GraphAnswers(c) ==
  /\ call[c].pc = "fetch"
  /\ \/ Goto(c, "refused")
     \/ /\ SameAccount(c)
        /\ Set(c, IF call[c].need = "drive"
                  THEN [call[c] EXCEPT !.pc = "publish", !.using = None,
                          !.found = [ctx |-> call[c].ctx, drive |-> call[c].using]]
                  ELSE Proceed([call[c] EXCEPT !.item = call[c].using]))
  /\ UNCHANGED <<auth, refreshing, flight, activeScope, previews, files, history>>

-----------------------------------------------------------------------------
(* The body of a tool: read an item, keep it in the metadata cache, then   *)
(* preview a mutation, or confirm one that was previewed.                  *)

Read(c) ==
  /\ call[c].pc = "body" /\ call[c].step = "read"
  /\ Request(c, call[c])
  /\ UNCHANGED <<vault, generation, deviceGeneration, pendingDevice,
                 activeScope, previews, files, history>>

(* captureStorageScopeGuard.                                               *)
Save(c) ==
  /\ call[c].pc = "body" /\ call[c].step \in {"save", "resave"}
  /\ SameGeneration(c)
  /\ Resolve(c, call[c])

(* beforeCommit compares once more; the file is the one of the scope that  *)
(* was captured.                                                           *)
(* Mutant: the guard is not compared after the lock was awaited, and the   *)
(* file is looked up when it is written.                                   *)
CommitUnguarded(c) ==
  /\ call[c].pc = "commit"
  /\ files' = IF activeScope # None /\ activeScope.drive # None
              THEN [files EXCEPT ![activeScope.ctx] = @ \cup {call[c].item}]
              ELSE files
  /\ Set(c, Proceed(call[c]))
  /\ UNCHANGED <<auth, refreshing, flight, activeScope, previews, history>>

Commit(c) ==
  /\ call[c].pc = "commit"
  /\ files' = IF ScopeHolds(c, call[c].found)
              THEN [files EXCEPT ![call[c].found.ctx] = @ \cup {call[c].item}]
              ELSE files
  /\ Set(c, Proceed(call[c]))
  /\ UNCHANGED <<auth, refreshing, flight, activeScope, previews, history>>

(* A local write that cannot be made is a warning.                         *)
SkipSave(c) ==
  /\ call[c].step \in {"save", "resave"}
  /\ \/ call[c].pc \in {"body", "commit"}
     \/ At(c, "refused", "scope")
  /\ Set(c, Proceed(call[c]))
  /\ UNCHANGED <<auth, refreshing, flight, activeScope, previews, files, history>>

Preview(c) ==
  /\ call[c].pc = "body" /\ call[c].step = "decide"
  /\ SameGeneration(c)
  /\ call[c].guard # None
  /\ previews' = previews \cup {[scope |-> call[c].guard, gen |-> generation,
                                 item |-> call[c].item]}
  /\ Set(c, Idle)
  /\ UNCHANGED <<auth, refreshing, flight, activeScope, files, history>>

Confirms(c, p) ==
  /\ p.scope = call[c].guard
  /\ p.gen = generation
  /\ p.item = call[c].item

Confirm(c) ==
  /\ call[c].pc = "body" /\ call[c].step = "decide"
  /\ \E p \in previews :
       Confirms(c, p) /\ previews' = previews \ {p}
  /\ Request(c, [call[c] EXCEPT !.step = "mutate"])
  /\ UNCHANGED <<vault, generation, deviceGeneration, pendingDevice,
                 activeScope, files, history>>

(* A call may answer at any point of its body.                             *)
Finish(c) ==
  /\ call[c].pc = "body"
  /\ Set(c, Idle)
  /\ UNCHANGED <<auth, refreshing, flight, activeScope, previews, files, history>>

(* A preview token expires, or makes room for a newer one.                 *)
ForgetPreview ==
  /\ \E p \in previews : previews' = previews \ {p}
  /\ UNCHANGED <<auth, refreshing, flight, activeScope, files, call, history>>

(* Errors: an unanswered /me/drive ends the resolution for all who wait    *)
(* for it, any other error the call.                                       *)
(* Mutant: only the call that asked is told.                               *)
ScopeFailsAlone(c) ==
  /\ At(c, "refused", "drive")
  /\ activeScope' = IF activeScope # None /\ activeScope.by = c THEN None ELSE activeScope
  /\ Set(c, [call[c] EXCEPT !.need = "scope", !.ctx = None, !.using = None])
  /\ UNCHANGED <<auth, refreshing, flight, previews, files, history>>

ScopeFails(c) ==
  /\ At(c, "refused", "drive")
  /\ activeScope' = IF activeScope # None /\ activeScope.by = c THEN None ELSE activeScope
  /\ call' = [d \in Call |->
                IF d \in {c} \cup Joiners(c)
                THEN [call[d] EXCEPT !.pc = "refused", !.need = "scope", !.via = None,
                                     !.ctx = None, !.using = None]
                ELSE call[d]]
  /\ UNCHANGED <<auth, refreshing, flight, previews, files, history>>

Changed(c) ==
  /\ At(c, "token", "scope")
  /\ ~SameGeneration(c) \/ Current = None
  /\ Set(c, [call[c] EXCEPT !.pc = "refused", !.using = None])
  /\ UNCHANGED <<auth, refreshing, flight, activeScope, previews, files, history>>

Fail(c) ==
  /\ call[c].pc = "refused" /\ call[c].need # "drive"
  /\ call[c].step \notin {"save", "resave"}
  /\ Set(c, Idle)
  /\ UNCHANGED <<auth, refreshing, flight, activeScope, previews, files, history>>

-----------------------------------------------------------------------------
(* Device login and logout.                                                *)

(* invalidateActiveStorageScope.                                           *)
Invalidate == generation' = generation + 1 /\ activeScope' = None /\ previews' = {}

RequestDeviceCode(c) ==
  /\ deviceGeneration < MaxDevice
  /\ deviceGeneration' = deviceGeneration + 1
  /\ Set(c, [Idle EXCEPT !.pc = "device", !.step = "start", !.gen = generation,
                         !.dev = deviceGeneration + 1])
  /\ standing' = {}
  /\ UNCHANGED <<tokenCache, vault, generation, pendingDevice, refreshing,
                 flight, activeScope, previews, files, used, allowed, foreign>>

(* startDeviceLogin looks for a working credential first, unless it is     *)
(* told not to; it goes on when there is none or when it was rejected.     *)
StartDevice(c) ==
  /\ call[c].pc = "idle"
  /\ \/ RequestDeviceCode(c)
     \/ /\ GetAccessToken(c, [Idle EXCEPT !.step = "start", !.need = "start", !.gen = generation])
        /\ UNCHANGED <<vault, generation, deviceGeneration, pendingDevice,
                       activeScope, previews, files, history>>

AlreadyAuthenticated(c) ==
  /\ At(c, "token", "start")
  /\ Set(c, Idle)
  /\ UNCHANGED <<auth, refreshing, flight, activeScope, previews, files, history>>

CredentialRejected(c) == At(c, "refused", "start") /\ RequestDeviceCode(c)

DeviceCodeAnswers(c) ==
  /\ call[c].pc = "device"
  /\ Set(c, Idle)
  /\ pendingDevice' =
       IF SameGeneration(c) /\ call[c].dev = deviceGeneration
       THEN call[c].dev ELSE pendingDevice
  /\ UNCHANGED <<tokenCache, vault, generation, deviceGeneration, refreshing,
                 flight, activeScope, previews, files, history>>

(* The code polled is that of pendingDevice, or one the caller kept.       *)
StartPoll(c) ==
  /\ call[c].pc = "idle"
  /\ Set(c, [Idle EXCEPT !.pc = "poll", !.step = "poll", !.gen = generation,
               !.session = pendingDevice,
               !.dev = IF pendingDevice # None THEN pendingDevice ELSE deviceGeneration])
  /\ standing' = standing \cup {c}
  /\ UNCHANGED <<auth, refreshing, flight, activeScope, previews, files,
                 used, allowed, foreign>>

PollCurrent(c) ==
  /\ SameGeneration(c)
  /\ call[c].dev = deviceGeneration
  /\ call[c].session # None => pendingDevice = call[c].session

(* Nothing is granted, or it is too late.                                  *)
PollRefused(c) ==
  /\ call[c].pc = "poll"
  /\ Set(c, Idle)
  /\ standing' = standing \ {c}
  /\ UNCHANGED <<auth, refreshing, flight, activeScope, previews, files,
                 used, allowed, foreign>>

(* The new login is put in memory, then stored; a store that fails leaves  *)
(* it in memory, with the device login still pending.                      *)
LogIn(c, x) ==
  /\ call[c].pc = "poll"
  /\ x \notin used
  /\ PollCurrent(c)
  /\ generation < MaxGeneration
  /\ Invalidate
  /\ refreshing' = None
  /\ tokenCache' = [ctx |-> x, fresh |-> TRUE]
  /\ used' = used \cup {x}
  /\ \/ /\ vault' = tokenCache'
        /\ pendingDevice' = None
        /\ allowed' = IF c \in standing THEN {x} ELSE allowed
     \/ /\ UNCHANGED <<vault, pendingDevice>>
        /\ allowed' = IF c \in standing THEN allowed \cup {x} ELSE allowed
  /\ standing' = standing \ {c}
  /\ Set(c, Idle)
  /\ UNCHANGED <<deviceGeneration, flight, files, foreign>>

Logout(c) ==
  /\ call[c].pc = "idle"
  /\ generation < MaxGeneration /\ deviceGeneration < MaxDevice
  /\ Invalidate
  /\ deviceGeneration' = deviceGeneration + 1
  /\ tokenCache' = None /\ pendingDevice' = None
  /\ refreshing' = None
  /\ \/ vault' = None /\ allowed' = {}
     \/ UNCHANGED vault /\ allowed' = IF vault = None THEN {} ELSE {vault.ctx}
  /\ standing' = {}
  /\ UNCHANGED <<flight, files, call, used, foreign>>

-----------------------------------------------------------------------------
(* The surroundings.                                                       *)

Old(token) == IF token = None THEN None ELSE [token EXCEPT !.fresh = FALSE]

(* An hour passes.                                                         *)
Expire ==
  /\ tokenCache' = Old(tokenCache) /\ vault' = Old(vault)
  /\ UNCHANGED <<generation, deviceGeneration, pendingDevice, refreshing, flight,
                 activeScope, previews, files, call, history>>

(* Another process of the server, on the same storage, logs in or out.     *)
Foreign ==
  /\ foreign < MaxForeign
  /\ foreign' = foreign + 1
  /\ \/ \E x \in Context \ used, b \in BOOLEAN :
          /\ vault' = [ctx |-> x, fresh |-> b]
          /\ used' = used \cup {x}
          /\ allowed' = allowed \cup {x}
     \/ vault' = None /\ UNCHANGED <<used, allowed>>
  /\ UNCHANGED <<tokenCache, generation, deviceGeneration, pendingDevice, refreshing,
                 flight, activeScope, previews, files, call, standing>>

Restart ==
  /\ tokenCache' = None /\ generation' = 0 /\ deviceGeneration' = 0
  /\ pendingDevice' = None /\ refreshing' = None
  /\ flight' = [c \in Call |-> None]
  /\ activeScope' = None /\ previews' = {}
  /\ call' = [c \in Call |-> Idle]
  /\ allowed' = IF vault = None THEN {} ELSE {vault.ctx}
  /\ standing' = {}
  /\ UNCHANGED <<vault, files, used, foreign>>

Init ==
  /\ tokenCache = None
  /\ vault \in {None} \cup Token
  /\ generation = 0 /\ deviceGeneration = 0 /\ pendingDevice = None
  /\ refreshing = None /\ flight = [c \in Call |-> None]
  /\ activeScope = None /\ previews = {}
  /\ files = [x \in Context |-> {}]
  /\ call = [c \in Call |-> Idle]
  /\ used = IF vault = None THEN {} ELSE {vault.ctx}
  /\ allowed = used
  /\ standing = {} /\ foreign = 0

(* What a call does once it is under way.                                  *)
CallStep(c) ==
  \/ RefreshAnswers(c)
  \/ JoinScope(c) \/ StartScope(c) \/ PublishScope(c) \/ Joined(c)
  \/ Send(c) \/ GraphAnswers(c)
  \/ Read(c) \/ Save(c) \/ Commit(c) \/ SkipSave(c)
  \/ Preview(c) \/ Confirm(c) \/ Finish(c)
  \/ ScopeFails(c) \/ Changed(c) \/ Fail(c)
  \/ AlreadyAuthenticated(c) \/ CredentialRejected(c) \/ DeviceCodeAnswers(c)
  \/ PollRefused(c) \/ \E x \in Context : LogIn(c, x)

Next ==
  \/ \E c \in Call :
       Begin(c) \/ BeginUnscoped(c) \/ StartDevice(c) \/ StartPoll(c) \/ Logout(c) \/ CallStep(c)
  \/ ForgetPreview \/ Expire \/ Foreign \/ Restart

Spec == Init /\ [][Next]_vars

(* Every fetch has a deadline (REQUEST_TIMEOUT_MS) and every promise is    *)
(* settled, so a call that is under way goes on.  Nothing makes a user     *)
(* call a tool.                                                            *)
FairSpec == Spec /\ \A c \in Call : WF_vars(CallStep(c))

-----------------------------------------------------------------------------
(* Properties.                                                             *)

Optional(S) == S \cup {None}

TypeOK ==
  /\ tokenCache \in Optional(Token) /\ vault \in Optional(Token)
  /\ generation \in 0..MaxGeneration /\ deviceGeneration \in 0..MaxDevice
  /\ pendingDevice \in Optional(1..MaxDevice)
  /\ refreshing \in Optional(Call)
  /\ flight \in [Call -> Optional([ctx : Context, gen : 0..MaxGeneration])]
  /\ activeScope \in Optional([by : Call, gen : 0..MaxGeneration, ctx : Context,
                               drive : Optional(Context)])
  /\ previews \subseteq [scope : Scope, gen : 0..MaxGeneration, item : Context]
  /\ files \in [Context -> SUBSET Context]
  /\ call \in [Call ->
       [pc : {"idle", "token", "refresh", "refused", "wait", "joined", "publish",
              "fetch", "body", "commit", "device", "poll"},
        step : {"none", "open", "read", "save", "decide", "mutate", "resave", "end",
                "start", "poll"},
        need : {"none", "scope", "drive", "graph", "start"},
        gen : 0..MaxGeneration, ctx : Optional(Context), using : Optional(Context),
        via : Optional(Call), found : Optional(Scope), guard : Optional(Scope),
        item : Optional(Context), dev : Optional(0..MaxDevice),
        session : Optional(1..MaxDevice)]]
  /\ allowed \subseteq used /\ used \subseteq Context
  /\ standing \subseteq Call
  /\ foreign \in 0..MaxForeign

(* A credential is stored only for the login the user made last: a refresh *)
(* or a device login that is answered after a logout or after another      *)
(* login stores nothing.                                                   *)
LateAuthNotPersisted == vault # None => vault.ctx \in allowed

(* The local files of a login hold data of that login only.                *)
LocalStateIsolated == \A x \in Context : files[x] \subseteq {x}

(* A confirmed mutation goes out while the login its preview was made      *)
(* under is the current one, and with a token of that login.               *)
Mutating(c) == At(c, "fetch", "graph") /\ call[c].step = "mutate"
MutationsStayWithPreview ==
  [][\A c \in Call : ~Mutating(c) /\ Mutating(c)' =>
       /\ CurrentIs(call[c].guard.ctx)
       /\ call'[c].using = call[c].guard.ctx]_vars

(* Every tool call is answered: none is left waiting for a refresh or for  *)
(* a scope that another call has given up.                                 *)
CallsEnd == \A c \in Call : call[c].pc # "idle" ~> call[c].pc = "idle"

(* At most one refresh of the current generation is in flight.             *)
RefreshCoalesces ==
  Cardinality({c \in Call : flight[c] # None /\ flight[c].gen = generation}) <= 1

=============================================================================
