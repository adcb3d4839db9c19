---------------------------- MODULE RefreshVault ----------------------------
(***************************************************************************)
(* The durable store of the OAuth compatibility server, and the requests   *)
(* that use it: mcp/oauth-compat-server.mjs, class RefreshHandleVault and  *)
(* the handlers of /authorize, /callback and /token in public-client mode. *)
(*                                                                         *)
(* The vault keeps one state twice: mem (this.state) and disk (the store   *)
(* file).  Every mutation runs alone (serializeMutation), so an operation  *)
(* of the vault is one step here; a token request is several steps, with   *)
(* the provider's answer awaited between consuming what the client         *)
(* presented and issuing its successor.  A write may fail before or after  *)
(* its rename, and the process may be restarted between any two steps.     *)
(*                                                                         *)
(* A refresh handle, a facade code and an upstream state stand for their   *)
(* own hashes; ciphertexts and sizes in bytes are left out (a write        *)
(* refused for its size is one of the writes that fail before the rename). *)
(***************************************************************************)
EXTENDS Naturals, FiniteSets

CONSTANTS
  Auth,       \* upstream states minted by /authorize
  Code,       \* facade authorization codes
  FamilyId,   \* refresh families
  Handle,     \* refresh handles
  Request,    \* concurrent POSTs to /token
  None,       \* "no value", outside every set above
  MaxEntries, MaxFamilies, MaxAuthorizations, MaxCodes,     \* store limits
  AuthorizationAdmissionLimit, CodeAdmissionLimit,          \* route limits
  RefreshTtl, AuthorizationTtl, CodeTtl,                    \* lifetimes
  TokenConcurrency,                                         \* token slots
  MaxTime     \* bound on the clock

Grant == Code \cup Handle   \* what a token request presents

ASSUME SetsAssumption ==
  /\ \A S \in {Auth, Code, FamilyId, Handle, Request} :
       IsFiniteSet(S) /\ None \notin S
  /\ Code \cap Handle = {}

ASSUME LimitsAssumption ==
  /\ MaxEntries \in Nat /\ MaxFamilies \in Nat
  /\ MaxAuthorizations \in Nat /\ MaxCodes \in Nat
  /\ AuthorizationAdmissionLimit \in Nat /\ CodeAdmissionLimit \in Nat
  /\ AuthorizationAdmissionLimit < MaxAuthorizations
  /\ CodeAdmissionLimit < MaxCodes
  /\ RefreshTtl \in Nat \ {0} /\ AuthorizationTtl \in Nat \ {0}
  /\ CodeTtl \in Nat \ {0}
  /\ TokenConcurrency \in Nat \ {0}
  /\ MaxTime \in Nat

VARIABLES
  now,        \* the clock the store reads
  mem, disk,  \* this.state and the content of the store file
  req,        \* the token requests in flight
  slots,      \* token slots taken
  (* History: what clients were told and what the provider was asked.      *)
  generated,  \* every random value ever drawn
  origin,     \* the authorization each facade code was minted from
  spent,      \* the codes and handles exchanged with the provider
  receipt,    \* what a client was told with each handle it received
  presented,  \* the handles some request presented
  replay      \* per family, whether a replay was detected and made durable

history == <<generated, origin, spent, receipt, presented, replay>>
vars == <<now, mem, disk, req, slots, generated, origin, spent, receipt,
          presented, replay>>

-----------------------------------------------------------------------------
(* The store.  validateState requires an entry to carry its family's       *)
(* expiresAt, so the family alone keeps it here.                           *)

Family == [status : {"absent", "open", "revoked"}, expiresAt : Nat]
Entry == [status : {"absent", "active", "consumed", "revoked"},
          family : FamilyId \cup {None}]
Record == [status : {"absent", "active", "consumed"}, expiresAt : Nat]

Store == [fam : [FamilyId -> Family], ent : [Handle -> Entry],
          auth : [Auth -> Record], code : [Code -> Record]]

NoFamily == [status |-> "absent", expiresAt |-> 0]
NoEntry == [status |-> "absent", family |-> None]
NoRecord == [status |-> "absent", expiresAt |-> 0]

RefreshStoreState ==
  [fam |-> [f \in FamilyId |-> NoFamily], ent |-> [h \in Handle |-> NoEntry],
   auth |-> [a \in Auth |-> NoRecord], code |-> [c \in Code |-> NoRecord]]

Families(s) == {f \in FamilyId : s.fam[f].status # "absent"}
Entries(s) == {h \in Handle : s.ent[h].status # "absent"}
Authorizations(s) == {a \in Auth : s.auth[a].status # "absent"}
Codes(s) == {c \in Code : s.code[c].status # "absent"}

ActiveIn(s, f) ==
  {h \in Handle : s.ent[h].status = "active" /\ s.ent[h].family = f}

StoreBoundsValid(s) ==
  /\ Cardinality(Entries(s)) <= MaxEntries
  /\ Cardinality(Families(s)) <= MaxFamilies
  /\ Cardinality(Authorizations(s)) <= MaxAuthorizations
  /\ Cardinality(Codes(s)) <= MaxCodes

(* What the store file must satisfy for the server to start.               *)
ValidateState(s) ==
  /\ StoreBoundsValid(s)
  /\ \A f \in Families(s) : s.fam[f].expiresAt >= 1
  /\ \A h \in Entries(s) : s.ent[h].family \in Families(s)
  /\ \A f \in FamilyId : ActiveIn(s, f) # {} => s.fam[f].status = "open"
  /\ \A a \in Authorizations(s) : s.auth[a].expiresAt >= 1
  /\ \A c \in Codes(s) : s.code[c].expiresAt >= 1

LiveFamilies(s) == {f \in Families(s) : s.fam[f].expiresAt > now}

CleanupExpired(s) ==
  [fam |-> [f \in FamilyId |->
              IF f \in LiveFamilies(s) THEN s.fam[f] ELSE NoFamily],
   ent |-> [h \in Handle |->
              IF s.ent[h].family \in LiveFamilies(s) THEN s.ent[h] ELSE NoEntry],
   auth |-> [a \in Auth |->
               IF s.auth[a].expiresAt > now THEN s.auth[a] ELSE NoRecord],
   code |-> [c \in Code |->
               IF s.code[c].expiresAt > now THEN s.code[c] ELSE NoRecord]]

(* The changes the operations make to a store.                             *)
PushAuthorization(s, a) ==
  [s EXCEPT !.auth[a] = [status |-> "active", expiresAt |-> now + AuthorizationTtl]]
PushCode(s, c) ==
  [s EXCEPT !.code[c] = [status |-> "active", expiresAt |-> now + CodeTtl]]
PushFamily(s, f) ==
  [s EXCEPT !.fam[f] = [status |-> "open", expiresAt |-> now + RefreshTtl]]
PushEntry(s, f, h) ==
  [s EXCEPT !.ent[h] = [status |-> "active", family |-> f]]

Consumed(x) == [x EXCEPT !.status = "consumed"]

(* Mutant: the transaction stays active when its code is minted.           *)
LeftAuthorization(s, a) == s

ConsumedAuthorization(s, a) == [s EXCEPT !.auth[a] = Consumed(s.auth[a])]
ConsumedCode(s, c) == [s EXCEPT !.code[c] = Consumed(s.code[c])]
ConsumedEntry(s, h) == [s EXCEPT !.ent[h] = Consumed(s.ent[h])]

(* Mutant: the family is closed, its active descendants are forgotten.     *)
RevokedFamilyOnly(s, f) == [s EXCEPT !.fam[f].status = "revoked"]

RevokedFamily(s, f) ==
  [s EXCEPT
     !.fam[f] = [status |-> "revoked", expiresAt |-> s.fam[f].expiresAt],
     !.ent = [h \in Handle |->
                IF h \in ActiveIn(s, f)
                THEN [status |-> "revoked", family |-> f]
                ELSE s.ent[h]]]

(* atomicWrite(s): temporary file, fsync, rename, chmod, directory fsync.  *)
(* It succeeds, or it throws with the file as it was, or it throws after   *)
(* the rename, when the file already holds s.                              *)
AtomicWrite(s) == StoreBoundsValid(s) /\ disk' = s
AtomicWriteFails(s) == disk' = disk \/ (StoreBoundsValid(s) /\ disk' = s)

(* The two ways operations use atomicWrite: on a clone published only      *)
(* after the write, or on this.state itself, changed before the write.     *)
CommitClone(s) == AtomicWrite(s) /\ mem' = s
CloneFails(s) == AtomicWriteFails(s) /\ mem' = mem
(* Mutant: success is reported without waiting for the write.              *)
CommitInPlaceUnwaited(s) == mem' = s /\ AtomicWriteFails(s)

CommitInPlace(s) == mem' = s /\ AtomicWrite(s)
InPlaceFails(s) == mem' = s /\ AtomicWriteFails(s)

(* if (changed) this.atomicWrite(...) on the way to an error: the request  *)
(* fails alike whether this write succeeds or not.                         *)
SaveCleanedClone(s) ==
  IF s = mem THEN UNCHANGED <<mem, disk>> ELSE CommitClone(s) \/ CloneFails(s)
SaveCleanedInPlace(s) ==
  IF s = mem THEN UNCHANGED <<mem, disk>> ELSE InPlaceFails(s)

-----------------------------------------------------------------------------
(* /authorize and /callback.                                               *)

BeginAuthorization(a) ==
  LET s == CleanupExpired(mem)
      s1 == PushAuthorization(s, a)
  IN /\ a \notin generated
     /\ Cardinality(Authorizations(s)) < AuthorizationAdmissionLimit
     /\ CommitClone(s1) \/ CloneFails(s1)
     /\ generated' = generated \cup {a}
     /\ UNCHANGED <<now, req, slots, origin, spent, receipt, presented, replay>>

(* The state is unknown, consumed or expired.                              *)
RejectCallback(a) ==
  LET s == CleanupExpired(mem)
  IN /\ s.auth[a].status # "active"
     /\ SaveCleanedClone(s)
     /\ UNCHANGED <<now, req, slots, history>>

(* The provider redirected with an error: the transaction is consumed and  *)
(* no code is minted.                                                      *)
ConsumeAuthorizationError(a) ==
  LET s == CleanupExpired(mem)
      s1 == ConsumedAuthorization(s, a)
  IN /\ s.auth[a].status = "active"
     /\ CommitClone(s1) \/ CloneFails(s1)
     /\ UNCHANGED <<now, req, slots, history>>

ConsumeAuthorization(a, c) ==
  LET s == CleanupExpired(mem)
      s1 == PushCode(ConsumedAuthorization(s, a), c)
  IN /\ s.auth[a].status = "active"
     /\ c \notin generated
     /\ Cardinality(Codes(s)) < CodeAdmissionLimit
     /\ CommitClone(s1) \/ CloneFails(s1)
     /\ generated' = generated \cup {c}
     /\ origin' = [origin EXCEPT ![c] = a]
     /\ UNCHANGED <<now, req, slots, spent, receipt, presented, replay>>

-----------------------------------------------------------------------------
(* /token.  A request takes a slot, reads its form, consumes the code or   *)
(* handle it presents, awaits the provider, issues a handle, and gives the *)
(* slot back whatever happened.                                            *)

Idle == [pc |-> "idle", grant |-> None, family |-> None]
Exchanging(g, f) == [pc |-> "upstream", grant |-> g, family |-> f]
InFlight(r) == req[r].pc = "upstream"

SlotFree == slots < TokenConcurrency

AcquireTokenSlot(r) ==
  /\ req[r].pc = "idle"
  /\ SlotFree
  /\ slots' = slots + 1
  /\ req' = [req EXCEPT ![r].pc = "parsing"]
  /\ UNCHANGED <<now, mem, disk, history>>

(* Mutant: an exit path misses the finally that gives the slot back.       *)
FinishKeepsSlot(r) == req' = [req EXCEPT ![r] = Idle] /\ UNCHANGED slots

(* Mutant: the slot is given back in the error path and in the finally,    *)
(* and the release does not remember that it ran.                          *)
FinishReleasesTwice(r) == req' = [req EXCEPT ![r] = Idle] /\ slots' = slots - 2

Finish(r) == req' = [req EXCEPT ![r] = Idle] /\ slots' = slots - 1

(* The form, its parameters or the rate limit are refused.                 *)
RejectToken(r) ==
  /\ req[r].pc = "parsing"
  /\ Finish(r)
  /\ UNCHANGED <<now, mem, disk, history>>

(* The code is unknown, consumed or expired.                               *)
RejectCode(r, c) ==
  LET s == CleanupExpired(mem)
  IN /\ req[r].pc = "parsing"
     /\ s.code[c].status # "active"
     /\ SaveCleanedClone(s)
     /\ Finish(r)
     /\ UNCHANGED <<now, history>>

(* The code is consumed durably, then its PKCE verifier is checked: a      *)
(* request with the wrong one ends here, with the code consumed.           *)
ConsumeAuthorizationCode(r, c) ==
  LET s1 == ConsumedCode(CleanupExpired(mem), c)
  IN /\ req[r].pc = "parsing"
     /\ CleanupExpired(mem).code[c].status = "active"
     /\ CommitClone(s1)
     /\ \/ /\ req' = [req EXCEPT ![r] = Exchanging(c, None)]
           /\ spent' = spent \cup {c}
           /\ UNCHANGED slots
        \/ Finish(r) /\ UNCHANGED spent
     /\ UNCHANGED <<now, generated, origin, receipt, presented, replay>>

ConsumeCodeWriteFails(r, c) ==
  LET s1 == ConsumedCode(CleanupExpired(mem), c)
  IN /\ req[r].pc = "parsing"
     /\ CleanupExpired(mem).code[c].status = "active"
     /\ CloneFails(s1)
     /\ Finish(r)
     /\ UNCHANGED <<now, history>>

(* A handle that can be exchanged, one that was consumed already in a      *)
(* family still open, and every other one.                                 *)
(* Mutant: a consumed handle is accepted again.                            *)
UsableTwice(s, h) ==
  /\ s.ent[h].status \in {"active", "consumed"}
  /\ s.fam[s.ent[h].family].status = "open"

Usable(s, h) ==
  /\ s.ent[h].status = "active"
  /\ s.fam[s.ent[h].family].status = "open"
Reused(s, h) ==
  /\ s.ent[h].status = "consumed"
  /\ s.fam[s.ent[h].family].status = "open"

(* A string no handle was ever generated from is not a handle.             *)
Present(h) == presented' = presented \cup ({h} \cap generated)

RejectHandle(r, h) ==
  LET s == CleanupExpired(mem)
  IN /\ req[r].pc = "parsing"
     /\ ~Usable(s, h) /\ ~Reused(s, h)
     /\ SaveCleanedInPlace(s)
     /\ Finish(r)
     /\ Present(h)
     /\ UNCHANGED <<now, generated, origin, spent, receipt, replay>>

(* Reuse detection: the whole family is revoked, in memory first.          *)
ConsumeReused(r, h) ==
  LET s == CleanupExpired(mem)
      f == s.ent[h].family
      s1 == RevokedFamily(s, f)
  IN /\ req[r].pc = "parsing"
     /\ Reused(s, h)
     /\ InPlaceFails(s1)
     /\ replay' = [replay EXCEPT
                     ![f] = IF disk' = s1 THEN "durable" ELSE "detected"]
     /\ Finish(r)
     /\ Present(h)
     /\ UNCHANGED <<now, generated, origin, spent, receipt>>

Consume(r, h) ==
  LET s == CleanupExpired(mem)
  IN /\ req[r].pc = "parsing"
     /\ Usable(s, h)
     /\ CommitInPlace(ConsumedEntry(s, h))
     /\ req' = [req EXCEPT ![r] = Exchanging(h, s.ent[h].family)]
     /\ spent' = spent \cup {h}
     /\ Present(h)
     /\ UNCHANGED <<now, slots, generated, origin, receipt, replay>>

(* The write fails: nothing is sent, yet memory has the handle consumed.   *)
ConsumeWriteFails(r, h) ==
  LET s == CleanupExpired(mem)
  IN /\ req[r].pc = "parsing"
     /\ Usable(s, h)
     /\ InPlaceFails(ConsumedEntry(s, h))
     /\ Finish(r)
     /\ Present(h)
     /\ UNCHANGED <<now, generated, origin, spent, receipt, replay>>

(* The provider is unreachable, times out, refuses, or its answer is       *)
(* invalid.                                                                *)
UpstreamFails(r) ==
  /\ InFlight(r)
  /\ Finish(r)
  /\ UNCHANGED <<now, mem, disk, history>>

Deliver(r, s, f, h) ==
  receipt' = [receipt EXCEPT ![h] =
                [source |-> req[r].grant, family |-> f,
                 expiresAt |-> s.fam[f].expiresAt]]

AtCapacity(s, newFamily) ==
  \/ Cardinality(Entries(s)) >= MaxEntries
  \/ newFamily /\ Cardinality(Families(s)) >= MaxFamilies

(* issueInitial, the provider having answered a code exchange.             *)
IssueInitial(r, f, h) ==
  LET s == CleanupExpired(mem)
      s1 == PushEntry(PushFamily(s, f), f, h)
  IN /\ InFlight(r) /\ req[r].family = None
     /\ {f, h} \cap generated = {}
     /\ ~AtCapacity(s, TRUE)
     /\ CommitInPlace(s1)
     /\ generated' = generated \cup {f, h}
     /\ Deliver(r, s1, f, h)
     /\ Finish(r)
     /\ UNCHANGED <<now, origin, spent, presented, replay>>

(* The write fails: family and entry are popped.  If the cleanup had       *)
(* changed the state, it is read again from the file, which may fail too.  *)
IssueInitialWriteFails(r, f, h) ==
  LET s == CleanupExpired(mem)
      s1 == PushEntry(PushFamily(s, f), f, h)
  IN /\ InFlight(r) /\ req[r].family = None
     /\ {f, h} \cap generated = {}
     /\ ~AtCapacity(s, TRUE)
     /\ \E d \in {disk} \cup {x \in {s1} : StoreBoundsValid(x)} :
          \/ mem' = s /\ disk' = d
          \/ /\ s # mem
             /\ mem' = CleanupExpired(d) /\ disk' = CleanupExpired(d)
          \/ /\ s # mem
             /\ mem' = s /\ disk' = CleanupExpired(d)
     /\ generated' = generated \cup {f, h}
     /\ Finish(r)
     /\ UNCHANGED <<now, origin, spent, receipt, presented, replay>>

IssueInitialAtCapacity(r) ==
  LET s == CleanupExpired(mem)
  IN /\ InFlight(r) /\ req[r].family = None
     /\ AtCapacity(s, TRUE)
     /\ mem' = s
     /\ Finish(r)
     /\ UNCHANGED <<now, disk, history>>

(* Mutant: the family is not looked at again after the provider's answer.  *)
StillKnown(s, f) == s.fam[f].status # "absent"

StillOpen(s, f) == s.fam[f].status = "open"

(* issueRotated, the provider having answered a refresh.  The family is    *)
(* checked again: it may have been revoked or expired meanwhile.           *)
IssueRotated(r, h) ==
  LET s == CleanupExpired(mem)
      f == req[r].family
      s1 == PushEntry(s, f, h)
  IN /\ InFlight(r) /\ f # None
     /\ h \notin generated
     /\ StillOpen(s, f)
     /\ ~AtCapacity(s, FALSE)
     /\ CommitInPlace(s1)
     /\ generated' = generated \cup {h}
     /\ Deliver(r, s1, f, h)
     /\ Finish(r)
     /\ UNCHANGED <<now, origin, spent, presented, replay>>

IssueRotatedWriteFails(r, h) ==
  LET s == CleanupExpired(mem)
      f == req[r].family
  IN /\ InFlight(r) /\ f # None
     /\ h \notin generated
     /\ StillOpen(s, f)
     /\ ~AtCapacity(s, FALSE)
     /\ mem' = s
     /\ AtomicWriteFails(PushEntry(s, f, h))
     /\ generated' = generated \cup {h}
     /\ Finish(r)
     /\ UNCHANGED <<now, origin, spent, receipt, presented, replay>>

(* The family is gone or revoked, or the store is full.                    *)
IssueRotatedRefused(r) ==
  LET s == CleanupExpired(mem)
      f == req[r].family
  IN /\ InFlight(r) /\ f # None
     /\ ~StillOpen(s, f) \/ AtCapacity(s, FALSE)
     /\ mem' = s
     /\ Finish(r)
     /\ UNCHANGED <<now, disk, history>>

-----------------------------------------------------------------------------
(* The process ends, whatever its requests were waiting for, and starts    *)
(* again: loadOrInitialize refuses a file that is not valid, and writes    *)
(* what it cleaned before the server listens.                              *)
Restart ==
  /\ ValidateState(disk)
  /\ mem' = CleanupExpired(disk)
  /\ disk' = CleanupExpired(disk)
  /\ req' = [r \in Request |-> Idle]
  /\ slots' = 0
  /\ UNCHANGED <<now, history>>

Tick == now < MaxTime /\ now' = now + 1 /\ UNCHANGED <<mem, disk, req, slots, history>>

Init ==
  /\ now = 1
  /\ mem = RefreshStoreState /\ disk = RefreshStoreState
  /\ req = [r \in Request |-> Idle]
  /\ slots = 0
  /\ generated = {} /\ spent = {} /\ presented = {}
  /\ origin = [c \in Code |-> None]
  /\ receipt = [h \in Handle |-> [source |-> None, family |-> None, expiresAt |-> 0]]
  /\ replay = [f \in FamilyId |-> "none"]

AuthorizationStep ==
  \E a \in Auth :
    \/ BeginAuthorization(a)
    \/ RejectCallback(a)
    \/ ConsumeAuthorizationError(a)
    \/ \E c \in Code : ConsumeAuthorization(a, c)

(* What the server itself does for a request it has accepted.              *)
ParseStep(r) ==
  \/ RejectToken(r)
  \/ \E c \in Code : \/ RejectCode(r, c)
                     \/ ConsumeAuthorizationCode(r, c)
                     \/ ConsumeCodeWriteFails(r, c)
  \/ \E h \in Handle : \/ RejectHandle(r, h)
                       \/ ConsumeReused(r, h)
                       \/ Consume(r, h)
                       \/ ConsumeWriteFails(r, h)

UpstreamStep(r) ==
  \/ UpstreamFails(r)
  \/ IssueInitialAtCapacity(r)
  \/ IssueRotatedRefused(r)
  \/ \E h \in Handle : IssueRotated(r, h) \/ IssueRotatedWriteFails(r, h)
  \/ \E f \in FamilyId, h \in Handle :
       IssueInitial(r, f, h) \/ IssueInitialWriteFails(r, f, h)

TokenStep(r) == ParseStep(r) \/ UpstreamStep(r)

Next ==
  \/ Tick
  \/ Restart
  \/ AuthorizationStep
  \/ \E r \in Request : AcquireTokenSlot(r) \/ TokenStep(r)

Spec == Init /\ [][Next]_vars

(* A form is read under the server's request timeout and the provider is   *)
(* asked under UPSTREAM_TIMEOUT_MS, so an accepted request always goes on. *)
FairSpec == Spec /\ \A r \in Request : WF_vars(TokenStep(r))

(* The abstract promise: GrantChain, with each handle's source taken from  *)
(* the receipt its client was given.                                       *)
Chain == INSTANCE GrantChain WITH source <- [h \in Handle |-> receipt[h].source]

-----------------------------------------------------------------------------
(* Properties.                                                             *)

Delivered == {h \in Handle : receipt[h].source # None}

(* Type invariant; the slots taken never exceed the limit of               *)
(* createConcurrencyLimiter.                                               *)
TypeOK ==
  /\ now \in Nat
  /\ mem \in Store /\ disk \in Store
  /\ req \in [Request -> [pc : {"idle", "parsing", "upstream"},
                          grant : Grant \cup {None},
                          family : FamilyId \cup {None}]]
  /\ slots \in 0..TokenConcurrency
  /\ generated \subseteq Auth \cup Code \cup FamilyId \cup Handle
  /\ origin \in [Code -> Auth \cup {None}]
  /\ spent \subseteq Grant
  /\ receipt \in [Handle -> [source : Grant \cup {None},
                             family : FamilyId \cup {None}, expiresAt : Nat]]
  /\ presented \subseteq Handle
  /\ replay \in [FamilyId -> {"none", "detected", "durable"}]

(* Whatever was written, and however writes failed, the store file is one  *)
(* that validateState accepts: the server can always be started again.     *)
StoreLoadable == ValidateState(disk)

(* A code or a handle is exchanged with the provider at most once, across  *)
(* failed writes, reloads and restarts.                                    *)
ExchangedOnce ==
  [][\A r \in Request :
       ~InFlight(r) /\ InFlight(r)' => req'[r].grant \notin spent]_vars

(* A family has one live credential: an active handle, in memory or in the *)
(* file a restart would load, or one exchange in flight, never two.        *)
OneLiveCredential ==
  /\ \A s \in {mem, disk} : \A h1, h2 \in Handle :
       /\ s.ent[h1].status = "active" /\ s.ent[h2].status = "active"
       /\ s.ent[h1].family = s.ent[h2].family
       => h1 = h2
  /\ \A s \in {mem, disk} : \A r \in Request, h \in Handle :
       InFlight(r) /\ s.ent[h].status = "active" =>
         s.ent[h].family # req[r].family
  /\ \A r1, r2 \in Request :
       /\ InFlight(r1) /\ InFlight(r2)
       /\ req[r1].family = req[r2].family /\ req[r1].family # None
       => r1 = r2

(* A handle a client received, did not present, in a family in which no    *)
(* replay was detected, is active in memory and in the file until it       *)
(* expires: no other request, failed write or restart loses a session.     *)
DeliveredHandleSurvives ==
  \A h \in Delivered \ presented :
    (replay[receipt[h].family] = "none" /\ now < receipt[h].expiresAt)
    => \A s \in {mem, disk} : h \in ActiveIn(s, receipt[h].family)

(* Once the revocation of a replayed family is on disk, no handle of that  *)
(* family is ever active again, not even one whose exchange was in flight. *)
DurableRevocationIsFinal ==
  \A f \in FamilyId : replay[f] = "durable" =>
    ActiveIn(mem, f) = {} /\ ActiveIn(disk, f) = {}

(* One consent at the provider becomes at most one exchanged code, however *)
(* often its callback is retried after a failed write or a restart.        *)
AuthorizationExchangedOnce ==
  \A c1, c2 \in spent \cap Code : origin[c1] = origin[c2] => c1 = c2

(* The store implements GrantChain: the handles clients receive form       *)
(* chains, each link the one successor of a credential spent once.         *)
ImplementsGrantChain == Chain!Spec

(* The token endpoint never wedges: when every slot is taken, one comes    *)
(* back.                                                                   *)
SlotsComeBack == (slots = TokenConcurrency) ~> (slots < TokenConcurrency)

(* What the test "refresh-handle replay revokes every active descendant in *)
(* its family" says, of every replay the server detected.                  *)
ReplayRevokesDescendants ==
  \A f \in FamilyId : replay[f] # "none" => ActiveIn(mem, f) = {}

=============================================================================
