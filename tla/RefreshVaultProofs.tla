------------------------- MODULE RefreshVaultProofs -------------------------
(***************************************************************************)
(* Theorems about RefreshVault, for every number of authorizations, codes, *)
(* families, handles and concurrent requests, and every limit and lifetime.*)
(*                                                                         *)
(* The invariant speaks of each of the two stores by itself: whichever of  *)
(* mem and disk a step reads, and wherever a failed write or a restart     *)
(* leaves it, the store is Good with respect to the history.  So a step    *)
(* has to be examined once per store it can leave behind, not once per     *)
(* interleaving.                                                           *)
(***************************************************************************)
EXTENDS RefreshVault, FiniteSetTheorems, TLAPS

Requests == [Request -> [pc : {"idle", "parsing", "upstream"},
                         grant : Grant \cup {None},
                         family : FamilyId \cup {None}]]
Replays == [FamilyId -> {"none", "detected", "durable"}]

(* Every reference inside a store has its target, every value was          *)
(* generated, and an active handle is in an open family: what              *)
(* validateState asks, but for the bounds.                                 *)
Linked(s, G) ==
  /\ \A f \in FamilyId :
       s.fam[f].status # "absent" => f \in G /\ s.fam[f].expiresAt >= 1
  /\ \A h \in Handle :
       s.ent[h].status # "absent" =>
         /\ h \in G
         /\ s.ent[h].family \in FamilyId
         /\ s.fam[s.ent[h].family].status # "absent"
  /\ \A h \in Handle :
       s.ent[h].status = "active" => s.fam[s.ent[h].family].status = "open"
  /\ \A a \in Auth : s.auth[a].status # "absent" => s.auth[a].expiresAt >= 1
  /\ \A c \in Code :
       s.code[c].status # "absent" => c \in G /\ s.code[c].expiresAt >= 1

(* A spent credential is active nowhere.                                   *)
SpentInert(s, S) ==
  /\ \A h \in Handle \cap S : s.ent[h].status # "active"
  /\ \A c \in Code \cap S : s.code[c].status # "active"

(* A family has at most one active handle, and none while an exchange of   *)
(* it is in flight.                                                        *)
OneActive(s, R) ==
  /\ \A h1, h2 \in Handle :
       /\ s.ent[h1].status = "active" /\ s.ent[h2].status = "active"
       /\ s.ent[h1].family = s.ent[h2].family
       => h1 = h2
  /\ \A r \in Request, h \in Handle :
       R[r].pc = "upstream" /\ s.ent[h].status = "active" =>
         s.ent[h].family # R[r].family

(* A family whose revocation is durable is open nowhere.                   *)
DurableClosed(s, P) ==
  \A f \in FamilyId : P[f] = "durable" => s.fam[f].status # "open"

Good(s, G, S, R, P) ==
  /\ s \in Store
  /\ Linked(s, G)
  /\ SpentInert(s, S)
  /\ OneActive(s, R)
  /\ DurableClosed(s, P)

(* The exchanges in flight spend distinct credentials, of distinct         *)
(* families.                                                               *)
RequestsOK(G, S, R) ==
  /\ \A r \in Request : R[r].pc = "upstream" =>
       /\ R[r].grant \in S
       /\ R[r].family # None => R[r].family \in G
  /\ \A r1, r2 \in Request :
       R[r1].pc = "upstream" /\ R[r2].pc = "upstream" =>
         /\ R[r1].grant = R[r2].grant => r1 = r2
         /\ R[r1].family = R[r2].family /\ R[r1].family # None => r1 = r2

(* What the history tells: only generated values are spent, replayed or    *)
(* delivered, and a credential has a successor only after its exchange.    *)
HistoryOK ==
  /\ spent \subseteq generated
  /\ \A f \in FamilyId : replay[f] = "durable" => f \in generated
  /\ \A h \in Handle : receipt[h].source # None =>
       h \in generated /\ receipt[h].source \in spent
  /\ \A r \in Request, h \in Handle :
       req[r].pc = "upstream" => receipt[h].source # req[r].grant

Busy == {r \in Request : req[r].pc # "idle"}

Typed ==
  /\ now \in Nat
  /\ req \in Requests
  /\ generated \subseteq Auth \cup Code \cup FamilyId \cup Handle
  /\ origin \in [Code -> Auth \cup {None}]
  /\ spent \subseteq Grant
  /\ receipt \in [Handle -> [source : Grant \cup {None},
                             family : FamilyId \cup {None}, expiresAt : Nat]]
  /\ presented \subseteq Handle
  /\ replay \in Replays

SlotsOK == slots = Cardinality(Busy) /\ slots <= TokenConcurrency

StoresOK ==
  /\ Good(mem, generated, spent, req, replay)
  /\ Good(disk, generated, spent, req, replay)
  /\ StoreBoundsValid(disk)

IInv ==
  /\ Typed
  /\ SlotsOK
  /\ StoresOK
  /\ RequestsOK(generated, spent, req)
  /\ HistoryOK

-----------------------------------------------------------------------------
(* What each change of a store preserves.                                  *)

LEMMA CleanupType ==
  ASSUME now \in Nat, NEW s \in Store
  PROVE  CleanupExpired(s) \in Store
BY DEF CleanupExpired, Store, LiveFamilies, Families, Family, Entry, Record,
       NoFamily, NoEntry, NoRecord

LEMMA CleanupGood ==
  ASSUME now \in Nat, NEW G, NEW S, NEW R, NEW P, NEW s, Good(s, G, S, R, P)
  PROVE  Good(CleanupExpired(s), G, S, R, P)
<1> DEFINE t == CleanupExpired(s)
<1>0. s \in Store /\ t \in Store
  BY CleanupType DEF Good
<1>1. ASSUME NEW f \in FamilyId
      PROVE  \/ t.fam[f] = s.fam[f] /\ f \in LiveFamilies(s)
             \/ t.fam[f] = NoFamily /\ f \notin LiveFamilies(s)
  BY DEF CleanupExpired
<1>2. ASSUME NEW h \in Handle
      PROVE  \/ t.ent[h] = s.ent[h] /\ s.ent[h].family \in LiveFamilies(s)
             \/ t.ent[h] = NoEntry
  BY DEF CleanupExpired
<1>3. ASSUME NEW a \in Auth
      PROVE  t.auth[a] = s.auth[a] \/ t.auth[a] = NoRecord
  BY DEF CleanupExpired
<1>4. ASSUME NEW c \in Code
      PROVE  t.code[c] = s.code[c] \/ t.code[c] = NoRecord
  BY DEF CleanupExpired
<1>5. Linked(t, G)
  BY <1>0, <1>1, <1>2, <1>3, <1>4 DEF Good, Linked, NoFamily, NoEntry, NoRecord, LiveFamilies, Families
<1>6. SpentInert(t, S)
  BY <1>2, <1>4 DEF Good, SpentInert, NoEntry, NoRecord
<1>7. OneActive(t, R)
  BY <1>2 DEF Good, OneActive, NoEntry
<1>8. DurableClosed(t, P)
  BY <1>1 DEF Good, DurableClosed, NoFamily
<1> QED
  BY <1>0, <1>5, <1>6, <1>7, <1>8 DEF Good

(* The history may grow and requests may end.                              *)
Ends(R, T) == \A r \in Request : T[r].pc = "upstream" => T[r] = R[r]

LEMMA HistoryGood ==
  ASSUME NEW s, NEW G, NEW S, NEW R, NEW P, Good(s, G, S, R, P),
         NEW H, G \subseteq H, NEW T, Ends(R, T)
  PROVE  Good(s, H, S, T, P)
<1>1. Linked(s, H)
  BY DEF Good, Linked
<1>2. OneActive(s, T)
  BY DEF Good, OneActive, Ends
<1> QED
  BY <1>1, <1>2 DEF Good

LEMMA ConsumedType ==
  /\ \A x \in Record : Consumed(x) \in Record /\ Consumed(x).status = "consumed"
                        /\ Consumed(x).expiresAt = x.expiresAt
  /\ \A x \in Entry : Consumed(x) \in Entry /\ Consumed(x).status = "consumed"
                       /\ Consumed(x).family = x.family
BY DEF Consumed, Record, Entry

(* The ephemeral partition: only spent codes can be harmed by a change.    *)
LEMMA EphemeralGood ==
  ASSUME NEW s, NEW G, NEW S, NEW R, NEW P, Good(s, G, S, R, P),
         NEW t \in Store, t.fam = s.fam, t.ent = s.ent,
         \A a \in Auth : t.auth[a] = s.auth[a] \/ t.auth[a].expiresAt >= 1,
         \A c \in Code :
           t.code[c] = s.code[c] \/ (c \in G /\ t.code[c].expiresAt >= 1),
         NEW S2, S2 \cap Handle = S \cap Handle,
         \A c \in S2 \cap Code : t.code[c].status # "active"
  PROVE  Good(t, G, S2, R, P)
BY DEF Good, Linked, SpentInert, OneActive, DurableClosed

LEMMA AuthorizationGood ==
  ASSUME LimitsAssumption, now \in Nat, NEW s, NEW G, NEW S, NEW R, NEW P,
         Good(s, G, S, R, P), NEW a \in Auth
  PROVE  /\ Good(PushAuthorization(s, a), G, S, R, P)
         /\ s.auth[a].status = "active" => Good(ConsumedAuthorization(s, a), G, S, R, P)
<1>1. s \in Store /\ \A c \in S \cap Code : s.code[c].status # "active"
  BY DEF Good, SpentInert
<1>2. Good(PushAuthorization(s, a), G, S, R, P)
  <2> DEFINE t == PushAuthorization(s, a)
  <2>1. now + AuthorizationTtl \in Nat /\ now + AuthorizationTtl >= 1
    BY DEF LimitsAssumption
  <2>2. t \in Store /\ t.fam = s.fam /\ t.ent = s.ent /\ t.code = s.code
    BY <1>1, <2>1 DEF PushAuthorization, Store, Record
  <2>3. \A x \in Auth : t.auth[x] = s.auth[x] \/ t.auth[x].expiresAt >= 1
    BY <1>1, <2>1 DEF PushAuthorization, Store, Record
  <2> QED
    BY <1>1, <2>2, <2>3, EphemeralGood
<1>3. ASSUME s.auth[a].status = "active"
      PROVE  Good(ConsumedAuthorization(s, a), G, S, R, P)
  <2> DEFINE t == ConsumedAuthorization(s, a)
  <2>1. Consumed(s.auth[a]) \in Record /\ Consumed(s.auth[a]).expiresAt >= 1
    BY <1>1, <1>3, ConsumedType DEF Store, Good, Linked
  <2>2. t \in Store /\ t.fam = s.fam /\ t.ent = s.ent /\ t.code = s.code
    BY <1>1, <2>1 DEF ConsumedAuthorization, Store
  <2>3. \A x \in Auth : t.auth[x] = s.auth[x] \/ t.auth[x].expiresAt >= 1
    BY <1>1, <2>1 DEF ConsumedAuthorization, Store
  <2> QED
    BY <1>1, <2>2, <2>3, EphemeralGood
<1> QED
  BY <1>2, <1>3

LEMMA CodeGood ==
  ASSUME LimitsAssumption, now \in Nat, NEW s, NEW G, NEW S, NEW R, NEW P,
         Good(s, G, S, R, P), NEW c \in Code
  PROVE  /\ c \in G \ S => Good(PushCode(s, c), G, S, R, P)
         /\ s.code[c].status = "active" =>
              /\ Good(ConsumedCode(s, c), G, S, R, P)
              /\ Good(ConsumedCode(s, c), G, S \cup {c}, R, P)
<1>1. s \in Store /\ \A x \in S \cap Code : s.code[x].status # "active"
  BY DEF Good, SpentInert
<1>2. ASSUME c \in G \ S
      PROVE  Good(PushCode(s, c), G, S, R, P)
  <2> DEFINE t == PushCode(s, c)
  <2>1. now + CodeTtl \in Nat /\ now + CodeTtl >= 1
    BY DEF LimitsAssumption
  <2>2. t \in Store /\ t.fam = s.fam /\ t.ent = s.ent /\ t.auth = s.auth
    BY <1>1, <2>1 DEF PushCode, Store, Record
  <2>3. \A x \in Code :
          t.code[x] = s.code[x] \/ (x \in G /\ t.code[x].expiresAt >= 1)
    BY <1>1, <1>2, <2>1 DEF PushCode, Store, Record
  <2>4. \A x \in S \cap Code : t.code[x] = s.code[x]
    BY <1>1, <1>2 DEF PushCode, Store
  <2> QED
    BY <1>1, <2>2, <2>3, <2>4, EphemeralGood
<1>3. ASSUME s.code[c].status = "active"
      PROVE  /\ Good(ConsumedCode(s, c), G, S, R, P)
             /\ Good(ConsumedCode(s, c), G, S \cup {c}, R, P)
  <2> DEFINE t == ConsumedCode(s, c)
  <2>1. /\ Consumed(s.code[c]) \in Record /\ Consumed(s.code[c]).expiresAt >= 1
        /\ Consumed(s.code[c]).status = "consumed"
    BY <1>1, <1>3, ConsumedType DEF Store, Good, Linked
  <2>2. t \in Store /\ t.fam = s.fam /\ t.ent = s.ent /\ t.auth = s.auth
    BY <1>1, <2>1 DEF ConsumedCode, Store
  <2>3. c \in G
    BY <1>3 DEF Good, Linked
  <2>4. \A x \in Code :
          t.code[x] = s.code[x] \/ (x \in G /\ t.code[x].expiresAt >= 1)
    BY <1>1, <2>1, <2>3 DEF ConsumedCode, Store
  <2>5. \A x \in (S \cup {c}) \cap Code : t.code[x].status # "active"
    BY <1>1, <2>1 DEF ConsumedCode, Store
  <2>6. c \notin Handle
    BY SetsAssumption
  <2>7. Good(t, G, S, R, P)
    BY <1>1, <2>2, <2>4, <2>5, EphemeralGood
  <2>8. (S \cup {c}) \cap Handle = S \cap Handle
    BY <2>6
  <2>9. Good(t, G, S \cup {c}, R, P)
    BY <1>1, <2>2, <2>4, <2>5, <2>8, EphemeralGood
  <2> QED
    BY <2>7, <2>9
<1> QED
  BY <1>2, <1>3

(* A handle that is consumed may be spent, by a request that takes the     *)
(* family with it.                                                         *)
LEMMA ConsumedEntryGood ==
  ASSUME NEW s, NEW G, NEW S, NEW R, NEW P, Good(s, G, S, R, P), R \in Requests,
         NEW r \in Request, NEW h \in Handle, s.ent[h].status = "active"
  PROVE  /\ Good(ConsumedEntry(s, h), G, S, R, P)
         /\ Good(ConsumedEntry(s, h), G, S \cup {h},
                 [R EXCEPT ![r] = Exchanging(h, s.ent[h].family)], P)
<1> DEFINE t == ConsumedEntry(s, h)
           f == s.ent[h].family
           T == [R EXCEPT ![r] = Exchanging(h, f)]
<1>1. s \in Store
  BY DEF Good
<1>2. Consumed(s.ent[h]) \in Entry /\ Consumed(s.ent[h]).status = "consumed"
      /\ Consumed(s.ent[h]).family = f
  BY <1>1, ConsumedType DEF Store
<1>3. t \in Store /\ t.fam = s.fam /\ t.auth = s.auth /\ t.code = s.code
  BY <1>1, <1>2 DEF ConsumedEntry, Store
<1>4. \A x \in Handle : x # h => t.ent[x] = s.ent[x]
  BY <1>1 DEF ConsumedEntry, Store
<1>5. t.ent[h] = Consumed(s.ent[h])
  BY <1>1 DEF ConsumedEntry, Store
<1>6. /\ \A x \in Handle : t.ent[x].status = "active" =>
           s.ent[x].status = "active" /\ x # h
      /\ \A x \in Handle : t.ent[x].family = s.ent[x].family
      /\ \A x \in Handle : t.ent[x].status # "absent" => s.ent[x].status # "absent"
  BY <1>2, <1>4, <1>5
<1>7. Linked(t, G)
  BY <1>3, <1>6 DEF Good, Linked
<1>8. SpentInert(t, S)
  BY <1>3, <1>6 DEF Good, SpentInert
<1>9. SpentInert(t, S \cup {h})
  <2>1. h \notin Code
    BY SetsAssumption
  <2> QED
    BY <1>3, <1>6, <2>1 DEF Good, SpentInert
<1>10. OneActive(t, R)
  BY <1>6 DEF Good, OneActive
<1>11. OneActive(t, T)
  <2>1. \A q \in Request : T[q].pc = "upstream" =>
           T[q].family = f \/ (R[q].pc = "upstream" /\ T[q].family = R[q].family)
    BY DEF Requests, Exchanging
  <2>2. \A x \in Handle : t.ent[x].status = "active" => t.ent[x].family # f
    BY <1>6 DEF Good, OneActive
  <2> QED
    BY <1>6, <2>1, <2>2 DEF Good, OneActive
<1>12. DurableClosed(t, P)
  BY <1>3 DEF Good, DurableClosed
<1> QED
  BY <1>3, <1>7, <1>8, <1>9, <1>10, <1>11, <1>12 DEF Good

(* A handle may be added to an open family that has no live credential.    *)
LEMMA PushEntryGood ==
  ASSUME NEW s, NEW G, NEW S, NEW R, NEW P, Good(s, G, S, R, P),
         NEW f \in FamilyId, s.fam[f].status = "open",
         NEW h \in Handle, h \in G \ S,
         \A x \in Handle : s.ent[x].status = "active" => s.ent[x].family # f,
         \A q \in Request : R[q].pc = "upstream" => R[q].family # f
  PROVE  Good(PushEntry(s, f, h), G, S, R, P)
<1> DEFINE t == PushEntry(s, f, h)
           e == [status |-> "active", family |-> f]
<1>1. s \in Store
  BY DEF Good
<1>2. t \in Store /\ t.fam = s.fam /\ t.auth = s.auth /\ t.code = s.code
  BY <1>1 DEF PushEntry, Store, Entry
<1>3. /\ \A x \in Handle : x # h => t.ent[x] = s.ent[x]
      /\ t.ent[h].status = "active" /\ t.ent[h].family = f
  BY <1>1 DEF PushEntry, Store
<1>4. Linked(t, G)
  BY <1>2, <1>3 DEF Good, Linked
<1>5. SpentInert(t, S)
  BY <1>2, <1>3 DEF Good, SpentInert
<1>6. OneActive(t, R)
  BY <1>3 DEF Good, OneActive
<1>7. DurableClosed(t, P)
  BY <1>2 DEF Good, DurableClosed
<1> QED
  BY <1>2, <1>4, <1>5, <1>6, <1>7 DEF Good

(* A family that was never used may be opened.                             *)
LEMMA PushFamilyGood ==
  ASSUME LimitsAssumption, now \in Nat,
         NEW s, NEW G, NEW S, NEW R, NEW P, Good(s, G, S, R, P),
         NEW f \in FamilyId, f \in G, P[f] # "durable"
  PROVE  /\ Good(PushFamily(s, f), G, S, R, P)
         /\ PushFamily(s, f).fam[f].status = "open"
         /\ PushFamily(s, f).ent = s.ent
<1> DEFINE t == PushFamily(s, f)
           x == [status |-> "open", expiresAt |-> now + RefreshTtl]
<1>1. s \in Store
  BY DEF Good
<1>2. x \in Family /\ x.expiresAt >= 1 /\ x.status = "open"
  BY DEF LimitsAssumption, Family
<1>3. t \in Store /\ t.ent = s.ent /\ t.auth = s.auth /\ t.code = s.code
  BY <1>1, <1>2 DEF PushFamily, Store
<1>4. t.fam[f] = x /\ \A g \in FamilyId : g # f => t.fam[g] = s.fam[g]
  BY <1>1 DEF PushFamily, Store
<1>5. Linked(t, G)
  BY <1>2, <1>3, <1>4 DEF Good, Linked
<1>6. SpentInert(t, S) /\ OneActive(t, R)
  BY <1>3 DEF Good, SpentInert, OneActive
<1>7. DurableClosed(t, P)
  BY <1>2, <1>4 DEF Good, DurableClosed
<1> QED
  BY <1>2, <1>3, <1>4, <1>5, <1>6, <1>7 DEF Good

(* A revoked family keeps no active handle, so its replay may be recorded. *)
LEMMA RevokedFamilyGood ==
  ASSUME NEW s, NEW G, NEW S, NEW R, NEW P, Good(s, G, S, R, P), P \in Replays,
         NEW f \in FamilyId, s.fam[f].status = "open"
  PROVE  /\ Good(RevokedFamily(s, f), G, S, R, P)
         /\ Good(RevokedFamily(s, f), G, S, R, [P EXCEPT ![f] = "durable"])
<1> DEFINE t == RevokedFamily(s, f)
           x == [status |-> "revoked", expiresAt |-> s.fam[f].expiresAt]
           y == [status |-> "revoked", family |-> f]
           ne == [h \in Handle |-> IF h \in ActiveIn(s, f) THEN y ELSE s.ent[h]]
<1>1. s \in Store
  BY DEF Good
<1>2. x \in Family /\ y \in Entry
  BY <1>1 DEF Family, Entry, Store
<1>3. ne \in [Handle -> Entry]
  BY <1>1, <1>2 DEF Store
<1>4. t \in Store /\ t.ent = ne /\ t.auth = s.auth /\ t.code = s.code
  BY <1>1, <1>2, <1>3 DEF RevokedFamily, Store
<1>5. t.fam[f] = x /\ \A g \in FamilyId : g # f => t.fam[g] = s.fam[g]
  BY <1>1 DEF RevokedFamily, Store
<1>6. \A h \in Handle :
         \/ h \in ActiveIn(s, f) /\ t.ent[h] = y
         \/ h \notin ActiveIn(s, f) /\ t.ent[h] = s.ent[h]
  BY <1>4
<1>7. \A h \in Handle :
         \/ t.ent[h].status = "revoked" /\ t.ent[h].family = f
            /\ s.ent[h].status = "active" /\ s.ent[h].family = f
         \/ t.ent[h] = s.ent[h] /\ (s.ent[h].status = "active" => s.ent[h].family # f)
  BY <1>6 DEF ActiveIn
<1>8. Linked(t, G)
  BY <1>4, <1>5, <1>7 DEF Good, Linked
<1>9. SpentInert(t, S)
  BY <1>4, <1>7 DEF Good, SpentInert
<1>10. OneActive(t, R)
  BY <1>7 DEF Good, OneActive
<1>11. DurableClosed(t, P) /\ DurableClosed(t, [P EXCEPT ![f] = "durable"])
  BY <1>5 DEF Good, DurableClosed, Replays
<1> QED
  BY <1>4, <1>8, <1>9, <1>10, <1>11 DEF Good
-----------------------------------------------------------------------------
(* Sizes: a cleanup only removes, and the initial store is empty.          *)

LEMMA CleanupBounds ==
  ASSUME SetsAssumption, LimitsAssumption, now \in Nat, NEW s \in Store,
         StoreBoundsValid(s)
  PROVE  StoreBoundsValid(CleanupExpired(s))
<1> DEFINE t == CleanupExpired(s)
<1>1. \A X \in SUBSET Handle : IsFiniteSet(X) /\ Cardinality(X) \in Nat
  BY FS_Subset, FS_CardinalityType DEF SetsAssumption
<1>2. \A X \in SUBSET FamilyId : IsFiniteSet(X) /\ Cardinality(X) \in Nat
  BY FS_Subset, FS_CardinalityType DEF SetsAssumption
<1>3. \A X \in SUBSET Auth : IsFiniteSet(X) /\ Cardinality(X) \in Nat
  BY FS_Subset, FS_CardinalityType DEF SetsAssumption
<1>4. \A X \in SUBSET Code : IsFiniteSet(X) /\ Cardinality(X) \in Nat
  BY FS_Subset, FS_CardinalityType DEF SetsAssumption
<1>5. Entries(t) \subseteq Entries(s) /\ Entries(s) \in SUBSET Handle
      /\ Entries(t) \in SUBSET Handle
  BY DEF CleanupExpired, Entries, NoEntry
<1>6. Families(t) \subseteq Families(s) /\ Families(s) \in SUBSET FamilyId
      /\ Families(t) \in SUBSET FamilyId
  BY DEF CleanupExpired, Families, NoFamily
<1>7. Authorizations(t) \subseteq Authorizations(s) /\ Authorizations(s) \in SUBSET Auth
      /\ Authorizations(t) \in SUBSET Auth
  BY DEF CleanupExpired, Authorizations, NoRecord
<1>8. Codes(t) \subseteq Codes(s) /\ Codes(s) \in SUBSET Code
      /\ Codes(t) \in SUBSET Code
  BY DEF CleanupExpired, Codes, NoRecord
<1>9. /\ Cardinality(Entries(t)) <= Cardinality(Entries(s))
      /\ Cardinality(Families(t)) <= Cardinality(Families(s))
      /\ Cardinality(Authorizations(t)) <= Cardinality(Authorizations(s))
      /\ Cardinality(Codes(t)) <= Cardinality(Codes(s))
  BY <1>1, <1>2, <1>3, <1>4, <1>5, <1>6, <1>7, <1>8, FS_Subset
<1> HIDE DEF t
<1> QED
  BY <1>1, <1>2, <1>3, <1>4, <1>5, <1>6, <1>7, <1>8, <1>9
     DEF StoreBoundsValid, LimitsAssumption, t

LEMMA InitialStore ==
  ASSUME LimitsAssumption, NEW G, NEW S, NEW R, NEW P
  PROVE  /\ RefreshStoreState \in Store
         /\ StoreBoundsValid(RefreshStoreState)
         /\ Good(RefreshStoreState, G, S, R, P)
<1> DEFINE s == RefreshStoreState
<1>1. s \in Store
  BY DEF RefreshStoreState, Store, Family, Entry, Record, NoFamily, NoEntry, NoRecord
<1>2. Entries(s) = {} /\ Families(s) = {} /\ Authorizations(s) = {} /\ Codes(s) = {}
  BY DEF RefreshStoreState, NoFamily, NoEntry, NoRecord, Entries, Families,
         Authorizations, Codes
<1>3. StoreBoundsValid(s)
  BY <1>2, FS_EmptySet DEF StoreBoundsValid, LimitsAssumption
<1>4. Good(s, G, S, R, P)
  BY <1>1 DEF RefreshStoreState, NoFamily, NoEntry, NoRecord, Good, Linked,
              SpentInert, OneActive, DurableClosed
<1> QED
  BY <1>1, <1>3, <1>4

-----------------------------------------------------------------------------
(* Steps.                                                                  *)

(* Every write leaves each copy as it was or with the new store, and the   *)
(* file only with a store within its bounds.                               *)
Outcome(s) ==
  /\ mem' = mem \/ mem' = s
  /\ disk' = disk \/ (disk' = s /\ StoreBoundsValid(s))

LEMMA WriteOutcomes ==
  ASSUME NEW s
  PROVE  /\ CommitClone(s) \/ CloneFails(s) => Outcome(s)
         /\ CommitInPlace(s) \/ InPlaceFails(s) => Outcome(s)
         /\ SaveCleanedClone(s) \/ SaveCleanedInPlace(s) => Outcome(s)
<1>1. AtomicWrite(s) \/ AtomicWriteFails(s) =>
        disk' = disk \/ (disk' = s /\ StoreBoundsValid(s))
  BY DEF AtomicWrite, AtomicWriteFails
<1>2. CommitClone(s) \/ CloneFails(s) \/ CommitInPlace(s) \/ InPlaceFails(s) => Outcome(s)
  BY <1>1 DEF CommitClone, CloneFails, CommitInPlace, InPlaceFails, Outcome
<1> QED
  BY <1>2 DEF SaveCleanedClone, SaveCleanedInPlace, Outcome

(* A step that spends nothing and starts no exchange only has to leave     *)
(* behind a store that is good.                                            *)
LEMMA OutcomeGood ==
  ASSUME StoresOK, generated \subseteq generated', spent' = spent, replay' = replay,
         Ends(req, req'), NEW s, Outcome(s),
         Good(s, generated, spent, req, replay) \/ Good(s, generated', spent, req', replay)
  PROVE  StoresOK'
<1>1. /\ Good(mem, generated', spent, req', replay)
      /\ Good(disk, generated', spent, req', replay)
      /\ Good(s, generated', spent, req', replay)
  BY HistoryGood DEF StoresOK
<1>2. StoreBoundsValid(disk')
  BY DEF StoresOK, Outcome
<1> QED
  BY <1>1, <1>2 DEF StoresOK, Outcome

(* A request that ends gives its slot back.                                *)
LEMMA FinishOK ==
  ASSUME SetsAssumption, LimitsAssumption, Typed, SlotsOK,
         RequestsOK(generated, spent, req), NEW r \in Request,
         req[r].pc # "idle", Finish(r)
  PROVE  /\ req' \in Requests
         /\ SlotsOK'
         /\ Ends(req, req')
         /\ \A q \in Request : req'[q].pc = "upstream" => q # r
         /\ RequestsOK(generated, spent, req')
<1>1. req' \in Requests
  BY DEF Typed, Requests, Finish, Idle
<1>2. /\ req'[r].pc = "idle"
      /\ \A q \in Request : q # r => req'[q] = req[q]
  BY DEF Typed, Requests, Finish, Idle
<1>3. Ends(req, req') /\ \A q \in Request : req'[q].pc = "upstream" => q # r
  BY <1>2 DEF Ends
<1>4. RequestsOK(generated, spent, req')
  BY <1>3 DEF RequestsOK, Ends
<1>5. SlotsOK'
  <2>1. Busy' = Busy \ {r} /\ r \in Busy
    BY <1>2 DEF Busy
  <2>2. IsFiniteSet(Busy)
    BY FS_Subset DEF Busy, SetsAssumption
  <2>3. Cardinality(Busy') = Cardinality(Busy) - 1 /\ Cardinality(Busy) \in Nat
    BY <2>1, <2>2, FS_RemoveElement, FS_CardinalityType
  <2>4. slots' = slots - 1
    BY DEF Finish
  <2> QED
    BY <2>3, <2>4 DEF SlotsOK, LimitsAssumption
<1> QED
  BY <1>1, <1>3, <1>4, <1>5

Universe == Auth \cup Code \cup FamilyId \cup Handle

(* The four shapes of a step, each inductive once its stores are good.     *)

(* /authorize and /callback touch no token request.                        *)
LEMMA AuthorizationShape ==
  ASSUME IInv, generated \subseteq generated', generated' \subseteq Universe,
         origin' \in [Code -> Auth \cup {None}],
         UNCHANGED <<now, req, slots, spent, receipt, presented, replay>>, StoresOK'
  PROVE  IInv'
<1>1. Typed'
  BY DEF IInv, Typed, Universe
<1>2. SlotsOK'
  BY DEF IInv, SlotsOK, Busy
<1>3. RequestsOK(generated', spent', req') /\ HistoryOK'
  BY DEF IInv, RequestsOK, HistoryOK
<1> QED
  BY <1>1, <1>2, <1>3 DEF IInv

(* A request ends with nothing spent and nothing delivered.                *)
LEMMA FinishShape ==
  ASSUME SetsAssumption, LimitsAssumption, IInv,
         NEW r \in Request, req[r].pc # "idle", Finish(r),
         generated \subseteq generated', generated' \subseteq Universe,
         presented' \subseteq Handle, replay' \in Replays,
         \A f \in FamilyId : replay'[f] = "durable" => f \in generated,
         UNCHANGED <<now, origin, spent, receipt>>, StoresOK'
  PROVE  IInv'
<1>1. /\ req' \in Requests /\ SlotsOK' /\ Ends(req, req')
      /\ RequestsOK(generated, spent, req')
  BY FinishOK DEF IInv
<1>2. Typed'
  BY <1>1 DEF IInv, Typed, Universe
<1>3. RequestsOK(generated', spent', req')
  BY <1>1 DEF RequestsOK
<1>4. HistoryOK'
  BY <1>1 DEF IInv, HistoryOK, Ends
<1> QED
  BY <1>1, <1>2, <1>3, <1>4 DEF IInv

(* A request ends with a handle delivered to its client.                   *)
LEMMA DeliverShape ==
  ASSUME SetsAssumption, LimitsAssumption, IInv,
         NEW r \in Request, InFlight(r), Finish(r),
         NEW s \in Store, NEW f \in FamilyId, NEW h \in Handle, Deliver(r, s, f, h),
         generated \subseteq generated', generated' \subseteq Universe, h \in generated',
         UNCHANGED <<now, origin, spent, presented, replay>>, StoresOK'
  PROVE  IInv'
<1> DEFINE x == [source |-> req[r].grant, family |-> f, expiresAt |-> s.fam[f].expiresAt]
<1>1. /\ req' \in Requests /\ SlotsOK' /\ Ends(req, req')
      /\ \A q \in Request : req'[q].pc = "upstream" => q # r
      /\ RequestsOK(generated, spent, req')
  BY FinishOK DEF IInv, InFlight
<1>2. req[r].grant \in spent /\ req[r].pc = "upstream"
  BY DEF IInv, RequestsOK, InFlight
<1>3. s.fam[f].expiresAt \in Nat
  BY DEF Store, Family
<1>4. x \in [source : Grant \cup {None}, family : FamilyId \cup {None}, expiresAt : Nat]
  BY <1>2, <1>3 DEF IInv, Typed
<1>5. /\ receipt'[h] = x
      /\ \A k \in Handle : k # h => receipt'[k] = receipt[k]
  BY DEF Deliver, IInv, Typed
<1>6. receipt' = [receipt EXCEPT ![h] = x]
  BY DEF Deliver
<1>7. Typed'
  <2>1. receipt' \in [Handle -> [source : Grant \cup {None},
                             family : FamilyId \cup {None}, expiresAt : Nat]]
    BY <1>4, <1>6 DEF IInv, Typed
  <2> QED
    BY <1>1, <2>1 DEF IInv, Typed, Universe
<1>8. RequestsOK(generated', spent', req')
  BY <1>1 DEF RequestsOK
<1>9. HistoryOK'
  <2>1. spent' \subseteq generated'
        /\ \A g \in FamilyId : replay'[g] = "durable" => g \in generated'
    BY DEF IInv, HistoryOK
  <2>2. \A k \in Handle : receipt'[k].source # None =>
          k \in generated' /\ receipt'[k].source \in spent'
    BY <1>2, <1>5 DEF IInv, HistoryOK
  <2>3. \A q \in Request, k \in Handle :
          req'[q].pc = "upstream" => receipt'[k].source # req'[q].grant
    BY <1>1, <1>2, <1>5 DEF IInv, HistoryOK, RequestsOK, Ends
  <2> QED
    BY <2>1, <2>2, <2>3 DEF HistoryOK
<1> QED
  BY <1>1, <1>7, <1>8, <1>9 DEF IInv

(* A request starts its exchange.                                          *)
LEMMA ExchangeShape ==
  ASSUME IInv, NEW r \in Request, req[r].pc = "parsing",
         NEW g \in Grant, g \in generated \ spent,
         NEW f \in FamilyId \cup {None},
         f # None => f \in generated,
         \A q \in Request : req[q].pc = "upstream" /\ f # None => req[q].family # f,
         req' = [req EXCEPT ![r] = Exchanging(g, f)], spent' = spent \cup {g},
         presented' \subseteq Handle,
         UNCHANGED <<now, slots, generated, origin, receipt, replay>>, StoresOK'
  PROVE  IInv'
<1>1. Exchanging(g, f) \in [pc : {"idle", "parsing", "upstream"},
                            grant : Grant \cup {None}, family : FamilyId \cup {None}]
  BY DEF Exchanging
<1>2. req' \in Requests
  BY <1>1 DEF IInv, Typed, Requests
<1>3. /\ req'[r].pc = "upstream" /\ req'[r].grant = g /\ req'[r].family = f
      /\ \A q \in Request : q # r => req'[q] = req[q]
  BY DEF IInv, Typed, Requests, Exchanging
<1>4. Typed'
  BY <1>2 DEF IInv, Typed
<1>5. SlotsOK'
  <2>1. Busy' = Busy
    BY <1>3 DEF Busy
  <2> QED
    BY <2>1 DEF IInv, SlotsOK
<1>6. RequestsOK(generated', spent', req')
  BY <1>3 DEF IInv, RequestsOK
<1>7. HistoryOK'
  <2>1. g # None
    BY SetsAssumption DEF SetsAssumption, Grant
  <2> QED
    BY <1>3, <2>1 DEF IInv, HistoryOK
<1> QED
  BY <1>4, <1>5, <1>6, <1>7 DEF IInv

-----------------------------------------------------------------------------
(* The actions.                                                            *)

LEMMA CleanedMemory ==
  ASSUME IInv
  PROVE  /\ CleanupExpired(mem) \in Store /\ mem \in Store /\ disk \in Store
         /\ Good(CleanupExpired(mem), generated, spent, req, replay)
BY CleanupGood DEF IInv, Typed, StoresOK, Good

LEMMA AuthorizationStepOK ==
  ASSUME LimitsAssumption, IInv, AuthorizationStep
  PROVE  IInv'
<1> DEFINE s == CleanupExpired(mem)
<1>1. /\ s \in Store /\ Good(s, generated, spent, req, replay)
      /\ StoresOK /\ now \in Nat /\ generated \subseteq Universe
      /\ origin \in [Code -> Auth \cup {None}] /\ spent \subseteq generated
  BY CleanedMemory DEF IInv, Typed, Universe, HistoryOK
<1> HIDE DEF s
<1>2. ASSUME NEW a \in Auth, BeginAuthorization(a)
      PROVE  IInv'
  <2> DEFINE t == PushAuthorization(s, a)
  <2>1. Outcome(t) /\ generated' = generated \cup {a}
        /\ UNCHANGED <<now, req, slots, origin, spent, receipt, presented, replay>>
    BY <1>2, WriteOutcomes DEF BeginAuthorization, s
  <2>2. Good(t, generated, spent, req, replay)
    BY <1>1, AuthorizationGood
  <2>3. StoresOK'
    BY <1>1, <2>1, <2>2, OutcomeGood DEF Ends
  <2> QED
    BY <1>1, <2>1, <2>3, AuthorizationShape DEF Universe
<1>3. ASSUME NEW a \in Auth, RejectCallback(a)
      PROVE  IInv'
  <2>1. Outcome(s) /\ UNCHANGED <<now, req, slots, history>>
    BY <1>3, WriteOutcomes DEF RejectCallback, s
  <2>2. StoresOK'
    BY <1>1, <2>1, OutcomeGood DEF Ends, history
  <2> QED
    BY <1>1, <2>1, <2>2, AuthorizationShape DEF history
<1>4. ASSUME NEW a \in Auth, ConsumeAuthorizationError(a)
      PROVE  IInv'
  <2> DEFINE t == ConsumedAuthorization(s, a)
  <2>1. Outcome(t) /\ s.auth[a].status = "active" /\ UNCHANGED <<now, req, slots, history>>
    BY <1>4, WriteOutcomes DEF ConsumeAuthorizationError, s
  <2>2. Good(t, generated, spent, req, replay)
    BY <1>1, <2>1, AuthorizationGood
  <2>3. StoresOK'
    BY <1>1, <2>1, <2>2, OutcomeGood DEF Ends, history
  <2> QED
    BY <1>1, <2>1, <2>3, AuthorizationShape DEF history
<1>5. ASSUME NEW a \in Auth, NEW c \in Code, ConsumeAuthorization(a, c)
      PROVE  IInv'
  <2> DEFINE t == ConsumedAuthorization(s, a)
             u == PushCode(t, c)
             G == generated \cup {c}
  <2>1. /\ Outcome(u) /\ s.auth[a].status = "active" /\ c \notin generated
        /\ generated' = G /\ origin' = [origin EXCEPT ![c] = a]
        /\ UNCHANGED <<now, req, slots, spent, receipt, presented, replay>>
    BY <1>5, WriteOutcomes DEF ConsumeAuthorization, s
  <2>2. Good(t, generated, spent, req, replay)
    BY <1>1, <2>1, AuthorizationGood
  <2>3. Good(t, G, spent, req, replay)
    BY <2>2, HistoryGood DEF Ends
  <2>4. c \in G \ spent
    BY <1>1, <2>1
  <2>5. Good(u, G, spent, req, replay)
    BY <1>1, <2>3, <2>4, CodeGood
  <2>6. StoresOK'
    BY <1>1, <2>1, <2>5, OutcomeGood DEF Ends
  <2>7. origin' \in [Code -> Auth \cup {None}] /\ generated' \subseteq Universe
    BY <1>1, <2>1 DEF Universe
  <2> QED
    BY <2>1, <2>6, <2>7, AuthorizationShape
<1> QED
  BY <1>2, <1>3, <1>4, <1>5 DEF AuthorizationStep

LEMMA ParseStepOK ==
  ASSUME SetsAssumption, LimitsAssumption, IInv, NEW r \in Request, ParseStep(r)
  PROVE  IInv'
<1> DEFINE s == CleanupExpired(mem)
<1>1. /\ s \in Store /\ Good(s, generated, spent, req, replay)
      /\ StoresOK /\ now \in Nat /\ generated \subseteq Universe
      /\ presented \subseteq Handle /\ replay \in Replays /\ req \in Requests
      /\ \A f \in FamilyId : replay[f] = "durable" => f \in generated
      /\ Typed /\ SlotsOK /\ RequestsOK(generated, spent, req)
      /\ mem \in Store /\ Good(mem, generated, spent, req, replay)
  BY CleanedMemory DEF IInv, Typed, Universe, HistoryOK, StoresOK
<1> HIDE DEF s
<1>2. req[r].pc # "idle" /\ Finish(r) => Ends(req, req')
  BY <1>1, FinishOK
<1>3. ASSUME RejectToken(r) PROVE IInv'
  <2>1. /\ Outcome(mem) /\ req[r].pc # "idle" /\ Finish(r) /\ UNCHANGED <<now, history>>
    BY <1>3 DEF RejectToken, Outcome
  <2>2. StoresOK'
    BY <1>1, <1>2, <2>1, OutcomeGood DEF history
  <2> QED
    BY <1>1, <2>1, <2>2, FinishShape DEF history
<1>4. ASSUME NEW c \in Code, RejectCode(r, c) PROVE IInv'
  <2>1. /\ Outcome(s) /\ req[r].pc # "idle" /\ Finish(r) /\ UNCHANGED <<now, history>>
    BY <1>4, WriteOutcomes DEF RejectCode, s
  <2>2. StoresOK'
    BY <1>1, <1>2, <2>1, OutcomeGood DEF history
  <2> QED
    BY <1>1, <2>1, <2>2, FinishShape DEF history
<1>5. ASSUME NEW c \in Code, ConsumeAuthorizationCode(r, c) PROVE IInv'
  <2> DEFINE t == ConsumedCode(s, c)
  <2>1. /\ CommitClone(t) /\ Outcome(t) /\ s.code[c].status = "active"
        /\ req[r].pc = "parsing"
        /\ UNCHANGED <<now, generated, origin, receipt, presented, replay>>
    BY <1>5, WriteOutcomes DEF ConsumeAuthorizationCode, s
  <2>2. /\ Good(t, generated, spent, req, replay)
        /\ Good(t, generated, spent \cup {c}, req, replay)
    BY <1>1, <2>1, CodeGood
  <2>3. CASE Finish(r) /\ UNCHANGED spent
    <3>1. StoresOK'
      BY <1>1, <1>2, <2>1, <2>2, <2>3, OutcomeGood
    <3> QED
      BY <1>1, <2>1, <2>3, <3>1, FinishShape
  <2>4. CASE /\ req' = [req EXCEPT ![r] = Exchanging(c, None)]
             /\ spent' = spent \cup {c} /\ UNCHANGED slots
    <3>1. OneActive(t, req')
      <4>1. \A q \in Request : req'[q].pc = "upstream" =>
               \/ req'[q].family = None
               \/ req[q].pc = "upstream" /\ req'[q].family = req[q].family
        BY <1>1, <2>4 DEF Requests, Exchanging
      <4>2. \A h \in Handle : t.ent[h].status = "active" => t.ent[h].family # None
        BY <2>2, SetsAssumption DEF Good, Linked, SetsAssumption
      <4> QED
        BY <2>2, <4>1, <4>2 DEF Good, OneActive
    <3>2. Good(t, generated', spent', req', replay')
      BY <2>1, <2>2, <2>4, <3>1 DEF Good
    <3>3. StoresOK'
      BY <2>1, <3>2 DEF StoresOK, CommitClone, AtomicWrite
    <3>4. c \in generated \ spent /\ c \in Grant
      BY <1>1, <2>1 DEF Good, Linked, SpentInert, Grant
    <3> QED
      BY <1>1, <2>1, <2>4, <3>3, <3>4, ExchangeShape
  <2> QED
    BY <1>5, <2>3, <2>4 DEF ConsumeAuthorizationCode
<1>6. ASSUME NEW c \in Code, ConsumeCodeWriteFails(r, c) PROVE IInv'
  <2> DEFINE t == ConsumedCode(s, c)
  <2>1. /\ Outcome(t) /\ s.code[c].status = "active"
        /\ req[r].pc # "idle" /\ Finish(r) /\ UNCHANGED <<now, history>>
    BY <1>6, WriteOutcomes DEF ConsumeCodeWriteFails, s
  <2>2. Good(t, generated, spent, req, replay)
    BY <1>1, <2>1, CodeGood
  <2>3. StoresOK'
    BY <1>1, <1>2, <2>1, <2>2, OutcomeGood DEF history
  <2> QED
    BY <1>1, <2>1, <2>3, FinishShape DEF history
<1>7. ASSUME NEW h \in Handle, RejectHandle(r, h) PROVE IInv'
  <2>1. /\ Outcome(s) /\ req[r].pc # "idle" /\ Finish(r) /\ presented' \subseteq Handle
        /\ UNCHANGED <<now, generated, origin, spent, receipt, replay>>
    BY <1>1, <1>7, WriteOutcomes DEF RejectHandle, Present, s
  <2>2. StoresOK'
    BY <1>1, <1>2, <2>1, OutcomeGood
  <2> QED
    BY <1>1, <2>1, <2>2, FinishShape
<1>8. ASSUME NEW h \in Handle, ConsumeReused(r, h) PROVE IInv'
  <2> DEFINE f == s.ent[h].family
             t == RevokedFamily(s, f)
  <2>1. /\ InPlaceFails(t) /\ Reused(s, h)
        /\ replay' = [replay EXCEPT ![f] = IF disk' = t THEN "durable" ELSE "detected"]
        /\ req[r].pc # "idle" /\ Finish(r) /\ presented' \subseteq Handle
        /\ UNCHANGED <<now, generated, origin, spent, receipt>>
    BY <1>1, <1>8 DEF ConsumeReused, Present, s
  <2>2. f \in FamilyId /\ s.fam[f].status = "open" /\ f \in generated
    BY <1>1, <2>1 DEF Reused, Good, Linked
  <2>3. /\ Good(t, generated, spent, req, replay)
        /\ Good(t, generated, spent, req, [replay EXCEPT ![f] = "durable"])
    BY <1>1, <2>2, RevokedFamilyGood
  <2>4. /\ replay' \in Replays
        /\ \A g \in FamilyId : g # f => replay'[g] = replay[g]
        /\ \A g \in FamilyId : replay'[g] = "durable" => g \in generated
        /\ replay'[f] = IF disk' = t THEN "durable" ELSE "detected"
    BY <1>1, <2>1, <2>2 DEF Replays
  <2>5. Good(mem', generated, spent, req, replay')
    <3>1. CASE disk' = t
      BY <2>1, <2>3, <3>1 DEF InPlaceFails
    <3>2. CASE disk' # t
      BY <2>1, <2>3, <2>4, <3>2 DEF InPlaceFails, Good, DurableClosed
    <3> QED
      BY <3>1, <3>2
  <2>6. Good(disk', generated, spent, req, replay') /\ StoreBoundsValid(disk')
    <3>1. CASE disk' = t
      <4>1. mem' = t
        BY <2>1 DEF InPlaceFails
      <4>2. disk' = disk \/ StoreBoundsValid(t)
        BY <2>1 DEF InPlaceFails, AtomicWriteFails
      <4> QED
        BY <1>1, <2>5, <3>1, <4>1, <4>2 DEF StoresOK
    <3>2. CASE disk' # t
      <4>1. disk' = disk
        BY <2>1, <3>2 DEF InPlaceFails, AtomicWriteFails
      <4> QED
        BY <1>1, <2>4, <3>2, <4>1 DEF StoresOK, Good, DurableClosed
    <3> QED
      BY <3>1, <3>2
  <2>7. StoresOK'
    <3>1. Ends(req, req')
      BY <1>2, <2>1
    <3> QED
      BY <2>1, <2>5, <2>6, <3>1, HistoryGood DEF StoresOK
  <2> QED
    BY <1>1, <2>1, <2>4, <2>7, FinishShape
<1>9. ASSUME NEW h \in Handle, Consume(r, h) PROVE IInv'
  <2> DEFINE f == s.ent[h].family
             t == ConsumedEntry(s, h)
  <2>1. /\ CommitInPlace(t) /\ Usable(s, h) /\ req[r].pc = "parsing"
        /\ req' = [req EXCEPT ![r] = Exchanging(h, f)]
        /\ spent' = spent \cup {h} /\ presented' \subseteq Handle
        /\ UNCHANGED <<now, slots, generated, origin, receipt, replay>>
    BY <1>1, <1>9 DEF Consume, Present, s
  <2>2. Good(t, generated', spent', req', replay')
    BY <1>1, <2>1, ConsumedEntryGood DEF Usable
  <2>3. StoresOK'
    BY <2>1, <2>2 DEF StoresOK, CommitInPlace, AtomicWrite
  <2>4. h \in generated \ spent /\ h \in Grant
    BY <1>1, <2>1 DEF Usable, Good, Linked, SpentInert, Grant
  <2>5. f \in FamilyId /\ f \in generated
    BY <1>1, <2>1 DEF Usable, Good, Linked
  <2>6. \A q \in Request : req[q].pc = "upstream" => req[q].family # f
    BY <1>1, <2>1 DEF Usable, Good, OneActive
  <2> HIDE DEF f, t
  <2> QED
    BY <2>1, <2>3, <2>4, <2>5, <2>6, ExchangeShape
<1>10. ASSUME NEW h \in Handle, ConsumeWriteFails(r, h) PROVE IInv'
  <2> DEFINE t == ConsumedEntry(s, h)
  <2>1. /\ Outcome(t) /\ Usable(s, h) /\ presented' \subseteq Handle
        /\ req[r].pc # "idle" /\ Finish(r)
        /\ UNCHANGED <<now, generated, origin, spent, receipt, replay>>
    BY <1>1, <1>10, WriteOutcomes DEF ConsumeWriteFails, Present, s
  <2>2. Good(t, generated, spent, req, replay)
    BY <1>1, <2>1, ConsumedEntryGood DEF Usable
  <2>3. StoresOK'
    BY <1>1, <1>2, <2>1, <2>2, OutcomeGood
  <2> QED
    BY <1>1, <2>1, <2>3, FinishShape
<1> QED
  BY <1>3, <1>4, <1>5, <1>6, <1>7, <1>8, <1>9, <1>10 DEF ParseStep

LEMMA UpstreamStepOK ==
  ASSUME SetsAssumption, LimitsAssumption, IInv, NEW r \in Request, UpstreamStep(r)
  PROVE  IInv'
<1> DEFINE s == CleanupExpired(mem)
           f0 == req[r].family
<1>1. /\ s \in Store /\ Good(s, generated, spent, req, replay)
      /\ StoresOK /\ now \in Nat /\ generated \subseteq Universe
      /\ presented \subseteq Handle /\ replay \in Replays /\ req \in Requests
      /\ \A f \in FamilyId : replay[f] = "durable" => f \in generated
      /\ Typed /\ SlotsOK /\ RequestsOK(generated, spent, req)
      /\ spent \subseteq generated /\ disk \in Store
      /\ mem \in Store /\ Good(mem, generated, spent, req, replay)
  BY CleanedMemory DEF IInv, Typed, Universe, HistoryOK, StoresOK
<1> HIDE DEF s
<1>2. ASSUME InFlight(r), Finish(r)
      PROVE  /\ Ends(req, req') /\ req[r].pc = "upstream" /\ req[r].pc # "idle"
             /\ \A q \in Request : req'[q].pc = "upstream" => q # r
             /\ \A q \in Request : req'[q].pc = "upstream" /\ f0 # None => req'[q].family # f0
  <2>1. req[r].pc = "upstream"
    BY <1>2 DEF InFlight
  <2>2. /\ Ends(req, req')
        /\ \A q \in Request : req'[q].pc = "upstream" => q # r
    BY <1>1, <1>2, <2>1, FinishOK
  <2>3. \A q \in Request : req'[q].pc = "upstream" /\ f0 # None => req'[q].family # f0
    BY <1>1, <2>1, <2>2 DEF Ends, RequestsOK
  <2> QED
    BY <2>1, <2>2, <2>3
<1>3. ASSUME UpstreamFails(r) PROVE IInv'
  <2>1. /\ Outcome(mem) /\ InFlight(r) /\ Finish(r) /\ UNCHANGED <<now, history>>
    BY <1>3 DEF UpstreamFails, Outcome
  <2>2. StoresOK'
    BY <1>1, <1>2, <2>1, OutcomeGood DEF history
  <2> QED
    BY <1>1, <1>2, <2>1, <2>2, FinishShape DEF history
<1>4. ASSUME IssueInitialAtCapacity(r) \/ IssueRotatedRefused(r) PROVE IInv'
  <2>1. /\ Outcome(s) /\ InFlight(r) /\ Finish(r) /\ UNCHANGED <<now, history>>
    BY <1>4 DEF IssueInitialAtCapacity, IssueRotatedRefused, Outcome, s
  <2>2. StoresOK'
    BY <1>1, <1>2, <2>1, OutcomeGood DEF history
  <2> QED
    BY <1>1, <1>2, <2>1, <2>2, FinishShape DEF history
(* The store issueInitial tries to write.                                  *)
<1>5. ASSUME NEW f \in FamilyId, NEW h \in Handle, {f, h} \cap generated = {},
             InFlight(r), Finish(r), generated' = generated \cup {f, h}
      PROVE  /\ Good(PushEntry(PushFamily(s, f), f, h), generated', spent, req', replay)
             /\ generated' \subseteq Universe
  <2> DEFINE t == PushFamily(s, f)
  <2>1. /\ f \in generated' /\ h \in generated' \ spent /\ generated \subseteq generated'
        /\ replay[f] # "durable" /\ f \notin generated
    BY <1>1, <1>5
  <2>2. Good(s, generated', spent, req', replay)
    BY <1>1, <1>2, <1>5, <2>1, HistoryGood
  <2>3. /\ Good(t, generated', spent, req', replay)
        /\ t.fam[f].status = "open" /\ t.ent = s.ent
    BY <1>1, <2>1, <2>2, PushFamilyGood
  <2>4. \A x \in Handle : t.ent[x].status = "active" => t.ent[x].family # f
    BY <1>1, <2>1, <2>3 DEF Good, Linked
  <2>5. \A q \in Request : req'[q].pc = "upstream" => req'[q].family # f
    BY <1>1, <1>2, <1>5, <2>1, SetsAssumption DEF RequestsOK, Ends, SetsAssumption
  <2>6. generated' \subseteq Universe
    BY <1>1, <1>5 DEF Universe
  <2> HIDE DEF t
  <2>7. Good(PushEntry(t, f, h), generated', spent, req', replay)
    BY <2>1, <2>3, <2>4, <2>5, PushEntryGood
  <2> QED
    BY <2>6, <2>7 DEF t
<1>6. ASSUME NEW f \in FamilyId, NEW h \in Handle, IssueInitial(r, f, h) PROVE IInv'
  <2> DEFINE u == PushEntry(PushFamily(s, f), f, h)
  <2>1. /\ InFlight(r) /\ Finish(r) /\ {f, h} \cap generated = {}
        /\ generated' = generated \cup {f, h} /\ CommitInPlace(u) /\ Deliver(r, u, f, h)
        /\ UNCHANGED <<now, origin, spent, presented, replay>>
    BY <1>6 DEF IssueInitial, s
  <2>2. Good(u, generated', spent, req', replay) /\ generated' \subseteq Universe
    BY <1>5, <2>1
  <2>3. StoresOK'
    BY <2>1, <2>2 DEF StoresOK, CommitInPlace, AtomicWrite
  <2>4. u \in Store
    BY <2>2 DEF Good
  <2> HIDE DEF u
  <2> QED
    BY <2>1, <2>2, <2>3, <2>4, DeliverShape
<1>7. ASSUME NEW f \in FamilyId, NEW h \in Handle, IssueInitialWriteFails(r, f, h) PROVE IInv'
  <2> DEFINE u == PushEntry(PushFamily(s, f), f, h)
  <2>1. /\ InFlight(r) /\ Finish(r) /\ {f, h} \cap generated = {}
        /\ generated' = generated \cup {f, h}
        /\ UNCHANGED <<now, origin, spent, receipt, presented, replay>>
    BY <1>7 DEF IssueInitialWriteFails, s
  <2>2. PICK d \in {disk} \cup {x \in {u} : StoreBoundsValid(x)} :
          \/ mem' = s /\ disk' = d
          \/ mem' = CleanupExpired(d) /\ disk' = CleanupExpired(d)
          \/ mem' = s /\ disk' = CleanupExpired(d)
    BY <1>7 DEF IssueInitialWriteFails, s
  <2>3. Good(u, generated', spent, req', replay) /\ generated' \subseteq Universe
    BY <1>5, <2>1
  <2> HIDE DEF u
  <2>4. /\ Good(disk, generated', spent, req', replay)
        /\ Good(s, generated', spent, req', replay)
    BY <1>1, <1>2, <2>1, HistoryGood DEF StoresOK
  <2>5. Good(d, generated', spent, req', replay) /\ StoreBoundsValid(d) /\ d \in Store
    BY <1>1, <2>3, <2>4 DEF StoresOK, Good
  <2>6. /\ Good(CleanupExpired(d), generated', spent, req', replay)
        /\ StoreBoundsValid(CleanupExpired(d))
    BY <1>1, <2>5, CleanupGood, CleanupBounds
  <2>7. StoresOK'
    BY <2>1, <2>2, <2>4, <2>5, <2>6 DEF StoresOK
  <2> QED
    BY <1>1, <1>2, <2>1, <2>3, <2>7, FinishShape
(* The store issueRotated tries to write.                                  *)
<1>8. ASSUME NEW h \in Handle, h \notin generated, f0 # None, StillOpen(s, f0),
             InFlight(r), Finish(r), generated' = generated \cup {h}
      PROVE  /\ Good(s, generated', spent, req', replay)
             /\ Good(PushEntry(s, f0, h), generated', spent, req', replay)
             /\ generated' \subseteq Universe /\ f0 \in FamilyId
  <2>1. Good(s, generated', spent, req', replay)
    BY <1>1, <1>2, <1>8, HistoryGood
  <2>2. f0 \in FamilyId /\ s.fam[f0].status = "open"
    BY <1>1, <1>8 DEF Requests, StillOpen
  <2>3. \A x \in Handle : s.ent[x].status = "active" => s.ent[x].family # f0
    BY <1>1, <1>2, <1>8 DEF Good, OneActive
  <2>4. \A q \in Request : req'[q].pc = "upstream" => req'[q].family # f0
    BY <1>2, <1>8
  <2>5. h \in generated' \ spent
    BY <1>1, <1>8
  <2>6. generated' \subseteq Universe
    BY <1>1, <1>8 DEF Universe
  <2> HIDE DEF f0
  <2>7. Good(PushEntry(s, f0, h), generated', spent, req', replay)
    BY <2>1, <2>2, <2>3, <2>4, <2>5, PushEntryGood
  <2> QED
    BY <2>1, <2>2, <2>6, <2>7
<1>9. ASSUME NEW h \in Handle, IssueRotated(r, h) PROVE IInv'
  <2> DEFINE u == PushEntry(s, f0, h)
  <2>1. /\ InFlight(r) /\ Finish(r) /\ h \notin generated /\ f0 # None /\ StillOpen(s, f0)
        /\ generated' = generated \cup {h} /\ CommitInPlace(u) /\ Deliver(r, u, f0, h)
        /\ UNCHANGED <<now, origin, spent, presented, replay>>
    BY <1>9 DEF IssueRotated, s
  <2>2. /\ Good(u, generated', spent, req', replay) /\ generated' \subseteq Universe
        /\ f0 \in FamilyId
    BY <1>8, <2>1
  <2>3. StoresOK'
    BY <2>1, <2>2 DEF StoresOK, CommitInPlace, AtomicWrite
  <2>4. u \in Store
    BY <2>2 DEF Good
  <2> HIDE DEF u, f0
  <2> QED
    BY <2>1, <2>2, <2>3, <2>4, DeliverShape
<1>10. ASSUME NEW h \in Handle, IssueRotatedWriteFails(r, h) PROVE IInv'
  <2> DEFINE u == PushEntry(s, f0, h)
  <2>1. /\ InFlight(r) /\ Finish(r) /\ h \notin generated /\ f0 # None /\ StillOpen(s, f0)
        /\ generated' = generated \cup {h} /\ mem' = s /\ AtomicWriteFails(u)
        /\ UNCHANGED <<now, origin, spent, receipt, presented, replay>>
    BY <1>10 DEF IssueRotatedWriteFails, s
  <2>2. /\ Good(s, generated', spent, req', replay)
        /\ Good(u, generated', spent, req', replay) /\ generated' \subseteq Universe
    BY <1>8, <2>1
  <2>3. Good(disk, generated', spent, req', replay)
    BY <1>1, <1>2, <2>1, HistoryGood DEF StoresOK
  <2>4. StoresOK'
    BY <1>1, <2>1, <2>2, <2>3 DEF StoresOK, AtomicWriteFails
  <2> QED
    BY <1>1, <1>2, <2>1, <2>2, <2>4, FinishShape
<1> QED
  BY <1>3, <1>4, <1>6, <1>7, <1>9, <1>10 DEF UpstreamStep

LEMMA AcquireOK ==
  ASSUME SetsAssumption, LimitsAssumption, IInv, NEW r \in Request, AcquireTokenSlot(r)
  PROVE  IInv'
<1>1. /\ req[r].pc = "idle" /\ slots < TokenConcurrency /\ slots' = slots + 1
      /\ req' = [req EXCEPT ![r].pc = "parsing"]
      /\ UNCHANGED <<now, mem, disk, history>> /\ req \in Requests
  BY DEF AcquireTokenSlot, SlotFree, IInv, Typed
<1>2. /\ req' \in Requests
      /\ req'[r].pc = "parsing"
      /\ \A q \in Request : q # r => req'[q] = req[q]
  BY <1>1 DEF Requests
<1>3. Ends(req, req')
  BY <1>2 DEF Ends
<1>4. Typed'
  BY <1>1, <1>2 DEF IInv, Typed, history
<1>5. SlotsOK'
  <2>1. Busy' = Busy \cup {r} /\ r \notin Busy
    BY <1>1, <1>2 DEF Busy
  <2>2. IsFiniteSet(Busy)
    BY FS_Subset DEF Busy, SetsAssumption
  <2>3. Cardinality(Busy') = Cardinality(Busy) + 1 /\ Cardinality(Busy) \in Nat
    BY <2>1, <2>2, FS_AddElement, FS_CardinalityType
  <2> QED
    BY <1>1, <2>3 DEF IInv, SlotsOK, LimitsAssumption
<1>6. StoresOK'
  BY <1>1, <1>3, HistoryGood DEF IInv, StoresOK, history
<1>7. RequestsOK(generated', spent', req')
  BY <1>1, <1>3 DEF IInv, RequestsOK, Ends, history
<1>8. HistoryOK'
  BY <1>1, <1>3 DEF IInv, HistoryOK, Ends, history
<1> QED
  BY <1>4, <1>5, <1>6, <1>7, <1>8 DEF IInv

LEMMA RestartOK ==
  ASSUME SetsAssumption, LimitsAssumption, IInv, Restart
  PROVE  IInv'
<1>1. /\ mem' = CleanupExpired(disk) /\ disk' = CleanupExpired(disk)
      /\ req' = [r \in Request |-> Idle] /\ slots' = 0
      /\ UNCHANGED <<now, history>>
  BY DEF Restart
<1>2. req' \in Requests /\ Ends(req, req') /\ \A r \in Request : req'[r].pc = "idle"
  BY <1>1 DEF Requests, Ends, Idle
<1>3. Typed'
  BY <1>1, <1>2 DEF IInv, Typed, history
<1>4. SlotsOK'
  <2>1. Busy' = {}
    BY <1>2 DEF Busy
  <2> QED
    BY <1>1, <2>1, FS_EmptySet DEF SlotsOK, LimitsAssumption
<1>5. Good(CleanupExpired(disk), generated, spent, req, replay)
      /\ StoreBoundsValid(CleanupExpired(disk))
  BY CleanupGood, CleanupBounds DEF IInv, Typed, StoresOK, Good
<1>6. StoresOK'
  BY <1>1, <1>2, <1>5, HistoryGood DEF StoresOK, history
<1>7. RequestsOK(generated', spent', req')
  BY <1>2 DEF RequestsOK
<1>8. HistoryOK'
  BY <1>1, <1>2 DEF IInv, HistoryOK, history
<1> QED
  BY <1>3, <1>4, <1>6, <1>7, <1>8 DEF IInv

(* The invariant holds initially and every step preserves it.              *)
THEOREM Inductive ==
  ASSUME SetsAssumption, LimitsAssumption
  PROVE  /\ Init => IInv
         /\ IInv /\ [Next]_vars => IInv'
<1>1. ASSUME Init PROVE IInv
  <2>1. /\ now = 1 /\ mem = RefreshStoreState /\ disk = RefreshStoreState
        /\ req = [r \in Request |-> Idle] /\ slots = 0
        /\ generated = {} /\ spent = {} /\ presented = {}
        /\ origin = [c \in Code |-> None]
        /\ receipt = [h \in Handle |-> [source |-> None, family |-> None, expiresAt |-> 0]]
        /\ replay = [f \in FamilyId |-> "none"]
    BY <1>1 DEF Init
  <2>2. req \in Requests /\ \A r \in Request : req[r].pc = "idle"
    BY <2>1 DEF Requests, Idle
  <2>3. Typed
    BY <2>1, <2>2 DEF Typed, Replays
  <2>4. SlotsOK
    <3>1. Busy = {}
      BY <2>2 DEF Busy
    <3> QED
      BY <2>1, <3>1, FS_EmptySet DEF SlotsOK, LimitsAssumption
  <2>5. StoresOK
    BY <2>1, InitialStore DEF StoresOK
  <2>6. RequestsOK(generated, spent, req) /\ HistoryOK
    BY <2>1, <2>2 DEF RequestsOK, HistoryOK
  <2> QED
    BY <2>3, <2>4, <2>5, <2>6 DEF IInv
<1>2. ASSUME IInv, [Next]_vars PROVE IInv'
  <2>1. CASE Tick
    <3>1. now' \in Nat /\ UNCHANGED <<mem, disk, req, slots, history>>
      BY <1>2, <2>1 DEF Tick, IInv, Typed
    <3> QED
      BY <1>2, <3>1 DEF IInv, Typed, SlotsOK, Busy, StoresOK, RequestsOK, HistoryOK, history
  <2>2. CASE Restart
    BY <1>2, <2>2, RestartOK
  <2>3. CASE AuthorizationStep
    BY <1>2, <2>3, AuthorizationStepOK
  <2>4. ASSUME NEW r \in Request, AcquireTokenSlot(r) PROVE IInv'
    BY <1>2, <2>4, AcquireOK
  <2>5. ASSUME NEW r \in Request, TokenStep(r) PROVE IInv'
    BY <1>2, <2>5, ParseStepOK, UpstreamStepOK DEF TokenStep
  <2>6. CASE UNCHANGED vars
    BY <1>2, <2>6 DEF vars, IInv, Typed, SlotsOK, Busy, StoresOK, RequestsOK, HistoryOK
  <2> QED
    BY <1>2, <2>1, <2>2, <2>3, <2>4, <2>5, <2>6 DEF Next
<1> QED
  BY <1>1, <1>2

THEOREM Invariance == Spec => []IInv
<1>1. Init => IInv
  BY Inductive, SetsAssumption, LimitsAssumption
<1>2. IInv /\ [Next]_vars => IInv'
  BY Inductive, SetsAssumption, LimitsAssumption
<1> QED
  BY <1>1, <1>2, PTL DEF Spec

-----------------------------------------------------------------------------
(* The safety properties of RefreshVault.                                  *)

(* Every variable keeps its type, and createConcurrencyLimiter never hands *)
(* out more token slots than its limit.                                    *)
THEOREM TypeCorrect == Spec => []TypeOK
<1>1. IInv => TypeOK
  <2>1. ASSUME IInv PROVE slots \in 0..TokenConcurrency
    <3>1. Cardinality(Busy) \in Nat
      BY SetsAssumption, FS_Subset, FS_CardinalityType DEF Busy, SetsAssumption
    <3> QED
      BY <2>1, <3>1, LimitsAssumption DEF IInv, SlotsOK, LimitsAssumption
  <2> QED
    BY <2>1 DEF IInv, Typed, StoresOK, Good, TypeOK, Requests, Replays
<1> QED
  BY <1>1, Invariance, PTL

(* However writes fail, the file is one loadOrInitialize accepts.          *)
THEOREM StoreIsLoadable == Spec => []StoreLoadable
<1>1. IInv => StoreLoadable
  BY DEF IInv, StoresOK, Good, Linked, StoreLoadable, ValidateState, ActiveIn,
         Families, Entries, Authorizations, Codes
<1> QED
  BY <1>1, Invariance, PTL

(* A family never has two live credentials: rotation is one-time even      *)
(* while the provider is being asked.                                      *)
THEOREM CredentialIsSingle == Spec => []OneLiveCredential
<1>1. IInv => OneLiveCredential
  BY DEF IInv, StoresOK, Good, OneActive, RequestsOK, OneLiveCredential, InFlight
<1> QED
  BY <1>1, Invariance, PTL

(* A revocation that reached the file is never undone.                     *)
THEOREM RevocationIsFinal == Spec => []DurableRevocationIsFinal
<1>1. IInv => DurableRevocationIsFinal
  BY DEF IInv, StoresOK, Good, Linked, DurableClosed, DurableRevocationIsFinal, ActiveIn
<1> QED
  BY <1>1, Invariance, PTL

(* What a step does to the history: nothing, or it starts one exchange of  *)
(* an unspent credential, or it delivers one new handle for an exchange.   *)
Quiet == Ends(req, req') /\ UNCHANGED <<spent, receipt>>

Spends(r, g) ==
  /\ g \in Grant \ spent
  /\ \E f \in FamilyId \cup {None} : req' = [req EXCEPT ![r] = Exchanging(g, f)]
  /\ spent' = spent \cup {g}
  /\ UNCHANGED receipt

Delivers(r, h) ==
  /\ InFlight(r) /\ Finish(r)
  /\ h \notin generated
  /\ \E s \in Store, f \in FamilyId : Deliver(r, s, f, h)
  /\ UNCHANGED spent

LEMMA StepKinds ==
  ASSUME IInv, [Next]_vars
  PROVE  \/ Quiet
         \/ \E r \in Request, g \in Grant : Spends(r, g)
         \/ \E r \in Request, h \in Handle : Delivers(r, h)
<1> DEFINE s == CleanupExpired(mem)
<1>1. /\ Good(s, generated, spent, req, replay) /\ s \in Store /\ mem \in Store
      /\ req \in Requests
      /\ SetsAssumption /\ LimitsAssumption /\ now \in Nat
  BY CleanedMemory, SetsAssumption, LimitsAssumption DEF IInv, Typed
<1> HIDE DEF s
<1>2. \A r \in Request : req[r].pc # "idle" /\ Finish(r) => Ends(req, req')
  BY <1>1, FinishOK DEF IInv
<1>3. CASE Tick \/ AuthorizationStep \/ UNCHANGED vars
  BY <1>3 DEF Tick, AuthorizationStep, BeginAuthorization, RejectCallback,
              ConsumeAuthorizationError, ConsumeAuthorization, history, vars, Quiet, Ends
<1>4. CASE Restart
  BY <1>4 DEF Restart, history, Quiet, Ends, Idle
<1>5. ASSUME NEW r \in Request, AcquireTokenSlot(r) PROVE Quiet
  BY <1>1, <1>5 DEF AcquireTokenSlot, history, Quiet, Ends, Requests
<1>6. ASSUME NEW r \in Request, ParseStep(r)
      PROVE  Quiet \/ \E g \in Grant : Spends(r, g)
  <2>1. CASE RejectToken(r)
    BY <1>2, <2>1 DEF RejectToken, history, Quiet
  <2>2. ASSUME NEW c \in Code, RejectCode(r, c) \/ ConsumeCodeWriteFails(r, c) PROVE Quiet
    BY <1>2, <2>2 DEF RejectCode, ConsumeCodeWriteFails, history, Quiet
  <2>3. ASSUME NEW c \in Code, ConsumeAuthorizationCode(r, c)
        PROVE  Quiet \/ Spends(r, c)
    <3>1. CASE Finish(r) /\ UNCHANGED spent
      BY <1>2, <2>3, <3>1 DEF ConsumeAuthorizationCode, Quiet
    <3>2. CASE /\ req' = [req EXCEPT ![r] = Exchanging(c, None)]
               /\ spent' = spent \cup {c}
      BY <1>1, <2>3, <3>2 DEF ConsumeAuthorizationCode, Spends, Grant, Good, SpentInert, s
    <3> QED
      BY <2>3, <3>1, <3>2 DEF ConsumeAuthorizationCode
  <2>4. ASSUME NEW h \in Handle,
               RejectHandle(r, h) \/ ConsumeReused(r, h) \/ ConsumeWriteFails(r, h)
        PROVE  Quiet
    BY <1>2, <2>4 DEF RejectHandle, ConsumeReused, ConsumeWriteFails, Quiet
  <2>5. ASSUME NEW h \in Handle, Consume(r, h) PROVE Spends(r, h)
    <3>1. /\ s.ent[h].status = "active"
          /\ req' = [req EXCEPT ![r] = Exchanging(h, s.ent[h].family)]
          /\ spent' = spent \cup {h} /\ receipt' = receipt
      BY <2>5 DEF Consume, Usable, s
    <3>2. s.ent[h].family \in FamilyId /\ h \in Grant \ spent
      BY <1>1, <3>1 DEF Good, Linked, SpentInert, Grant
    <3> QED
      BY <3>1, <3>2 DEF Spends
  <2> QED
    BY <1>6, <2>1, <2>2, <2>3, <2>4, <2>5 DEF ParseStep, Grant
<1>7. ASSUME NEW r \in Request, UpstreamStep(r)
      PROVE  Quiet \/ \E h \in Handle : Delivers(r, h)
  <2>1. CASE UpstreamFails(r) \/ IssueInitialAtCapacity(r) \/ IssueRotatedRefused(r)
    BY <1>2, <2>1 DEF UpstreamFails, IssueInitialAtCapacity, IssueRotatedRefused,
                      InFlight, history, Quiet
  <2>2. ASSUME NEW h \in Handle, IssueRotatedWriteFails(r, h) PROVE Quiet
    BY <1>2, <2>2 DEF IssueRotatedWriteFails, InFlight, Quiet
  <2>3. ASSUME NEW f \in FamilyId, NEW h \in Handle, IssueInitialWriteFails(r, f, h)
        PROVE  Quiet
    BY <1>2, <2>3 DEF IssueInitialWriteFails, InFlight, Quiet
  <2>4. ASSUME NEW h \in Handle, IssueRotated(r, h) PROVE Delivers(r, h)
    <3> DEFINE f == req[r].family
               u == PushEntry(s, f, h)
    <3>1. /\ InFlight(r) /\ Finish(r) /\ f # None /\ h \notin generated
          /\ Deliver(r, u, f, h) /\ UNCHANGED spent
      BY <2>4 DEF IssueRotated, s
    <3>2. f \in FamilyId
      BY <1>1, <3>1 DEF Requests
    <3>3. u \in Store
      BY <1>1, <3>2 DEF PushEntry, Store, Entry
    <3> HIDE DEF u
    <3> QED
      BY <3>1, <3>2, <3>3 DEF Delivers
  <2>5. ASSUME NEW f \in FamilyId, NEW h \in Handle, IssueInitial(r, f, h)
        PROVE  Delivers(r, h)
    <3> DEFINE t == PushFamily(s, f)
               u == PushEntry(t, f, h)
    <3>1. /\ InFlight(r) /\ Finish(r) /\ h \notin generated
          /\ Deliver(r, u, f, h) /\ UNCHANGED spent
      BY <2>5 DEF IssueInitial, s
    <3>2. now + RefreshTtl \in Nat
      BY <1>1 DEF LimitsAssumption
    <3>3. t \in Store
      BY <1>1, <3>2 DEF PushFamily, Store, Family
    <3> HIDE DEF t
    <3>4. u \in Store
      BY <3>3 DEF PushEntry, Store, Entry
    <3> HIDE DEF u
    <3> QED
      BY <3>1, <3>4 DEF Delivers
  <2> QED
    BY <1>7, <2>1, <2>2, <2>3, <2>4, <2>5 DEF UpstreamStep
<1> QED
  BY <1>3, <1>4, <1>5, <1>6, <1>7 DEF Next, TokenStep

(* A code or handle is exchanged at most once, whatever fails in between:  *)
(* consuming it reaches the file before the provider is asked.             *)
THEOREM ExchangesOnce == Spec => ExchangedOnce
<1> DEFINE Once == \A r \in Request :
                     ~InFlight(r) /\ InFlight(r)' => req'[r].grant \notin spent
<1>1. ASSUME IInv, [Next]_vars PROVE Once
  <2>1. CASE Quiet \/ \E q \in Request, h \in Handle : Delivers(q, h)
    <3>1. Ends(req, req')
      BY <1>1, <2>1, FinishOK, SetsAssumption, LimitsAssumption
         DEF Quiet, Delivers, InFlight, IInv
    <3> QED
      BY <3>1 DEF Ends, InFlight
  <2>2. ASSUME NEW q \in Request, NEW g \in Grant, Spends(q, g) PROVE Once
    <3>1. req \in Requests
      BY <1>1 DEF IInv, Typed
    <3>2. PICK f \in FamilyId \cup {None} : req' = [req EXCEPT ![q] = Exchanging(g, f)]
      BY <2>2 DEF Spends
    <3>3. req'[q].grant = g /\ \A r \in Request : r # q => req'[r] = req[r]
      BY <3>1, <3>2 DEF Requests, Exchanging
    <3> QED
      BY <2>2, <3>3 DEF Spends, InFlight
  <2> QED
    BY <1>1, <2>1, <2>2, StepKinds
<1>2. IInv /\ [Next]_vars => [Once]_vars
  BY <1>1
<1> QED
  BY <1>2, Invariance, PTL DEF Spec, ExchangedOnce

(* The store, with its failures, restarts and concurrent requests,         *)
(* implements the chain of one-time handles of GrantChain.                 *)
THEOREM ImplementsChain == Spec => ImplementsGrantChain
<1> DEFINE source == [h \in Handle |-> receipt[h].source]
<1>1. Init => Chain!Init
  BY DEF Init, Chain!Init
<1>2. ASSUME IInv, [Next]_vars PROVE [Chain!Next]_(Chain!vars)
  <2>1. CASE Quiet
    BY <2>1 DEF Quiet, Chain!vars
  <2>2. ASSUME NEW r \in Request, NEW g \in Grant, Spends(r, g)
        PROVE  Chain!Next
    BY <2>2 DEF Spends, Chain!Next, Chain!Spend, Grant
  <2>3. ASSUME NEW r \in Request, NEW h \in Handle, Delivers(r, h)
        PROVE  Chain!Next
    <3> DEFINE g == req[r].grant
    <3>1. PICK s \in Store, f \in FamilyId : Deliver(r, s, f, h)
      BY <2>3 DEF Delivers
    <3>2. /\ g \in spent /\ h \notin spent /\ receipt[h].source = None
          /\ \A k \in Handle : receipt[k].source # g
      BY <1>2, <2>3 DEF Delivers, IInv, RequestsOK, HistoryOK, InFlight
    <3>3. source' = [source EXCEPT ![h] = g]
      BY <1>2, <3>1 DEF Deliver, IInv, Typed
    <3>4. g \in Code \cup Handle /\ UNCHANGED spent
      BY <1>2, <2>3, <3>2 DEF Delivers, IInv, Typed, Grant
    <3>5. Chain!Succeed(g, h)
      BY <3>2, <3>3, <3>4 DEF Chain!Succeed
    <3> QED
      BY <3>4, <3>5 DEF Chain!Next
  <2> QED
    BY <1>2, <2>1, <2>2, <2>3, StepKinds
<1> QED
  BY <1>1, <1>2, Invariance, PTL DEF Spec, ImplementsGrantChain, Chain!Spec

-----------------------------------------------------------------------------
(* What a step leaves in the two copies, for the properties of single      *)
(* consents and sessions: one new store t, made of the cleaned memory, its  *)
(* cleanup, or what was there, in either copy.                             *)

Cleaned == CleanupExpired(mem)

From(t) ==
  /\ mem' \in {mem, Cleaned, t, CleanupExpired(t), CleanupExpired(disk)}
  /\ disk' \in {disk, t, CleanupExpired(t), CleanupExpired(disk)}

(* The partition of authorizations and codes.                              *)
ConsentKept(t) ==
  t.auth = Cleaned.auth /\ t.code = Cleaned.code

ConsentStep(t) ==
  \/ ConsentKept(t) /\ origin' = origin /\ spent' \cap Code = spent \cap Code
  \/ \E a \in Auth :
       /\ a \notin generated /\ a \in generated'
       /\ t = PushAuthorization(Cleaned, a)
       /\ origin' = origin /\ spent' = spent
  \/ \E a \in Auth :
       /\ Cleaned.auth[a].status = "active"
       /\ t = ConsumedAuthorization(Cleaned, a)
       /\ origin' = origin /\ spent' = spent
  \/ \E a \in Auth, c \in Code :
       /\ Cleaned.auth[a].status = "active" /\ c \notin generated
       /\ c \in generated'
       /\ t = PushCode(ConsumedAuthorization(Cleaned, a), c)
       /\ origin' = [origin EXCEPT ![c] = a] /\ spent' = spent
  \/ \E c \in Code :
       /\ Cleaned.code[c].status = "active"
       /\ t = ConsumedCode(Cleaned, c) /\ origin' = origin
       /\ \/ spent' = spent
          \/ mem' = t /\ disk' = t /\ spent' = spent \cup {c}

(* The partition of families and handles.                                  *)
SessionKept(t) == t.fam = Cleaned.fam /\ t.ent = Cleaned.ent

SessionStep(t) ==
  \/ SessionKept(t) /\ receipt' = receipt
  \/ \E h \in Handle :
       /\ Cleaned.ent[h].status = "active" /\ h \in presented'
       /\ t = ConsumedEntry(Cleaned, h) /\ receipt' = receipt
  \/ \E f \in FamilyId :
       /\ t = RevokedFamily(Cleaned, f) /\ replay'[f] # "none"
       /\ receipt' = receipt
  \/ \E f \in FamilyId, h \in Handle, u \in Store :
       /\ u = Cleaned \/ (f \notin generated /\ u = PushFamily(Cleaned, f))
       /\ h \notin generated /\ t = PushEntry(u, f, h)
       /\ \/ receipt' = receipt
          \/ /\ mem' = t /\ disk' = t
             /\ \E g \in Grant :
                  receipt' = [receipt EXCEPT ![h] =
                                [source |-> g, family |-> f,
                                 expiresAt |-> t.fam[f].expiresAt]]

(* Time, what is presented, generated and replayed only grow.              *)
Onwards ==
  /\ now' \in Nat /\ now <= now' /\ presented \subseteq presented'
  /\ generated \subseteq generated'
  /\ \A f \in FamilyId : replay'[f] = "none" => replay[f] = "none"

WriteOf(t) == From(t) /\ ConsentStep(t) /\ SessionStep(t)

LEMMA AuthorizationWrites ==
  ASSUME LimitsAssumption, IInv, AuthorizationStep
  PROVE  Onwards /\ \E t : WriteOf(t)
<1> DEFINE s == CleanupExpired(mem)
<1>1. now \in Nat /\ s \in Store
  BY CleanedMemory DEF IInv, Typed
<1>2. ASSUME NEW a \in Auth, BeginAuthorization(a)
      PROVE  Onwards /\ \E t : WriteOf(t)
  <2>1. Outcome(PushAuthorization(s, a))
    BY <1>2, WriteOutcomes DEF BeginAuthorization
  <2>2. From(PushAuthorization(s, a))
    BY <2>1 DEF Outcome, From
  <2>3. ConsentStep(PushAuthorization(s, a))
    BY <1>2 DEF BeginAuthorization, ConsentStep, Cleaned
  <2>4. SessionStep(PushAuthorization(s, a))
    BY <1>1, <1>2 DEF BeginAuthorization, SessionStep, SessionKept, Cleaned,
                      PushAuthorization, Store
  <2> QED BY <1>1, <1>2, <2>2, <2>3, <2>4 DEF Onwards, BeginAuthorization, WriteOf
<1>3. ASSUME NEW a \in Auth, RejectCallback(a)
      PROVE  Onwards /\ \E t : WriteOf(t)
  <2>1. Outcome(s)
    BY <1>3, WriteOutcomes DEF RejectCallback
  <2>2. From(s)
    BY <2>1 DEF Outcome, From
  <2> QED BY <1>1, <1>3, <2>2 DEF Onwards, RejectCallback, history, WriteOf,
             ConsentStep, SessionStep, ConsentKept, SessionKept, Cleaned
<1>4. ASSUME NEW a \in Auth, ConsumeAuthorizationError(a)
      PROVE  Onwards /\ \E t : WriteOf(t)
  <2>1. Outcome(ConsumedAuthorization(s, a))
    BY <1>4, WriteOutcomes DEF ConsumeAuthorizationError
  <2>2. From(ConsumedAuthorization(s, a))
    BY <2>1 DEF Outcome, From
  <2>3. ConsentStep(ConsumedAuthorization(s, a))
    BY <1>4 DEF ConsumeAuthorizationError, ConsentStep, Cleaned, history
  <2>4. SessionStep(ConsumedAuthorization(s, a))
    BY <1>1, <1>4 DEF ConsumeAuthorizationError, SessionStep, SessionKept, Cleaned,
                      ConsumedAuthorization, Store, history
  <2> QED BY <1>1, <1>4, <2>2, <2>3, <2>4
             DEF Onwards, ConsumeAuthorizationError, WriteOf, history
<1>5. ASSUME NEW a \in Auth, NEW c \in Code, ConsumeAuthorization(a, c)
      PROVE  Onwards /\ \E t : WriteOf(t)
  <2> DEFINE t == PushCode(ConsumedAuthorization(s, a), c)
  <2>1. Outcome(t)
    BY <1>5, WriteOutcomes DEF ConsumeAuthorization
  <2>2. From(t)
    BY <2>1 DEF Outcome, From
  <2>3. ConsentStep(t)
    BY <1>5 DEF ConsumeAuthorization, ConsentStep, Cleaned
  <2>4. SessionStep(t)
    BY <1>1, <1>5 DEF ConsumeAuthorization, SessionStep, SessionKept, Cleaned,
                      ConsumedAuthorization, PushCode, Store
  <2> HIDE DEF t
  <2> QED BY <1>1, <1>5, <2>2, <2>3, <2>4 DEF Onwards, ConsumeAuthorization, WriteOf
<1> QED BY <1>2, <1>3, <1>4, <1>5 DEF AuthorizationStep

(* A write that changes neither what is remembered of consents nor of      *)
(* sessions, but for what has expired.                                     *)
LEMMA NothingWritten ==
  ASSUME From(Cleaned), UNCHANGED <<origin, receipt>>,
         spent' \cap Code = spent \cap Code
  PROVE  WriteOf(Cleaned)
BY DEF WriteOf, ConsentStep, SessionStep, ConsentKept, SessionKept
(* The parts that the changes of the other partition leave alone.          *)
LEMMA PartitionsApart ==
  ASSUME NEW s \in Store
  PROVE  /\ \A c \in Code :
              /\ ConsumedCode(s, c).fam = s.fam /\ ConsumedCode(s, c).ent = s.ent
         /\ \A h \in Handle :
              /\ ConsumedEntry(s, h).auth = s.auth /\ ConsumedEntry(s, h).code = s.code
         /\ \A f \in FamilyId :
              /\ RevokedFamily(s, f).auth = s.auth /\ RevokedFamily(s, f).code = s.code
              /\ PushFamily(s, f).auth = s.auth /\ PushFamily(s, f).code = s.code
              /\ \A h \in Handle :
                   /\ PushEntry(s, f, h).auth = s.auth
                   /\ PushEntry(s, f, h).code = s.code
BY DEF ConsumedCode, ConsumedEntry, RevokedFamily, PushFamily, PushEntry, Store

LEMMA ParseWrites ==
  ASSUME IInv, NEW r \in Request, ParseStep(r)
  PROVE  Onwards /\ \E t : WriteOf(t)
<1> DEFINE s == CleanupExpired(mem)
<1>1. /\ now \in Nat /\ s \in Store /\ Good(s, generated, spent, req, replay)
      /\ replay \in Replays
  BY CleanedMemory DEF IInv, Typed
<1>2. s = Cleaned
  BY DEF Cleaned
<1> HIDE DEF s
<1>3. CASE RejectToken(r)
  <2>1. From(s)
    BY <1>2, <1>3 DEF RejectToken, From
  <2> QED BY <1>1, <1>2, <1>3, <2>1, NothingWritten
             DEF RejectToken, history, Onwards
<1>4. ASSUME NEW c \in Code, RejectCode(r, c)
      PROVE  Onwards /\ \E t : WriteOf(t)
  <2>1. Outcome(s)
    BY <1>4, WriteOutcomes DEF RejectCode, s
  <2>2. From(s)
    BY <1>2, <2>1 DEF Outcome, From
  <2> QED BY <1>1, <1>2, <1>4, <2>2, NothingWritten DEF RejectCode, history, Onwards
<1>5. ASSUME NEW c \in Code, ConsumeAuthorizationCode(r, c) \/ ConsumeCodeWriteFails(r, c)
      PROVE  Onwards /\ \E t : WriteOf(t)
  <2> DEFINE t == ConsumedCode(s, c)
  <2>1. Outcome(t) /\ s.code[c].status = "active"
    BY <1>5, WriteOutcomes DEF ConsumeAuthorizationCode, ConsumeCodeWriteFails, s
  <2>2. From(t)
    BY <2>1 DEF Outcome, From
  <2>3. origin' = origin /\ (spent' = spent \/ (mem' = t /\ disk' = t /\ spent' = spent \cup {c}))
    BY <1>5 DEF ConsumeAuthorizationCode, ConsumeCodeWriteFails, CommitClone,
                AtomicWrite, history, s
  <2>4. ConsentStep(t)
    BY <1>2, <2>1, <2>3 DEF ConsentStep
  <2>5. SessionStep(t)
    BY <1>1, <1>2, <1>5, PartitionsApart
       DEF ConsumeAuthorizationCode, ConsumeCodeWriteFails, history, SessionStep, SessionKept
  <2>6. Onwards
    BY <1>1, <1>5 DEF ConsumeAuthorizationCode, ConsumeCodeWriteFails, history, Onwards
  <2> QED BY <2>2, <2>4, <2>5, <2>6 DEF WriteOf
<1>6. ASSUME NEW h \in Handle, RejectHandle(r, h)
      PROVE  Onwards /\ \E t : WriteOf(t)
  <2>1. Outcome(s)
    BY <1>6, WriteOutcomes DEF RejectHandle, s
  <2>2. From(s)
    BY <1>2, <2>1 DEF Outcome, From
  <2> QED BY <1>1, <1>2, <1>6, <2>2, NothingWritten DEF RejectHandle, Present, Onwards
<1>7. ASSUME NEW h \in Handle, ConsumeReused(r, h)
      PROVE  Onwards /\ \E t : WriteOf(t)
  <2> DEFINE f == s.ent[h].family
             t == RevokedFamily(s, f)
  <2>1. Outcome(t) /\ s.ent[h].status # "absent"
    BY <1>7, WriteOutcomes DEF ConsumeReused, Reused, s
  <2>2. f \in FamilyId
    BY <1>1, <2>1 DEF Good, Linked
  <2>3. From(t)
    BY <2>1 DEF Outcome, From
  <2>4. /\ replay'[f] # "none" /\ \A g \in FamilyId : replay'[g] = "none" => replay[g] = "none"
        /\ receipt' = receipt /\ origin' = origin /\ spent' = spent
    BY <1>1, <1>7, <2>2 DEF ConsumeReused, Replays, s
  <2>5. ConsentStep(t)
    BY <1>1, <1>2, <2>2, <2>4, PartitionsApart DEF ConsentStep, ConsentKept
  <2>6. SessionStep(t)
    BY <1>2, <2>2, <2>4 DEF SessionStep
  <2>7. Onwards
    BY <1>1, <1>7, <2>4 DEF ConsumeReused, Present, Onwards
  <2> QED BY <2>3, <2>5, <2>6, <2>7 DEF WriteOf
<1>8. ASSUME NEW h \in Handle, Consume(r, h) \/ ConsumeWriteFails(r, h)
      PROVE  Onwards /\ \E t : WriteOf(t)
  <2> DEFINE t == ConsumedEntry(s, h)
  <2>1. Outcome(t) /\ s.ent[h].status = "active"
    BY <1>8, WriteOutcomes DEF Consume, ConsumeWriteFails, Usable, s
  <2>2. h \in generated /\ h \notin Code
    BY <1>1, <2>1, SetsAssumption DEF Good, Linked, SetsAssumption
  <2>3. From(t)
    BY <2>1 DEF Outcome, From
  <2>4. /\ receipt' = receipt /\ origin' = origin /\ h \in presented'
        /\ spent' \in {spent, spent \cup {h}}
    BY <1>8, <2>2 DEF Consume, ConsumeWriteFails, Present
  <2>5. ConsentStep(t)
    <3>1. spent' \cap Code = spent \cap Code
      BY <2>2, <2>4
    <3> QED BY <1>1, <1>2, <2>4, <3>1, PartitionsApart DEF ConsentStep, ConsentKept
  <2>6. SessionStep(t)
    BY <1>2, <2>1, <2>4 DEF SessionStep
  <2>7. Onwards
    BY <1>1, <1>8 DEF Consume, ConsumeWriteFails, Present, Onwards
  <2> QED BY <2>3, <2>5, <2>6, <2>7 DEF WriteOf
<1> QED BY <1>3, <1>4, <1>5, <1>6, <1>7, <1>8, ParseStep(r) DEF ParseStep

LEMMA UpstreamWrites ==
  ASSUME IInv, NEW r \in Request, UpstreamStep(r)
  PROVE  Onwards /\ \E t : WriteOf(t)
<1> DEFINE s == CleanupExpired(mem)
<1>1. /\ now \in Nat /\ s \in Store /\ Good(s, generated, spent, req, replay)
      /\ req \in Requests /\ LimitsAssumption
  BY CleanedMemory, LimitsAssumption DEF IInv, Typed
<1>2. s = Cleaned
  BY DEF Cleaned
<1> HIDE DEF s
<1>3. CASE UpstreamFails(r) \/ IssueInitialAtCapacity(r) \/ IssueRotatedRefused(r)
  <2>1. From(s)
    BY <1>2, <1>3 DEF UpstreamFails, IssueInitialAtCapacity, IssueRotatedRefused, From, s
  <2>2. UNCHANGED <<now, history>>
    BY <1>3 DEF UpstreamFails, IssueInitialAtCapacity, IssueRotatedRefused
  <2> QED BY <1>1, <1>2, <2>1, <2>2, NothingWritten DEF history, Onwards
<1>4. ASSUME NEW h \in Handle, IssueRotated(r, h) \/ IssueRotatedWriteFails(r, h)
      PROVE  Onwards /\ \E t : WriteOf(t)
  <2> DEFINE f == req[r].family
             t == PushEntry(s, f, h)
  <2>1. /\ InFlight(r) /\ f # None /\ h \notin generated
        /\ origin' = origin /\ spent' = spent
    BY <1>4 DEF IssueRotated, IssueRotatedWriteFails
  <2>2. f \in FamilyId /\ req[r].grant \in Grant
    BY <1>1, <2>1 DEF Requests, IInv, Typed, RequestsOK, InFlight
  <2>3. \/ receipt' = receipt
        \/ /\ mem' = t /\ disk' = t
           /\ receipt' = [receipt EXCEPT ![h] =
                [source |-> req[r].grant, family |-> f, expiresAt |-> t.fam[f].expiresAt]]
    BY <1>4 DEF IssueRotated, IssueRotatedWriteFails, CommitInPlace, AtomicWrite, Deliver, s
  <2>4. From(t)
    BY <1>2, <1>4 DEF IssueRotated, IssueRotatedWriteFails, CommitInPlace, AtomicWrite,
                      AtomicWriteFails, From, s
  <2>5. ConsentStep(t)
    BY <1>1, <1>2, <2>1, <2>2, PartitionsApart DEF ConsentStep, ConsentKept
  <2>6. SessionStep(t)
    <3> HIDE DEF t, f
    <3>1. t = PushEntry(s, f, h)
      BY DEF t
    <3> QED BY <1>1, <1>2, <2>1, <2>2, <2>3, <3>1 DEF SessionStep
  <2>7. Onwards
    <3>1. UNCHANGED <<now, presented, replay>> /\ generated' = generated \cup {h}
      BY <1>4 DEF IssueRotated, IssueRotatedWriteFails
    <3> QED BY <1>1, <3>1 DEF Onwards
  <2> QED BY <2>4, <2>5, <2>6, <2>7 DEF WriteOf
<1>5. ASSUME NEW f \in FamilyId, NEW h \in Handle,
             IssueInitial(r, f, h) \/ IssueInitialWriteFails(r, f, h)
      PROVE  Onwards /\ \E t : WriteOf(t)
  <2> DEFINE u == PushFamily(s, f)
             t == PushEntry(u, f, h)
  <2>1. /\ InFlight(r) /\ f \notin generated /\ h \notin generated
        /\ origin' = origin /\ spent' = spent
    BY <1>5 DEF IssueInitial, IssueInitialWriteFails
  <2>2. req[r].grant \in Grant
    BY <1>1, <2>1 DEF IInv, Typed, RequestsOK, InFlight
  <2>3. \/ receipt' = receipt
        \/ /\ mem' = t /\ disk' = t
           /\ receipt' = [receipt EXCEPT ![h] =
                [source |-> req[r].grant, family |-> f, expiresAt |-> t.fam[f].expiresAt]]
    BY <1>5 DEF IssueInitial, IssueInitialWriteFails, CommitInPlace, AtomicWrite, Deliver, s
  <2>4. From(t)
    <3>1. CASE IssueInitial(r, f, h)
      BY <3>1 DEF IssueInitial, CommitInPlace, AtomicWrite, From, s
    <3>2. CASE IssueInitialWriteFails(r, f, h)
      <4> HIDE DEF t
      <4>1. t = PushEntry(PushFamily(s, f), f, h)
        BY DEF t
      <4> QED BY <1>2, <3>2, <4>1 DEF IssueInitialWriteFails, From, s
    <3> QED BY <1>5, <3>1, <3>2
  <2>5. u \in Store
    <3>1. now + RefreshTtl \in Nat
      BY <1>1 DEF LimitsAssumption
    <3> QED BY <1>1, <3>1 DEF PushFamily, Store, Family
  <2>6. ConsentStep(t)
    BY <1>1, <1>2, <2>1, <2>5, PartitionsApart DEF ConsentStep, ConsentKept
  <2>7. SessionStep(t)
    <3> HIDE DEF t, u
    <3>1. t = PushEntry(u, f, h) /\ u = PushFamily(s, f)
      BY DEF t, u
    <3> QED BY <1>2, <2>1, <2>2, <2>3, <2>5, <3>1 DEF SessionStep
  <2>8. Onwards
    <3>1. UNCHANGED <<now, presented, replay>> /\ generated' = generated \cup {f, h}
      BY <1>5 DEF IssueInitial, IssueInitialWriteFails
    <3> QED BY <1>1, <3>1 DEF Onwards
  <2> QED BY <2>4, <2>6, <2>7, <2>8 DEF WriteOf
<1> QED BY <1>3, <1>4, <1>5, UpstreamStep(r) DEF UpstreamStep

LEMMA StepWrites ==
  ASSUME IInv, [Next]_vars
  PROVE  Onwards /\ \E t : WriteOf(t)
<1>1. now \in Nat
  BY DEF IInv, Typed
<1>2. CASE Tick \/ Restart \/ (\E r \in Request : AcquireTokenSlot(r)) \/ UNCHANGED vars
  <2>1. From(Cleaned)
    BY <1>2 DEF Tick, Restart, AcquireTokenSlot, vars, history, From, Cleaned
  <2>2. UNCHANGED history /\ now' \in {now, now + 1}
    BY <1>2 DEF Tick, Restart, AcquireTokenSlot, vars, history
  <2>3. Onwards
    BY <1>1, <2>2 DEF history, Onwards
  <2> QED BY <2>1, <2>2, <2>3, NothingWritten DEF history
<1> QED
  BY <1>2, AuthorizationWrites, ParseWrites, UpstreamWrites, LimitsAssumption
     DEF Next, TokenStep
(* A session in a store: the handle is active in its family, which ends    *)
(* when its client was told.                                               *)
Holds(s, h, f, e) ==
  /\ s.ent[h].status = "active" /\ s.ent[h].family = f
  /\ s.fam[f].status = "open" /\ s.fam[f].expiresAt = e

SessionsKept ==
  \A h \in Delivered :
    LET f == receipt[h].family
        e == receipt[h].expiresAt
    IN f \in FamilyId /\ (h \notin presented /\ replay[f] = "none" /\ now < e 
         => Holds(mem, h, f, e) /\ Holds(disk, h, f, e))

LEMMA CleanupHolds ==
  ASSUME now \in Nat, NEW s, NEW h \in Handle, NEW f \in FamilyId,
         NEW e \in Nat, now < e, Holds(s, h, f, e)
  PROVE  Holds(CleanupExpired(s), h, f, e)
<1>1. f \in LiveFamilies(s)
  BY DEF LiveFamilies, Families, Holds
<1> QED BY <1>1 DEF Holds, CleanupExpired

(* A session that none of a step's changes is about is left as it is.      *)
LEMMA OthersHold ==
  ASSUME NEW s \in Store, NEW h \in Handle, NEW f \in FamilyId, NEW e,
         Holds(s, h, f, e)
  PROVE  /\ \A k \in Handle : k # h => Holds(ConsumedEntry(s, k), h, f, e)
         /\ \A g \in FamilyId : g # f => Holds(RevokedFamily(s, g), h, f, e)
         /\ \A g \in FamilyId : g # f => Holds(PushFamily(s, g), h, f, e)
         /\ \A g \in FamilyId, k \in Handle : k # h => Holds(PushEntry(s, g, k), h, f, e)
<1>1. ASSUME NEW k \in Handle, k # h PROVE Holds(ConsumedEntry(s, k), h, f, e)
  BY <1>1 DEF ConsumedEntry, Holds, Store
<1>2. ASSUME NEW g \in FamilyId, g # f PROVE Holds(RevokedFamily(s, g), h, f, e)
  BY <1>2 DEF RevokedFamily, Holds, Store, ActiveIn
<1>3. ASSUME NEW g \in FamilyId, g # f PROVE Holds(PushFamily(s, g), h, f, e)
  BY <1>3 DEF PushFamily, Holds, Store
<1>4. ASSUME NEW g \in FamilyId, NEW k \in Handle, k # h
      PROVE  Holds(PushEntry(s, g, k), h, f, e)
  BY <1>4 DEF PushEntry, Holds, Store
<1> QED BY <1>1, <1>2, <1>3, <1>4

(* What became of a session that was there before and is not presented.    *)
LEMMA SessionStays ==
  ASSUME IInv, NEW t, From(t), SessionStep(t),
         NEW h \in Handle, NEW f \in FamilyId, NEW e \in Nat,
         h \in generated, h \notin presented', replay'[f] = "none", now < e,
         Holds(mem, h, f, e), Holds(disk, h, f, e)
  PROVE  Holds(mem', h, f, e) /\ Holds(disk', h, f, e)
<1>1. /\ now \in Nat /\ mem \in Store /\ disk \in Store /\ Cleaned \in Store
      /\ Linked(Cleaned, generated)
  BY CleanedMemory DEF IInv, Typed, Good, Cleaned
<1>2. Holds(Cleaned, h, f, e) /\ Holds(CleanupExpired(disk), h, f, e)
  BY <1>1, CleanupHolds DEF Cleaned
<1>3. Holds(t, h, f, e)
  <2>1. CASE SessionKept(t)
    BY <1>2, <2>1 DEF SessionKept, Holds
  <2>2. ASSUME NEW k \in Handle, k \in presented', t = ConsumedEntry(Cleaned, k)
        PROVE  Holds(t, h, f, e)
    BY <1>1, <1>2, <2>2, OthersHold
  <2>3. ASSUME NEW g \in FamilyId, t = RevokedFamily(Cleaned, g), replay'[g] # "none"
        PROVE  Holds(t, h, f, e)
    BY <1>1, <1>2, <2>3, OthersHold
  <2>4. ASSUME NEW g \in FamilyId, NEW k \in Handle, NEW u \in Store,
               u = Cleaned \/ (g \notin generated /\ u = PushFamily(Cleaned, g)),
               k \notin generated, t = PushEntry(u, g, k)
        PROVE  Holds(t, h, f, e)
    <3>1. f \in generated
      BY <1>1, <1>2 DEF Linked, Holds
    <3>2. Holds(u, h, f, e)
      BY <1>1, <1>2, <2>4, <3>1, OthersHold
    <3> QED BY <2>4, <3>2, OthersHold
  <2> QED BY <2>1, <2>2, <2>3, <2>4 DEF SessionStep
<1>4. Holds(CleanupExpired(t), h, f, e)
  BY <1>1, <1>3, CleanupHolds
<1> QED BY <1>2, <1>3, <1>4 DEF From
(* A handle that a step delivers is active, in both copies, in a family    *)
(* that is open for as long as its client was told.                        *)
LEMMA SessionBegins ==
  ASSUME IInv, IInv', NEW t, SessionStep(t), NEW h \in Handle,
         receipt'[h] # receipt[h]
  PROVE  /\ receipt'[h].family \in FamilyId
         /\ Holds(mem', h, receipt'[h].family, receipt'[h].expiresAt)
         /\ Holds(disk', h, receipt'[h].family, receipt'[h].expiresAt)
<1>1. PICK g \in FamilyId, k \in Handle, u \in Store, q \in Grant :
        /\ t = PushEntry(u, g, k) /\ mem' = t /\ disk' = t
        /\ receipt' = [receipt EXCEPT ![k] =
             [source |-> q, family |-> g, expiresAt |-> t.fam[g].expiresAt]]
  BY DEF SessionStep
<1>2. h = k /\ receipt'[h].family = g /\ receipt'[h].expiresAt = t.fam[g].expiresAt
  BY <1>1 DEF IInv, Typed
<1>3. t.ent[h].status = "active" /\ t.ent[h].family = g
  BY <1>1, <1>2 DEF PushEntry, Store
<1>4. Linked(mem', generated')
  BY DEF IInv, StoresOK, Good
<1>5. t.fam[g].status = "open"
  BY <1>1, <1>3, <1>4 DEF Linked
<1> QED BY <1>1, <1>2, <1>3, <1>5 DEF Holds

LEMMA SessionsNext ==
  ASSUME IInv, IInv', SessionsKept, [Next]_vars
  PROVE  SessionsKept'
<1>1. Onwards /\ \E t : WriteOf(t)
  BY StepWrites
<1>2. PICK t : From(t) /\ SessionStep(t)
  BY <1>1 DEF WriteOf
<1>3. ASSUME NEW h \in Handle, receipt'[h].source # None
      PROVE  receipt'[h].family \in FamilyId
  BY <1>2, <1>3, SessionBegins DEF SessionsKept, Delivered
<1>4. ASSUME NEW h \in Handle, receipt'[h].source # None, h \notin presented',
             replay'[receipt'[h].family] = "none", now' < receipt'[h].expiresAt
      PROVE  Holds(mem', h, receipt'[h].family, receipt'[h].expiresAt)
             /\ Holds(disk', h, receipt'[h].family, receipt'[h].expiresAt)
  <2>1. CASE receipt'[h] # receipt[h]
    BY <1>2, <2>1, SessionBegins
  <2>2. CASE receipt'[h] = receipt[h]
    <3> DEFINE f == receipt[h].family
               e == receipt[h].expiresAt
    <3>1. h \in Delivered /\ h \in generated /\ h \notin presented
      BY <1>1, <1>4, <2>2 DEF Delivered, Onwards, IInv, HistoryOK
    <3>2. now \in Nat /\ e \in Nat /\ now < e
      BY <1>1, <1>4, <2>2 DEF Onwards, IInv, Typed
    <3>3. f \in FamilyId /\ replay[f] = "none"
      BY <1>1, <1>3, <1>4, <2>2 DEF Onwards
    <3>4. Holds(mem, h, f, e) /\ Holds(disk, h, f, e)
      BY <3>1, <3>2, <3>3 DEF SessionsKept
    <3> QED BY <1>2, <1>4, <2>2, <3>1, <3>2, <3>3, <3>4, SessionStays
  <2> QED BY <2>1, <2>2
<1> QED BY <1>3, <1>4 DEF SessionsKept, Delivered

(* No failed write, restart, cleanup or other request takes a delivered    *)
(* session from its client: what it was given last is active in memory and *)
(* in the file until it expires, unless it was presented or replayed.      *)
THEOREM DeliveredSurvives == Spec => []DeliveredHandleSurvives
<1>1. Init => SessionsKept
  BY DEF Init, SessionsKept, Delivered
<1>2. IInv /\ IInv' /\ SessionsKept /\ [Next]_vars => SessionsKept'
  BY SessionsNext
<1>3. ASSUME SessionsKept PROVE DeliveredHandleSurvives
  <2> SUFFICES ASSUME NEW h \in Delivered, h \notin presented,
                      replay[receipt[h].family] = "none", now < receipt[h].expiresAt,
                      NEW s \in {mem, disk}
               PROVE  h \in ActiveIn(s, receipt[h].family)
    BY DEF DeliveredHandleSurvives
  <2>1. Holds(s, h, receipt[h].family, receipt[h].expiresAt)
    BY <1>3 DEF SessionsKept
  <2> QED BY <2>1 DEF Holds, ActiveIn, Delivered
<1> QED BY <1>1, <1>2, <1>3, Invariance, PTL DEF Spec
-----------------------------------------------------------------------------
(* One consent, one exchange.  A store is right about consents when an     *)
(* active code is the only active one of its authorization, which is       *)
(* itself used up, and none of that authorization was exchanged before.    *)
OfConsents(s, G, S, O) ==
  /\ \A a \in Auth : s.auth[a].status # "absent" => a \in G
  /\ \A c \in Code : s.code[c].status = "active" =>
       /\ O[c] \in Auth \cap G
       /\ s.auth[O[c]].status # "active"
       /\ \A d \in Code : s.code[d].status = "active" /\ O[d] = O[c] => d = c
       /\ \A d \in S \cap Code : O[d] # O[c]
  /\ \A d \in S \cap Code : s.auth[O[d]].status # "active"

OneEach(G, S, O) ==
  /\ \A c \in S \cap Code : O[c] \in Auth \cap G
  /\ \A c, d \in S \cap Code : O[c] = O[d] => c = d

ConsentsOK ==
  /\ OfConsents(mem, generated, spent, origin)
  /\ OfConsents(disk, generated, spent, origin)
  /\ OneEach(generated, spent, origin)

LEMMA CleanupConsents ==
  ASSUME NEW s, NEW G, NEW S, NEW O, OfConsents(s, G, S, O), OneEach(G, S, O)
  PROVE  OfConsents(CleanupExpired(s), G, S, O)
<1> DEFINE t == CleanupExpired(s)
<1>1. \A a \in Auth : t.auth[a] = s.auth[a] \/ t.auth[a].status = "absent"
  BY DEF CleanupExpired, NoRecord
<1>2. \A c \in Code : t.code[c] = s.code[c] \/ t.code[c].status = "absent"
  BY DEF CleanupExpired, NoRecord
<1> HIDE DEF t
<1>3. \A a \in Auth : t.auth[a].status # "absent" => t.auth[a] = s.auth[a]
  BY <1>1
<1>4. \A c \in Code : t.code[c].status = "active" => s.code[c].status = "active"
  BY <1>2
<1> QED BY <1>3, <1>4 DEF OfConsents, OneEach, t

LEMMA MoreGenerated ==
  ASSUME NEW G, NEW H, G \subseteq H, NEW S, NEW O,
         NEW s, OfConsents(s, G, S, O)
  PROVE  OfConsents(s, H, S, O)
BY DEF OfConsents

(* The changes of the consents, one by one.                                *)
LEMMA ConsentChanges ==
  ASSUME NEW s \in Store, NEW G, NEW S, NEW O, OfConsents(s, G, S, O), OneEach(G, S, O)
  PROVE  /\ \A a \in Auth : a \notin G =>
              OfConsents(PushAuthorization(s, a), G \cup {a}, S, O)
         /\ \A a \in Auth : s.auth[a].status # "absent" =>
              OfConsents(ConsumedAuthorization(s, a), G, S, O)
         /\ \A c \in Code : OfConsents(ConsumedCode(s, c), G, S, O)
<1>1. ASSUME NEW a \in Auth, a \notin G
      PROVE  OfConsents(PushAuthorization(s, a), G \cup {a}, S, O)
  <2> DEFINE t == PushAuthorization(s, a)
  <2>1. t.code = s.code /\ \A b \in Auth : b # a => t.auth[b] = s.auth[b]
    BY DEF PushAuthorization, Store
  <2> HIDE DEF t
  <2> QED BY <1>1, <2>1 DEF OfConsents, OneEach, t
<1>2. ASSUME NEW a \in Auth, s.auth[a].status # "absent"
      PROVE  OfConsents(ConsumedAuthorization(s, a), G, S, O)
  <2> DEFINE t == ConsumedAuthorization(s, a)
  <2>1. /\ t.code = s.code /\ t.auth[a].status = "consumed"
        /\ \A b \in Auth : b # a => t.auth[b] = s.auth[b]
    BY ConsumedType DEF ConsumedAuthorization, Store
  <2> HIDE DEF t
  <2>2. \A b \in Auth : t.auth[b].status = "active" => s.auth[b].status = "active"
    BY <2>1
  <2>3. \A b \in Auth : t.auth[b].status # "absent" => b \in G
    BY <1>2, <2>1 DEF OfConsents
  <2> QED BY <2>1, <2>2, <2>3 DEF OfConsents, OneEach, t
<1>3. ASSUME NEW c \in Code PROVE OfConsents(ConsumedCode(s, c), G, S, O)
  <2> DEFINE t == ConsumedCode(s, c)
  <2>1. /\ t.auth = s.auth /\ t.code[c].status = "consumed"
        /\ \A d \in Code : d # c => t.code[d] = s.code[d]
    BY ConsumedType DEF ConsumedCode, Store
  <2> HIDE DEF t
  <2>2. \A d \in Code : t.code[d].status = "active" => s.code[d].status = "active"
    BY <2>1
  <2> QED BY <2>1, <2>2 DEF OfConsents, t
<1> QED BY <1>1, <1>2, <1>3
(* A code is minted for an authorization: in the store that has it, and in *)
(* any other.                                                              *)
LEMMA CodeMinted ==
  ASSUME NEW s \in Store, NEW G, NEW S, NEW O, OfConsents(s, G, S, O), OneEach(G, S, O),
         O \in [Code -> Auth \cup {None}], S \subseteq G, Linked(s, G),
         NEW a \in Auth, NEW c \in Code, c \notin G
  PROVE  LET N == [O EXCEPT ![c] = a]
         IN /\ OfConsents(s, G, S, N) /\ OneEach(G, S, N)
            /\ s.auth[a].status = "active" =>
                 OfConsents(PushCode(ConsumedAuthorization(s, a), c), G \cup {c}, S, N)
<1> DEFINE N == [O EXCEPT ![c] = a]
<1>1. N[c] = a /\ \A d \in Code : d # c => N[d] = O[d]
  OBVIOUS
<1> HIDE DEF N
<1>2. \A d \in Code : s.code[d].status # "absent" => d \in G /\ d # c
  BY DEF Linked
<1>3. c \notin S
  OBVIOUS
<1>4. \A d \in Code : s.code[d].status = "active" => d # c
  BY <1>2
<1>5. OfConsents(s, G, S, N) /\ OneEach(G, S, N)
  BY <1>1, <1>3, <1>4 DEF OfConsents, OneEach
<1>6. ASSUME s.auth[a].status = "active"
      PROVE  OfConsents(PushCode(ConsumedAuthorization(s, a), c), G \cup {c}, S, N)
  <2> DEFINE u == ConsumedAuthorization(s, a)
             t == PushCode(u, c)
  <2>1. /\ u.code = s.code /\ u.auth[a].status = "consumed"
        /\ \A b \in Auth : b # a => u.auth[b] = s.auth[b]
    BY ConsumedType DEF ConsumedAuthorization, Store
  <2>2. t.auth = u.auth /\ \A d \in Code : d # c => t.code[d] = s.code[d]
    <3>1. u.code = s.code /\ t = [u EXCEPT !.code[c] =
            [status |-> "active", expiresAt |-> now + CodeTtl]]
      BY <2>1 DEF PushCode
    <3>2. DOMAIN u = {"fam", "ent", "auth", "code"}
      BY DEF ConsumedAuthorization, Store
    <3>3. DOMAIN s.code = Code
      BY DEF Store
    <3> HIDE DEF t, u
    <3> QED BY <3>1, <3>2, <3>3
  <2> HIDE DEF t, u
  <2>3. \A b \in Auth : t.auth[b].status = "active" => s.auth[b].status = "active" /\ b # a
    BY <2>1, <2>2
  <2>4. \A b \in Auth : t.auth[b].status # "absent" => b \in G
    BY <1>6, <2>1, <2>2 DEF OfConsents
  <2>5. \A d \in Code : t.code[d].status = "active" =>
          d = c \/ (d # c /\ s.code[d].status = "active")
    BY <2>2
  <2>6. \A d \in Code : s.code[d].status = "active" => O[d] # a
    BY <1>6 DEF OfConsents
  <2>7. \A d \in S \cap Code : O[d] # a /\ d # c
    BY <1>3, <1>6 DEF OfConsents
  <2>8. a \in G
    BY <1>6 DEF OfConsents
  <2>9. ASSUME NEW d \in Code, t.code[d].status = "active"
        PROVE  /\ N[d] \in Auth \cap (G \cup {c})
               /\ t.auth[N[d]].status # "active"
               /\ \A x \in Code : t.code[x].status = "active" /\ N[x] = N[d] => x = d
               /\ \A x \in S \cap Code : N[x] # N[d]
    <3>1. CASE d = c
      BY <1>1, <2>3, <2>5, <2>6, <2>7, <2>8, <3>1
    <3>2. CASE d # c
      <4>1. /\ s.code[d].status = "active" /\ N[d] = O[d] /\ O[d] # a
            /\ O[d] \in Auth \cap G
        BY <1>1, <2>5, <2>6, <2>9, <3>2 DEF OfConsents
      <4>2. t.auth[N[d]].status # "active"
        BY <2>3, <4>1 DEF OfConsents
      <4>3. \A x \in Code : t.code[x].status = "active" /\ N[x] = N[d] => x = d
        BY <1>1, <2>5, <4>1 DEF OfConsents
      <4>4. \A x \in S \cap Code : N[x] # N[d]
        BY <1>1, <2>7, <4>1 DEF OfConsents
      <4> QED BY <4>1, <4>2, <4>3, <4>4
    <3> QED BY <3>1, <3>2
  <2>10. \A d \in S \cap Code : t.auth[N[d]].status # "active"
    BY <1>1, <2>3, <2>7 DEF OfConsents, OneEach
  <2> QED BY <2>4, <2>9, <2>10 DEF OfConsents, t, u
<1> QED BY <1>5, <1>6 DEF N

(* A code is exchanged.                                                    *)
LEMMA CodeExchanged ==
  ASSUME NEW s \in Store, NEW G, NEW S, NEW O, OfConsents(s, G, S, O), OneEach(G, S, O),
         NEW c \in Code, s.code[c].status = "active"
  PROVE  /\ OfConsents(ConsumedCode(s, c), G, S \cup {c}, O)
         /\ OneEach(G, S \cup {c}, O)
<1> DEFINE t == ConsumedCode(s, c)
<1>1. /\ t.auth = s.auth /\ t.code[c].status = "consumed"
      /\ \A d \in Code : d # c => t.code[d] = s.code[d]
  BY ConsumedType DEF ConsumedCode, Store
<1> HIDE DEF t
<1>2. \A d \in Code : t.code[d].status = "active" => s.code[d].status = "active" /\ d # c
  BY <1>1
<1>3. OfConsents(t, G, S \cup {c}, O)
  BY <1>1, <1>2 DEF OfConsents
<1>4. OneEach(G, S \cup {c}, O)
  BY DEF OfConsents, OneEach
<1> QED BY <1>3, <1>4 DEF t

LEMMA ConsentsNext ==
  ASSUME IInv, ConsentsOK, [Next]_vars
  PROVE  ConsentsOK'
<1>1. Onwards /\ \E t : WriteOf(t)
  BY StepWrites
<1>2. PICK t : From(t) /\ ConsentStep(t)
  BY <1>1 DEF WriteOf
<1>3. /\ mem \in Store /\ disk \in Store /\ Cleaned \in Store
      /\ Linked(mem, generated) /\ Linked(disk, generated) /\ Linked(Cleaned, generated)
      /\ spent \subseteq generated /\ origin \in [Code -> Auth \cup {None}]
      /\ generated \subseteq generated'
  BY <1>1, CleanedMemory DEF IInv, Typed, StoresOK, Good, Cleaned, HistoryOK, Onwards
<1>4. /\ OfConsents(mem, generated, spent, origin)
      /\ OfConsents(disk, generated, spent, origin)
      /\ OneEach(generated, spent, origin)
      /\ OfConsents(Cleaned, generated, spent, origin)
  BY CleanupConsents DEF ConsentsOK, Cleaned
<1> DEFINE Fine(O, S) == /\ OfConsents(mem, generated', S, O)
                         /\ OfConsents(disk, generated', S, O)
                         /\ OfConsents(Cleaned, generated', S, O)
                         /\ OneEach(generated', S, O)
<1>5. Fine(origin, spent)
  BY <1>3, <1>4, MoreGenerated DEF OneEach
<1>6. ASSUME Fine(origin', spent'), OfConsents(t, generated', spent', origin')
      PROVE  ConsentsOK'
  <2>1. /\ OfConsents(CleanupExpired(t), generated', spent', origin')
        /\ OfConsents(CleanupExpired(disk), generated', spent', origin')
    BY <1>6, CleanupConsents
  <2> QED BY <1>2, <1>6, <2>1 DEF From, ConsentsOK
<1>7. CASE ConsentKept(t) /\ origin' = origin /\ spent' \cap Code = spent \cap Code
  <2>1. Fine(origin', spent')
    BY <1>5, <1>7 DEF OfConsents, OneEach
  <2>2. OfConsents(t, generated', spent', origin')
    BY <1>7, <2>1 DEF OfConsents, ConsentKept
  <2> QED BY <1>6, <2>1, <2>2
<1>8. ASSUME NEW a \in Auth, a \notin generated, a \in generated',
             t = PushAuthorization(Cleaned, a), origin' = origin, spent' = spent
      PROVE  ConsentsOK'
  <2>1. generated \cup {a} \subseteq generated'
    BY <1>3, <1>8
  <2>2. OfConsents(t, generated', spent', origin')
    BY <1>3, <1>4, <1>8, <2>1, ConsentChanges, MoreGenerated
  <2> QED BY <1>5, <1>6, <1>8, <2>2
<1>9. ASSUME NEW a \in Auth, Cleaned.auth[a].status = "active",
             t = ConsumedAuthorization(Cleaned, a), origin' = origin, spent' = spent
      PROVE  ConsentsOK'
  <2>1. OfConsents(t, generated', spent', origin')
    BY <1>3, <1>4, <1>9, ConsentChanges, MoreGenerated
  <2> QED BY <1>5, <1>6, <1>9, <2>1
<1>10. ASSUME NEW a \in Auth, NEW c \in Code, Cleaned.auth[a].status = "active",
              c \notin generated, c \in generated', spent' = spent,
              t = PushCode(ConsumedAuthorization(Cleaned, a), c),
              origin' = [origin EXCEPT ![c] = a]
       PROVE  ConsentsOK'
  <2>1. /\ OfConsents(mem, generated, spent', origin')
        /\ OfConsents(disk, generated, spent', origin')
        /\ OfConsents(Cleaned, generated, spent', origin')
        /\ OneEach(generated, spent', origin')
        /\ OfConsents(t, generated \cup {c}, spent', origin')
    BY <1>3, <1>4, <1>10, CodeMinted
  <2>2. generated \cup {c} \subseteq generated'
    BY <1>3, <1>10
  <2>3. Fine(origin', spent') /\ OfConsents(t, generated', spent', origin')
    BY <1>3, <2>1, <2>2, MoreGenerated DEF OneEach
  <2> QED BY <1>6, <2>3
<1>11. ASSUME NEW c \in Code, Cleaned.code[c].status = "active",
              t = ConsumedCode(Cleaned, c), origin' = origin, spent' = spent
       PROVE  ConsentsOK'
  <2>1. OfConsents(t, generated', spent', origin')
    BY <1>3, <1>4, <1>11, ConsentChanges, MoreGenerated
  <2> QED BY <1>5, <1>6, <1>11, <2>1
<1>12. ASSUME NEW c \in Code, Cleaned.code[c].status = "active",
              t = ConsumedCode(Cleaned, c), origin' = origin,
              mem' = t, disk' = t, spent' = spent \cup {c}
       PROVE  ConsentsOK'
  <2>1. OfConsents(t, generated', spent', origin') /\ OneEach(generated', spent', origin')
    BY <1>3, <1>5, <1>12, CodeExchanged
  <2> QED BY <1>12, <2>1 DEF ConsentsOK
<1> HIDE DEF Fine
<1> QED BY <1>2, <1>7, <1>8, <1>9, <1>10, <1>11, <1>12 DEF ConsentStep

(* One consent at the provider is exchanged at most once, although a       *)
(* callback may mint a second code when the write of the first one failed. *)
THEOREM ConsentExchangedOnce == Spec => []AuthorizationExchangedOnce
<1>1. Init => ConsentsOK
  BY DEF Init, ConsentsOK, OfConsents, OneEach, RefreshStoreState, NoRecord
<1>2. IInv /\ ConsentsOK /\ [Next]_vars => ConsentsOK'
  BY ConsentsNext
<1>3. ConsentsOK => AuthorizationExchangedOnce
  BY DEF ConsentsOK, OneEach, AuthorizationExchangedOnce
<1> QED BY <1>1, <1>2, <1>3, Invariance, PTL DEF Spec
=============================================================================
