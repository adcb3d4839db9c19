---------------------------- MODULE BearerTokens ----------------------------
(* How mcp/oauth.mjs verifies the bearer tokens of requests. A token of the *)
(* facade is verified with the server's own key. A delegated one names the  *)
(* key it is signed with; the keys come from the issuer and are kept for a  *)
(* while, and a token with a key that is not among them makes the server    *)
(* ask again, within bounds. Requests are verified concurrently, and the    *)
(* issuer publishes and withdraws keys in the meantime.                     *)
(*                                                                          *)
(* The clock ticks in the time limit of a request to the issuer: one that   *)
(* is sent is over before it has ticked twice. A token is taken to carry a  *)
(* signature of the key it names.                                           *)
EXTENDS Naturals

CONSTANTS
  Request,
  Key,          \* key identifiers, positive numbers; a facade token has none
  KeysTtl,      \* how long the keys are kept
  Cooldown,     \* JWKS_REFRESH_COOLDOWN_MS
  NegativeTtl   \* JWKS_NEGATIVE_KID_TTL_MS

ASSUME KeyAssumption == Key \subseteq Nat \ {0}
ASSUME TtlAssumption ==
  {KeysTtl, Cooldown, NegativeTtl} \subseteq Nat \ {0} /\ Cooldown <= NegativeTtl

VARIABLES
  signing,   \* jwksCache and jwksRefreshState, with the time that is left
  issuer,    \* per key, what the issuer does with it, and since when
  bearer     \* per request, its token and how far it is verified

NewSigning ==
  [keys |-> {}, fresh |-> 0, cooldown |-> 0, unknown |-> [k \in Key |-> 0]]
NoBearer == [at |-> "none", kid |-> 0, asked |-> {}, late |-> FALSE]

Longest == KeysTtl + NegativeTtl + 1  \* beyond it, times are not told apart

BearerInit(published) ==
  /\ signing = NewSigning
  /\ issuer = [k \in Key |-> IF k \in published
                            THEN [at |-> "published", since |-> Longest]
                            ELSE [at |-> "future", since |-> 0]]
  /\ bearer = [r \in Request |-> NoBearer]

Published == {k \in Key : issuer[k].at = "published"}
Waiting(r) == bearer[r].at \in {"fetching", "refreshing"}
Refreshing == \E r \in Request : bearer[r].at = "refreshing"

-----------------------------------------------------------------------------
(* A request comes with a token.                                            *)
Present(r, kid) ==
  bearer' = [bearer EXCEPT ![r] =
    [NoBearer EXCEPT !.kid = kid, !.at = IF kid = 0 THEN "accepted" ELSE "keys"]]

Settled(b, at) == [NoBearer EXCEPT !.kid = b.kid, !.at = at]
Verified(r, at) == bearer' = [bearer EXCEPT ![r] = Settled(@, at)]

fetchJson(r, at) ==
  bearer' = [bearer EXCEPT ![r] =
    [@ EXCEPT !.at = at, !.asked = Published, !.late = FALSE]]

(* What the issuer answers: its keys when it was asked, or by now.          *)
Answers(r) == {bearer[r].asked, Published}

(* Whether a token's key is kept in keys; if not, refreshJwksForUnknownKid  *)
(* refuses it, waits for the answer to another request, or asks.            *)
matchingJwks(r, keys) ==
  LET kid == bearer[r].kid IN
  \/ kid \in keys /\ Verified(r, "accepted")
  \/ /\ kid \notin keys
     /\ CASE signing.unknown[kid] > 0 -> Verified(r, "unknown")
          [] signing.unknown[kid] = 0 /\ Refreshing -> Verified(r, "joined")
          [] OTHER -> IF signing.cooldown > 0 THEN Verified(r, "unknown")
                      ELSE fetchJson(r, "refreshing")

(* Mutant: keys are kept for longer each time they are used.                *)
UsedAgain(s) == [s EXCEPT !.fresh = KeysTtl]

Used(s) == s

(* verifyBearerToken, to its first await: a discovery document that cannot  *)
(* be had, or claims that are refused, end it; a document without keys that *)
(* was kept is refused each time.                                           *)
verifyBearerToken(r) ==
  /\ bearer[r].at = "keys"
  /\ \/ Verified(r, "failed") /\ UNCHANGED signing
     \/ /\ signing.fresh > 0
        /\ signing' = Used(signing)
        /\ IF signing.keys = {} THEN Verified(r, "failed")
           ELSE matchingJwks(r, signing.keys)
     \/ signing.fresh = 0 /\ fetchJson(r, "fetching") /\ UNCHANGED signing
  /\ UNCHANGED issuer

(* cachedJson keeps what it gets, also a document without keys.             *)
cachedJson(r) ==
  /\ bearer[r].at = "fetching"
  /\ \/ Verified(r, "failed") /\ UNCHANGED signing
     \/ \E keys \in Answers(r) \cup {{}} :
          /\ signing' = [signing EXCEPT !.keys = keys, !.fresh = KeysTtl]
          /\ IF keys = {} THEN Verified(r, "failed") ELSE matchingJwks(r, keys)
  /\ UNCHANGED issuer

(* The refresh is answered, to the request that asked and to those that     *)
(* wait for it. A refresh that fails leaves no trace.                       *)
refreshJwksForUnknownKid(r) ==
  LET told == {r} \cup {q \in Request : bearer[q].at = "joined"} IN
  /\ bearer[r].at = "refreshing"
  /\ \/ /\ bearer' = [q \in Request |->
             IF q \in told THEN Settled(bearer[q], "failed") ELSE bearer[q]]
        /\ UNCHANGED signing
     \/ \E keys \in Answers(r) \ {{}} :
          /\ signing' = [signing EXCEPT
               !.keys = keys, !.fresh = KeysTtl, !.cooldown = Cooldown,
               !.unknown[bearer[r].kid] = IF bearer[r].kid \in keys THEN @
                                          ELSE NegativeTtl]
          /\ bearer' = [q \in Request |->
               IF q \notin told THEN bearer[q]
               ELSE Settled(bearer[q],
                            IF bearer[q].kid \in keys THEN "accepted" ELSE "unknown")]
  /\ UNCHANGED issuer

Verify(r) == verifyBearerToken(r) \/ cachedJson(r) \/ refreshJwksForUnknownKid(r)

-----------------------------------------------------------------------------
(* The issuer and the clock.                                                *)

Rotate(k) ==
  /\ issuer[k].at # "withdrawn"
  /\ issuer' = [issuer EXCEPT ![k] =
       [at |-> IF @.at = "future" THEN "published" ELSE "withdrawn", since |-> 0]]
  /\ UNCHANGED <<signing, bearer>>

Less(n) == IF n = 0 THEN 0 ELSE n - 1

(* Mutant: a key that was unknown stays unknown.                            *)
UnknownForGood(unknown) == unknown

UnknownLess(unknown) == [k \in Key |-> Less(unknown[k])]

Tick ==
  /\ \A r \in Request : Waiting(r) => ~bearer[r].late
  /\ signing' = [signing EXCEPT !.fresh = Less(@), !.cooldown = Less(@),
                                !.unknown = UnknownLess(@)]
  /\ issuer' = [k \in Key |->
       IF issuer[k].at = "future" \/ issuer[k].since = Longest THEN issuer[k]
       ELSE [issuer[k] EXCEPT !.since = @ + 1]]
  /\ bearer' = [r \in Request |->
       IF Waiting(r) THEN [bearer[r] EXCEPT !.late = TRUE] ELSE bearer[r]]

Restart ==
  /\ signing' = NewSigning /\ bearer' = [r \in Request |-> NoBearer]
  /\ UNCHANGED issuer

-----------------------------------------------------------------------------
Becomes(r, at) == bearer[r].at # at /\ bearer'[r].at = at

(* A token signed with a key that the issuer publishes is not refused for   *)
(* its key any more once the key has been published for the time that an    *)
(* unknown key is remembered, whatever was in flight when it was published: *)
(* an older answer that arrives last, a refresh for another key, a request  *)
(* that joined it (refreshJwksForUnknownKid, cachedJson). Times are whole   *)
(* ticks, so that in real time both bounds are up to a tick, one request to *)
(* the issuer, longer.                                                      *)
NewKeySoonAccepted ==
  [][\A r \in Request :
       Becomes(r, "unknown") /\ issuer[bearer[r].kid].at = "published"
         => issuer[bearer[r].kid].since <= NegativeTtl]_bearer

(* A token signed with a key that the issuer has withdrawn is not accepted  *)
(* any more once the key has been withdrawn for as long as keys are kept.   *)
WithdrawnKeyExpires ==
  [][\A r \in Request :
       Becomes(r, "accepted") /\ bearer[r].kid # 0
           /\ issuer[bearer[r].kid].at = "withdrawn"
         => issuer[bearer[r].kid].since <= KeysTtl]_bearer
=============================================================================
