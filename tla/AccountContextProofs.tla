------------------------ MODULE AccountContextProofs ------------------------
(***************************************************************************)
(* Theorems about AccountContext, for every number of calls, logins and    *)
(* generations, and whatever other processes do to the stored credential.  *)
(***************************************************************************)
EXTENDS AccountContext, FiniteSetTheorems, TLAPS

Fields == {"pc", "step", "need", "gen", "ctx", "using", "via", "found",
           "guard", "item", "dev", "session"}

(* What a call remembers is never newer than the process.                  *)
CallOK(r) ==
  /\ DOMAIN r = Fields
  /\ r.gen \in Nat /\ r.gen <= generation
  /\ r.pc = "poll" => r.dev \in Nat /\ r.dev <= deviceGeneration

Shape ==
  /\ generation \in Nat /\ deviceGeneration \in Nat
  /\ pendingDevice # None => pendingDevice \in Nat /\ pendingDevice <= deviceGeneration
  /\ DOMAIN call = Call /\ DOMAIN flight = Call
  /\ \A c \in Call : CallOK(call[c])

(* A poll that would still be accepted has been cancelled by nothing.      *)
PollsStand ==
  \A c \in Call :
    /\ call[c].pc = "poll"
    /\ call[c].gen = generation /\ call[c].dev = deviceGeneration
    => c \in standing

CredentialsAllowed ==
  /\ tokenCache # None => tokenCache.ctx \in allowed
  /\ vault # None => vault.ctx \in allowed

(* A refresh that would still be accepted is for an allowed login, and is  *)
(* the one that other calls join.                                          *)
FlightOK(c) ==
  flight[c] # None =>
    /\ flight[c].gen \in Nat /\ flight[c].gen <= generation
    /\ flight[c].gen = generation =>
         flight[c].ctx \in allowed /\ refreshing = c

FlightsAllowed == \A c \in Call : FlightOK(c)

IInv == Shape /\ PollsStand /\ CredentialsAllowed /\ FlightsAllowed

-----------------------------------------------------------------------------
(* Most steps only move calls on: no poll begins, and nothing a call       *)
(* remembers runs ahead of the process.                                    *)
CallsMoveOn ==
  /\ DOMAIN call' = Call
  /\ \A d \in Call :
       /\ DOMAIN call'[d] = Fields
       /\ call'[d].gen \in Nat /\ call'[d].gen <= generation
       /\ call'[d].pc = "poll" =>
            call[d].pc = "poll" /\ call'[d].gen = call[d].gen /\ call'[d].dev = call[d].dev

AuthStands ==
  UNCHANGED <<vault, generation, deviceGeneration, pendingDevice, history>>

LEMMA Idles == DOMAIN Idle = Fields /\ Idle.gen = 0 /\ Idle.pc = "idle"
  BY DEF Idle, Fields

LEMMA MovingOnPreserves ==
  ASSUME IInv, CallsMoveOn, AuthStands, UNCHANGED tokenCache, UNCHANGED refreshing,
         UNCHANGED flight
  PROVE  IInv'
<1>1. Shape'
  BY DEF IInv, Shape, CallOK, CallsMoveOn, AuthStands
<1>2. PollsStand'
  BY DEF IInv, PollsStand, CallsMoveOn, AuthStands, history
<1>3. CredentialsAllowed' /\ FlightsAllowed'
  BY DEF IInv, CredentialsAllowed, FlightsAllowed, FlightOK, AuthStands, history
<1> QED
  BY <1>1, <1>2, <1>3 DEF IInv

(* One call is set to a record that is not a new poll.                     *)
LEMMA SetMovesOn ==
  ASSUME IInv, NEW c \in Call, NEW r, Set(c, r), DOMAIN r = Fields, r.gen \in Nat,
         r.gen <= generation, r.pc # "poll"
  PROVE  CallsMoveOn
  BY DEF IInv, Shape, CallOK, CallsMoveOn, Set

LEMMA AccessTokenPreserves ==
  ASSUME IInv, NEW c \in Call, NEW r, GetAccessToken(c, r), DOMAIN r = Fields,
         r.gen \in Nat, r.gen <= generation, AuthStands
  PROVE  IInv'
<1> DEFINE token == [r EXCEPT !.pc = "token", !.using = Current.ctx]
           joined(d) == [r EXCEPT !.pc = "refresh", !.via = d]
<1>1. /\ DOMAIN token = Fields /\ token.gen = r.gen /\ token.pc = "token"
      /\ \A d : DOMAIN joined(d) = Fields /\ joined(d).gen = r.gen /\ joined(d).pc = "refresh"
  BY DEF Fields
<1>2. Current.ctx \in allowed
  BY DEF GetAccessToken, Current, IInv, CredentialsAllowed
<1> HIDE DEF token, joined
<1>3. CallsMoveOn
  <2>1. \E s : Set(c, s) /\ s \in {token} \cup {joined(d) : d \in {refreshing, c}}
    BY DEF GetAccessToken, token, joined
  <2> QED
    BY <2>1, <1>1, SetMovesOn
<1>4. Shape' /\ PollsStand'
  <2>1. DOMAIN flight' = Call
    BY DEF GetAccessToken, IInv, Shape
  <2> QED
    BY <1>3, <2>1 DEF IInv, Shape, CallOK, PollsStand, CallsMoveOn, AuthStands, history
<1>5. CredentialsAllowed'
  BY <1>2 DEF GetAccessToken, AuthStands, history, IInv, CredentialsAllowed
<1>6. FlightsAllowed'
  <2>1. CASE refreshing' = c /\ refreshing = None
             /\ flight' = [flight EXCEPT ![c] = [ctx |-> Current.ctx, gen |-> generation]]
    <3>1. None # c /\ \A d \in Call : d # None
      BY SetsAssumption
    <3>2. \A d \in Call : flight[d] # None => flight[d].gen # generation
      BY <2>1, <3>1 DEF IInv, FlightsAllowed, FlightOK
    <3> QED
      BY <2>1, <3>1, <3>2, <1>2
      DEF IInv, Shape, FlightsAllowed, FlightOK, AuthStands, history
  <2>2. CASE UNCHANGED <<refreshing, flight>>
    BY <2>2 DEF IInv, FlightsAllowed, FlightOK, AuthStands, history
  <2> QED
    BY <2>1, <2>2 DEF GetAccessToken
<1> QED
  BY <1>4, <1>5, <1>6 DEF IInv

-----------------------------------------------------------------------------
(* The steps of a tool call.                                               *)
Quiet == AuthStands /\ UNCHANGED <<tokenCache, refreshing, flight>>

(* What a step may leave of a call d, other than an idle one.              *)
Continues(r, d) ==
  /\ DOMAIN r = Fields /\ r.gen = call[d].gen
  /\ r.pc = "poll" => call[d].pc = "poll" /\ r.dev = call[d].dev

LEMMA QuietSteps ==
  ASSUME IInv, NEW c \in Call,
         \/ BeginUnscoped(c) \/ JoinScope(c) \/ PublishScope(c) \/ Joined(c)
         \/ Send(c) \/ GraphAnswers(c) \/ Commit(c) \/ SkipSave(c) \/ Preview(c)
         \/ Finish(c) \/ ScopeFails(c) \/ Changed(c) \/ Fail(c) \/ AlreadyAuthenticated(c)
  PROVE  IInv'
<1>1. Quiet
  BY DEF BeginUnscoped, JoinScope, PublishScope, Joined, Send, GraphAnswers, Commit,
         SkipSave, Preview, Finish, ScopeFails, Changed, Fail, AlreadyAuthenticated,
         Quiet, AuthStands, auth, history
<1>2. DOMAIN call[c] = Fields
  BY DEF IInv, Shape, CallOK
<1>3. ASSUME CallsMoveOn PROVE IInv'
  BY <1>1, <1>3, MovingOnPreserves DEF Quiet
<1>4. ASSUME NEW r, Set(c, r), Continues(r, c) PROVE IInv'
  <2>1. CallsMoveOn
    BY <1>4 DEF IInv, Shape, CallOK, CallsMoveOn, Set, Continues
  <2> QED
    BY <1>3, <2>1
<1>5. ASSUME Set(c, Idle) PROVE IInv'
  BY <1>3, <1>5, Idles, SetMovesOn DEF IInv, Shape
<1>6. CASE BeginUnscoped(c)
  <2> DEFINE r == [Idle EXCEPT !.pc = "body", !.step = "read", !.gen = generation]
  <2>1. DOMAIN r = Fields /\ r.gen = generation /\ r.pc = "body"
    BY Idles DEF Fields
  <2>2. Set(c, r)
    BY <1>6 DEF BeginUnscoped
  <2> HIDE DEF r
  <2>3. r.gen \in Nat /\ r.gen <= generation
    BY <2>1 DEF IInv, Shape
  <2> QED
    BY <1>3, <2>1, <2>2, <2>3, SetMovesOn
<1>7. ASSUME Goto(c, "fetch") \/ Goto(c, "refused") PROVE IInv'
  <2>1. /\ Continues([call[c] EXCEPT !.pc = "fetch"], c)
        /\ Continues([call[c] EXCEPT !.pc = "refused"], c)
    BY <1>2 DEF Fields, Continues
  <2> QED
    BY <1>4, <1>7, <2>1 DEF Goto
<1>8. CASE JoinScope(c)
  <2>1. ASSUME NEW x PROVE
          LET r == [call[c] EXCEPT !.pc = "joined", !.using = None, !.found = x]
          IN  Continues(r, c)
    BY <1>2 DEF Fields, Continues
  <2>2. ASSUME NEW x PROVE
          LET r == [call[c] EXCEPT !.pc = "wait", !.using = None, !.via = x]
          IN  Continues(r, c)
    BY <1>2 DEF Fields, Continues
  <2> QED
    BY <1>4, <1>8, <2>1, <2>2 DEF JoinScope
<1>9. Continues(WithScope(call[c]), c)
  BY <1>2 DEF WithScope, Fields, Continues
<1>10. CASE Joined(c)
  <2>1. Continues([call[c] EXCEPT !.pc = "refused", !.found = None], c)
    BY <1>2 DEF Fields, Continues
  <2> QED
    BY <1>4, <1>9, <1>10, <2>1 DEF Joined
<1>11. CASE Changed(c)
  <2>1. Continues([call[c] EXCEPT !.pc = "refused", !.using = None], c)
    BY <1>2 DEF Fields, Continues
  <2> QED
    BY <1>4, <1>11, <2>1 DEF Changed
<1>12. CASE Send(c)
  <2>1. CASE SameAccount(c)
    BY <1>7, <1>12, <2>1 DEF Send
  <2>2. CASE ~SameAccount(c)
    BY <1>7, <1>12, <2>2 DEF Send
  <2> QED
    BY <2>1, <2>2
<1>13. Continues(Proceed(call[c]), c)
  BY <1>2 DEF Proceed, Fields, Continues
<1>14. CASE Commit(c) \/ SkipSave(c)
  BY <1>4, <1>13, <1>14 DEF Commit, SkipSave
<1>15. CASE GraphAnswers(c)
  <2> DEFINE published == [call[c] EXCEPT !.pc = "publish", !.using = None,
                             !.found = [ctx |-> call[c].ctx, drive |-> call[c].using]]
             proceeded == Proceed([call[c] EXCEPT !.item = call[c].using])
  <2>1. Continues(published, c)
    BY <1>2 DEF Fields, Continues
  <2>2. Continues(proceeded, c)
    BY <1>2 DEF Proceed, Fields, Continues
  <2>3. \/ Goto(c, "refused")
        \/ Set(c, IF call[c].need = "drive" THEN published ELSE proceeded)
    BY <1>15 DEF GraphAnswers
  <2> HIDE DEF published, proceeded
  <2>4. CASE Goto(c, "refused")
    BY <1>7, <2>4
  <2>5. CASE Set(c, published) \/ Set(c, proceeded)
    BY <1>4, <2>1, <2>2, <2>5
  <2> QED
    BY <2>3, <2>4, <2>5
<1>16. CASE Preview(c) \/ Finish(c) \/ Fail(c) \/ AlreadyAuthenticated(c)
  BY <1>5, <1>16 DEF Preview, Finish, Fail, AlreadyAuthenticated
<1>17. ASSUME DOMAIN call' = Call, \A d \in Call : Continues(call'[d], d) PROVE IInv'
  BY <1>3, <1>17 DEF IInv, Shape, CallOK, CallsMoveOn, Continues
<1>18. \A d \in Call : Continues(call[d], d)
  BY DEF IInv, Shape, CallOK, Continues
<1>19. CASE PublishScope(c)
  <2>1. Continues([call[c] EXCEPT !.pc = "refused", !.need = "scope", !.found = None], c)
    BY <1>2 DEF Fields, Continues
  <2>2. ASSUME NEW d \in Call, NEW x
        PROVE  Continues([call[d] EXCEPT !.pc = "joined", !.via = None, !.found = x], d)
    BY DEF IInv, Shape, CallOK, Fields, Continues
  <2> QED
    BY <1>9, <1>17, <1>18, <1>19, <2>1, <2>2 DEF PublishScope
<1>20. CASE ScopeFails(c)
  <2>1. ASSUME NEW d \in Call
        PROVE  Continues([call[d] EXCEPT !.pc = "refused", !.need = "scope", !.via = None,
                                         !.ctx = None, !.using = None], d)
    BY DEF IInv, Shape, CallOK, Fields, Continues
  <2> QED
    BY <1>17, <1>18, <1>20, <2>1 DEF ScopeFails
<1> QED
  BY <1>6, <1>8, <1>10, <1>11, <1>12, <1>14, <1>15, <1>16, <1>19, <1>20

LEMMA TokenSteps ==
  ASSUME IInv, NEW c \in Call,
         Begin(c) \/ StartScope(c) \/ Read(c) \/ Save(c) \/ Confirm(c)
  PROVE  IInv'
<1> DEFINE Record(r) == DOMAIN r = Fields /\ r.gen \in Nat /\ r.gen <= generation
<1>1. AuthStands
  BY DEF Begin, StartScope, Read, Save, Confirm, Resolve, AuthStands
<1>2. ASSUME NEW r, GetAccessToken(c, r), Record(r) PROVE IInv'
  BY <1>1, <1>2, AccessTokenPreserves
<1>3. Record(call[c])
  BY DEF IInv, Shape, CallOK
<1>4. CASE Begin(c)
  <2> DEFINE r == [Idle EXCEPT !.step = "open", !.gen = generation]
             s == [r EXCEPT !.need = "scope"]
  <2>1. Record(s)
    BY DEF IInv, Shape, Idle, Fields
  <2>2. GetAccessToken(c, s)
    BY <1>4 DEF Begin, Resolve
  <2> HIDE DEF s
  <2> QED
    BY <1>2, <2>1, <2>2
<1>5. CASE StartScope(c) \/ Save(c)
  BY <1>2, <1>3, <1>5 DEF StartScope, Save, Resolve, Fields
<1>6. CASE Read(c) \/ Confirm(c)
  BY <1>2, <1>3, <1>6 DEF Read, Confirm, Request, Fields
<1> QED
  BY <1>4, <1>5, <1>6

LEMMA RefreshStep ==
  ASSUME IInv, NEW d \in Call, RefreshAnswers(d)
  PROVE  IInv'
<1>1. CallsMoveOn
  BY DEF RefreshAnswers, Settle, Awaiting, IInv, Shape, CallOK, CallsMoveOn, Fields
<1>2. Shape' /\ PollsStand'
  BY <1>1 DEF RefreshAnswers, IInv, Shape, CallOK, PollsStand, CallsMoveOn, history
<1>3. CredentialsAllowed'
  BY DEF RefreshAnswers, StillWanted, IInv, Shape, CredentialsAllowed, FlightsAllowed,
         FlightOK, history
<1>4. FlightsAllowed'
  <2>1. \A c \in Call : c # d => flight'[c] = flight[c]
    BY DEF RefreshAnswers, IInv, Shape
  <2>2. flight'[d] = None
    BY DEF RefreshAnswers, IInv, Shape
  <2> QED
    BY <2>1, <2>2 DEF RefreshAnswers, Done, IInv, FlightsAllowed, FlightOK, history
<1> QED
  BY <1>2, <1>3, <1>4 DEF IInv

-----------------------------------------------------------------------------
(* Device login and logout.                                                *)
LEMMA RequestStep ==
  ASSUME IInv, NEW c \in Call, RequestDeviceCode(c)
  PROVE  IInv'
<1> DEFINE r == [Idle EXCEPT !.pc = "device", !.step = "start", !.gen = generation,
                             !.dev = deviceGeneration + 1]
<1>1. DOMAIN r = Fields /\ r.gen = generation /\ r.pc = "device"
  BY DEF Idle, Fields
<1>2. Set(c, r)
  BY DEF RequestDeviceCode
<1> HIDE DEF r
<1>3. CallsMoveOn
  BY <1>1, <1>2, SetMovesOn DEF IInv, Shape
<1>4. Shape' /\ PollsStand'
  BY <1>3 DEF RequestDeviceCode, IInv, Shape, CallOK, PollsStand, CallsMoveOn
<1>5. CredentialsAllowed' /\ FlightsAllowed'
  BY DEF RequestDeviceCode, IInv, CredentialsAllowed, FlightsAllowed, FlightOK
<1> QED
  BY <1>4, <1>5 DEF IInv

LEMMA StartDeviceStep ==
  ASSUME IInv, NEW c \in Call, StartDevice(c) \/ CredentialRejected(c)
  PROVE  IInv'
<1>1. CASE RequestDeviceCode(c)
  BY <1>1, RequestStep
<1>2. CASE StartDevice(c) /\ ~RequestDeviceCode(c)
  <2> DEFINE r == [Idle EXCEPT !.step = "start", !.need = "start", !.gen = generation]
  <2>1. DOMAIN r = Fields /\ r.gen = generation
    BY DEF Idle, Fields
  <2>2. GetAccessToken(c, r) /\ AuthStands
    BY <1>2 DEF StartDevice, AuthStands
  <2> HIDE DEF r
  <2> QED
    BY <2>1, <2>2, AccessTokenPreserves DEF IInv, Shape
<1> QED
  BY <1>1, <1>2 DEF CredentialRejected

LEMMA DeviceCodeStep ==
  ASSUME IInv, NEW c \in Call, DeviceCodeAnswers(c)
  PROVE  IInv'
<1>1. CallsMoveOn
  BY Idles, SetMovesOn DEF DeviceCodeAnswers, IInv, Shape
<1>2. Shape' /\ PollsStand'
  BY <1>1 DEF DeviceCodeAnswers, IInv, Shape, CallOK, PollsStand, CallsMoveOn, history
<1>3. CredentialsAllowed' /\ FlightsAllowed'
  BY DEF DeviceCodeAnswers, IInv, CredentialsAllowed, FlightsAllowed, FlightOK, history
<1> QED
  BY <1>2, <1>3 DEF IInv

LEMMA PollSteps ==
  ASSUME IInv, NEW c \in Call, StartPoll(c) \/ PollRefused(c)
  PROVE  IInv'
<1>1. CredentialsAllowed' /\ FlightsAllowed'
  BY DEF StartPoll, PollRefused, auth, IInv, CredentialsAllowed, FlightsAllowed, FlightOK
<1>2. CASE StartPoll(c)
  <2> DEFINE dev == IF pendingDevice # None THEN pendingDevice ELSE deviceGeneration
             r == [Idle EXCEPT !.pc = "poll", !.step = "poll", !.gen = generation,
                               !.session = pendingDevice, !.dev = dev]
  <2>1. dev \in Nat /\ dev <= deviceGeneration
    BY DEF IInv, Shape
  <2> HIDE DEF dev
  <2>2. DOMAIN r = Fields /\ r.gen = generation /\ r.dev = dev
    BY DEF Idle, Fields
  <2>3. Set(c, r)
    BY <1>2 DEF StartPoll, dev
  <2> HIDE DEF r
  <2>4. \A d \in Call : call'[d] = IF d = c THEN r ELSE call[d]
    BY <2>3 DEF Set, IInv, Shape
  <2>5. Shape'
    <3>1. UNCHANGED <<generation, deviceGeneration, pendingDevice, flight>> /\ DOMAIN call' = Call
      BY <1>2, <2>3 DEF StartPoll, Set, auth, IInv, Shape
    <3>2. ASSUME NEW d \in Call PROVE CallOK(call[d])'
      <4>1. CASE d = c
        <5>1. call'[d] = r
          BY <2>4, <4>1
        <5> QED
          BY <2>1, <2>2, <3>1, <5>1 DEF IInv, Shape, CallOK
      <4>2. CASE d # c
        BY <2>4, <3>1, <4>2 DEF IInv, Shape, CallOK
      <4> QED
        BY <4>1, <4>2
    <3> QED
      BY <3>1, <3>2 DEF IInv, Shape
  <2>6. PollsStand'
    BY <1>2, <2>4 DEF StartPoll, auth, IInv, PollsStand
  <2> QED
    BY <1>1, <2>5, <2>6 DEF IInv
<1>3. CASE PollRefused(c)
  <2>1. CallsMoveOn
    BY <1>3, Idles, SetMovesOn DEF PollRefused, IInv, Shape
  <2>2. Shape'
    BY <1>3, <2>1 DEF PollRefused, auth, IInv, Shape, CallOK, CallsMoveOn
  <2>3. call'[c].pc = "idle"
    BY <1>3, Idles DEF PollRefused, Set, IInv, Shape
  <2>4. PollsStand'
    BY <1>3, <2>1, <2>3 DEF PollRefused, auth, IInv, PollsStand, CallsMoveOn
  <2> QED
    BY <1>1, <2>2, <2>4 DEF IInv
<1> QED
  BY <1>2, <1>3

(* A login makes every older flight and poll too late.                     *)
LEMMA LogInStep ==
  ASSUME IInv, NEW c \in Call, NEW x \in Context, LogIn(c, x)
  PROVE  IInv'
<1>1. c \in standing
  BY DEF LogIn, PollCurrent, SameGeneration, IInv, PollsStand
<1>2. x \in allowed' /\ tokenCache'.ctx = x
  BY <1>1 DEF LogIn
<1>3. CredentialsAllowed'
  <2>1. CASE vault' = tokenCache'
    BY <1>2, <2>1 DEF CredentialsAllowed
  <2>2. CASE UNCHANGED vault /\ allowed' = allowed \cup {x}
    BY <1>2, <2>2 DEF IInv, CredentialsAllowed
  <2> QED
    BY <1>1, <2>1, <2>2 DEF LogIn
<1>4. CallsMoveOn
  BY Idles, SetMovesOn DEF LogIn, IInv, Shape
<1>5. generation' = generation + 1
  BY DEF LogIn, Invalidate
<1>6. Shape'
  BY <1>4, <1>5 DEF LogIn, IInv, Shape, CallOK, CallsMoveOn
<1>7. PollsStand'
  BY <1>4, <1>5 DEF IInv, Shape, PollsStand, CallsMoveOn
<1>8. FlightsAllowed'
  BY <1>5 DEF LogIn, IInv, Shape, FlightsAllowed, FlightOK
<1> QED
  BY <1>3, <1>6, <1>7, <1>8 DEF IInv

LEMMA LogoutStep ==
  ASSUME IInv, NEW c \in Call, Logout(c)
  PROVE  IInv'
<1>1. generation' = generation + 1
  BY DEF Logout, Invalidate
<1>2. Shape' /\ PollsStand'
  BY <1>1 DEF Logout, IInv, Shape, CallOK, PollsStand
<1>3. CredentialsAllowed'
  BY DEF Logout, CredentialsAllowed
<1>4. FlightsAllowed'
  BY <1>1 DEF Logout, IInv, Shape, FlightsAllowed, FlightOK
<1> QED
  BY <1>2, <1>3, <1>4 DEF IInv

-----------------------------------------------------------------------------
(* The surroundings.                                                       *)
LEMMA OtherSteps ==
  ASSUME IInv, ForgetPreview \/ Expire \/ Foreign \/ Restart
  PROVE  IInv'
<1>1. CASE ForgetPreview
  BY <1>1 DEF ForgetPreview, auth, history, IInv, Shape, CallOK, PollsStand,
              CredentialsAllowed, FlightsAllowed, FlightOK
<1>2. CASE Expire
  <2>1. Shape' /\ PollsStand' /\ FlightsAllowed'
    BY <1>2 DEF Expire, history, IInv, Shape, CallOK, PollsStand, FlightsAllowed, FlightOK
  <2>2. ASSUME NEW t PROVE Old(t) # None => t # None /\ Old(t).ctx = t.ctx
    BY DEF Old
  <2> QED
    BY <1>2, <2>1, <2>2 DEF Expire, history, IInv, CredentialsAllowed
<1>3. CASE Foreign
  <2>1. Shape' /\ PollsStand'
    BY <1>3 DEF Foreign, IInv, Shape, CallOK, PollsStand
  <2>2. allowed \subseteq allowed'
    BY <1>3 DEF Foreign
  <2>3. vault' # None => vault'.ctx \in allowed'
    BY <1>3 DEF Foreign
  <2> QED
    BY <1>3, <2>1, <2>2, <2>3
    DEF Foreign, IInv, CredentialsAllowed, FlightsAllowed, FlightOK
<1>4. CASE Restart
  <2>1. /\ DOMAIN call' = Call /\ DOMAIN flight' = Call
        /\ \A c \in Call : call'[c] = Idle /\ flight'[c] = None
    BY <1>4 DEF Restart
  <2>2. CredentialsAllowed'
    BY <1>4 DEF Restart, CredentialsAllowed
  <2> QED
    BY <1>4, <2>1, <2>2, Idles
    DEF Restart, IInv, Shape, CallOK, PollsStand, FlightsAllowed, FlightOK
<1> QED
  BY <1>1, <1>2, <1>3, <1>4

-----------------------------------------------------------------------------
LEMMA Initial == Init => IInv
<1> SUFFICES ASSUME Init PROVE IInv
  OBVIOUS
<1>1. /\ DOMAIN call = Call /\ DOMAIN flight = Call
      /\ \A c \in Call : call[c] = Idle /\ flight[c] = None
  BY DEF Init
<1>2. CredentialsAllowed
  BY DEF Init, CredentialsAllowed
<1> QED
  BY <1>1, <1>2, Idles DEF Init, IInv, Shape, CallOK, PollsStand, FlightsAllowed, FlightOK

LEMMA Inductive == IInv /\ [Next]_vars => IInv'
<1> SUFFICES ASSUME IInv, [Next]_vars PROVE IInv'
  OBVIOUS
<1>1. ASSUME NEW c \in Call, CallStep(c) PROVE IInv'
  <2>1. CASE \E x \in Context : LogIn(c, x)
    BY <2>1, LogInStep
  <2>2. CASE ~\E x \in Context : LogIn(c, x)
    BY <1>1, <2>2, QuietSteps, TokenSteps, RefreshStep, StartDeviceStep, DeviceCodeStep,
       PollSteps DEF CallStep
  <2> QED
    BY <2>1, <2>2
<1>2. ASSUME NEW c \in Call, Begin(c) \/ BeginUnscoped(c) \/ StartDevice(c) \/ StartPoll(c)
                             \/ Logout(c)
      PROVE  IInv'
  BY <1>2, TokenSteps, QuietSteps, StartDeviceStep, PollSteps, LogoutStep
<1>3. CASE UNCHANGED vars
  BY <1>3 DEF vars, IInv, Shape, CallOK, PollsStand, CredentialsAllowed, FlightsAllowed, FlightOK
<1> QED
  BY <1>1, <1>2, <1>3, OtherSteps DEF Next

(* The invariant that ties credentials, refreshes in flight and polls to   *)
(* the logins that still stand.                                            *)
THEOREM Invariance == Spec => []IInv
  BY Initial, Inductive, PTL DEF Spec

(* A refresh or a device login that is answered after a logout or after    *)
(* another login stores nothing (refreshAccessToken, pollDeviceLogin).     *)
THEOREM NothingLateIsStored == Spec => []LateAuthNotPersisted
<1>1. IInv => LateAuthNotPersisted
  BY DEF IInv, CredentialsAllowed, LateAuthNotPersisted
<1> QED
  BY <1>1, Invariance, PTL

(* getAccessToken never sends a refresh token twice at once.               *)
THEOREM OneRefreshAtATime == Spec => []RefreshCoalesces
<1>1. IInv => RefreshCoalesces
  <2> SUFFICES ASSUME IInv PROVE RefreshCoalesces
    OBVIOUS
  <2> DEFINE S == {c \in Call : flight[c] # None /\ flight[c].gen = generation}
  <2>1. S \subseteq {refreshing}
    BY DEF IInv, FlightsAllowed, FlightOK
  <2>2. IsFiniteSet({refreshing}) /\ Cardinality({refreshing}) = 1
    BY FS_Singleton
  <2>3. Cardinality(S) <= 1
    BY <2>1, <2>2, FS_Subset
  <2> QED
    BY <2>3 DEF RefreshCoalesces
<1> QED
  BY <1>1, Invariance, PTL

-----------------------------------------------------------------------------
(* As long as no other process has changed the stored credential, a        *)
(* generation has one login: all that its calls and refreshes have in hand *)
(* is of the login that Current has.                                       *)

HasLogin(t) == t # None => t \in Token

(* Where a call can be, by what its token is for and how far its tool is.  *)
PlaceOK(r) ==
  /\ r.need \in {"scope", "drive"} => r.step \in {"open", "save", "resave"}
  /\ r.need = "graph" => r.step \in {"read", "mutate"}
  /\ r.need = "drive" => r.pc \in {"token", "refresh", "refused", "fetch", "publish"}
  /\ r.pc \in {"wait", "joined"} => r.need = "scope"
  /\ r.pc = "publish" => r.need = "drive"
  /\ r.pc = "fetch" => r.need \in {"drive", "graph"}
  /\ r.pc = "commit" => r.step \in {"save", "resave"}
  /\ r.pc \in {"token", "fetch"} => r.using # None
  /\ r.step \in {"save", "decide", "mutate", "resave", "end"} => r.item # None
  /\ r.step = "mutate" => r.guard # None

LoginOK(r) ==
  r.gen = generation =>
    /\ r.ctx # None => CurrentIs(r.ctx)
    /\ r.using # None => CurrentIs(r.using)
    /\ r.item # None => CurrentIs(r.item)
    /\ r.guard # None => CurrentIs(r.guard.ctx)
    /\ r.pc \in {"joined", "publish", "commit"} =>
         CurrentIs(r.found.ctx) /\ r.found.drive = r.found.ctx

(* Who resolves the drive of a scope is still at it while others wait.     *)
ScopeOK ==
  activeScope # None =>
    /\ DOMAIN activeScope = {"by", "gen", "ctx", "drive"}
    /\ activeScope.gen = generation /\ CurrentIs(activeScope.ctx)
    /\ activeScope.drive # None => activeScope.drive = activeScope.ctx
    /\ activeScope.drive = None =>
         /\ activeScope.by \in Call /\ call[activeScope.by].need = "drive"
         /\ call[activeScope.by].gen = generation

WaitOK ==
  \A d \in Call : call[d].pc = "wait" =>
    /\ call[d].via \in Call /\ call[call[d].via].need = "drive"
    /\ call[call[d].via].gen = call[d].gen

FlightsOfLogin ==
  \A c \in Call : flight[c] # None =>
    flight[c].ctx # None /\ (flight[c].gen = generation => CurrentIs(flight[c].ctx))

PreviewsScoped == \A p \in previews : p.scope # None

OneLogin ==
  /\ HasLogin(tokenCache) /\ HasLogin(vault)
  /\ \A c \in Call : PlaceOK(call[c]) /\ LoginOK(call[c])
  /\ ScopeOK /\ WaitOK /\ FlightsOfLogin /\ PreviewsScoped /\ LocalStateIsolated

(* Steps that leave the login what it is.                                  *)
LoginStands ==
  /\ generation' = generation
  /\ HasLogin(tokenCache') /\ HasLogin(vault')
  /\ \A x : CurrentIs(x) => CurrentIs(x)'
  /\ FlightsOfLogin'

DriveStays(d, r) ==
  call[d].need = "drive" => r.need = "drive" /\ r.gen = call[d].gen

WaitStays(d, r) ==
  r.pc = "wait" =>
    call[d].pc = "wait" /\ r.via = call[d].via /\ r.gen = call[d].gen

LEMMA LoginOKStands ==
  ASSUME LoginStands, NEW r, LoginOK(r)
  PROVE  LoginOK(r)'
BY DEF LoginStands, LoginOK

LEMMA CallsFrame ==
  ASSUME IInv, OneLogin, LoginStands, DOMAIN call' = Call,
         \A d \in Call : PlaceOK(call'[d]) /\ LoginOK(call'[d]),
         ScopeOK', WaitOK', PreviewsScoped', LocalStateIsolated'
  PROVE  OneLogin'
<1>1. \A d \in Call : PlaceOK(call'[d]) /\ LoginOK(call[d])'
  <2> SUFFICES ASSUME NEW d \in Call PROVE LoginOK(call[d])'
    OBVIOUS
  <2> QED BY DEF LoginStands, LoginOK
<1> QED BY <1>1 DEF OneLogin, LoginStands

LEMMA DrivesFrame ==
  ASSUME IInv, OneLogin, LoginStands, \A d \in Call : DriveStays(d, call'[d]),
         UNCHANGED activeScope
  PROVE  ScopeOK'
BY DEF OneLogin, ScopeOK, LoginStands, DriveStays

LEMMA WaitsFrame ==
  ASSUME IInv, OneLogin,
         \A d \in Call : DriveStays(d, call'[d]) /\ WaitStays(d, call'[d])
  PROVE  WaitOK'
BY DEF OneLogin, WaitOK, DriveStays, WaitStays

(* One call goes on, and leaves the scope as it is.                        *)
Going(c, r) == PlaceOK(r) /\ LoginOK(r) /\ DriveStays(c, r) /\ WaitStays(c, r)

LEMMA OneCall ==
  ASSUME IInv, OneLogin, LoginStands, NEW c \in Call, NEW r, Set(c, r), Going(c, r),
         UNCHANGED activeScope, PreviewsScoped', LocalStateIsolated'
  PROVE  OneLogin'
<1>1. DOMAIN call' = Call /\ call'[c] = r /\ \A d \in Call : d # c => call'[d] = call[d]
  BY DEF Set, IInv, Shape
<1>2. \A d \in Call : Going(d, call'[d])
  <2>1. \A d \in Call : Going(d, call[d])
    BY DEF Going, OneLogin, DriveStays, WaitStays
  <2> QED BY <1>1, <2>1
<1>3. ScopeOK' /\ WaitOK'
  BY <1>2, DrivesFrame, WaitsFrame DEF Going
<1> QED BY <1>1, <1>2, <1>3, CallsFrame DEF Going

LEMMA IdleGoes ==
  ASSUME NEW c \in Call, call[c].need # "drive"
  PROVE  Going(c, Idle)
BY DEF Going, PlaceOK, LoginOK, DriveStays, WaitStays, Idle
(* Steps that touch neither credentials nor refreshes.                     *)
LEMMA QuietStands ==
  ASSUME OneLogin, Quiet
  PROVE  LoginStands
<1>1. UNCHANGED <<tokenCache, vault, generation, flight>>
  BY DEF Quiet, AuthStands
<1>2. \A x : CurrentIs(x)' <=> CurrentIs(x)
  BY <1>1 DEF CurrentIs, Current
<1>3. FlightsOfLogin'
  BY <1>1, <1>2 DEF OneLogin, FlightsOfLogin
<1> QED BY <1>1, <1>2, <1>3 DEF LoginStands, OneLogin

LEMMA ProceedGoes ==
  ASSUME NEW c \in Call, NEW r, DOMAIN r = Fields, r.step \in {"read", "save", "mutate", "resave"},
         LoginOK(r), r.item # None, call[c].need # "drive"
  PROVE  Going(c, Proceed(r))
<1> DEFINE s == Proceed(r)
<1>1. /\ s.pc = "body" /\ s.need = "none" /\ s.ctx = None /\ s.using = None
      /\ s.item = r.item /\ s.guard = r.guard /\ s.gen = r.gen
      /\ s.step \in {"save", "decide", "resave", "end"}
  BY DEF Proceed, Fields, After
<1> HIDE DEF s
<1>2. PlaceOK(s)
  BY <1>1 DEF PlaceOK
<1>3. LoginOK(s)
  BY <1>1 DEF LoginOK
<1> QED BY <1>1, <1>2, <1>3 DEF Going, DriveStays, WaitStays, s

LEMMA ScopeGoes ==
  ASSUME NEW r, DOMAIN r = Fields, PlaceOK(r), LoginOK(r), r.pc \in {"joined", "publish"}
  PROVE  LET s == WithScope(r)
         IN  /\ PlaceOK(s) /\ LoginOK(s) /\ s.need = "none" /\ s.gen = r.gen
             /\ s.pc \in {"body", "commit"}
<1> DEFINE s == WithScope(r)
<1>1. r.step \in {"open", "save", "resave"}
  BY DEF PlaceOK
<1>2. CASE r.step = "open"
  <2>1. /\ s.pc = "body" /\ s.step = "read" /\ s.guard = r.found /\ s.found = None
        /\ s.need = "none" /\ s.ctx = None /\ s.gen = r.gen /\ s.item = r.item
        /\ s.using = r.using
    BY <1>2 DEF WithScope, Fields
  <2> HIDE DEF s
  <2>2. PlaceOK(s)
    BY <2>1 DEF PlaceOK
  <2>3. LoginOK(s)
    BY <2>1 DEF LoginOK
  <2> QED BY <2>1, <2>2, <2>3 DEF s
<1>3. CASE r.step # "open"
  <2>1. /\ s.pc = "commit" /\ s.step = r.step /\ s.guard = r.guard /\ s.found = r.found
        /\ s.need = "none" /\ s.ctx = None /\ s.gen = r.gen /\ s.item = r.item
        /\ s.using = r.using
    BY <1>3 DEF WithScope, Fields
  <2> HIDE DEF s
  <2>2. PlaceOK(s)
    BY <1>1, <1>3, <2>1 DEF PlaceOK
  <2>3. LoginOK(s)
    BY <2>1 DEF LoginOK
  <2> QED BY <2>1, <2>2, <2>3 DEF s
<1> QED BY <1>2, <1>3

LEMMA CommitIsolates ==
  ASSUME IInv, OneLogin, NEW c \in Call, Commit(c)
  PROVE  LocalStateIsolated'
<1>1. CASE ScopeHolds(c, call[c].found)
  <2> DEFINE x == call[c].found.ctx
  <2>1. CurrentIs(x) /\ call[c].gen = generation
    BY <1>1 DEF ScopeHolds, SameGeneration
  <2>2. call[c].item # None /\ CurrentIs(call[c].item)
    BY <2>1 DEF Commit, OneLogin, PlaceOK, LoginOK
  <2>3. call[c].item = x
    BY <2>1, <2>2 DEF CurrentIs
  <2>4. files' = [files EXCEPT ![x] = @ \cup {x}]
    BY <1>1, <2>3 DEF Commit
  <2> HIDE DEF x
  <2> QED BY <2>4 DEF OneLogin, LocalStateIsolated
<1>2. CASE ~ScopeHolds(c, call[c].found)
  BY <1>2 DEF Commit, OneLogin, LocalStateIsolated
<1> QED BY <1>1, <1>2

LEMMA QuietLogin ==
  ASSUME IInv, OneLogin, NEW c \in Call,
         \/ BeginUnscoped(c) \/ Joined(c)
         \/ Send(c) \/ GraphAnswers(c) \/ Commit(c) \/ SkipSave(c) \/ Preview(c)
         \/ Finish(c) \/ Changed(c) \/ Fail(c) \/ AlreadyAuthenticated(c)
  PROVE  OneLogin'
<1>1. Quiet /\ UNCHANGED activeScope
  BY DEF BeginUnscoped, Joined, Send, GraphAnswers, Commit,
         SkipSave, Preview, Finish, Changed, Fail, AlreadyAuthenticated,
         Quiet, AuthStands, auth, history
<1>2. LoginStands
  BY <1>1, QuietStands
<1>3. DOMAIN call[c] = Fields /\ PlaceOK(call[c]) /\ LoginOK(call[c])
  BY DEF IInv, Shape, CallOK, OneLogin
<1>4. PreviewsScoped' /\ LocalStateIsolated'
  <2>1. PreviewsScoped'
    <3>1. CASE Preview(c)
      BY <3>1 DEF Preview, OneLogin, PreviewsScoped
    <3>2. CASE ~Preview(c)
      BY <3>2 DEF BeginUnscoped, Joined, Send, GraphAnswers, Commit, SkipSave, Finish,
         Changed, Fail, AlreadyAuthenticated, OneLogin, PreviewsScoped
    <3> QED BY <3>1, <3>2
  <2>2. CASE Commit(c)
    BY <2>1, <2>2, CommitIsolates
  <2>3. CASE ~Commit(c)
    BY <2>1, <2>3 DEF BeginUnscoped, Joined, Send, GraphAnswers, SkipSave, Preview, Finish,
       Changed, Fail, AlreadyAuthenticated, OneLogin, LocalStateIsolated
  <2> QED BY <2>2, <2>3
<1>5. ASSUME NEW r, Set(c, r), Going(c, r) PROVE OneLogin'
  BY <1>1, <1>2, <1>4, <1>5, OneCall
<1>6. CASE BeginUnscoped(c)
  <2> DEFINE r == [Idle EXCEPT !.pc = "body", !.step = "read", !.gen = generation]
  <2>1. Going(c, r)
    BY <1>6, <1>3 DEF BeginUnscoped, Going, PlaceOK, LoginOK, DriveStays, WaitStays, Idle
  <2> QED BY <1>5, <1>6, <2>1 DEF BeginUnscoped
<1>7. ASSUME NEW r, Set(c, r), DOMAIN r = Fields, r.pc = "refused",
             r.need = call[c].need, r.step = call[c].step, r.gen = call[c].gen,
             r.using \in {call[c].using, None}, r.ctx = call[c].ctx,
             r.item = call[c].item, r.guard = call[c].guard
      PROVE  OneLogin'
  <2>1. Going(c, r)
    BY <1>3, <1>7 DEF Going, PlaceOK, LoginOK, DriveStays, WaitStays
  <2> QED BY <1>5, <1>7, <2>1
<1>8. CASE Joined(c)
  <2>1. CASE Set(c, WithScope(call[c]))
    <3>1. Going(c, WithScope(call[c]))
      BY <1>3, <1>8, ScopeGoes DEF Joined, Going, DriveStays, WaitStays, PlaceOK
    <3> QED BY <1>5, <2>1, <3>1
  <2>2. CASE Set(c, [call[c] EXCEPT !.pc = "refused", !.found = None])
    BY <1>3, <1>7, <2>2 DEF Fields
  <2> QED BY <1>8, <2>1, <2>2 DEF Joined
<1>9. CASE Goto(c, "refused")
  BY <1>3, <1>7, <1>9 DEF Goto, Fields
<1>10. CASE Send(c)
  <2>1. CASE SameAccount(c)
    <3> DEFINE r == [call[c] EXCEPT !.pc = "fetch"]
    <3>1. /\ r.pc = "fetch" /\ r.need = call[c].need /\ r.step = call[c].step
          /\ r.gen = call[c].gen /\ r.using = call[c].using /\ r.ctx = call[c].ctx
          /\ r.item = call[c].item /\ r.guard = call[c].guard
      BY <1>3 DEF Fields
    <3>2. Set(c, r) /\ call[c].pc = "token" /\ call[c].need \in {"drive", "graph"}
      BY <1>10, <2>1 DEF Send, Goto
    <3> HIDE DEF r
    <3>3. Going(c, r)
      BY <1>3, <3>1, <3>2 DEF Going, PlaceOK, LoginOK, DriveStays, WaitStays
    <3> QED BY <1>5, <3>2, <3>3
  <2>2. CASE ~SameAccount(c)
    BY <1>9, <1>10, <2>2 DEF Send
  <2> QED BY <2>1, <2>2
<1>11. CASE GraphAnswers(c)
  <2>1. CASE SameAccount(c) /\ call[c].need = "drive"
    <3> DEFINE r == [call[c] EXCEPT !.pc = "publish", !.using = None,
                          !.found = [ctx |-> call[c].ctx, drive |-> call[c].using]]
    <3>1. /\ r.pc = "publish" /\ r.need = call[c].need /\ r.step = call[c].step
          /\ r.gen = call[c].gen /\ r.using = None /\ r.ctx = call[c].ctx
          /\ r.item = call[c].item /\ r.guard = call[c].guard
          /\ r.found.ctx = call[c].ctx /\ r.found.drive = call[c].using
      BY <1>3 DEF Fields
    <3>2. call[c].using # None /\ CurrentIs(call[c].ctx) /\ call[c].gen = generation
      BY <1>3, <1>11, <2>1 DEF GraphAnswers, PlaceOK, SameAccount, SameGeneration
    <3>3. call[c].ctx = call[c].using
      BY <1>3, <3>2 DEF LoginOK, CurrentIs
    <3>4. Set(c, r) \/ Goto(c, "refused")
      BY <1>11, <2>1 DEF GraphAnswers
    <3> HIDE DEF r
    <3>5. Going(c, r)
      BY <1>3, <2>1, <3>1, <3>2, <3>3 DEF Going, PlaceOK, LoginOK, DriveStays, WaitStays
    <3> QED BY <1>5, <1>9, <3>4, <3>5
  <2>2. CASE SameAccount(c) /\ call[c].need # "drive"
    <3> DEFINE r == [call[c] EXCEPT !.item = call[c].using]
    <3>1. /\ r.pc = call[c].pc /\ r.need = call[c].need /\ r.step = call[c].step
          /\ r.gen = call[c].gen /\ r.using = call[c].using /\ r.ctx = call[c].ctx
          /\ r.item = call[c].using /\ r.guard = call[c].guard
          /\ DOMAIN r = Fields
      BY <1>3 DEF Fields
    <3>2. Set(c, Proceed(r)) \/ Goto(c, "refused")
      BY <1>11, <2>2 DEF GraphAnswers
    <3> HIDE DEF r
    <3>3. call[c].pc = "fetch" /\ call[c].using # None /\ call[c].step \in {"read", "mutate"}
      BY <1>3, <1>11, <2>2 DEF GraphAnswers, PlaceOK
    <3>4. LoginOK(r)
      BY <1>3, <3>1, <3>3 DEF LoginOK
    <3>5. Going(c, Proceed(r))
      BY <2>2, <3>1, <3>3, <3>4, ProceedGoes
    <3> QED BY <1>5, <1>9, <3>2, <3>5
  <2>3. CASE ~SameAccount(c)
    BY <1>9, <1>11, <2>3 DEF GraphAnswers
  <2> QED BY <2>1, <2>2, <2>3
<1>12. CASE Commit(c) \/ SkipSave(c)
  <2>1. /\ call[c].step \in {"save", "resave"} /\ call[c].need # "drive"
        /\ call[c].item # None /\ Set(c, Proceed(call[c]))
    BY <1>3, <1>12 DEF Commit, SkipSave, At, PlaceOK
  <2>2. Going(c, Proceed(call[c]))
    BY <1>3, <2>1, ProceedGoes
  <2> QED BY <1>5, <2>1, <2>2
<1>13. CASE Preview(c) \/ Finish(c) \/ Fail(c) \/ AlreadyAuthenticated(c)
  <2>1. Set(c, Idle) /\ call[c].need # "drive"
    BY <1>3, <1>13 DEF Preview, Finish, Fail, AlreadyAuthenticated, At, PlaceOK
  <2> QED BY <1>5, <2>1, IdleGoes
<1>14. CASE Changed(c)
  BY <1>3, <1>7, <1>14 DEF Changed, At, Fields
<1> QED BY <1>6, <1>8, <1>10, <1>11, <1>12, <1>13, <1>14
(* The steps that end a wait for a scope, or begin one.                    *)
LEMMA JoinScopeLogin ==
  ASSUME IInv, OneLogin, NEW c \in Call, JoinScope(c)
  PROVE  OneLogin'
<1>1. Quiet /\ UNCHANGED <<activeScope, previews, files>>
  BY DEF JoinScope, Quiet, AuthStands, auth, history
<1>2. LoginStands /\ PreviewsScoped' /\ LocalStateIsolated'
  BY <1>1, QuietStands DEF OneLogin, PreviewsScoped, LocalStateIsolated
<1>3. DOMAIN call[c] = Fields /\ PlaceOK(call[c]) /\ LoginOK(call[c])
  BY DEF IInv, Shape, CallOK, OneLogin
<1>4. /\ call[c].need = "scope" /\ call[c].pc = "token" /\ call[c].gen = generation
      /\ activeScope # None
  BY DEF JoinScope, At, SameGeneration, Joinable
<1>5. CASE ScopeKnown
  <2> DEFINE r == [call[c] EXCEPT !.pc = "joined", !.using = None,
                    !.found = [ctx |-> activeScope.ctx, drive |-> activeScope.drive]]
  <2>1. /\ r.pc = "joined" /\ r.need = "scope" /\ r.step = call[c].step
        /\ r.gen = call[c].gen /\ r.using = None /\ r.ctx = call[c].ctx
        /\ r.item = call[c].item /\ r.guard = call[c].guard
        /\ r.found.ctx = activeScope.ctx /\ r.found.drive = activeScope.drive
    BY <1>3, <1>4 DEF Fields
  <2>2. Set(c, r)
    BY <1>5 DEF JoinScope
  <2> HIDE DEF r
  <2>3. CurrentIs(activeScope.ctx) /\ activeScope.drive = activeScope.ctx
    BY <1>4, <1>5 DEF OneLogin, ScopeOK, ScopeKnown
  <2>4. Going(c, r)
    BY <1>3, <1>4, <2>1, <2>3 DEF Going, PlaceOK, LoginOK, DriveStays, WaitStays
  <2> QED BY <1>1, <1>2, <2>2, <2>4, OneCall
<1>6. CASE ~ScopeKnown
  <2> DEFINE r == [call[c] EXCEPT !.pc = "wait", !.using = None, !.via = activeScope.by]
  <2>1. /\ r.pc = "wait" /\ r.need = "scope" /\ r.step = call[c].step
        /\ r.gen = call[c].gen /\ r.using = None /\ r.ctx = call[c].ctx
        /\ r.item = call[c].item /\ r.guard = call[c].guard /\ r.via = activeScope.by
    BY <1>3, <1>4 DEF Fields
  <2>2. Set(c, r)
    BY <1>6 DEF JoinScope
  <2> HIDE DEF r
  <2>3. /\ activeScope.by \in Call /\ call[activeScope.by].need = "drive"
        /\ call[activeScope.by].gen = generation
    BY <1>4, <1>6 DEF OneLogin, ScopeOK, ScopeKnown
  <2>4. PlaceOK(r) /\ LoginOK(r) /\ DriveStays(c, r)
    BY <1>3, <1>4, <2>1, <2>3 DEF PlaceOK, LoginOK, DriveStays
  <2>5. DOMAIN call' = Call /\ call'[c] = r /\ \A d \in Call : d # c => call'[d] = call[d]
    BY <2>2 DEF Set, IInv, Shape
  <2>6. \A d \in Call : PlaceOK(call'[d]) /\ LoginOK(call'[d]) /\ DriveStays(d, call'[d])
    <3>1. \A d \in Call : PlaceOK(call[d]) /\ LoginOK(call[d]) /\ DriveStays(d, call[d])
      BY DEF OneLogin, DriveStays
    <3> QED BY <2>4, <2>5, <3>1
  <2>7. ScopeOK'
    BY <1>1, <1>2, <2>6, DrivesFrame
  <2>8. WaitOK'
    <3> SUFFICES ASSUME NEW d \in Call, call'[d].pc = "wait"
                 PROVE  /\ call'[d].via \in Call /\ call'[call'[d].via].need = "drive"
                        /\ call'[call'[d].via].gen = call'[d].gen
      BY DEF WaitOK
    <3>1. CASE d = c
      <4>1. activeScope.by # c
        BY <1>4, <2>3
      <4> QED BY <1>4, <2>1, <2>3, <2>5, <3>1, <4>1
    <3>2. CASE d # c
      <4>1. /\ call[d].via \in Call /\ call[call[d].via].need = "drive"
            /\ call[call[d].via].gen = call[d].gen
        BY <2>5, <3>2 DEF OneLogin, WaitOK
      <4>2. call[d].via # c
        BY <1>4, <4>1
      <4> QED BY <2>5, <3>2, <4>1, <4>2
    <3> QED BY <3>1, <3>2
  <2> QED BY <1>2, <2>5, <2>6, <2>7, <2>8, CallsFrame
<1> QED BY <1>5, <1>6

(* A call gives up the resolution of a scope, done or failed: nobody waits *)
(* for it afterwards.                                                      *)
LEMMA NobodyWaits ==
  ASSUME IInv, OneLogin, NEW c \in Call,
         \A d \in Call \ {c} : d \notin Joiners(c) => call'[d] = call[d],
         \A d \in Joiners(c) \cup {c} : call'[d].pc # "wait"
  PROVE  WaitOK' /\ \A d \in Call \ {c} : call[d].need = "drive" => call'[d] = call[d]
<1>1. \A d \in Call \ {c} : call[d].need = "drive" => call'[d] = call[d]
  BY DEF Joiners, OneLogin, PlaceOK
<1>2. WaitOK'
  <2> SUFFICES ASSUME NEW d \in Call, call'[d].pc = "wait"
               PROVE  /\ call'[d].via \in Call /\ call'[call'[d].via].need = "drive"
                      /\ call'[call'[d].via].gen = call'[d].gen
    BY DEF WaitOK
  <2>1. d # c /\ d \notin Joiners(c) /\ call'[d] = call[d]
    OBVIOUS
  <2>2. /\ call[d].via \in Call /\ call[call[d].via].need = "drive"
        /\ call[call[d].via].gen = call[d].gen /\ call[d].via # c
    BY <2>1 DEF OneLogin, WaitOK, Joiners
  <2>3. call'[call[d].via] = call[call[d].via]
    BY <1>1, <2>2
  <2> QED BY <2>1, <2>2, <2>3
<1> QED BY <1>1, <1>2
LEMMA PublishScopeLogin ==
  ASSUME IInv, OneLogin, NEW c \in Call, PublishScope(c)
  PROVE  OneLogin'
<1>1. Quiet /\ UNCHANGED <<previews, files>>
  BY DEF PublishScope, Quiet, AuthStands, auth, history
<1>2. LoginStands /\ PreviewsScoped' /\ LocalStateIsolated'
  BY <1>1, QuietStands DEF OneLogin, PreviewsScoped, LocalStateIsolated
<1>3. \A d \in Call : DOMAIN call[d] = Fields /\ PlaceOK(call[d]) /\ LoginOK(call[d])
  BY DEF IInv, Shape, CallOK, OneLogin
<1>4. call[c].pc = "publish" /\ call[c].need = "drive" /\ call[c].step \in {"open", "save", "resave"}
  BY <1>3 DEF PublishScope, PlaceOK
<1> DEFINE refused == [call[c] EXCEPT !.pc = "refused", !.need = "scope", !.found = None]
           joined(d) == [call[d] EXCEPT !.pc = "joined", !.via = None, !.found = call[c].found]
<1>5. /\ DOMAIN call' = Call
      /\ call'[c] = IF Publishable(c) THEN WithScope(call[c]) ELSE refused
      /\ \A d \in Joiners(c) : call'[d] = joined(d)
      /\ \A d \in Call \ {c} : d \notin Joiners(c) => call'[d] = call[d]
  BY <1>4 DEF PublishScope, Joiners
<1>6. PlaceOK(refused) /\ LoginOK(refused) /\ refused.pc = "refused"
  <2>1. /\ refused.pc = "refused" /\ refused.need = "scope" /\ refused.step = call[c].step
        /\ refused.gen = call[c].gen /\ refused.using = call[c].using
        /\ refused.ctx = call[c].ctx /\ refused.item = call[c].item
        /\ refused.guard = call[c].guard
    BY <1>3 DEF Fields
  <2> HIDE DEF refused
  <2> QED BY <1>3, <1>4, <2>1 DEF PlaceOK, LoginOK
<1>7. ASSUME NEW d \in Joiners(c)
      PROVE  PlaceOK(joined(d)) /\ LoginOK(joined(d)) /\ joined(d).pc = "joined"
  <2> DEFINE r == joined(d)
  <2>1. d \in Call /\ call[d].pc = "wait" /\ call[d].via = c /\ call[d].need = "scope"
    BY <1>3 DEF Joiners, PlaceOK
  <2>2. /\ r.pc = "joined" /\ r.need = "scope" /\ r.step = call[d].step
        /\ r.gen = call[d].gen /\ r.using = call[d].using
        /\ r.ctx = call[d].ctx /\ r.item = call[d].item
        /\ r.guard = call[d].guard /\ r.found = call[c].found
    BY <1>3, <2>1 DEF Fields
  <2>3. call[d].gen = call[c].gen
    BY <2>1 DEF OneLogin, WaitOK
  <2> HIDE DEF joined
  <2>4. PlaceOK(r)
    BY <1>3, <2>1, <2>2 DEF PlaceOK
  <2>5. LoginOK(r)
    BY <1>3, <1>4, <2>1, <2>2, <2>3 DEF LoginOK
  <2> QED BY <2>2, <2>4, <2>5
<1> HIDE DEF refused, joined
<1>8. /\ PlaceOK(WithScope(call[c])) /\ LoginOK(WithScope(call[c]))
      /\ WithScope(call[c]).pc # "wait"
  BY <1>3, <1>4, ScopeGoes
<1>9. \A d \in Call : PlaceOK(call'[d]) /\ LoginOK(call'[d])
  BY <1>3, <1>5, <1>6, <1>7, <1>8
<1>10. \A d \in Joiners(c) \cup {c} : call'[d].pc # "wait"
  BY <1>5, <1>6, <1>7, <1>8
<1>11. WaitOK' /\ \A d \in Call \ {c} : call[d].need = "drive" => call'[d] = call[d]
  BY <1>5, <1>10, NobodyWaits
<1>12. ScopeOK'
  <2>1. generation' = generation /\ \A x : CurrentIs(x) => CurrentIs(x)'
    BY <1>2 DEF LoginStands
  <2>2. CASE Publishable(c)
    <3>1. activeScope' = [activeScope EXCEPT !.drive = call[c].found.drive] /\ activeScope # None
      BY <2>2 DEF PublishScope, Publishable
    <3>2. call[c].found.drive = call[c].found.ctx /\ CurrentIs(call[c].found.ctx)
      BY <1>3, <1>4, <2>2 DEF Publishable, SameAccount, SameGeneration, LoginOK
    <3>3. call[c].found.drive = activeScope.ctx
      BY <3>1, <3>2 DEF OneLogin, ScopeOK, CurrentIs
    <3>4. CurrentIs(call[c].found.drive)
      BY <3>2
    <3>5. HasLogin(Current)
      BY DEF OneLogin, HasLogin, Current
    <3>6. activeScope.ctx # None
      BY <3>3, <3>4, <3>5, SetsAssumption DEF CurrentIs, HasLogin, Token
    <3>7. /\ DOMAIN activeScope' = {"by", "gen", "ctx", "drive"}
          /\ activeScope'.gen = activeScope.gen /\ activeScope'.ctx = activeScope.ctx
          /\ activeScope'.drive = activeScope.ctx
      BY <3>1, <3>3 DEF OneLogin, ScopeOK
    <3> QED BY <2>1, <3>1, <3>6, <3>7 DEF OneLogin, ScopeOK
  <2>3. CASE ~Publishable(c) /\ activeScope # None /\ activeScope.by = c
    BY <2>3 DEF PublishScope, ScopeOK
  <2>4. CASE ~Publishable(c) /\ ~(activeScope # None /\ activeScope.by = c)
    <3>1. UNCHANGED activeScope
      BY <2>4 DEF PublishScope
    <3> QED BY <1>11, <2>1, <2>4, <3>1 DEF OneLogin, ScopeOK
  <2> QED BY <2>2, <2>3, <2>4
<1> QED BY <1>2, <1>5, <1>9, <1>11, <1>12, CallsFrame

LEMMA ScopeFailsLogin ==
  ASSUME IInv, OneLogin, NEW c \in Call, ScopeFails(c)
  PROVE  OneLogin'
<1>1. Quiet /\ UNCHANGED <<previews, files>>
  BY DEF ScopeFails, Quiet, AuthStands, auth, history
<1>2. LoginStands /\ PreviewsScoped' /\ LocalStateIsolated'
  BY <1>1, QuietStands DEF OneLogin, PreviewsScoped, LocalStateIsolated
<1>3. \A d \in Call : DOMAIN call[d] = Fields /\ PlaceOK(call[d]) /\ LoginOK(call[d])
  BY DEF IInv, Shape, CallOK, OneLogin
<1> DEFINE refused(d) == [call[d] EXCEPT !.pc = "refused", !.need = "scope", !.via = None,
                                         !.ctx = None, !.using = None]
<1>4. /\ DOMAIN call' = Call
      /\ \A d \in Joiners(c) \cup {c} : call'[d] = refused(d)
      /\ \A d \in Call \ {c} : d \notin Joiners(c) => call'[d] = call[d]
  BY DEF ScopeFails, Joiners
<1>5. ASSUME NEW d \in Joiners(c) \cup {c}
      PROVE  PlaceOK(refused(d)) /\ LoginOK(refused(d)) /\ refused(d).pc = "refused"
  <2> DEFINE r == refused(d)
  <2>1. d \in Call /\ call[d].need \in {"scope", "drive"}
    BY <1>3 DEF Joiners, PlaceOK, ScopeFails, At
  <2>2. /\ r.pc = "refused" /\ r.need = "scope" /\ r.step = call[d].step
        /\ r.gen = call[d].gen /\ r.using = None
        /\ r.ctx = None /\ r.item = call[d].item
        /\ r.guard = call[d].guard
    BY <1>3, <2>1 DEF Fields
  <2> HIDE DEF refused
  <2> QED BY <1>3, <2>1, <2>2 DEF PlaceOK, LoginOK
<1> HIDE DEF refused
<1>6. \A d \in Call : PlaceOK(call'[d]) /\ LoginOK(call'[d])
  BY <1>3, <1>4, <1>5
<1>7. \A d \in Joiners(c) \cup {c} : call'[d].pc # "wait"
  BY <1>4, <1>5
<1>8. WaitOK' /\ \A d \in Call \ {c} : call[d].need = "drive" => call'[d] = call[d]
  BY <1>4, <1>7, NobodyWaits
<1>9. ScopeOK'
  <2>1. generation' = generation /\ \A x : CurrentIs(x) => CurrentIs(x)'
    BY <1>2 DEF LoginStands
  <2>2. CASE activeScope # None /\ activeScope.by = c
    BY <2>2 DEF ScopeFails, ScopeOK
  <2>3. CASE ~(activeScope # None /\ activeScope.by = c)
    <3>1. UNCHANGED activeScope
      BY <2>3 DEF ScopeFails
    <3> QED BY <1>8, <2>1, <2>3, <3>1 DEF OneLogin, ScopeOK
  <2> QED BY <2>2, <2>3
<1> QED BY <1>2, <1>4, <1>6, <1>8, <1>9, CallsFrame
(* getAccessToken: a fresh token is used, a refresh is joined or begun.    *)
Asks(r) ==
  /\ DOMAIN r = Fields /\ r.gen = generation
  /\ r.need \in {"scope", "drive"} => r.step \in {"open", "save", "resave"}
  /\ r.need = "graph" => r.step \in {"read", "mutate"}
  /\ r.step \in {"save", "decide", "mutate", "resave", "end"} => r.item # None
  /\ r.step = "mutate" => r.guard # None
  /\ r.ctx # None => CurrentIs(r.ctx)
  /\ r.item # None => CurrentIs(r.item)
  /\ r.guard # None => CurrentIs(r.guard.ctx)
  /\ r.using # None => CurrentIs(r.using)

(* What becomes of the call that asks.                                     *)
Asked(r, s) ==
  /\ PlaceOK(s) /\ LoginOK(s) /\ s.need = r.need /\ s.gen = r.gen
  /\ s.pc \in {"token", "refresh"}

LEMMA AccessTokenLogin ==
  ASSUME IInv, OneLogin, NEW c \in Call, NEW r, Asks(r), GetAccessToken(c, r),
         UNCHANGED <<vault, generation>>
  PROVE  LoginStands /\ \E s : Set(c, s) /\ Asked(r, s)
<1> DEFINE token == [r EXCEPT !.pc = "token", !.using = Current.ctx]
           joined(d) == [r EXCEPT !.pc = "refresh", !.via = d]
<1>1. Current # None /\ Current.ctx \in Context /\ Current.ctx # None /\ CurrentIs(Current.ctx)
  BY SetsAssumption DEF GetAccessToken, OneLogin, HasLogin, Token, Current, CurrentIs
<1>2. Asked(r, token)
  <2>1. /\ token.pc = "token" /\ token.need = r.need /\ token.gen = r.gen
        /\ token.using = Current.ctx /\ token.step = r.step /\ token.ctx = r.ctx
        /\ token.item = r.item /\ token.guard = r.guard
    BY DEF Asks, Fields
  <2> HIDE DEF token
  <2>2. PlaceOK(token)
    BY <1>1, <2>1 DEF Asks, PlaceOK
  <2>3. LoginOK(token)
    BY <1>1, <2>1 DEF Asks, LoginOK
  <2> QED BY <2>1, <2>2, <2>3 DEF Asked
<1>3. \A d : Asked(r, joined(d))
  <2> TAKE d
  <2> DEFINE s == joined(d)
  <2>1. /\ s.pc = "refresh" /\ s.need = r.need /\ s.gen = r.gen
        /\ s.using = r.using /\ s.step = r.step /\ s.ctx = r.ctx
        /\ s.item = r.item /\ s.guard = r.guard
    BY DEF Asks, Fields
  <2> HIDE DEF joined
  <2>2. PlaceOK(s)
    BY <2>1 DEF Asks, PlaceOK
  <2>3. LoginOK(s)
    BY <2>1 DEF Asks, LoginOK
  <2> QED BY <2>1, <2>2, <2>3 DEF Asked
<1>4. \E s : Set(c, s) /\ Asked(r, s)
  <2>1. Set(c, token) \/ \E d : Set(c, joined(d))
    BY DEF GetAccessToken
  <2> HIDE DEF token, joined
  <2> QED BY <1>2, <1>3, <2>1
<1>5. tokenCache' \in {Current, tokenCache} /\ vault' = vault /\ generation' = generation
  BY DEF GetAccessToken
<1>6. /\ \A x : CurrentIs(x)' <=> CurrentIs(x)
      /\ HasLogin(tokenCache') /\ HasLogin(vault')
  BY <1>1, <1>5 DEF CurrentIs, Current, OneLogin, HasLogin
<1>7. FlightsOfLogin'
  <2>1. CASE UNCHANGED flight
    BY <1>5, <1>6, <2>1 DEF OneLogin, FlightsOfLogin
  <2>2. CASE flight' = [flight EXCEPT ![c] = [ctx |-> Current.ctx, gen |-> generation]]
    <3>1. /\ flight'[c].ctx = Current.ctx /\ flight'[c].gen = generation
          /\ \A d \in Call : d # c => flight'[d] = flight[d]
      BY <2>2 DEF IInv, Shape
    <3>2. CurrentIs(Current.ctx)'
      BY <1>1, <1>5 DEF CurrentIs, Current
    <3> SUFFICES ASSUME NEW d \in Call, flight'[d] # None
                 PROVE  /\ flight'[d].ctx # None
                        /\ flight'[d].gen = generation => CurrentIs(flight[d].ctx)'
      BY <1>5 DEF FlightsOfLogin
    <3>3. CASE d = c
      BY <1>1, <1>5, <1>6, <2>2, <3>1, <3>2, <3>3 DEF CurrentIs, Current
    <3>4. CASE d # c
      <4>1. flight'[d] = flight[d]
        BY <3>1, <3>4
      <4>2. flight[d].ctx # None /\ (flight[d].gen = generation => CurrentIs(flight[d].ctx))
        BY <4>1 DEF OneLogin, FlightsOfLogin
      <4> QED BY <1>5, <4>1, <4>2 DEF CurrentIs, Current
    <3> QED BY <3>3, <3>4
  <2> QED BY <2>1, <2>2 DEF GetAccessToken
<1> QED BY <1>4, <1>5, <1>6, <1>7 DEF LoginStands

LEMMA AskingLogin ==
  ASSUME IInv, OneLogin, NEW c \in Call,
         Begin(c) \/ Read(c) \/ Save(c) \/ Confirm(c) \/ (StartDevice(c) /\ ~RequestDeviceCode(c))
  PROVE  OneLogin'
<1>1. UNCHANGED <<vault, generation, activeScope, files>>
  BY DEF Begin, Read, Save, Confirm, StartDevice, Resolve
<1>2. PreviewsScoped' /\ LocalStateIsolated'
  <2>1. previews' \subseteq previews
    BY DEF Begin, Read, Save, Confirm, StartDevice, Resolve
  <2> QED BY <1>1, <2>1 DEF OneLogin, PreviewsScoped, LocalStateIsolated
<1>3. DOMAIN call[c] = Fields /\ PlaceOK(call[c]) /\ LoginOK(call[c])
  BY DEF IInv, Shape, CallOK, OneLogin
<1>4. ASSUME NEW r, Asks(r), GetAccessToken(c, r), call[c].need # "drive"
      PROVE  OneLogin'
  <2>1. LoginStands /\ \E s : Set(c, s) /\ Asked(r, s)
    BY <1>1, <1>4, AccessTokenLogin
  <2>2. PICK s : Set(c, s) /\ Asked(r, s)
    BY <2>1
  <2>3. Going(c, s)
    BY <1>4, <2>2 DEF Asked, Going, DriveStays, WaitStays
  <2> QED BY <1>1, <1>2, <2>1, <2>2, <2>3, OneCall
<1>5. CASE Begin(c)
  <2> DEFINE r == [[Idle EXCEPT !.step = "open", !.gen = generation] EXCEPT !.need = "scope"]
  <2>1. Asks(r)
    BY DEF Asks, Idle, Fields
  <2>2. GetAccessToken(c, r) /\ call[c].need # "drive"
    BY <1>3, <1>5 DEF Begin, Resolve, PlaceOK
  <2> HIDE DEF r
  <2> QED BY <1>4, <2>1, <2>2
<1>6. CASE StartDevice(c) /\ ~RequestDeviceCode(c)
  <2> DEFINE r == [Idle EXCEPT !.step = "start", !.need = "start", !.gen = generation]
  <2>1. Asks(r)
    BY DEF Asks, Idle, Fields
  <2>2. GetAccessToken(c, r) /\ call[c].need # "drive"
    BY <1>3, <1>6 DEF StartDevice, PlaceOK
  <2> HIDE DEF r
  <2> QED BY <1>4, <2>1, <2>2
<1>7. CASE Save(c)
  <2> DEFINE r == [call[c] EXCEPT !.need = "scope"]
  <2>1. /\ DOMAIN r = Fields /\ r.need = "scope" /\ r.gen = call[c].gen
        /\ r.using = call[c].using /\ r.step = call[c].step /\ r.ctx = call[c].ctx
        /\ r.item = call[c].item /\ r.guard = call[c].guard
    BY <1>3 DEF Fields
  <2>2. GetAccessToken(c, r) /\ call[c].pc = "body" /\ call[c].step \in {"save", "resave"}
    BY <1>7 DEF Save, Resolve
  <2>3. call[c].gen = generation
    BY <1>7 DEF Save, SameGeneration
  <2> HIDE DEF r
  <2>4. Asks(r) /\ call[c].need # "drive"
    BY <1>3, <2>1, <2>2, <2>3 DEF Asks, PlaceOK, LoginOK
  <2> QED BY <1>4, <2>2, <2>4
<1>8. ASSUME call[c].gen = generation, CurrentIs(Current.ctx), call[c].pc = "body"
      PROVE  /\ call[c].step = "read" =>
                  Asks([call[c] EXCEPT !.need = "graph", !.ctx = Current.ctx])
             /\ call[c].step = "decide" /\ call[c].guard # None =>
                  Asks([[call[c] EXCEPT !.step = "mutate"] EXCEPT
                          !.need = "graph", !.ctx = Current.ctx])
  <2>1. ASSUME NEW r, DOMAIN r = Fields, r.need = "graph", r.gen = call[c].gen,
               r.using = call[c].using, r.ctx = Current.ctx, r.item = call[c].item,
               r.guard = call[c].guard,
               \/ r.step = "read" /\ call[c].step = "read"
               \/ r.step = "mutate" /\ call[c].step = "decide" /\ call[c].guard # None
        PROVE  Asks(r)
    BY <1>3, <1>8, <2>1 DEF Asks, PlaceOK, LoginOK
  <2>2. ASSUME call[c].step = "read"
        PROVE  Asks([call[c] EXCEPT !.need = "graph", !.ctx = Current.ctx])
    <3> DEFINE r == [call[c] EXCEPT !.need = "graph", !.ctx = Current.ctx]
    <3>1. /\ DOMAIN r = Fields /\ r.need = "graph" /\ r.gen = call[c].gen
          /\ r.using = call[c].using /\ r.step = call[c].step /\ r.ctx = Current.ctx
          /\ r.item = call[c].item /\ r.guard = call[c].guard
      BY <1>3 DEF Fields
    <3> HIDE DEF r
    <3>2. Asks(r)
      BY <2>1, <2>2, <3>1
    <3> QED BY <3>2 DEF r
  <2>3. ASSUME call[c].step = "decide", call[c].guard # None
        PROVE  Asks([[call[c] EXCEPT !.step = "mutate"] EXCEPT
                       !.need = "graph", !.ctx = Current.ctx])
    <3> DEFINE r == [[call[c] EXCEPT !.step = "mutate"] EXCEPT
                       !.need = "graph", !.ctx = Current.ctx]
    <3>1. /\ DOMAIN r = Fields /\ r.need = "graph" /\ r.gen = call[c].gen
          /\ r.using = call[c].using /\ r.step = "mutate" /\ r.ctx = Current.ctx
          /\ r.item = call[c].item /\ r.guard = call[c].guard
      BY <1>3 DEF Fields
    <3> HIDE DEF r
    <3>2. Asks(r)
      BY <2>1, <2>3, <3>1
    <3> QED BY <3>2 DEF r
  <2> QED BY <2>2, <2>3
<1>9. CASE Read(c)
  <2>1. call[c].gen = generation /\ CurrentIs(Current.ctx) /\ call[c].pc = "body"
        /\ call[c].step = "read" /\ call[c].need # "drive"
    BY <1>3, <1>9 DEF Read, Request, SameGeneration, CurrentIs, PlaceOK
  <2> QED BY <1>4, <1>8, <1>9, <2>1 DEF Read, Request
<1>10. CASE Confirm(c)
  <2>1. call[c].gen = generation /\ CurrentIs(Current.ctx) /\ call[c].pc = "body"
        /\ call[c].step = "decide" /\ call[c].need # "drive"
    <3>1. call[c].pc = "body" /\ call[c].step = "decide" /\ call[c].need # "drive"
      BY <1>3, <1>10 DEF Confirm, PlaceOK
    <3> DEFINE r == [call[c] EXCEPT !.step = "mutate"]
    <3>2. Request(c, r)
      BY <1>10 DEF Confirm
    <3> HIDE DEF r
    <3> QED BY <3>1, <3>2 DEF Request, SameGeneration, CurrentIs
  <2>2. call[c].guard # None
    BY <1>10 DEF Confirm, Confirms, OneLogin, PreviewsScoped
  <2> QED BY <1>4, <1>8, <1>10, <2>1, <2>2 DEF Confirm, Request
<1> QED BY <1>5, <1>6, <1>7, <1>9, <1>10
LEMMA StartScopeLogin ==
  ASSUME IInv, OneLogin, NEW c \in Call, StartScope(c)
  PROVE  OneLogin'
<1>1. UNCHANGED <<vault, generation, previews, files>>
  BY DEF StartScope
<1>2. PreviewsScoped' /\ LocalStateIsolated'
  BY <1>1 DEF OneLogin, PreviewsScoped, LocalStateIsolated
<1>3. DOMAIN call[c] = Fields /\ PlaceOK(call[c]) /\ LoginOK(call[c])
  BY DEF IInv, Shape, CallOK, OneLogin
<1>4. /\ call[c].need = "scope" /\ call[c].pc = "token" /\ call[c].gen = generation
      /\ CurrentIs(Current.ctx)
  BY DEF StartScope, At, SameGeneration, CurrentIs
<1> DEFINE r == [call[c] EXCEPT !.need = "drive", !.ctx = Current.ctx, !.using = None]
<1>5. Asks(r) /\ r.need = "drive"
  <2>1. /\ DOMAIN r = Fields /\ r.need = "drive" /\ r.gen = call[c].gen
        /\ r.using = None /\ r.step = call[c].step /\ r.ctx = Current.ctx
        /\ r.item = call[c].item /\ r.guard = call[c].guard
    BY <1>3 DEF Fields
  <2> HIDE DEF r
  <2> QED BY <1>3, <1>4, <2>1 DEF Asks, PlaceOK, LoginOK
<1>6. GetAccessToken(c, r)
  BY DEF StartScope
<1> HIDE DEF r
<1>7. LoginStands /\ \E s : Set(c, s) /\ Asked(r, s)
  BY <1>1, <1>5, <1>6, AccessTokenLogin
<1>8. PICK s : Set(c, s) /\ Asked(r, s)
  BY <1>7
<1>9. DOMAIN call' = Call /\ call'[c] = s /\ \A d \in Call : d # c => call'[d] = call[d]
  BY <1>8 DEF Set, IInv, Shape
<1>10. s.need = "drive" /\ s.gen = generation /\ s.pc # "wait"
  BY <1>5, <1>8 DEF Asked, Asks
<1>11. \A d \in Call : PlaceOK(call'[d]) /\ LoginOK(call'[d])
  BY <1>8, <1>9 DEF Asked, OneLogin
<1>12. WaitOK'
  <2>1. \A d \in Call : DriveStays(d, call'[d]) /\ WaitStays(d, call'[d])
    BY <1>4, <1>9, <1>10 DEF DriveStays, WaitStays
  <2> QED BY <2>1, WaitsFrame
<1>13. ScopeOK'
  <2>1. activeScope' = [by |-> c, gen |-> generation, ctx |-> Current.ctx, drive |-> None]
    BY DEF StartScope
  <2>2. PICK x : x = Current.ctx
    OBVIOUS
  <2>3. generation' = generation /\ CurrentIs(x)'
    BY <1>4, <1>7, <2>2 DEF LoginStands
  <2>4. CurrentIs(activeScope.ctx)'
    BY <2>1, <2>2, <2>3 DEF CurrentIs
  <2> QED BY <1>9, <1>10, <2>1, <2>3, <2>4 DEF ScopeOK
<1> QED BY <1>2, <1>7, <1>9, <1>11, <1>12, <1>13, CallsFrame

(* A refresh is answered: a login that stands keeps its credential, and    *)
(* those that await another's are turned away.                             *)
LEMMA RefreshLogin ==
  ASSUME IInv, OneLogin, NEW d \in Call, RefreshAnswers(d)
  PROVE  OneLogin'
<1>1. UNCHANGED <<generation, activeScope, previews, files>>
  BY DEF RefreshAnswers
<1>2. PreviewsScoped' /\ LocalStateIsolated'
  BY <1>1 DEF OneLogin, PreviewsScoped, LocalStateIsolated
<1>3. \A c \in Call : DOMAIN call[c] = Fields /\ PlaceOK(call[c]) /\ LoginOK(call[c])
  BY DEF IInv, Shape, CallOK, OneLogin
<1> DEFINE token == [ctx |-> flight[d].ctx, fresh |-> TRUE]
           settled(c, pc, x) == [call[c] EXCEPT !.pc = pc, !.via = None, !.using = x]
<1>4. /\ flight[d] # None /\ flight[d].ctx # None
      /\ flight[d].gen = generation => CurrentIs(flight[d].ctx)
  BY DEF RefreshAnswers, OneLogin, FlightsOfLogin
<1>5. \/ /\ flight[d].gen = generation /\ tokenCache' = token /\ vault' \in {vault, token}
         /\ Settle(d, "token", flight[d].ctx) \/ Settle(d, "refused", None)
      \/ UNCHANGED <<tokenCache, vault>> /\ Settle(d, "refused", None)
  BY DEF RefreshAnswers, StillWanted
<1>6. /\ flight'[d] = None
      /\ \A c \in Call : c # d => flight'[c] = flight[c]
  BY DEF RefreshAnswers, IInv, Shape
<1>7. /\ HasLogin(tokenCache') /\ HasLogin(vault')
      /\ \A x : CurrentIs(x) => CurrentIs(x)'
  <2>1. CASE UNCHANGED <<tokenCache, vault>>
    BY <2>1 DEF OneLogin, HasLogin, CurrentIs, Current
  <2>2. CASE flight[d].gen = generation /\ tokenCache' = token /\ vault' \in {vault, token}
    <3>1. CurrentIs(flight[d].ctx) /\ flight[d].ctx \in Context
      BY <1>4, <2>2 DEF OneLogin, HasLogin, Token, CurrentIs, Current
    <3>2. token \in [ctx : Context, fresh : BOOLEAN] /\ token.ctx = flight[d].ctx
      BY <3>1
    <3>3. token # None
      BY <3>2, SetsAssumption
    <3> HIDE DEF token
    <3>4. HasLogin(tokenCache') /\ HasLogin(vault')
      BY <2>2, <3>1, <3>2 DEF OneLogin, HasLogin, Token
    <3>5. \A x : CurrentIs(x) => x = flight[d].ctx
      BY <3>1 DEF CurrentIs
    <3>7. \A x : x = flight[d].ctx => CurrentIs(x)'
      BY <2>2, <3>2, <3>3 DEF CurrentIs, Current
    <3> QED BY <3>4, <3>5, <3>7
  <2> QED BY <1>5, <2>1, <2>2
<1>8. LoginStands
  <2>1. FlightsOfLogin'
    <3> SUFFICES ASSUME NEW c \in Call, flight'[c] # None
                 PROVE  /\ flight'[c].ctx # None
                        /\ flight'[c].gen = generation => CurrentIs(flight[c].ctx)'
      BY <1>1 DEF FlightsOfLogin
    <3>1. flight'[c] = flight[c]
      BY <1>6
    <3>2. flight[c].ctx # None /\ (flight[c].gen = generation => CurrentIs(flight[c].ctx))
      BY <3>1 DEF OneLogin, FlightsOfLogin
    <3>3. \A x : x = flight[c].ctx /\ CurrentIs(x) => CurrentIs(x)'
      BY <1>7
    <3>4. CurrentIs(flight[c].ctx) => CurrentIs(flight[c].ctx)'
      BY <3>1, <1>7 DEF CurrentIs
    <3> QED BY <3>1, <3>2, <3>4
  <2> QED BY <1>1, <1>7, <2>1 DEF LoginStands
<1>9. ASSUME NEW c \in Call, call[c].pc = "refresh", NEW pc, NEW x,
             \/ pc = "refused" /\ x = None
             \/ pc = "token" /\ x = flight[d].ctx /\ flight[d].gen = generation
      PROVE  Going(c, settled(c, pc, x))
  <2> DEFINE s == settled(c, pc, x)
  <2>1. /\ s.pc = pc /\ s.need = call[c].need /\ s.gen = call[c].gen
        /\ s.using = x /\ s.step = call[c].step /\ s.ctx = call[c].ctx
        /\ s.item = call[c].item /\ s.guard = call[c].guard
    BY <1>3 DEF Fields
  <2> HIDE DEF settled
  <2>2. PlaceOK(s)
    BY <1>3, <1>4, <1>9, <2>1 DEF PlaceOK
  <2>3. LoginOK(s)
    BY <1>3, <1>4, <1>9, <2>1 DEF LoginOK
  <2>4. DriveStays(c, s) /\ WaitStays(c, s)
    BY <1>9, <2>1 DEF DriveStays, WaitStays
  <2> QED BY <2>2, <2>3, <2>4 DEF Going
<1>10. \A c \in Call : Going(c, call[c])
  BY <1>3 DEF Going, DriveStays, WaitStays
<1>11. DOMAIN call' = Call /\ \A c \in Call : Going(c, call'[c])
  <2>1. ASSUME NEW pc, NEW x, Settle(d, pc, x),
             \/ pc = "refused" /\ x = None
             \/ pc = "token" /\ x = flight[d].ctx /\ flight[d].gen = generation
        PROVE  DOMAIN call' = Call /\ \A c \in Call : Going(c, call'[c])
    <3>1. DOMAIN call' = Call
      BY <2>1 DEF Settle
    <3>2. \A c \in Call : call'[c] = call[c] \/ (call[c].pc = "refresh" /\ call'[c] = settled(c, pc, x))
      BY <2>1 DEF Settle, Awaiting
    <3> HIDE DEF settled
    <3> QED BY <1>9, <1>10, <2>1, <3>1, <3>2
  <2> QED BY <1>5, <2>1
<1>12. ScopeOK' /\ WaitOK'
  BY <1>1, <1>8, <1>11, DrivesFrame, WaitsFrame DEF Going
<1> QED BY <1>2, <1>8, <1>11, <1>12, CallsFrame DEF Going
-----------------------------------------------------------------------------
(* Device login: a call asks for a code, gets it, and polls.               *)
LEMMA DeviceLogin ==
  ASSUME IInv, OneLogin, NEW c \in Call,
         \/ RequestDeviceCode(c) /\ (call[c].pc = "idle" \/ At(c, "refused", "start"))
         \/ DeviceCodeAnswers(c) \/ StartPoll(c) \/ PollRefused(c)
  PROVE  OneLogin'
<1>1. UNCHANGED <<tokenCache, vault, generation, flight, activeScope, previews, files>>
  BY DEF RequestDeviceCode, DeviceCodeAnswers, StartPoll, PollRefused, auth
<1>2. PreviewsScoped' /\ LocalStateIsolated'
  BY <1>1 DEF OneLogin, PreviewsScoped, LocalStateIsolated
<1>3. LoginStands
  <2>1. \A x : CurrentIs(x)' <=> CurrentIs(x)
    BY <1>1 DEF CurrentIs, Current
  <2>2. FlightsOfLogin'
    BY <1>1, <2>1 DEF OneLogin, FlightsOfLogin
  <2> QED BY <1>1, <2>1, <2>2 DEF LoginStands, OneLogin
<1>4. call[c].need # "drive"
  BY DEF OneLogin, PlaceOK, At, DeviceCodeAnswers, StartPoll, PollRefused
<1>5. ASSUME NEW r, Set(c, r), Going(c, r) PROVE OneLogin'
  BY <1>1, <1>2, <1>3, <1>5, OneCall
<1>6. CASE DeviceCodeAnswers(c) \/ PollRefused(c)
  BY <1>4, <1>5, <1>6, IdleGoes DEF DeviceCodeAnswers, PollRefused
<1>7. ASSUME NEW r, Set(c, r), r.pc \in {"device", "poll"}, r.need = "none",
             r.step \in {"start", "poll"}, r.ctx = None, r.using = None, r.item = None,
             r.guard = None
      PROVE  OneLogin'
  <2>1. Going(c, r)
    BY <1>4, <1>7 DEF Going, PlaceOK, LoginOK, DriveStays, WaitStays
  <2> QED BY <1>5, <1>7, <2>1
<1>8. CASE RequestDeviceCode(c)
  <2> DEFINE r == [Idle EXCEPT !.pc = "device", !.step = "start", !.gen = generation,
                               !.dev = deviceGeneration + 1]
  <2>1. /\ r.pc = "device" /\ r.need = "none" /\ r.step = "start" /\ r.ctx = None
        /\ r.using = None /\ r.item = None /\ r.guard = None
    BY DEF Idle
  <2>2. Set(c, r)
    BY <1>8 DEF RequestDeviceCode
  <2> HIDE DEF r
  <2> QED BY <1>7, <2>1, <2>2
<1>9. CASE StartPoll(c)
  <2> DEFINE r == [Idle EXCEPT !.pc = "poll", !.step = "poll", !.gen = generation,
               !.session = pendingDevice,
               !.dev = IF pendingDevice # None THEN pendingDevice ELSE deviceGeneration]
  <2>1. /\ r.pc = "poll" /\ r.need = "none" /\ r.step = "poll" /\ r.ctx = None
        /\ r.using = None /\ r.item = None /\ r.guard = None
    BY DEF Idle
  <2>2. Set(c, r)
    BY <1>9 DEF StartPoll
  <2> HIDE DEF r
  <2> QED BY <1>7, <2>1, <2>2
<1> QED BY <1>6, <1>8, <1>9

(* A login and a logout begin a generation that no call belongs to yet.    *)
LEMMA NewGeneration ==
  ASSUME IInv, OneLogin, NEW c \in Call, Invalidate, UNCHANGED <<flight, files>>,
         HasLogin(tokenCache'), HasLogin(vault'),
         UNCHANGED call \/ (Set(c, Idle) /\ call[c].need # "drive")
  PROVE  OneLogin'
<1>1. /\ generation' = generation + 1 /\ generation \in Nat
      /\ activeScope' = None /\ previews' = {}
  BY DEF Invalidate, IInv, Shape
<1>2. /\ DOMAIN call' = Call
      /\ \A d \in Call : call'[d] = call[d] \/ (call'[d] = Idle /\ call[d].need # "drive")
  BY DEF Set, IInv, Shape
<1>3. \A d \in Call : PlaceOK(call'[d]) /\ LoginOK(call[d])'
  <2> SUFFICES ASSUME NEW d \in Call PROVE PlaceOK(call'[d]) /\ LoginOK(call[d])'
    OBVIOUS
  <2>1. CASE call'[d] = call[d]
    <3>1. call[d].gen \in Nat /\ call[d].gen <= generation
      BY DEF IInv, Shape, CallOK
    <3>2. call'[d].gen # generation'
      BY <1>1, <2>1, <3>1
    <3> QED BY <2>1, <3>2 DEF OneLogin, LoginOK
  <2>2. CASE call'[d] = Idle
    <3>1. Idle.gen # generation'
      BY <1>1 DEF Idle
    <3>2. PlaceOK(Idle)
      BY DEF PlaceOK, Idle
    <3> QED BY <2>2, <3>1, <3>2 DEF LoginOK
  <2> QED BY <1>2, <2>1, <2>2
<1>4. ScopeOK' /\ PreviewsScoped' /\ LocalStateIsolated'
  BY <1>1 DEF OneLogin, ScopeOK, PreviewsScoped, LocalStateIsolated
<1>5. WaitOK'
  <2>1. Idle.pc # "wait"
    BY DEF Idle
  <2> QED BY <1>2, <2>1 DEF OneLogin, WaitOK
<1>6. FlightsOfLogin'
  <2>1. \A d \in Call : flight[d] # None => flight[d].gen # generation'
    BY <1>1 DEF IInv, FlightsAllowed, FlightOK
  <2> QED BY <2>1 DEF OneLogin, FlightsOfLogin
<1> QED BY <1>2, <1>3, <1>4, <1>5, <1>6 DEF OneLogin

LEMMA LogInLogin ==
  ASSUME IInv, OneLogin, NEW c \in Call, NEW x \in Context, LogIn(c, x)
  PROVE  OneLogin'
<1>1. Invalidate /\ UNCHANGED <<flight, files>> /\ Set(c, Idle)
  BY DEF LogIn
<1>2. call[c].need # "drive"
  BY DEF LogIn, OneLogin, PlaceOK
<1>3. tokenCache' = [ctx |-> x, fresh |-> TRUE] /\ vault' \in {vault, tokenCache'}
  BY DEF LogIn
<1>4. tokenCache' \in Token
  BY <1>3 DEF Token
<1>5. HasLogin(tokenCache') /\ HasLogin(vault')
  BY <1>3, <1>4 DEF OneLogin, HasLogin
<1> QED BY <1>1, <1>2, <1>5, NewGeneration

LEMMA LogoutLogin ==
  ASSUME IInv, OneLogin, NEW c \in Call, Logout(c)
  PROVE  OneLogin'
<1>1. Invalidate /\ UNCHANGED <<flight, files, call>>
  BY DEF Logout
<1>2. HasLogin(tokenCache') /\ HasLogin(vault')
  BY DEF Logout, OneLogin, HasLogin
<1> QED BY <1>1, <1>2, NewGeneration

-----------------------------------------------------------------------------
(* The surroundings.                                                       *)
LEMMA ForgetLogin ==
  ASSUME IInv, OneLogin, ForgetPreview
  PROVE  OneLogin'
<1>1. UNCHANGED <<tokenCache, vault, generation, flight, activeScope, files, call>>
      /\ previews' \subseteq previews
  BY DEF ForgetPreview, auth
<1> QED BY <1>1 DEF OneLogin, PlaceOK, LoginOK, ScopeOK, WaitOK, FlightsOfLogin,
                   PreviewsScoped, LocalStateIsolated, CurrentIs, Current, HasLogin

LEMMA StutterLogin ==
  ASSUME IInv, OneLogin, UNCHANGED vars
  PROVE  OneLogin'
<1>1. UNCHANGED <<tokenCache, vault, generation, flight, activeScope, files, call, previews>>
  BY DEF vars
<1> QED BY <1>1 DEF OneLogin, PlaceOK, LoginOK, ScopeOK, WaitOK, FlightsOfLogin,
                   PreviewsScoped, LocalStateIsolated, CurrentIs, Current, HasLogin

LEMMA OldIs ==
  ASSUME NEW t, t \in Token
  PROVE  Old(t) # None /\ Old(t).ctx = t.ctx
<1>1. t # None
  BY SetsAssumption DEF Token
<1>2. Old(t) \in [ctx : Context, fresh : BOOLEAN] /\ Old(t).ctx = t.ctx
  BY <1>1 DEF Old, Token
<1> QED BY <1>2, SetsAssumption
LEMMA ExpireLogin ==
  ASSUME IInv, OneLogin, Expire
  PROVE  OneLogin'
<1>1. /\ UNCHANGED <<generation, flight, activeScope, files, call, previews>>
      /\ tokenCache' = Old(tokenCache) /\ vault' = Old(vault)
  BY DEF Expire
<1>2. /\ HasLogin(tokenCache') /\ HasLogin(vault')
      /\ (tokenCache' = None <=> tokenCache = None) /\ (vault' = None <=> vault = None)
      /\ tokenCache # None => tokenCache'.ctx = tokenCache.ctx
      /\ vault # None => vault'.ctx = vault.ctx
  <2>1. ASSUME NEW t, HasLogin(t)
        PROVE  /\ HasLogin(Old(t)) /\ (Old(t) = None <=> t = None)
               /\ t # None => Old(t).ctx = t.ctx
    <3>1. CASE t = None
      BY <3>1 DEF Old, HasLogin
    <3>2. CASE t # None
      BY <2>1, <3>2, OldIs DEF Old, HasLogin, Token
    <3> QED BY <3>1, <3>2
  <2> QED BY <1>1, <2>1 DEF OneLogin
<1>3. \A x : CurrentIs(x)' <=> CurrentIs(x)
  BY <1>2 DEF CurrentIs, Current
<1>4. LoginStands
  BY <1>1, <1>2, <1>3 DEF LoginStands, OneLogin, FlightsOfLogin
<1>5. ScopeOK' /\ WaitOK' /\ PreviewsScoped' /\ LocalStateIsolated'
  BY <1>1, <1>3 DEF OneLogin, ScopeOK, WaitOK, PreviewsScoped, LocalStateIsolated
<1>6. DOMAIN call' = Call /\ \A d \in Call : PlaceOK(call'[d]) /\ LoginOK(call'[d])
  BY <1>1 DEF OneLogin, IInv, Shape
<1> QED BY <1>4, <1>5, <1>6, CallsFrame

LEMMA FreshLogin ==
  ASSUME call = [c \in Call |-> Idle], flight = [c \in Call |-> None], activeScope = None,
         previews = {}, tokenCache = None, HasLogin(vault), LocalStateIsolated
  PROVE  OneLogin
<1>1. PlaceOK(Idle) /\ LoginOK(Idle) /\ Idle.pc # "wait"
  BY DEF PlaceOK, LoginOK, Idle
<1> QED BY <1>1 DEF OneLogin, HasLogin, ScopeOK, WaitOK, FlightsOfLogin, PreviewsScoped

LEMMA InitialLogin ==
  ASSUME Init
  PROVE  OneLogin /\ foreign = 0
<1>1. HasLogin(vault) /\ LocalStateIsolated
  BY DEF Init, HasLogin, LocalStateIsolated
<1> QED BY <1>1, FreshLogin DEF Init

LEMMA RestartLogin ==
  ASSUME IInv, OneLogin, Restart
  PROVE  OneLogin'
<1>1. PlaceOK(Idle) /\ LoginOK(Idle)' /\ Idle.pc # "wait"
  BY DEF PlaceOK, LoginOK, Idle
<1> QED BY <1>1 DEF Restart, OneLogin, HasLogin, ScopeOK, WaitOK, FlightsOfLogin,
                    PreviewsScoped, LocalStateIsolated

-----------------------------------------------------------------------------
(* The invariant of a process that is alone with its stored credential.    *)
Alone == foreign \in Nat /\ (foreign = 0 => OneLogin)

LEMMA CallsLogin ==
  ASSUME IInv, OneLogin, NEW c \in Call,
         Begin(c) \/ BeginUnscoped(c) \/ StartDevice(c) \/ StartPoll(c) \/ Logout(c) \/ CallStep(c)
  PROVE  OneLogin'
<1>1. CASE \/ BeginUnscoped(c) \/ Joined(c) \/ Send(c) \/ GraphAnswers(c) \/ Commit(c)
           \/ SkipSave(c) \/ Preview(c) \/ Finish(c) \/ Changed(c) \/ Fail(c)
           \/ AlreadyAuthenticated(c)
  BY <1>1, QuietLogin
<1>2. CASE JoinScope(c) \/ StartScope(c) \/ PublishScope(c) \/ ScopeFails(c)
  BY <1>2, JoinScopeLogin, StartScopeLogin, PublishScopeLogin, ScopeFailsLogin
<1>3. CASE RefreshAnswers(c) \/ Logout(c) \/ \E x \in Context : LogIn(c, x)
  BY <1>3, RefreshLogin, LogoutLogin, LogInLogin
<1>4. CASE \/ Begin(c) \/ Read(c) \/ Save(c) \/ Confirm(c)
           \/ (StartDevice(c) /\ ~RequestDeviceCode(c))
  BY <1>4, AskingLogin
<1>5. CASE \/ (StartDevice(c) /\ RequestDeviceCode(c)) \/ CredentialRejected(c)
           \/ DeviceCodeAnswers(c) \/ StartPoll(c) \/ PollRefused(c)
  BY <1>5, DeviceLogin DEF StartDevice, CredentialRejected
<1> QED BY <1>1, <1>2, <1>3, <1>4, <1>5 DEF CallStep

LEMMA AloneInductive ==
  ASSUME IInv, Alone, [Next]_vars
  PROVE  Alone'
<1>1. CASE Foreign
  BY <1>1 DEF Foreign, Alone
<1>2. CASE ~Foreign
  <2>1. foreign' = foreign
    BY <1>2 DEF Next, CallStep, Begin, BeginUnscoped, StartDevice, RequestDeviceCode, StartPoll,
       Logout, RefreshAnswers, JoinScope, StartScope, PublishScope, Joined, Send,
       GraphAnswers, Read, Save, Commit, SkipSave, Preview, Confirm, Finish, ScopeFails,
       Changed, Fail, AlreadyAuthenticated, CredentialRejected, DeviceCodeAnswers,
       PollRefused, LogIn, ForgetPreview, Expire, Restart, Resolve, history, vars
  <2>2. OneLogin => OneLogin'
    BY <1>2, CallsLogin, ForgetLogin, ExpireLogin, RestartLogin, StutterLogin DEF Next
  <2> QED BY <2>1, <2>2 DEF Alone
<1> QED BY <1>1, <1>2

THEOREM AloneHolds == Spec => [](IInv /\ Alone)
<1>1. Init => IInv /\ Alone
  BY Initial, InitialLogin DEF Alone
<1>2. IInv /\ Alone /\ [Next]_vars => (IInv /\ Alone)'
  BY Inductive, AloneInductive
<1> QED BY <1>1, <1>2, PTL DEF Spec

(* The local files of a login hold data of that login only, as long as no  *)
(* other process logs in or out on the same storage                        *)
(* (assertStorageScopeGuard before every local write).                     *)
THEOREM IsolatedAlone == Spec => [](foreign = 0 => LocalStateIsolated)
<1>1. Alone => (foreign = 0 => LocalStateIsolated)
  BY DEF Alone, OneLogin
<1> QED BY <1>1, AloneHolds, PTL
(* Only a request that is sent is in the air.                              *)
SentOnly == \A d \in Call : call'[d].pc = "fetch" => call'[d] = call[d] \/ Send(d)

LEMMA SetSendsNothing ==
  ASSUME IInv, NEW c \in Call, NEW r, Set(c, r), r.pc # "fetch"
  PROVE  SentOnly
BY DEF SentOnly, Set, IInv, Shape

LEMMA AskingSendsNothing ==
  ASSUME IInv, NEW c \in Call, NEW r, DOMAIN r = Fields, GetAccessToken(c, r)
  PROVE  SentOnly
<1> DEFINE token == [r EXCEPT !.pc = "token", !.using = Current.ctx]
           joined(d) == [r EXCEPT !.pc = "refresh", !.via = d]
<1>1. token.pc = "token" /\ \A d : joined(d).pc = "refresh"
  BY DEF Fields
<1>2. Set(c, token) \/ \E d : Set(c, joined(d))
  BY DEF GetAccessToken
<1> HIDE DEF token, joined
<1> QED BY <1>1, <1>2, SetSendsNothing

LEMMA CallsSend ==
  ASSUME IInv, NEW c \in Call,
         Begin(c) \/ BeginUnscoped(c) \/ StartDevice(c) \/ StartPoll(c) \/ Logout(c) \/ CallStep(c)
  PROVE  SentOnly
<1>1. DOMAIN call = Call /\ \A d \in Call : DOMAIN call[d] = Fields
  BY DEF IInv, Shape, CallOK
<1>2. ASSUME NEW r, Set(c, r), r.pc # "fetch" PROVE SentOnly
  BY <1>2, SetSendsNothing
<1>3. ASSUME NEW r, DOMAIN r = Fields, GetAccessToken(c, r) PROVE SentOnly
  BY <1>3, AskingSendsNothing
<1>4. Idle.pc # "fetch" /\ DOMAIN Idle = Fields
  BY DEF Idle, Fields
<1>5. Proceed(call[c]).pc # "fetch"
      /\ \A x : Proceed([call[c] EXCEPT !.item = x]).pc # "fetch"
  BY <1>1 DEF Proceed, Fields
<1>6. WithScope(call[c]).pc # "fetch"
  BY <1>1 DEF WithScope, Fields
<1>7. CASE Begin(c)
  BY <1>3, <1>4, <1>7 DEF Begin, Resolve, Fields
<1>8. CASE StartScope(c)
  BY <1>1, <1>3, <1>8 DEF StartScope, Fields
<1>9. CASE Read(c) \/ Confirm(c)
  BY <1>1, <1>3, <1>9 DEF Read, Confirm, Request, Fields
<1>10. CASE Save(c)
  BY <1>1, <1>3, <1>10 DEF Save, Resolve, Fields
<1>11. CASE StartDevice(c) \/ CredentialRejected(c)
  <2>1. CASE RequestDeviceCode(c)
    <3> DEFINE r == [Idle EXCEPT !.pc = "device", !.step = "start", !.gen = generation,
                                 !.dev = deviceGeneration + 1]
    <3>1. r.pc = "device"
      BY DEF Idle
    <3> QED BY <1>2, <2>1, <3>1 DEF RequestDeviceCode
  <2>2. CASE ~RequestDeviceCode(c)
    BY <1>3, <1>4, <1>11, <2>2 DEF StartDevice, CredentialRejected, Fields
  <2> QED BY <2>1, <2>2
<1>12. CASE BeginUnscoped(c)
  BY <1>2, <1>4, <1>12 DEF BeginUnscoped, Fields
<1>13. CASE StartPoll(c)
  <2> DEFINE r == [Idle EXCEPT !.pc = "poll", !.step = "poll", !.gen = generation,
               !.session = pendingDevice,
               !.dev = IF pendingDevice # None THEN pendingDevice ELSE deviceGeneration]
  <2>1. r.pc = "poll"
    BY DEF Idle
  <2> QED BY <1>2, <1>13, <2>1 DEF StartPoll
<1>14. CASE Logout(c)
  BY <1>14 DEF Logout, SentOnly
<1>15. CASE RefreshAnswers(c)
  <2>1. \/ Settle(c, "token", flight[c].ctx)
        \/ Settle(c, "refused", None)
    BY <1>15 DEF RefreshAnswers
  <2> QED BY <1>1, <2>1 DEF Settle, SentOnly, Fields
<1>16. CASE JoinScope(c)
  BY <1>1, <1>2, <1>16 DEF JoinScope, Fields
<1>17. CASE PublishScope(c)
  BY <1>1, <1>6, <1>17 DEF PublishScope, SentOnly, Fields
<1>18. CASE Joined(c)
  BY <1>1, <1>2, <1>6, <1>18 DEF Joined, Fields
<1>19. CASE Send(c)
  BY <1>1, <1>19 DEF Send, Goto, Set, SentOnly
<1>20. CASE GraphAnswers(c)
  <2>1. CASE Goto(c, "refused")
    BY <1>1, <1>2, <2>1 DEF Goto, Fields
  <2>2. CASE call[c].need = "drive" /\ ~Goto(c, "refused")
    BY <1>1, <1>2, <1>20, <2>2 DEF GraphAnswers, Fields
  <2>3. CASE call[c].need # "drive" /\ ~Goto(c, "refused")
    BY <1>2, <1>5, <1>20, <2>3 DEF GraphAnswers
  <2> QED BY <2>1, <2>2, <2>3
<1>21. CASE Commit(c) \/ SkipSave(c)
  BY <1>2, <1>5, <1>21 DEF Commit, SkipSave
<1>22. CASE Preview(c) \/ Finish(c) \/ Fail(c) \/ AlreadyAuthenticated(c)
            \/ DeviceCodeAnswers(c) \/ PollRefused(c) \/ \E x \in Context : LogIn(c, x)
  BY <1>2, <1>4, <1>22
  DEF Preview, Finish, Fail, AlreadyAuthenticated, DeviceCodeAnswers, PollRefused, LogIn
<1>23. CASE ScopeFails(c)
  BY <1>1, <1>23 DEF ScopeFails, SentOnly, Fields
<1>24. CASE Changed(c)
  BY <1>1, <1>2, <1>24 DEF Changed, Fields
<1> QED BY <1>7, <1>8, <1>9, <1>10, <1>11, <1>12, <1>13, <1>14, <1>15, <1>16, <1>17,
           <1>18, <1>19, <1>20, <1>21, <1>22, <1>23, <1>24 DEF CallStep

LEMMA StepsSend ==
  ASSUME IInv, [Next]_vars
  PROVE  SentOnly
<1>1. ASSUME NEW c \in Call,
             \/ Begin(c) \/ BeginUnscoped(c) \/ StartDevice(c) \/ StartPoll(c)
             \/ Logout(c) \/ CallStep(c)
      PROVE  SentOnly
  BY <1>1, CallsSend
<1>2. CASE ForgetPreview \/ Expire \/ Foreign \/ UNCHANGED vars
  BY <1>2 DEF ForgetPreview, Expire, Foreign, vars, SentOnly
<1>3. CASE Restart
  BY <1>3 DEF Restart, SentOnly, Idle
<1> QED BY <1>1, <1>2, <1>3 DEF Next

(* What is sent is sent with a token of the current login, and a confirmed *)
(* mutation has that login for its guard.                                  *)
LEMMA SentForPreview ==
  ASSUME IInv, OneLogin, NEW c \in Call, Send(c), Mutating(c)'
  PROVE  CurrentIs(call[c].guard.ctx) /\ call'[c].using = call[c].guard.ctx
<1>1. DOMAIN call = Call /\ DOMAIN call[c] = Fields /\ PlaceOK(call[c]) /\ LoginOK(call[c])
  BY DEF IInv, Shape, CallOK, OneLogin
<1>2. call'[c] = [call[c] EXCEPT !.pc = IF SameAccount(c) THEN "fetch" ELSE "refused"]
  BY <1>1 DEF Send, Goto, Set
<1>3. /\ call'[c].pc = IF SameAccount(c) THEN "fetch" ELSE "refused"
      /\ call'[c].step = call[c].step /\ call'[c].using = call[c].using
  BY <1>1, <1>2 DEF Fields
<1>4. call'[c].pc = "fetch" /\ call'[c].step = "mutate"
  BY DEF Mutating, At
<1>5. SameAccount(c) /\ call[c].step = "mutate" /\ call[c].gen = generation
  BY <1>3, <1>4 DEF SameAccount, SameGeneration
<1>6. call[c].using # None /\ call[c].guard # None
  BY <1>1, <1>5 DEF Send, PlaceOK
<1>7. CurrentIs(call[c].using) /\ CurrentIs(call[c].guard.ctx)
  BY <1>1, <1>5, <1>6 DEF LoginOK
<1> QED BY <1>3, <1>7 DEF CurrentIs

(* A confirmed mutation goes out under the login of its preview, and with  *)
(* a token of that login, as long as no other process logs in or out on    *)
(* the same storage (assertGraphAccountContext before the request).        *)
THEOREM MutationsStayAlone == Spec /\ [](foreign = 0) => MutationsStayWithPreview
<1> DEFINE A == \A c \in Call : ~Mutating(c) /\ Mutating(c)' =>
                  /\ CurrentIs(call[c].guard.ctx)
                  /\ call'[c].using = call[c].guard.ctx
<1>1. IInv /\ Alone /\ foreign = 0 /\ [Next]_vars => [A]_vars
  <2> SUFFICES ASSUME IInv, Alone, foreign = 0, [Next]_vars, NEW c \in Call,
                      ~Mutating(c), Mutating(c)'
               PROVE  /\ CurrentIs(call[c].guard.ctx)
                      /\ call'[c].using = call[c].guard.ctx
    OBVIOUS
  <2>1. call'[c].pc = "fetch" /\ call'[c] # call[c]
    BY DEF Mutating, At
  <2>2. Send(c)
    BY <2>1, StepsSend DEF SentOnly
  <2> QED BY <2>2, SentForPreview DEF Alone
<1>2. (IInv /\ Alone) /\ foreign = 0 /\ [Next]_vars => [A]_vars
  BY <1>1
<1> QED BY <1>2, AloneHolds, PTL DEF Spec, MutationsStayWithPreview
=============================================================================
