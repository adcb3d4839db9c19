------------------------------- MODULE Serving -------------------------------
(* What the server does for large content: document tools that hold a lease *)
(* of the heavyweight admission controller while they fetch, register,      *)
(* render or inspect a document (mcp/server.mjs), and HTTP requests that    *)
(* read a registered resource under a lease of the resource-read controller *)
(* until their response is over (mcp/http-server.mjs), after their bearer   *)
(* tokens have been verified. They meet in the registry and its private     *)
(* directory.                                                               *)
(*                                                                          *)
(* A tool call goes on between its awaits in one step. A child's "error"    *)
(* event means that it was not started: a kill of it does not fail.         *)
EXTENDS MaterializedResources, AdmissionController, BearerTokens

CONSTANTS
  Call,             \* calls of document tools, numbered as they begin; a
                    \* call registers one link
  MaxReads, MaxReadsPerSubject,  \* the limits of the resource-read controller;
                                 \* the other's are MaxGlobal, MaxPerSubject
  Session           \* what a behaviour explores: records
                    \* [tools, requests, links, kids, published, stops]: who
                    \* may call what, who sends requests, what these read (0
                    \* for other requests), the keys their tokens name (0 for
                    \* facade tokens), the keys that exist at first

ASSUME ReadLimitsAssumption ==
  MaxReads \in Nat \ {0} /\ MaxReadsPerSubject \in 1 .. MaxReads

Tools == {"download", "render", "inspect", "helper"}

ASSUME SessionAssumption ==
  \A s \in Session :
    /\ s.tools \subseteq Subject \X Tools
    /\ \A r \in DOMAIN s.requests : s.requests[r] \in Subject
    /\ s.kids \subseteq Key \cup {0}

VARIABLES
  reads, heavy,  \* the two admission controllers
  response,      \* the state of each request and its response
  job,           \* the state of each call
  registry,      \* the registry, and
  open,          \* whether there is one
  instance,      \* how many this process made: a call keeps the one it found
  bindings,      \* materializedResourceBindings: the links that are bound
  disk,          \* what is in the private directory: links' files and staging
  stops,         \* how often the account changed or the process ended
  session

vars == <<reads, heavy, response, job, registry, open, instance, bindings, disk,
          stops, session, signing, issuer, bearer>>
tokens == <<signing, issuer, bearer>>
store == <<registry, open, instance, bindings, disk>>

Reads == INSTANCE AdmissionController
           WITH MaxGlobal <- MaxReads, MaxPerSubject <- MaxReadsPerSubject

NewRequest == [at |-> "new"]
NewCall    == [at |-> "new"]

Init ==
  /\ reads = Reads!NewController /\ heavy = NewController
  /\ response = [r \in Request |-> NewRequest] /\ job = [c \in Call |-> NewCall]
  /\ registry = NewRegistry /\ open = FALSE /\ instance = 0
  /\ bindings = {} /\ disk = {} /\ stops = 0
  /\ session \in Session
  /\ BearerInit(session.published)

------------------------------------------------------------------------------
(* The registry's place in the server.                                      *)

LinkFile(u) == [of |-> u, is |-> "link"]
Input(c)    == [of |-> c, is |-> "input"]
Output(c)   == [of |-> c, is |-> "output"]

(* Mutant: onRemove keeps the bindings.                                     *)
FilesGo(gone, bound) ==
  /\ bindings' = bindings \cup bound
  /\ disk' = disk \ {LinkFile(u) : u \in gone}

(* Links that the registry removed lose their bindings and files.           *)
LinksGo(gone, bound) ==
  /\ bindings' = (bindings \ gone) \cup bound
  /\ disk' = disk \ {LinkFile(u) : u \in gone}

(* materializedResourceRegistry: a registry made anew first sweeps what is  *)
(* left in the directory.                                                   *)
materializedResourceRegistry ==
  IF open THEN UNCHANGED store
  ELSE /\ open' = TRUE /\ instance' = instance + 1
       /\ registry' = NewRegistry /\ disk' = {} /\ UNCHANGED bindings

(* close, when the account changes or the server shuts down: all entries    *)
(* and the directory go.                                                    *)
CloseRegistry ==
  /\ open' = FALSE /\ registry' = NewRegistry /\ bindings' = {}
  /\ disk' = IF open THEN {} ELSE disk
  /\ UNCHANGED instance

PruneTimer ==
  /\ open /\ Expired(registry) # {}
  /\ registry' = prune(registry)
  /\ LinksGo(Uris(Expired(registry)), {})
  /\ UNCHANGED <<reads, heavy, response, job, open, instance, stops, session, tokens>>

TimePasses ==
  /\ registry.entries \ Expired(registry) # {}
  /\ registry' = Age(registry)
  /\ UNCHANGED <<reads, heavy, response, job, open, instance, bindings, disk,
                 stops, session, tokens>>

AccountChange ==
  /\ stops < session.stops /\ stops' = stops + 1
  /\ CloseRegistry
  /\ UNCHANGED <<reads, heavy, response, job, session, tokens>>

(* The process ends: only the directory is left.                            *)
Crash ==
  /\ stops < session.stops /\ stops' = stops + 1
  /\ reads' = Reads!NewController /\ heavy' = NewController
  /\ response' = [r \in Request |->
       IF response[r].at = "new" \/ response[r].link = 0 THEN NewRequest
       ELSE [at |-> "over", link |-> response[r].link]]
  /\ Restart
  /\ job' = [c \in Call |-> IF job[c].at = "new" THEN NewCall ELSE [at |-> "over"]]
  /\ open' = FALSE /\ instance' = 0
  /\ registry' = NewRegistry /\ bindings' = {}
  /\ UNCHANGED <<disk, session>>

------------------------------------------------------------------------------
(* Document tools.                                                          *)

Goes(c, next) == job' = [job EXCEPT ![c] = next]
GoesTo(c, at) == Goes(c, [job[c] EXCEPT !.at = at])
Aside == UNCHANGED <<reads, response, stops, session, tokens>>

(* acquireHeavyweightBufferLease, or the acquire of a helper or renderer    *)
(* that is given no lease: a busy controller refuses the call.              *)
acquireHeavyweightLease(c) ==
  \E use \in session.tools :
    LET s == use[1]  tool == use[2] IN
    /\ job[c].at = "new" /\ \A x \in Call : x < c => job[x].at # "new"
    /\ IF Busy(heavy, s)
       THEN Goes(c, [at |-> "over"]) /\ UNCHANGED heavy
       ELSE /\ heavy' = Acquire(heavy, c, s)
            /\ Goes(c, [at |-> IF tool = "helper" THEN "prepare" ELSE "look",
                        tool |-> tool, subject |-> s, instance |-> 0])
    /\ Aside /\ UNCHANGED store

(* The call ends: its finally removes its staging, and the lease it owns is *)
(* released.                                                                *)
Finally(c, left) ==
  /\ disk' = left
  /\ heavy' = Release(heavy, c, job[c].subject)
  /\ Goes(c, [at |-> "over"])

(* materializeDownload takes the registry, and inspectRemoteOfficePackage   *)
(* its staging elsewhere, before the content is fetched.                    *)
look(c) ==
  /\ job[c].at = "look"
  /\ IF job[c].tool = "inspect"
     THEN GoesTo(c, "fetch") /\ UNCHANGED <<heavy, store>>
     ELSE \/ /\ materializedResourceRegistry
             /\ Goes(c, [job[c] EXCEPT !.at = "fetch", !.instance = instance'])
             /\ UNCHANGED heavy
          \/ Finally(c, disk) /\ UNCHANGED <<registry, open, instance, bindings>>
  /\ Aside

(* The content comes, or the request fails, times out or finds the account  *)
(* changed.                                                                 *)
fetch(c) ==
  /\ job[c].at = "fetch"
  /\ \/ Finally(c, disk)
     \/ /\ GoesTo(c, IF job[c].tool = "inspect" THEN "spawn" ELSE "stage")
        /\ UNCHANGED <<heavy, disk>>
  /\ Aside /\ UNCHANGED <<registry, open, instance, bindings>>

(* A directory for the file, and the file in it.                            *)
stage(c) ==
  /\ job[c].at = "stage"
  /\ disk' = disk \cup {LinkFile(c)}
  /\ GoesTo(c, "register")
  /\ Aside /\ UNCHANGED <<heavy, registry, open, instance, bindings>>

(* Mutant: the file counts as registered before register has returned.      *)
LeaveFile(c) == disk

(* materializeDownload's finally, when the file was not registered.         *)
RemoveDirectory(c) == disk \ {LinkFile(c)}

(* register throws when the registry the call took is closed or the file is *)
(* gone; otherwise the link is registered and bound. A download is over     *)
(* then, a rendering goes on under its lease.                               *)
registerDownload(c) ==
  /\ job[c].at = "register"
  /\ IF open /\ job[c].instance = instance /\ LinkFile(c) \in disk
     THEN /\ \E size \in 1 .. MaxReadBytes :
               /\ register(registry, registry', c, job[c].subject, size)
               /\ LinksGo(Uris(registry.entries) \ Uris(registry'.entries), {c})
          /\ IF job[c].tool = "download"
             THEN /\ heavy' = Release(heavy, c, job[c].subject)
                  /\ GoesTo(c, "over")
             ELSE GoesTo(c, "input") /\ UNCHANGED heavy
     ELSE Finally(c, RemoveDirectory(c)) /\ UNCHANGED <<registry, bindings>>
  /\ Aside /\ UNCHANGED <<open, instance>>

Bound(u, s) == u \in bindings /\ \E e \in registry.entries : e.uri = u /\ e.subject = s

(* renderOneDrivePreview reads the resource back and stages it as input.    *)
input(c) ==
  /\ job[c].at = "input"
  /\ \/ /\ Bound(c, job[c].subject) /\ Readable(registry, c, job[c].subject)
        /\ disk' = disk \cup {Input(c)}
        /\ GoesTo(c, "spawn") /\ UNCHANGED heavy
     \/ Finally(c, disk \ {Input(c)})
  /\ Aside /\ UNCHANGED <<registry, open, instance, bindings>>

(* A helper under its own lease has a directory to make first; a failure    *)
(* before its child is there releases the lease (runPythonJsonHelper).      *)
prepare(c) ==
  /\ job[c].at = "prepare"
  /\ \/ GoesTo(c, "spawn") /\ UNCHANGED <<heavy, disk>>
     \/ Finally(c, disk)
  /\ Aside /\ UNCHANGED <<registry, open, instance, bindings>>

(* The child is spawned; a renderer has a directory for its output.         *)
spawn(c) ==
  /\ job[c].at = "spawn"
  /\ IF job[c].tool = "render"
     THEN IF Input(c) \in disk
          THEN /\ disk' = disk \cup {Output(c)}
               /\ GoesTo(c, "child") /\ UNCHANGED heavy
          ELSE Finally(c, disk)
     ELSE GoesTo(c, "child") /\ UNCHANGED <<heavy, disk>>
  /\ Aside /\ UNCHANGED <<registry, open, instance, bindings>>

(* The child closes, by itself or killed at its time limit, the last one of *)
(* a rendering of several pages: the call goes through its finally. A child *)
(* that could not be started gives its helper's lease back on "error" and   *)
(* may close after that.                                                    *)
childEnds(c) ==
  /\ job[c].at = "child"
  /\ \/ Finally(c, disk \ {Input(c), Output(c)})
     \/ /\ job[c].tool = "helper"
        /\ heavy' = Release(heavy, c, job[c].subject)
        /\ GoesTo(c, "closing") /\ UNCHANGED disk
  /\ Aside /\ UNCHANGED <<registry, open, instance, bindings>>

childCloses(c) ==
  /\ job[c].at = "closing"
  /\ Finally(c, disk)
  /\ Aside /\ UNCHANGED <<registry, open, instance, bindings>>

CallGoesOn(c) ==
  \/ look(c) \/ fetch(c) \/ stage(c) \/ registerDownload(c) \/ input(c)
  \/ prepare(c) \/ spawn(c) \/ childEnds(c) \/ childCloses(c)

------------------------------------------------------------------------------
(* HTTP requests.                                                           *)

Turns(r, next) == response' = [response EXCEPT ![r] = next]
Apart == UNCHANGED <<heavy, job, registry, open, instance, disk, stops, session>>

(* A request arrives, with a token of its subject.                          *)
arrive(r) ==
  /\ response[r].at = "new"
  /\ r \in DOMAIN session.requests
  /\ \E u \in session.links, kid \in session.kids :
       /\ Turns(r, [at |-> "auth", subject |-> session.requests[r], link |-> u,
                    ended |-> FALSE, emitted |-> {}, settled |-> FALSE])
       /\ Present(r, kid)
  /\ Apart /\ UNCHANGED <<reads, bindings, signing, issuer>>

(* requestAuthorization goes on, whatever becomes of the client.            *)
authorize(r) ==
  /\ response[r].at = "auth" /\ Verify(r)
  /\ Apart /\ UNCHANGED <<reads, bindings, response>>

(* A refused token is answered with 401 or 503, before any admission; a     *)
(* request that reads nothing needs none. Its client may send another one.  *)
answer(r) ==
  /\ response[r].at = "auth"
  /\ bearer[r].at \in {"unknown", "failed"} \/ (bearer[r].at = "accepted" /\ response[r].link = 0)
  /\ Turns(r, IF response[r].link = 0 THEN NewRequest ELSE [response[r] EXCEPT !.at = "over"])
  /\ bearer' = [bearer EXCEPT ![r] = NoBearer]
  /\ Apart /\ UNCHANGED <<reads, bindings, signing, issuer>>

(* Mutant: whether the response is over already is not looked at.           *)
HoldAnyway(r, controller) == controller

(* holdUntilResponseComplete, when the client has gone in the meantime.     *)
HoldUntilResponseComplete(r, controller) ==
  IF response[r].ended
  THEN Reads!Release(controller, r, response[r].subject) ELSE controller

(* handleMcp: a busy controller answers 429; an admitted request holds its  *)
(* lease until its response is over or the deadline passes.                 *)
admit(r) ==
  /\ response[r].at = "auth" /\ bearer[r].at = "accepted" /\ response[r].link # 0
  /\ IF Reads!Busy(reads, response[r].subject)
     THEN Turns(r, [response[r] EXCEPT !.at = "over"]) /\ UNCHANGED reads
     ELSE /\ reads' = HoldUntilResponseComplete(
                        r, Reads!Acquire(reads, r, response[r].subject))
          /\ Turns(r, [response[r] EXCEPT !.at = "handling",
                                            !.settled = response[r].ended])
  /\ Apart /\ UNCHANGED <<bindings, tokens>>

(* processMcpMessage reads the resource, if the link is bound for the       *)
(* subject; the binding of an expired one goes. The handler goes on also    *)
(* when the response is over.                                               *)
handle(r) ==
  LET u == response[r].link  s == response[r].subject IN
  /\ response[r].at = "handling"
  /\ bindings' = IF Bound(u, s) /\ ~Readable(registry, u, s)
                 THEN bindings \ {u} ELSE bindings
  /\ Turns(r, [response[r] EXCEPT !.at = "sent"])
  /\ Apart /\ UNCHANGED <<reads, tokens>>

(* "finish" or "error", then "close", or "close" alone; a request that      *)
(* holds a lease releases it at each of them, and the deadline is settled.  *)
responseEvent(r, event) ==
  /\ response[r].at \in {"auth", "handling", "sent"} /\ response[r].link # 0
  /\ CASE event = "finish" -> response[r].at = "sent" /\ ~response[r].ended
       [] event = "error"  -> ~response[r].ended
       [] event = "close"  -> TRUE
  /\ event \notin response[r].emitted
  /\ Turns(r, [response[r] EXCEPT !.ended = TRUE, !.settled = TRUE,
                                    !.emitted = @ \cup {event}])
  /\ IF Reads!LeaseOf(r, response[r].subject) \in reads.given
     THEN reads' = Reads!Release(reads, r, response[r].subject)
     ELSE UNCHANGED reads
  /\ Apart /\ UNCHANGED <<bindings, tokens>>

(* holdResourceReadUntilResponseDeadline: the deadline passes, the lease is *)
(* released and the response destroyed.                                     *)
deadline(r) ==
  /\ response[r].at \in {"handling", "sent"} /\ ~response[r].settled
  /\ reads' = Reads!Release(reads, r, response[r].subject)
  /\ Turns(r, [response[r] EXCEPT !.ended = TRUE, !.settled = TRUE])
  /\ Apart /\ UNCHANGED <<bindings, tokens>>

(* Where delegated tokens are used, keys change, and the time that matters  *)
(* to them passes.                                                          *)
KeysChange ==
  /\ session.kids \cap Key # {}
  /\ Tick \/ \E k \in session.kids \cap Key : Rotate(k)
  /\ Apart /\ UNCHANGED <<reads, bindings, response>>

------------------------------------------------------------------------------
Next ==
  \/ \E c \in Call : acquireHeavyweightLease(c) \/ CallGoesOn(c)
  \/ \E r \in Request :
       \/ arrive(r) \/ authorize(r) \/ answer(r) \/ admit(r) \/ handle(r) \/ deadline(r)
       \/ \E event \in {"finish", "error", "close"} : responseEvent(r, event)
  \/ PruneTimer \/ TimePasses \/ AccountChange \/ Crash
  \/ KeysChange

Spec == Init /\ [][Next]_vars

(* Requests to Graph and children have time limits, and so does a response; *)
(* nothing is asked of clients.                                             *)
FairSpec ==
  /\ Spec
  /\ \A c \in Call : WF_vars(CallGoesOn(c))
  /\ \A r \in Request : WF_vars(deadline(r))

------------------------------------------------------------------------------
(* Properties                                                               *)

Working(c) == job[c].at \in {"look", "fetch", "stage", "register", "input",
                             "prepare", "spawn", "child"}
OpenReads == {Reads!LeaseOf(r, response[r].subject) :
                r \in {r \in Request : /\ response[r].at \in {"handling", "sent"}
                                       /\ ~response[r].ended}}
HeavyWork == {LeaseOf(c, job[c].subject) : c \in {c \in Call : Working(c)}}

ReadSlots == INSTANCE Slots
  WITH holders <- OpenReads, Work <- Request,
       MaxGlobal <- MaxReads, MaxPerSubject <- MaxReadsPerSubject
HeavySlots == INSTANCE Slots
  WITH holders <- HeavyWork, Work <- Call

(* The work itself, not the counters, keeps to the slots: never more large  *)
(* responses open, and never more documents fetched, staged or in a child,  *)
(* than the limits allow in all and per subject, however the events that    *)
(* release a lease repeat, race with deadlines and follow a client that     *)
(* left early (acquire and release of both controllers, and their callers). *)
WorkKeepsToSlots == ReadSlots!Spec /\ HeavySlots!Spec

(* The registry keeps its limits through every sequence of registrations,   *)
(* evictions, expiries and closings, and its total of bytes, which makes it *)
(* evict, does not drift from the bytes of the entries (register,           *)
(* removeEntry).                                                            *)
RegistryWithinLimits ==
  /\ registry.totalRegisteredBytes = Bytes(registry.entries)
  /\ registry.totalRegisteredBytes <= MaxTotalBytes
  /\ Cardinality(registry.entries) <= MaxEntries
  /\ \A s \in Subject :
       /\ Bytes(Of(registry.entries, s)) <= MaxBytesPerScope
       /\ Cardinality(Of(registry.entries, s)) <= MaxEntriesPerScope

(* A bound link has its entry and its file: no sweep of a new registry, no  *)
(* eviction, no account change and no call's own clean-up takes the file    *)
(* and leaves the link (materializeDownload, removeEntry, close).           *)
BoundLinkHasFile ==
  \A u \in bindings : open /\ u \in Uris(registry.entries) /\ LinkFile(u) \in disk

(* Once the process has made a registry, what is in the private directory   *)
(* is registered or belongs to a call that is not over: nothing stays       *)
(* behind uncounted after failures, account changes and crashes.            *)
NoOrphanFiles ==
  instance > 0 => \A f \in disk :
    \/ f.is = "link" /\ f.of \in Uris(registry.entries)
    \/ Working(f.of)

(* Every lease comes back, whatever fails, stalls or goes away: otherwise   *)
(* all further work is refused until the process is started again.          *)
LeasesComeBack ==
  /\ \A c \in Call : []<>~Held(heavy, c)
  /\ \A r \in Request : []<>~Reads!Held(reads, r)
=============================================================================
