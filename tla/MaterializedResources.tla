------------------------ MODULE MaterializedResources ------------------------
(* The registry of mcp/materialized-resources.mjs: files that a tool has    *)
(* fetched are registered under a link for ten minutes, within limits on    *)
(* entries and bytes, of all and per subject; what is registered beyond     *)
(* them pushes out what is oldest. These are the operators on its state.    *)
(* The checks of names, of symbolic links and of the identity of the file   *)
(* are left out: nothing else writes under the private root, and removals   *)
(* there succeed. A link stands for its file as well. A subject has one     *)
(* drive, and so one scope.                                                 *)
EXTENDS Naturals, FiniteSets, FiniteSetsExt

CONSTANTS MaxEntries, MaxEntriesPerScope, MaxTotalBytes, MaxBytesPerScope,
          MaxReadBytes

ASSUME RegistryAssumption ==
  /\ {MaxEntries, MaxEntriesPerScope, MaxTotalBytes, MaxBytesPerScope,
      MaxReadBytes} \subseteq Nat \ {0}
  /\ MaxEntriesPerScope <= MaxEntries /\ MaxBytesPerScope <= MaxTotalBytes
  /\ MaxReadBytes <= MaxBytesPerScope

(* entries: records [uri, subject, size, no, expired]; no counts them in    *)
(* the order of the Maps.                                                   *)
NewRegistry == [entries |-> {}, totalRegisteredBytes |-> 0]

Bytes(entries) == MapThenSumSet(LAMBDA e : e.size, entries)
Of(entries, s) == {e \in entries : e.subject = s}
Uris(entries)  == {e.uri : e \in entries}

removeEntries(registry, gone) ==
  [entries |-> registry.entries \ gone,
   totalRegisteredBytes |->
     IF Bytes(gone) > registry.totalRegisteredBytes THEN 0
     ELSE registry.totalRegisteredBytes - Bytes(gone)]

Expired(registry) == {e \in registry.entries : e.expired}
prune(registry) == removeEntries(registry, Expired(registry))

Oldest(n, entries) ==
  {e \in entries : Cardinality({x \in entries : x.no < e.no}) < n}

(* The oldest of the entries that have to go until what is kept is enough.  *)
ToGo(entries, Enough(_)) ==
  LET enough(n) == n = Cardinality(entries) \/ Enough(entries \ Oldest(n, entries))
  IN Oldest(CHOOSE n \in 0 .. Cardinality(entries) :
              enough(n) /\ \A m \in 0 .. n - 1 : ~enough(m),
            entries)

ToGoOfScope(registry, s, size) ==
  LET enough(kept) == /\ Cardinality(kept) < MaxEntriesPerScope
                      /\ Bytes(kept) + size <= MaxBytesPerScope
  IN ToGo(Of(registry.entries, s), enough)

(* Mutant: the bytes of what is to be registered are not counted.           *)
ForgetItsBytes(registry, size) ==
  LET enough(kept) == /\ Cardinality(kept) < MaxEntries
                      /\ Bytes(kept) <= MaxTotalBytes
  IN ToGo(registry.entries, enough)

ToGoOfAll(registry, size) ==
  LET other(kept)  == Bytes(registry.entries) - Bytes(kept)
      enough(kept) == /\ Cardinality(kept) < MaxEntries
                      /\ registry.totalRegisteredBytes - other(kept) + size <= MaxTotalBytes
  IN ToGo(registry.entries, enough)

(* register, of a file that is not above maxReadBytes: what has expired     *)
(* goes, then what is oldest, in the subject's scope and then among all.    *)
register(before, after, u, s, size) ==
  \E live \in {prune(before)} :
  \E scoped \in {removeEntries(live, ToGoOfScope(live, s, size))} :
  \E room \in {removeEntries(scoped, ToGoOfAll(scoped, size))} :
    after = [entries |-> room.entries \cup
               {[uri |-> u, subject |-> s, size |-> size, expired |-> FALSE,
                 no |-> 1 + Max({0} \cup {e.no : e \in before.entries})]},
             totalRegisteredBytes |-> room.totalRegisteredBytes + size]

Readable(registry, u, s) ==
  \E e \in registry.entries : e.uri = u /\ e.subject = s /\ ~e.expired

(* Time passes the expiry of the oldest entry that has not expired.         *)
Age(registry) ==
  LET fresh == registry.entries \ Expired(registry) IN
  [registry EXCEPT !.entries =
     {IF e \in Oldest(1, fresh) THEN [e EXCEPT !.expired = TRUE] ELSE e : e \in @}]
=============================================================================
