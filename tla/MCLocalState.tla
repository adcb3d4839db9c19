---------------------------- MODULE MCLocalState -----------------------------
EXTENDS LocalState, TLC

At(at, name, parent) == [at |-> at, name |-> name, parent |-> parent]

(* Two folders and a file in one of them, the other beside it or not there  *)
(* yet; a file alone; three folders in one another and a file in the last;  *)
(* two folders beside each other with an item in each.                      *)
Gone   == At("deleted", "a", Root)
Beside == <<At("live", "a", Root), At("live", "b", Root), At("live", "b", 1), Gone>>
Before == <<At("live", "a", Root), At("absent", "a", Root), At("live", "b", 1), Gone>>
Alone  == <<Gone, Gone, At("live", "b", Root), Gone>>
Deep   == <<At("live", "a", Root), At("live", "b", 1), At("live", "a", 4), At("live", "a", 2)>>
Pair   == <<At("live", "a", Root), At("live", "b", Root),
            At("live", "a", 1), At("live", "a", 2)>>

Tools(drives, cached, tools, atOnce, n, changes, failing) ==
  [drives |-> drives, cached |-> cached, kind |-> "plain", tools |-> tools,
   atOnce |-> atOnce, calls |-> n, changes |-> changes, faults |-> failing]

Of(kinds, s) == {[s EXCEPT !.kind = k] : k \in kinds}

PlainSession == {
  \* a cache that follows the drive over many changes and partial rounds
  Tools({Beside}, {TRUE}, {"refresh"}, 1, 2, 3, 0),
  Tools({Deep}, {TRUE}, {"refresh"}, 1, 2, 2, 0),
  \* a cache that no cursor follows
  Tools({Pair}, {FALSE}, {"get"}, 1, 4, 2, 0),
  \* refreshes and rebuilds that overlap with each other and with reads
  Tools({Before}, {FALSE}, {"get", "refresh"}, 2, 3, 1, 0),
  Tools({Before}, {TRUE, FALSE}, {"get", "refresh", "rebuild"}, 2, 2, 1, 1),
  Tools({Beside}, {TRUE}, {"list", "delta", "delete", "refresh"}, 2, 2, 1, 0),
  \* searches and listings beside deletions
  Tools({Before}, {TRUE}, {"query", "delete"}, 2, 3, 0, 0),
  Tools({Before}, {TRUE}, {"query", "find", "lookup", "refresh"}, 1, 2, 1, 0),
  Tools({Before}, {TRUE}, {"lookup", "delete", "get"}, 1, 3, 1, 0),
  Tools({Beside}, {TRUE}, {"listing", "delete", "get"}, 2, 3, 0, 0),
  \* watches, with restarts and with failures; workspaces
  Tools({Alone}, {FALSE}, {"watch", "poll", "restart"}, 0, 5, 2, 0),
  Tools({Alone}, {FALSE}, {"watch", "poll"}, 0, 3, 2, 1),
  Tools({Alone}, {FALSE}, {"watch", "poll", "workspace"}, 0, 4, 2, 0),
  Tools({Alone}, {FALSE}, {"workspace"}, 0, 4, 1, 1)}

MCSession ==
  PlainSession
  \* the content index
  \cup Of({"office"}, Tools({Alone}, {TRUE, FALSE},
         {"index", "search", "get", "delete", "refresh"}, 2, 3, 2, 0))
  \cup Of({"office"}, Tools({Alone}, {TRUE, FALSE},
         {"index", "search", "get", "delete", "refresh"}, 2, 3, 1, 1))
  \cup Of({"common"}, Tools({Beside}, {TRUE}, {"index", "refresh"}, 1, 2, 1, 0))
  \* texts read in chunks
  \cup Of({"plain"}, Tools({Alone}, {TRUE}, {"fetch", "index", "get"}, 2, 3, 2, 1))
  \cup Of({"office"}, Tools({Alone}, {TRUE}, {"fetch", "index", "get"}, 2, 3, 2, 0))
  \cup Of({"common"}, Tools({Alone}, {TRUE}, {"fetch", "index", "get"}, 2, 3, 1, 1))

(* An Office file that nobody changes is read in chunks, with no failures.  *)
OfficeSession == Of({"office"}, Tools({Alone}, {TRUE}, {"fetch", "index"}, 1, 3, 0, 0))

Swaps == Permutations(Call) \cup Permutations(Task) \cup Permutations(Watch)
=============================================================================
