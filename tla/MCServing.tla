------------------------------ MODULE MCServing ------------------------------
EXTENDS Serving

Exploring(tools, requests, links, stopped) ==
  [tools |-> tools, requests |-> requests, links |-> links, kids |-> {0},
   published |-> {}, stops |-> stopped]

MCSession == {
  \* responses alone, enough of them for both limits
  Exploring({}, <<"s1", "s1", "s2", "s3">>, {1}, 0),
  Exploring({}, <<"s1", "s1", "s2">>, {1}, 1),
  \* downloads and their evictions
  Exploring({"s1", "s2"} \X {"download"}, <<>>, {}, 0),
  \* every kind of document work, with account changes and crashes
  Exploring({"s1"} \X {"download", "render", "inspect", "helper"}, <<>>, {}, 2),
  \* links read while they are made, expire and go
  Exploring({"s1", "s2"} \X {"download"}, <<"s1">>, {1, 2}, 1),
  \* two requests at a time, and any number one after the other, with tokens
  \* that name two keys
  [Exploring({}, <<"s1", "s2">>, {0}, 0)
     EXCEPT !.kids = {1, 2}, !.published = {1}],
  \* a link read with a delegated token
  [Exploring({}, <<"s1">>, {1}, 0)
     EXCEPT !.kids = {0, 1}, !.published = {1}]}
=============================================================================
