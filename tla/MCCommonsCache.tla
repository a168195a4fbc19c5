--------------------------- MODULE MCCommonsCache ----------------------------
(***************************************************************************)
(* Small instance of CommonsCache: calls over a Map of one entry, so that  *)
(* every insertion evicts, with windows that a fetch may outlast.          *)
(***************************************************************************)
EXTENDS CommonsCache

Ask(route, id, sort) == [door |-> TRUE, route |-> route, id |-> id, sort |-> sort]

\* A feed and its homonymous album, a thread of the same name; a probe;
\* and one request for every answer that is given at once.
Items ==
    {Ask("commons", "imgur", "abc"), Ask("comments", "imgur", "abc"), Ask("album", "abc", "")}
Others ==
    {Ask("probe", "", ""), Ask("health", "", ""), Ask("commons", "imgur", NoSort),
     [Ask("image", "abc", "") EXCEPT !.door = FALSE], Ask("other", "", "")}
MCRequests == Items \cup Others

\* Enough for two revalidations of one feed.
OneFeed == {Ask("commons", "news", "hot")}

\* The calls are interchangeable (no liveness is checked).
CallSymmetry == Permutations(Calls)
=============================================================================
