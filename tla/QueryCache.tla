----------------------------- MODULE QueryCache -----------------------------
(***************************************************************************)
(* One cached query of the browser.  TanStack Query is external; what the  *)
(* hooks and pages rely on (frontend/hooks, frontend/app/providers.tsx) is *)
(* its default client: data is stale at once, a mounted query is fetched   *)
(* on mount, on focus and when it is invalidated, and a fetch that fails   *)
(* for good leaves the data it had.                                        *)
(*                                                                         *)
(* lacks is history: the data is older than the last write this browser    *)
(* made.  An answer on its way is "new" if it was read after that write.   *)
(***************************************************************************)
CONSTANT None

Query(Data) ==
    [data : Data \cup {None}, stale : BOOLEAN, lacks : BOOLEAN,
     fetch : {"none", "sent", "old", "new"}, answer : Data \cup {None}]

Unfetched ==
    [data |-> None, stale |-> FALSE, lacks |-> FALSE, fetch |-> "none",
     answer |-> None]

\* A second observer, or the focus, starts no second fetch.
Fetched(q) == [q EXCEPT !.fetch = IF @ = "none" THEN "sent" ELSE @]

Answered(q, data) == [q EXCEPT !.fetch = "new", !.answer = data]

Failed(q) == [q EXCEPT !.fetch = "none", !.answer = None, !.stale = TRUE]

Loaded(q) ==
    [data |-> q.answer, stale |-> FALSE, lacks |-> q.fetch = "old",
     fetch |-> "none", answer |-> None]

\* Invalidation cancels the fetch that is on its way and starts another one; a
\* query that has no data yet keeps the fetch it has.
Invalidated(q, mounted) ==
    IF ~mounted THEN [q EXCEPT !.stale = TRUE]
    ELSE IF q.data = None THEN [Fetched(q) EXCEPT !.stale = TRUE]
    ELSE [q EXCEPT !.stale = TRUE, !.fetch = "sent", !.answer = None]

\* A write of this browser: what is cached, or was read before it, lacks it.
Overtaken(q) ==
    [q EXCEPT !.lacks = TRUE, !.fetch = IF @ = "new" THEN "old" ELSE @]

\* No fetch is on its way, and nothing marks the data as old.
LooksCurrent(q) == q.fetch = "none" /\ ~q.stale /\ q.data # None
=============================================================================
