----------------------------- MODULE QueryCache -----------------------------
(***************************************************************************)
(* An entry of the query cache of a tab (TanStack Query, with the defaults *)
(* of ReactQueryProvider: one client for the tab, a failed fetch is not    *)
(* retried, getting the focus does not fetch).                             *)
(***************************************************************************)

(* Its data (none, or one value), the fetch under way with the answer on its way
   back, isInvalidated, and whether the last fetch failed. *)
NoEntry == [data |-> <<>>, phase |-> "idle", answer |-> <<>>, invalid |-> FALSE,
            failed |-> FALSE]

Fetching(c) == [c EXCEPT !.phase = "sent", !.answer = <<>>]

Answered(c) == [NoEntry EXCEPT !.data = c.answer]
Failed(c) == [c EXCEPT !.phase = "idle", !.answer = <<>>, !.failed = TRUE]
Cancelled(c) == [c EXCEPT !.phase = "idle", !.answer = <<>>]

(* A mounted observer fetches what is not there, was invalidated or is stale. *)
Mounted(c, stale) ==
    IF c.phase = "idle" /\ (c.data = <<>> \/ c.invalid \/ stale) THEN Fetching(c) ELSE c

(* invalidateQueries: a query on the screen that has data is fetched anew, and a
   fetch it had under way is given up; any other fetch under way goes on, and
   its answer clears the mark. *)
Restarts(c, observed) == observed /\ (c.phase = "idle" \/ c.data # <<>>)
Marked(c) == [c EXCEPT !.invalid = TRUE]
OnlyMarked(c, observed) == Marked(c)
Invalidated(c, observed) ==
    IF Restarts(c, observed) THEN Fetching(Marked(c)) ELSE Marked(c)

=============================================================================
