---------------------------- MODULE AtomicScopes ----------------------------
(***************************************************************************)
(* What IBackend's transaction control promises (include/booru/db.hh):     *)
(* scopes nest, what is written inside them reaches the store all at once  *)
(* when the outermost one commits, and not at all when any of them was     *)
(* rolled back.                                                            *)
(***************************************************************************)
EXTENDS Integers

CONSTANT Writes       \* what may be written

VARIABLES store,      \* writes everybody sees
          pending,    \* writes of the scopes entered, not yet in the store
          open,       \* how many scopes are entered
          doomed      \* one of them was rolled back

vars == <<store, pending, open, doomed>>

Init ==
    /\ store = {} /\ pending = {}
    /\ open = 0 /\ doomed = FALSE

Enter ==
    /\ open' = open + 1
    /\ UNCHANGED <<store, pending, doomed>>

\* Outside every scope a write is a scope of its own.
Write(w) ==
    /\ IF open = 0 THEN store' = store \cup {w} /\ UNCHANGED pending
                   ELSE pending' = pending \cup {w} /\ UNCHANGED store
    /\ UNCHANGED <<open, doomed>>

LeaveNested(commit) ==
    /\ open > 1
    /\ open' = open - 1
    /\ doomed' = (doomed \/ ~commit)
    /\ UNCHANGED <<store, pending>>

LeaveOutermost(commit) ==
    /\ open = 1
    /\ open' = 0
    /\ store' = IF commit /\ ~doomed THEN store \cup pending ELSE store
    /\ pending' = {}
    /\ doomed' = FALSE

\* The connection is closed: every scope is rolled back.
Kill ==
    /\ open' = 0
    /\ pending' = {}
    /\ doomed' = FALSE
    /\ UNCHANGED store

\* Somebody else's write; never in the middle of this connection's own.
External(w) ==
    /\ pending = {}
    /\ store' = store \cup {w}
    /\ UNCHANGED <<pending, open, doomed>>

Next ==
    \/ Enter
    \/ \E w \in Writes : Write(w) \/ External(w)
    \/ \E commit \in BOOLEAN : LeaveNested(commit) \/ LeaveOutermost(commit)
    \/ Kill

Spec == Init /\ [][Next]_vars
=============================================================================
