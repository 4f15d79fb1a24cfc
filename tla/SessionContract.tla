--------------------------- MODULE SessionContract ---------------------------
(***************************************************************************)
(* What a live-search session promises to whoever can retrieve it, as      *)
(* implemented by the session store: a session opens pending or skipped,   *)
(* is settled at most once, by a new revision, and from the moment it is   *)
(* no longer retrievable it never comes back.                              *)
(***************************************************************************)
EXTENDS Naturals

CONSTANT Searches   \* identifiers of sessions
VARIABLE visible    \* visible[s]: what a load of session s would return

New == [status |-> "new", enrichment |-> "none", revision |-> 0]
Gone == [status |-> "gone", enrichment |-> "none", revision |-> 0]
Pending == [status |-> "enriching", enrichment |-> "pending", revision |-> 0]
Skipped == [status |-> "ready", enrichment |-> "skipped", revision |-> 0]
Completed == [status |-> "ready", enrichment |-> "completed", revision |-> 1]
Failed == [status |-> "ready", enrichment |-> "failed", revision |-> 1]

Init == visible = [s \in Searches |-> New]

Open(s) == visible[s] = New /\ visible'[s] \in {Pending, Skipped}
Settle(s) == visible[s] = Pending /\ visible'[s] \in {Completed, Failed}
Close(s) == visible[s] \in {Pending, Skipped, Completed, Failed} /\ visible'[s] = Gone

(* Several sessions may expire at the same moment.                         *)
Next ==
  /\ visible' = [s \in Searches |-> visible'[s]]
  /\ \A s \in Searches :
       visible'[s] = visible[s] \/ Open(s) \/ Settle(s) \/ Close(s)

Spec == Init /\ [][Next]_visible
=============================================================================
