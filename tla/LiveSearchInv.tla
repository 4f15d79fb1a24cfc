----------------------------- MODULE LiveSearchInv -----------------------------
(***************************************************************************)
(* The inductive invariant of LiveSearch: what ties the session file, its  *)
(* handler, its task, the polls in flight and the answers already given.   *)
(***************************************************************************)
EXTENDS LiveSearch

(* What an actor has in hand at each of its steps.                         *)
ActorsOK ==
  /\ \A s \in Searches :
       /\ req[s].pc \in Awaiting \cup {"respond"} => req[s].client \in Clients
       /\ task[s].pc \in {"cache", "load", "replace"} => task[s].osm \in Osm
       /\ task[s].pc \in {"replace", "markreplace"} => task[s].snap \in Session
  /\ \A c \in Clients : poll[c].pc = "read" => poll[c].id \in Searches

TypeInv == TypeOK /\ ActorsOK

(* Two versions of the same session: a replacement keeps both fields.      *)
SameSession(a, b) == a.owner = b.owner /\ a.expires = b.expires

Replacing(s) == task[s].pc \in {"replace", "markreplace"}

(* Before it has created the session a handler is alone with it; until it  *)
(* has responded nobody else knows of it.                                  *)
HandlerInv ==
  \A s \in Searches :
    /\ req[s].pc \notin {"respond", "done"} =>
         files[s] = None /\ task[s].pc = "idle" /\ osmSeen[s] = None
    /\ req[s].pc = "respond" =>
         /\ files[s] # None /\ task[s].pc = "idle"
         /\ files[s].revision = 0
         /\ files[s].status = IF req[s].probe # None THEN "ready" ELSE "enriching"

(* A running task is the only writer of its session, and what it has       *)
(* loaded is what is stored, unless that has expired and was unlinked.     *)
TaskInv ==
  \A s \in Searches : task[s].pc \in Running =>
    /\ req[s].pc = "done"
    /\ osmSeen[s] = None
    /\ files[s] # None => Unsettled(files[s])
    /\ Replacing(s) =>
         LET snap == task[s].snap
         IN /\ Unsettled(snap) /\ Coherent(snap) /\ NoOsmTier(snap)
            /\ files[s] = snap \/ (files[s] = None /\ Expired(snap))

(* What a poll has read is a version of the session it polls.              *)
PollInv ==
  \A c \in Clients : poll[c].pc = "read" =>
    LET s == poll[c].id
        snap == poll[c].snap
    IN /\ req[s].pc = "done"
       /\ snap # None =>
            /\ files[s] # None => SameSession(files[s], snap)
            /\ files[s] = None => Expired(snap)
            /\ Replacing(s) => SameSession(task[s].snap, snap)
            /\ snap.status = "enriching" => snap.revision = 0
            /\ snap.status = "ready" =>
                 task[s].pc \notin Running /\ files[s] \in {None, snap}

SessionInv == StoredSessionsCoherent /\ HandlerInv /\ TaskInv /\ PollInv

(* What client c may still be served of a session: nothing, once the       *)
(* session has expired or if c is not its owner.                           *)
ClosedTo(c, f) == f # None => f.owner # c \/ Expired(f)
Closed(c, s) ==
  ClosedTo(c, files[s]) /\ (Replacing(s) => ClosedTo(c, task[s].snap))
Polling(c, s) == poll[c].pc = "read" /\ poll[c].id = s

(* The last answer given to a client agrees with what it can be given, and *)
(* so does the answer of a poll that has found no file.                    *)
ViewInv ==
  \A c \in Clients, s \in Searches :
    LET v == view[c][s]
    IN /\ v.status # "unknown" => req[s].pc = "done"
       /\ v.status # "ready" => v.revision = 0
       /\ v.status = "ready" =>
            /\ task[s].pc \notin Running
            /\ files[s] # None => ReplyOf(files[s]) = v
            /\ Polling(c, s) /\ poll[c].snap # None => ReplyOf(poll[c].snap) = v
       /\ ~ReadFaults /\ v.status = "notfound" =>
            Closed(c, s) /\ (Polling(c, s) => ClosedTo(c, poll[c].snap))
       /\ ~ReadFaults /\ Polling(c, s) /\ poll[c].snap = None => Closed(c, s)

(* How old the OSM data can be that a handler has probed and not yet used. *)
DataAgeInv ==
  /\ \A s \in Searches : req[s].pc \in Awaiting => now <= req[s].deadline
  /\ \A s \in Searches : req[s].probe # None /\ req[s].pc \in {"search", "brand"} =>
       req[s].deadline < req[s].probe.at + CacheTTL
         + (IF req[s].pc = "search" THEN UpstreamTimeout ELSE 2 * UpstreamTimeout)

InductiveInv == TypeInv /\ SessionInv /\ ViewInv /\ DataAgeInv /\ PendingHasWorker
=============================================================================
