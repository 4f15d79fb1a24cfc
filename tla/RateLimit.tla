------------------------------- MODULE RateLimit -------------------------------
(***************************************************************************)
(* The rate limit of the live search: a sliding window of request times    *)
(* per client host, kept in a SQLite table that all server processes       *)
(* share, and, whenever that table cannot be used, in a queue of the       *)
(* process that handles the request.  Both read the clock before they hold *)
(* their lock.                                                             *)
(***************************************************************************)
EXTENDS Integers, FiniteSets, Sequences

CONSTANTS
  Requests,     \* requests that reach enforce_live_search_rate_limit
  Hosts,        \* bucket keys
  Processes,    \* server processes
  Limit,        \* live_search_rate_limit
  Window,       \* live_search_window_seconds
  MaxDelay,     \* longest wait for a lock: busy_timeout of the database
  MaxTime,      \* bound: the clock stops here
  MaxRestarts,  \* bound: how often a process restarts
  StoreFaults,  \* may the database be unusable?
  None          \* no host, no process

ASSUME RateLimitAssumption ==
  /\ Limit \in Nat \ {0}
  /\ Window \in Nat \ {0}
  /\ MaxDelay \in Nat
  /\ MaxTime \in Nat
  /\ MaxRestarts \in Nat
  /\ StoreFaults \in BOOLEAN
  /\ None \notin Hosts \cup Processes

VARIABLES
  now,     \* the clock
  events,  \* rows of rate_limit_events
  bucket,  \* bucket[p][h]: the fallback queue of process p for host h
  life,    \* life[p]: how often process p has restarted
  call,    \* call[r]: the check of request r
  log      \* history: the decisions, in the order they were committed

vars == <<now, events, bucket, life, call, log>>

(* at: the time that the call has read from the clock.                     *)
Call == [pc : {"new", "store", "fallback", "decided", "lost"},
         host : Hosts \cup {None}, proc : Processes \cup {None}, at : Nat]
NewCall == [pc |-> "new", host |-> None, proc |-> None, at |-> 0]
Event == [req : Requests, host : Hosts, at : Nat]

(* Who decided: the shared store, or one life of the queue of a process.   *)
Store == [proc |-> None, life |-> 0]
Source == [proc : Processes \cup {None}, life : Nat]
Decision == [req : Requests, host : Hosts, at : Nat, src : Source,
             admitted : BOOLEAN, retry : Nat]

Init ==
  /\ now = 0
  /\ events = {}
  /\ bucket = [p \in Processes |-> [h \in Hosts |-> <<>>]]
  /\ life = [p \in Processes |-> 0]
  /\ call = [r \in Requests |-> NewCall]
  /\ log = <<>>

(* A call waits for its lock at most MaxDelay.                             *)
Tick ==
  /\ now < MaxTime
  /\ \A r \in Requests :
       call[r].pc \in {"store", "fallback"} => now < call[r].at + MaxDelay
  /\ now' = now + 1
  /\ UNCHANGED <<events, bucket, life, call, log>>

(* The table outlives a process; its queues and calls do not.              *)
Restart(p) ==
  /\ life[p] < MaxRestarts
  /\ life' = [life EXCEPT ![p] = @ + 1]
  /\ bucket' = [bucket EXCEPT ![p] = [h \in Hosts |-> <<>>]]
  /\ call' = [r \in Requests |->
       IF call[r].proc = p /\ call[r].pc \in {"store", "fallback"}
       THEN [NewCall EXCEPT !.pc = "lost"] ELSE call[r]]
  /\ UNCHANGED <<now, events, log>>

(* consume_rate_limit_token reads the clock first.                         *)
Arrive(r, h, p) ==
  /\ call[r].pc = "new"
  /\ call' = [call EXCEPT ![r] = [pc |-> "store", host |-> h, proc |-> p, at |-> now]]
  /\ UNCHANGED <<now, events, bucket, life, log>>

----------------------------------------------------------------------------
Max2(a, b) == IF a >= b THEN a ELSE b
RetryAfter(at, oldest) == Max2(1, Window - (at - oldest))

(* A decision ends the call.                                               *)
Decide(r, src, admitted, retry) ==
  /\ log' = Append(log, [req |-> r, host |-> call[r].host, at |-> call[r].at,
                         src |-> src, admitted |-> admitted, retry |-> retry])
  /\ call' = [call EXCEPT ![r].pc = "decided"]
  /\ UNCHANGED <<now, life>>

(* Faulty variant: rows of exactly the age of the window are kept.         *)
LiveRowsInclusive(h, at) == {e \in events : e.host = h /\ e.at >= at - Window}
LiveRows(h, at) == {e \in events : e.host = h /\ e.at > at - Window}
OtherRows(h) == {e \in events : e.host # h}
Oldest(rows) == CHOOSE t \in {e.at : e \in rows} : \A e \in rows : t <= e.at

(* One transaction: purge, count, insert.                                  *)
(* Faulty variants: the comparison with the limit is off by one, the cutoff *)
(* is inserted instead of the time of the call.                            *)
StoreAdmitsOverLimit(r) ==
  LET h == call[r].host
      live == LiveRows(h, call[r].at)
  IN /\ call[r].pc = "store"
     /\ Cardinality(live) <= Limit
     /\ events' = OtherRows(h) \cup live
                    \cup {[req |-> r, host |-> h, at |-> call[r].at]}
     /\ Decide(r, Store, TRUE, 0)
     /\ UNCHANGED bucket
StoreAdmitsCutoff(r) ==
  LET h == call[r].host
      live == LiveRows(h, call[r].at)
  IN /\ call[r].pc = "store"
     /\ Cardinality(live) < Limit
     /\ events' = OtherRows(h) \cup live
                    \cup {[req |-> r, host |-> h, at |-> call[r].at - Window]}
     /\ Decide(r, Store, TRUE, 0)
     /\ UNCHANGED bucket
StoreAdmits(r) ==
  LET h == call[r].host
      live == LiveRows(h, call[r].at)
  IN /\ call[r].pc = "store"
     /\ Cardinality(live) < Limit
     /\ events' = OtherRows(h) \cup live
                    \cup {[req |-> r, host |-> h, at |-> call[r].at]}
     /\ Decide(r, Store, TRUE, 0)
     /\ UNCHANGED bucket

StoreDenies(r) ==
  LET h == call[r].host
      live == LiveRows(h, call[r].at)
  IN /\ call[r].pc = "store"
     /\ Cardinality(live) >= Limit
     /\ events' = OtherRows(h) \cup live
     /\ Decide(r, Store, FALSE, RetryAfter(call[r].at, Oldest(live)))
     /\ UNCHANGED bucket

(* OSError or sqlite3.Error, a lock that is not free within busy_timeout   *)
(* included: the transaction is rolled back and the process decides, at a  *)
(* time of its own.                                                        *)
StoreFails(r) ==
  /\ StoreFaults
  /\ call[r].pc = "store"
  /\ call' = [call EXCEPT ![r].pc = "fallback", ![r].at = now]
  /\ UNCHANGED <<now, events, bucket, life, log>>

(* The queue loses its head as long as that is as old as the window; times *)
(* are appended in the order of the lock, which need not be that of the    *)
(* clock.                                                                  *)
Purged(queue, at) ==
  LET live == {n \in 1..Len(queue) : queue[n] > at - Window}
      first == IF live = {} THEN Len(queue) + 1
               ELSE CHOOSE n \in live : \A m \in live : n <= m
  IN SubSeq(queue, first, Len(queue))

FallbackAdmits(r) ==
  LET h == call[r].host
      p == call[r].proc
      queue == Purged(bucket[p][h], call[r].at)
  IN /\ call[r].pc = "fallback"
     /\ Len(queue) < Limit
     /\ bucket' = [bucket EXCEPT ![p][h] = Append(queue, call[r].at)]
     /\ Decide(r, [proc |-> p, life |-> life[p]], TRUE, 0)
     /\ UNCHANGED events

FallbackDenies(r) ==
  LET h == call[r].host
      p == call[r].proc
      queue == Purged(bucket[p][h], call[r].at)
  IN /\ call[r].pc = "fallback"
     /\ Len(queue) >= Limit
     /\ bucket' = [bucket EXCEPT ![p][h] = queue]
     /\ Decide(r, [proc |-> p, life |-> life[p]], FALSE,
               RetryAfter(call[r].at, queue[1]))
     /\ UNCHANGED events

Next ==
  \/ Tick
  \/ \E p \in Processes : Restart(p)
  \/ \E r \in Requests :
       \/ \E h \in Hosts, p \in Processes : Arrive(r, h, p)
       \/ StoreAdmits(r) \/ StoreDenies(r) \/ StoreFails(r)
       \/ FallbackAdmits(r) \/ FallbackDenies(r)

Spec == Init /\ [][Next]_vars

----------------------------------------------------------------------------
TypeOK ==
  /\ now \in Nat
  /\ events \subseteq Event
  /\ bucket \in [Processes -> [Hosts -> Seq(Nat)]]
  /\ life \in [Processes -> Nat]
  /\ call \in [Requests -> Call]
  /\ log \in Seq(Decision)

Admitted(h, src) ==
  {n \in 1..Len(log) : log[n].admitted /\ log[n].host = h /\ log[n].src = src}
SameBucket(m, n) == log[m].host = log[n].host /\ log[m].src = log[n].src

(* However its processes and their clocks interleave, a bucket admits no   *)
(* more than Limit requests of a host in any stretch of time that is       *)
(* shorter than the window by the longest wait for the lock.  (The window  *)
(* itself is not respected: a call that has waited counts with a time      *)
(* before that of a call that has already purged the table.)               *)
WindowRespected ==
  \A n \in 1..Len(log) :
    Cardinality({m \in Admitted(log[n].host, log[n].src) :
                   log[m].at \in log[n].at .. (log[n].at + Window - MaxDelay - 1)}) <= Limit

(* Retry-After is honest: a request that comes back after that time is     *)
(* admitted, unless its bucket has admitted another one since the denial;  *)
(* and it exceeds the window by no more than the wait for the lock.        *)
RetryAfterHonest ==
  /\ \A m, n \in 1..Len(log) :
       m < n /\ SameBucket(m, n) /\ ~log[m].admitted /\ ~log[n].admitted
         /\ log[n].at >= log[m].at + log[m].retry
       => \E k \in (m + 1)..(n - 1) : SameBucket(k, n) /\ log[k].admitted
  /\ \A n \in 1..Len(log) : ~log[n].admitted => log[n].retry \in 1..(Window + MaxDelay)
=============================================================================
