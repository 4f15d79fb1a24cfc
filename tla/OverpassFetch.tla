----------------------------- MODULE OverpassFetch -----------------------------
(***************************************************************************)
(* fetch_gyms: the query of the OSM data goes to one server after the      *)
(* other, to each up to a number of attempts, with a sleep that grows with *)
(* the attempt.                                                            *)
(***************************************************************************)
EXTENDS Integers, Sequences

CONSTANTS
  Servers,     \* how many: the configured server and its fallback
  Attempts,    \* max_attempts or overpass_max_attempts; 0 counts as 1
  ReqTimeout,  \* longest request: overpass_timeout_seconds, if its body does not trickle
  Backoff      \* overpass_backoff_seconds

ASSUME OverpassAssumption ==
  /\ Servers \in Nat \ {0}
  /\ Attempts \in Nat
  /\ ReqTimeout \in Nat
  /\ Backoff \in Nat

VARIABLES
  query,  \* the call: where it is and how it ends
  tried   \* history: the attempts, as records of server and outcome

opVars == <<query, tried>>

TotalAttempts == IF Attempts = 0 THEN 1 ELSE Attempts

(* lost: a timeout or no connection; busy: 429, 502, 503 or 504; refused:  *)
(* any other HTTP error; garbled: a body that is no JSON.                  *)
Outcome == {"ok", "lost", "busy", "refused", "garbled"}
Query == [pc : {"request", "sleep", "fetched", "unavailable", "raised"},
          server : 1..Servers, attempt : Nat, time : Nat]

OpInit ==
  /\ query = [pc |-> "request", server |-> 1, attempt |-> 1, time |-> 0]
  /\ tried = <<>>

IsLastServer == query.server = Servers
IsLastAttempt == query.attempt = TotalAttempts
NextServer(q) == [q EXCEPT !.pc = "request", !.server = @ + 1, !.attempt = 1]

Tried(outcome) == tried' = Append(tried, [server |-> query.server, outcome |-> outcome])

(* An answer that is not an error ends the call; so does a body that does  *)
(* not parse, with an error that is not caught.                            *)
Answered(d) ==
  /\ query.pc = "request"
  /\ \E outcome \in {"ok", "garbled"} :
       /\ Tried(outcome)
       /\ query' = [query EXCEPT !.time = @ + d,
                      !.pc = IF outcome = "ok" THEN "fetched" ELSE "raised"]

(* A server that refuses is asked no more; the last one's refusal ends the *)
(* call.                                                                   *)
Refused(d) ==
  /\ query.pc = "request"
  /\ Tried("refused")
  /\ query' = LET q == [query EXCEPT !.time = @ + d]
              IN IF IsLastServer THEN [q EXCEPT !.pc = "unavailable"] ELSE NextServer(q)

(* Faulty variant: the last attempt at any server ends the call.           *)
TransientNoFallback(d) ==
  /\ query.pc = "request"
  /\ \E outcome \in {"lost", "busy"} : Tried(outcome)
  /\ query' = [query EXCEPT !.time = @ + d,
                 !.pc = IF IsLastAttempt THEN "unavailable" ELSE "sleep"]
Transient(d) ==
  /\ query.pc = "request"
  /\ \E outcome \in {"lost", "busy"} : Tried(outcome)
  /\ query' = [query EXCEPT !.time = @ + d,
                 !.pc = IF IsLastAttempt /\ IsLastServer THEN "unavailable" ELSE "sleep"]

(* The sleep comes before the next attempt, the first at the next server   *)
(* included.                                                               *)
Sleep ==
  /\ query.pc = "sleep"
  /\ LET q == [query EXCEPT !.time = @ + Backoff * query.attempt]
     IN query' = IF IsLastAttempt THEN NextServer(q)
                 ELSE [q EXCEPT !.pc = "request", !.attempt = @ + 1]
  /\ UNCHANGED tried

OpNext == (\E d \in 0..ReqTimeout : Answered(d) \/ Refused(d) \/ Transient(d)) \/ Sleep

OpSpec == OpInit /\ [][OpNext]_opVars

----------------------------------------------------------------------------
OpDone == query.pc \in {"fetched", "unavailable", "raised"}
AttemptsAt(s) == {n \in 1..Len(tried) : tried[n].server = s}

(* Types of the call.                                                      *)
OpTypeOK ==
  /\ query \in Query
  /\ tried \in Seq([server : 1..Servers, outcome : Outcome])
  /\ query.attempt \in 1..TotalAttempts

(* How long an enrichment can keep its session pending: every attempt at   *)
(* every server times out and all sleeps but the last are slept.           *)
FetchTime ==
  query.time <= Servers * TotalAttempts * ReqTimeout
                  + Backoff * (Servers * ((TotalAttempts * (TotalAttempts + 1)) \div 2)
                               - (IF OpDone THEN TotalAttempts ELSE 0))

(* The call gives up only when every server has refused or has failed all  *)
(* its attempts, and a server that has refused is never asked again.       *)
GivesUpLast ==
  query.pc = "unavailable" =>
    \A s \in 1..Servers :
      \/ \E n \in AttemptsAt(s) : tried[n].outcome = "refused"
                                    /\ \A m \in AttemptsAt(s) : m <= n
      \/ /\ \A n \in AttemptsAt(s) : tried[n].outcome \in {"lost", "busy"}
         /\ \E n, m \in AttemptsAt(s) : m = n + TotalAttempts - 1

(* A fetch tries long enough, and no longer.                               *)
FetchEnds == FetchTime /\ GivesUpLast
=============================================================================
