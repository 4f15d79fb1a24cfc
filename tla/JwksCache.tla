------------------------------- MODULE JwksCache -------------------------------
(***************************************************************************)
(* The cache of the identity provider's signing keys that token checks     *)
(* share.  A check reads the clock, probes the cache under a lock, fetches *)
(* outside it and stores what it has fetched under it again, stamped with  *)
(* the time from before the fetch; a key it does not find it asks for once *)
(* more, past the cache.  Meanwhile the provider rotates its keys.         *)
(***************************************************************************)
EXTENDS Integers

CONSTANTS
  Checks,       \* threads that call verify_jwt, one token after the other
  Keys,         \* signing keys, by their kid
  OldKeys,      \* the keys published at first
  JwksTTL,      \* cognito_jwks_cache_ttl_seconds
  JwksMaxTime,  \* bound: the clock stops here
  NoKey

ASSUME JwksAssumption ==
  /\ OldKeys \subseteq Keys
  /\ JwksTTL \in Nat
  /\ JwksMaxTime \in Nat
  /\ NoKey \notin Keys

VARIABLES
  clock,      \* time.time()
  published,  \* the keys that the provider serves
  withdrawn,  \* history: withdrawn[k] is when key k was, or Never
  jwks,       \* the cache entry; its time is Never if there is none
  check       \* check[c]: the token check c

jwksVars == <<clock, published, withdrawn, jwks, check>>

Never == -1
Entry == [keys : SUBSET Keys, at : Nat \cup {Never}]

(* at: the time that get_jwks has read; fails: history, a fetch has failed; *)
(* gap: history, the provider did not serve the token's key all the while. *)
Check == [pc : {"new", "probe", "fetch", "store", "accepted", "rejected"},
          kid : Keys \cup {NoKey}, began : Nat, at : Nat, forced : BOOLEAN,
          keys : SUBSET Keys, fails : BOOLEAN, gap : BOOLEAN]
NewCheck == [pc |-> "new", kid |-> NoKey, began |-> 0, at |-> 0, forced |-> FALSE,
             keys |-> {}, fails |-> FALSE, gap |-> FALSE]

JwksInit ==
  /\ clock = 0
  /\ published = OldKeys
  /\ withdrawn = [k \in Keys |-> Never]
  /\ jwks = [keys |-> {}, at |-> Never]
  /\ check = [c \in Checks |-> NewCheck]

JwksTick ==
  /\ clock < JwksMaxTime
  /\ clock' = clock + 1
  /\ UNCHANGED <<published, withdrawn, jwks, check>>

(* The provider: a key is served for one stretch of time.                  *)
Publish(k) ==
  /\ k \notin published /\ withdrawn[k] = Never
  /\ published' = published \cup {k}
  /\ UNCHANGED <<clock, withdrawn, jwks, check>>

Withdraw(k) ==
  /\ k \in published
  /\ published' = published \ {k}
  /\ withdrawn' = [withdrawn EXCEPT ![k] = clock]
  /\ check' = [c \in Checks |-> IF check[c].kid = k THEN [check[c] EXCEPT !.gap = TRUE]
                                ELSE check[c]]
  /\ UNCHANGED <<clock, jwks>>

----------------------------------------------------------------------------
Verify(c, k) ==
  /\ check[c].pc \in {"new", "accepted", "rejected"}
  /\ check' = [check EXCEPT ![c] = [NewCheck EXCEPT !.pc = "probe", !.kid = k,
                                      !.began = clock, !.at = clock,
                                      !.gap = k \notin published]]
  /\ UNCHANGED <<clock, published, withdrawn, jwks>>

Ended(v, verdict) == [v EXCEPT !.pc = verdict, !.at = 0, !.forced = FALSE, !.keys = {}]

(* get_jwks has returned keys: the check ends, or asks once more for a key *)
(* that is not among them, past the cache.                                 *)
AfterKeys(v, keys) ==
  CASE v.kid \in keys -> Ended(v, "accepted")
    [] v.kid \notin keys /\ v.forced -> Ended(v, "rejected")
    [] OTHER -> [v EXCEPT !.pc = "fetch", !.forced = TRUE, !.at = clock, !.keys = {}]

Usable(at) == jwks.at # Never /\ at - jwks.at < JwksTTL

ProbeHit(c) ==
  /\ check[c].pc = "probe" /\ Usable(check[c].at)
  /\ check' = [check EXCEPT ![c] = AfterKeys(@, jwks.keys)]
  /\ UNCHANGED <<clock, published, withdrawn, jwks>>

ProbeMiss(c) ==
  /\ check[c].pc = "probe" /\ ~Usable(check[c].at)
  /\ check' = [check EXCEPT ![c].pc = "fetch"]
  /\ UNCHANGED <<clock, published, withdrawn, jwks>>

(* The answer of the provider, outside the lock.                           *)
Fetch(c) ==
  /\ check[c].pc = "fetch"
  /\ check' = [check EXCEPT ![c].pc = "store", ![c].keys = published]
  /\ UNCHANGED <<clock, published, withdrawn, jwks>>

(* A failing fetch ends the check, whatever the cache holds.               *)
JwksFetchFails(c) ==
  /\ check[c].pc = "fetch"
  /\ check' = [check EXCEPT ![c] = Ended([@ EXCEPT !.fails = TRUE], "rejected")]
  /\ UNCHANGED <<clock, published, withdrawn, jwks>>

(* Faulty variant: the entry is stamped when it is stored.                 *)
StoreKeysNow(c) ==
  /\ check[c].pc = "store"
  /\ jwks' = [keys |-> check[c].keys, at |-> clock]
  /\ check' = [check EXCEPT ![c] = AfterKeys(@, @.keys)]
  /\ UNCHANGED <<clock, published, withdrawn>>
StoreKeys(c) ==
  /\ check[c].pc = "store"
  /\ jwks' = [keys |-> check[c].keys, at |-> check[c].at]
  /\ check' = [check EXCEPT ![c] = AfterKeys(@, @.keys)]
  /\ UNCHANGED <<clock, published, withdrawn>>

JwksNext ==
  \/ JwksTick
  \/ \E k \in Keys : Publish(k) \/ Withdraw(k)
  \/ \E c \in Checks :
       \/ \E k \in Keys : Verify(c, k)
       \/ ProbeHit(c) \/ ProbeMiss(c)
       \/ Fetch(c) \/ JwksFetchFails(c) \/ StoreKeys(c)

JwksSpec == JwksInit /\ [][JwksNext]_jwksVars

----------------------------------------------------------------------------
(* Types of the key cache.                                                 *)
JwksTypeOK ==
  /\ clock \in Nat
  /\ published \subseteq Keys
  /\ withdrawn \in [Keys -> Nat \cup {Never}]
  /\ jwks \in Entry
  /\ check \in [Checks -> Check]

(* A token is accepted for less than the TTL after its key was withdrawn,  *)
(* however slow the fetch was that stored the key, and whatever overwrote  *)
(* it meanwhile.                                                           *)
AcceptedRecently ==
  \A c \in Checks :
    check[c].pc = "accepted" /\ withdrawn[check[c].kid] # Never
      => \/ check[c].began <= withdrawn[check[c].kid]
         \/ check[c].began < withdrawn[check[c].kid] + JwksTTL

(* A token whose key the provider serves all the while is rejected only if *)
(* a fetch failed: the entry may be stale, or an older fetch may have      *)
(* overwritten a newer one, but the second request goes past the cache.    *)
RejectedUnknown ==
  \A c \in Checks : check[c].pc = "rejected" => check[c].fails \/ check[c].gap

(* What a check tells of a token is supported by what the provider served. *)
TokensJudged == AcceptedRecently /\ RejectedUnknown
=============================================================================
