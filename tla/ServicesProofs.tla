--------------------------- MODULE ServicesProofs ----------------------------
(***************************************************************************)
(* The services beside the live search, for every value of their           *)
(* constants: the key cache, the registry of datasets, the table of gyms   *)
(* and its synchronisation, the Overpass client, the migrations and the    *)
(* metrics.  Each section has an inductive invariant and ends with its     *)
(* theorems.  The last section is about MCServices, which puts them        *)
(* together with the rate limit and with what is done with gyms.           *)
(***************************************************************************)
EXTENDS MCServices, RateLimitProofs, GymDataProofs

----------------------------------------------------------------------------
(* JwksCache: the key cache judges tokens soundly, whatever the number of  *)
(* checks and keys, and the TTL.                                           *)

(* Keys fetched by a request that began at time t: a key among them was    *)
(* not withdrawn before t.                                                 *)
ServedAt(keys, t) == \A k \in keys : withdrawn[k] = Never \/ t <= withdrawn[k]

(* The past of the provider.                                               *)
ProviderInv ==
  /\ \A k \in published : withdrawn[k] = Never
  /\ \A k \in Keys : withdrawn[k] <= clock

(* An entry is never newer than its stamp says.                            *)
EntryInv ==
  jwks.at # Never => jwks.at <= clock /\ ServedAt(jwks.keys, jwks.at)

Judging == {"probe", "fetch", "store"}

(* What a running check has read and fetched.                              *)
RunningInv(v) ==
  /\ v.began <= clock
  /\ v.pc # "new" => v.kid \in Keys
  /\ v.pc \in Judging => v.began <= v.at /\ v.at <= clock
  /\ v.pc \in Judging /\ ~v.gap => v.kid \in published
  /\ v.pc = "probe" => v.at = v.began /\ ~v.forced
  /\ v.pc = "store" => ServedAt(v.keys, v.at) /\ (~v.gap => v.kid \in v.keys)

(* The verdict of a check that has ended.                                  *)
VerdictInv(v) ==
  /\ v.pc = "accepted" /\ withdrawn[v.kid] # Never
       => v.began <= withdrawn[v.kid] \/ v.began < withdrawn[v.kid] + JwksTTL
  /\ v.pc = "rejected" => v.fails \/ v.gap

ChecksInv == \A c \in Checks : RunningInv(check[c]) /\ VerdictInv(check[c])

JwksInv == JwksTypeOK /\ ProviderInv /\ EntryInv /\ ChecksInv

----------------------------------------------------------------------------
LEMMA NeverFacts == Never \notin Nat /\ Never \in Int /\ \A n \in Nat : Never < n
BY DEF Never

LEMMA JwksInitInv == JwksInit => JwksInv
BY JwksAssumption, NeverFacts
   DEF JwksInit, JwksInv, JwksTypeOK, ProviderInv, EntryInv, ChecksInv, RunningInv,
       VerdictInv, Entry, Check, NewCheck, Judging, Never

(* Records of checks that end.                                             *)
LEMMA EndedFacts ==
  ASSUME NEW v \in Check, NEW verdict \in {"accepted", "rejected"}
  PROVE  LET w == Ended(v, verdict)
         IN  /\ w \in Check /\ w.pc = verdict /\ w.kid = v.kid
             /\ w.began = v.began /\ w.fails = v.fails /\ w.gap = v.gap
BY DEF Ended, Check

(* A step of one check that leaves the provider and the clock alone keeps  *)
(* the invariant if what it makes of its own record and of the entry does. *)
LEMMA OneCheckSteps ==
  ASSUME JwksInv, NEW c \in Checks, NEW w \in Check,
         UNCHANGED <<clock, published, withdrawn>>,
         check' = [check EXCEPT ![c] = w],
         RunningInv(w), VerdictInv(w),
         jwks' \in Entry,
         jwks'.at # Never => jwks'.at <= clock /\ ServedAt(jwks'.keys, jwks'.at)
  PROVE  JwksInv'
<1>1. JwksTypeOK'  BY DEF JwksInv, JwksTypeOK
<1>2. ProviderInv'  BY DEF JwksInv, ProviderInv
<1>3. EntryInv'  BY DEF EntryInv, ServedAt
<1>4. ChecksInv'
  <2> SUFFICES ASSUME NEW d \in Checks
               PROVE  (RunningInv(check[d]) /\ VerdictInv(check[d]))'
    BY DEF ChecksInv
  <2>1. check'[d] = IF d = c THEN w ELSE check[d]
    BY DEF JwksInv, JwksTypeOK
  <2>2. RunningInv(check'[d]) /\ VerdictInv(check'[d])
    BY <2>1 DEF JwksInv, ChecksInv
  <2>3. QED
    BY <2>2 DEF RunningInv, VerdictInv, ServedAt
<1>5. QED  BY <1>1, <1>2, <1>3, <1>4 DEF JwksInv

(* What get_jwks returns is judged soundly if it was served late enough;   *)
(* a forced answer must hold a key that is served all the while.           *)
LEMMA AfterKeysSound ==
  ASSUME JwksInv, NEW v \in Check, NEW keys \in SUBSET Keys,
         RunningInv(v), v.pc \in {"probe", "store"},
         v.kid \in keys /\ withdrawn[v.kid] # Never
           => v.began <= withdrawn[v.kid] \/ v.began < withdrawn[v.kid] + JwksTTL,
         v.forced /\ ~v.gap => v.kid \in keys
  PROVE  LET w == AfterKeys(v, keys) IN w \in Check /\ RunningInv(w) /\ VerdictInv(w)
<1> DEFINE w == AfterKeys(v, keys)
<1>1. CASE v.kid \in keys
  <2>1. w = Ended(v, "accepted")  BY <1>1 DEF AfterKeys
  <2>2. /\ w \in Check /\ w.pc = "accepted" /\ w.kid = v.kid /\ w.began = v.began
    BY <2>1, EndedFacts
  <2>3. QED  BY <1>1, <2>2 DEF RunningInv, VerdictInv, Judging
<1>2. CASE v.kid \notin keys /\ v.forced
  <2>1. w = Ended(v, "rejected")  BY <1>2 DEF AfterKeys
  <2>2. /\ w \in Check /\ w.pc = "rejected" /\ w.kid = v.kid /\ w.began = v.began
        /\ w.fails = v.fails /\ w.gap = v.gap
    BY <2>1, EndedFacts
  <2>3. v.gap  BY <1>2 DEF Check
  <2>4. QED  BY <2>2, <2>3 DEF RunningInv, VerdictInv, Judging
<1>3. CASE v.kid \notin keys /\ ~v.forced
  <2>1. w = [v EXCEPT !.pc = "fetch", !.forced = TRUE, !.at = clock, !.keys = {}]
    BY <1>3 DEF AfterKeys
  <2>2. clock \in Nat  BY DEF JwksInv, JwksTypeOK
  <2>3. /\ w \in Check /\ w.pc = "fetch" /\ w.kid = v.kid /\ w.began = v.began
        /\ w.at = clock /\ w.gap = v.gap
    BY <2>1, <2>2 DEF Check
  <2>4. QED  BY <2>2, <2>3 DEF RunningInv, VerdictInv, Judging
<1>4. QED  BY <1>1, <1>2, <1>3

LEMMA ClockSteps == JwksInv /\ JwksTick => JwksInv'
<1> SUFFICES ASSUME JwksInv, JwksTick PROVE JwksInv'
  OBVIOUS
<1> USE DEF JwksInv, JwksTick
<1>1. clock \in Nat /\ clock' = clock + 1  BY DEF JwksTypeOK
<1>2. JwksTypeOK'  BY <1>1 DEF JwksTypeOK
<1>3. ProviderInv'  BY <1>1, NeverFacts DEF ProviderInv, JwksTypeOK
<1>4. EntryInv'  BY <1>1 DEF EntryInv, ServedAt, JwksTypeOK, Entry
<1>5. ChecksInv'
  BY <1>1 DEF ChecksInv, RunningInv, VerdictInv, ServedAt, JwksTypeOK, Check
<1>6. QED  BY <1>2, <1>3, <1>4, <1>5

LEMMA PublishKeeps ==
  ASSUME JwksInv, NEW k \in Keys, Publish(k)
  PROVE  JwksInv'
<1> USE DEF JwksInv, Publish
<1>1. JwksTypeOK'  BY DEF JwksTypeOK
<1>2. ProviderInv'  BY DEF ProviderInv
<1>3. EntryInv'  BY DEF EntryInv, ServedAt
<1>4. ChecksInv'  BY DEF ChecksInv, RunningInv, VerdictInv, ServedAt
<1>5. QED  BY <1>1, <1>2, <1>3, <1>4

(* A key is withdrawn now: later than every stamp and every beginning.     *)
LEMMA WithdrawKeeps ==
  ASSUME JwksInv, NEW k \in Keys, Withdraw(k)
  PROVE  JwksInv'
<1>1. /\ clock \in Nat /\ clock' = clock /\ jwks' = jwks
      /\ published' = published \ {k}
      /\ withdrawn \in [Keys -> Nat \cup {Never}] /\ withdrawn' = [withdrawn EXCEPT ![k] = clock]
      /\ \A key \in Keys : withdrawn'[key] = IF key = k THEN clock ELSE withdrawn[key]
      /\ published \subseteq Keys /\ jwks \in Entry
  BY DEF JwksInv, JwksTypeOK, Withdraw
<1>2. ASSUME NEW c \in Checks
      PROVE  /\ check[c] \in Check /\ check'[c] \in Check
             /\ check'[c] = IF check[c].kid = k THEN [check[c] EXCEPT !.gap = TRUE] ELSE check[c]
  <2>1. check[c] \in Check
    BY DEF JwksInv, JwksTypeOK
  <2>2. check'[c] = IF check[c].kid = k THEN [check[c] EXCEPT !.gap = TRUE] ELSE check[c]
    BY DEF Withdraw
  <2>3. [check[c] EXCEPT !.gap = TRUE] \in Check
    BY <2>1 DEF Check
  <2>4. QED  BY <2>1, <2>2, <2>3
<1>3. JwksTypeOK'
  <2>1. check' \in [Checks -> Check]  BY <1>2 DEF Withdraw
  <2>2. withdrawn' \in [Keys -> Nat \cup {Never}]  BY <1>1
  <2>3. QED  BY <1>1, <2>1, <2>2 DEF JwksTypeOK
<1>4. ProviderInv'
  BY <1>1, NeverFacts DEF JwksInv, ProviderInv
<1>5. ASSUME NEW keys \in SUBSET Keys, NEW t, t <= clock, ServedAt(keys, t)
      PROVE  ServedAt(keys, t)'
  BY <1>1, <1>5 DEF ServedAt
<1>6. EntryInv'
  <2>1. jwks.at # Never => jwks.at <= clock /\ ServedAt(jwks.keys, jwks.at)
    BY DEF JwksInv, EntryInv
  <2>2. jwks.keys \in SUBSET Keys  BY <1>1 DEF Entry
  <2>3. QED  BY <1>1, <1>5, <2>1, <2>2 DEF EntryInv, ServedAt
<1>7. ChecksInv'
  <2> SUFFICES ASSUME NEW c \in Checks
               PROVE  (RunningInv(check[c]) /\ VerdictInv(check[c]))'
    BY DEF ChecksInv
  <2>1. RunningInv(check[c]) /\ VerdictInv(check[c])
    BY DEF JwksInv, ChecksInv
  <2>2. /\ check'[c].pc = check[c].pc /\ check'[c].kid = check[c].kid
        /\ check'[c].began = check[c].began /\ check'[c].at = check[c].at
        /\ check'[c].forced = check[c].forced /\ check'[c].keys = check[c].keys
        /\ check'[c].fails = check[c].fails
        /\ check[c].gap => check'[c].gap
        /\ ~check'[c].gap => ~check[c].gap /\ check[c].kid # k
    <3>1. CASE check[c].kid = k
      <4>1. check'[c] = [check[c] EXCEPT !.gap = TRUE]  BY <1>2, <3>1
      <4>2. QED  BY <1>2, <3>1, <4>1 DEF Check
    <3>2. CASE check[c].kid # k
      <4>1. check'[c] = check[c]  BY <1>2, <3>2
      <4>2. QED  BY <3>2, <4>1
    <3>3. QED  BY <3>1, <3>2
  <2>3. RunningInv(check[c])'
    <3>1. check[c].pc = "store" => ServedAt(check[c].keys, check[c].at)'
      <4>1. check[c].keys \in SUBSET Keys  BY <1>2 DEF Check
      <4>2. check[c].pc = "store" => check[c].at <= clock /\ ServedAt(check[c].keys, check[c].at)
        BY <2>1 DEF RunningInv, Judging
      <4>3. QED  BY <1>1, <2>2, <4>1, <4>2 DEF ServedAt
    <3>2. QED  BY <1>1, <2>1, <2>2, <3>1 DEF RunningInv, Judging
  <2>4. VerdictInv(check[c])'
    <3>1. check[c].pc # "new" => check[c].kid \in Keys
      BY <2>1 DEF RunningInv
    <3>2. check[c].began <= clock  BY <2>1 DEF RunningInv
    <3>3. QED  BY <1>1, <2>1, <2>2, <3>1, <3>2 DEF VerdictInv
  <2>5. QED  BY <2>3, <2>4
<1>8. QED  BY <1>3, <1>4, <1>6, <1>7 DEF JwksInv

(* The facts about one check that each of its steps starts from.           *)
LEMMA CheckFacts ==
  ASSUME JwksInv, NEW c \in Checks
  PROVE  /\ check[c] \in Check /\ RunningInv(check[c]) /\ VerdictInv(check[c])
         /\ clock \in Nat /\ published \subseteq Keys /\ jwks \in Entry
         /\ withdrawn \in [Keys -> Nat \cup {Never}]
         /\ jwks.at # Never => jwks.at <= clock /\ ServedAt(jwks.keys, jwks.at)
BY DEF JwksInv, JwksTypeOK, ChecksInv, EntryInv

LEMMA VerifyKeeps ==
  ASSUME JwksInv, NEW c \in Checks, NEW k \in Keys, Verify(c, k)
  PROVE  JwksInv'
<1> DEFINE gap == k \notin published
           w == [NewCheck EXCEPT !.pc = "probe", !.kid = k, !.began = clock,
                                 !.at = clock, !.gap = gap]
<1>1. gap \in BOOLEAN /\ (~gap => k \in published)
  OBVIOUS
<1>2. check' = [check EXCEPT ![c] = w] /\ UNCHANGED <<clock, published, withdrawn, jwks>>
  BY DEF Verify
<1> HIDE DEF gap
<1>3. /\ w \in Check /\ w.pc = "probe" /\ w.kid = k /\ w.began = clock
      /\ w.at = clock /\ w.gap = gap /\ w.forced = FALSE
  <2>1. clock \in Nat  BY CheckFacts
  <2>2. QED  BY <1>1, <2>1 DEF NewCheck, Check
<1> HIDE DEF w
<1>4. RunningInv(w)
  BY <1>1, <1>3, CheckFacts DEF RunningInv, Judging
<1>5. VerdictInv(w)
  BY <1>3 DEF VerdictInv
<1>6. QED  BY <1>2, <1>3, <1>4, <1>5, CheckFacts, OneCheckSteps

LEMMA ProbeHitKeeps ==
  ASSUME JwksInv, NEW c \in Checks, ProbeHit(c)
  PROVE  JwksInv'
<1> DEFINE v == check[c]
           w == AfterKeys(v, jwks.keys)
<1>1. /\ v \in Check /\ RunningInv(v) /\ v.pc = "probe" /\ jwks.keys \in SUBSET Keys
      /\ v.kid \in Keys /\ v.at = v.began /\ ~v.forced
  BY CheckFacts DEF ProbeHit, RunningInv, Entry
<1>2. jwks.at \in Nat /\ v.at - jwks.at < JwksTTL /\ ServedAt(jwks.keys, jwks.at)
  BY CheckFacts DEF ProbeHit, Usable, Entry
<1>3. v.kid \in jwks.keys /\ withdrawn[v.kid] # Never
        => v.began <= withdrawn[v.kid] \/ v.began < withdrawn[v.kid] + JwksTTL
  <2>1. v.kid \in jwks.keys /\ withdrawn[v.kid] # Never
          => jwks.at <= withdrawn[v.kid] /\ withdrawn[v.kid] \in Nat
    BY <1>1, <1>2, CheckFacts DEF ServedAt
  <2>2. v.began \in Nat  BY <1>1 DEF Check
  <2>3. QED  BY <1>1, <1>2, <2>1, <2>2, JwksAssumption
<1>4. w \in Check /\ RunningInv(w) /\ VerdictInv(w)
  BY <1>1, <1>3, AfterKeysSound
<1>5. check' = [check EXCEPT ![c] = w] /\ UNCHANGED <<clock, published, withdrawn, jwks>>
  BY DEF ProbeHit
<1>6. QED  BY <1>4, <1>5, CheckFacts, OneCheckSteps

LEMMA ProbeMissKeeps ==
  ASSUME JwksInv, NEW c \in Checks, ProbeMiss(c)
  PROVE  JwksInv'
<1> DEFINE v == check[c]
           w == [v EXCEPT !.pc = "fetch"]
<1>1. v \in Check /\ RunningInv(v) /\ v.pc = "probe"
  BY CheckFacts DEF ProbeMiss
<1>2. /\ w \in Check /\ w.pc = "fetch" /\ w.kid = v.kid /\ w.began = v.began
      /\ w.at = v.at /\ w.gap = v.gap
  BY <1>1 DEF Check
<1>3. check' = [check EXCEPT ![c] = w] /\ UNCHANGED <<clock, published, withdrawn, jwks>>
  BY DEF ProbeMiss
<1> HIDE DEF w
<1>4. RunningInv(w) /\ VerdictInv(w)
  BY <1>1, <1>2 DEF RunningInv, VerdictInv, Judging
<1>5. QED  BY <1>2, <1>3, <1>4, CheckFacts, OneCheckSteps

(* What is fetched now was not withdrawn before the request began.         *)
LEMMA FetchKeeps ==
  ASSUME JwksInv, NEW c \in Checks, Fetch(c)
  PROVE  JwksInv'
<1> DEFINE v == check[c]
           w == [v EXCEPT !.pc = "store", !.keys = published]
<1>1. v \in Check /\ RunningInv(v) /\ v.pc = "fetch"
  BY CheckFacts DEF Fetch
<1>2. /\ w \in Check /\ w.pc = "store" /\ w.kid = v.kid /\ w.began = v.began
      /\ w.at = v.at /\ w.gap = v.gap /\ w.keys = published
  BY <1>1, CheckFacts DEF Check
<1>3. check' = [check EXCEPT ![c] = w] /\ UNCHANGED <<clock, published, withdrawn, jwks>>
  BY DEF Fetch
<1> HIDE DEF w
<1>4. ServedAt(w.keys, w.at)
  BY <1>2 DEF JwksInv, ProviderInv, ServedAt
<1>5. RunningInv(w) /\ VerdictInv(w)
  BY <1>1, <1>2, <1>4 DEF RunningInv, VerdictInv, Judging
<1>6. QED  BY <1>2, <1>3, <1>5, CheckFacts, OneCheckSteps

LEMMA FetchFailsKeeps ==
  ASSUME JwksInv, NEW c \in Checks, JwksFetchFails(c)
  PROVE  JwksInv'
<1> DEFINE v == check[c]
           u == [v EXCEPT !.fails = TRUE]
           w == Ended(u, "rejected")
<1>1. v \in Check /\ RunningInv(v) /\ v.pc = "fetch"
  BY CheckFacts DEF JwksFetchFails
<1>2. u \in Check /\ u.kid = v.kid /\ u.began = v.began /\ u.fails
  BY <1>1 DEF Check
<1>3. check' = [check EXCEPT ![c] = w] /\ UNCHANGED <<clock, published, withdrawn, jwks>>
  BY DEF JwksFetchFails
<1> HIDE DEF u
<1>4. /\ w \in Check /\ w.pc = "rejected" /\ w.kid = v.kid /\ w.began = v.began
      /\ w.fails
  BY <1>2, EndedFacts
<1> HIDE DEF w
<1>5. RunningInv(w) /\ VerdictInv(w)
  BY <1>1, <1>4 DEF RunningInv, VerdictInv, Judging
<1>6. QED  BY <1>3, <1>4, <1>5, CheckFacts, OneCheckSteps

(* An older answer may overwrite a newer one: its stamp is older, too.     *)
LEMMA StoreKeysKeeps ==
  ASSUME JwksInv, NEW c \in Checks, StoreKeys(c)
  PROVE  JwksInv'
<1> DEFINE v == check[c]
           w == AfterKeys(v, v.keys)
<1>1. /\ v \in Check /\ RunningInv(v) /\ v.pc = "store" /\ v.keys \in SUBSET Keys
      /\ v.kid \in Keys /\ v.at \in Nat /\ v.began \in Nat
  BY CheckFacts DEF StoreKeys, RunningInv, Check
<1>2. /\ ServedAt(v.keys, v.at) /\ (~v.gap => v.kid \in v.keys)
      /\ v.began <= v.at /\ v.at <= clock
  BY <1>1 DEF RunningInv, Judging
<1>3. v.kid \in v.keys /\ withdrawn[v.kid] # Never
        => v.began <= withdrawn[v.kid] \/ v.began < withdrawn[v.kid] + JwksTTL
  <2>1. v.kid \in v.keys /\ withdrawn[v.kid] # Never
          => v.at <= withdrawn[v.kid] /\ withdrawn[v.kid] \in Nat
    BY <1>1, <1>2, CheckFacts DEF ServedAt
  <2>2. QED  BY <1>1, <1>2, <2>1
<1>4. w \in Check /\ RunningInv(w) /\ VerdictInv(w)
  BY <1>1, <1>2, <1>3, AfterKeysSound
<1>5. /\ check' = [check EXCEPT ![c] = w] /\ UNCHANGED <<clock, published, withdrawn>>
      /\ jwks' = [keys |-> v.keys, at |-> v.at]
  BY DEF StoreKeys
<1>6. /\ jwks' \in Entry
      /\ jwks'.at # Never => jwks'.at <= clock /\ ServedAt(jwks'.keys, jwks'.at)
  BY <1>1, <1>2, <1>5 DEF Entry
<1>7. QED  BY <1>4, <1>5, <1>6, OneCheckSteps

----------------------------------------------------------------------------
LEMMA JwksNextInv == JwksInv /\ [JwksNext]_jwksVars => JwksInv'
<1> SUFFICES ASSUME JwksInv, [JwksNext]_jwksVars PROVE JwksInv'
  OBVIOUS
<1>1. CASE JwksTick  BY <1>1, ClockSteps
<1>2. ASSUME NEW k \in Keys, Publish(k) PROVE JwksInv'
  BY <1>2, PublishKeeps
<1>3. ASSUME NEW k \in Keys, Withdraw(k) PROVE JwksInv'
  BY <1>3, WithdrawKeeps
<1>4. ASSUME NEW c \in Checks, NEW k \in Keys, Verify(c, k) PROVE JwksInv'
  BY <1>4, VerifyKeeps
<1>5. ASSUME NEW c \in Checks, ProbeHit(c) PROVE JwksInv'
  BY <1>5, ProbeHitKeeps
<1>6. ASSUME NEW c \in Checks, ProbeMiss(c) PROVE JwksInv'
  BY <1>6, ProbeMissKeeps
<1>7. ASSUME NEW c \in Checks, Fetch(c) PROVE JwksInv'
  BY <1>7, FetchKeeps
<1>8. ASSUME NEW c \in Checks, JwksFetchFails(c) PROVE JwksInv'
  BY <1>8, FetchFailsKeeps
<1>9. ASSUME NEW c \in Checks, StoreKeys(c) PROVE JwksInv'
  BY <1>9, StoreKeysKeeps
<1>10. CASE UNCHANGED jwksVars
  BY <1>10 DEF jwksVars, JwksInv, JwksTypeOK, ProviderInv, EntryInv, ChecksInv,
               RunningInv, VerdictInv, ServedAt
<1>11. QED
  BY <1>1, <1>2, <1>3, <1>4, <1>5, <1>6, <1>7, <1>8, <1>9, <1>10 DEF JwksNext

LEMMA JwksInvImplies == JwksInv => TokensJudged
BY DEF JwksInv, ChecksInv, VerdictInv, TokensJudged, AcceptedRecently, RejectedUnknown

LEMMA JwksInvariant == JwksSpec => []JwksInv
<1>1. JwksInit => JwksInv  BY JwksInitInv
<1>2. JwksInv /\ [JwksNext]_jwksVars => JwksInv'  BY JwksNextInv
<1>3. QED  BY <1>1, <1>2, PTL DEF JwksSpec

(* A token is accepted for less than the TTL after its key was withdrawn,  *)
(* and rejected only if its key was not served all the while or a fetch    *)
(* has failed, for any number of checks that overwrite each other's        *)
(* entries, any keys and any TTL.                                          *)
THEOREM TokensAreJudged == JwksSpec => []TokensJudged
<1>1. JwksInv => TokensJudged  BY JwksInvImplies
<1>2. QED  BY <1>1, JwksInvariant, PTL

LEMMA JwksTyped == JwksSpec => []JwksTypeOK
<1>1. JwksInv => JwksTypeOK  BY DEF JwksInv
<1>2. QED  BY <1>1, JwksInvariant, PTL

----------------------------------------------------------------------------
(* Registry: an index is stale only if a reload was overtaken.             *)

(* No reload runs beside another one, and none is overtaken: what looks    *)
(* current is the file.                                                    *)
StampsInv ==
  /\ regCache.mtime <= regFile.mtime
  /\ \A t \in Reloading : server = "up" /\ reader[t].mtime <= regFile.mtime

UnracedInv ==
  ~raced =>
    /\ \A t, r \in Reloading : t = r
    /\ server = "loading" => regFile.state = "whole" /\ regCache.content = regFile.content
    /\ \A t \in Reloading :
         /\ regCache.mtime < reader[t].mtime
         /\ reader[t].pc = "stamp" /\ regFile.state = "whole" /\ reader[t].mtime = regFile.mtime
              => regCache.content = regFile.content
    /\ StaleOnlyByRace

(* What the first n writes have left in a content.                         *)
KeptIn(content, n) ==
  \A i \in 1..n :
    \/ content.datasets[upsert[writes[i]].region] = writes[i]
    \/ \E j \in (i + 1)..n :
         \/ upsert[writes[j]].region = upsert[writes[i]].region
         \/ upsert[writes[j]].base < i

HasDefault(content) ==
  content.default # NoRegion /\ content.datasets[content.default] # NoEntry

Holding(u) == upsert[u].pc \in {"loaded", "truncated"}

(* The data that an upsert is about to write has what was written before   *)
(* it loaded the file, apart from its own region.                          *)
DataInv(u) ==
  /\ upsert[u].base <= Len(writes)
  /\ upsert[u].region \in Regions
  /\ upsert[u].data.datasets[upsert[u].region] = u
  /\ HasDefault(upsert[u].data)
  /\ \A i \in 1..upsert[u].base :
       \/ upsert[u].data.datasets[upsert[writes[i]].region] = writes[i]
       \/ upsert[u].region = upsert[writes[i]].region
       \/ \E j \in (i + 1)..upsert[u].base :
            \/ upsert[writes[j]].region = upsert[writes[i]].region
            \/ upsert[writes[j]].base < i

FileInv ==
  /\ \A i \in 1..Len(writes) :
       upsert[writes[i]].pc = "done" /\ upsert[writes[i]].region \in Regions
  /\ regFile.state = "missing" => regFile.content = Blank /\ writes = <<>>
  /\ regFile.state = "whole" => HasDefault(regFile.content)
  /\ KeptIn(regFile.content, Len(writes))
  /\ \A u \in Upserts : Holding(u) => DataInv(u)

RegInv == RegistryTypeOK /\ StampsInv /\ UnracedInv /\ FileInv

----------------------------------------------------------------------------
LEMMA RegInitInv == RegistryInit => RegInv
<1> SUFFICES ASSUME RegistryInit PROVE RegInv
  OBVIOUS
<1>1. Blank \in Content /\ Blank.default = NoRegion
      /\ Blank.datasets = [r \in Regions |-> NoEntry]
  BY DEF Blank, Content
<1>2. /\ regFile \in File
      /\ regFile.state # "whole" => regFile.state = "missing" /\ regFile.content = Blank
      /\ regFile.state = "whole" => HasDefault(regFile.content)
  <2>1. ASSUME NEW r \in Regions, regFile = ShippedFile(r)
        PROVE  /\ regFile \in File /\ regFile.state = "whole" /\ HasDefault(regFile.content)
    <3> DEFINE entries == [Blank.datasets EXCEPT ![r] = Shipped]
    <3>1. entries \in [Regions -> Upserts \cup {Shipped, NoEntry}] /\ entries[r] = Shipped
      BY <1>1
    <3> HIDE DEF entries
    <3>2. regFile = [state |-> "whole", mtime |-> 1,
                     content |-> [default |-> r, datasets |-> entries]]
      BY <2>1 DEF ShippedFile, entries
    <3>3. QED  BY <3>1, <3>2, RegistryNames DEF File, Content, HasDefault
  <2>2. CASE regFile = [state |-> "missing", content |-> Blank, mtime |-> 0]
    BY <1>1, <2>2 DEF File
  <2>3. QED  BY <2>1, <2>2 DEF RegistryInit
<1>3. RegistryTypeOK
  <2>1. NewUpsert \in Upsert  BY <1>1 DEF NewUpsert, Upsert
  <2>2. upsert \in [Upserts -> Upsert]  BY <2>1 DEF RegistryInit
  <2>3. reader \in [Readers -> Reader]  BY DEF RegistryInit, Reader
  <2>4. regCache \in [content : Content, mtime : Nat]  BY <1>1 DEF RegistryInit
  <2>5. writes \in Seq(Upserts)  BY DEF RegistryInit
  <2>6. server = "down" /\ raced = FALSE  BY DEF RegistryInit
  <2>7. QED  BY <1>2, <2>2, <2>3, <2>4, <2>5, <2>6 DEF RegistryTypeOK
<1>4. Reloading = {}  BY DEF RegistryInit, Reloading
<1>5. StampsInv  BY <1>2, <1>4 DEF StampsInv, RegistryInit, File
<1>6. UnracedInv  BY <1>4 DEF UnracedInv, RegistryInit, StaleOnlyByRace
<1>7. writes = <<>> /\ \A u \in Upserts : ~Holding(u)
  BY DEF RegistryInit, NewUpsert, Holding
<1>8. FileInv
  BY <1>2, <1>7 DEF FileInv, KeptIn
<1>9. QED  BY <1>3, <1>5, <1>6, <1>8 DEF RegInv

----------------------------------------------------------------------------
(* Steps of the server leave the file and the upserts alone.               *)
LEMMA ServerStepsKeepFile ==
  ASSUME FileInv, UNCHANGED <<regFile, upsert, writes>>
  PROVE  FileInv'
BY DEF FileInv, KeptIn, Holding, DataInv, HasDefault

(* The types of the file, the cache and the threads.                       *)
LEMMA RegTypes ==
  ASSUME RegInv
  PROVE  /\ regFile \in File /\ regFile.mtime \in Nat /\ regFile.content \in Content
         /\ regCache \in [content : Content, mtime : Nat] /\ regCache.mtime \in Nat
         /\ reader \in [Readers -> Reader] /\ raced \in BOOLEAN
         /\ \A t \in Readers : reader[t].mtime \in Nat
         /\ upsert \in [Upserts -> Upsert] /\ writes \in Seq(Upserts)
BY DEF RegInv, RegistryTypeOK, File, Reader

LEMMA ServerStarts ==
  ASSUME RegInv, ServerLoads \/ ServerLoaded
  PROVE  RegInv'
<1>0. RegistryTypeOK'
  BY RegTypes DEF RegInv, RegistryTypeOK, ServerLoads, ServerLoaded
<1>1. Reloading = {} /\ Reloading' = {}
  BY DEF RegInv, StampsInv, ServerLoads, ServerLoaded, Reloading
<1>2. CASE ServerLoads
  <2>1. /\ regFile.state = "whole" /\ regCache' = [regCache EXCEPT !.content = regFile.content]
        /\ server' = "loading" /\ UNCHANGED <<regFile, reader, upsert, writes, raced>>
    BY <1>2 DEF ServerLoads
  <2>2. regCache'.content = regFile.content /\ regCache'.mtime = regCache.mtime
    BY <2>1, RegTypes
  <2>3. StampsInv'  BY <1>1, <2>1, <2>2 DEF RegInv, StampsInv
  <2>4. UnracedInv'  BY <1>1, <2>1, <2>2 DEF UnracedInv, StaleOnlyByRace
  <2>5. QED  BY <1>0, <2>1, <2>3, <2>4, ServerStepsKeepFile DEF RegInv
<1>3. CASE ServerLoaded
  <2>1. /\ server = "loading" /\ regCache' = [regCache EXCEPT !.mtime = regFile.mtime]
        /\ server' = "up" /\ UNCHANGED <<regFile, reader, upsert, writes, raced>>
    BY <1>3 DEF ServerLoaded
  <2>2. regCache'.content = regCache.content /\ regCache'.mtime = regFile.mtime
    BY <2>1, RegTypes
  <2>3. StampsInv'  BY <1>1, <2>1, <2>2, RegTypes DEF RegInv, StampsInv
  <2>4. UnracedInv'
    BY <1>1, <2>1, <2>2 DEF RegInv, UnracedInv, StaleOnlyByRace
  <2>5. QED  BY <1>0, <2>1, <2>3, <2>4, ServerStepsKeepFile DEF RegInv
<1>4. QED  BY <1>2, <1>3

LEMMA ReadersKeep ==
  ASSUME RegInv, NEW t \in Readers, FindStale(t) \/ Reload(t) \/ ReloadFails(t) \/ Stamp(t)
  PROVE  RegInv'
<1>1. UNCHANGED <<regFile, server, upsert, writes>>
  BY DEF FindStale, Reload, ReloadFails, Stamp
<1>2. FileInv'  BY <1>1, ServerStepsKeepFile DEF RegInv
<1>3. CASE FindStale(t)
  <2>1. /\ server = "up" /\ reader[t].pc = "idle" /\ regCache.mtime # regFile.mtime
        /\ reader' = [reader EXCEPT ![t] = [pc |-> "read", mtime |-> regFile.mtime]]
        /\ raced' = (Reloading # {}) /\ UNCHANGED regCache
    BY <1>3 DEF FindStale
  <2>2. \A r \in Readers : reader'[r] = IF r = t THEN [pc |-> "read", mtime |-> regFile.mtime]
                                        ELSE reader[r]
    BY <2>1, RegTypes
  <2>3. RegistryTypeOK'
    <3>1. reader' \in [Readers -> Reader]  BY <2>1, RegTypes DEF Reader
    <3>2. raced' \in BOOLEAN  BY <2>1
    <3>3. QED  BY <1>1, <2>1, <3>1, <3>2 DEF RegInv, RegistryTypeOK
  <2>4. Reloading' = Reloading \cup {t}  BY <2>2 DEF Reloading
  <2>5. StampsInv'
    BY <1>1, <2>1, <2>2, <2>4, RegTypes DEF RegInv, StampsInv, Reloading
  <2>6. UnracedInv'
    <3> SUFFICES ASSUME ~raced' PROVE UnracedInv'
      BY DEF UnracedInv
    <3>1. Reloading = {} /\ Reloading' = {t}  BY <2>1, <2>4
    <3>2. regCache.mtime < regFile.mtime  BY <2>1, RegTypes DEF RegInv, StampsInv
    <3>3. QED  BY <1>1, <2>1, <2>2, <3>1, <3>2 DEF UnracedInv, StaleOnlyByRace
  <2>7. QED  BY <1>2, <2>3, <2>5, <2>6 DEF RegInv
<1>4. CASE Reload(t)
  <2>1. /\ reader[t].pc = "read" /\ regFile.state = "whole"
        /\ regCache' = [regCache EXCEPT !.content = regFile.content]
        /\ reader' = [reader EXCEPT ![t].pc = "stamp"] /\ UNCHANGED raced
    BY <1>4 DEF Reload
  <2>2. /\ regCache'.content = regFile.content /\ regCache'.mtime = regCache.mtime
        /\ \A r \in Readers : /\ reader'[r].mtime = reader[r].mtime
                              /\ reader'[r].pc = IF r = t THEN "stamp" ELSE reader[r].pc
    BY <2>1, RegTypes DEF Reader
  <2>3. RegistryTypeOK'
    <3>1. reader' \in [Readers -> Reader]  BY <2>1, RegTypes DEF Reader
    <3>2. regCache' \in [content : Content, mtime : Nat]  BY <2>1, RegTypes
    <3>3. QED  BY <1>1, <2>1, <3>1, <3>2 DEF RegInv, RegistryTypeOK
  <2>4. Reloading' = Reloading /\ t \in Reloading  BY <2>1, <2>2 DEF Reloading
  <2>5. StampsInv'
    BY <1>1, <2>2, <2>4 DEF RegInv, StampsInv, Reloading
  <2>6. UnracedInv'
    <3> SUFFICES ASSUME ~raced PROVE UnracedInv'
      BY <2>1 DEF UnracedInv
    <3>1. \A r \in Reloading : r \in Readers /\ reader'[r].mtime = reader[r].mtime
      BY <2>2 DEF Reloading
    <3>2. server = "up"  BY <2>4 DEF RegInv, StampsInv
    <3>3. QED
      BY <1>1, <2>1, <2>2, <2>4, <3>1, <3>2 DEF RegInv, UnracedInv, StaleOnlyByRace
  <2>7. QED  BY <1>2, <2>3, <2>5, <2>6 DEF RegInv
<1>5. CASE ReloadFails(t) \/ Stamp(t)
  <2>1. /\ reader[t].pc \in {"read", "stamp"}
        /\ reader' = [reader EXCEPT ![t] = [pc |-> "idle", mtime |-> 0]] /\ UNCHANGED raced
        /\ \/ UNCHANGED regCache
           \/ reader[t].pc = "stamp" /\ regCache' = [regCache EXCEPT !.mtime = reader[t].mtime]
    BY <1>5 DEF ReloadFails, Stamp
  <2>2. \A r \in Readers : reader'[r] = IF r = t THEN [pc |-> "idle", mtime |-> 0]
                                        ELSE reader[r]
    BY <2>1, RegTypes
  <2>3. /\ regCache'.content = regCache.content /\ regCache'.mtime \in Nat
        /\ \/ regCache'.mtime = regCache.mtime
           \/ reader[t].pc = "stamp" /\ regCache'.mtime = reader[t].mtime
    BY <2>1, RegTypes
  <2>4. RegistryTypeOK'
    <3>1. reader' \in [Readers -> Reader]  BY <2>1, RegTypes DEF Reader
    <3>2. regCache' \in [content : Content, mtime : Nat]  BY <2>1, RegTypes
    <3>3. QED  BY <1>1, <2>1, <3>1, <3>2 DEF RegInv, RegistryTypeOK
  <2>5. Reloading' = Reloading \ {t} /\ t \in Reloading  BY <2>1, <2>2 DEF Reloading
  <2>6. StampsInv'
    BY <1>1, <2>2, <2>3, <2>5 DEF RegInv, StampsInv, Reloading
  <2>7. UnracedInv'
    <3> SUFFICES ASSUME ~raced PROVE UnracedInv'
      BY <2>1 DEF UnracedInv
    <3>1. Reloading' = {}  BY <2>5 DEF RegInv, UnracedInv
    <3>2. server = "up"  BY <2>5 DEF RegInv, StampsInv
    <3>3. StaleOnlyByRace'
      BY <1>1, <2>1, <2>3, <2>5 DEF RegInv, UnracedInv, StaleOnlyByRace
    <3>4. QED  BY <1>1, <3>1, <3>2, <3>3 DEF UnracedInv
  <2>8. QED  BY <1>2, <2>4, <2>6, <2>7 DEF RegInv
<1>6. QED  BY <1>3, <1>4, <1>5

----------------------------------------------------------------------------
(* What has been written stays so when another upsert takes a step.        *)
LEMMA OtherWrites ==
  ASSUME RegInv, NEW u \in Upserts, upsert[u].pc # "done", NEW w \in Upsert,
         upsert' = [upsert EXCEPT ![u] = w]
  PROVE  /\ \A v \in Upserts : upsert'[v] = IF v = u THEN w ELSE upsert[v]
         /\ \A i \in 1..Len(writes) : writes[i] \in Upserts /\ writes[i] # u
                                        /\ upsert'[writes[i]] = upsert[writes[i]]
         /\ upsert' \in [Upserts -> Upsert]
<1>1. \A v \in Upserts : upsert'[v] = IF v = u THEN w ELSE upsert[v]
  BY RegTypes
<1>2. \A i \in 1..Len(writes) : writes[i] \in Upserts /\ writes[i] # u
  BY RegTypes, ElementOfSeq DEF RegInv, FileInv
<1>3. upsert' \in [Upserts -> Upsert]  BY RegTypes
<1>4. QED  BY <1>1, <1>2, <1>3

(* Held data stay good while nothing is written and the upsert keeps them. *)
LEMMA DataKept ==
  ASSUME NEW v \in Upserts, DataInv(v), UNCHANGED writes,
         upsert'[v].base = upsert[v].base, upsert'[v].region = upsert[v].region,
         upsert'[v].data = upsert[v].data, upsert[v].base \in Nat, Len(writes) \in Nat,
         \A i \in 1..Len(writes) : upsert'[writes[i]] = upsert[writes[i]]
  PROVE  DataInv(v)'
<1>1. HasDefault(upsert'[v].data)  BY DEF DataInv, HasDefault
<1>2. \A i \in 1..upsert[v].base : i \in 1..Len(writes)  BY DEF DataInv
<1>3. \A i \in 1..upsert[v].base :
        /\ upsert'[writes[i]] = upsert[writes[i]]
        /\ \A j \in (i + 1)..upsert[v].base : upsert'[writes[j]] = upsert[writes[j]]
  BY <1>2
<1>4. \A i \in 1..upsert[v].base :
        \/ upsert'[v].data.datasets[upsert'[writes[i]].region] = writes[i]
        \/ upsert'[v].region = upsert'[writes[i]].region
        \/ \E j \in (i + 1)..upsert[v].base :
             \/ upsert'[writes[j]].region = upsert'[writes[i]].region
             \/ upsert'[writes[j]].base < i
  BY <1>3 DEF DataInv
<1>5. QED  BY <1>1, <1>4 DEF DataInv, HasDefault

(* What the upserts and the file hold.                                     *)
LEMMA UpsertTypes ==
  ASSUME RegInv
  PROVE  /\ regFile.mtime \in Nat /\ Len(writes) \in Nat
         /\ \A v \in Upserts : upsert[v].base \in Nat /\ upsert[v].cut \in Nat
<1>1. regFile \in File /\ upsert \in [Upserts -> Upsert] /\ writes \in Seq(Upserts)
  BY DEF RegInv, RegistryTypeOK
<1>2. regFile.mtime \in Nat  BY <1>1 DEF File
<1>3. \A v \in Upserts : upsert[v].base \in Nat /\ upsert[v].cut \in Nat
  BY <1>1 DEF Upsert
<1>4. QED  BY <1>1, <1>2, <1>3

(* A file that is emptied or torn keeps the content that it stands for.    *)
LEMMA FileCut ==
  ASSUME RegInv, NEW state \in Unparsable,
         regFile' = [regFile EXCEPT !.state = state, !.mtime = @ + 1]
  PROVE  /\ regFile' \in File /\ regFile'.content = regFile.content
         /\ regFile'.state \in Unparsable /\ regFile'.mtime = regFile.mtime + 1
<1>1. regFile \in File  BY DEF RegInv, RegistryTypeOK
<1>2. PICK m \in Nat : m = regFile.mtime + 1  BY <1>1 DEF File
<1>3. regFile' = [regFile EXCEPT !.state = state, !.mtime = m]  BY <1>2
<1>4. QED  BY <1>1, <1>2, <1>3 DEF File, Unparsable

(* The times of the threads and of the cache are of the file's past.       *)
LEMMA FileAges ==
  ASSUME RegInv, regFile'.mtime \in {regFile.mtime, regFile.mtime + 1},
         UNCHANGED <<regCache, server, reader>>
  PROVE  StampsInv'
<1>1. Reloading' = Reloading  BY DEF Reloading
<1>2. \A t \in Reloading : t \in Readers  BY DEF Reloading
<1>3. QED  BY <1>1, <1>2, RegTypes DEF RegInv, StampsInv

(* A step of one upsert that writes nothing to the file's content.         *)
LEMMA UpsertSteps ==
  ASSUME RegInv, NEW u \in Upserts, upsert[u].pc # "done", NEW w \in Upsert,
         upsert' = [upsert EXCEPT ![u] = w],
         w.pc # "done",
         w.pc \in {"loaded", "truncated"} => DataInv(u)',
         regFile' \in File, regFile'.content = regFile.content,
         \/ regFile' = regFile
         \/ regFile'.state \in Unparsable /\ regFile'.mtime = regFile.mtime + 1,
         raced' \in BOOLEAN,
         ~raced' => ~raced /\ (regFile' = regFile \/ server # "loading"),
         UNCHANGED <<regCache, server, reader, writes>>
  PROVE  RegInv'
<1>1. /\ \A v \in Upserts : upsert'[v] = IF v = u THEN w ELSE upsert[v]
      /\ \A i \in 1..Len(writes) : writes[i] \in Upserts /\ writes[i] # u
                                     /\ upsert'[writes[i]] = upsert[writes[i]]
      /\ upsert' \in [Upserts -> Upsert]
  BY OtherWrites
<1>2. /\ regFile' \in File /\ regFile'.content = regFile.content
      /\ \/ regFile' = regFile
         \/ regFile'.state \in Unparsable /\ regFile'.mtime = regFile.mtime + 1
  OBVIOUS
<1>3. RegistryTypeOK'  BY <1>1, <1>2, RegTypes DEF RegInv, RegistryTypeOK
<1>4. Reloading' = Reloading  BY DEF Reloading
<1>5. StampsInv'
  <2>1. regFile'.mtime \in {regFile.mtime, regFile.mtime + 1}  BY <1>2
  <2>2. QED  BY <2>1, FileAges
<1>6. UnracedInv'
  <2> SUFFICES ASSUME ~raced' PROVE UnracedInv'
    BY Zenon DEF UnracedInv
  <2>1. ~raced  OBVIOUS
  <2>2. CASE regFile' = regFile
    BY <1>4, <2>1, <2>2 DEF RegInv, UnracedInv, StaleOnlyByRace, Reloading
  <2>3. CASE regFile' # regFile
    <3>1. server # "loading" /\ regFile'.state # "whole"  BY <1>2, <2>3 DEF Unparsable
    <3>2. QED
      BY <1>4, <2>1, <3>1 DEF RegInv, UnracedInv, StaleOnlyByRace, Reloading
  <2>4. QED  BY <2>2, <2>3
<1>7. FileInv'
  <2>1. \A i \in 1..Len(writes) : upsert'[writes[i]].pc = "done"
                                     /\ upsert'[writes[i]].region \in Regions
    BY <1>1 DEF RegInv, FileInv
  <2>2. KeptIn(regFile.content, Len(writes))'
    <3>1. KeptIn(regFile.content, Len(writes)) /\ Len(writes) \in Nat
      BY UpsertTypes DEF RegInv, FileInv
    <3>2. \A i \in 1..Len(writes) :
            /\ upsert'[writes[i]] = upsert[writes[i]]
            /\ \A j \in (i + 1)..Len(writes) : upsert'[writes[j]] = upsert[writes[j]]
      BY <1>1, <3>1
    <3>3. regFile'.content = regFile.content  BY <1>2
    <3>4. writes' = writes  OBVIOUS
    <3>5. ASSUME NEW i \in 1..Len(writes)
          PROVE  \/ regFile.content.datasets[upsert'[writes[i]].region] = writes[i]
                 \/ \E j \in (i + 1)..Len(writes) :
                      \/ upsert'[writes[j]].region = upsert'[writes[i]].region
                      \/ upsert'[writes[j]].base < i
      <4>1. upsert'[writes[i]].region = upsert[writes[i]].region  BY <3>2
      <4>2. CASE regFile.content.datasets[upsert[writes[i]].region] = writes[i]
        BY <4>1, <4>2
      <4>3. CASE \E j \in (i + 1)..Len(writes) :
                   \/ upsert[writes[j]].region = upsert[writes[i]].region
                   \/ upsert[writes[j]].base < i
        <5>1. PICK j \in (i + 1)..Len(writes) :
                \/ upsert[writes[j]].region = upsert[writes[i]].region
                \/ upsert[writes[j]].base < i
          BY <4>3
        <5>2. upsert'[writes[j]] = upsert[writes[j]]  BY <3>2
        <5>3. QED  BY <4>1, <5>1, <5>2, Zenon
      <4>4. QED  BY <3>1, <4>2, <4>3 DEF KeptIn
    <3>6. QED  BY <3>3, <3>4, <3>5 DEF KeptIn
  <2>3. ASSUME NEW v \in Upserts, Holding(v)' PROVE DataInv(v)'
    <3>1. CASE v = u
      <4>1. w.pc \in {"loaded", "truncated"}  BY <1>1, <2>3, <3>1 DEF Holding
      <4>2. QED  BY <3>1, <4>1
    <3>2. CASE v # u
      <4>1. upsert'[v] = upsert[v]  BY <1>1, <3>2
      <4>2. Holding(v)  BY <2>3, <4>1 DEF Holding
      <4>3. upsert'[v] = upsert[v] /\ DataInv(v)  BY <4>1, <4>2 DEF RegInv, FileInv
      <4>4. upsert[v].base \in Nat /\ Len(writes) \in Nat  BY UpsertTypes
      <4>5. QED  BY <1>1, <4>3, <4>4, DataKept
    <3>3. QED  BY <3>1, <3>2
  <2>4. /\ regFile'.state = "missing" => regFile'.content = Blank /\ writes = <<>>
        /\ regFile'.state = "whole" => HasDefault(regFile'.content)
    BY <1>2 DEF RegInv, FileInv, Unparsable
  <2>5. QED  BY <2>1, <2>2, <2>3, <2>4 DEF FileInv, HasDefault
<1>8. QED  BY <1>3, <1>5, <1>6, <1>7 DEF RegInv

LEMMA LoadToUpsertKeeps ==
  ASSUME RegInv, NEW u \in Upserts, NEW r \in Regions, NEW d \in BOOLEAN, LoadToUpsert(u, r, d)
  PROVE  RegInv'
<1> DEFINE data == Edited(regFile.content, u, r, d)
           w == [pc |-> "loaded", region |-> r, data |-> data, base |-> Len(writes), cut |-> 0]
<1>1. /\ upsert[u].pc = "new" /\ regFile.state \notin Unparsable /\ upsert' = [upsert EXCEPT ![u] = w]
      /\ UNCHANGED <<regFile, regCache, server, reader, writes, raced>>
  BY DEF LoadToUpsert
<1>2. regFile.content \in Content /\ (HasDefault(regFile.content) \/ regFile.content = Blank)
  BY <1>1, RegTypes DEF RegInv, FileInv, File, Unparsable
<1>3. /\ data \in Content /\ HasDefault(data)
      /\ \A q \in Regions : data.datasets[q] = IF q = r THEN u ELSE regFile.content.datasets[q]
  <2> DEFINE entries == [regFile.content.datasets EXCEPT ![r] = u]
  <2>1. PICK x \in {r, regFile.content.default} :
          /\ data = [default |-> x, datasets |-> entries]
          /\ regFile.content.default = NoRegion => x = r
    BY DEF Edited
  <2>2. /\ entries \in [Regions -> Upserts \cup {Shipped, NoEntry}]
        /\ \A q \in Regions : entries[q] = IF q = r THEN u ELSE regFile.content.datasets[q]
    BY <1>2 DEF Content
  <2>3. regFile.content.default \in Regions \cup {NoRegion}
    BY <1>2 DEF Content
  <2> HIDE DEF data, entries
  <2>4. data \in Content /\ data.default = x /\ data.datasets = entries
    BY <2>1, <2>2, <2>3 DEF Content
  <2>5. x \in Regions /\ (x # r => HasDefault(regFile.content) /\ x = regFile.content.default)
    BY <1>2, <2>1, <2>3 DEF Blank
  <2>6. QED  BY <2>2, <2>4, <2>5, RegistryNames DEF HasDefault
<1> HIDE DEF data
<1>4. Len(writes) \in Nat  BY RegTypes
<1>5. w \in Upsert /\ w.pc = "loaded" /\ w.region = r /\ w.base = Len(writes) /\ w.data = data
  BY <1>3, <1>4 DEF Upsert
<1> HIDE DEF w
<1>6. /\ upsert'[u] = w
      /\ \A i \in 1..Len(writes) : writes[i] \in Upserts /\ writes[i] # u
                                     /\ upsert'[writes[i]] = upsert[writes[i]]
  BY <1>1, <1>5, OtherWrites
<1>7. \A i \in 1..Len(writes) : upsert[writes[i]].region \in Regions
  BY DEF RegInv, FileInv
<1>8. DataInv(u)'
  BY <1>1, <1>3, <1>4, <1>5, <1>6, <1>7 DEF RegInv, FileInv, KeptIn, DataInv, HasDefault
<1>9. /\ regFile' = regFile /\ regFile' \in File /\ raced' = raced /\ raced' \in BOOLEAN
      /\ upsert' = [upsert EXCEPT ![u] = w]
      /\ UNCHANGED <<regCache, server, reader, writes>>
  <2>1. regFile \in File /\ raced \in BOOLEAN  BY DEF RegInv, RegistryTypeOK
  <2>2. QED  BY <1>1, <2>1, Zenon
<1>10. upsert[u].pc # "done" /\ w.pc # "done" /\ w \in Upsert  BY <1>1, <1>5
<1>11. regFile'.content = regFile.content /\ (~raced' => ~raced)  BY <1>9, Zenon
<1>12. QED
  <2> HIDE <1>1
  <2>1. QED  BY <1>8, <1>9, <1>10, <1>11, UpsertSteps

LEMMA UpsertPcKeeps ==
  ASSUME RegInv, NEW u \in Upserts, UpsertFails(u) \/ Truncate(u) \/ UpsertDies(u)
  PROVE  RegInv'
<1>0. Len(writes) \in Nat /\ upsert[u].cut \in Nat  BY RegTypes DEF Upsert
<1>1. PICK pc \in {"failed", "truncated", "died"}, cut \in Nat :
        /\ upsert[u].pc \in {"new", "loaded", "truncated"}
        /\ upsert' = [upsert EXCEPT ![u].pc = pc, ![u].cut = cut]
        /\ pc = "truncated" => upsert[u].pc = "loaded"
        /\ \/ regFile' = regFile /\ raced' = raced
           \/ /\ \E state \in Unparsable :
                    regFile' = [regFile EXCEPT !.state = state, !.mtime = @ + 1]
              /\ raced' = (raced \/ server = "loading")
        /\ UNCHANGED <<regCache, server, reader, writes>>
  <2>1. [upsert EXCEPT ![u].pc = "failed"] = [upsert EXCEPT ![u].pc = "failed", ![u].cut = upsert[u].cut]
    BY RegTypes DEF Upsert
  <2>2. [upsert EXCEPT ![u].pc = "died"] = [upsert EXCEPT ![u].pc = "died", ![u].cut = upsert[u].cut]
    BY RegTypes DEF Upsert
  <2>3. CASE UpsertFails(u)  BY <1>0, <2>1, <2>3 DEF UpsertFails
  <2>4. CASE Truncate(u)  BY <1>0, <2>4 DEF Truncate, Unparsable
  <2>5. CASE UpsertDies(u)  BY <1>0, <2>2, <2>5 DEF UpsertDies, Unparsable
  <2>6. QED  BY <2>3, <2>4, <2>5
<1> DEFINE w == [upsert[u] EXCEPT !.pc = pc, !.cut = cut]
<1>2. /\ w \in Upsert /\ w.pc = pc /\ w.base = upsert[u].base /\ w.region = upsert[u].region
      /\ w.data = upsert[u].data
  BY RegTypes DEF Upsert
<1>3. upsert' = [upsert EXCEPT ![u] = w]  BY <1>1
<1> HIDE DEF w
<1>4. /\ upsert'[u] = w
      /\ \A i \in 1..Len(writes) : writes[i] \in Upserts /\ writes[i] # u
                                     /\ upsert'[writes[i]] = upsert[writes[i]]
  BY <1>1, <1>2, <1>3, OtherWrites
<1>5. pc = "truncated" => DataInv(u)'
  <2> SUFFICES ASSUME pc = "truncated" PROVE DataInv(u)'
    OBVIOUS
  <2>1. DataInv(u)  BY <1>1 DEF RegInv, FileInv, Holding
  <2>2. upsert[u].base \in Nat /\ Len(writes) \in Nat  BY UpsertTypes
  <2>3. UNCHANGED writes  BY <1>1
  <2>4. QED  BY <1>2, <1>4, <2>1, <2>2, <2>3, DataKept
<1>6. QED
  <2>1. upsert[u].pc # "done" /\ w.pc # "done"  BY <1>1, <1>2
  <2>2. w.pc \in {"loaded", "truncated"} => DataInv(u)'  BY <1>2, <1>5
  <2>3. /\ regFile' \in File /\ regFile'.content = regFile.content
        /\ \/ regFile' = regFile
           \/ regFile'.state \in Unparsable /\ regFile'.mtime = regFile.mtime + 1
    <3>1. CASE regFile' = regFile  BY <3>1, RegTypes
    <3>2. CASE \E state \in Unparsable : regFile' = [regFile EXCEPT !.state = state, !.mtime = @ + 1]
      BY <3>2, FileCut
    <3>3. QED  BY <1>1, <3>1, <3>2
  <2>4. raced' \in BOOLEAN /\ (~raced' => ~raced /\ (regFile' = regFile \/ server # "loading"))
    <3>1. raced \in BOOLEAN  BY DEF RegInv, RegistryTypeOK
    <3>2. CASE regFile' = regFile /\ raced' = raced  BY <3>1, <3>2
    <3>3. CASE raced' = (raced \/ server = "loading")  BY <3>1, <3>3, Zenon
    <3>4. QED  BY <1>1, <3>2, <3>3
  <2>5. UNCHANGED <<regCache, server, reader, writes>>  BY <1>1
  <2> HIDE <1>1
  <2>6. QED  BY <1>2, <1>3, <2>1, <2>2, <2>3, <2>4, <2>5, UpsertSteps

(* The file is then what the upsert had made of what it loaded.            *)
LEMMA WriteKeeps ==
  ASSUME RegInv, NEW u \in Upserts, WriteRegistry(u)
  PROVE  RegInv'
<1>1. PICK state \in {"whole", "torn"} :
      /\ upsert[u].pc = "truncated"
      /\ regFile' = [state |-> state, content |-> upsert[u].data,
                     mtime |-> regFile.mtime + 1]
      /\ upsert' = [upsert EXCEPT ![u].pc = "done"] /\ writes' = Append(writes, u)
      /\ raced' = (raced \/ server = "loading") /\ UNCHANGED <<regCache, server, reader>>
  BY DEF WriteRegistry
<1> DEFINE w == [upsert[u] EXCEPT !.pc = "done"]
<1>2. /\ w \in Upsert /\ w.pc = "done" /\ w.base = upsert[u].base /\ w.region = upsert[u].region
      /\ w.data = upsert[u].data
  BY RegTypes DEF Upsert
<1>3. upsert' = [upsert EXCEPT ![u] = w]  BY <1>1
<1> HIDE DEF w
<1>4. /\ \A v \in Upserts : upsert'[v] = IF v = u THEN w ELSE upsert[v]
      /\ \A i \in 1..Len(writes) : writes[i] \in Upserts /\ writes[i] # u
                                     /\ upsert'[writes[i]] = upsert[writes[i]]
      /\ upsert' \in [Upserts -> Upsert]
  BY <1>1, <1>2, <1>3, OtherWrites
<1>5. PICK n \in Nat : n = Len(writes)  BY RegTypes
<1>6. /\ writes' \in Seq(Upserts) /\ Len(writes') = n + 1 /\ writes'[n + 1] = u
      /\ \A i \in 1..n : writes'[i] = writes[i]
  BY <1>1, <1>5, RegTypes, AppendProperties
<1>7. regFile.mtime \in Nat  BY UpsertTypes, Zenon
<1>8. regFile.mtime + 1 \in Nat  BY <1>7
<1>9. PICK m \in Nat : m = regFile.mtime + 1  BY <1>8, Zenon
<1>10. /\ regFile' \in File /\ regFile'.content = upsert[u].data /\ regFile'.state # "missing"
      /\ regFile'.mtime = regFile.mtime + 1
  BY <1>1, <1>9, RegTypes DEF File, Upsert
<1>11. RegistryTypeOK'
  BY <1>1, <1>4, <1>6, <1>10, RegTypes DEF RegInv, RegistryTypeOK
<1>12. Reloading' = Reloading  BY <1>1 DEF Reloading
<1>13. StampsInv'  BY <1>1, <1>10, FileAges
<1>14. UnracedInv'
  <2> SUFFICES ASSUME ~raced' PROVE UnracedInv'
    BY DEF UnracedInv
  <2>1. ~raced /\ server # "loading"  BY <1>1
  <2>2. \A t \in Reloading : reader[t].mtime < regFile'.mtime /\ reader[t].mtime \in Nat
    BY <1>10, RegTypes DEF RegInv, StampsInv, Reloading
  <2>3. regCache.mtime < regFile'.mtime  BY <1>10, RegTypes DEF RegInv, StampsInv
  <2>4. QED
    BY <1>1, <1>12, <2>1, <2>2, <2>3, RegTypes DEF RegInv, UnracedInv, StaleOnlyByRace
<1>15. DataInv(u)  BY <1>1 DEF RegInv, FileInv, Holding
<1>16. upsert[u].base \in Nat /\ upsert[u].base <= n
  BY <1>5, <1>15, RegTypes DEF Upsert, DataInv
<1>17. \A i \in 1..n : upsert'[writes'[i]] = upsert[writes[i]]
  BY <1>4, <1>5, <1>6
<1>18. upsert'[writes'[n + 1]] = w  BY <1>4, <1>6
<1>19. KeptIn(regFile.content, Len(writes))'
  <2> SUFFICES ASSUME NEW i \in 1..(n + 1)
               PROVE  \/ upsert[u].data.datasets[upsert'[writes'[i]].region] = writes'[i]
                      \/ \E j \in (i + 1)..(n + 1) :
                           \/ upsert'[writes'[j]].region = upsert'[writes'[i]].region
                           \/ upsert'[writes'[j]].base < i
    BY <1>6, <1>10 DEF KeptIn
  <2>1. CASE i = n + 1
    BY <1>2, <1>6, <1>15, <1>18, <2>1 DEF DataInv
  <2>2. CASE i \in 1..n /\ i > upsert[u].base
    <3>1. n + 1 \in (i + 1)..(n + 1) /\ w.base < i  BY <1>2, <1>16, <2>2
    <3>2. QED  BY <1>18, <3>1
  <2>3. CASE i \in 1..n /\ i <= upsert[u].base
    <3>1. i \in 1..upsert[u].base  BY <1>16, <2>3
    <3>2. CASE upsert[u].data.datasets[upsert[writes[i]].region] = writes[i]
      BY <1>6, <1>17, <2>3, <3>2
    <3>3. CASE upsert[u].region = upsert[writes[i]].region
      <4>1. n + 1 \in (i + 1)..(n + 1)  BY <2>3
      <4>2. QED  BY <1>2, <1>17, <1>18, <2>3, <3>3, <4>1
    <3>4. CASE \E j \in (i + 1)..upsert[u].base :
                 \/ upsert[writes[j]].region = upsert[writes[i]].region
                 \/ upsert[writes[j]].base < i
      <4>1. PICK j \in (i + 1)..upsert[u].base :
              \/ upsert[writes[j]].region = upsert[writes[i]].region
              \/ upsert[writes[j]].base < i
        BY <3>4
      <4>2. j \in 1..n /\ j \in (i + 1)..(n + 1)  BY <1>16, <2>3, <4>1
      <4>3. QED  BY <1>17, <2>3, <4>1, <4>2
    <3>5. QED  BY <1>15, <3>1, <3>2, <3>3, <3>4 DEF DataInv
  <2>4. QED  BY <1>16, <2>1, <2>2, <2>3
<1>20. FileInv'
  <2>1. \A i \in 1..(n + 1) : upsert'[writes'[i]].pc = "done"
                                /\ upsert'[writes'[i]].region \in Regions
    <3>1. \A i \in 1..n : upsert'[writes'[i]].pc = "done"
                            /\ upsert'[writes'[i]].region \in Regions
      BY <1>5, <1>17 DEF RegInv, FileInv
    <3>2. \A i \in 1..(n + 1) : i \in 1..n \/ i = n + 1  OBVIOUS
    <3>3. QED  BY <1>2, <1>15, <1>18, <3>1, <3>2 DEF DataInv
  <2>2. HasDefault(regFile.content)'  BY <1>10, <1>15 DEF DataInv, HasDefault
  <2>3. ASSUME NEW v \in Upserts, Holding(v)' PROVE DataInv(v)'
    <3>1. v # u  BY <1>2, <1>4, <2>3 DEF Holding
    <3>2. upsert'[v] = upsert[v] /\ DataInv(v)
      BY <1>4, <2>3, <3>1 DEF RegInv, FileInv, Holding
    <3>3. upsert[v].base \in Nat /\ upsert[v].base <= n
      BY <1>5, <3>2, RegTypes DEF Upsert, DataInv
    <3>4. \A i \in 1..upsert[v].base : i \in 1..n /\ \A j \in (i + 1)..upsert[v].base : j \in 1..n
      BY <3>3
    <3>5. upsert[v].base <= n + 1  BY <3>3
    <3>6. \A i \in 1..n : /\ writes'[i] = writes[i]
                           /\ upsert'[writes'[i]].region = upsert[writes[i]].region
                           /\ upsert'[writes'[i]].base = upsert[writes[i]].base
      BY <1>6, <1>17
    <3>7. ASSUME NEW i \in 1..upsert[v].base
          PROVE  \/ upsert[v].data.datasets[upsert'[writes'[i]].region] = writes'[i]
                 \/ upsert[v].region = upsert'[writes'[i]].region
                 \/ \E j \in (i + 1)..upsert[v].base :
                      \/ upsert'[writes'[j]].region = upsert'[writes'[i]].region
                      \/ upsert'[writes'[j]].base < i
      <4>1. /\ i \in 1..n
            /\ writes'[i] = writes[i]
            /\ upsert'[writes'[i]].region = upsert[writes[i]].region
        BY <3>4, <3>6
      <4>2. CASE \E j \in (i + 1)..upsert[v].base :
                   \/ upsert[writes[j]].region = upsert[writes[i]].region
                   \/ upsert[writes[j]].base < i
        <5>1. PICK j \in (i + 1)..upsert[v].base :
                \/ upsert[writes[j]].region = upsert[writes[i]].region
                \/ upsert[writes[j]].base < i
          BY <4>2
        <5>2. /\ upsert'[writes'[j]].region = upsert[writes[j]].region
              /\ upsert'[writes'[j]].base = upsert[writes[j]].base
          BY <3>4, <3>6
        <5>3. QED  BY <4>1, <5>1, <5>2
      <4>3. QED  BY <3>2, <4>1, <4>2 DEF DataInv
    <3>8. /\ upsert[v].region \in Regions /\ HasDefault(upsert[v].data)
          /\ upsert[v].data.datasets[upsert[v].region] = v
      BY <3>2 DEF DataInv
    <3>9. HasDefault(upsert'[v].data)  BY <3>2, <3>8
    <3>10. QED  BY <1>6, <3>2, <3>5, <3>7, <3>8, <3>9 DEF DataInv, HasDefault
  <2>4. QED  BY <1>6, <1>10, <1>19, <2>1, <2>2, <2>3 DEF FileInv
<1>21. QED  BY <1>11, <1>13, <1>14, <1>20 DEF RegInv

LEMMA RegNextInv == RegInv /\ [RegistryNext]_regVars => RegInv'
<1> SUFFICES ASSUME RegInv, [RegistryNext]_regVars PROVE RegInv'
  OBVIOUS
<1>1. CASE ServerLoads \/ ServerLoaded  BY <1>1, ServerStarts
<1>2. ASSUME NEW t \in Readers, FindStale(t) \/ Reload(t) \/ ReloadFails(t) \/ Stamp(t)
      PROVE  RegInv'
  BY <1>2, ReadersKeep
<1>3. ASSUME NEW u \in Upserts, NEW r \in Regions, NEW d \in BOOLEAN, LoadToUpsert(u, r, d)
      PROVE  RegInv'
  BY <1>3, LoadToUpsertKeeps
<1>4. ASSUME NEW u \in Upserts, UpsertFails(u) \/ Truncate(u) \/ UpsertDies(u) PROVE RegInv'
  BY <1>4, UpsertPcKeeps
<1>5. ASSUME NEW u \in Upserts, WriteRegistry(u) PROVE RegInv'
  BY <1>5, WriteKeeps
<1>6. CASE UNCHANGED regVars
  BY <1>6, ServerStepsKeepFile DEF regVars, RegInv, RegistryTypeOK, StampsInv, UnracedInv,
     Reloading, StaleOnlyByRace
<1>7. QED  BY <1>1, <1>2, <1>3, <1>4, <1>5, <1>6 DEF RegistryNext

LEMMA RegistryInvariant == RegistrySpec => []RegInv
<1>1. RegistryInit => RegInv  BY RegInitInv
<1>2. RegInv /\ [RegistryNext]_regVars => RegInv'  BY RegNextInv
<1>3. QED  BY <1>1, <1>2, PTL DEF RegistrySpec

(* For any number of threads and upserts, a parse that looks current is    *)
(* the file, unless a write overtook the load or reloads overlapped        *)
(* (registry.py, load and _reload_if_stale).                               *)
THEOREM RegistryServesTheFile == RegistrySpec => []StaleOnlyByRace
<1>1. RegInv => StaleOnlyByRace
  BY DEF RegInv, UnracedInv, StaleOnlyByRace
<1>2. QED  BY <1>1, RegistryInvariant, PTL

(* An upsert that has emptied the file finds it empty when it writes,      *)
(* unless another one has written since, or died.                          *)
SomeoneDied == \E u \in Upserts : upsert[u].pc = "died"
FoundEmpty(u) ==
  upsert[u].pc = "truncated" =>
    /\ upsert[u].cut <= Len(writes)
    /\ regFile.state # "empty" => SomeoneDied \/ upsert[u].cut < Len(writes)

ParseInv == ParsesUnlessTorn /\ \A u \in Upserts : FoundEmpty(u)

(* The steps of an upsert before and instead of its write.                 *)
LEMMA UnwrittenParse ==
  ASSUME RegInv, ParseInv, NEW u \in Upserts, upsert[u].pc # "done",
         NEW w \in Upsert, upsert' = [upsert EXCEPT ![u] = w], UNCHANGED writes,
         \/ upsert[u].pc \in {"new", "loaded"} /\ w.pc \in {"loaded", "failed"} /\ regFile' = regFile
         \/ upsert[u].pc = "loaded" /\ w.pc = "truncated" /\ w.cut = Len(writes)
              /\ regFile'.state = "empty"
         \/ w.pc = "died" /\ regFile'.state \in {regFile.state, "torn"}
  PROVE  ParseInv'
<1>1. /\ upsert'[u] = w
      /\ \A v \in Upserts \ {u} : upsert'[v] = upsert[v]
      /\ \A i \in 1..Len(writes) : upsert'[writes[i]] = upsert[writes[i]]
  BY OtherWrites
<1>2. writes # <<>> => Len(writes) \in 1..Len(writes)  BY RegTypes, EmptySeq
<1>3. SomeoneDied => SomeoneDied'
  BY <1>1 DEF SomeoneDied, RegInv, RegistryTypeOK
<1>4. CASE w.pc = "died"
  <2>1. SomeoneDied'  BY <1>1, <1>4 DEF SomeoneDied
  <2>2. ParsesUnlessTorn'  BY <2>1 DEF ParsesUnlessTorn, SomeoneDied
  <2>3. QED  BY <1>1, <1>4, <2>1, <2>2 DEF ParseInv, FoundEmpty
<1>5. CASE w.pc = "truncated"
  <2>1. ParsesUnlessTorn'  BY <1>1, <1>5 DEF ParsesUnlessTorn
  <2>2. Len(writes) \in Nat  BY RegTypes
  <2>3. QED  BY <1>1, <1>5, <2>1, <2>2 DEF ParseInv, FoundEmpty
<1>6. CASE regFile' = regFile /\ w.pc \in {"loaded", "failed"}
  <2>1. upsert[u].pc \in {"new", "loaded"}  BY <1>6
  <2>2. ParsesUnlessTorn'
    BY <1>1, <1>2, <1>3, <1>6, <2>1 DEF ParseInv, ParsesUnlessTorn, SomeoneDied, Last
  <2>3. QED  BY <1>1, <1>3, <1>6, <2>2 DEF ParseInv, FoundEmpty
<1>7. QED  BY <1>4, <1>5, <1>6

LEMMA WrittenParse ==
  ASSUME RegInv, ParseInv, NEW u \in Upserts, WriteRegistry(u)
  PROVE  ParseInv'
<1>1. PICK state \in {"whole", "torn"} :
      /\ upsert[u].pc = "truncated"
      /\ regFile.state = "empty" => state = "whole"
      /\ regFile' = [state |-> state, content |-> upsert[u].data, mtime |-> regFile.mtime + 1]
      /\ upsert' = [upsert EXCEPT ![u].pc = "done"] /\ writes' = Append(writes, u)
  BY DEF WriteRegistry
<1>2. /\ \A v \in Upserts \ {u} : upsert'[v] = upsert[v]
      /\ upsert'[u].pc = "done" /\ upsert'[u].cut = upsert[u].cut
  BY <1>1, RegTypes DEF Upsert
<1>3. /\ Len(writes) \in Nat /\ Len(writes') = Len(writes) + 1 /\ writes'[Len(writes')] = u
      /\ writes' # <<>>
  BY <1>1, RegTypes, AppendProperties
<1>4. \A v \in Upserts : upsert[v].cut \in Nat  BY RegTypes DEF Upsert
<1>5. SomeoneDied => SomeoneDied'
  BY <1>1, <1>2 DEF SomeoneDied
<1>6. ASSUME NEW v \in Upserts PROVE FoundEmpty(v)'
  BY <1>2, <1>3, <1>4 DEF ParseInv, FoundEmpty
<1>7. ParsesUnlessTorn'
  <2>1. regFile'.state = state  BY <1>1
  <2>2. CASE state = "whole"  BY <2>1, <2>2 DEF ParsesUnlessTorn
  <2>3. CASE state = "torn"
    <3>1. SomeoneDied \/ upsert[u].cut < Len(writes)
      BY <1>1, <2>3 DEF ParseInv, FoundEmpty
    <3>2. SomeoneDied' \/ upsert'[Last(writes')].cut < Len(writes') - 1
      BY <1>2, <1>3, <1>4, <1>5, <3>1 DEF Last
    <3>3. QED  BY <1>3, <2>1, <2>3, <3>2 DEF ParsesUnlessTorn, SomeoneDied
  <2>4. QED  BY <2>2, <2>3
<1>8. QED  BY <1>6, <1>7 DEF ParseInv

LEMMA ParseKeeps == RegInv /\ ParseInv /\ [RegistryNext]_regVars => ParseInv'
<1> SUFFICES ASSUME RegInv, ParseInv, [RegistryNext]_regVars PROVE ParseInv'
  OBVIOUS
<1>1. CASE UNCHANGED <<regFile, upsert, writes>>
  BY <1>1 DEF ParseInv, ParsesUnlessTorn, FoundEmpty, SomeoneDied
<1>2. ASSUME NEW u \in Upserts, NEW r \in Regions, NEW d \in BOOLEAN, LoadToUpsert(u, r, d)
      PROVE  ParseInv'
  <2> DEFINE w == [pc |-> "loaded", region |-> r, data |-> Edited(regFile.content, u, r, d),
                   base |-> Len(writes), cut |-> 0]
  <2>1. /\ upsert[u].pc = "new" /\ upsert' = [upsert EXCEPT ![u] = w] /\ w.pc = "loaded"
        /\ UNCHANGED <<regFile, writes>>
    BY <1>2 DEF LoadToUpsert
  <2> HIDE DEF w
  <2>2. w \in Upsert
    <3>1. RegInv'  BY <1>2, LoadToUpsertKeeps
    <3>2. upsert' \in [Upserts -> Upsert]  BY <3>1 DEF RegInv, RegistryTypeOK
    <3>3. upsert'[u] = w  BY <2>1, RegTypes
    <3>4. QED  BY <3>2, <3>3
  <2>3. QED  BY <2>1, <2>2, UnwrittenParse
<1>3. ASSUME NEW u \in Upserts, UpsertFails(u) \/ Truncate(u) \/ UpsertDies(u) PROVE ParseInv'
  <2>0. upsert[u] \in Upsert /\ Len(writes) \in Nat /\ regFile \in File  BY RegTypes
  <2>1. CASE UpsertFails(u)
    <3> DEFINE w == [upsert[u] EXCEPT !.pc = "failed"]
    <3>1. w \in Upsert /\ w.pc = "failed"  BY <2>0 DEF Upsert
    <3>2. /\ upsert[u].pc = "new" /\ upsert' = [upsert EXCEPT ![u] = w]
          /\ UNCHANGED <<regFile, writes>>
      BY <2>1 DEF UpsertFails
    <3> HIDE DEF w
    <3>3. QED  BY <3>1, <3>2, UnwrittenParse
  <2>2. CASE Truncate(u)
    <3> DEFINE w == [upsert[u] EXCEPT !.pc = "truncated", !.cut = Len(writes)]
    <3>1. w \in Upsert /\ w.pc = "truncated" /\ w.cut = Len(writes)  BY <2>0 DEF Upsert
    <3>2. /\ upsert[u].pc = "loaded" /\ upsert' = [upsert EXCEPT ![u] = w]
          /\ regFile'.state = "empty" /\ UNCHANGED writes
      BY <2>0, <2>2 DEF Truncate, File
    <3> HIDE DEF w
    <3>3. QED  BY <3>1, <3>2, UnwrittenParse
  <2>3. CASE UpsertDies(u)
    <3> DEFINE w == [upsert[u] EXCEPT !.pc = "died"]
    <3>1. w \in Upsert /\ w.pc = "died"  BY <2>0 DEF Upsert
    <3>2. /\ upsert[u].pc = "truncated" /\ upsert' = [upsert EXCEPT ![u] = w]
          /\ regFile'.state \in {regFile.state, "torn"} /\ UNCHANGED writes
      BY <2>0, <2>3 DEF UpsertDies, File
    <3> HIDE DEF w
    <3>3. QED  BY <3>1, <3>2, UnwrittenParse
  <2>4. QED  BY <1>3, <2>1, <2>2, <2>3
<1>4. ASSUME NEW u \in Upserts, WriteRegistry(u) PROVE ParseInv'
  BY <1>4, WrittenParse
<1>5. QED
  BY <1>1, <1>2, <1>3, <1>4
  DEF RegistryNext, regVars, ServerLoads, ServerLoaded, FindStale, Reload, ReloadFails, Stamp

LEMMA ParseInvariant == RegistrySpec => []ParseInv
<1>1. RegistryInit => ParseInv
  <2> SUFFICES ASSUME RegistryInit PROVE ParseInv
    OBVIOUS
  <2>1. regFile.state \in {"whole", "missing"}
    <3>1. CASE \E r \in Regions : regFile = ShippedFile(r)  BY <3>1 DEF ShippedFile
    <3>2. CASE regFile = [state |-> "missing", content |-> Blank, mtime |-> 0]
      BY <3>2
    <3>3. QED  BY <3>1, <3>2 DEF RegistryInit
  <2>2. \A u \in Upserts : upsert[u].pc = "new"  BY DEF RegistryInit, NewUpsert
  <2>3. ParsesUnlessTorn  BY <2>1 DEF ParsesUnlessTorn
  <2>4. \A u \in Upserts : FoundEmpty(u)  BY <2>2 DEF FoundEmpty
  <2>5. QED  BY <2>3, <2>4 DEF ParseInv
<1>2. QED  BY <1>1, ParseKeeps, RegistryInvariant, PTL DEF RegistrySpec

(* An upsert is lost only to one that had loaded the file before it, and   *)
(* the default region has an entry; the file does not parse only between   *)
(* the emptying and the write of an upsert, or after a death there or two  *)
(* upserts that had both emptied it: for any number of upserts             *)
(* (registry.py, upsert_region and _write).                                *)
THEOREM RegistryIsKept == RegistrySpec => []RegistryKept
<1>1. RegInv /\ ParseInv => RegistryKept
  BY DEF RegInv, FileInv, KeptIn, HasDefault, ParseInv, RegistryKept, UpsertsKept, DefaultListed
<1>2. QED  BY <1>1, RegistryInvariant, ParseInvariant, PTL

LEMMA RegistryTyped == RegistrySpec => []RegistryTypeOK
<1>1. RegInv => RegistryTypeOK  BY DEF RegInv
<1>2. QED  BY <1>1, RegistryInvariant, PTL

----------------------------------------------------------------------------
(* GymTable: what queries see is of finished runs, and not of two mixed.   *)

(* The rows that are locked are those that an open run has written.        *)
LocksInv ==
  \A g \in GymIds, s \in Syncs :
    pending[g] = s <=> sync[s].pc = "open" /\ g \in sync[s].gyms \ sync[s].left
LeftInv ==
  \A s \in Syncs : /\ sync[s].left \subseteq sync[s].gyms
                   /\ sync[s].pc = "read" => sync[s].left = sync[s].gyms
                   /\ sync[s].pc = "new" => sync[s].gyms = {}

GymInv == GymTableTypeOK /\ LocksInv /\ LeftInv /\ SyncsApart

LEMMA GymInitInv == GymTableInit => GymInv
<1> SUFFICES ASSUME GymTableInit PROVE GymInv
  OBVIOUS
<1>1. PICK valid \in SUBSET GymIds : dataset = [version |-> 1, valid |-> valid]
  BY DEF GymTableInit
<1>2. 1 \in 1..Versions  BY GymTableAssumption
<1>3. dataset \in PublishedGyms  BY <1>1, <1>2 DEF PublishedGyms
<1>4. NewSync \in Sync /\ NewSync.pc = "new" /\ NewSync.gyms = {}
  BY DEF NewSync, Sync
<1>5. /\ table \in [GymIds -> Syncs \cup {Nobody}] /\ pending \in [GymIds -> Syncs \cup {Nobody}]
      /\ sync \in [Syncs -> Sync]
      /\ \A g \in GymIds : table[g] = Nobody /\ pending[g] = Nobody
      /\ \A s \in Syncs : sync[s] = NewSync
  BY <1>4 DEF GymTableInit
<1>6. \A s \in Syncs : s # Nobody  BY GymTableAssumption
<1>7. \A s \in Syncs : /\ sync[s].pc = "new" /\ sync[s].gyms = {}
                        /\ sync[s].left = {}
  BY <1>5 DEF NewSync
<1>8. LocksInv /\ LeftInv
  <2>1. LocksInv  BY <1>5, <1>6, <1>7 DEF LocksInv
  <2>2. LeftInv  BY <1>7 DEF LeftInv
  <2>3. QED  BY <2>1, <2>2
<1>9. SyncsApart  BY <1>5, <1>6, <1>7 DEF SyncsApart, Finished
<1>10. QED  BY <1>3, <1>5, <1>8, <1>9 DEF GymInv, GymTableTypeOK

LEMMA GymTypes ==
  ASSUME GymInv
  PROVE  /\ dataset \in PublishedGyms /\ table \in [GymIds -> Syncs \cup {Nobody}]
         /\ pending \in [GymIds -> Syncs \cup {Nobody}]
         /\ sync \in [Syncs -> Sync]
         /\ \A s \in Syncs : sync[s].gyms \in SUBSET GymIds /\ sync[s].left \in SUBSET GymIds
BY DEF GymInv, GymTableTypeOK, Sync

(* A run that has not finished has no row: it may take any step that       *)
(* leaves the table alone and keeps its locks.                             *)
LEMMA UnfinishedKeeps ==
  ASSUME GymInv, NEW s \in Syncs, ~Finished(s), NEW w \in Sync, w.pc # "done",
         sync' = [sync EXCEPT ![s] = w], dataset' \in PublishedGyms, UNCHANGED table,
         pending' \in [GymIds -> Syncs \cup {Nobody}],
         w.left \subseteq w.gyms, w.pc = "read" => w.left = w.gyms, w.pc # "new",
         \A g \in GymIds : pending'[g] = s <=> w.pc = "open" /\ g \in w.gyms \ w.left,
         \A g \in GymIds : \A t \in Syncs \ {s} : pending'[g] = t <=> pending[g] = t
  PROVE  GymInv'
<1>1. /\ \A t \in Syncs : sync'[t] = IF t = s THEN w ELSE sync[t]
      /\ sync' \in [Syncs -> Sync]
  BY GymTypes
<1>2. GymTableTypeOK'  BY <1>1, GymTypes DEF GymTableTypeOK
<1>3. LocksInv' /\ LeftInv'  BY <1>1 DEF GymInv, LocksInv, LeftInv
<1>4. \A g \in GymIds : table[g] \in Syncs \cup {Nobody} /\ table[g] # s
  BY GymTypes, GymTableAssumption DEF GymInv, SyncsApart
<1>5. \A t \in Syncs : sync[t].gyms \subseteq GymIds  BY GymTypes
<1>6. SyncsApart'
  <2>1. \A g \in GymIds : table[g] # Nobody => sync'[table[g]].pc = "done" /\ g \in sync'[table[g]].gyms
    BY <1>1, <1>4 DEF GymInv, SyncsApart, Finished
  <2>2. \A t \in Syncs : Finished(t)' => \A g \in sync'[t].gyms : table[g] # Nobody
    BY <1>1 DEF GymInv, SyncsApart, Finished
  <2>3. ASSUME NEW t \in Syncs, NEW r \in Syncs, t # r,
               NEW g \in sync'[t].gyms \cap sync'[r].gyms,
               NEW h \in sync'[t].gyms \cap sync'[r].gyms, table[g] = t, table[h] = r
        PROVE  FALSE
    <3>1. g \in GymIds /\ h \in GymIds  BY <1>1 DEF Sync
    <3>2. t # s /\ r # s  BY <1>4, <2>3, <3>1
    <3>3. QED  BY <1>1, <2>3, <3>2 DEF GymInv, SyncsApart
  <2>4. QED  BY <2>1, <2>2, <2>3 DEF SyncsApart, Finished
<1>7. QED  BY <1>2, <1>3, <1>6 DEF GymInv

(* A run that commits has written, and locked, every gym that it has read: *)
(* none of them keeps the row of another run.                              *)
LEMMA CommitSyncKeeps ==
  ASSUME GymInv, NEW s \in Syncs, CommitSync(s)
  PROVE  GymInv'
<1>1. /\ sync[s].pc \in {"read", "open"} /\ sync[s].left = {}
      /\ table' = [g \in GymIds |-> IF pending[g] = s THEN s ELSE table[g]]
      /\ pending' = [g \in GymIds |-> IF pending[g] = s THEN Nobody ELSE pending[g]]
      /\ sync' = [sync EXCEPT ![s].pc = "done"] /\ UNCHANGED dataset
  BY DEF CommitSync, Released
<1>2. /\ \A t \in Syncs : /\ sync'[t].gyms = sync[t].gyms /\ sync'[t].left = sync[t].left
                          /\ sync'[t].pc = IF t = s THEN "done" ELSE sync[t].pc
      /\ sync' \in [Syncs -> Sync]
  BY <1>1, GymTypes DEF Sync
<1>3. GymTableTypeOK'  BY <1>1, <1>2, GymTypes DEF GymTableTypeOK
<1>4. \A g \in GymIds : pending[g] = s <=> g \in sync[s].gyms
  BY <1>1 DEF GymInv, LocksInv, LeftInv
<1>5. LocksInv' /\ LeftInv'
  BY <1>1, <1>2, GymTypes, GymTableAssumption DEF GymInv, LocksInv, LeftInv
<1>6. \A g \in GymIds : /\ table'[g] = IF g \in sync[s].gyms THEN s ELSE table[g]
                        /\ table[g] \in Syncs \cup {Nobody} /\ table[g] # s
  BY <1>1, <1>4, GymTypes, GymTableAssumption DEF GymInv, SyncsApart, Finished
<1>7. SyncsApart'
  <2>1. \A g \in GymIds : table'[g] # Nobody => sync'[table'[g]].pc = "done" /\ g \in sync'[table'[g]].gyms
    BY <1>2, <1>6 DEF GymInv, SyncsApart, Finished
  <2>2. ASSUME NEW t \in Syncs, Finished(t)', NEW g \in sync'[t].gyms PROVE table'[g] # Nobody
    <3>1. g \in GymIds  BY <1>2 DEF Sync
    <3>2. QED
      BY <1>2, <1>6, <2>2, <3>1, GymTableAssumption DEF GymInv, SyncsApart, Finished
  <2>3. ASSUME NEW t \in Syncs, NEW r \in Syncs, t # r,
               NEW g \in sync'[t].gyms \cap sync'[r].gyms,
               NEW h \in sync'[t].gyms \cap sync'[r].gyms, table'[g] = t, table'[h] = r
        PROVE  FALSE
    <3>1. /\ g \in GymIds /\ h \in GymIds
          /\ g \in sync[t].gyms \cap sync[r].gyms /\ h \in sync[t].gyms \cap sync[r].gyms
      BY <1>2, GymTypes
    <3>2. t # s /\ r # s  BY <1>6, <2>3, <3>1
    <3>3. table[g] = t /\ table[h] = r  BY <1>6, <2>3, <3>1, <3>2
    <3>4. QED  BY <2>3, <3>1, <3>3 DEF GymInv, SyncsApart
  <2>4. QED  BY <2>1, <2>2, <2>3 DEF SyncsApart, Finished
<1>8. QED  BY <1>3, <1>5, <1>7 DEF GymInv

LEMMA GymNextInv == GymInv /\ [GymTableNext]_gymTableVars => GymInv'
<1> SUFFICES ASSUME GymInv, [GymTableNext]_gymTableVars PROVE GymInv'
  OBVIOUS
<1>1. CASE PublishDataset
  <2>1. PICK valid \in SUBSET GymIds :
          /\ dataset.version < Versions
          /\ dataset' = [version |-> dataset.version + 1, valid |-> valid]
          /\ UNCHANGED <<table, pending, sync>>
    BY <1>1 DEF PublishDataset
  <2>2. dataset.version + 1 \in 1..Versions
    BY <2>1, GymTypes, GymTableAssumption DEF PublishedGyms
  <2>3. dataset' \in PublishedGyms  BY <2>1, <2>2 DEF PublishedGyms
  <2>4. QED
    BY <2>1, <2>3 DEF GymInv, GymTableTypeOK, LocksInv, LeftInv, SyncsApart, Finished
<1>2. ASSUME NEW s \in Syncs, ReadDataset(s) PROVE GymInv'
  <2> DEFINE w == [pc |-> "read", gyms |-> dataset.valid, left |-> dataset.valid]
  <2>1. w \in Sync /\ w.pc = "read" /\ w.left = w.gyms
    BY GymTypes DEF Sync, PublishedGyms
  <2>2. /\ ~Finished(s) /\ sync' = [sync EXCEPT ![s] = w]
        /\ UNCHANGED <<dataset, table, pending>>
    BY <1>2 DEF ReadDataset, Finished
  <2>3. \A g \in GymIds : pending[g] # s  BY <1>2 DEF ReadDataset, GymInv, LocksInv
  <2> HIDE DEF w
  <2>4. QED  BY <2>1, <2>2, <2>3, GymTypes, UnfinishedKeeps
<1>3. ASSUME NEW s \in Syncs, Upsert1(s) PROVE GymInv'
  <2>1. PICK g \in sync[s].left :
          /\ sync[s].pc \in {"read", "open"} /\ pending[g] = Nobody
          /\ pending' = [pending EXCEPT ![g] = s]
          /\ sync' = [sync EXCEPT ![s].pc = "open", ![s].left = @ \ {g}]
          /\ UNCHANGED <<dataset, table>>
    BY <1>3 DEF Upsert1
  <2> DEFINE w == [sync[s] EXCEPT !.pc = "open", !.left = @ \ {g}]
  <2>2. /\ w \in Sync /\ w.pc = "open" /\ w.gyms = sync[s].gyms /\ w.left = sync[s].left \ {g}
        /\ g \in GymIds
    BY GymTypes DEF Sync
  <2>3. sync' = [sync EXCEPT ![s] = w] /\ ~Finished(s)  BY <2>1 DEF Finished
  <2> HIDE DEF w
  <2>4. \A h \in GymIds : pending'[h] = IF h = g THEN s ELSE pending[h]
    BY <2>1, <2>2, GymTypes
  <2>5. pending' \in [GymIds -> Syncs \cup {Nobody}]  BY <2>1, GymTypes
  <2>6. \A h \in GymIds : \A t \in Syncs \ {s} : pending'[h] = t <=> pending[h] = t
    BY <2>1, <2>4, GymTableAssumption
  <2>7. g \in sync[s].gyms /\ w.left \subseteq w.gyms  BY <2>2 DEF GymInv, LeftInv
  <2>8. \A h \in GymIds : pending'[h] = s <=> h \in w.gyms \ w.left
    BY <2>1, <2>2, <2>4, <2>7 DEF GymInv, LocksInv, LeftInv
  <2>9. dataset' \in PublishedGyms /\ UNCHANGED table  BY <2>1, GymTypes
  <2>10. w.pc \notin {"done", "read", "new"}  BY <2>2
  <2>11. \A h \in GymIds : pending'[h] = s <=> w.pc = "open" /\ h \in w.gyms \ w.left
    BY <2>2, <2>8
  <2>12. w \in Sync /\ w.left \subseteq w.gyms  BY <2>2, <2>7
  <2> HIDE <2>1, <2>2, <2>8
  <2>13. QED  BY <2>3, <2>5, <2>6, <2>9, <2>10, <2>11, <2>12, UnfinishedKeeps
<1>4. ASSUME NEW s \in Syncs, SyncFails(s) PROVE GymInv'
  <2> DEFINE w == [sync[s] EXCEPT !.pc = "failed", !.left = {}]
  <2>1. w \in Sync /\ w.pc = "failed" /\ w.left \subseteq w.gyms  BY GymTypes DEF Sync
  <2>2. /\ ~Finished(s) /\ sync' = [sync EXCEPT ![s] = w] /\ UNCHANGED <<dataset, table>>
        /\ pending' = [g \in GymIds |-> IF pending[g] = s THEN Nobody ELSE pending[g]]
    BY <1>4 DEF SyncFails, Finished, Released
  <2> HIDE DEF w
  <2>3. pending' \in [GymIds -> Syncs \cup {Nobody}]  BY <2>2, GymTypes
  <2>4. /\ \A g \in GymIds : pending'[g] # s
        /\ \A g \in GymIds : \A t \in Syncs \ {s} : pending'[g] = t <=> pending[g] = t
    BY <2>2, GymTableAssumption
  <2>5. QED  BY <2>1, <2>2, <2>3, <2>4, GymTypes, UnfinishedKeeps
<1>5. ASSUME NEW s \in Syncs, CommitSync(s) PROVE GymInv'
  BY <1>5, CommitSyncKeeps
<1>6. CASE UNCHANGED gymTableVars
  BY <1>6 DEF gymTableVars, GymInv, GymTableTypeOK, LocksInv, LeftInv, SyncsApart, Finished
<1>7. QED  BY <1>1, <1>2, <1>3, <1>4, <1>5, <1>6 DEF GymTableNext

(* For any number of datasets and of runs that overlap, wait and fail: no  *)
(* query sees a row of an unfinished run, a gym of a finished one has its  *)
(* row, and two datasets are never mixed in the gyms that both have        *)
(* (scripts/sync_dataset_to_postgres.py).                                  *)
THEOREM SyncsStayApart == GymTableSpec => []SyncsApart
<1>1. GymTableInit => GymInv  BY GymInitInv
<1>2. GymInv /\ [GymTableNext]_gymTableVars => GymInv'  BY GymNextInv
<1>3. GymInv => SyncsApart  BY DEF GymInv
<1>4. QED  BY <1>1, <1>2, <1>3, PTL DEF GymTableSpec

LEMMA GymTableTyped == GymTableSpec => []GymTableTypeOK
<1>1. GymInv => GymTableTypeOK  BY DEF GymInv
<1>2. QED  BY <1>1, GymInitInv, GymNextInv, PTL DEF GymTableSpec

----------------------------------------------------------------------------
(* OverpassFetch: a fetch ends, within its time.                           *)

(* 1 + 2 + ... + n.                                                        *)
Triangle(n) == (n * (n + 1)) \div 2

(* The triangular numbers, one from the one before.                        *)
LEMMA TriangleFacts ==
  /\ \A n \in Nat : Triangle(n) \in Nat /\ Triangle(n + 1) = Triangle(n) + n + 1
  /\ Triangle(0) = 0
<1>1. ASSUME NEW n \in Nat PROVE Triangle(n) \in Nat /\ Triangle(n + 1) = Triangle(n) + n + 1
  <2>1. PICK x \in Nat : x = n * (n + 1)  OBVIOUS
  <2>2. (n + 1) * ((n + 1) + 1) = x + 2 * (n + 1)  BY <2>1
  <2>3. (x + 2 * (n + 1)) \div 2 = x \div 2 + n + 1  BY <2>1
  <2>4. x \div 2 \in Nat  BY <2>1
  <2>5. QED  BY <2>1, <2>2, <2>3, <2>4 DEF Triangle
<1>2. Triangle(0) = 0  BY DEF Triangle
<1>3. QED  BY <1>1, <1>2

(* Products and triangular numbers grow with their arguments.              *)
LEMMA ProductGrows ==
  ASSUME NEW a \in Nat, NEW b \in Nat, NEW c \in Nat, NEW d \in Nat, a <= b, c <= d
  PROVE  a * c \in Nat /\ b * d \in Nat /\ a * c <= b * d
<1>1. a * c <= b * c  OBVIOUS
<1>2. b * c <= b * d  OBVIOUS
<1>3. a * c \in Nat /\ b * c \in Nat /\ b * d \in Nat  OBVIOUS
<1>4. QED  BY <1>1, <1>2, <1>3

LEMMA TriangleGrows ==
  ASSUME NEW a \in Nat, NEW b \in Nat, a <= b
  PROVE  Triangle(a) <= Triangle(b)
<1>1. PICK x \in Nat, y \in Nat : x = a * (a + 1) /\ y = b * (b + 1)  OBVIOUS
<1>2. x <= y  BY <1>1, ProductGrows
<1>3. x \div 2 <= y \div 2  BY <1>2
<1>4. QED  BY <1>1, <1>3 DEF Triangle

(* The attempts that have ended by the a-th one at server s, and what was  *)
(* slept before it, in units of the backoff.                               *)
AttemptsBy(s, a) == (s - 1) * TotalAttempts + a
SleptBy(s, a) == (s - 1) * Triangle(TotalAttempts) + Triangle(a - 1)

TimeInv ==
  query.time <= (AttemptsBy(query.server, query.attempt) - (IF query.pc = "request" THEN 1 ELSE 0))
                  * ReqTimeout
                + Backoff * SleptBy(query.server, query.attempt)

(* A server is given up with a refusal, or after all its attempts.         *)
GivenUp(s) ==
  \/ \E n \in AttemptsAt(s) : tried[n].outcome = "refused" /\ \A m \in AttemptsAt(s) : m <= n
  \/ /\ \A n \in AttemptsAt(s) : tried[n].outcome \in {"lost", "busy"}
     /\ \E n, m \in AttemptsAt(s) : m = n + TotalAttempts - 1

(* The attempts at the current server are the last ones, all transient.    *)
CurrentInv ==
  LET ended == IF query.pc = "request" THEN query.attempt - 1 ELSE query.attempt
  IN  ~OpDone =>
        /\ ended <= Len(tried)
        /\ AttemptsAt(query.server) = (Len(tried) - ended + 1)..Len(tried)
        /\ \A n \in AttemptsAt(query.server) : tried[n].outcome \in {"lost", "busy"}

ServersInv ==
  /\ \A s \in 1..Servers : s < query.server => GivenUp(s)
  /\ \A s \in 1..Servers : s > query.server => AttemptsAt(s) = {}
  /\ query.pc = "unavailable" => query.server = Servers /\ GivenUp(Servers)
  /\ query.pc = "sleep" => ~(query.server = Servers /\ query.attempt = TotalAttempts)

OpInv == OpTypeOK /\ TimeInv /\ CurrentInv /\ ServersInv

(* A server is asked at least once.                                        *)
LEMMA TotalFacts == TotalAttempts \in Nat \ {0}
BY OverpassAssumption DEF TotalAttempts

(* Attempts and sleeps from one attempt, and one server, to the next.      *)
LEMMA SpentFacts ==
  ASSUME NEW s \in 1..Servers, NEW a \in 1..TotalAttempts
  PROVE  /\ AttemptsBy(s, a) \in Nat \ {0} /\ SleptBy(s, a) \in Nat
         /\ a < TotalAttempts => /\ AttemptsBy(s, a + 1) = AttemptsBy(s, a) + 1
                                 /\ SleptBy(s, a + 1) = SleptBy(s, a) + a
         /\ AttemptsBy(s + 1, 1) - 1 >= AttemptsBy(s, a)
         /\ SleptBy(s + 1, 1) >= SleptBy(s, a) + a
<1> DEFINE total == TotalAttempts
<1>1. total \in Nat \ {0} /\ s \in Nat \ {0} /\ a \in Nat \ {0} /\ a <= total
  BY TotalFacts, OverpassAssumption
<1> HIDE DEF total
<1>2. PICK x \in Nat : x = (s - 1) * total
  BY <1>1
<1>3. PICK z \in Nat : z = Triangle(total)
  BY <1>1, TriangleFacts
<1>4. PICK y \in Nat : y = (s - 1) * z
  BY <1>1
<1>5. s * total = x + total /\ s * z = y + z
  BY <1>1, <1>2, <1>4
<1>6. PICK u \in Nat : u = Triangle(a - 1) /\ Triangle(a) = u + a
  <2>1. PICK k \in Nat : k = a - 1 /\ k + 1 = a  BY <1>1
  <2>2. Triangle(k + 1) = Triangle(k) + k + 1 /\ Triangle(k) \in Nat  BY TriangleFacts
  <2>3. Triangle(a) = Triangle(k) + k + 1 /\ Triangle(a - 1) = Triangle(k)  BY <2>1, <2>2
  <2>4. QED  BY <2>1, <2>2, <2>3
<1>7. u + a <= z  BY <1>1, <1>3, <1>6, TriangleGrows
<1>8. (s + 1) - 1 = s /\ (a + 1) - 1 = a /\ 1 - 1 = 0  BY <1>1
<1>9. /\ AttemptsBy(s, a) = x + a /\ SleptBy(s, a) = y + u
      /\ AttemptsBy(s, a + 1) = x + (a + 1) /\ SleptBy(s, a + 1) = y + (u + a)
      /\ AttemptsBy(s + 1, 1) = (x + total) + 1 /\ SleptBy(s + 1, 1) = (y + z) + 0
  BY <1>2, <1>3, <1>4, <1>5, <1>6, <1>8, TriangleFacts DEF AttemptsBy, SleptBy, total
<1>10. QED  BY <1>1, <1>7, <1>9

(* The attempts, when one more has ended.                                  *)
LEMMA TriedFacts ==
  ASSUME OpInv, NEW outcome \in Outcome, Tried(outcome)
  PROVE  /\ tried' \in Seq([server : 1..Servers, outcome : Outcome])
         /\ Len(tried') = Len(tried) + 1 /\ Len(tried) \in Nat
         /\ \A n \in 1..Len(tried) : tried'[n] = tried[n]
         /\ tried'[Len(tried')] = [server |-> query.server, outcome |-> outcome]
<1>1. /\ tried \in Seq([server : 1..Servers, outcome : Outcome])
      /\ [server |-> query.server, outcome |-> outcome] \in [server : 1..Servers, outcome : Outcome]
      /\ tried' = Append(tried, [server |-> query.server, outcome |-> outcome])
  BY DEF OpInv, OpTypeOK, Query, Tried
<1>2. PICK n \in Nat : n = Len(tried)  BY <1>1
<1>3. /\ tried' \in Seq([server : 1..Servers, outcome : Outcome]) /\ Len(tried') = n + 1
      /\ \A i \in 1..n : tried'[i] = tried[i]
      /\ tried'[n + 1] = [server |-> query.server, outcome |-> outcome]
  BY <1>1, <1>2, AppendProperties
<1>4. QED  BY <1>2, <1>3

(* An attempt is one more at the current server and none elsewhere.        *)
LEMMA AttemptsGrow ==
  ASSUME OpInv, NEW outcome \in Outcome, Tried(outcome), NEW s \in 1..Servers
  PROVE  AttemptsAt(s)' = AttemptsAt(s) \cup (IF s = query.server THEN {Len(tried) + 1} ELSE {})
<1>1. PICK n \in Nat : n = Len(tried)  BY TriedFacts
<1>2. /\ Len(tried') = n + 1 /\ \A i \in 1..n : tried'[i] = tried[i]
      /\ tried'[n + 1] = [server |-> query.server, outcome |-> outcome]
  BY <1>1, TriedFacts
<1>3. AttemptsAt(s)' = {i \in 1..(n + 1) : tried'[i].server = s}
  BY <1>2 DEF AttemptsAt
<1>4. AttemptsAt(s) = {i \in 1..n : tried[i].server = s}
  BY <1>1 DEF AttemptsAt
<1>5. 1..(n + 1) = 1..n \cup {n + 1}  OBVIOUS
<1>6. tried'[n + 1].server = query.server  BY <1>2
<1>7. QED  BY <1>1, <1>2, <1>3, <1>4, <1>5, <1>6

(* Servers that were given up stay so: they are not tried again.           *)
LEMMA GivenUpStays ==
  ASSUME OpInv, NEW outcome \in Outcome, Tried(outcome), NEW s \in 1..Servers,
         s # query.server, GivenUp(s)
  PROVE  GivenUp(s)'
<1>1. AttemptsAt(s)' = AttemptsAt(s) /\ \A n \in AttemptsAt(s) : tried'[n] = tried[n]
  BY TriedFacts, AttemptsGrow DEF AttemptsAt
<1>2. QED  BY <1>1 DEF GivenUp

(* The types of the call, and what it can have spent so far.               *)
LEMMA QueryFacts ==
  ASSUME OpInv
  PROVE  /\ query \in Query /\ query.server \in 1..Servers /\ query.time \in Nat
         /\ query.attempt \in 1..TotalAttempts /\ query.attempt \in Nat \ {0}
         /\ ReqTimeout \in Nat /\ Backoff \in Nat /\ Servers \in Nat \ {0}
         /\ TotalAttempts \in Nat \ {0}
         /\ AttemptsBy(query.server, query.attempt) \in Nat \ {0}
         /\ SleptBy(query.server, query.attempt) \in Nat
<1>1. /\ ReqTimeout \in Nat /\ Backoff \in Nat /\ Servers \in Nat \ {0}
      /\ TotalAttempts \in Nat \ {0}
  BY TotalFacts, OverpassAssumption
<1>2. query \in Query /\ query.server \in 1..Servers /\ query.attempt \in 1..TotalAttempts
      /\ query.time \in Nat
  BY DEF OpInv, OpTypeOK, Query
<1>3. /\ AttemptsBy(query.server, query.attempt) \in Nat \ {0}
      /\ SleptBy(query.server, query.attempt) \in Nat
  BY <1>2, SpentFacts
<1>4. query.attempt \in Nat \ {0}  BY <1>1, <1>2
<1>5. QED  BY <1>1, <1>2, <1>3, <1>4

LEMMA BoundFacts ==
  /\ ReqTimeout \in Nat /\ Backoff \in Nat
  /\ Servers \in Nat \ {0} /\ TotalAttempts \in Nat \ {0}
BY TotalFacts, OverpassAssumption

(* The time of a request that ends: it is one of the attempts that ended.  *)
LEMMA RequestTime ==
  ASSUME OpInv, query.pc = "request", NEW d \in 0..ReqTimeout
  PROVE  query.time + d <= AttemptsBy(query.server, query.attempt) * ReqTimeout
                            + Backoff * SleptBy(query.server, query.attempt)
<1>1. PICK A \in Nat, S \in Nat : A = AttemptsBy(query.server, query.attempt)
                                    /\ S = SleptBy(query.server, query.attempt)
  BY QueryFacts
<1>2. query.time <= (A - 1) * ReqTimeout + Backoff * S
  BY <1>1 DEF OpInv, TimeInv
<1>3. (A - 1) * ReqTimeout + ReqTimeout = A * ReqTimeout
  BY <1>1, OverpassAssumption
<1>4. PICK x \in Int, y \in Int, z \in Int :
        x = (A - 1) * ReqTimeout /\ y = A * ReqTimeout /\ z = Backoff * S
  BY <1>1, OverpassAssumption
<1>5. query.time + d <= y + z
  BY <1>2, <1>3, <1>4, QueryFacts
<1>6. QED  BY <1>1, <1>4, <1>5

(* A request that ends the call, or is followed by a sleep.                *)
LEMMA RequestStops ==
  ASSUME OpInv, query.pc = "request", NEW d \in 0..ReqTimeout, NEW outcome \in Outcome,
         Tried(outcome), NEW pc \in {"sleep", "fetched", "unavailable", "raised"},
         query' = [query EXCEPT !.time = @ + d, !.pc = pc],
         pc = "sleep" => /\ outcome \in {"lost", "busy"}
                         /\ ~(query.server = Servers /\ query.attempt = TotalAttempts),
         pc = "unavailable" =>
           /\ query.server = Servers
           /\ outcome = "refused" \/ (outcome \in {"lost", "busy"} /\ query.attempt = TotalAttempts)
  PROVE  OpInv'
<1>1. PICK t \in Nat : t = query.time + d
  BY QueryFacts
<1>2. /\ query' \in Query /\ query'.pc = pc /\ query'.time = t
      /\ query'.server = query.server /\ query'.attempt = query.attempt
  <2>1. query' = [query EXCEPT !.time = t, !.pc = pc]  BY <1>1
  <2>2. QED  BY <1>1, <2>1, QueryFacts DEF Query
<1>3. OpTypeOK'
  BY <1>2, TriedFacts, QueryFacts DEF OpTypeOK
<1>4. TimeInv'
  <2>1. PICK A \in Nat, S \in Nat : A = AttemptsBy(query.server, query.attempt)
                                      /\ S = SleptBy(query.server, query.attempt)
    BY QueryFacts
  <2>2. /\ AttemptsBy(query'.server, query'.attempt) = A
        /\ SleptBy(query'.server, query'.attempt) = S
    BY <1>2, <2>1
  <2>3. t <= A * ReqTimeout + Backoff * S  BY <1>1, <2>1, RequestTime
  <2>4. A - 0 = A  BY <2>1
  <2>5. QED  BY <1>2, <2>2, <2>3, <2>4 DEF TimeInv, AttemptsBy, SleptBy
<1>5. PICK n \in Nat, a \in Nat \ {0}, url \in 1..Servers :
        n = Len(tried) /\ a = query.attempt /\ url = query.server
  BY TriedFacts, QueryFacts
<1>6. /\ a - 1 <= n /\ AttemptsAt(url) = (n - (a - 1) + 1)..n
      /\ \A i \in AttemptsAt(url) : tried[i].outcome \in {"lost", "busy"} /\ i \in 1..n
  BY <1>5 DEF OpInv, CurrentInv, OpDone, AttemptsAt
<1>7. /\ Len(tried') = n + 1 /\ \A i \in 1..n : tried'[i] = tried[i]
      /\ tried'[n + 1].outcome = outcome
  <2>1. Len(tried') = n + 1 /\ \A i \in 1..n : tried'[i] = tried[i]
    BY <1>5, TriedFacts
  <2>2. tried'[n + 1] = [server |-> query.server, outcome |-> outcome]
    BY <2>1, TriedFacts
  <2>3. tried'[n + 1].outcome = outcome  BY <2>2
  <2>4. QED  BY <2>1, <2>3
<1> DEFINE lately == AttemptsAt(url)'
<1>8. lately = AttemptsAt(url) \cup {n + 1}
  BY <1>5, AttemptsGrow
<1>9. lately = ((n + 1) - a + 1)..(n + 1)
  <2>1. (n - (a - 1) + 1)..n \cup {n + 1} = ((n + 1) - a + 1)..(n + 1)
    BY <1>5, <1>6
  <2>2. QED  BY <1>6, <1>8, <2>1
<1>10. outcome \in {"lost", "busy"} => \A i \in lately : tried'[i].outcome \in {"lost", "busy"}
  BY <1>6, <1>7, <1>8
<1> HIDE DEF lately
<1>11. CurrentInv'
  <2> SUFFICES ASSUME pc = "sleep" PROVE CurrentInv'
    BY <1>2 DEF CurrentInv, OpDone
  <2>1. a <= n + 1  BY <1>5, <1>6
  <2>2. query'.attempt = a /\ query'.pc = "sleep" /\ outcome \in {"lost", "busy"}
        /\ query'.server = url
    BY <1>2, <1>5
  <2>3. AttemptsAt(query.server)' = lately  BY <2>2 DEF lately, AttemptsAt
  <2>4. QED  BY <1>7, <1>9, <1>10, <2>1, <2>2, <2>3 DEF CurrentInv
<1>12. pc = "unavailable" => GivenUp(Servers)'
  <2> SUFFICES ASSUME pc = "unavailable" PROVE GivenUp(Servers)'
    OBVIOUS
  <2>1. AttemptsAt(Servers)' = lately  BY <1>5 DEF lately
  <2>2. CASE outcome = "refused"
    <3>1. n + 1 \in lately /\ \A m \in lately : m <= n + 1
      BY <1>5, <1>9
    <3>2. tried'[n + 1].outcome = "refused"  BY <1>7, <2>2
    <3>3. QED  BY <2>1, <3>1, <3>2 DEF GivenUp
  <2>3. CASE outcome \in {"lost", "busy"} /\ a = TotalAttempts
    <3>1. /\ (n + 1) - a + 1 \in lately /\ n + 1 \in lately
          /\ n + 1 = ((n + 1) - a + 1) + TotalAttempts - 1
      BY <1>5, <1>9, <2>3
    <3>2. QED  BY <1>10, <2>1, <2>3, <3>1 DEF GivenUp
  <2>4. QED  BY <1>5, <2>2, <2>3
<1>13. ServersInv'
  <2>1. \A s \in 1..Servers : s < url => GivenUp(s)'
    BY <1>5, GivenUpStays DEF OpInv, ServersInv
  <2>2. \A s \in 1..Servers : s > url => AttemptsAt(s)' = {}
    BY <1>5, AttemptsGrow DEF OpInv, ServersInv
  <2>3. query'.server = url  BY <1>2, <1>5
  <2>4. QED  BY <1>2, <1>5, <1>12, <2>1, <2>2, <2>3 DEF ServersInv
<1>14. QED  BY <1>3, <1>4, <1>11, <1>13 DEF OpInv

(* The call goes on at the next server.                                    *)
LEMMA MovesOn ==
  ASSUME OpInv, query.server # Servers, NEW t \in Nat,
         query' \in Query, query'.pc = "request", query'.server = query.server + 1,
         query'.attempt = 1, query'.time = t,
         t <= AttemptsBy(query.server, query.attempt) * ReqTimeout
                + Backoff * (SleptBy(query.server, query.attempt) + query.attempt),
         tried' \in Seq([server : 1..Servers, outcome : Outcome]),
         \A s \in 1..Servers : s <= query.server => GivenUp(s)',
         \A s \in 1..Servers : s > query.server => AttemptsAt(s)' = {}
  PROVE  OpInv'
<1>1. PICK url \in 1..Servers, a \in 1..TotalAttempts :
        url = query.server /\ a = query.attempt
  BY QueryFacts
<1>2. url + 1 \in 1..Servers /\ 1 \in 1..TotalAttempts /\ url \in Nat /\ a \in Nat
  <2>1. url # Servers  BY <1>1
  <2>2. QED  BY <2>1, BoundFacts
<1>3. OpTypeOK'
  BY <1>2 DEF OpTypeOK
<1>4. TimeInv'
  <2>1. PICK A \in Nat, S \in Nat : A = AttemptsBy(url, a) /\ S = SleptBy(url, a)
    BY <1>1, SpentFacts
  <2>2. AttemptsBy(url + 1, 1) \in Nat \ {0} /\ SleptBy(url + 1, 1) \in Nat
    BY <1>2, SpentFacts
  <2>3. PICK A1 \in Nat, S1 \in Nat :
          A1 = AttemptsBy(url + 1, 1) - 1 /\ S1 = SleptBy(url + 1, 1)
    BY <2>2
  <2>4. A1 >= A /\ S1 >= S + a
    BY <1>1, <2>1, <2>3, SpentFacts
  <2>5. A * ReqTimeout <= A1 * ReqTimeout /\ Backoff * (S + a) <= Backoff * S1
    <3>1. S + a \in Nat /\ ReqTimeout <= ReqTimeout /\ Backoff <= Backoff
      BY <1>2, BoundFacts
    <3>2. A * ReqTimeout <= A1 * ReqTimeout
      BY <2>4, <3>1, ProductGrows, BoundFacts
    <3>3. Backoff * (S + a) <= Backoff * S1
      BY <2>4, <3>1, ProductGrows, BoundFacts
    <3>4. QED  BY <3>2, <3>3
  <2>6. /\ A * ReqTimeout \in Nat /\ A1 * ReqTimeout \in Nat
        /\ Backoff * (S + a) \in Nat /\ Backoff * S1 \in Nat
    <3>1. S + a \in Nat  BY <1>2
    <3>2. QED  BY <3>1, BoundFacts
  <2>7. t <= A * ReqTimeout + Backoff * (S + a)
    BY <1>1, <2>1
  <2>8. t <= A1 * ReqTimeout + Backoff * S1
    BY <2>5, <2>6, <2>7
  <2>9. query'.server = url + 1 /\ query'.attempt = 1 /\ query'.pc = "request" /\ query'.time = t
    BY <1>1
  <2>10. /\ AttemptsBy(query'.server, query'.attempt) - 1 = A1
         /\ SleptBy(query'.server, query'.attempt) = S1
    BY <2>3, <2>9
  <2>11. QED  BY <2>8, <2>9, <2>10 DEF TimeInv, AttemptsBy, SleptBy
<1>5. CurrentInv'
  <2>1. AttemptsAt(url + 1)' = {}
    <3>1. url + 1 > query.server  BY <1>1, <1>2
    <3>2. QED  BY <1>2, <3>1
  <2>2. query'.server = url + 1 /\ query'.attempt - 1 = 0 /\ query'.pc = "request"
    BY <1>1
  <2>3. AttemptsAt(query.server)' = {}
    BY <2>1, <2>2 DEF AttemptsAt
  <2>4. PICK n \in Nat : n = Len(tried')  BY LenProperties
  <2>5. {} = (n - 0 + 1)..n /\ 0 <= n  BY <2>4
  <2>6. QED  BY <2>2, <2>3, <2>4, <2>5 DEF CurrentInv
<1>6. ServersInv'
  <2>1. query'.server = url + 1 /\ query'.pc = "request"  BY <1>1
  <2>2. \A s \in 1..Servers : s < url + 1 => GivenUp(s)'
    BY <1>1, <1>2
  <2>3. \A s \in 1..Servers : s > url + 1 => AttemptsAt(s)' = {}
    BY <1>1, <1>2
  <2>4. QED  BY <2>1, <2>2, <2>3 DEF ServersInv
<1>7. QED  BY <1>3, <1>4, <1>5, <1>6 DEF OpInv

LEMMA RefusedKeeps ==
  ASSUME OpInv, NEW d \in 0..ReqTimeout, Refused(d)
  PROVE  OpInv'
<1>1. query.pc = "request" /\ Tried("refused") /\ "refused" \in Outcome
  BY DEF Refused, Outcome
<1>2. CASE query.server = Servers
  <2>1. query' = [query EXCEPT !.time = @ + d, !.pc = "unavailable"]
    BY <1>2 DEF Refused, IsLastServer
  <2>2. QED  BY <1>1, <1>2, <2>1, RequestStops
<1>3. CASE query.server # Servers
  <2>1. PICK t \in Nat, url \in 1..Servers :
          t = query.time + d /\ url = query.server
    BY QueryFacts
  <2>2. query' = [query EXCEPT !.time = t, !.pc = "request", !.server = url + 1, !.attempt = 1]
    BY <1>3, <2>1 DEF Refused, IsLastServer, NextServer
  <2>3. url + 1 \in 1..Servers  BY <1>3, <2>1, QueryFacts
  <2>4. /\ query' \in Query /\ query'.pc = "request" /\ query'.server = query.server + 1
        /\ query'.attempt = 1 /\ query'.time = t
    BY <2>1, <2>2, <2>3, QueryFacts DEF Query
  <2>5. t <= AttemptsBy(query.server, query.attempt) * ReqTimeout
               + Backoff * (SleptBy(query.server, query.attempt) + query.attempt)
    <3>1. PICK A \in Nat, S \in Nat, a \in Nat :
            A = AttemptsBy(query.server, query.attempt)
              /\ S = SleptBy(query.server, query.attempt) /\ a = query.attempt
      BY QueryFacts
    <3>2. t <= A * ReqTimeout + Backoff * S
      BY <1>1, <2>1, <3>1, RequestTime
    <3>3. Backoff * S <= Backoff * (S + a)
      BY <3>1, ProductGrows, QueryFacts
    <3>4. PICK x \in Int, y \in Int, z \in Int :
            x = A * ReqTimeout /\ y = Backoff * S /\ z = Backoff * (S + a)
      BY <3>1, QueryFacts
    <3>5. t <= x + z  BY <2>1, <3>2, <3>3, <3>4
    <3>6. QED  BY <3>1, <3>4, <3>5
  <2>6. GivenUp(url)'
    <3>1. PICK n \in Nat : n = Len(tried)  BY <1>1, TriedFacts
    <3>2. AttemptsAt(url)' = AttemptsAt(url) \cup {n + 1}
      BY <1>1, <2>1, <3>1, AttemptsGrow
    <3>3. \A m \in AttemptsAt(url) : m <= n + 1
      BY <3>1 DEF AttemptsAt
    <3>4. tried'[n + 1] = [server |-> query.server, outcome |-> "refused"]
      <4>1. Len(tried') = n + 1  BY <1>1, <3>1, TriedFacts
      <4>2. QED  BY <1>1, <4>1, TriedFacts
    <3>5. tried'[n + 1].outcome = "refused"  BY <3>4
    <3>6. n + 1 \in AttemptsAt(url)' /\ \A m \in AttemptsAt(url)' : m <= n + 1
      BY <3>2, <3>3
    <3>7. QED  BY <3>5, <3>6 DEF GivenUp
  <2>7. \A s \in 1..Servers : s <= query.server => GivenUp(s)'
    <3> SUFFICES ASSUME NEW s \in 1..Servers, s <= query.server PROVE GivenUp(s)'
      OBVIOUS
    <3>1. CASE s = url  BY <2>6, <3>1
    <3>2. CASE s # url
      <4>1. s < query.server  BY <2>1, <3>2
      <4>2. GivenUp(s)  BY <4>1 DEF OpInv, ServersInv
      <4>3. QED  BY <1>1, <2>1, <3>2, <4>2, GivenUpStays
    <3>3. QED  BY <3>1, <3>2
  <2>8. \A s \in 1..Servers : s > query.server => AttemptsAt(s)' = {}
    BY <1>1, <2>1, AttemptsGrow DEF OpInv, ServersInv
  <2>9. tried' \in Seq([server : 1..Servers, outcome : Outcome])
    BY <1>1, TriedFacts
  <2>10. QED  BY <1>3, <2>4, <2>5, <2>7, <2>8, <2>9, MovesOn
<1>4. QED  BY <1>2, <1>3

LEMMA SleepKeeps ==
  ASSUME OpInv, Sleep
  PROVE  OpInv'
<1>1. PICK url \in 1..Servers, a \in 1..TotalAttempts, A \in Nat, S \in Nat :
        /\ url = query.server /\ a = query.attempt
        /\ A = AttemptsBy(query.server, query.attempt)
        /\ S = SleptBy(query.server, query.attempt)
  BY QueryFacts
<1>2. /\ query.pc = "sleep" /\ tried' = tried /\ a \in Nat \ {0}
      /\ ~(url = Servers /\ a = TotalAttempts)
      /\ query.time <= A * ReqTimeout + Backoff * S
  <2>1. query.pc = "sleep" /\ tried' = tried  BY DEF Sleep
  <2>2. A - 0 = A  BY <1>1
  <2>3. QED  BY <1>1, <2>1, <2>2, QueryFacts DEF OpInv, TimeInv, ServersInv
<1>3. PICK t \in Nat : t = query.time + Backoff * a
  BY <1>2, QueryFacts
<1>4. t <= A * ReqTimeout + Backoff * (S + a)
  <2>1. Backoff * (S + a) = Backoff * S + Backoff * a
    BY <1>1, <1>2, QueryFacts
  <2>2. PICK x \in Int, y \in Int, z \in Int :
          x = A * ReqTimeout /\ y = Backoff * S /\ z = Backoff * a
    BY <1>1, <1>2, QueryFacts
  <2>3. t <= x + (y + z)  BY <1>2, <1>3, <2>2, QueryFacts
  <2>4. QED  BY <2>1, <2>2, <2>3
<1>5. /\ a <= Len(tried)
      /\ AttemptsAt(url) = (Len(tried) - a + 1)..Len(tried)
      /\ \A n \in AttemptsAt(url) : tried[n].outcome \in {"lost", "busy"}
  BY <1>1, <1>2 DEF OpInv, CurrentInv, OpDone
<1>6. \A s : AttemptsAt(s)' = AttemptsAt(s) /\ (GivenUp(s)' <=> GivenUp(s))
  BY <1>2 DEF AttemptsAt, GivenUp
<1>7. tried' \in Seq([server : 1..Servers, outcome : Outcome])
  BY <1>2 DEF OpInv, OpTypeOK
<1>8. CASE a = TotalAttempts
  <2>1. query' = [query EXCEPT !.time = t, !.pc = "request", !.server = url + 1, !.attempt = 1]
    BY <1>1, <1>3, <1>8 DEF Sleep, IsLastAttempt, NextServer
  <2>2. url + 1 \in 1..Servers
    <3>1. url # Servers  BY <1>2, <1>8
    <3>2. QED  BY <3>1, BoundFacts
  <2>3. /\ query' \in Query /\ query'.pc = "request" /\ query'.server = query.server + 1
        /\ query'.attempt = 1 /\ query'.time = t
    BY <1>1, <2>1, <2>2, QueryFacts DEF Query
  <2>4. GivenUp(url)
    <3>1. PICK n \in Nat : n = Len(tried)  BY <1>7, <1>2, LenProperties
    <3>2. n - a + 1 \in AttemptsAt(url) /\ n \in AttemptsAt(url)
          /\ n = (n - a + 1) + TotalAttempts - 1
      BY <1>2, <1>5, <1>8, <3>1
    <3>3. QED  BY <1>5, <3>2 DEF GivenUp
  <2>5. \A s \in 1..Servers : s <= query.server => GivenUp(s)'
    BY <1>1, <1>6, <2>4 DEF OpInv, ServersInv
  <2>6. \A s \in 1..Servers : s > query.server => AttemptsAt(s)' = {}
    BY <1>6 DEF OpInv, ServersInv
  <2>7. t <= AttemptsBy(query.server, query.attempt) * ReqTimeout
               + Backoff * (SleptBy(query.server, query.attempt) + query.attempt)
    BY <1>1, <1>4
  <2>8. query.server # Servers  BY <1>1, <1>2, <1>8
  <2>9. QED  BY <1>7, <2>3, <2>5, <2>6, <2>7, <2>8, MovesOn
<1>9. CASE a # TotalAttempts
  <2>1. query' = [query EXCEPT !.time = t, !.pc = "request", !.attempt = a + 1]
    BY <1>1, <1>3, <1>9 DEF Sleep, IsLastAttempt
  <2>2. a + 1 \in 1..TotalAttempts /\ a < TotalAttempts  BY <1>9, QueryFacts
  <2>3. /\ query' \in Query /\ query'.pc = "request" /\ query'.server = url
        /\ query'.attempt = a + 1 /\ query'.time = t
    <3>1. a + 1 \in Nat /\ query \in Query  BY <1>2, QueryFacts
    <3>2. QED  BY <1>1, <2>1, <3>1 DEF Query
  <2>4. OpTypeOK'  BY <1>7, <2>2, <2>3 DEF OpTypeOK
  <2>5. TimeInv'
    <3>1. /\ AttemptsBy(query'.server, query'.attempt) = A + 1
          /\ SleptBy(query'.server, query'.attempt) = S + a
      BY <1>1, <2>2, <2>3, SpentFacts
    <3>2. (A + 1) - 1 = A  BY <1>1
    <3>3. QED  BY <1>4, <2>3, <3>1, <3>2 DEF TimeInv, AttemptsBy, SleptBy
  <2>6. CurrentInv'
    <3>1. (a + 1) - 1 = a  BY <1>2
    <3>2. AttemptsAt(query.server)' = AttemptsAt(url)
      BY <1>2, <2>3 DEF AttemptsAt
    <3>3. QED  BY <1>2, <1>5, <2>3, <3>1, <3>2 DEF CurrentInv
  <2>7. ServersInv'
    BY <1>1, <1>6, <2>3 DEF OpInv, ServersInv
  <2>8. QED  BY <2>4, <2>5, <2>6, <2>7 DEF OpInv
<1>10. QED  BY <1>8, <1>9

LEMMA OpNextKeeps ==
  ASSUME OpInv, [OpNext]_opVars
  PROVE  OpInv'
<1>1. ASSUME NEW d \in 0..ReqTimeout, Answered(d) PROVE OpInv'
  <2>1. PICK outcome \in {"ok", "garbled"} :
          /\ query.pc = "request" /\ Tried(outcome)
          /\ query' = [query EXCEPT !.time = @ + d,
                         !.pc = IF outcome = "ok" THEN "fetched" ELSE "raised"]
    BY <1>1 DEF Answered
  <2>2. outcome \in Outcome  BY DEF Outcome
  <2>3. PICK pc \in {"fetched", "raised"} :
          query' = [query EXCEPT !.time = @ + d, !.pc = pc]
    BY <2>1
  <2>4. QED  BY <1>1, <2>1, <2>2, <2>3, RequestStops
<1>2. ASSUME NEW d \in 0..ReqTimeout, Transient(d) PROVE OpInv'
  <2>1. PICK outcome \in {"lost", "busy"} :
          /\ query.pc = "request" /\ Tried(outcome)
          /\ query' = [query EXCEPT !.time = @ + d,
                         !.pc = IF IsLastAttempt /\ IsLastServer THEN "unavailable" ELSE "sleep"]
    BY <1>2 DEF Transient
  <2>2. outcome \in Outcome  BY DEF Outcome
  <2>3. CASE query.server = Servers /\ query.attempt = TotalAttempts
    <3>1. query' = [query EXCEPT !.time = @ + d, !.pc = "unavailable"]
      BY <2>1, <2>3 DEF IsLastAttempt, IsLastServer
    <3>2. QED  BY <1>2, <2>1, <2>2, <2>3, <3>1, RequestStops
  <2>4. CASE ~(query.server = Servers /\ query.attempt = TotalAttempts)
    <3>1. query' = [query EXCEPT !.time = @ + d, !.pc = "sleep"]
      BY <2>1, <2>4 DEF IsLastAttempt, IsLastServer
    <3>2. QED  BY <1>2, <2>1, <2>2, <2>4, <3>1, RequestStops
  <2>5. QED  BY <2>3, <2>4
<1>3. CASE UNCHANGED opVars
  BY <1>3 DEF opVars, OpInv, OpTypeOK, TimeInv, CurrentInv, ServersInv, GivenUp, AttemptsAt,
       OpDone, AttemptsBy, SleptBy
<1>4. QED  BY <1>1, <1>2, <1>3, RefusedKeeps, SleepKeeps DEF OpNext

LEMMA OpInitHolds ==
  ASSUME OpInit
  PROVE  OpInv
<1>1. /\ query \in Query /\ query.pc = "request" /\ query.server = 1 /\ query.attempt = 1
      /\ query.time = 0 /\ tried = << >> /\ 1 \in 1..Servers
  BY OverpassAssumption DEF OpInit, Query
<1>2. OpTypeOK  BY <1>1, TotalFacts DEF OpTypeOK
<1>3. TimeInv
  <2>1. 1 \in 1..TotalAttempts  BY TotalFacts
  <2>2. PICK T \in Nat, Z \in Nat : T = TotalAttempts /\ Z = Triangle(TotalAttempts)
    BY TotalFacts, TriangleFacts
  <2>3. (1 - 1) * T + 1 = 1 /\ (1 - 1) * Z = 0 /\ 1 - 1 = 0
    BY <2>2
  <2>4. AttemptsBy(1, 1) = 1 /\ SleptBy(1, 1) = 0
    BY <2>2, <2>3, TriangleFacts DEF AttemptsBy, SleptBy
  <2>5. 0 <= (1 - 1) * ReqTimeout + Backoff * 0
    BY OverpassAssumption
  <2>6. QED  BY <1>1, <2>4, <2>5 DEF TimeInv
<1>4. \A s : AttemptsAt(s) = {}
  BY <1>1 DEF AttemptsAt
<1>5. CurrentInv
  <2>1. 1 - 1 = 0 /\ {} = (0 - 0 + 1)..0 /\ Len(tried) = 0  BY <1>1
  <2>2. QED  BY <1>1, <1>4, <2>1 DEF CurrentInv
<1>6. ServersInv
  BY <1>1, <1>4 DEF ServersInv
<1>7. QED  BY <1>2, <1>3, <1>5, <1>6 DEF OpInv

LEMMA OpInvEnds ==
  ASSUME OpInv
  PROVE  FetchEnds
<1>1. GivesUpLast
  <2> SUFFICES ASSUME query.pc = "unavailable", NEW s \in 1..Servers PROVE GivenUp(s)
    BY DEF GivesUpLast, GivenUp
  <2>1. CASE s = Servers  BY <2>1 DEF OpInv, ServersInv
  <2>2. CASE s # Servers
    <3>1. s < query.server  BY <2>2, OverpassAssumption DEF OpInv, ServersInv
    <3>2. QED  BY <3>1 DEF OpInv, ServersInv
  <2>3. QED  BY <2>1, <2>2
<1>2. FetchTime
  <2>1. PICK url \in 1..Servers, a \in 1..TotalAttempts, T \in Nat \ {0}, Z \in Nat,
             A \in Nat \ {0}, S \in Nat :
          /\ url = query.server /\ a = query.attempt /\ T = TotalAttempts
          /\ Z = Triangle(TotalAttempts) /\ A = AttemptsBy(query.server, query.attempt)
          /\ S = SleptBy(query.server, query.attempt)
    BY QueryFacts, TriangleFacts
  <2>2. url \in Nat /\ a \in Nat \ {0} /\ a <= T /\ url <= Servers /\ Servers \in Nat \ {0}
        /\ url - 1 \in Nat /\ a - 1 \in Nat /\ T - 1 \in Nat /\ Servers - 1 \in Nat
    BY <2>1, QueryFacts
  <2>3. A = (url - 1) * T + a /\ S = (url - 1) * Z + Triangle(a - 1)
    BY <2>1 DEF AttemptsBy, SleptBy
  <2>4. /\ (url - 1) * T <= (Servers - 1) * T /\ (url - 1) * Z <= (Servers - 1) * Z
        /\ (url - 1) * T \in Nat /\ (url - 1) * Z \in Nat
        /\ (Servers - 1) * T \in Nat /\ (Servers - 1) * Z \in Nat
    BY <2>1, <2>2, ProductGrows
  <2>5. (Servers - 1) * T = Servers * T - T /\ (Servers - 1) * Z = Servers * Z - Z
        /\ Servers * T \in Nat /\ Servers * Z \in Nat
    BY <2>1, <2>2
  <2>6. Triangle(a - 1) <= Triangle(T - 1) /\ Triangle(a - 1) \in Nat /\ Triangle(T - 1) = Z - T
    <3>1. Triangle((T - 1) + 1) = Triangle(T - 1) + (T - 1) + 1 /\ Triangle(T - 1) \in Nat
          /\ Triangle(a - 1) \in Nat
      BY <2>2, TriangleFacts
    <3>2. (T - 1) + 1 = T  BY <2>1
    <3>3. Triangle(T) = Triangle(T - 1) + T  BY <2>1, <3>1, <3>2
    <3>4. QED  BY <2>1, <2>2, <3>1, <3>3, TriangleGrows
  <2>7. A <= Servers * T /\ S + T <= Servers * Z
    <3>1. PICK p \in Nat, q \in Nat, u \in Nat, v \in Nat, w \in Nat :
            /\ p = (url - 1) * T /\ q = (url - 1) * Z
            /\ u = Servers * T /\ v = Servers * Z /\ w = Triangle(a - 1)
      BY <2>4, <2>5, <2>6
    <3>2. p <= u - T /\ q <= v - Z /\ w <= Z - T
      BY <2>1, <2>4, <2>5, <2>6, <3>1
    <3>3. A <= u /\ S + T <= v
      BY <2>1, <2>2, <2>3, <3>1, <3>2
    <3>4. QED  BY <3>1, <3>3
  <2>8. PICK b \in Nat : b \in {A - 1, A} /\ query.time <= b * ReqTimeout + Backoff * S
    <3>1. A - 1 \in Nat /\ A - 0 = A  BY <2>1
    <3>2. QED  BY <2>1, <3>1 DEF OpInv, TimeInv
  <2>9. PICK M \in Nat, N \in Nat, K \in Nat :
          /\ M = Servers * T /\ N = Servers * Z
          /\ K = N - (IF OpDone THEN T ELSE 0)
    <3>1. PICK M \in Nat, N \in Nat : M = Servers * T /\ N = Servers * Z
      BY <2>5
    <3>2. S + T <= N  BY <2>7, <3>1
    <3>3. N - T \in Nat /\ N - 0 = N  BY <2>1, <3>1, <3>2
    <3>4. PICK K \in Nat : K = N - (IF OpDone THEN T ELSE 0)  BY <3>3
    <3>5. QED  BY <3>1, <3>4
  <2>10. b <= M /\ S <= K
    BY <2>1, <2>7, <2>8, <2>9
  <2>11. PICK x \in Nat, y \in Nat, z \in Nat, w \in Nat :
           /\ x = b * ReqTimeout /\ y = M * ReqTimeout /\ z = Backoff * S /\ w = Backoff * K
           /\ x <= y /\ z <= w
    <3>1. ReqTimeout <= ReqTimeout /\ Backoff <= Backoff  BY BoundFacts
    <3>2. b * ReqTimeout \in Nat /\ M * ReqTimeout \in Nat /\ b * ReqTimeout <= M * ReqTimeout
      BY <2>10, <3>1, ProductGrows, BoundFacts
    <3>3. Backoff * S \in Nat /\ Backoff * K \in Nat /\ Backoff * S <= Backoff * K
      BY <2>10, <3>1, ProductGrows, BoundFacts
    <3>4. QED  BY <3>2, <3>3
  <2>12. query.time <= y + w
    BY <2>8, <2>11, QueryFacts
  <2>13. K = Servers * ((TotalAttempts * (TotalAttempts + 1)) \div 2)
               - (IF OpDone THEN TotalAttempts ELSE 0)
    BY <2>1, <2>9 DEF Triangle
  <2>14. QED  BY <2>1, <2>9, <2>11, <2>12, <2>13 DEF FetchTime
<1>3. QED  BY <1>1, <1>2 DEF FetchEnds

(* A fetch gives up only after it has asked every server as often as it    *)
(* may, and takes no longer than its attempts and sleeps can               *)
(* (overpass_client.py, fetch_gyms).                                       *)
THEOREM OverpassFetchEnds == OpSpec => []FetchEnds
<1>1. OpInit => OpInv  BY OpInitHolds
<1>2. OpInv /\ [OpNext]_opVars => OpInv'  BY OpNextKeeps
<1>3. OpInv => FetchEnds  BY OpInvEnds
<1>4. QED  BY <1>1, <1>2, <1>3, PTL DEF OpSpec

LEMMA OpTyped == OpSpec => []OpTypeOK
<1>1. OpInv => OpTypeOK  BY DEF OpInv
<1>2. QED  BY <1>1, OpInitHolds, OpNextKeeps, PTL DEF OpSpec

----------------------------------------------------------------------------
(* Migrate: what the table of migrations says is true.                     *)

(* What a run that is at work has behind it.                               *)
RunProgress ==
  \A m \in Runs :
    /\ run[m].pc = "baseline" => run[m].file \in SchemaFiles
    /\ run[m].pc \in {"apply", "record"} => run[m].file \in SqlFiles
    /\ run[m].pc \in {"baseline", "check", "apply", "record"} =>
         \A f \in SchemaFiles : f < run[m].file => f \in migrations
    /\ run[m].pc = "record" => run[m].file \in applied
    /\ run[m].pc = "done" => SchemaFiles \subseteq migrations

(* Nothing is in the database of which neither the volume, a record nor a  *)
(* run between the two tells, unless one was killed there.                 *)
AppliedAccounted ==
  /\ volume \subseteq applied
  /\ volume # {} => 1 \in volume
  /\ migrations = {} => applied \subseteq volume \cup {1}
  /\ \A f \in applied :
       \/ f \in volume \cup migrations
       \/ \E n \in Runs : run[n].pc = "record" /\ run[n].file = f
       \/ \E n \in Runs : run[n].pc = "killed"
  /\ (\A n \in Runs : run[n].pc = "new") => migrations = {}

(* A run alone knows what it has read.                                     *)
RunsAlone ==
  /\ \A m, n \in Active : m = n \/ {m, n} \subseteq disturbed
  /\ ~overlap => \A m, n \in Active : m = n
  /\ ~overlap =>
       /\ \A m \in Runs :
            /\ run[m].pc = "detect" /\ run[m].unrecorded => migrations = {}
            /\ run[m].pc = "baseline" => Telling \subseteq volume
       /\ migrations \subseteq applied \/ (Telling \subseteq volume /\ ~(SchemaFiles \subseteq volume))

(* So does a run that nothing has disturbed.                               *)
Undisturbed ==
  \A m \in Active \ disturbed :
    /\ \A n \in Runs : run[n].pc \notin {"failed", "killed"}
    /\ run[m].pc \in {"count", "detect"} => migrations = {} \/ SchemaFiles \subseteq migrations
    /\ run[m].pc = "detect" => run[m].unrecorded = (migrations = {})
    /\ run[m].pc \in {"apply", "record"} => run[m].file \notin migrations
    /\ run[m].pc \in {"check", "apply", "record"} /\ Telling \subseteq volume =>
         SchemaFiles \subseteq migrations

MigrateInv ==
  /\ MigrateTypeOK /\ RunProgress /\ AppliedAccounted /\ RunsAlone /\ Undisturbed
  /\ RunsEndWell

(* The files of the schema and the seed, which comes after them.           *)
LEMMA MigrateFacts ==
  /\ LastFile \in Nat \ {0} /\ Seed = LastFile + 1 /\ Seed \in SqlFiles
  /\ SchemaFiles \subseteq SqlFiles /\ 1 \in SchemaFiles /\ LastFile \in SchemaFiles
  /\ \A f \in SqlFiles : f \in SchemaFiles \/ f = Seed
  /\ \A f \in SchemaFiles : f \in Nat \ {0} /\ f <= LastFile
  /\ Fragile \subseteq SchemaFiles /\ Telling \subseteq SchemaFiles
BY MigrateAssumption DEF Seed, SchemaFiles, SqlFiles

(* A step of one run changes its place in the script and no other run.     *)
LEMMA GotoFacts ==
  ASSUME MigrateInv, NEW m \in Runs, NEW pc \in {"done", "failed", "killed"} \cup Working,
         NEW file \in 1..(Seed + 1), Goto(m, pc, file)
  PROVE  /\ run' \in [Runs -> Run]
         /\ run'[m].pc = pc /\ run'[m].file = file
         /\ run'[m].seed = run[m].seed /\ run'[m].unrecorded = run[m].unrecorded
         /\ \A n \in Runs \ {m} : run'[n] = run[n]
<1>1. run \in [Runs -> Run]  BY DEF MigrateInv, MigrateTypeOK
<1>2. run' = [run EXCEPT ![m] = [run[m] EXCEPT !.pc = pc, !.file = file]]
  BY <1>1 DEF Goto
<1>3. [run[m] EXCEPT !.pc = pc, !.file = file] \in Run
  BY <1>1 DEF Run
<1>4. run[m] \in Run  BY <1>1
<1>5. QED  BY <1>1, <1>2, <1>3, <1>4 DEF Run

(* The types of a run and of the database.                                 *)
LEMMA RunTypes ==
  ASSUME MigrateInv, NEW m \in Runs
  PROVE  /\ run[m] \in Run /\ run[m].file \in 1..(Seed + 1) /\ run[m].unrecorded \in BOOLEAN
         /\ run[m].pc \in {"new", "done", "failed", "killed"} \cup Working
         /\ migrations \subseteq SqlFiles /\ applied \subseteq SqlFiles
         /\ volume \subseteq SqlFiles /\ disturbed \subseteq Runs /\ overlap \in BOOLEAN
BY DEF MigrateInv, MigrateTypeOK, Run

(* A run that works beside an undisturbed one is that one.                 *)
LEMMA AloneIfUndisturbed ==
  ASSUME MigrateInv, NEW m \in Active, NEW n \in Active, m \notin disturbed \/ n \notin disturbed \/ ~overlap
  PROVE  m = n
BY DEF MigrateInv, RunsAlone

LEMMA DetectKeeps ==
  ASSUME MigrateInv, NEW m \in Runs, DetectDocker(m)
  PROVE  MigrateInv'
<1>1. PICK pc \in {"baseline", "check"} :
        /\ pc = IF run[m].unrecorded /\ Telling \subseteq applied THEN "baseline" ELSE "check"
        /\ Goto(m, pc, 1) /\ run[m].pc = "detect"
  BY DEF DetectDocker
<1>2. UNCHANGED <<volume, applied, migrations, disturbed, overlap>>
  BY DEF DetectDocker
<1>3. /\ run' \in [Runs -> Run] /\ run'[m].pc = pc /\ run'[m].file = 1
      /\ \A n \in Runs \ {m} : run'[n] = run[n]
  BY <1>1, GotoFacts, MigrateFacts DEF Working
<1>4. Active' = Active /\ m \in Active
  BY <1>1, <1>3 DEF Active, Working
<1>5. MigrateTypeOK'
  BY <1>2, <1>3 DEF MigrateInv, MigrateTypeOK
<1>6. RunProgress'
  BY <1>1, <1>2, <1>3, MigrateFacts DEF MigrateInv, RunProgress
<1>7. AppliedAccounted'
  BY <1>1, <1>2, <1>3 DEF MigrateInv, AppliedAccounted
<1>8. ~overlap /\ pc = "baseline" => Telling \subseteq volume
  <2> SUFFICES ASSUME ~overlap, pc = "baseline" PROVE Telling \subseteq volume
    OBVIOUS
  <2>1. Telling \subseteq volume \cup {1} /\ (volume # {} => 1 \in volume)
    BY <1>1 DEF MigrateInv, AppliedAccounted, RunsAlone
  <2>2. PICK t \in Telling : t # 1  BY MigrateAssumption
  <2>3. QED  BY <2>1, <2>2
<1>9. RunsAlone'
  BY <1>1, <1>2, <1>3, <1>4, <1>8 DEF MigrateInv, RunsAlone
<1>10. Undisturbed'
  <2> SUFFICES ASSUME NEW n \in Active \ disturbed
               PROVE  /\ \A o \in Runs : run'[o].pc \notin {"failed", "killed"}
                      /\ run'[n].pc \in {"baseline", "check"}
                      /\ run'[n].pc = "check" /\ Telling \subseteq volume =>
                           SchemaFiles \subseteq migrations
    BY <1>2, <1>4 DEF Undisturbed
  <2>0. n = m  BY <1>4, AloneIfUndisturbed
  <2> SUFFICES ASSUME pc = "check", Telling \subseteq volume
               PROVE  SchemaFiles \subseteq migrations
    BY <1>1, <1>3, <1>4, <2>0 DEF MigrateInv, Undisturbed
  <2>1. Telling \subseteq applied  BY DEF MigrateInv, AppliedAccounted
  <2>2. ~run[m].unrecorded  BY <1>1, <2>1
  <2>3. QED  BY <1>1, <1>4, <2>0, <2>2 DEF MigrateInv, Undisturbed
<1>11. RunsEndWell'
  BY <1>1, <1>2, <1>3 DEF MigrateInv, RunsEndWell
<1>12. QED  BY <1>5, <1>6, <1>7, <1>9, <1>10, <1>11 DEF MigrateInv

LEMMA CountKeeps ==
  ASSUME MigrateInv, NEW m \in Runs, CountRecorded(m)
  PROVE  MigrateInv'
<1>1. /\ run[m].pc = "count"
      /\ run' = [run EXCEPT ![m].pc = "detect", ![m].unrecorded = (migrations = {})]
      /\ UNCHANGED <<volume, applied, migrations, disturbed, overlap>>
  BY DEF CountRecorded
<1>2. PICK un \in BOOLEAN : un = (migrations = {})
  OBVIOUS
<1>3. /\ run' \in [Runs -> Run] /\ run'[m].pc = "detect" /\ run'[m].unrecorded = un
      /\ \A n \in Runs \ {m} : run'[n] = run[n]
  <2>1. run \in [Runs -> Run] /\ run[m] \in Run  BY DEF MigrateInv, MigrateTypeOK
  <2>2. run' = [run EXCEPT ![m] = [run[m] EXCEPT !.pc = "detect", !.unrecorded = un]]
    BY <1>1, <1>2, <2>1
  <2>3. [run[m] EXCEPT !.pc = "detect", !.unrecorded = un] \in Run
    BY <2>1 DEF Run, Working
  <2>4. QED  BY <2>1, <2>2, <2>3 DEF Run
<1>4. Active' = Active /\ m \in Active
  BY <1>1, <1>3 DEF Active, Working
<1>5. MigrateTypeOK'
  BY <1>1, <1>3 DEF MigrateInv, MigrateTypeOK
<1>6. RunProgress'
  BY <1>1, <1>3 DEF MigrateInv, RunProgress
<1>7. AppliedAccounted'
  BY <1>1, <1>3 DEF MigrateInv, AppliedAccounted
<1>8. RunsAlone'
  BY <1>1, <1>2, <1>3, <1>4 DEF MigrateInv, RunsAlone
<1>9. Undisturbed'
  <2> SUFFICES ASSUME NEW n \in Active \ disturbed
               PROVE  /\ \A o \in Runs : run'[o].pc \notin {"failed", "killed"}
                      /\ run'[n].pc = "detect" /\ run'[n].unrecorded = (migrations = {})
                      /\ migrations = {} \/ SchemaFiles \subseteq migrations
    BY <1>1, <1>4 DEF Undisturbed
  <2>1. n = m  BY <1>4, AloneIfUndisturbed
  <2>2. QED  BY <1>1, <1>2, <1>3, <2>1 DEF MigrateInv, Undisturbed
<1>10. RunsEndWell'
  BY <1>1, <1>3 DEF MigrateInv, RunsEndWell
<1>11. QED  BY <1>5, <1>6, <1>7, <1>8, <1>9, <1>10 DEF MigrateInv

LEMMA BaselineKeeps ==
  ASSUME MigrateInv, NEW m \in Runs, Baseline(m)
  PROVE  MigrateInv'
<1>1. /\ run[m].pc = "baseline" /\ migrations' = migrations \cup {run[m].file}
      /\ UNCHANGED <<volume, applied, disturbed, overlap>>
  BY DEF Baseline
<1>2. PICK f \in SchemaFiles : f = run[m].file
  BY <1>1 DEF MigrateInv, RunProgress
<1>3. PICK pc \in {"baseline", "check"}, file \in 1..LastFile :
        /\ Goto(m, pc, file)
        /\ \/ f = LastFile /\ pc = "check" /\ file = 1
           \/ f # LastFile /\ pc = "baseline" /\ file = f + 1
  <2>1. 1 \in 1..LastFile /\ (f # LastFile => f + 1 \in 1..LastFile)
    BY MigrateFacts DEF SchemaFiles
  <2>2. QED  BY <1>2, <2>1 DEF Baseline
<1>4. file \in SchemaFiles /\ file \in 1..(Seed + 1)
  BY MigrateFacts DEF SchemaFiles
<1>5. /\ run' \in [Runs -> Run] /\ run'[m].pc = pc /\ run'[m].file = file
      /\ \A n \in Runs \ {m} : run'[n] = run[n]
  BY <1>3, <1>4, GotoFacts DEF Working
<1>6. Active' = Active /\ m \in Active
  BY <1>1, <1>5 DEF Active, Working
<1>7. /\ \A g \in SchemaFiles : g < file => g \in migrations'
      /\ pc = "check" => SchemaFiles \subseteq migrations'
  <2>1. \A g \in SchemaFiles : g < f => g \in migrations
    BY <1>1, <1>2 DEF MigrateInv, RunProgress
  <2>2. f \in Nat \ {0} /\ SchemaFiles \subseteq Nat \ {0}  BY MigrateFacts
  <2>3. migrations \subseteq migrations' /\ f \in migrations'  BY <1>1, <1>2
  <2>4. \A g \in SchemaFiles : g <= f => g < f \/ g = f  BY <2>2
  <2>5. \A g \in SchemaFiles : g <= f => g \in migrations'  BY <2>1, <2>3, <2>4
  <2>6. CASE f = LastFile /\ pc = "check" /\ file = 1
    <3>1. \A g \in SchemaFiles : g <= f /\ ~(g < 1)  BY <2>2, <2>6, MigrateFacts
    <3>2. QED  BY <2>5, <2>6, <3>1
  <2>7. CASE f # LastFile /\ pc = "baseline" /\ file = f + 1
    <3>1. \A g \in SchemaFiles : g < f + 1 => g <= f  BY <2>2
    <3>2. QED  BY <2>5, <2>7, <3>1
  <2>8. QED  BY <1>3, <2>6, <2>7
<1>8. MigrateTypeOK'
  BY <1>1, <1>2, <1>5, MigrateFacts DEF MigrateInv, MigrateTypeOK
<1>9. RunProgress'
  BY <1>1, <1>4, <1>5, <1>7 DEF MigrateInv, RunProgress
<1>10. AppliedAccounted'
  BY <1>1, <1>2, <1>3, <1>5 DEF MigrateInv, AppliedAccounted
<1>11. RunsAlone'
  <2>1. ~overlap => \A n \in Runs \ {m} : run[n].pc \notin {"detect", "baseline"}
    BY <1>6, AloneIfUndisturbed DEF Active, Working
  <2>2. ~overlap => \/ migrations' \subseteq applied
                    \/ Telling \subseteq volume /\ ~(SchemaFiles \subseteq volume)
    BY <1>1, <1>2 DEF MigrateInv, RunsAlone, AppliedAccounted
  <2>3. ~overlap => Telling \subseteq volume
    BY <1>1 DEF MigrateInv, RunsAlone
  <2>4. QED  BY <1>1, <1>5, <1>3, <1>6, <2>1, <2>2, <2>3 DEF MigrateInv, RunsAlone
<1>12. Undisturbed'
  <2> SUFFICES ASSUME NEW n \in Active \ disturbed
               PROVE  /\ \A o \in Runs : run'[o].pc \notin {"failed", "killed"}
                      /\ run'[n].pc \in {"baseline", "check"}
                      /\ run'[n].pc = "check" => SchemaFiles \subseteq migrations'
    BY <1>1, <1>6 DEF Undisturbed
  <2>1. n = m  BY <1>6, AloneIfUndisturbed
  <2>2. QED  BY <1>3, <1>5, <1>7, <2>1 DEF MigrateInv, Undisturbed
<1>13. RunsEndWell'
  BY <1>1, <1>3, <1>5 DEF MigrateInv, RunsEndWell
<1>14. QED  BY <1>8, <1>9, <1>10, <1>11, <1>12, <1>13 DEF MigrateInv

LEMMA CheckKeeps ==
  ASSUME MigrateInv, NEW m \in Runs, CheckFile(m)
  PROVE  MigrateInv'
<1>1. /\ run[m].pc = "check" /\ run[m].file \in SqlFiles
      /\ UNCHANGED <<volume, applied, migrations, disturbed, overlap>>
  BY DEF CheckFile
<1>2. PICK f \in SqlFiles : f = run[m].file
  BY <1>1
<1>3. PICK pc \in {"apply", "check"}, file \in 1..(Seed + 1) :
        /\ Goto(m, pc, file)
        /\ \/ pc = "apply" /\ file = f /\ f \notin migrations
           \/ pc = "check" /\ file = f + 1 /\ (f \in SchemaFiles => f \in migrations)
  BY <1>2, MigrateFacts DEF CheckFile, Wanted, SqlFiles
<1>4. /\ run' \in [Runs -> Run] /\ run'[m].pc = pc /\ run'[m].file = file
      /\ \A n \in Runs \ {m} : run'[n] = run[n]
  BY <1>3, GotoFacts DEF Working
<1>5. Active' = Active /\ m \in Active
  BY <1>1, <1>4 DEF Active, Working
<1>6. \A g \in SchemaFiles : g < file => g \in migrations
  <2>1. \A g \in SchemaFiles : g < f => g \in migrations
    BY <1>1, <1>2 DEF MigrateInv, RunProgress
  <2>2. f \in Nat /\ SchemaFiles \subseteq Nat  BY MigrateFacts DEF SqlFiles
  <2>3. \A g \in SchemaFiles : g < f + 1 => g < f \/ g = f  BY <2>2
  <2>4. CASE file = f  BY <2>1, <2>4
  <2>5. CASE file = f + 1 /\ (f \in SchemaFiles => f \in migrations)
    BY <2>1, <2>3, <2>5
  <2>6. QED  BY <1>3, <2>4, <2>5
<1>7. MigrateTypeOK'
  BY <1>1, <1>4 DEF MigrateInv, MigrateTypeOK
<1>8. RunProgress'
  BY <1>1, <1>3, <1>4, <1>6 DEF MigrateInv, RunProgress
<1>9. AppliedAccounted'
  BY <1>1, <1>4 DEF MigrateInv, AppliedAccounted
<1>10. RunsAlone'
  BY <1>1, <1>4, <1>5 DEF MigrateInv, RunsAlone
<1>11. Undisturbed'
  <2> SUFFICES ASSUME NEW n \in Active \ disturbed
               PROVE  /\ \A o \in Runs : run'[o].pc \notin {"failed", "killed"}
                      /\ run'[n].pc \in {"apply", "check"}
                      /\ run'[n].pc = "apply" => run'[n].file \notin migrations
                      /\ Telling \subseteq volume => SchemaFiles \subseteq migrations
    BY <1>1, <1>5 DEF Undisturbed
  <2>1. n = m  BY <1>5, AloneIfUndisturbed
  <2>2. QED  BY <1>1, <1>3, <1>4, <2>1 DEF MigrateInv, Undisturbed
<1>12. RunsEndWell'
  BY <1>1, <1>4 DEF MigrateInv, RunsEndWell
<1>13. QED  BY <1>7, <1>8, <1>9, <1>10, <1>11, <1>12 DEF MigrateInv

LEMMA ApplyKeeps ==
  ASSUME MigrateInv, NEW m \in Runs, ApplyFile(m)
  PROVE  MigrateInv'
<1>1. /\ run[m].pc = "apply" /\ applied' = applied \cup {run[m].file}
      /\ UNCHANGED <<volume, migrations, disturbed, overlap>>
      /\ Goto(m, "record", run[m].file)
  BY DEF ApplyFile
<1>2. PICK f \in SqlFiles : f = run[m].file
  BY <1>1 DEF MigrateInv, RunProgress
<1>3. /\ run' \in [Runs -> Run] /\ run'[m].pc = "record" /\ run'[m].file = f
      /\ \A n \in Runs \ {m} : run'[n] = run[n]
  BY <1>1, <1>2, RunTypes, GotoFacts DEF Working
<1>4. Active' = Active /\ m \in Active
  BY <1>1, <1>3 DEF Active, Working
<1>5. MigrateTypeOK'
  BY <1>1, <1>2, <1>3 DEF MigrateInv, MigrateTypeOK
<1>6. RunProgress'
  BY <1>1, <1>2, <1>3 DEF MigrateInv, RunProgress
<1>7. migrations = {} => f = 1
  <2>1. \A g \in SchemaFiles : g < f => g \in migrations
    BY <1>1, <1>2 DEF MigrateInv, RunProgress
  <2>2. f \in Nat \ {0} /\ 1 \in SchemaFiles  BY MigrateFacts DEF SqlFiles
  <2>3. f # 1 => 1 < f  BY <2>2
  <2>4. QED  BY <2>1, <2>2, <2>3
<1>8. AppliedAccounted'
  BY <1>1, <1>2, <1>3, <1>7 DEF MigrateInv, AppliedAccounted
<1>9. RunsAlone'
  BY <1>1, <1>3, <1>4 DEF MigrateInv, RunsAlone
<1>10. Undisturbed'
  <2> SUFFICES ASSUME NEW n \in Active \ disturbed
               PROVE  /\ \A o \in Runs : run'[o].pc \notin {"failed", "killed"}
                      /\ run'[n].pc = "record" /\ run'[n].file \notin migrations
                      /\ Telling \subseteq volume => SchemaFiles \subseteq migrations
    BY <1>1, <1>4 DEF Undisturbed
  <2>1. n = m  BY <1>4, AloneIfUndisturbed
  <2>2. QED  BY <1>1, <1>2, <1>3, <2>1 DEF MigrateInv, Undisturbed
<1>11. RunsEndWell'
  BY <1>1, <1>3 DEF MigrateInv, RunsEndWell
<1>12. QED  BY <1>5, <1>6, <1>8, <1>9, <1>10, <1>11 DEF MigrateInv

LEMMA RecordKeeps ==
  ASSUME MigrateInv, NEW m \in Runs, RecordFile(m)
  PROVE  MigrateInv'
<1>1. /\ run[m].pc = "record" /\ migrations' = migrations \cup {run[m].file}
      /\ UNCHANGED <<volume, applied, disturbed, overlap>>
      /\ Goto(m, "check", run[m].file + 1)
  BY DEF RecordFile
<1>2. PICK f \in SqlFiles : f = run[m].file /\ f \in applied
  BY <1>1 DEF MigrateInv, RunProgress
<1>3. f + 1 \in 1..(Seed + 1)
  BY MigrateFacts DEF SqlFiles
<1>4. /\ run' \in [Runs -> Run] /\ run'[m].pc = "check" /\ run'[m].file = f + 1
      /\ \A n \in Runs \ {m} : run'[n] = run[n]
  BY <1>1, <1>2, <1>3, GotoFacts DEF Working
<1>5. Active' = Active /\ m \in Active
  BY <1>1, <1>4 DEF Active, Working
<1>6. MigrateTypeOK'
  BY <1>1, <1>2, <1>4 DEF MigrateInv, MigrateTypeOK
<1>7. \A g \in SchemaFiles : g < f + 1 => g \in migrations'
  <2>1. \A g \in SchemaFiles : g < f => g \in migrations
    BY <1>1, <1>2 DEF MigrateInv, RunProgress
  <2>2. f \in Nat \ {0} /\ SchemaFiles \subseteq Nat  BY MigrateFacts DEF SqlFiles
  <2>3. migrations \subseteq migrations' /\ f \in migrations'  BY <1>1, <1>2
  <2>4. \A g \in SchemaFiles : g < f + 1 => g < f \/ g = f  BY <2>2
  <2>5. QED  BY <2>1, <2>3, <2>4
<1>8. RunProgress'
  BY <1>1, <1>4, <1>7 DEF MigrateInv, RunProgress
<1>9. AppliedAccounted'
  BY <1>1, <1>2, <1>4 DEF MigrateInv, AppliedAccounted
<1>10. RunsAlone'
  <2>1. ~overlap => \A n \in Runs \ {m} : run[n].pc \notin {"detect", "baseline"}
    BY <1>5, AloneIfUndisturbed DEF Active, Working
  <2>2. QED  BY <1>1, <1>2, <1>4, <1>5, <2>1 DEF MigrateInv, RunsAlone
<1>11. Undisturbed'
  <2> SUFFICES ASSUME NEW n \in Active \ disturbed
               PROVE  /\ \A o \in Runs : run'[o].pc \notin {"failed", "killed"}
                      /\ run'[n].pc = "check"
                      /\ Telling \subseteq volume => SchemaFiles \subseteq migrations'
    BY <1>1, <1>5 DEF Undisturbed
  <2>1. n = m  BY <1>5, AloneIfUndisturbed
  <2>2. QED  BY <1>1, <1>4, <2>1 DEF MigrateInv, Undisturbed
<1>12. RunsEndWell'
  BY <1>1, <1>4 DEF MigrateInv, RunsEndWell
<1>13. QED  BY <1>6, <1>8, <1>9, <1>10, <1>11, <1>12 DEF MigrateInv

LEMMA FinishKeeps ==
  ASSUME MigrateInv, NEW m \in Runs, Finish(m)
  PROVE  MigrateInv'
<1>1. /\ run[m].pc = "check" /\ run[m].file > Seed /\ Goto(m, "done", run[m].file)
      /\ UNCHANGED <<volume, applied, migrations, disturbed, overlap>>
  BY DEF Finish
<1>2. /\ run' \in [Runs -> Run] /\ run'[m].pc = "done"
      /\ \A n \in Runs \ {m} : run'[n] = run[n]
  BY <1>1, RunTypes, GotoFacts
<1>3. Active' = Active \ {m} /\ m \in Active
  BY <1>1, <1>2 DEF Active, Working
<1>4. MigrateTypeOK'
  BY <1>1, <1>2 DEF MigrateInv, MigrateTypeOK
<1>5. SchemaFiles \subseteq migrations
  BY <1>1, MigrateFacts, RunTypes DEF MigrateInv, RunProgress
<1>6. RunProgress'
  BY <1>1, <1>2, <1>5 DEF MigrateInv, RunProgress
<1>7. AppliedAccounted'
  BY <1>1, <1>2 DEF MigrateInv, AppliedAccounted
<1>8. RunsAlone'
  BY <1>1, <1>2, <1>3 DEF MigrateInv, RunsAlone
<1>9. Undisturbed'
  <2>1. \A n \in Active \ {m} : n \in disturbed
    BY <1>3, AloneIfUndisturbed
  <2>2. QED  BY <1>1, <1>3, <2>1 DEF Undisturbed
<1>10. RunsEndWell'
  BY <1>1, <1>2, <1>5 DEF MigrateInv, RunsEndWell
<1>11. QED  BY <1>4, <1>6, <1>7, <1>8, <1>9, <1>10 DEF MigrateInv

(* A run that fails or is killed had another beside it, or was disturbed.  *)
LEMMA StopKeeps ==
  ASSUME MigrateInv, NEW m \in Active, NEW pc \in {"failed", "killed"},
         Goto(m, pc, run[m].file), UNCHANGED <<volume, applied, migrations, overlap>>,
         pc = "failed" => /\ m \in disturbed \/ (volume # {} /\ ~(Telling \subseteq volume))
                          /\ disturbed' = disturbed /\ run[m].pc \in {"apply", "record"},
         pc = "failed" => (run[m].pc = "record" => run[m].file \in migrations),
         pc = "killed" => disturbed' = disturbed \cup {m}
  PROVE  MigrateInv'
<1>1. m \in Runs  BY DEF Active
<1>2. /\ run' \in [Runs -> Run] /\ run'[m].pc = pc
      /\ \A n \in Runs \ {m} : run'[n] = run[n]
  BY <1>1, RunTypes, GotoFacts
<1>3. Active' = Active \ {m}
  BY <1>1, <1>2 DEF Active, Working
<1>4. disturbed' \subseteq Runs /\ disturbed \subseteq disturbed'
  BY <1>1 DEF MigrateInv, MigrateTypeOK
<1>5. MigrateTypeOK'
  BY <1>2, <1>4 DEF MigrateInv, MigrateTypeOK
<1>6. RunProgress'
  BY <1>2 DEF MigrateInv, RunProgress
<1>7. AppliedAccounted'
  <2>1. ASSUME NEW f \in applied
        PROVE  \/ f \in volume \cup migrations
               \/ \E n \in Runs : run'[n].pc = "record" /\ run'[n].file = f
               \/ \E n \in Runs : run'[n].pc = "killed"
    BY <1>1, <1>2, <2>1 DEF MigrateInv, AppliedAccounted
  <2>2. QED  BY <1>1, <1>2, <2>1 DEF MigrateInv, AppliedAccounted, Active, Working
<1>8. RunsAlone'
  BY <1>2, <1>3, <1>4 DEF MigrateInv, RunsAlone
<1>9. Undisturbed'
  <2>1. Active \ {m} \subseteq disturbed
    BY AloneIfUndisturbed
  <2>2. QED  BY <1>3, <1>4, <2>1 DEF Undisturbed
<1>10. RunsEndWell'
  BY <1>1, <1>2, <1>4 DEF MigrateInv, RunsEndWell
<1>11. QED  BY <1>5, <1>6, <1>7, <1>8, <1>9, <1>10 DEF MigrateInv

LEMMA FailsKeeps ==
  ASSUME MigrateInv, NEW m \in Runs, RunFails(m)
  PROVE  MigrateInv'
<1>1. /\ \/ run[m].pc = "apply" /\ run[m].file \in Fragile \cap applied
         \/ run[m].pc = "record" /\ run[m].file \in migrations
      /\ Goto(m, "failed", run[m].file)
      /\ UNCHANGED <<volume, applied, migrations, disturbed, overlap>>
  BY DEF RunFails
<1>2. m \in Active  BY <1>1 DEF Active, Working
<1>3. ASSUME m \notin disturbed
      PROVE  volume # {} /\ ~(Telling \subseteq volume)
  <2>1. run[m].file \notin migrations
    BY <1>1, <1>2, <1>3 DEF MigrateInv, Undisturbed
  <2>2. run[m].pc = "apply" /\ run[m].file \in SchemaFiles /\ run[m].file \in applied
    BY <1>1, <2>1, MigrateFacts
  <2>3. \A n \in Runs : run[n].pc # "killed" /\ run[n].pc # "record"
    BY <1>2, <1>3, <2>2, AloneIfUndisturbed DEF MigrateInv, Undisturbed, Active, Working
  <2>4. run[m].file \in volume
    BY <2>1, <2>2, <2>3 DEF MigrateInv, AppliedAccounted
  <2>5. ~(Telling \subseteq volume)
    BY <1>2, <1>3, <2>1, <2>2 DEF MigrateInv, Undisturbed
  <2>6. QED  BY <2>4, <2>5
<1>4. QED  BY <1>1, <1>2, <1>3, StopKeeps

LEMMA KilledKeeps ==
  ASSUME MigrateInv, NEW m \in Runs, RunKilled(m)
  PROVE  MigrateInv'
<1>1. /\ m \in Active /\ Goto(m, "killed", run[m].file) /\ disturbed' = disturbed \cup {m}
      /\ UNCHANGED <<volume, applied, migrations, overlap>>
  BY DEF RunKilled, Active
<1>2. QED  BY <1>1, StopKeeps

LEMMA StartKeeps ==
  ASSUME MigrateInv, NEW m \in Runs, NEW seed \in BOOLEAN, StartRun(m, seed)
  PROVE  MigrateInv'
<1>1. /\ run[m].pc = "new"
      /\ run' = [run EXCEPT ![m].pc = "count", ![m].seed = seed]
      /\ UNCHANGED <<volume, applied, migrations>>
      /\ overlap' = (overlap \/ Active # {})
  BY DEF StartRun
<1>2. /\ run' \in [Runs -> Run] /\ run'[m].pc = "count"
      /\ \A n \in Runs \ {m} : run'[n] = run[n]
  <2>1. run \in [Runs -> Run] /\ run[m] \in Run  BY DEF MigrateInv, MigrateTypeOK
  <2>2. run' = [run EXCEPT ![m] = [run[m] EXCEPT !.pc = "count", !.seed = seed]]
    BY <1>1, <2>1
  <2>3. [run[m] EXCEPT !.pc = "count", !.seed = seed] \in Run
    BY <2>1 DEF Run, Working
  <2>4. QED  BY <2>1, <2>2, <2>3 DEF Run
<1>3. Active' = Active \cup {m} /\ m \notin Active
  BY <1>1, <1>2 DEF Active, Working
<1>4. /\ disturbed \subseteq disturbed' /\ disturbed' \subseteq Runs
      /\ Active # {} => Active \cup {m} \subseteq disturbed'
      /\ (\E n \in Runs : run[n].pc \in {"failed", "killed"}) => m \in disturbed'
  BY DEF StartRun, MigrateInv, MigrateTypeOK, Active
<1>5. MigrateTypeOK'
  BY <1>1, <1>2, <1>4 DEF MigrateInv, MigrateTypeOK
<1>6. RunProgress'
  BY <1>1, <1>2 DEF MigrateInv, RunProgress
<1>7. AppliedAccounted'
  BY <1>1, <1>2 DEF MigrateInv, AppliedAccounted
<1>8. RunsAlone'
  <2>1. ~overlap' => Active' = {m} /\ ~overlap
    BY <1>1, <1>3, RunTypes
  <2>2. \A n, o \in Active' : n = o \/ {n, o} \subseteq disturbed'
    BY <1>3, <1>4 DEF MigrateInv, RunsAlone
  <2>3. ~overlap' => \A n \in Runs : run'[n].pc \notin {"detect", "baseline"}
    BY <1>2, <2>1 DEF Active, Working
  <2>4. QED  BY <1>1, <2>1, <2>2, <2>3 DEF MigrateInv, RunsAlone
<1>9. Undisturbed'
  <2> SUFFICES ASSUME NEW n \in Active' \ disturbed'
               PROVE  /\ n = m /\ \A o \in Runs : run'[o].pc \notin {"failed", "killed"}
                      /\ migrations = {} \/ SchemaFiles \subseteq migrations
    BY <1>1, <1>2 DEF Undisturbed
  <2>1. Active = {} /\ n = m  BY <1>3, <1>4
  <2>2. \A o \in Runs : run[o].pc \in {"new", "done"}
    BY <1>4, <2>1, RunTypes DEF Active
  <2>3. migrations = {} \/ SchemaFiles \subseteq migrations
    BY <2>2 DEF MigrateInv, RunProgress, AppliedAccounted
  <2>4. QED  BY <1>2, <2>1, <2>2, <2>3
<1>10. RunsEndWell'
  BY <1>1, <1>2, <1>4 DEF MigrateInv, RunsEndWell
<1>11. QED  BY <1>5, <1>6, <1>7, <1>8, <1>9, <1>10 DEF MigrateInv

LEMMA MigrateNextKeeps ==
  ASSUME MigrateInv, [MigrateNext]_migrateVars
  PROVE  MigrateInv'
<1>1. CASE UNCHANGED migrateVars
  BY <1>1 DEF migrateVars, MigrateInv, MigrateTypeOK, RunProgress, AppliedAccounted, RunsAlone,
       Undisturbed, RunsEndWell, Active
<1>2. QED
  BY <1>1, StartKeeps, CountKeeps, DetectKeeps, BaselineKeeps, CheckKeeps, ApplyKeeps,
     RecordKeeps, FinishKeeps, FailsKeeps, KilledKeeps DEF MigrateNext

LEMMA MigrateInitHolds ==
  ASSUME MigrateInit
  PROVE  MigrateInv
<1>1. /\ run \in [Runs -> Run] /\ \A m \in Runs : run[m].pc = "new"
      /\ Active = {} /\ applied = volume /\ migrations = {} /\ disturbed = {} /\ overlap = FALSE
  BY MigrateFacts DEF MigrateInit, Run, Active, Working
<1>2. volume \subseteq SqlFiles /\ (volume # {} => 1 \in volume)
  <2>1. CASE volume = {}  BY <2>1
  <2>2. ASSUME NEW n \in SchemaFiles, volume = 1..n PROVE volume \subseteq SqlFiles /\ 1 \in volume
    BY <2>2, MigrateFacts DEF SchemaFiles, SqlFiles
  <2>3. CASE volume = SqlFiles  BY <2>3, MigrateFacts
  <2>4. QED  BY <2>1, <2>2, <2>3 DEF MigrateInit
<1>3. QED
  BY <1>1, <1>2 DEF MigrateInv, MigrateTypeOK, RunProgress, AppliedAccounted, RunsAlone,
       Undisturbed, RunsEndWell

(* What the script has recorded is applied, and a run that ends well       *)
(* leaves nothing unrecorded, with the exceptions that the property names  *)
(* (scripts/migrate.sh).                                                   *)
THEOREM MigrationsAreTrue == MigrateSpec => []MigrationsTrue
<1>1. MigrateInv => MigrationsTrue
  BY DEF MigrateInv, RunsAlone, MigrationsTrue, RecordedApplied
<1>2. QED  BY <1>1, MigrateInitHolds, MigrateNextKeeps, PTL DEF MigrateSpec

LEMMA MigrateTyped == MigrateSpec => []MigrateTypeOK
<1>1. MigrateInv => MigrateTypeOK  BY DEF MigrateInv
<1>2. QED  BY <1>1, MigrateInitHolds, MigrateNextKeeps, PTL DEF MigrateSpec

----------------------------------------------------------------------------
(* Metrics: a snapshot adds up, and has what its workers have.             *)

(* A sum over a set takes its elements one after the other.                *)
Picked(s) == CHOOSE x \in s : TRUE
Rest(s) == s \ {Picked(s)}
SumStep(f, S, g) == [s \in SUBSET S |-> IF s = {} THEN 0 ELSE f[Picked(s)] + g[Rest(s)]]
SumOf(f, S) == CHOOSE g : g = SumStep(f, S, g)

(* A sum is the value of the recursive function that the fold defines.     *)
LEMMA SumIsOf ==
  ASSUME NEW f, NEW S
  PROVE  SumFunctionOnSet(f, S) = SumOf(f, S)[S]
  BY DEF SumFunctionOnSet, FoldFunctionOnSet, MapThenFoldSet, SumOf, SumStep, Picked, Rest

Summands(S) == [S -> Nat]

(* What is added up, and how one summand follows from others.              *)
Summand(f, S) == \A x \in S : f[x] \in Nat
IsPlus(p, f, h, S) == \A x \in S : p[x] = f[x] + h[x]
OnlyAt(f, S, x, k) == \A y \in S : f[y] = IF y = x THEN k ELSE 0

(* A set without the element that is picked has one element less.          *)
LEMMA RestSmaller ==
  ASSUME NEW S, IsFiniteSet(S), NEW s \in SUBSET S, s # {}
  PROVE  /\ Picked(s) \in s /\ Rest(s) \in SUBSET S
         /\ Cardinality(s) \in Nat /\ Cardinality(Rest(s)) \in Nat
         /\ Cardinality(Rest(s)) = Cardinality(s) - 1
<1>1. Picked(s) \in s
  BY DEF Picked
<1>2. IsFiniteSet(s)
  BY FS_Subset
<1>3. Cardinality(Rest(s)) = Cardinality(s) - 1 /\ IsFiniteSet(Rest(s))
  BY <1>1, <1>2, FS_RemoveElement DEF Rest
<1>4. Cardinality(s) \in Nat /\ Cardinality(Rest(s)) \in Nat
  BY <1>2, <1>3, FS_CardinalityType
<1>5. QED
  BY <1>1, <1>3, <1>4 DEF Rest

(* Such a function exists: up to any number of elements, by induction.     *)
SumsTo(f, S, g, n) ==
  \A s \in SUBSET S : Cardinality(s) <= n =>
    g[s] = IF s = {} THEN 0 ELSE f[Picked(s)] + g[Rest(s)]

Totals(S) == [SUBSET S -> Nat]

(* There is a function that adds up, so the one that is chosen does: a     *)
(* smallest set for which there were none would give one.                  *)
LEMMA SumExists ==
  ASSUME NEW S, IsFiniteSet(S), NEW f, Summand(f, S)
  PROVE  \E g \in Totals(S) : g = SumStep(f, S, g)
<1> DEFINE SumsUpto(n) == \E g \in [SUBSET S -> Nat] : SumsTo(f, S, g, n)
           bad == {n \in Nat : ~SumsUpto(n)}
<1>s. \A s \in SUBSET S : Cardinality(s) \in Nat /\ (Cardinality(s) = 0 <=> s = {})
  BY FS_Subset, FS_CardinalityType, FS_EmptySet
<1>1. SumsUpto(0)
  <2> DEFINE zero == [s \in SUBSET S |-> 0]
  <2>1. zero \in [SUBSET S -> Nat]
    OBVIOUS
  <2>2. SumsTo(f, S, zero, 0)
    BY <1>s DEF SumsTo
  <2>3. QED
    BY <2>1, <2>2
<1>2. ASSUME NEW n \in Nat, SumsUpto(n)
      PROVE  SumsUpto(n + 1)
  <2>1. PICK g \in [SUBSET S -> Nat] : SumsTo(f, S, g, n)
    BY <1>2
  <2> DEFINE next == [s \in SUBSET S |-> IF s = {} THEN 0 ELSE f[Picked(s)] + g[Rest(s)]]
  <2>2. \A s \in SUBSET S : s # {} => f[Picked(s)] \in Nat /\ g[Rest(s)] \in Nat
    BY RestSmaller DEF Summand
  <2>3. next \in [SUBSET S -> Nat]
    BY <2>2
  <2>4. \A s \in SUBSET S : Cardinality(s) <= n => next[s] = g[s]
    BY <2>1 DEF SumsTo
  <2>5. ASSUME NEW s \in SUBSET S, Cardinality(s) <= n + 1
        PROVE  next[s] = IF s = {} THEN 0 ELSE f[Picked(s)] + next[Rest(s)]
    <3>1. CASE s = {}
      BY <3>1
    <3>2. CASE s # {}
      <4>1. Rest(s) \in SUBSET S /\ Cardinality(Rest(s)) <= n
        BY <2>5, <3>2, RestSmaller
      <4>2. next[Rest(s)] = g[Rest(s)]
        BY <2>4, <4>1
      <4>3. next[s] = f[Picked(s)] + g[Rest(s)]
        BY <3>2
      <4> HIDE DEF next
      <4>4. QED
        BY <3>2, <4>2, <4>3
    <3>3. QED
      BY <3>1, <3>2
  <2> HIDE DEF next
  <2>6. SumsTo(f, S, next, n + 1)
    BY <2>5 DEF SumsTo
  <2>7. QED
    BY <2>3, <2>6
<1> HIDE DEF SumsUpto
<1>3. bad = {}
  <2> SUFFICES ASSUME bad # {}
               PROVE  FALSE
    OBVIOUS
  <2>1. PICK t \in bad : \A u \in bad : t <= u
    BY LeastNumber
  <2>2. t \in Nat /\ t # 0
    BY <1>1
  <2>3. t - 1 \in Nat /\ t - 1 \notin bad
    BY <2>1, <2>2
  <2>4. SumsUpto(t - 1)
    BY <2>3
  <2>5. SumsUpto((t - 1) + 1)
    BY <1>2, <2>3, <2>4
  <2>6. (t - 1) + 1 = t
    BY <2>2
  <2>7. QED
    BY <2>5, <2>6
<1>4. Cardinality(S) \in Nat
  BY FS_CardinalityType
<1>5. SumsUpto(Cardinality(S))
  BY <1>3, <1>4
<1>6. PICK g \in [SUBSET S -> Nat] : SumsTo(f, S, g, Cardinality(S))
  BY <1>5 DEF SumsUpto
<1>7. \A s \in SUBSET S : Cardinality(s) <= Cardinality(S)
  BY FS_Subset
<1>8. \A s \in SUBSET S : g[s] = IF s = {} THEN 0 ELSE f[Picked(s)] + g[Rest(s)]
  BY <1>6, <1>7 DEF SumsTo
<1>9. g = SumStep(f, S, g)
  BY <1>8 DEF SumStep
<1>10. QED
  BY <1>9 DEF Totals

(* Whatever adds up like the sum is the sum.                               *)
AddsUp(f, S, e) ==
  /\ e[{}] = 0
  /\ \A s \in SUBSET S : s # {} => e[s] = f[Picked(s)] + e[Rest(s)]

(* There is no other: two would differ first at a smallest set.            *)
LEMMA SumUnique ==
  ASSUME NEW S, IsFiniteSet(S), NEW f, Summand(f, S),
         NEW e, AddsUp(f, S, e)
  PROVE  SumFunctionOnSet(f, S) = e[S]
<1> DEFINE g == SumOf(f, S)
           bad == {n \in Nat : \E s \in SUBSET S : Cardinality(s) = n /\ g[s] # e[s]}
<1>1. g = SumStep(f, S, g)
  BY SumExists DEF SumOf
<1>2. \A s \in SUBSET S : g[s] = IF s = {} THEN 0 ELSE f[Picked(s)] + g[Rest(s)]
  BY <1>1 DEF SumStep
<1> HIDE DEF g
<1>3. bad = {}
  <2> SUFFICES ASSUME bad # {}
               PROVE  FALSE
    OBVIOUS
  <2>1. PICK n \in bad : \A u \in bad : n <= u
    <3>1. bad \in SUBSET Nat
      OBVIOUS
    <3> HIDE DEF bad
    <3>2. QED
      BY <3>1, LeastNumber
  <2>2. PICK s \in SUBSET S : Cardinality(s) = n /\ g[s] # e[s]
    OBVIOUS
  <2>3. s # {}
    BY <1>2, <2>2 DEF AddsUp
  <2>4. /\ Rest(s) \in SUBSET S /\ Cardinality(Rest(s)) \in Nat
        /\ Cardinality(Rest(s)) = n - 1 /\ n \in Nat
    BY <2>2, <2>3, RestSmaller
  <2>5. Cardinality(Rest(s)) \notin bad
    <3>1. ~(n <= n - 1)
      BY <2>4
    <3> HIDE DEF bad
    <3>2. QED
      BY <2>1, <2>4, <3>1
  <2>6. g[Rest(s)] = e[Rest(s)]
    BY <2>4, <2>5
  <2>7. QED
    BY <1>2, <2>2, <2>3, <2>6 DEF AddsUp
<1>4. Cardinality(S) \in Nat
  BY FS_CardinalityType
<1>5. g[S] = e[S]
  BY <1>3, <1>4
<1>6. QED
  BY <1>5, SumIsOf DEF g

(* So a sum is what remains without any element, plus this element.        *)
LEMMA SumAddsUp ==
  ASSUME NEW S, IsFiniteSet(S), NEW f, Summand(f, S)
  PROVE  \E e \in Totals(S) : AddsUp(f, S, e) /\ SumFunctionOnSet(f, S) = e[S]
<1>1. PICK e \in Totals(S) : e = SumStep(f, S, e)
  BY SumExists
<1>2. \A s \in SUBSET S : e[s] = IF s = {} THEN 0 ELSE f[Picked(s)] + e[Rest(s)]
  BY <1>1 DEF SumStep
<1>3. AddsUp(f, S, e)
  BY <1>2 DEF AddsUp
<1>4. QED
  BY <1>3, SumUnique

(* The sum of sums, and of a function that is zero but for one argument.   *)
LEMMA SumPlus ==
  ASSUME NEW S, IsFiniteSet(S), NEW f, Summand(f, S), NEW h, Summand(h, S),
         NEW p, IsPlus(p, f, h, S)
  PROVE  /\ SumFunctionOnSet(f, S) \in Nat /\ SumFunctionOnSet(h, S) \in Nat
         /\ SumFunctionOnSet(p, S) = SumFunctionOnSet(f, S) + SumFunctionOnSet(h, S)
<1>1. PICK a \in Totals(S) : AddsUp(f, S, a) /\ SumFunctionOnSet(f, S) = a[S]
  BY SumAddsUp
<1>2. PICK b \in Totals(S) : AddsUp(h, S, b) /\ SumFunctionOnSet(h, S) = b[S]
  BY SumAddsUp
<1> DEFINE e == [s \in SUBSET S |-> a[s] + b[s]]
<1>3. e[{}] = 0
  BY <1>1, <1>2 DEF AddsUp
<1>4. ASSUME NEW s \in SUBSET S, s # {}
      PROVE  e[s] = p[Picked(s)] + e[Rest(s)]
  <2>1. Picked(s) \in S /\ Rest(s) \in SUBSET S
    BY <1>4, RestSmaller
  <2>2. a[s] = f[Picked(s)] + a[Rest(s)] /\ b[s] = h[Picked(s)] + b[Rest(s)]
    BY <1>1, <1>2, <1>4 DEF AddsUp
  <2>3. p[Picked(s)] = f[Picked(s)] + h[Picked(s)]
    BY <2>1 DEF IsPlus
  <2>4. /\ f[Picked(s)] \in Nat /\ h[Picked(s)] \in Nat
        /\ a[Rest(s)] \in Nat /\ b[Rest(s)] \in Nat
    BY <2>1 DEF Totals, Summand
  <2>5. e[s] = a[s] + b[s] /\ e[Rest(s)] = a[Rest(s)] + b[Rest(s)]
    BY <2>1
  <2> HIDE DEF e
  <2>6. QED
    BY <2>2, <2>3, <2>4, <2>5
<1>5. AddsUp(p, S, e)
  <2> HIDE DEF e
  <2>1. QED
    BY <1>3, <1>4 DEF AddsUp
<1>6. SumFunctionOnSet(p, S) = e[S]
  <2> HIDE DEF e
  <2>0. Summand(p, S)
    BY DEF Summand, IsPlus
  <2>1. QED
    BY <1>5, <2>0, SumUnique
<1>7. QED
  BY <1>1, <1>2, <1>6 DEF Totals

(* The sums of a function that is zero but at one place, or everywhere.    *)
LEMMA SumOfOne ==
  ASSUME NEW S, IsFiniteSet(S), NEW f, NEW x \in S, NEW k \in Nat, OnlyAt(f, S, x, k)
  PROVE  SumFunctionOnSet(f, S) = k
<1> DEFINE e == [s \in SUBSET S |-> IF x \in s THEN k ELSE 0]
<1>1. ASSUME NEW s \in SUBSET S, s # {}
      PROVE  e[s] = f[Picked(s)] + e[Rest(s)]
  <2>1. Picked(s) \in s /\ Picked(s) \in S /\ Rest(s) \in SUBSET S
    BY <1>1, RestSmaller
  <2>2. f[Picked(s)] = IF Picked(s) = x THEN k ELSE 0
    BY <2>1 DEF OnlyAt
  <2>3. x \in Rest(s) <=> x \in s /\ Picked(s) # x
    BY DEF Rest
  <2>4. e[s] = (IF x \in s THEN k ELSE 0) /\ e[Rest(s)] = IF x \in Rest(s) THEN k ELSE 0
    BY <2>1
  <2> HIDE DEF e
  <2>5. QED
    BY <2>1, <2>2, <2>3, <2>4
<1>2. e[{}] = 0 /\ e[S] = k
  OBVIOUS
<1> HIDE DEF e
<1>3. AddsUp(f, S, e)
  BY <1>1, <1>2 DEF AddsUp
<1>4. Summand(f, S)
  BY DEF Summand, OnlyAt
<1>5. QED
  BY <1>2, <1>3, <1>4, SumUnique

LEMMA SumOfZeros ==
  ASSUME NEW S, IsFiniteSet(S), NEW f, \A y \in S : f[y] = 0
  PROVE  SumFunctionOnSet(f, S) = 0
<1> DEFINE e == [s \in SUBSET S |-> 0]
<1>1. AddsUp(f, S, e)
  BY RestSmaller DEF AddsUp
<1>2. e[S] = 0
  OBVIOUS
<1>3. Summand(f, S)
  BY DEF Summand
<1> HIDE DEF e
<1>4. QED
  BY <1>1, <1>2, <1>3, SumUnique

(* What changes at one argument changes the sum by as much.                *)
LEMMA SumChanges ==
  ASSUME NEW S, IsFiniteSet(S), NEW f \in Summands(S), NEW p \in S, NEW v \in Nat
  PROVE  /\ SumFunctionOnSet(f, S) \in Nat /\ f[p] <= SumFunctionOnSet(f, S)
         /\ SumFunctionOnSet([f EXCEPT ![p] = v], S) + f[p] = SumFunctionOnSet(f, S) + v
<1> DEFINE others == [f EXCEPT ![p] = 0]
           before == [x \in S |-> IF x = p THEN f[p] ELSE 0]
           after == [x \in S |-> IF x = p THEN v ELSE 0]
           new == [f EXCEPT ![p] = v]
<1>1. /\ others \in [S -> Nat] /\ before \in [S -> Nat]
      /\ after \in [S -> Nat] /\ new \in [S -> Nat]
      /\ f[p] \in Nat
  BY DEF Summands
<1>2. /\ IsPlus(f, others, before, S) /\ IsPlus(new, others, after, S)
      /\ Summand(others, S) /\ Summand(before, S) /\ Summand(after, S)
      /\ OnlyAt(before, S, p, f[p]) /\ OnlyAt(after, S, p, v)
  BY DEF IsPlus, Summand, OnlyAt, Summands
<1> HIDE DEF others, before, after, new
<1>3. SumFunctionOnSet(before, S) = f[p] /\ SumFunctionOnSet(after, S) = v
  BY <1>1, <1>2, SumOfOne
<1>4. /\ SumFunctionOnSet(others, S) \in Nat
      /\ SumFunctionOnSet(f, S) = SumFunctionOnSet(others, S) + SumFunctionOnSet(before, S)
  BY <1>1, <1>2, SumPlus
<1>5. SumFunctionOnSet(new, S) = SumFunctionOnSet(others, S) + SumFunctionOnSet(after, S)
  BY <1>1, <1>2, SumPlus
<1>6. SumFunctionOnSet(new, S) = SumFunctionOnSet([f EXCEPT ![p] = v], S)
  BY DEF new
<1>7. QED
  BY <1>1, <1>3, <1>4, <1>5, <1>6

----------------------------------------------------------------------------
(* Every set of counters that there is is balanced; a snapshot that is not *)
(* merged yet is of what is stored, and misses nothing that its process    *)
(* still has; and every request is stored, forgotten or in a process.      *)
Counters == [CounterKeys -> Nat]
Balanced(counts) == counts[TotalKey] = SumFunctionOnSet(counts, Buckets)
InProcess == [p \in Workers |-> fallback[p][TotalKey]]

AllBalanced ==
  /\ Balanced(stored)
  /\ \A p \in Workers : Balanced(fallback[p]) /\ Balanced(snapshot[p].counts)

SnapshotsCount ==
  \A p \in Workers :
    LET count == snapshot[p].counts[TotalKey]
    IN  /\ snapshot[p].pc = "read" =>
             /\ count <= stored[TotalKey]
             /\ snapshot[p].atLeast <= count + fallback[p][TotalKey]
        /\ snapshot[p].pc = "done" => count \in snapshot[p].atLeast..recorded

MetricsInv ==
  /\ MetricsTypeOK
  /\ AllBalanced
  /\ SnapshotsCount
  /\ recorded = stored[TotalKey] + forgotten + SumFunctionOnSet(InProcess, Workers)

(* The total is none of the buckets.                                       *)
LEMMA CountersFacts ==
  /\ TotalKey \in CounterKeys /\ Buckets \subseteq CounterKeys /\ TotalKey \notin Buckets
  /\ IsFiniteSet(Buckets) /\ IsFiniteSet(Workers)
  BY MetricsAssumption DEF CounterKeys, TotalKey

(* Counters whose buckets add up to the total stay so when a request is    *)
(* counted and when two of them are added.                                 *)
LEMMA ZerosBalanced == Zeros \in Counters /\ Balanced(Zeros) /\ Zeros[TotalKey] = 0
<1>1. Zeros \in [CounterKeys -> Nat] /\ \A k \in CounterKeys : Zeros[k] = 0
  BY DEF Zeros
<1>2. SumFunctionOnSet(Zeros, Buckets) = 0
  BY <1>1, CountersFacts, SumOfZeros
<1>3. QED
  BY <1>1, <1>2, CountersFacts DEF Balanced, Counters

LEMMA DeltasBalanced ==
  ASSUME NEW b \in Buckets
  PROVE  Deltas(b) \in Counters /\ Balanced(Deltas(b)) /\ Deltas(b)[TotalKey] = 1
<1>1. /\ Deltas(b) \in [CounterKeys -> Nat] /\ Deltas(b)[TotalKey] = 1
      /\ \A k \in Buckets : Deltas(b)[k] = IF k = b THEN 1 ELSE 0
  BY CountersFacts DEF Deltas, Zeros
<1>2. OnlyAt(Deltas(b), Buckets, b, 1)
  BY <1>1 DEF OnlyAt
<1>3. SumFunctionOnSet(Deltas(b), Buckets) = 1
  BY <1>2, CountersFacts, SumOfOne
<1>4. QED
  BY <1>1, <1>3 DEF Balanced, Counters

LEMMA PlusBalanced ==
  ASSUME NEW a \in Counters, NEW b \in Counters, Balanced(a), Balanced(b)
  PROVE  /\ PlusCounters(a, b) \in Counters /\ Balanced(PlusCounters(a, b))
         /\ PlusCounters(a, b)[TotalKey] = a[TotalKey] + b[TotalKey]
<1> DEFINE c == PlusCounters(a, b)
<1>1. a \in [CounterKeys -> Nat] /\ b \in [CounterKeys -> Nat]
  BY DEF Counters
<1>2. c \in [CounterKeys -> Nat] /\ \A k \in CounterKeys : c[k] = a[k] + b[k]
  BY <1>1 DEF PlusCounters
<1> HIDE DEF c
<1>3. SumFunctionOnSet(c, Buckets) = SumFunctionOnSet(a, Buckets) + SumFunctionOnSet(b, Buckets)
  <2>1. Summand(a, Buckets) /\ Summand(b, Buckets) /\ IsPlus(c, a, b, Buckets)
    BY <1>1, <1>2, CountersFacts DEF Summand, IsPlus
  <2>2. QED
    BY <2>1, CountersFacts, SumPlus
<1>4. Balanced(c) /\ c \in Counters /\ c[TotalKey] = a[TotalKey] + b[TotalKey]
  BY <1>2, <1>3, CountersFacts DEF Balanced, Counters
<1>5. QED
  BY <1>4 DEF c

(* What a process has counted is a part of what all of them have.          *)
LEMMA MetricsNumbers ==
  ASSUME MetricsInv
  PROVE  /\ stored \in Counters /\ stored[TotalKey] \in Nat
         /\ recorded \in Nat /\ forgotten \in Nat
         /\ InProcess \in Summands(Workers)
         /\ SumFunctionOnSet(InProcess, Workers) \in Nat
         /\ \A p \in Workers :
              /\ fallback[p] \in Counters /\ fallback[p][TotalKey] \in Nat
              /\ InProcess[p] = fallback[p][TotalKey]
              /\ fallback[p][TotalKey] <= SumFunctionOnSet(InProcess, Workers)
              /\ snapshot[p] \in Snapshots /\ snapshot[p].counts \in Counters
              /\ snapshot[p].counts[TotalKey] \in Nat /\ snapshot[p].atLeast \in Nat
<1>1. /\ stored \in Counters /\ stored[TotalKey] \in Nat
      /\ recorded \in Nat /\ forgotten \in Nat
      /\ \A p \in Workers :
           /\ fallback[p] \in Counters /\ fallback[p][TotalKey] \in Nat
           /\ snapshot[p] \in Snapshots /\ snapshot[p].counts \in Counters
           /\ snapshot[p].counts[TotalKey] \in Nat /\ snapshot[p].atLeast \in Nat
  BY CountersFacts DEF MetricsInv, MetricsTypeOK, Counters, Snapshots
<1>2. InProcess \in Summands(Workers) /\ \A p \in Workers : InProcess[p] = fallback[p][TotalKey]
  BY <1>1 DEF InProcess, Summands
<1>3. SumFunctionOnSet(InProcess, Workers) \in Nat
  <2>1. Summand(InProcess, Workers)
    BY <1>2 DEF Summand, Summands
  <2>2. QED
    <3>1. PICK e \in Totals(Workers) : SumFunctionOnSet(InProcess, Workers) = e[Workers]
      BY <2>1, CountersFacts, SumAddsUp
    <3>2. QED
      BY <3>1 DEF Totals
<1>4. \A p \in Workers : InProcess[p] <= SumFunctionOnSet(InProcess, Workers)
  BY <1>2, CountersFacts, SumChanges
<1>5. QED
  BY <1>1, <1>2, <1>3, <1>4

LEMMA MetricsInitHolds == MetricsInit => MetricsInv
<1> SUFFICES ASSUME MetricsInit
             PROVE  MetricsInv
  OBVIOUS
<1>1. /\ stored = Zeros /\ recorded = 0 /\ forgotten = 0 /\ renewals = 0
      /\ fallback = [p \in Workers |-> Zeros] /\ snapshot = [p \in Workers |-> NoSnapshot]
  BY DEF MetricsInit
<1>2. MetricsTypeOK
  BY <1>1, ZerosBalanced DEF MetricsTypeOK, Counters, Snapshots, NoSnapshot
<1>3. AllBalanced
  BY <1>1, ZerosBalanced DEF AllBalanced, NoSnapshot
<1>4. SnapshotsCount
  BY <1>1 DEF SnapshotsCount, NoSnapshot
<1>5. InProcess \in Summands(Workers) /\ \A p \in Workers : InProcess[p] = 0
  BY <1>1, ZerosBalanced DEF InProcess, Summands
<1>6. SumFunctionOnSet(InProcess, Workers) = 0
  BY <1>5, CountersFacts, SumOfZeros
<1>7. QED
  BY <1>1, <1>2, <1>3, <1>4, <1>6, ZerosBalanced DEF MetricsInv

(* A request is stored, or it stays in its process.                        *)
LEMMA StoredKeeps ==
  ASSUME MetricsInv, NEW q \in Workers, NEW b \in Buckets, RecordStored(q, b)
  PROVE  MetricsInv'
<1>1. /\ stored' = PlusCounters(stored, Deltas(b)) /\ recorded' = recorded + 1
      /\ fallback' = fallback /\ snapshot' = snapshot /\ forgotten' = forgotten
      /\ renewals' = renewals
  BY DEF RecordStored, Recording
<1>2. /\ stored' \in Counters /\ Balanced(stored') /\ stored'[TotalKey] = stored[TotalKey] + 1
  BY <1>1, DeltasBalanced, PlusBalanced, MetricsNumbers DEF MetricsInv, AllBalanced
<1>3. MetricsTypeOK'
  BY <1>1, <1>2 DEF MetricsInv, MetricsTypeOK, Counters
<1>4. AllBalanced'
  BY <1>1, <1>2 DEF MetricsInv, AllBalanced
<1>5. SnapshotsCount'
  BY <1>1, <1>2, MetricsNumbers DEF MetricsInv, SnapshotsCount
<1>6. InProcess' = InProcess
  BY <1>1 DEF InProcess
<1>7. recorded' = stored'[TotalKey] + forgotten' + SumFunctionOnSet(InProcess', Workers)
  BY <1>1, <1>2, <1>6, MetricsNumbers DEF MetricsInv
<1>8. QED
  BY <1>3, <1>4, <1>5, <1>7 DEF MetricsInv

LEMMA InProcessKeeps ==
  ASSUME MetricsInv, NEW q \in Workers, NEW b \in Buckets, RecordInProcess(q, b)
  PROVE  MetricsInv'
<1>1. /\ stored' = stored /\ recorded' = recorded + 1
      /\ fallback' = [fallback EXCEPT ![q] = PlusCounters(fallback[q], Deltas(b))]
      /\ snapshot' = snapshot /\ forgotten' = forgotten /\ renewals' = renewals
  BY DEF RecordInProcess, Recording
<1>2. PICK new \in Counters : /\ new = PlusCounters(fallback[q], Deltas(b)) /\ Balanced(new)
                              /\ new[TotalKey] = fallback[q][TotalKey] + 1
  BY DeltasBalanced, PlusBalanced, MetricsNumbers DEF MetricsInv, AllBalanced
<1>3. fallback \in [Workers -> Counters]
  BY DEF MetricsInv, MetricsTypeOK, Counters
<1>4. /\ fallback' \in [Workers -> Counters] /\ fallback'[q] = new
      /\ \A p \in Workers \ {q} : fallback'[p] = fallback[p]
  BY <1>1, <1>2, <1>3
<1>5. MetricsTypeOK'
  BY <1>1, <1>4 DEF MetricsInv, MetricsTypeOK, Counters
<1>6. AllBalanced'
  BY <1>1, <1>2, <1>4 DEF MetricsInv, AllBalanced
<1>7. SnapshotsCount'
  BY <1>1, <1>2, <1>4, MetricsNumbers DEF MetricsInv, SnapshotsCount
<1>8. InProcess' = [InProcess EXCEPT ![q] = InProcess[q] + 1]
  BY <1>2, <1>4, MetricsNumbers DEF InProcess
<1>9. SumFunctionOnSet(InProcess', Workers) = SumFunctionOnSet(InProcess, Workers) + 1
  <2>1. InProcess[q] \in Nat /\ InProcess[q] + 1 \in Nat
    BY MetricsNumbers
  <2>2. SumFunctionOnSet(InProcess', Workers) + InProcess[q]
          = SumFunctionOnSet(InProcess, Workers) + (InProcess[q] + 1)
    BY <1>8, <2>1, CountersFacts, MetricsNumbers, SumChanges
  <2>3. SumFunctionOnSet(InProcess', Workers) \in Nat
    <3>1. InProcess' \in Summands(Workers)
      BY <1>8, <2>1, MetricsNumbers DEF Summands
    <3>2. QED
      BY <3>1, CountersFacts, SumChanges
  <2>4. QED
    BY <2>1, <2>2, <2>3, MetricsNumbers
<1>10. recorded' = stored'[TotalKey] + forgotten' + SumFunctionOnSet(InProcess', Workers)
  BY <1>1, <1>9, MetricsNumbers DEF MetricsInv
<1>11. QED
  BY <1>5, <1>6, <1>7, <1>10 DEF MetricsInv

(* A snapshot begins, and is merged with what the process then has.        *)
LEMMA ReadBegins ==
  ASSUME MetricsInv, NEW q \in Workers, SnapshotRead(q)
  PROVE  MetricsInv'
<1>1. PICK counts \in {stored, Zeros} :
        snapshot' = [snapshot EXCEPT ![q] = [pc |-> "read", counts |-> counts,
                       atLeast |-> counts[TotalKey] + fallback[q][TotalKey]]]
  BY DEF SnapshotRead
<1>2. UNCHANGED <<stored, fallback, recorded, forgotten, renewals>>
  BY DEF SnapshotRead
<1>3. /\ counts \in Counters /\ Balanced(counts) /\ counts[TotalKey] \in Nat
      /\ counts[TotalKey] <= stored[TotalKey]
  BY ZerosBalanced, MetricsNumbers DEF MetricsInv, AllBalanced
<1>4. /\ snapshot'[q] = [pc |-> "read", counts |-> counts,
                         atLeast |-> counts[TotalKey] + fallback[q][TotalKey]]
      /\ \A p \in Workers \ {q} : snapshot'[p] = snapshot[p]
  BY <1>1 DEF MetricsInv, MetricsTypeOK
<1>5. MetricsTypeOK'
  BY <1>1, <1>2, <1>3, MetricsNumbers DEF MetricsInv, MetricsTypeOK, Counters, Snapshots
<1>6. AllBalanced'
  BY <1>2, <1>3, <1>4 DEF MetricsInv, AllBalanced
<1>7. SnapshotsCount'
  BY <1>2, <1>3, <1>4, MetricsNumbers DEF MetricsInv, SnapshotsCount
<1>8. InProcess' = InProcess
  BY <1>2 DEF InProcess
<1>9. QED
  BY <1>2, <1>5, <1>6, <1>7, <1>8 DEF MetricsInv

LEMMA MergeEnds ==
  ASSUME MetricsInv, NEW q \in Workers, SnapshotMerge(q)
  PROVE  MetricsInv'
<1>1. /\ snapshot[q].pc = "read"
      /\ snapshot' = [snapshot EXCEPT ![q].pc = "done",
                        ![q].counts = PlusCounters(snapshot[q].counts, fallback[q])]
      /\ UNCHANGED <<stored, fallback, recorded, forgotten, renewals>>
  BY DEF SnapshotMerge, MetricsInv, MetricsTypeOK, Snapshots
<1>2. PICK counts \in Counters :
        /\ counts = PlusCounters(snapshot[q].counts, fallback[q]) /\ Balanced(counts)
        /\ counts[TotalKey] = snapshot[q].counts[TotalKey] + fallback[q][TotalKey]
  BY PlusBalanced, MetricsNumbers DEF MetricsInv, AllBalanced
<1>3. /\ snapshot'[q].pc = "done" /\ snapshot'[q].counts = counts
      /\ snapshot'[q].atLeast = snapshot[q].atLeast
      /\ snapshot'[q] \in Snapshots
      /\ \A p \in Workers \ {q} : snapshot'[p] = snapshot[p]
  BY <1>1, <1>2 DEF MetricsInv, MetricsTypeOK, Snapshots, Counters
<1>4. MetricsTypeOK'
  BY <1>1, <1>3 DEF MetricsInv, MetricsTypeOK
<1>5. AllBalanced'
  BY <1>1, <1>2, <1>3 DEF MetricsInv, AllBalanced
<1>6. SnapshotsCount'
  <2>1. counts[TotalKey] \in snapshot[q].atLeast..recorded
    <3>1. /\ snapshot[q].counts[TotalKey] <= stored[TotalKey]
          /\ snapshot[q].atLeast <= snapshot[q].counts[TotalKey] + fallback[q][TotalKey]
      BY <1>1 DEF MetricsInv, SnapshotsCount
    <3>2. recorded = stored[TotalKey] + forgotten + SumFunctionOnSet(InProcess, Workers)
      BY DEF MetricsInv
    <3>3. QED
      BY <1>2, <3>1, <3>2, MetricsNumbers
  <2>2. QED
    BY <1>1, <1>3, <2>1 DEF MetricsInv, SnapshotsCount
<1>7. InProcess' = InProcess
  BY <1>1 DEF InProcess
<1>8. QED
  BY <1>1, <1>4, <1>5, <1>6, <1>7 DEF MetricsInv

(* A process takes its counts with it.                                     *)
LEMMA RenewKeeps ==
  ASSUME MetricsInv, NEW q \in Workers, Renew(q)
  PROVE  MetricsInv'
<1>1. /\ stored' = stored /\ recorded' = recorded /\ renewals' = renewals + 1
      /\ fallback' = [fallback EXCEPT ![q] = Zeros]
      /\ snapshot' = [snapshot EXCEPT ![q] = NoSnapshot]
      /\ forgotten' = forgotten + fallback[q][TotalKey]
  BY DEF Renew
<1>2. fallback \in [Workers -> Counters] /\ snapshot \in [Workers -> Snapshots]
  BY DEF MetricsInv, MetricsTypeOK, Counters
<1>3. NoSnapshot \in Snapshots /\ Balanced(NoSnapshot.counts)
  BY ZerosBalanced DEF NoSnapshot, Snapshots, Counters
<1>4. /\ fallback' \in [Workers -> Counters] /\ fallback'[q] = Zeros
      /\ \A p \in Workers \ {q} : fallback'[p] = fallback[p]
  BY <1>1, <1>2, ZerosBalanced
<1>5. /\ snapshot' \in [Workers -> Snapshots] /\ snapshot'[q] = NoSnapshot
      /\ \A p \in Workers \ {q} : snapshot'[p] = snapshot[p]
  BY <1>1, <1>2, <1>3
<1>6. MetricsTypeOK'
  <2>1. forgotten' \in Nat /\ renewals' \in Nat
    BY <1>1, MetricsNumbers DEF MetricsInv, MetricsTypeOK
  <2>2. QED
    BY <1>1, <1>4, <1>5, <2>1 DEF MetricsInv, MetricsTypeOK, Counters
<1>7. AllBalanced'
  BY <1>1, <1>3, <1>4, <1>5, ZerosBalanced DEF MetricsInv, AllBalanced
<1>8. SnapshotsCount'
  BY <1>1, <1>4, <1>5 DEF MetricsInv, SnapshotsCount, NoSnapshot
<1>9. InProcess' = [InProcess EXCEPT ![q] = 0]
  BY <1>4, ZerosBalanced DEF InProcess
<1>10. SumFunctionOnSet(InProcess', Workers) + fallback[q][TotalKey]
         = SumFunctionOnSet(InProcess, Workers)
  <2>1. SumFunctionOnSet([InProcess EXCEPT ![q] = 0], Workers) + InProcess[q]
          = SumFunctionOnSet(InProcess, Workers) + 0
    <3>1. 0 \in Nat /\ InProcess \in Summands(Workers) /\ IsFiniteSet(Workers)
      BY CountersFacts, MetricsNumbers
    <3>2. QED
      BY <3>1, SumChanges
  <2>2. QED
    BY <1>9, <2>1, MetricsNumbers
<1>11. SumFunctionOnSet(InProcess', Workers) \in Nat
  <2>1. InProcess' \in Summands(Workers)
    BY <1>9, MetricsNumbers DEF Summands
  <2>2. QED
    BY <2>1, CountersFacts, SumChanges
<1>12. recorded' = stored'[TotalKey] + forgotten' + SumFunctionOnSet(InProcess', Workers)
  BY <1>1, <1>10, <1>11, MetricsNumbers DEF MetricsInv
<1>13. QED
  BY <1>6, <1>7, <1>8, <1>12 DEF MetricsInv

LEMMA MetricsInvTrue == MetricsInv => SnapshotTrue
<1> SUFFICES ASSUME MetricsInv
             PROVE  SnapshotTrue
  OBVIOUS
<1>1. SnapshotBalanced
  BY DEF MetricsInv, AllBalanced, Balanced, SnapshotBalanced
<1>2. DOMAIN InProcess = Workers
  BY DEF InProcess
<1>3. SumFunction([p \in Workers |-> fallback[p][TotalKey]]) = SumFunctionOnSet(InProcess, Workers)
  BY <1>2 DEF SumFunction, InProcess
<1>4. SnapshotHonest
  BY <1>3 DEF MetricsInv, SnapshotsCount, SnapshotHonest
<1>5. QED
  BY <1>1, <1>4 DEF SnapshotTrue

LEMMA MetricsInvariant == MetricsSpec => []MetricsInv
<1>1. MetricsInv /\ [MetricsNext]_metricsVars => MetricsInv'
  <2> SUFFICES ASSUME MetricsInv, [MetricsNext]_metricsVars
               PROVE  MetricsInv'
    OBVIOUS
  <2>1. CASE UNCHANGED metricsVars
    <3>1. UNCHANGED <<stored, fallback, snapshot, recorded, forgotten, renewals>>
      BY <2>1 DEF metricsVars
    <3>2. InProcess' = InProcess
      BY <3>1 DEF InProcess
    <3>3. QED
      BY <3>1, <3>2 DEF MetricsInv, MetricsTypeOK, AllBalanced, SnapshotsCount
  <2>2. QED
    BY <2>1, StoredKeeps, InProcessKeeps, ReadBegins, MergeEnds, RenewKeeps DEF MetricsNext
<1>2. QED
  BY <1>1, MetricsInitHolds, PTL DEF MetricsSpec

(* Every snapshot is balanced and honest, for any processes and buckets    *)
(* (metrics.py, the merge of stored and fallback counters).                *)
THEOREM SnapshotsAreTrue == MetricsSpec => []SnapshotTrue
  BY MetricsInvariant, MetricsInvTrue, PTL

LEMMA MetricsTyped == MetricsSpec => []MetricsTypeOK
<1>1. MetricsInv => MetricsTypeOK  BY DEF MetricsInv
<1>2. QED  BY <1>1, MetricsInvariant, PTL

----------------------------------------------------------------------------
(* MCServices: a behaviour of all is, for each component, one of its own.  *)

LEMMA RateTyped == Spec => []TypeOK
<1>1. RateInv => TypeOK  BY DEF RateInv
<1>2. QED  BY <1>1, RateLimitInvariant, PTL

(* A component that keeps still begins in one of its own initial states.   *)
LEMMA PartsBegin ==
  ASSUME ServicesInit
  PROVE  /\ Init /\ JwksInit /\ RegistryInit /\ OpInit /\ MetricsInit /\ MigrateInit /\ DedupInit
         /\ CoverageInit /\ ScoringInit /\ InferenceInit /\ PagingInit /\ GymTableInit
         /\ NearbyInit
<1>1. /\ Init /\ JwksInit /\ RegistryInit /\ OpInit /\ MetricsInit /\ MigrateInit /\ DedupInit
      /\ InferenceInit /\ GymTableInit
  BY DEF ServicesInit
<1>2. CoverageInit
  <2>1. CASE Is("coverage")  BY <2>1 DEF ServicesInit
  <2>2. CASE ~Is("coverage")
    <3>1. (CHOOSE s \in Sighting : TRUE) \in Sighting  BY ServicesAssumption
    <3>2. /\ osmGyms = [g \in 1..GymCount |-> CHOOSE s \in Sighting : TRUE]
          /\ places = <<>> /\ seen = 0 /\ matches = <<>> /\ best = [g \in 1..GymCount |-> 0]
      BY <2>2 DEF ServicesInit
    <3>3. QED  BY <3>1, <3>2 DEF CoverageInit
  <2>3. QED  BY <2>1, <2>2
<1>3. ScoringInit
  <2>1. CASE Is("scoring")  BY <2>1 DEF ServicesInit
  <2>2. CASE ~Is("scoring")
    <3>1. stage = "found" /\ confidence = 0
          /\ scoredGym = FoundLive({} \cup {"fitness_centre"}, TRUE, 1)
      BY <2>2 DEF ServicesInit
    <3>2. {} \in SUBSET TomTomTags /\ TRUE \in BOOLEAN /\ 1 \in 1..3  OBVIOUS
    <3>3. QED  BY <3>1, <3>2 DEF ScoringInit
  <2>3. QED  BY <2>1, <2>2
<1>4. PagingInit
  <2>1. CASE Is("paging")  BY <2>1 DEF ServicesInit
  <2>2. CASE ~Is("paging")
    <3>1. (CHOOSE n \in Limits : TRUE) \in Limits  BY ServicesAssumption
    <3>2. /\ shelf = {} /\ republished = 0
          /\ pager = [pc |-> "idle", kind |-> "near", bound |-> 0, status |-> "any",
                      limit |-> CHOOSE n \in Limits : TRUE, got |-> <<>>]
      BY <2>2 DEF ServicesInit
    <3>3. {} \in Shelves  BY DEF Shelves
    <3>4. QED  BY <3>1, <3>2, <3>3 DEF PagingInit
  <2>3. QED  BY <2>1, <2>2
<1>5. NearbyInit
  <2>1. CASE Is("nearby")  BY <2>1 DEF ServicesInit
  <2>2. CASE ~Is("nearby")
    <3>1. at = <<>> /\ answer = [state |-> "pending", found |-> <<>>]
      BY <2>2 DEF ServicesInit
    <3>2. <<>> \in [{} -> Where] /\ {} \in SUBSET GymRows  OBVIOUS
    <3>3. QED  BY <3>1, <3>2 DEF NearbyInit
  <2>3. QED  BY <2>1, <2>2
<1>6. QED  BY <1>1, <1>2, <1>3, <1>4, <1>5

(* A step of one is a step of it, and a stutter of every other one.        *)
LEMMA PartsStep ==
  ASSUME [ServicesNext]_servicesVars
  PROVE  /\ [Next]_vars /\ [JwksNext]_jwksVars /\ [RegistryNext]_regVars /\ [OpNext]_opVars
         /\ [MetricsNext]_metricsVars /\ [MigrateNext]_migrateVars /\ [DedupNext]_dedupVars
         /\ [CoverageNext]_coverageVars /\ [ScoringNext]_scoringVars
         /\ [InferenceNext]_inferenceVars /\ [PagingNext]_pagingVars
         /\ [GymTableNext]_gymTableVars /\ [NearbyNext]_nearbyVars
<1>1. CASE ServicesNext  BY <1>1 DEF ServicesNext
<1>2. CASE UNCHANGED servicesVars  BY <1>2 DEF servicesVars
<1>3. QED  BY <1>1, <1>2

(* The run on the small instance of all is a run of each specification:    *)
(* the composition implements every one of its components.                 *)
THEOREM ServicesImplementParts ==
  ServicesSpec =>
    /\ Spec /\ JwksSpec /\ RegistrySpec /\ OpSpec /\ MetricsSpec /\ MigrateSpec /\ DedupSpec
    /\ CoverageSpec /\ ScoringSpec /\ InferenceSpec /\ PagingSpec /\ GymTableSpec /\ NearbySpec
  BY PartsBegin, PartsStep, PTL
  DEF ServicesSpec, Spec, JwksSpec, RegistrySpec, OpSpec, MetricsSpec, MigrateSpec, DedupSpec,
      CoverageSpec, ScoringSpec, InferenceSpec, PagingSpec, GymTableSpec, NearbySpec

(* The variables of every component keep their types, whatever the         *)
(* constants: among them the bounds of the scores (0..100) and of the      *)
(* certainties (_bounded: 5..99), and that a nearby answer is no longer    *)
(* than its limit.                                                         *)
THEOREM ServicesTyped == ServicesSpec => []ServicesTypeOK
  BY ServicesImplementParts, RateTyped, JwksTyped, RegistryTyped, OpTyped, MetricsTyped,
     MigrateTyped, DedupTyped, CoverageTyped, ScoringTyped, InferenceTyped, PagingTyped,
     GymTableTyped, NearbyTyped, PTL
  DEF ServicesTypeOK

(* Each component keeps its promises in the composition, too.              *)
THEOREM ServicesSound ==
  ServicesSpec =>
    [](/\ WindowRespected /\ RetryAfterHonest /\ TokensJudged /\ StaleOnlyByRace /\ RegistryKept
       /\ FetchEnds /\ SnapshotTrue /\ MigrationsTrue /\ DedupSound /\ CoverageTrue
       /\ EvidenceOrdersScores /\ NamesDoubted /\ PagesWhole /\ SyncsApart /\ NearestAnswered)
  BY ServicesImplementParts, WindowIsRespected, RetryAfterIsHonest, TokensAreJudged,
     RegistryServesTheFile, RegistryIsKept, OverpassFetchEnds, SnapshotsAreTrue,
     MigrationsAreTrue, DedupIsSound, CoverageIsTrue, EvidenceOrders, NamesAreDoubted,
     PagesAreWhole, SyncsStayApart, NearestAreAnswered, PTL

=============================================================================
