---------------------------- MODULE RateLimitProofs ----------------------------
(***************************************************************************)
(* For any number of requests, hosts and processes, any limit, window and  *)
(* wait for the lock: a bucket admits no more than its limit in a stretch  *)
(* of time, and what it says in Retry-After is honest.  Both rest on what  *)
(* a bucket remembers: an admitted request is forgotten only when the      *)
(* window has passed.                                                      *)
(***************************************************************************)
EXTENDS RateLimit, FiniteSetTheorems, SequenceTheorems, WellFoundedInduction, TLAPS

Waiting == {"store", "fallback"}

(* A call that waits for its lock has read the clock, and not long ago.    *)
CallInv ==
  \A r \in Requests : call[r].pc \in Waiting =>
    /\ call[r].host \in Hosts /\ call[r].proc \in Processes
    /\ call[r].at <= now /\ now <= call[r].at + MaxDelay

Queue(p) == [proc |-> p, life |-> life[p]]
Sources == {Store} \cup {[proc |-> p, life |-> n] : p \in Processes, n \in Nat}

(* A request is decided once, by the store or by a life that has begun.    *)
LogInv ==
  \A m \in 1..Len(log) :
    /\ call[log[m].req].pc = "decided"
    /\ log[m].src \in Sources
    /\ log[m].src # Store => log[m].src.life <= life[log[m].src.proc]
    /\ \A n \in 1..Len(log) : log[n].req = log[m].req => n = m

Rows(h) == {e \in events : e.host = h}

(* No bucket is fuller than the limit, or newer than the clock.            *)
BucketInv ==
  /\ IsFiniteSet(events) /\ \A e \in events : e.at <= now
  /\ \A h \in Hosts : Cardinality(Rows(h)) <= Limit
  /\ \A p \in Processes, h \in Hosts :
       /\ Len(bucket[p][h]) <= Limit
       /\ \A i \in 1..Len(bucket[p][h]) : bucket[p][h][i] <= now

(* A bucket remembers every request that it has admitted within the window. *)
Fresh(h, src) == {m \in Admitted(h, src) : now < log[m].at + Window}
RowOf(m) == [req |-> log[m].req, host |-> log[m].host, at |-> log[m].at]
StoreKeeps == \A h \in Hosts : \A m \in Fresh(h, Store) : RowOf(m) \in events
QueueKeeps ==
  \A p \in Processes, h \in Hosts :
    \E f \in [Fresh(h, Queue(p)) -> 1..Len(bucket[p][h])] :
      /\ \A m \in Fresh(h, Queue(p)) : bucket[p][h][f[m]] = log[m].at
      /\ \A m, i \in Fresh(h, Queue(p)) : f[m] = f[i] => m = i

(* WindowRespected for stretches that begin at any time.                   *)
Stretch(h, src, a) ==
  {m \in Admitted(h, src) : log[m].at \in a .. (a + Window - MaxDelay - 1)}
StretchInv ==
  \A h \in Hosts, src \in Sources, a \in Nat :
    /\ IsFiniteSet(Stretch(h, src, a))
    /\ Cardinality(Stretch(h, src, a)) <= Limit

(* After a denial the bucket has room at the time that it has named, until *)
(* it admits another request.                                              *)
Comeback(m) == log[m].at + log[m].retry
RoomInStore(m) == Cardinality(LiveRows(log[m].host, Comeback(m))) < Limit
RoomInQueue(p, m) ==
  LET queue == bucket[p][log[m].host]
  IN Len(queue) = Limit => queue[1] + Window <= Comeback(m)
DenialInv ==
  \A m \in 1..Len(log) :
    ~log[m].admitted =>
      \/ \E k \in (m + 1)..Len(log) : SameBucket(k, m) /\ log[k].admitted
      \/ /\ log[m].src = Store => RoomInStore(m)
         /\ \A p \in Processes : log[m].src = Queue(p) => RoomInQueue(p, m)

RateInv ==
  /\ TypeOK /\ CallInv /\ LogInv /\ BucketInv /\ StoreKeeps /\ QueueKeeps
  /\ StretchInv /\ DenialInv /\ RetryAfterHonest

----------------------------------------------------------------------------
LEMMA RateInitInv == Init => RateInv
<1> SUFFICES ASSUME Init PROVE RateInv
  OBVIOUS
<1> USE DEF Init
<1>1. log = <<>> /\ Len(log) = 0 /\ log \in Seq(Decision) /\ 1..Len(log) = {}
  BY EmptySeq
<1>2. TypeOK
  BY <1>1, EmptySeq, RateLimitAssumption DEF TypeOK, Call, NewCall
<1>3. CallInv  BY DEF CallInv, Waiting, NewCall
<1>4. LogInv  BY <1>1 DEF LogInv
<1>5. \A h, src : Admitted(h, src) = {} /\ Fresh(h, src) = {}
  BY <1>1 DEF Admitted, Fresh
<1>6. BucketInv
  <2>1. \A h : Rows(h) = {}  BY DEF Rows
  <2>2. IsFiniteSet({}) /\ Cardinality({}) <= Limit  BY FS_EmptySet, RateLimitAssumption
  <2>3. \A p \in Processes, h \in Hosts : Len(bucket[p][h]) = 0  BY EmptySeq
  <2>4. Limit \in Nat  BY RateLimitAssumption
  <2>5. \A p \in Processes, h \in Hosts :
          Len(bucket[p][h]) <= Limit /\ 1..Len(bucket[p][h]) = {}
    BY <2>3, <2>4
  <2>6. QED  BY <2>1, <2>2, <2>5 DEF BucketInv
<1>7. StoreKeeps  BY <1>5 DEF StoreKeeps
<1>8. QueueKeeps
  <2> SUFFICES ASSUME NEW p \in Processes, NEW h \in Hosts
               PROVE  \E f \in [Fresh(h, Queue(p)) -> 1..Len(bucket[p][h])] :
                        /\ \A m \in Fresh(h, Queue(p)) : bucket[p][h][f[m]] = log[m].at
                        /\ \A m, i \in Fresh(h, Queue(p)) : f[m] = f[i] => m = i
    BY DEF QueueKeeps
  <2>1. Fresh(h, Queue(p)) = {}  BY <1>5
  <2>2. [m \in {} |-> 1] \in [{} -> 1..Len(bucket[p][h])]  OBVIOUS
  <2>3. QED  BY <2>1, <2>2
<1>9. StretchInv
  <2>1. \A h, src, a : Stretch(h, src, a) = {}  BY <1>5 DEF Stretch
  <2>2. IsFiniteSet({}) /\ Cardinality({}) <= Limit  BY FS_EmptySet, RateLimitAssumption
  <2>3. QED  BY <2>1, <2>2 DEF StretchInv
<1>10. DenialInv /\ RetryAfterHonest  BY <1>1 DEF DenialInv, RetryAfterHonest
<1>11. QED  BY <1>2, <1>3, <1>4, <1>6, <1>7, <1>8, <1>9, <1>10 DEF RateInv

----------------------------------------------------------------------------
(* Sets of times and of positions have a least element.                    *)
LEMMA LeastOf ==
  ASSUME NEW T \in SUBSET Nat, T # {}
  PROVE  \E t \in T : \A u \in T : t <= u
<1>1. PICK t \in T : \A u \in T : ~ (<<u, t>> \in OpToRel(<, Nat))
  BY WFMin, NatLessThanWellFounded
<1>2. \A u \in T : ~ (u < t)  BY <1>1 DEF OpToRel
<1>3. QED  BY <1>2

LEMMA OldestFacts ==
  ASSUME TypeOK, NEW rows \in SUBSET events, rows # {}
  PROVE  /\ Oldest(rows) \in Nat
         /\ \E e \in rows : e.at = Oldest(rows)
         /\ \A e \in rows : Oldest(rows) <= e.at
<1> DEFINE T == {e.at : e \in rows}
<1>1. T \in SUBSET Nat /\ T # {}  BY DEF TypeOK, Event
<1>2. \E t \in T : \A e \in rows : t <= e.at
  <2>1. PICK t \in T : \A u \in T : t <= u
    <3> HIDE DEF T
    <3>1. QED  BY <1>1, LeastOf
  <2>2. QED  BY <2>1
<1>3. Oldest(rows) \in T /\ \A e \in rows : Oldest(rows) <= e.at
  BY <1>2 DEF Oldest
<1>4. QED  BY <1>1, <1>3

(* What purging leaves of a queue: its end, from the first live time on.   *)
LEMMA PurgedFacts ==
  ASSUME NEW queue \in Seq(Nat), NEW at \in Nat
  PROVE  \E k \in 1..(Len(queue) + 1) :
           /\ Purged(queue, at) \in Seq(Nat)
           /\ Len(Purged(queue, at)) = Len(queue) - k + 1
           /\ \A i \in 1..Len(Purged(queue, at)) : Purged(queue, at)[i] = queue[i + k - 1]
           /\ \A i \in 1..(k - 1) : queue[i] <= at - Window
           /\ k <= Len(queue) => queue[k] > at - Window
<1> DEFINE live == {n \in 1..Len(queue) : queue[n] > at - Window}
           first == IF live = {} THEN Len(queue) + 1
                    ELSE CHOOSE n \in live : \A m \in live : n <= m
<1>1. Len(queue) \in Nat /\ \A i \in 1..Len(queue) : queue[i] \in Nat
  BY LenProperties, ElementOfSeq
<1>2. Window \in Nat  BY RateLimitAssumption
<1>3. live = {} \/ (first \in live /\ \A m \in live : first <= m)
  <2>1. live \in SUBSET Nat  BY <1>1
  <2>2. live # {} => \E n \in live : \A m \in live : n <= m  BY <2>1, LeastOf
  <2>3. QED  BY <2>2
<1>4. first \in 1..(Len(queue) + 1) /\ (live = {} => first = Len(queue) + 1)
  BY <1>1, <1>3
<1>5. /\ \A i \in 1..(first - 1) : ~ (queue[i] > at - Window)
      /\ first <= Len(queue) => queue[first] > at - Window
  <2>1. ASSUME NEW i \in 1..(first - 1) PROVE i \notin live
    <3> HIDE DEF live, first
    <3>1. i \in 1..Len(queue) /\ i < first  BY <1>1, <1>4
    <3>2. live = {} \/ \A m \in live : first <= m  BY <1>3
    <3>3. first \in Nat  BY <1>1, <1>4
    <3>4. i \in Nat  OBVIOUS
    <3>5. QED  BY <3>1, <3>2, <3>3, <3>4
  <2>2. first <= Len(queue) => first \in live
    <3> HIDE DEF live, first
    <3>1. QED  BY <1>1, <1>3, <1>4
  <2>3. \A i \in 1..(first - 1) : i \in 1..Len(queue)  
    <3> HIDE DEF first
    <3>1. QED  BY <1>1, <1>4
  <2>4. \A n \in 1..Len(queue) : n \in live <=> queue[n] > at - Window
    OBVIOUS
  <2> HIDE DEF live, first
  <2>5. \A i \in 1..(first - 1) : ~ (queue[i] > at - Window)
    BY <2>1, <2>3, <2>4
  <2>6. first <= Len(queue) => queue[first] > at - Window
    BY <1>1, <1>4, <2>2, <2>4
  <2>7. QED  BY <2>5, <2>6
<1>6. Purged(queue, at) = SubSeq(queue, first, Len(queue))
  BY DEF Purged
<1> HIDE DEF first, live
<1>7. /\ SubSeq(queue, first, Len(queue)) \in Seq(Nat)
      /\ Len(SubSeq(queue, first, Len(queue)))
           = IF first <= Len(queue) THEN Len(queue) - first + 1 ELSE 0
      /\ \A i \in 1..(Len(queue) - first + 1) :
           SubSeq(queue, first, Len(queue))[i] = queue[first + i - 1]
  <2>1. \A i \in first..Len(queue) : queue[i] \in Nat  BY <1>1, <1>4
  <2>2. first \in Int /\ Len(queue) \in Int  BY <1>1, <1>4
  <2> DEFINE n == Len(queue)
  <2>3. n \in Int /\ \A i \in first..n : queue[i] \in Nat  BY <2>1, <2>2
  <2> HIDE DEF n
  <2>4. /\ SubSeq(queue, first, n) \in Seq(Nat)
        /\ Len(SubSeq(queue, first, n)) = IF first <= n THEN n - first + 1 ELSE 0
        /\ \A i \in 1..(n - first + 1) : SubSeq(queue, first, n)[i] = queue[first + i - 1]
    BY <2>2, <2>3, SubSeqProperties
  <2>5. QED  BY <2>4 DEF n
<1>8. \A i \in 1..(first - 1) : queue[i] <= at - Window
  BY <1>1, <1>2, <1>4, <1>5
<1> DEFINE rest == SubSeq(queue, first, Len(queue))
<1>9. /\ Len(rest) = Len(queue) - first + 1
      /\ \A i \in 1..Len(rest) : rest[i] = queue[i + first - 1]
  <2> HIDE DEF rest
  <2>1. Len(rest) = Len(queue) - first + 1  BY <1>1, <1>4, <1>7 DEF rest
  <2>2. \A i \in 1..Len(rest) : first + i - 1 = i + first - 1  BY <1>1, <1>4, <2>1
  <2>3. QED  BY <1>7, <2>1, <2>2 DEF rest
<1>10. QED  BY <1>4, <1>5, <1>6, <1>7, <1>8, <1>9

(* Room for one more.                                                      *)
LEMMA OneMore ==
  ASSUME NEW S, IsFiniteSet(S), NEW x, Cardinality(S) < Limit
  PROVE  IsFiniteSet(S \cup {x}) /\ Cardinality(S \cup {x}) <= Limit
<1>1. /\ IsFiniteSet(S \cup {x})
      /\ Cardinality(S \cup {x}) = IF x \in S THEN Cardinality(S) ELSE Cardinality(S) + 1
  BY FS_AddElement
<1>2. Cardinality(S) \in Nat  BY FS_CardinalityType
<1>3. QED  BY <1>1, <1>2, RateLimitAssumption

(* The rows of a host are finite, and so is every part of them.            *)
LEMMA RowsFacts ==
  ASSUME RateInv, NEW h \in Hosts, NEW T \in SUBSET Rows(h)
  PROVE  /\ IsFiniteSet(T) /\ Cardinality(T) \in Nat /\ Cardinality(T) <= Limit
         /\ Cardinality(T) = Limit => T = Rows(h)
         /\ Rows(h) \in SUBSET events
<1>1. Rows(h) \in SUBSET events  BY DEF Rows
<1>2. IsFiniteSet(Rows(h)) /\ Cardinality(Rows(h)) <= Limit
  BY <1>1, FS_Subset DEF RateInv, BucketInv
<1>3. IsFiniteSet(T) /\ Cardinality(T) <= Cardinality(Rows(h))
      /\ (Cardinality(Rows(h)) = Cardinality(T) => Rows(h) = T)
  BY <1>2, FS_Subset
<1>4. Cardinality(T) \in Nat /\ Cardinality(Rows(h)) \in Nat
  BY <1>2, <1>3, FS_CardinalityType
<1>5. QED  BY <1>1, <1>2, <1>3, <1>4, RateLimitAssumption

----------------------------------------------------------------------------
(* What a decision does to the log.                                        *)
LEMMA LogGrows ==
  ASSUME TypeOK, NEW d \in Decision, log' = Append(log, d)
  PROVE  /\ Len(log) \in Nat /\ Len(log') = Len(log) + 1
         /\ log' \in Seq(Decision)
         /\ \A n \in 1..Len(log) : log'[n] = log[n] /\ log[n] \in Decision
         /\ log'[Len(log) + 1] = d
         /\ 1..Len(log') = 1..Len(log) \cup {Len(log) + 1}
<1>1. log \in Seq(Decision)  BY DEF TypeOK
<1>2. Len(log) \in Nat /\ \A n \in 1..Len(log) : log[n] \in Decision
  BY <1>1, LenProperties, ElementOfSeq
<1>3. /\ Append(log, d) \in Seq(Decision) /\ Len(Append(log, d)) = Len(log) + 1
      /\ \A n \in 1..Len(log) : Append(log, d)[n] = log[n]
      /\ Append(log, d)[Len(log) + 1] = d
  BY <1>1, AppendProperties
<1>4. QED  BY <1>2, <1>3

LEMMA AdmittedGrows ==
  ASSUME TypeOK, NEW d \in Decision, log' = Append(log, d), NEW h, NEW src
  PROVE  /\ Admitted(h, src) \in SUBSET (1..Len(log))
         /\ Admitted(h, src)'
              = IF d.admitted /\ d.host = h /\ d.src = src
                THEN Admitted(h, src) \cup {Len(log) + 1} ELSE Admitted(h, src)
<1>1. Admitted(h, src) \in SUBSET (1..Len(log))  BY DEF Admitted
<1>2. Len(log) + 1 \notin 1..Len(log)  BY LogGrows
<1>3. Admitted(h, src)' = {n \in 1..Len(log') : log'[n].admitted /\ log'[n].host = h
                                                 /\ log'[n].src = src}
  BY DEF Admitted
<1>4. \A n \in 1..Len(log) : n \in Admitted(h, src)' <=> n \in Admitted(h, src)
  BY <1>3, LogGrows DEF Admitted
<1>5. Len(log) + 1 \in Admitted(h, src)' <=> d.admitted /\ d.host = h /\ d.src = src
  BY <1>3, LogGrows
<1>6. \A n \in Admitted(h, src)' : n \in 1..Len(log) \cup {Len(log) + 1}
  BY <1>3, LogGrows
<1>7. CASE d.admitted /\ d.host = h /\ d.src = src
  <2>1. Admitted(h, src)' = Admitted(h, src) \cup {Len(log) + 1}
    BY <1>1, <1>4, <1>5, <1>6, <1>7
  <2>2. QED  BY <1>1, <1>7, <2>1
<1>8. CASE ~ (d.admitted /\ d.host = h /\ d.src = src)
  <2>1. Admitted(h, src)' = Admitted(h, src)
    BY <1>1, <1>4, <1>5, <1>6, <1>8
  <2>2. QED  BY <1>1, <1>8, <2>1
<1>9. QED  BY <1>7, <1>8

(* The queue of a process is told from another one and from the store.     *)
LEMMA SourcesDiffer ==
  /\ \A p \in Processes : Queue(p) # Store
  /\ \A p, q \in Processes : Queue(p) = Queue(q) => p = q
<1>1. \A p : Queue(p).proc = p  BY DEF Queue
<1>2. Store.proc = None  BY DEF Store
<1>3. QED  BY <1>1, <1>2, RateLimitAssumption

LEMMA ComebackType ==
  ASSUME TypeOK, NEW m \in 1..Len(log)
  PROVE  log[m] \in Decision /\ log[m].at \in Nat /\ Comeback(m) \in Nat
<1>1. log[m] \in Decision  BY ElementOfSeq DEF TypeOK
<1>2. log[m].at \in Nat /\ log[m].retry \in Nat  BY <1>1 DEF Decision
<1>3. QED  BY <1>1, <1>2 DEF Comeback

(* What a decision of request r is, and what it leaves behind in the log   *)
(* and among the calls.                                                    *)
Decided(r, src, admitted, retry) ==
  [req |-> r, host |-> call[r].host, at |-> call[r].at,
   src |-> src, admitted |-> admitted, retry |-> retry]

LEMMA CallFacts ==
  ASSUME RateInv, NEW r \in Requests, call[r].pc \in Waiting
  PROVE  /\ call[r].host \in Hosts /\ call[r].proc \in Processes /\ call[r].at \in Nat
         /\ now \in Nat /\ call[r].at <= now /\ now <= call[r].at + MaxDelay
         /\ Limit \in Nat \ {0} /\ Window \in Nat \ {0} /\ MaxDelay \in Nat
         /\ Len(log) \in Nat
<1>1. call[r] \in Call /\ now \in Nat /\ log \in Seq(Decision)  BY DEF RateInv, TypeOK
<1>2. QED  BY <1>1, RateLimitAssumption, LenProperties DEF RateInv, CallInv, Call

LEMMA DecisionLogged ==
  ASSUME RateInv, NEW r \in Requests, call[r].pc \in Waiting,
         NEW src \in Sources, NEW admitted \in BOOLEAN, NEW retry \in Nat,
         src # Store => src.proc \in Processes /\ src.life <= life[src.proc],
         Decide(r, src, admitted, retry)
  PROVE  /\ Decided(r, src, admitted, retry) \in Decision
         /\ log' = Append(log, Decided(r, src, admitted, retry))
         /\ \A m \in 1..Len(log) : log[m].req # r
         /\ call' \in [Requests -> Call] /\ CallInv' /\ LogInv'
<1> DEFINE d == Decided(r, src, admitted, retry)
<1>1. /\ call \in [Requests -> Call] /\ call[r] \in Call /\ log \in Seq(Decision)
      /\ life \in [Processes -> Nat]
  BY DEF RateInv, TypeOK
<1>2. /\ d \in Decision /\ d.req = r /\ d.src = src
  <2>1. src \in Source
    BY DEF Sources, Source, Store
  <2>2. QED  BY <2>1, CallFacts DEF Decision, Decided
<1>3. log' = Append(log, d) /\ now' = now /\ life' = life
      /\ call' = [call EXCEPT ![r].pc = "decided"]
  BY DEF Decide, Decided
<1>4. \A m \in 1..Len(log) : log[m].req # r
  BY DEF RateInv, LogInv, Waiting
<1>5. [call[r] EXCEPT !.pc = "decided"] \in Call
  BY <1>1 DEF Call
<1>6. \A s \in Requests : call'[s] = IF s = r THEN [call[r] EXCEPT !.pc = "decided"] ELSE call[s]
  BY <1>1, <1>3
<1>7. call' \in [Requests -> Call]  BY <1>1, <1>3, <1>5
<1>8. call'[r].pc = "decided"
  BY <1>1, <1>6 DEF Call
<1>9. CallInv'
  BY <1>3, <1>6, <1>8 DEF RateInv, CallInv, Waiting
<1> HIDE DEF d
<1>10. LogInv'
  <2>1. ASSUME NEW m \in 1..Len(log)
        PROVE  /\ log'[m] = log[m] /\ log[m].req \in Requests /\ log[m].req # r
               /\ call'[log[m].req].pc = "decided" /\ log[m].src \in Sources
               /\ log[m].src # Store => log[m].src.life <= life'[log[m].src.proc]
               /\ \A n \in 1..Len(log) : log[n].req = log[m].req => n = m
    <3>1. log'[m] = log[m] /\ log[m] \in Decision  BY <1>2, <1>3, LogGrows DEF RateInv
    <3>2. log[m].req \in Requests /\ log[m].req # r  BY <1>4, <3>1 DEF Decision
    <3>3. QED  BY <1>3, <1>6, <3>1, <3>2 DEF RateInv, LogInv
  <2>2. log'[Len(log) + 1] = d /\ 1..Len(log') = 1..Len(log) \cup {Len(log) + 1}
    BY <1>2, <1>3, LogGrows DEF RateInv
  <2> SUFFICES ASSUME NEW m \in 1..Len(log')
               PROVE  /\ call'[log'[m].req].pc = "decided"
                      /\ log'[m].src \in Sources
                      /\ log'[m].src # Store => log'[m].src.life <= life'[log'[m].src.proc]
                      /\ \A n \in 1..Len(log') : log'[n].req = log'[m].req => n = m
    BY DEF LogInv, Sources
  <2>3. CASE m \in 1..Len(log)
    BY <1>2, <2>1, <2>2, <2>3
  <2>4. CASE m = Len(log) + 1
    BY <1>2, <1>3, <1>8, <2>1, <2>2, <2>4
  <2>5. QED  BY <2>2, <2>3, <2>4
<1>11. QED  BY <1>2, <1>3, <1>4, <1>7, <1>9, <1>10 DEF d

----------------------------------------------------------------------------
(* A denial leaves its bucket as it was: there was nothing to purge.       *)
LEMMA DenialKeeps ==
  ASSUME RateInv, NEW d \in Decision, log' = Append(log, d), ~d.admitted,
         UNCHANGED <<now, life, events, bucket>>,
         TypeOK', CallInv', LogInv',
         d.retry \in 1..(Window + MaxDelay),
         d.src = Store => Cardinality(LiveRows(d.host, d.at + d.retry)) < Limit,
         \A p \in Processes : d.src = Queue(p) =>
           (Len(bucket[p][d.host]) = Limit => bucket[p][d.host][1] + Window <= d.at + d.retry),
         \A m \in 1..Len(log) :
           /\ log[m].host = d.host /\ log[m].src = d.src /\ ~log[m].admitted
           /\ d.at >= Comeback(m)
           => \E k \in (m + 1)..Len(log) : SameBucket(k, m) /\ log[k].admitted
  PROVE  RateInv'
<1>1. TypeOK /\ Len(log) \in Nat /\ 1..Len(log') = 1..Len(log) \cup {Len(log) + 1}
      /\ Len(log') = Len(log) + 1
      /\ log'[Len(log) + 1] = d /\ \A n \in 1..Len(log) : log'[n] = log[n] /\ log[n] \in Decision
  BY LogGrows DEF RateInv
<1>2. \A h, src : Admitted(h, src)' = Admitted(h, src) /\ Admitted(h, src) \in SUBSET (1..Len(log))
  BY <1>1, AdmittedGrows
<1>3. \A h, src : Fresh(h, src)' = Fresh(h, src)
  BY <1>1, <1>2 DEF Fresh
<1>4. \A h, src, a : Stretch(h, src, a)' = Stretch(h, src, a)
  BY <1>1, <1>2 DEF Stretch
<1>5. BucketInv'
  <2>1. \A h : Rows(h)' = Rows(h)  BY DEF Rows
  <2>2. QED  BY <2>1 DEF RateInv, BucketInv
<1>6. StoreKeeps'
  <2>1. \A h : \A m \in Fresh(h, Store) : m \in 1..Len(log)  BY <1>2 DEF Fresh
  <2>2. QED  BY <1>1, <1>3, <2>1 DEF RateInv, StoreKeeps, RowOf, Store
<1>7. QueueKeeps'
  <2> SUFFICES ASSUME NEW p \in Processes, NEW h \in Hosts
               PROVE  \E f \in [Fresh(h, Queue(p))' -> 1..Len(bucket'[p][h])] :
                        /\ \A m \in Fresh(h, Queue(p))' : bucket'[p][h][f[m]] = log'[m].at
                        /\ \A m, i \in Fresh(h, Queue(p))' : f[m] = f[i] => m = i
    BY DEF QueueKeeps
  <2>1. Fresh(h, Queue(p))' = Fresh(h, Queue(p))
    BY <1>1, <1>2 DEF Fresh, Queue, Admitted
  <2>2. \A m \in Fresh(h, Queue(p)) : m \in 1..Len(log)  BY <1>2 DEF Fresh
  <2>3. PICK f \in [Fresh(h, Queue(p)) -> 1..Len(bucket[p][h])] :
          /\ \A m \in Fresh(h, Queue(p)) : bucket[p][h][f[m]] = log[m].at
          /\ \A m, i \in Fresh(h, Queue(p)) : f[m] = f[i] => m = i
    BY DEF RateInv, QueueKeeps
  <2>4. QED  BY <1>1, <2>1, <2>2, <2>3
<1>8. StretchInv'  BY <1>4 DEF RateInv, StretchInv, Sources, Store
<1>9. DenialInv'
  <2> SUFFICES ASSUME NEW m \in 1..Len(log'), ~log'[m].admitted
               PROVE  \/ \E k \in (m + 1)..Len(log') : SameBucket(k, m)' /\ log'[k].admitted
                      \/ /\ log'[m].src = Store => RoomInStore(m)'
                         /\ \A p \in Processes : log'[m].src = Queue(p)' => RoomInQueue(p, m)'
    BY DEF DenialInv, Store
  <2>1. CASE m \in 1..Len(log)
    <3>1. log'[m] = log[m] /\ ~log[m].admitted  BY <1>1, <2>1
    <3>2. \A k \in (m + 1)..Len(log) : k \in (m + 1)..Len(log') /\ log'[k] = log[k]
      BY <1>1, <2>1
    <3>3. \A k \in (m + 1)..Len(log) : SameBucket(k, m) => SameBucket(k, m)'
      BY <3>1, <3>2 DEF SameBucket
    <3>4. RoomInStore(m) => RoomInStore(m)'
      <4>1. \A h, t : LiveRows(h, t)' = LiveRows(h, t)  BY DEF LiveRows
      <4>2. QED  BY <3>1, <4>1 DEF RoomInStore, Comeback
    <3>5. \A p \in Processes : RoomInQueue(p, m) => RoomInQueue(p, m)'
      BY <3>1 DEF RoomInQueue, Comeback
    <3>6. \A p : Queue(p)' = Queue(p)  BY DEF Queue
    <3>7. \/ \E k \in (m + 1)..Len(log) : SameBucket(k, m) /\ log[k].admitted
          \/ /\ log[m].src = Store => RoomInStore(m)
             /\ \A p \in Processes : log[m].src = Queue(p) => RoomInQueue(p, m)
      BY <2>1, <3>1 DEF RateInv, DenialInv
    <3>8. QED  BY <3>1, <3>2, <3>3, <3>4, <3>5, <3>6, <3>7
  <2>2. CASE m = Len(log) + 1
    <3>1. log'[m] = d  BY <1>1, <2>2
    <3>2. d.src = Store => RoomInStore(m)'
      <4>1. \A h, t : LiveRows(h, t)' = LiveRows(h, t)  BY DEF LiveRows
      <4>2. QED  BY <3>1, <4>1 DEF RoomInStore, Comeback
    <3>3. \A p \in Processes : d.src = Queue(p)' => RoomInQueue(p, m)'
      BY <3>1 DEF RoomInQueue, Comeback, Queue
    <3>4. QED  BY <3>1, <3>2, <3>3
  <2>3. QED  BY <1>1, <2>1, <2>2
<1>10. RetryAfterHonest'
  <2>1. ASSUME NEW m \in 1..Len(log'), NEW n \in 1..Len(log'), m < n, SameBucket(m, n)',
               ~log'[m].admitted, ~log'[n].admitted, log'[n].at >= log'[m].at + log'[m].retry
        PROVE  \E k \in (m + 1)..(n - 1) : SameBucket(k, n)' /\ log'[k].admitted
    <3>1. m \in 1..Len(log) /\ log'[m] = log[m]  BY <1>1, <2>1
    <3>2. CASE n \in 1..Len(log)
      <4>1. log'[n] = log[n]  BY <1>1, <3>2
      <4>2. SameBucket(m, n) /\ ~log[m].admitted /\ ~log[n].admitted
            /\ log[n].at >= log[m].at + log[m].retry
        BY <2>1, <3>1, <4>1 DEF SameBucket
      <4>3. PICK k \in (m + 1)..(n - 1) : SameBucket(k, n) /\ log[k].admitted
        BY <2>1, <3>1, <3>2, <4>2 DEF RateInv, RetryAfterHonest
      <4>4. k \in 1..Len(log)  BY <1>1, <3>1, <3>2
      <4>5. log'[k] = log[k]  BY <1>1, <4>4
      <4>6. QED  BY <4>1, <4>3, <4>5 DEF SameBucket
    <3>3. CASE n = Len(log) + 1
      <4>1. log'[n] = d  BY <1>1, <3>3
      <4>2. log[m].host = d.host /\ log[m].src = d.src /\ ~log[m].admitted /\ d.at >= Comeback(m)
        BY <2>1, <3>1, <4>1 DEF SameBucket, Comeback
      <4>3. PICK k \in (m + 1)..Len(log) : SameBucket(k, m) /\ log[k].admitted
        BY <3>1, <4>2
      <4>4. k \in 1..Len(log) /\ k \in (m + 1)..(n - 1)  BY <1>1, <3>1, <3>3
      <4>5. log'[k] = log[k]  BY <1>1, <4>4
      <4>6. QED  BY <4>1, <4>2, <4>3, <4>4, <4>5 DEF SameBucket
    <3>4. QED  BY <1>1, <3>2, <3>3
  <2>2. \A n \in 1..Len(log') : ~log'[n].admitted => log'[n].retry \in 1..(Window + MaxDelay)
    <3> SUFFICES ASSUME NEW n \in 1..Len(log'), ~log'[n].admitted
                 PROVE  log'[n].retry \in 1..(Window + MaxDelay)
      OBVIOUS
    <3>1. CASE n \in 1..Len(log)
      BY <1>1, <3>1 DEF RateInv, RetryAfterHonest
    <3>2. CASE n = Len(log) + 1
      BY <1>1, <3>2
    <3>3. QED  BY <1>1, <3>1, <3>2
  <2>3. QED  BY <2>1, <2>2 DEF RetryAfterHonest
<1>11. QED
  BY <1>5, <1>6, <1>7, <1>8, <1>9, <1>10 DEF RateInv

LEMMA StoreDeniesKeeps ==
  ASSUME RateInv, NEW r \in Requests, StoreDenies(r)
  PROVE  RateInv'
<1> DEFINE h == call[r].host
           t == call[r].at
           live == LiveRows(h, t)
           retry == RetryAfter(t, Oldest(live))
           d == Decided(r, Store, FALSE, retry)
<1>1. /\ call[r].pc = "store" /\ Cardinality(live) >= Limit
      /\ events' = OtherRows(h) \cup live /\ Decide(r, Store, FALSE, retry)
      /\ UNCHANGED <<now, life, bucket>>
  BY DEF StoreDenies, Decide
<1>2. /\ h \in Hosts /\ t \in Nat /\ now \in Nat /\ t <= now /\ now <= t + MaxDelay
      /\ Limit \in Nat \ {0} /\ Window \in Nat \ {0} /\ MaxDelay \in Nat /\ Len(log) \in Nat
  BY <1>1, CallFacts DEF Waiting
<1>3. TypeOK /\ events \in SUBSET Event  BY DEF RateInv, TypeOK
<1>4. live \in SUBSET Rows(h) /\ live \in SUBSET events  BY DEF LiveRows, Rows
<1>5. Cardinality(live) = Limit /\ live = Rows(h)
  BY <1>1, <1>2, <1>4, RowsFacts
<1>6. events' = events
  BY <1>1, <1>5 DEF OtherRows, Rows
<1>7. live # {}
  BY <1>2, <1>5, FS_EmptySet
<1>8. /\ Oldest(live) \in Nat
      /\ \E e \in live : e.at = Oldest(live)
      /\ \A e \in live : Oldest(live) <= e.at
  BY <1>3, <1>4, <1>7, OldestFacts
<1>9. t - Window < Oldest(live) /\ Oldest(live) <= now
  <2>1. \A e \in live : e.at > t - Window /\ e.at <= now
    BY <1>4 DEF LiveRows, RateInv, BucketInv
  <2>2. QED  BY <1>8, <2>1
<1>10. retry \in 1..(Window + MaxDelay) /\ t + retry = Window + Oldest(live)
  <2> HIDE DEF live, t
  <2>1. QED  BY <1>2, <1>8, <1>9 DEF RetryAfter, Max2
<1>11. /\ d \in Decision /\ log' = Append(log, d) /\ CallInv' /\ LogInv'
       /\ call' \in [Requests -> Call]
  <2>1. retry \in Nat /\ Store \in Sources  BY <1>2, <1>10 DEF Sources
  <2> HIDE DEF retry
  <2>2. QED  BY <1>1, <2>1, DecisionLogged DEF Waiting
<1>12. d.host = h /\ d.at = t /\ d.src = Store /\ d.retry = retry /\ ~d.admitted
  BY DEF Decided
<1>13. TypeOK'
  <2>1. log' \in Seq(Decision)  BY <1>3, <1>11, LogGrows
  <2>2. QED  BY <1>1, <1>3, <1>6, <1>11, <2>1 DEF TypeOK
<1>14. Cardinality(LiveRows(h, t + retry)) < Limit
  <2>1. (t + retry) - Window = Oldest(live)
    <3> HIDE DEF retry, t, live
    <3>1. QED  BY <1>2, <1>8, <1>10
  <2>2. \A e \in LiveRows(h, t + retry) : e.at > (t + retry) - Window
    BY DEF LiveRows
  <2>3. LiveRows(h, t + retry) \in SUBSET Rows(h)  BY DEF LiveRows, Rows
  <2>4. LiveRows(h, t + retry) # Rows(h)
    <3>1. PICK e \in live : e.at = Oldest(live)  BY <1>8
    <3>2. e \notin LiveRows(h, t + retry)
      <4> HIDE DEF live, t, retry, h
      <4>1. ~ (e.at > Oldest(live))  BY <1>8, <3>1
      <4>2. QED  BY <2>1, <2>2, <4>1
    <3>3. QED  BY <1>4, <3>1, <3>2
  <2>5. QED  BY <1>2, <2>3, <2>4, RowsFacts
<1>15. ASSUME NEW m \in 1..Len(log), log[m].host = h, log[m].src = Store,
              ~log[m].admitted, t >= Comeback(m)
       PROVE  \E k \in (m + 1)..Len(log) : SameBucket(k, m) /\ log[k].admitted
  <2>1. ~RoomInStore(m)
    <3>1. Comeback(m) \in Nat
      BY <1>3, ComebackType
    <3>2. \A e \in events : e.at \in Nat  BY <1>3 DEF Event
    <3>3. live \in SUBSET LiveRows(h, Comeback(m))
      BY <1>2, <1>15, <3>1, <3>2 DEF LiveRows
    <3>4. LiveRows(h, Comeback(m)) \in SUBSET Rows(h)  BY DEF LiveRows, Rows
    <3>5. LiveRows(h, Comeback(m)) = Rows(h)  BY <1>5, <3>3, <3>4
    <3>6. Cardinality(LiveRows(h, Comeback(m))) = Limit  BY <1>5, <3>5
    <3>7. QED  BY <1>2, <1>15, <3>6 DEF RoomInStore
  <2>2. QED  BY <1>15, <2>1 DEF RateInv, DenialInv
<1>16. \A p \in Processes : d.src # Queue(p)
  <2> HIDE DEF d
  <2>1. QED  BY <1>12, SourcesDiffer
<1> HIDE DEF d, live, retry, h, t
<1>17. QED
  BY <1>1, <1>6, <1>10, <1>11, <1>12, <1>13, <1>14, <1>15, <1>16, DenialKeeps

LEMMA FallbackDeniesKeeps ==
  ASSUME RateInv, NEW r \in Requests, FallbackDenies(r)
  PROVE  RateInv'
<1> DEFINE h == call[r].host
           p == call[r].proc
           t == call[r].at
           queue == Purged(bucket[p][h], t)
           retry == RetryAfter(t, queue[1])
           src == [proc |-> p, life |-> life[p]]
           d == Decided(r, src, FALSE, retry)
<1>1. /\ call[r].pc = "fallback" /\ Len(queue) >= Limit
      /\ bucket' = [bucket EXCEPT ![p][h] = queue] /\ Decide(r, src, FALSE, retry)
      /\ UNCHANGED <<now, life, events>>
  BY DEF FallbackDenies, Decide
<1>2. /\ h \in Hosts /\ p \in Processes
      /\ t \in Nat /\ now \in Nat /\ t <= now /\ now <= t + MaxDelay
      /\ Limit \in Nat \ {0} /\ Window \in Nat \ {0} /\ MaxDelay \in Nat /\ Len(log) \in Nat
  BY <1>1, CallFacts DEF Waiting
<1>3. TypeOK /\ bucket \in [Processes -> [Hosts -> Seq(Nat)]] /\ bucket[p][h] \in Seq(Nat)
      /\ life \in [Processes -> Nat]
  BY <1>2 DEF RateInv, TypeOK
<1>4. Len(bucket[p][h]) \in Nat /\ Len(bucket[p][h]) <= Limit
  BY <1>2, <1>3, LenProperties DEF RateInv, BucketInv
<1>5. PICK k \in 1..(Len(bucket[p][h]) + 1) :
         /\ queue \in Seq(Nat)
         /\ Len(queue) = Len(bucket[p][h]) - k + 1
         /\ \A i \in 1..Len(queue) : queue[i] = bucket[p][h][i + k - 1]
         /\ k <= Len(bucket[p][h]) => bucket[p][h][k] > t - Window
  BY <1>2, <1>3, PurgedFacts
<1>6. k = 1 /\ Len(queue) = Limit /\ Len(bucket[p][h]) = Limit
  <2> DEFINE len == Len(bucket[p][h])
             left == Len(queue)
  <2>1. left >= Limit /\ len \in Nat /\ len <= Limit /\ k \in 1..(len + 1)
        /\ left = len - k + 1
    BY <1>1, <1>4, <1>5
  <2> HIDE DEF len, left
  <2>2. k = 1 /\ left = Limit /\ len = Limit  BY <1>2, <2>1
  <2>3. QED  BY <2>2 DEF len, left
<1>7. queue = bucket[p][h]
  <2>1. \A i \in 1..Len(queue) : queue[i] = bucket[p][h][i]
    BY <1>5, <1>6
  <2> HIDE DEF queue
  <2>2. queue \in Seq(Nat) /\ Len(queue) = Len(bucket[p][h])
    BY <1>5, <1>6
  <2> HIDE DEF p, h
  <2>3. QED  BY <1>3, <2>1, <2>2, SeqEqual
<1>8. bucket' = bucket
  <2> HIDE DEF queue, p, h
  <2>1. QED  BY <1>1, <1>2, <1>3, <1>7
<1>9. queue[1] \in Nat /\ t - Window < queue[1] /\ queue[1] <= now
  <2>1. 1 \in 1..Len(bucket[p][h])  BY <1>2, <1>6
  <2>2. bucket[p][h][1] \in Nat /\ bucket[p][h][1] <= now
    BY <1>2, <1>3, <2>1, ElementOfSeq DEF RateInv, BucketInv
  <2>3. bucket[p][h][1] > t - Window  BY <1>2, <1>5, <1>6
  <2> HIDE DEF queue, t
  <2>4. QED  BY <1>2, <1>7, <2>2, <2>3
<1>10. retry \in 1..(Window + MaxDelay) /\ t + retry = Window + queue[1]
  <2> HIDE DEF queue, t
  <2>1. QED  BY <1>2, <1>9 DEF RetryAfter, Max2
<1>11. /\ d \in Decision /\ log' = Append(log, d) /\ CallInv' /\ LogInv'
       /\ call' \in [Requests -> Call]
  <2>1. retry \in Nat /\ src \in Sources /\ src.proc \in Processes /\ src.life <= life[src.proc]
    BY <1>2, <1>3, <1>10 DEF Sources
  <2> HIDE DEF retry, src
  <2>2. QED  BY <1>1, <2>1, DecisionLogged DEF Waiting
<1>12. d.host = h /\ d.at = t /\ d.src = Queue(p) /\ d.retry = retry /\ ~d.admitted
  BY DEF Decided, Queue
<1>13. TypeOK'
  <2>1. log' \in Seq(Decision)  BY <1>3, <1>11, LogGrows
  <2>2. QED  BY <1>1, <1>3, <1>8, <1>11, <2>1 DEF TypeOK
<1>14. \A q \in Processes : d.src = Queue(q) => q = p
  <2> HIDE DEF d, p
  <2>1. QED  BY <1>2, <1>12, SourcesDiffer
<1>15. ASSUME NEW m \in 1..Len(log), log[m].host = h, log[m].src = Queue(p),
              ~log[m].admitted, t >= Comeback(m)
       PROVE  \E i \in (m + 1)..Len(log) : SameBucket(i, m) /\ log[i].admitted
  <2>1. ~RoomInQueue(p, m)
    <3>1. Comeback(m) \in Nat
      BY <1>3, ComebackType
    <3>2. RoomInQueue(p, m) <=> (Len(queue) = Limit => queue[1] + Window <= Comeback(m))
      BY <1>7, <1>15 DEF RoomInQueue
    <3> HIDE DEF queue, t
    <3>3. QED  BY <1>2, <1>6, <1>9, <1>15, <3>1, <3>2
  <2>2. QED  BY <1>2, <1>15, <2>1 DEF RateInv, DenialInv
<1>16. bucket[p][h][1] + Window <= t + retry
  <2> HIDE DEF queue, retry, t, h, p
  <2>1. QED  BY <1>2, <1>7, <1>9, <1>10
<1>17. d.src # Store
  <2> HIDE DEF d, p
  <2>1. QED  BY <1>2, <1>12, SourcesDiffer
<1> HIDE DEF d, queue, retry, h, t, p
<1>18. \A q \in Processes : d.src = Queue(q) =>
           (Len(bucket[q][d.host]) = Limit => bucket[q][d.host][1] + Window <= d.at + d.retry)
  BY <1>12, <1>14, <1>16
<1>19. QED
  BY <1>1, <1>8, <1>10, <1>11, <1>12, <1>13, <1>15, <1>17, <1>18, DenialKeeps

----------------------------------------------------------------------------
(* An admission adds to what is fresh in its own bucket only.              *)
LEMMA FreshGrows ==
  ASSUME TypeOK, NEW d \in Decision, log' = Append(log, d), now' = now, NEW h, NEW src
  PROVE  /\ Fresh(h, src) \in SUBSET (1..Len(log))
         /\ Fresh(h, src)' \in SUBSET (Fresh(h, src) \cup {Len(log) + 1})
         /\ Len(log) + 1 \in Fresh(h, src)' => d.host = h /\ d.src = src
         /\ \A m \in Fresh(h, src)' : m \in Fresh(h, src) \/ m = Len(log) + 1
<1>1. /\ Admitted(h, src) \in SUBSET (1..Len(log))
      /\ Admitted(h, src)' \in SUBSET (Admitted(h, src) \cup {Len(log) + 1})
      /\ Len(log) + 1 \in Admitted(h, src)' => d.host = h /\ d.src = src
  <2>1. Len(log) + 1 \notin 1..Len(log)  BY LogGrows
  <2>2. QED  BY <2>1, AdmittedGrows
<1>2. \A m \in 1..Len(log) : log'[m] = log[m]  BY LogGrows
<1>3. QED  BY <1>1, <1>2 DEF Fresh

(* A stretch that the request lies in holds only requests that its bucket  *)
(* still remembers; those are fewer than the limit.                        *)
LEMMA StretchGrows ==
  ASSUME RateInv, NEW d \in Decision, log' = Append(log, d), UNCHANGED now,
         d.at <= now, now <= d.at + MaxDelay,
         NEW K, IsFiniteSet(K), Cardinality(K) < Limit,
         NEW f \in [Fresh(d.host, d.src) -> K],
         \A m, i \in Fresh(d.host, d.src) : f[m] = f[i] => m = i
  PROVE  StretchInv'
<1> SUFFICES ASSUME NEW h \in Hosts, NEW src \in Sources, NEW a \in Nat
             PROVE  IsFiniteSet(Stretch(h, src, a)') /\ Cardinality(Stretch(h, src, a)') <= Limit
  BY DEF StretchInv, Sources, Store
<1>1. /\ TypeOK /\ now \in Nat /\ Limit \in Nat \ {0} /\ Window \in Nat \ {0} /\ MaxDelay \in Nat
      /\ d.at \in Nat
  BY RateLimitAssumption DEF RateInv, TypeOK, Decision
<1>2. IsFiniteSet(Stretch(h, src, a)) /\ Cardinality(Stretch(h, src, a)) <= Limit
  BY DEF RateInv, StretchInv
<1>3. /\ Admitted(h, src) \in SUBSET (1..Len(log))
      /\ Admitted(h, src)' = IF d.admitted /\ d.host = h /\ d.src = src
                             THEN Admitted(h, src) \cup {Len(log) + 1} ELSE Admitted(h, src)
  BY <1>1, AdmittedGrows
<1>4. /\ \A m \in Admitted(h, src) : log'[m] = log[m] /\ log[m].at \in Nat
      /\ log'[Len(log) + 1] = d
  BY <1>1, <1>3, LogGrows, ComebackType
<1> DEFINE inside == d.at \in a .. (a + Window - MaxDelay - 1)
           mine == d.admitted /\ d.host = h /\ d.src = src /\ inside
<1>5. CASE ~mine
  <2>1. Stretch(h, src, a)' = Stretch(h, src, a)
    BY <1>3, <1>4, <1>5 DEF Stretch
  <2>2. QED  BY <1>2, <2>1
<1>6. CASE mine
  <2>1. Stretch(h, src, a)' = Stretch(h, src, a) \cup {Len(log) + 1}
    BY <1>3, <1>4, <1>6 DEF Stretch
  <2>2. ASSUME NEW m \in Stretch(h, src, a) PROVE m \in Fresh(h, src)
    <3>1. m \in Admitted(h, src) /\ log[m].at \in a .. (a + Window - MaxDelay - 1)
      BY DEF Stretch
    <3>2. log[m].at \in Nat  BY <1>4, <3>1
    <3>3. inside  BY <1>6
    <3>4. now < log[m].at + Window  BY <1>1, <3>1, <3>2, <3>3
    <3>5. QED  BY <3>1, <3>4 DEF Fresh
  <2> DEFINE g == [m \in Stretch(h, src, a) |-> f[m]]
  <2>3. g \in Injection(Stretch(h, src, a), K)
    <3>1. \A m \in Stretch(h, src, a) : m \in Fresh(d.host, d.src)  BY <1>6, <2>2
    <3>2. \A m \in Stretch(h, src, a) : f[m] \in K  BY <3>1
    <3>3. g \in [Stretch(h, src, a) -> K]  BY <3>2
    <3>4. \A m, n \in Stretch(h, src, a) : g[m] = g[n] => m = n  BY <3>1
    <3>5. QED  BY <3>3, <3>4 DEF Injection, IsInjective
  <2>4. Cardinality(Stretch(h, src, a)) <= Cardinality(K)  BY <2>3, FS_Injection
  <2>5. Cardinality(Stretch(h, src, a)) < Limit
    BY <1>1, <1>2, <2>4, FS_CardinalityType
  <2> DEFINE S == Stretch(h, src, a)
  <2>6. IsFiniteSet(S) /\ Cardinality(S) < Limit  BY <1>2, <2>5
  <2> HIDE DEF S
  <2>7. /\ IsFiniteSet(S \cup {Len(log) + 1})
        /\ Cardinality(S \cup {Len(log) + 1}) <= Limit
    BY <2>6, OneMore
  <2>8. QED  BY <2>1, <2>7 DEF S
<1>7. QED  BY <1>5, <1>6

(* An admission touches no bucket but its own, where it ends what every    *)
(* denial has promised.                                                    *)
LEMMA DenialsPassed ==
  ASSUME RateInv, NEW d \in Decision, log' = Append(log, d), d.admitted,
         UNCHANGED <<now, life>>,
         \A h, t : h # d.host \/ d.src # Store => LiveRows(h, t)' = LiveRows(h, t),
         \A p \in Processes, h \in Hosts :
           h # d.host \/ d.src # Queue(p) => bucket'[p][h] = bucket[p][h]
  PROVE  DenialInv' /\ RetryAfterHonest'
<1>1. /\ TypeOK /\ Len(log) \in Nat /\ 1..Len(log') = 1..Len(log) \cup {Len(log) + 1}
      /\ Len(log') = Len(log) + 1
      /\ log'[Len(log) + 1] = d /\ \A n \in 1..Len(log) : log'[n] = log[n] /\ log[n] \in Decision
  BY LogGrows DEF RateInv
<1>2. DenialInv'
  <2> SUFFICES ASSUME NEW m \in 1..Len(log'), ~log'[m].admitted
               PROVE  \/ \E k \in (m + 1)..Len(log') : SameBucket(k, m)' /\ log'[k].admitted
                      \/ /\ log'[m].src = Store => RoomInStore(m)'
                         /\ \A p \in Processes : log'[m].src = Queue(p)' => RoomInQueue(p, m)'
    BY DEF DenialInv, Store
  <2>1. m \in 1..Len(log) /\ log'[m] = log[m] /\ ~log[m].admitted /\ log[m].host \in Hosts
    BY <1>1 DEF Decision
  <2>2. CASE log[m].host = d.host /\ log[m].src = d.src
    <3>1. PICK k \in (m + 1)..Len(log') : k = Len(log) + 1  BY <1>1, <2>1
    <3>2. log'[k] = d  BY <1>1, <3>1
    <3>3. SameBucket(k, m)' /\ log'[k].admitted
      BY <2>1, <2>2, <3>2 DEF SameBucket
    <3>4. QED  BY <3>3
  <2>3. CASE ~ (log[m].host = d.host /\ log[m].src = d.src)
    <3>1. \A k \in (m + 1)..Len(log) : k \in (m + 1)..Len(log') /\ log'[k] = log[k]
      BY <1>1, <2>1
    <3>2. \A k \in (m + 1)..Len(log) : SameBucket(k, m) => SameBucket(k, m)'
      BY <2>1, <3>1 DEF SameBucket
    <3>3. log[m].src = Store /\ RoomInStore(m) => RoomInStore(m)'
      <4>1. log[m].src = Store =>
              \A t : LiveRows(log[m].host, t)' = LiveRows(log[m].host, t)
        BY <2>3
      <4>2. QED  BY <2>1, <4>1 DEF RoomInStore, Comeback
    <3>4. ASSUME NEW p \in Processes, log[m].src = Queue(p), RoomInQueue(p, m)
          PROVE  RoomInQueue(p, m)'
      <4>1. bucket'[p][log[m].host] = bucket[p][log[m].host]
        BY <2>1, <2>3, <3>4
      <4>2. QED  BY <2>1, <3>4, <4>1 DEF RoomInQueue, Comeback
    <3>5. \A p : Queue(p)' = Queue(p)  BY DEF Queue
    <3>6. \/ \E k \in (m + 1)..Len(log) : SameBucket(k, m) /\ log[k].admitted
          \/ /\ log[m].src = Store => RoomInStore(m)
             /\ \A p \in Processes : log[m].src = Queue(p) => RoomInQueue(p, m)
      BY <2>1 DEF RateInv, DenialInv
    <3>7. QED  BY <2>1, <3>1, <3>2, <3>3, <3>4, <3>5, <3>6
  <2>4. QED  BY <2>2, <2>3
<1>3. RetryAfterHonest'
  <2>1. ASSUME NEW m \in 1..Len(log'), NEW n \in 1..Len(log'), m < n, SameBucket(m, n)',
               ~log'[m].admitted, ~log'[n].admitted, log'[n].at >= log'[m].at + log'[m].retry
        PROVE  \E k \in (m + 1)..(n - 1) : SameBucket(k, n)' /\ log'[k].admitted
    <3>1. /\ m \in 1..Len(log) /\ log'[m] = log[m]
          /\ n \in 1..Len(log) /\ log'[n] = log[n]
      BY <1>1, <2>1
    <3>2. SameBucket(m, n) /\ ~log[m].admitted /\ ~log[n].admitted
          /\ log[n].at >= log[m].at + log[m].retry
      BY <2>1, <3>1 DEF SameBucket
    <3>3. PICK k \in (m + 1)..(n - 1) : SameBucket(k, n) /\ log[k].admitted
      BY <2>1, <3>1, <3>2 DEF RateInv, RetryAfterHonest
    <3>4. k \in 1..Len(log)  BY <1>1, <3>1
    <3>5. log'[k] = log[k]  BY <1>1, <3>4
    <3>6. QED  BY <3>1, <3>3, <3>5 DEF SameBucket
  <2>2. \A n \in 1..Len(log') : ~log'[n].admitted => log'[n].retry \in 1..(Window + MaxDelay)
    <3>1. \A n \in 1..Len(log') : ~log'[n].admitted => n \in 1..Len(log) /\ log'[n] = log[n]
      BY <1>1
    <3>2. QED  BY <3>1 DEF RateInv, RetryAfterHonest
  <2>3. QED  BY <2>1, <2>2 DEF RetryAfterHonest
<1>4. QED  BY <1>2, <1>3

(* A queue that an admission does not touch remembers what it did.         *)
LEMMA OtherQueuesKeep ==
  ASSUME RateInv, NEW d \in Decision, log' = Append(log, d), UNCHANGED <<now, life>>,
         NEW p \in Processes, NEW h \in Hosts,
         h # d.host \/ d.src # Queue(p), bucket'[p][h] = bucket[p][h]
  PROVE  \E f \in [Fresh(h, Queue(p))' -> 1..Len(bucket'[p][h])] :
           /\ \A m \in Fresh(h, Queue(p))' : bucket'[p][h][f[m]] = log'[m].at
           /\ \A m, i \in Fresh(h, Queue(p))' : f[m] = f[i] => m = i
<1>1. PICK f \in [Fresh(h, Queue(p)) -> 1..Len(bucket[p][h])] :
        /\ \A m \in Fresh(h, Queue(p)) : bucket[p][h][f[m]] = log[m].at
        /\ \A m, i \in Fresh(h, Queue(p)) : f[m] = f[i] => m = i
  BY DEF RateInv, QueueKeeps
<1> DEFINE s == [proc |-> p, life |-> life[p]]
<1>2. Queue(p) = s /\ Queue(p)' = s  BY DEF Queue
<1>3. Fresh(h, Queue(p))' = Fresh(h, s)'  BY <1>2 DEF Fresh, Admitted
<1>4. /\ Fresh(h, s)' \in SUBSET Fresh(h, s) /\ Fresh(h, s) \in SUBSET (1..Len(log))
      /\ TypeOK
  BY <1>2, FreshGrows DEF RateInv
<1>5. \A m \in Fresh(h, s)' : m \in Fresh(h, Queue(p)) /\ log'[m] = log[m]
  BY <1>2, <1>4, LogGrows
<1> DEFINE g == [m \in Fresh(h, Queue(p))' |-> f[m]]
<1>6. g \in [Fresh(h, Queue(p))' -> 1..Len(bucket'[p][h])]
  BY <1>1, <1>3, <1>5
<1>7. /\ \A m \in Fresh(h, Queue(p))' : bucket'[p][h][g[m]] = log'[m].at
      /\ \A m, n \in Fresh(h, Queue(p))' : g[m] = g[n] => m = n
  BY <1>1, <1>3, <1>5
<1>8. QED  BY <1>6, <1>7

LEMMA StoreAdmitsKeeps ==
  ASSUME RateInv, NEW r \in Requests, StoreAdmits(r)
  PROVE  RateInv'
<1> DEFINE h == call[r].host
           t == call[r].at
           live == LiveRows(h, t)
           row == [req |-> r, host |-> h, at |-> t]
           d == Decided(r, Store, TRUE, 0)
<1>1. /\ call[r].pc = "store" /\ Cardinality(live) < Limit
      /\ events' = OtherRows(h) \cup live \cup {row} /\ Decide(r, Store, TRUE, 0)
      /\ UNCHANGED <<now, life, bucket>>
  BY DEF StoreAdmits, Decide
<1>2. /\ h \in Hosts /\ t \in Nat /\ now \in Nat /\ t <= now /\ now <= t + MaxDelay
      /\ Limit \in Nat \ {0} /\ Window \in Nat \ {0} /\ MaxDelay \in Nat /\ Len(log) \in Nat
  BY <1>1, CallFacts DEF Waiting
<1>3. TypeOK /\ events \in SUBSET Event /\ IsFiniteSet(events)
  BY DEF RateInv, TypeOK, BucketInv
<1>4. /\ d \in Decision /\ log' = Append(log, d) /\ CallInv' /\ LogInv'
      /\ call' \in [Requests -> Call]
  <2>1. Store \in Sources /\ 0 \in Nat  BY DEF Sources
  <2>2. QED  BY <1>1, <2>1, DecisionLogged DEF Waiting
<1>5. d.req = r /\ d.host = h /\ d.at = t /\ d.src = Store /\ d.admitted
  BY DEF Decided
<1>6. row \in Event /\ row.host = h /\ row.at = t /\ row.req = r
  BY <1>2 DEF Event
<1>7. /\ live \in SUBSET events /\ \A e \in live : e.host = h
      /\ \A e \in events : e.host = h /\ e.at > t - Window => e \in live
      /\ OtherRows(h) \in SUBSET events /\ \A e \in events : e.host # h <=> e \in OtherRows(h)
  BY DEF LiveRows, OtherRows
<1> HIDE DEF d, live, row, h, t
<1>8. TypeOK'
  <2>1. log' \in Seq(Decision)  BY <1>3, <1>4, LogGrows
  <2>2. events' \in SUBSET Event  BY <1>1, <1>3, <1>6, <1>7
  <2>3. QED  BY <1>1, <1>3, <1>4, <2>1, <2>2 DEF TypeOK
<1>9. IsFiniteSet(live)  BY <1>3, <1>7, FS_Subset
<1>10. BucketInv'
  <2>1. IsFiniteSet(events')
    <3>1. IsFiniteSet(events \cup {row})  BY <1>3, FS_AddElement
    <3>2. events' \in SUBSET (events \cup {row})  BY <1>1, <1>7
    <3>3. QED  BY <3>1, <3>2, FS_Subset
  <2>2. \A e \in events' : e.at <= now'
    BY <1>1, <1>2, <1>6, <1>7 DEF RateInv, BucketInv
  <2>3. ASSUME NEW g \in Hosts PROVE Cardinality(Rows(g)') <= Limit
    <3>1. CASE g = h
      <4>1. Rows(g)' = live \cup {row}  BY <1>1, <1>6, <1>7, <3>1 DEF Rows
      <4>2. Cardinality(live \cup {row}) <= Limit  BY <1>1, <1>9, OneMore
      <4>3. QED  BY <4>1, <4>2
    <3>2. CASE g # h
      <4>1. Rows(g)' = Rows(g)  BY <1>1, <1>6, <1>7, <3>2 DEF Rows
      <4>2. QED  BY <4>1 DEF RateInv, BucketInv
    <3>3. QED  BY <3>1, <3>2
  <2>4. QED  BY <1>1, <2>1, <2>2, <2>3 DEF RateInv, BucketInv
<1>11. StoreKeeps'
  <2> SUFFICES ASSUME NEW g \in Hosts, NEW m \in Fresh(g, Store)' PROVE RowOf(m)' \in events'
    BY DEF StoreKeeps, Store
  <2>1. /\ Fresh(g, Store) \in SUBSET (1..Len(log))
        /\ m \in Fresh(g, Store) \/ m = Len(log) + 1
    <3> DEFINE s == Store
    <3> HIDE DEF s
    <3>1. m \in Fresh(g, s)'  BY DEF s, Fresh, Admitted, Store
    <3>2. QED  BY <1>1, <1>3, <1>4, <3>1, FreshGrows DEF s
  <2>2. CASE m = Len(log) + 1
    <3>1. log'[m] = d  BY <1>3, <1>4, <2>2, LogGrows
    <3>2. RowOf(m)' = row  BY <1>5, <3>1 DEF RowOf, row
    <3>3. QED  BY <1>1, <3>2
  <2>3. CASE m \in Fresh(g, Store)
    <3>1. log'[m] = log[m] /\ m \in 1..Len(log)  BY <1>3, <1>4, <2>1, <2>3, LogGrows
    <3>2. RowOf(m)' = RowOf(m) /\ RowOf(m).at = log[m].at  BY <3>1 DEF RowOf
    <3>3. RowOf(m) \in events  BY <2>3 DEF RateInv, StoreKeeps
    <3>4. RowOf(m).host = h => RowOf(m).at > t - Window
      <4>1. now < log[m].at + Window /\ log[m].at \in Nat
        BY <1>3, <2>3, <3>1, ComebackType DEF Fresh
      <4>2. QED  BY <1>2, <3>2, <4>1
    <3>5. QED  BY <1>1, <1>7, <3>2, <3>3, <3>4
  <2>4. QED  BY <2>1, <2>2, <2>3
<1>12. \A p \in Processes : d.src # Queue(p)
  BY <1>5, SourcesDiffer
<1>13. QueueKeeps'
  <2> SUFFICES ASSUME NEW p \in Processes, NEW g \in Hosts
               PROVE  \E f \in [Fresh(g, Queue(p))' -> 1..Len(bucket'[p][g])] :
                        /\ \A m \in Fresh(g, Queue(p))' : bucket'[p][g][f[m]] = log'[m].at
                        /\ \A m, i \in Fresh(g, Queue(p))' : f[m] = f[i] => m = i
    BY DEF QueueKeeps
  <2>1. QED  BY <1>1, <1>4, <1>12, OtherQueuesKeep
<1>14. StretchInv'
  <2> DEFINE f == [m \in Fresh(h, Store) |-> RowOf(m)]
  <2>1. Fresh(h, Store) \in SUBSET (1..Len(log))  BY DEF Fresh, Admitted
  <2>2. ASSUME NEW m \in Fresh(h, Store) PROVE RowOf(m) \in live /\ RowOf(m).req = log[m].req
    <3>1. RowOf(m) \in events  BY <1>2 DEF RateInv, StoreKeeps
    <3>2. RowOf(m).host = h /\ RowOf(m).at = log[m].at /\ RowOf(m).req = log[m].req
      BY DEF RowOf, Fresh, Admitted
    <3>3. now < log[m].at + Window /\ log[m].at \in Nat
      BY <1>3, <2>1, ComebackType DEF Fresh
    <3>4. log[m].at > t - Window  BY <1>2, <3>3
    <3>5. QED  BY <1>7, <3>1, <3>2, <3>4
  <2>3. f \in [Fresh(h, Store) -> live]  BY <2>2
  <2>4. \A m, i \in Fresh(h, Store) : f[m] = f[i] => m = i
    <3> SUFFICES ASSUME NEW m \in Fresh(h, Store), NEW n \in Fresh(h, Store), f[m] = f[n]
                 PROVE  m = n
      OBVIOUS
    <3>1. log[m].req = log[n].req  BY <2>2
    <3>2. QED  BY <2>1, <3>1 DEF RateInv, LogInv
  <2> HIDE DEF f
  <2>5. QED  BY <1>1, <1>2, <1>4, <1>5, <1>9, <2>3, <2>4, StretchGrows
<1>15. \A g, x : g # d.host \/ d.src # Store => LiveRows(g, x)' = LiveRows(g, x)
  <2> SUFFICES ASSUME NEW g, NEW x, g # h PROVE LiveRows(g, x)' = LiveRows(g, x)
    BY <1>5
  <2>1. \A e : e.host = g => (e \in events' <=> e \in events)
    BY <1>1, <1>6, <1>7
  <2>2. QED  BY <2>1 DEF LiveRows
<1>16. DenialInv' /\ RetryAfterHonest'
  BY <1>1, <1>4, <1>5, <1>15, DenialsPassed
<1>17. QED
  BY <1>4, <1>8, <1>10, <1>11, <1>13, <1>14, <1>16 DEF RateInv

LEMMA FallbackAdmitsKeeps ==
  ASSUME RateInv, NEW r \in Requests, FallbackAdmits(r)
  PROVE  RateInv'
<1>0. call[r].pc = "fallback" /\ life \in [Processes -> Nat]
  BY DEF FallbackAdmits, RateInv, TypeOK
<1> PICK h \in Hosts, p \in Processes, t \in Nat, n \in Nat :
      h = call[r].host /\ p = call[r].proc /\ t = call[r].at /\ n = life[p]
  BY <1>0, CallFacts DEF Waiting
<1> DEFINE queue == Purged(bucket[p][h], t)
           longer == Append(queue, t)
           s == [proc |-> p, life |-> n]
           d == Decided(r, s, TRUE, 0)
<1>1. /\ call[r].pc = "fallback" /\ Len(queue) < Limit
      /\ bucket' = [bucket EXCEPT ![p][h] = longer] /\ Decide(r, s, TRUE, 0)
      /\ UNCHANGED <<now, life, events>>
  BY DEF FallbackAdmits, Decide
<1>2. /\ h \in Hosts /\ p \in Processes
      /\ t \in Nat /\ now \in Nat /\ t <= now /\ now <= t + MaxDelay
      /\ Limit \in Nat \ {0} /\ Window \in Nat \ {0} /\ MaxDelay \in Nat /\ Len(log) \in Nat
  BY <1>1, CallFacts DEF Waiting
<1>3. TypeOK /\ bucket \in [Processes -> [Hosts -> Seq(Nat)]] /\ bucket[p][h] \in Seq(Nat)
      /\ life \in [Processes -> Nat]
  BY <1>2 DEF RateInv, TypeOK
<1>4. /\ Len(bucket[p][h]) \in Nat
      /\ \A i \in 1..Len(bucket[p][h]) : bucket[p][h][i] \in Nat /\ bucket[p][h][i] <= now
  BY <1>2, <1>3, LenProperties, ElementOfSeq DEF RateInv, BucketInv
<1>5. PICK k \in 1..(Len(bucket[p][h]) + 1) :
         /\ queue \in Seq(Nat)
         /\ Len(queue) = Len(bucket[p][h]) - k + 1
         /\ \A i \in 1..Len(queue) : queue[i] = bucket[p][h][i + k - 1]
         /\ \A i \in 1..(k - 1) : bucket[p][h][i] <= t - Window
  <2> DEFINE b == bucket[p][h]
  <2>1. b \in Seq(Nat)  BY <1>3
  <2> HIDE DEF b
  <2>2. \E k \in 1..(Len(b) + 1) :
           /\ Purged(b, t) \in Seq(Nat)
           /\ Len(Purged(b, t)) = Len(b) - k + 1
           /\ \A i \in 1..Len(Purged(b, t)) : Purged(b, t)[i] = b[i + k - 1]
           /\ \A i \in 1..(k - 1) : b[i] <= t - Window
           /\ k <= Len(b) => b[k] > t - Window
    BY <2>1, PurgedFacts
  <2>3. QED  BY <2>2 DEF b
<1>6. /\ longer \in Seq(Nat) /\ Len(longer) = Len(queue) + 1
      /\ \A i \in 1..Len(queue) : longer[i] = queue[i]
      /\ longer[Len(queue) + 1] = t
  <2>1. queue \in Seq(Nat)  BY <1>5
  <2> HIDE DEF queue
  <2>2. QED  BY <2>1, AppendProperties
<1>7. /\ d \in Decision /\ log' = Append(log, d) /\ CallInv' /\ LogInv'
      /\ call' \in [Requests -> Call]
  <2>1. s \in Sources /\ s.proc \in Processes /\ s.life <= life[s.proc] /\ 0 \in Nat
    BY <1>2, <1>3 DEF Sources
  <2> HIDE DEF s
  <2>2. QED  BY <1>1, <2>1, DecisionLogged DEF Waiting
<1>8. /\ d.req = r /\ d.host = h /\ d.at = t /\ d.src = s /\ d.admitted
      /\ Queue(p) = s /\ Queue(p)' = s
  <2>1. Queue(p) = s /\ Queue(p)' = s  BY <1>1 DEF Queue
  <2>2. QED  BY <2>1 DEF Decided
<1>9. d.src # Store /\ \A q \in Processes : d.src = Queue(q) => q = p
  <2> HIDE DEF d, s
  <2>1. QED  BY <1>2, <1>8, SourcesDiffer
<1> HIDE DEF d, queue, longer, s
<1>10. /\ bucket' \in [Processes -> [Hosts -> Seq(Nat)]]
       /\ \A q \in Processes, g \in Hosts :
            bucket'[q][g] = IF q = p /\ g = h THEN longer ELSE bucket[q][g]
  BY <1>1, <1>2, <1>3, <1>6
<1>11. Len(queue) \in Nat /\ k \in Nat /\ k >= 1  BY <1>4, <1>5
<1>12. TypeOK'
  <2>1. log' \in Seq(Decision)  BY <1>3, <1>7, LogGrows
  <2>2. QED  BY <1>1, <1>3, <1>7, <1>10, <2>1 DEF TypeOK
<1>13. BucketInv'
  <2>1. \A g : Rows(g)' = Rows(g)  BY <1>1 DEF Rows
  <2>2. Len(longer) <= Limit  BY <1>1, <1>2, <1>6, <1>11
  <2>3. ASSUME NEW i \in 1..Len(longer) PROVE longer[i] <= now
    <3>1. CASE i \in 1..Len(queue)
      <4>1. i + k - 1 \in 1..Len(bucket[p][h])  BY <1>4, <1>5, <1>11, <3>1
      <4>2. longer[i] = bucket[p][h][i + k - 1]  BY <1>5, <1>6, <3>1
      <4>3. QED  BY <1>4, <4>1, <4>2
    <3>2. CASE i = Len(queue) + 1
      BY <1>2, <1>6, <3>2
    <3>3. QED  BY <1>6, <1>11, <3>1, <3>2
  <2>4. QED  BY <1>1, <1>10, <2>1, <2>2, <2>3 DEF RateInv, BucketInv
<1>14. StoreKeeps'
  <2> SUFFICES ASSUME NEW g \in Hosts, NEW m \in Fresh(g, Store)' PROVE RowOf(m)' \in events'
    BY DEF StoreKeeps, Store
  <2> DEFINE store == Store
  <2>1. d.src # store /\ m \in Fresh(g, store)'
    BY <1>9 DEF store, Fresh, Admitted, Store
  <2> HIDE DEF store
  <2>2. m \in Fresh(g, store) /\ m \in 1..Len(log)
    BY <1>1, <1>3, <1>7, <2>1, FreshGrows
  <2>3. log'[m] = log[m]  BY <1>3, <1>7, <2>2, LogGrows
  <2>4. RowOf(m)' = RowOf(m)  BY <2>3 DEF RowOf
  <2>5. QED  BY <1>1, <2>2, <2>4 DEF RateInv, StoreKeeps, store
<1>15. PICK f \in [Fresh(h, s) -> 1..Len(bucket[p][h])] :
         /\ \A m \in Fresh(h, s) : bucket[p][h][f[m]] = log[m].at
         /\ \A m, i \in Fresh(h, s) : f[m] = f[i] => m = i
  <2> DEFINE Kept(source) ==
               \E f \in [Fresh(h, source) -> 1..Len(bucket[p][h])] :
                 /\ \A m \in Fresh(h, source) : bucket[p][h][f[m]] = log[m].at
                 /\ \A m, i \in Fresh(h, source) : f[m] = f[i] => m = i
  <2>1. Kept(Queue(p))
    <3>1. QueueKeeps  BY DEF RateInv
    <3>2. QED  BY ONLY <3>1, p \in Processes, h \in Hosts DEF QueueKeeps
  <2>2. Queue(p) = s  BY <1>8
  <2>3. Kept(s)
    <3> HIDE DEF Kept
    <3>1. QED  BY <2>1, <2>2
  <2>4. QED  BY <2>3
<1>16. Fresh(h, s) \in SUBSET (1..Len(log))  BY DEF Fresh, Admitted
<1>17. ASSUME NEW m \in Fresh(h, s) PROVE f[m] \in k..Len(bucket[p][h])
  <2>1. f[m] \in 1..Len(bucket[p][h]) /\ bucket[p][h][f[m]] = log[m].at  BY <1>15
  <2>2. now < log[m].at + Window /\ log[m].at \in Nat
    BY <1>3, <1>16, ComebackType DEF Fresh
  <2>3. ~ (bucket[p][h][f[m]] <= t - Window)
    <3> DEFINE at == log[m].at
    <3>1. now < at + Window /\ at \in Nat  BY <2>2
    <3> HIDE DEF at
    <3>2. t \in Nat /\ now \in Nat /\ Window \in Nat /\ t <= now  BY <1>2
    <3>3. ~ (at <= t - Window)  BY ONLY <3>1, <3>2
    <3>4. QED  BY <2>1, <3>3 DEF at
  <2>4. ~ (f[m] \in 1..(k - 1))  BY <1>5, <2>3
  <2>5. QED  BY <1>4, <1>11, <2>1, <2>4
<1>18. QueueKeeps'
  <2> SUFFICES ASSUME NEW q \in Processes, NEW g \in Hosts
               PROVE  \E e \in [Fresh(g, Queue(q))' -> 1..Len(bucket'[q][g])] :
                        /\ \A m \in Fresh(g, Queue(q))' : bucket'[q][g][e[m]] = log'[m].at
                        /\ \A m, i \in Fresh(g, Queue(q))' : e[m] = e[i] => m = i
    BY DEF QueueKeeps
  <2>1. CASE q # p \/ g # h
    <3>1. bucket'[q][g] = bucket[q][g]  BY <1>10, <2>1
    <3>2. g # d.host \/ d.src # Queue(q)  BY <1>8, <1>9, <2>1
    <3>3. QED  BY <1>1, <1>7, <3>1, <3>2, OtherQueuesKeep
  <2>2. CASE q = p /\ g = h
    <3> DEFINE F == Fresh(h, s)'
               e == [m \in F |-> IF m \in Fresh(h, s) THEN f[m] - k + 1 ELSE Len(queue) + 1]
    <3>1. F = Fresh(g, Queue(q))'  BY <1>8, <2>2 DEF Fresh, Admitted
    <3>2. bucket'[q][g] = longer  BY <1>10, <2>2
    <3>3. \A m \in F : m \in Fresh(h, s) \/ m = Len(log) + 1
      BY <1>1, <1>3, <1>7, FreshGrows
    <3>4. ASSUME NEW m \in F, m \in Fresh(h, s)
          PROVE  /\ f[m] - k + 1 \in 1..Len(queue) /\ longer[f[m] - k + 1] = log'[m].at
      <4>1. f[m] - k + 1 \in 1..Len(queue)
        <5> DEFINE x == f[m]
                   len == Len(bucket[p][h])
        <5>1. x \in k..len /\ len \in Nat /\ Len(queue) = len - k + 1
          BY <1>4, <1>5, <1>17, <3>4
        <5> HIDE DEF x, len
        <5>2. x - k + 1 \in 1..Len(queue)  BY <1>11, <5>1
        <5>3. QED  BY <5>2 DEF x
      <4>2. (f[m] - k + 1) + k - 1 = f[m]  BY <1>4, <1>11, <1>17, <3>4
      <4>3. longer[f[m] - k + 1] = bucket[p][h][f[m]]
        BY <1>5, <1>6, <4>1, <4>2
      <4>4. log'[m] = log[m]  BY <1>3, <1>7, <1>16, <3>4, LogGrows
      <4>5. QED  BY <1>15, <3>4, <4>1, <4>3, <4>4
    <3>5. ASSUME NEW m \in F, m \notin Fresh(h, s)
          PROVE  m = Len(log) + 1 /\ log'[m].at = t
      BY <1>3, <1>7, <1>8, <3>3, <3>5, LogGrows
    <3>6. ASSUME NEW m \in F
          PROVE  /\ e[m] \in 1..Len(longer) /\ longer[e[m]] = log'[m].at
                 /\ m \in Fresh(h, s) => e[m] = f[m] - k + 1 /\ e[m] \in 1..Len(queue)
                 /\ m \notin Fresh(h, s) => e[m] = Len(queue) + 1
      BY <1>6, <1>11, <3>4, <3>5
    <3> HIDE DEF F
    <3>7. e \in [F -> 1..Len(longer)]  BY <3>6
    <3> HIDE DEF e
    <3>8. \A m, i \in F : e[m] = e[i] => m = i
      <4> SUFFICES ASSUME NEW m \in F, NEW i \in F, e[m] = e[i] PROVE m = i
        OBVIOUS
      <4>1. CASE m \in Fresh(h, s) /\ i \in Fresh(h, s)
        <5>1. f[m] \in Int /\ f[i] \in Int  BY <1>4, <1>17, <4>1
        <5>2. f[m] - k + 1 = f[i] - k + 1  BY <3>6, <4>1
        <5>3. f[m] = f[i]  BY <1>11, <5>1, <5>2
        <5>4. QED  BY <1>15, <4>1, <5>3
      <4>2. CASE ~ (m \in Fresh(h, s) /\ i \in Fresh(h, s))
        <5>1. m \notin Fresh(h, s) /\ i \notin Fresh(h, s)
          BY <1>11, <3>6, <4>2
        <5>2. QED  BY <3>5, <5>1
      <4>3. QED  BY <4>1, <4>2
    <3>9. QED  BY <3>1, <3>2, <3>6, <3>7, <3>8
  <2>3. QED  BY <2>1, <2>2
<1>19. StretchInv'
  <2> DEFINE K == k..Len(bucket[p][h])
  <2>1. IsFiniteSet(K) /\ Cardinality(K) < Limit
    <3> DEFINE len == Len(bucket[p][h])
    <3>1. len \in Int /\ k \in Int /\ Len(queue) = len - k + 1  BY <1>4, <1>5, <1>11
    <3> HIDE DEF len
    <3>2. IsFiniteSet(k..len) /\ Cardinality(k..len) = IF k > len THEN 0 ELSE len - k + 1
      BY <3>1, FS_Interval
    <3>3. QED  BY <1>1, <1>2, <3>1, <3>2 DEF len
  <2>2. f \in [Fresh(h, s) -> K]  BY <1>15, <1>17
  <2> HIDE DEF K
  <2>3. QED  BY <1>1, <1>2, <1>7, <1>8, <1>15, <2>1, <2>2, StretchGrows
<1>20. DenialInv' /\ RetryAfterHonest'
  <2>1. \A g, x : LiveRows(g, x)' = LiveRows(g, x)  BY <1>1 DEF LiveRows
  <2>2. \A q \in Processes, g \in Hosts :
          g # d.host \/ d.src # Queue(q) => bucket'[q][g] = bucket[q][g]
    BY <1>8, <1>10
  <2>3. QED  BY <1>1, <1>7, <1>8, <2>1, <2>2, DenialsPassed
<1>21. QED
  BY <1>7, <1>12, <1>13, <1>14, <1>18, <1>19, <1>20 DEF RateInv

----------------------------------------------------------------------------
(* Steps that decide nothing.                                              *)
LEMMA NothingDecided ==
  ASSUME RateInv, UNCHANGED <<events, bucket, life, log>>, now' \in Nat, now <= now',
         call' \in [Requests -> Call], CallInv',
         \A r \in Requests : call[r].pc = "decided" => call'[r].pc = "decided"
  PROVE  RateInv'
<1>1. /\ TypeOK /\ now \in Nat /\ Window \in Nat /\ events \in SUBSET Event
      /\ bucket \in [Processes -> [Hosts -> Seq(Nat)]]
  BY RateLimitAssumption DEF RateInv, TypeOK
<1>2. \A m \in 1..Len(log) : log[m] \in Decision /\ log[m].req \in Requests /\ log[m].at \in Nat
  BY <1>1, ComebackType DEF Decision
<1>3. TypeOK'  BY <1>1 DEF TypeOK
<1>4. LogInv'
  BY <1>2 DEF RateInv, LogInv, Sources, Store
<1>5. \A h, src : Fresh(h, src)' \in SUBSET Fresh(h, src)
  <2> SUFFICES ASSUME NEW h, NEW src, NEW m \in Fresh(h, src)' PROVE m \in Fresh(h, src)
    OBVIOUS
  <2>1. m \in Admitted(h, src) /\ now' < log[m].at + Window  BY DEF Fresh, Admitted
  <2>2. log[m].at \in Nat  BY <1>2, <2>1 DEF Admitted
  <2>3. now < log[m].at + Window  BY <1>1, <2>1, <2>2
  <2>4. QED  BY <2>1, <2>3 DEF Fresh
<1>6. BucketInv'
  <2>1. \A h : Rows(h)' = Rows(h)  BY DEF Rows
  <2>2. \A e \in events : e.at <= now'
    BY <1>1 DEF Event, RateInv, BucketInv
  <2>3. \A p \in Processes, h \in Hosts : \A i \in 1..Len(bucket[p][h]) : bucket[p][h][i] <= now'
    <3> SUFFICES ASSUME NEW p \in Processes, NEW h \in Hosts, NEW i \in 1..Len(bucket[p][h])
                 PROVE  bucket[p][h][i] <= now'
      OBVIOUS
    <3>1. bucket[p][h] \in Seq(Nat)  BY <1>1
    <3>2. bucket[p][h][i] \in Nat  BY <3>1, ElementOfSeq
    <3>3. bucket[p][h][i] <= now  BY DEF RateInv, BucketInv
    <3>4. QED  BY <1>1, <3>2, <3>3
  <2>4. QED  BY <2>1, <2>2, <2>3 DEF RateInv, BucketInv
<1>7. StoreKeeps'
  <2>1. \A m : RowOf(m)' = RowOf(m)  BY DEF RowOf
  <2>2. QED  BY <1>5, <2>1 DEF RateInv, StoreKeeps, Store
<1>8. QueueKeeps'
  <2> SUFFICES ASSUME NEW p \in Processes, NEW h \in Hosts
               PROVE  \E f \in [Fresh(h, Queue(p))' -> 1..Len(bucket'[p][h])] :
                        /\ \A m \in Fresh(h, Queue(p))' : bucket'[p][h][f[m]] = log'[m].at
                        /\ \A m, i \in Fresh(h, Queue(p))' : f[m] = f[i] => m = i
    BY DEF QueueKeeps
  <2>1. PICK f \in [Fresh(h, Queue(p)) -> 1..Len(bucket[p][h])] :
          /\ \A m \in Fresh(h, Queue(p)) : bucket[p][h][f[m]] = log[m].at
          /\ \A m, i \in Fresh(h, Queue(p)) : f[m] = f[i] => m = i
    BY DEF RateInv, QueueKeeps
  <2> DEFINE F == Fresh(h, Queue(p))'
  <2>2. F \in SUBSET Fresh(h, Queue(p))
    <3>1. PICK s : s = Queue(p)  OBVIOUS
    <3>2. F = Fresh(h, s)'  BY <3>1 DEF Queue, Fresh, Admitted
    <3> HIDE DEF F
    <3>3. QED  BY <1>5, <3>1, <3>2
  <2> HIDE DEF F
  <2> DEFINE e == [m \in F |-> f[m]]
  <2>3. e \in [F -> 1..Len(bucket[p][h])]  BY <2>1, <2>2
  <2>4. /\ \A m \in F : bucket[p][h][e[m]] = log[m].at
        /\ \A m, n \in F : e[m] = e[n] => m = n
    BY <2>1, <2>2
  <2> HIDE DEF e
  <2>5. QED  BY <2>3, <2>4 DEF F
<1>9. StretchInv'
  BY DEF RateInv, StretchInv, Stretch, Admitted, Sources, Store
<1>10. DenialInv' /\ RetryAfterHonest'
  <2>1. \A k, m : SameBucket(k, m)' <=> SameBucket(k, m)  BY DEF SameBucket
  <2>2. \A m : RoomInStore(m)' <=> RoomInStore(m)
    BY DEF RoomInStore, Comeback, LiveRows
  <2>3. \A p, m : RoomInQueue(p, m)' <=> RoomInQueue(p, m)  BY DEF RoomInQueue, Comeback
  <2>4. \A p : Queue(p)' = Queue(p)  BY DEF Queue
  <2>5. DenialInv'  BY <2>1, <2>2, <2>3, <2>4 DEF RateInv, DenialInv, Store
  <2>6. RetryAfterHonest'  BY <2>1 DEF RateInv, RetryAfterHonest
  <2>7. QED  BY <2>5, <2>6
<1>11. QED
  BY <1>3, <1>4, <1>6, <1>7, <1>8, <1>9, <1>10 DEF RateInv

LEMMA TickKeeps == RateInv /\ Tick => RateInv'
<1> SUFFICES ASSUME RateInv, Tick PROVE RateInv'
  OBVIOUS
<1>1. now \in Nat /\ now' = now + 1 /\ UNCHANGED <<events, bucket, life, call, log>>
      /\ call \in [Requests -> Call] /\ MaxDelay \in Nat
  BY RateLimitAssumption DEF Tick, RateInv, TypeOK
<1>2. CallInv'
  BY <1>1 DEF Tick, RateInv, CallInv, Waiting, Call
<1>3. QED  BY <1>1, <1>2, NothingDecided

LEMMA ArriveKeeps ==
  ASSUME RateInv, NEW r \in Requests, NEW h \in Hosts, NEW p \in Processes, Arrive(r, h, p)
  PROVE  RateInv'
<1>1. /\ now \in Nat /\ MaxDelay \in Nat /\ call \in [Requests -> Call]
      /\ UNCHANGED <<now, events, bucket, life, log>> /\ call[r].pc = "new"
      /\ call' = [call EXCEPT ![r] = [pc |-> "store", host |-> h, proc |-> p, at |-> now]]
  BY RateLimitAssumption DEF Arrive, RateInv, TypeOK
<1>2. call' \in [Requests -> Call]  BY <1>1 DEF Call
<1>3. CallInv'  BY <1>1 DEF RateInv, CallInv, Waiting
<1>4. QED  BY <1>1, <1>2, <1>3, NothingDecided

LEMMA StoreFailsKeeps ==
  ASSUME RateInv, NEW r \in Requests, StoreFails(r)
  PROVE  RateInv'
<1>1. /\ now \in Nat /\ MaxDelay \in Nat /\ call \in [Requests -> Call]
      /\ UNCHANGED <<now, events, bucket, life, log>> /\ call[r].pc = "store"
      /\ call' = [call EXCEPT ![r].pc = "fallback", ![r].at = now]
  BY RateLimitAssumption DEF StoreFails, RateInv, TypeOK
<1> DEFINE c == [call[r] EXCEPT !.pc = "fallback", !.at = now]
<1>2. c \in Call /\ c.host = call[r].host /\ c.proc = call[r].proc /\ c.at = now
      /\ c.pc = "fallback"
  BY <1>1 DEF Call
<1>3. \A s \in Requests : call'[s] = IF s = r THEN c ELSE call[s]
  BY <1>1
<1> HIDE DEF c
<1>4. call' \in [Requests -> Call]
  BY <1>1, <1>2, <1>3
<1>5. CallInv'  BY <1>1, <1>2, <1>3 DEF RateInv, CallInv, Waiting
<1>6. QED  BY <1>1, <1>2, <1>3, <1>4, <1>5, NothingDecided

(* No decision has been taken by the queue of the life that begins.        *)
LEMMA RestartKeeps ==
  ASSUME RateInv, NEW p \in Processes, Restart(p)
  PROVE  RateInv'
<1>1. /\ TypeOK /\ bucket \in [Processes -> [Hosts -> Seq(Nat)]] /\ life \in [Processes -> Nat]
      /\ call \in [Requests -> Call] /\ MaxDelay \in Nat /\ Limit \in Nat
  BY RateLimitAssumption DEF RateInv, TypeOK
<1>2. /\ life' \in [Processes -> Nat] /\ life'[p] = life[p] + 1
      /\ \A q \in Processes : q # p => life'[q] = life[q]
      /\ bucket' \in [Processes -> [Hosts -> Seq(Nat)]]
      /\ \A h \in Hosts : bucket'[p][h] = <<>>
      /\ \A q \in Processes : q # p => bucket'[q] = bucket[q]
      /\ UNCHANGED <<now, events, log>>
  BY <1>1, EmptySeq DEF Restart
<1>3. ASSUME NEW r \in Requests
      PROVE  /\ call'[r] \in Call
             /\ call[r].pc = "decided" => call'[r].pc = "decided"
             /\ call'[r].pc \in Waiting => call'[r] = call[r]
  <2>1. call'[r] = IF call[r].proc = p /\ call[r].pc \in {"store", "fallback"}
                   THEN [NewCall EXCEPT !.pc = "lost"] ELSE call[r]
    BY DEF Restart
  <2>2. [NewCall EXCEPT !.pc = "lost"] \in Call /\ [NewCall EXCEPT !.pc = "lost"].pc = "lost"
    BY DEF NewCall, Call
  <2>3. call[r] \in Call  BY <1>1
  <2>4. QED  BY <2>1, <2>2, <2>3 DEF Waiting
<1>4. TypeOK'
  <2>1. call' \in [Requests -> Call]  BY <1>3 DEF Restart
  <2>2. QED  BY <1>1, <1>2, <2>1 DEF TypeOK
<1>5. CallInv'  BY <1>2, <1>3 DEF RateInv, CallInv
<1>6. \A m \in 1..Len(log) : log[m] \in Decision /\ log[m].req \in Requests
  BY <1>1, ComebackType DEF Decision
<1>7. LogInv'
  <2> SUFFICES ASSUME NEW m \in 1..Len(log)
               PROVE  /\ call'[log[m].req].pc = "decided"
                      /\ log[m].src \in Sources
                      /\ log[m].src # Store => log[m].src.life <= life'[log[m].src.proc]
                      /\ \A n \in 1..Len(log) : log[n].req = log[m].req => n = m
    BY <1>2 DEF LogInv, Sources, Store
  <2>1. /\ call[log[m].req].pc = "decided" /\ log[m].src \in Sources
        /\ log[m].src # Store => log[m].src.life <= life[log[m].src.proc]
        /\ \A n \in 1..Len(log) : log[n].req = log[m].req => n = m
    BY DEF RateInv, LogInv
  <2>2. log[m].src # Store => log[m].src.life \in Nat /\ log[m].src.proc \in Processes
    BY <2>1 DEF Sources
  <2>3. call'[log[m].req].pc = "decided"  BY <1>3, <1>6, <2>1
  <2>4. \A q \in Processes : life[q] \in Nat /\ life'[q] \in Nat /\ life[q] <= life'[q]
    <3> SUFFICES ASSUME NEW q \in Processes
                 PROVE  life[q] \in Nat /\ life'[q] \in Nat /\ life[q] <= life'[q]
      OBVIOUS
    <3>1. life[q] \in Nat /\ life'[q] \in Nat  BY <1>1, <1>2
    <3>2. life'[q] = life[q] + 1 \/ life'[q] = life[q]  BY <1>2
    <3>3. QED  BY <3>1, <3>2
  <2>5. log[m].src # Store => log[m].src.life <= life'[log[m].src.proc]
    BY <2>1, <2>2, <2>4
  <2>6. QED  BY <2>1, <2>3, <2>5
<1>8. BucketInv'
  <2>1. \A h : Rows(h)' = Rows(h)  BY <1>2 DEF Rows
  <2>2. ASSUME NEW q \in Processes, NEW h \in Hosts
        PROVE  /\ Len(bucket'[q][h]) <= Limit
               /\ \A i \in 1..Len(bucket'[q][h]) : bucket'[q][h][i] <= now
    <3>1. CASE q = p  BY <1>1, <1>2, <3>1, EmptySeq
    <3>2. CASE q # p  BY <1>2, <3>2 DEF RateInv, BucketInv
    <3>3. QED  BY <3>1, <3>2
  <2>3. QED  BY <1>2, <2>1, <2>2 DEF RateInv, BucketInv
<1>9. StoreKeeps'
  <2>1. \A h : Fresh(h, Store)' = Fresh(h, Store)  BY <1>2 DEF Fresh, Admitted, Store
  <2>2. \A m : RowOf(m)' = RowOf(m)  BY <1>2 DEF RowOf
  <2>3. QED  BY <1>2, <2>1, <2>2 DEF RateInv, StoreKeeps
<1>10. \A m \in 1..Len(log) : log[m].src # Queue(p)'
  <2> SUFFICES ASSUME NEW m \in 1..Len(log), log[m].src = Queue(p)' PROVE FALSE
    OBVIOUS
  <2>1. log[m].src.proc = p /\ log[m].src.life = life[p] + 1
    BY <1>2 DEF Queue
  <2>2. log[m].src # Store
    BY <2>1, RateLimitAssumption DEF Store
  <2>3. log[m].src.life <= life[p]  BY <2>1, <2>2 DEF RateInv, LogInv
  <2>4. QED  BY <1>1, <2>1, <2>3
<1>11. \A q \in Processes : q # p => Queue(q)' = Queue(q)
  BY <1>2 DEF Queue
<1>12. QueueKeeps'
  <2> SUFFICES ASSUME NEW q \in Processes, NEW h \in Hosts
               PROVE  \E f \in [Fresh(h, Queue(q))' -> 1..Len(bucket'[q][h])] :
                        /\ \A m \in Fresh(h, Queue(q))' : bucket'[q][h][f[m]] = log'[m].at
                        /\ \A m, i \in Fresh(h, Queue(q))' : f[m] = f[i] => m = i
    BY DEF QueueKeeps
  <2>1. CASE q = p
    <3>1. Fresh(h, Queue(p))' = {}
      BY <1>2, <1>10 DEF Fresh, Admitted
    <3>2. [m \in {} |-> 1] \in [{} -> 1..Len(bucket'[q][h])]  OBVIOUS
    <3>3. QED  BY <2>1, <3>1, <3>2
  <2>2. CASE q # p
    <3>1. Fresh(h, Queue(q))' = Fresh(h, Queue(q))
      BY <1>2, <1>11, <2>2 DEF Fresh, Admitted
    <3>2. PICK f \in [Fresh(h, Queue(q)) -> 1..Len(bucket[q][h])] :
            /\ \A m \in Fresh(h, Queue(q)) : bucket[q][h][f[m]] = log[m].at
            /\ \A m, i \in Fresh(h, Queue(q)) : f[m] = f[i] => m = i
      BY DEF RateInv, QueueKeeps
    <3>3. bucket'[q][h] = bucket[q][h] /\ log' = log  BY <1>2, <2>2
    <3>4. QED  BY <3>1, <3>2, <3>3
  <2>3. QED  BY <2>1, <2>2
<1>13. StretchInv'
  <2>1. \A h, src, a : Stretch(h, src, a)' = Stretch(h, src, a)
    BY <1>2 DEF Stretch, Admitted
  <2>2. QED  BY <2>1 DEF RateInv, StretchInv, Sources, Store
<1>14. DenialInv'
  <2> SUFFICES ASSUME NEW m \in 1..Len(log), ~log[m].admitted
               PROVE  \/ \E k \in (m + 1)..Len(log) : SameBucket(k, m)' /\ log[k].admitted
                      \/ /\ log[m].src = Store => RoomInStore(m)'
                         /\ \A q \in Processes : log[m].src = Queue(q)' => RoomInQueue(q, m)'
    BY <1>2 DEF DenialInv, Store
  <2>1. \A k : SameBucket(k, m)' <=> SameBucket(k, m)  BY <1>2 DEF SameBucket
  <2>2. RoomInStore(m)' <=> RoomInStore(m)
    BY <1>2 DEF RoomInStore, Comeback, LiveRows
  <2>3. \A q \in Processes : q # p => (RoomInQueue(q, m)' <=> RoomInQueue(q, m))
    BY <1>2 DEF RoomInQueue, Comeback
  <2>4. \/ \E k \in (m + 1)..Len(log) : SameBucket(k, m) /\ log[k].admitted
        \/ /\ log[m].src = Store => RoomInStore(m)
           /\ \A q \in Processes : log[m].src = Queue(q) => RoomInQueue(q, m)
    BY DEF RateInv, DenialInv
  <2>5. QED  BY <1>10, <1>11, <2>1, <2>2, <2>3, <2>4
<1>15. RetryAfterHonest'
  <2>1. \A k, m : SameBucket(k, m)' <=> SameBucket(k, m)  BY <1>2 DEF SameBucket
  <2>2. QED  BY <1>2, <2>1 DEF RateInv, RetryAfterHonest
<1>16. QED
  BY <1>4, <1>5, <1>7, <1>8, <1>9, <1>12, <1>13, <1>14, <1>15 DEF RateInv

LEMMA RateStutters == RateInv /\ UNCHANGED vars => RateInv'
<1> SUFFICES ASSUME RateInv, UNCHANGED vars PROVE RateInv'
  OBVIOUS
<1>1. UNCHANGED <<now, events, bucket, life, call, log>>  BY DEF vars
<1>2. now' \in Nat /\ now <= now' /\ call' \in [Requests -> Call] /\ CallInv'
  BY <1>1 DEF RateInv, TypeOK, CallInv
<1>3. QED  BY <1>1, <1>2, NothingDecided

LEMMA RateNextKeeps == RateInv /\ [Next]_vars => RateInv'
<1> SUFFICES ASSUME RateInv, [Next]_vars PROVE RateInv'
  OBVIOUS
<1>1. CASE Tick  BY <1>1, TickKeeps
<1>2. CASE \E p \in Processes : Restart(p)  BY <1>2, RestartKeeps
<1>3. ASSUME NEW r \in Requests, NEW h \in Hosts, NEW p \in Processes, Arrive(r, h, p)
      PROVE  RateInv'
  BY <1>3, ArriveKeeps
<1>4. ASSUME NEW r \in Requests,
             StoreAdmits(r) \/ StoreDenies(r) \/ StoreFails(r)
               \/ FallbackAdmits(r) \/ FallbackDenies(r)
      PROVE  RateInv'
  BY <1>4, StoreAdmitsKeeps, StoreDeniesKeeps, StoreFailsKeeps, FallbackAdmitsKeeps,
     FallbackDeniesKeeps
<1>5. CASE UNCHANGED vars  BY <1>5, RateStutters
<1>6. QED  BY <1>1, <1>2, <1>3, <1>4, <1>5 DEF Next

----------------------------------------------------------------------------
(* The variables of the rate limit keep their types, and its buckets what  *)
(* the lemmas above need (live_search_rate_limit.py, the fallback buckets, *)
(* and ops_state_store.py, consume_rate_limit_token).                      *)
THEOREM RateLimitInvariant == Spec => []RateInv
<1>1. Init => RateInv  BY RateInitInv
<1>2. RateInv /\ [Next]_vars => RateInv'  BY RateNextKeeps
<1>3. QED  BY <1>1, <1>2, PTL DEF Spec

(* However processes, clocks and restarts interleave, no bucket admits     *)
(* more than the limit of a host in a stretch shorter than the window by   *)
(* the longest wait for the lock (ops_state_store.py, the purge and the    *)
(* count in one transaction).                                              *)
THEOREM WindowIsRespected == Spec => []WindowRespected
<1>1. RateInv => WindowRespected
  <2> SUFFICES ASSUME RateInv, NEW n \in 1..Len(log)
               PROVE  Cardinality(Stretch(log[n].host, log[n].src, log[n].at)) <= Limit
    BY DEF WindowRespected, Stretch
  <2>1. log[n].host \in Hosts /\ log[n].at \in Nat
    BY ComebackType DEF RateInv, Decision
  <2>2. log[n].src \in Sources  BY DEF RateInv, LogInv
  <2>3. QED  BY <2>1, <2>2 DEF RateInv, StretchInv
<1>2. QED  BY <1>1, RateLimitInvariant, PTL

(* A request that comes back when Retry-After says is admitted, unless its *)
(* bucket has admitted another one meanwhile; and it is never told to wait *)
(* for longer than the window and a wait for the lock                      *)
(* (live_search_rate_limit.py, retry_after).                             *)
THEOREM RetryAfterIsHonest == Spec => []RetryAfterHonest
<1>1. RateInv => RetryAfterHonest  BY DEF RateInv
<1>2. QED  BY <1>1, RateLimitInvariant, PTL
=============================================================================
