-------------------------- MODULE ForwardingProofs --------------------------
(***************************************************************************)
(* Proofs about forward mode (Forwarding), for any number of queries and   *)
(* upstreams, any timeout and any answers: type correctness, the bound on  *)
(* a client's wait, the order of fail-over, that answers and entries are   *)
(* what upstreams sent, and that the shared cache implements LeaseTable.   *)
(***************************************************************************)
EXTENDS Forwarding, CacheLemmas, SequenceTheorems

-----------------------------------------------------------------------------
(* The inductive invariant.                                                *)

(* How long after its arrival a query may wait for upstream u: both waits  *)
(* for each upstream before it, and the datagram's or both for u.          *)
Allowed(transport, u) ==
    IF transport = "udp" THEN (2 * u - 1) * Timeout ELSE 2 * u * Timeout

(* No deadline lies behind, and none too far ahead: a new one is set no    *)
(* later than the one before it.                                           *)
OnTime(t) ==
    Waiting(t) => /\ now <= deadline[t]
                  /\ deadline[t] <= arrived[t] + Allowed(phase[t], upstream[t])

(* Errors are not cached, so a SERVFAIL never comes from the cache.        *)
ErrorsUncached ==
    \A k \in Key : store[k] # NoEntry => store[k].rcode \in {"NOERROR", "NXDOMAIN"}

VarTypes ==
    /\ CacheTypeOK
    /\ phase \in [Task -> {"idle", "udp", "tcp"}]
    /\ question \in [Task -> Question \cup {Nothing}]
    /\ upstream \in [Task -> 1 .. Upstreams]
    /\ deadline \in [Task -> Nat] /\ arrived \in [Task -> Nat]
    /\ handled \in [Task -> Handled \cup {Nothing}]
    /\ received \in 0 .. MaxQueries
    /\ failed \in [Task -> Seq(1 .. Upstreams)]

(* The list of the first n upstreams.                                      *)
Tried(n) == [i \in 1 .. n |-> i]

(* The upstreams that failed a task, as TriedInOrder has it.               *)
FailedInOrder(t) ==
    IF Waiting(t) THEN failed[t] = Tried(upstream[t] - 1)
    ELSE handled[t] # Nothing =>
        IF handled[t].upstream # 0
        THEN failed[t] = Tried(handled[t].upstream - 1)
        ELSE failed[t] = IF handled[t].rcode = "SERVFAIL" THEN Tried(Upstreams) ELSE <<>>

TaskOK(t) ==
    /\ Waiting(t) => question[t] # Nothing
    /\ OnTime(t)
    /\ FailedInOrder(t)

IInv ==
    /\ VarTypes
    /\ ErrorsUncached
    /\ \A t \in Task : TaskOK(t)

LEMMA InvariantImplies == IInv => TypeOK /\ TriedInOrder
BY DEF IInv, VarTypes, TaskOK, FailedInOrder, TypeOK, TriedInOrder, Tried

-----------------------------------------------------------------------------
(* The budget.                                                             *)

LEMMA AllowedProperties ==
    ASSUME NEW u \in Nat \ {0}
    PROVE  /\ Allowed("udp", u) \in Nat
           /\ Allowed("tcp", u) \in Nat
           /\ Allowed("udp", u) >= Timeout
           /\ Allowed("tcp", u) = Allowed("udp", u) + Timeout
           /\ Allowed("udp", u + 1) = Allowed("tcp", u) + Timeout
<1>1. Timeout \in Nat /\ u * Timeout \in Nat
  BY ForwardingConstants
<1>2. /\ (2 * u - 1) * Timeout = 2 * (u * Timeout) - Timeout
      /\ 2 * u * Timeout = 2 * (u * Timeout)
      /\ (2 * (u + 1) - 1) * Timeout = 2 * (u * Timeout) + Timeout
  BY ForwardingConstants
<1>3. u * Timeout >= Timeout
  BY ForwardingConstants
<1> QED
  BY <1>1, <1>2, <1>3 DEF Allowed

LEMMA AllowedAtMost ==
    ASSUME NEW u \in 1 .. Upstreams, NEW transport \in {"udp", "tcp"}
    PROVE  /\ Allowed(transport, u) \in Nat
           /\ Allowed(transport, u) <= 2 * Timeout * Upstreams
<1>1. u \in Nat \ {0} /\ Timeout \in Nat /\ Upstreams \in Nat
  BY ForwardingConstants
<1>2. u * Timeout <= Upstreams * Timeout
  BY <1>1
<1>3. 2 * u * Timeout = 2 * (u * Timeout) /\ 2 * Timeout * Upstreams = 2 * (Upstreams * Timeout)
  BY <1>1
<1>4. Allowed("tcp", u) <= 2 * Timeout * Upstreams
  BY <1>1, <1>2, <1>3 DEF Allowed
<1> QED
  BY <1>1, <1>4, AllowedProperties

LEMMA TriedOneMore ==
    ASSUME NEW n \in Nat
    PROVE  /\ Tried(n) \in Seq(Nat)
           /\ Len(Tried(n)) = n
           /\ Append(Tried(n), n + 1) = Tried(n + 1)
           /\ Tried(0) = <<>>
<1>1. Tried(n) \in Seq(Nat) /\ Len(Tried(n)) = n
  BY DEF Tried
<1>2. Tried(n + 1) \in Seq(Nat) /\ Len(Tried(n + 1)) = n + 1
  BY DEF Tried
<1>3. /\ Append(Tried(n), n + 1) \in Seq(Nat)
      /\ Len(Append(Tried(n), n + 1)) = n + 1
      /\ \A i \in 1 .. n : Append(Tried(n), n + 1)[i] = Tried(n)[i]
      /\ Append(Tried(n), n + 1)[n + 1] = n + 1
  BY <1>1, AppendProperties
<1>4. \A i \in 1 .. n + 1 : Append(Tried(n), n + 1)[i] = Tried(n + 1)[i]
  <2> SUFFICES ASSUME NEW i \in 1 .. n + 1
               PROVE  Append(Tried(n), n + 1)[i] = Tried(n + 1)[i]
    OBVIOUS
  <2>1. CASE i = n + 1
    BY <1>3, <2>1 DEF Tried
  <2>2. CASE i \in 1 .. n
    BY <1>3, <2>2 DEF Tried
  <2>3. i = n + 1 \/ i \in 1 .. n
    OBVIOUS
  <2> QED
    BY <2>1, <2>2, <2>3
<1>5. Append(Tried(n), n + 1) = Tried(n + 1)
  BY <1>2, <1>3, <1>4, SeqEqual
<1>6. Tried(0) = <<>>
  BY DEF Tried
<1> QED
  BY <1>1, <1>5, <1>6

-----------------------------------------------------------------------------
(* What the parts of the actions do.                                       *)

LEMMA QuestionType ==
    ASSUME VarTypes, NEW t \in Task, question[t] # Nothing
    PROVE  /\ question[t] \in Question
           /\ question[t] \in Key
           /\ Asked(t) \in Name \X RType
<1>1. question[t] \in Question
  BY DEF VarTypes
<1>2. question[t] \in Key
  BY <1>1, ForwardingConstants
<1> QED
  BY <1>1, <1>2 DEF Asked, Key

LEMMA ResponseType ==
    ASSUME NEW rcode \in RCode, NEW answers \in Seq(Record), NEW authorities \in Seq(Record)
    PROVE  /\ Response(rcode, answers, authorities) \in Handled
           /\ Response(rcode, answers, authorities).upstream = 0
           /\ Response(rcode, answers, authorities).rcode = rcode
<1>1. 0 \in 0 .. Upstreams
  BY ForwardingConstants
<1> QED
  BY <1>1 DEF Response, Handled

LEMMA HandledExcept ==
    ASSUME NEW h \in Handled, NEW u \in 0 .. Upstreams
    PROVE  /\ [h EXCEPT !.cache_hit = TRUE] \in Handled
           /\ [h EXCEPT !.cache_hit = TRUE].upstream = h.upstream
           /\ [h EXCEPT !.cache_hit = TRUE].rcode = h.rcode
           /\ [h EXCEPT !.upstream = u] \in Handled
           /\ [h EXCEPT !.upstream = u].upstream = u
BY DEF Handled

(* A task that has its response.                                           *)
LEMMA RespondStep ==
    ASSUME VarTypes, NEW t \in Task, NEW response \in Handled, Respond(t, response)
    PROVE  /\ phase' \in [Task -> {"idle", "udp", "tcp"}]
           /\ handled' \in [Task -> Handled \cup {Nothing}]
           /\ upstream' = upstream /\ deadline' = deadline
           /\ phase'[t] = "idle" /\ handled'[t] = response
           /\ \A u \in Task \ {t} : phase'[u] = phase[u] /\ handled'[u] = handled[u]
BY DEF Respond, VarTypes

(* A task that waits for an upstream.                                      *)
LEMMA AwaitStep ==
    ASSUME VarTypes, NEW t \in Task, NEW transport \in {"udp", "tcp"},
           NEW i \in 1 .. Upstreams, Await(t, transport, i)
    PROVE  /\ phase' \in [Task -> {"idle", "udp", "tcp"}]
           /\ upstream' \in [Task -> 1 .. Upstreams]
           /\ deadline' \in [Task -> Nat]
           /\ phase'[t] = transport /\ upstream'[t] = i
           /\ deadline'[t] = now + Timeout
           /\ \A u \in Task \ {t} : /\ phase'[u] = phase[u]
                                     /\ upstream'[u] = upstream[u]
                                     /\ deadline'[u] = deadline[u]
<1>1. now + Timeout \in Nat
  BY ForwardingConstants DEF VarTypes, CacheTypeOK
<1> QED
  BY <1>1 DEF Await, VarTypes

(* A task that takes a query up.                                           *)
LEMMA ArriveStep ==
    ASSUME VarTypes, NEW t \in Task, NEW q \in Question \cup {Nothing},
           Arrive(t, q)
    PROVE  /\ received' \in 0 .. MaxQueries
           /\ question' \in [Task -> Question \cup {Nothing}]
           /\ arrived' \in [Task -> Nat]
           /\ failed' \in [Task -> Seq(1 .. Upstreams)]
           /\ ~Waiting(t)
           /\ question'[t] = q
           /\ arrived'[t] = now /\ failed'[t] = <<>>
           /\ \A u \in Task \ {t} : /\ question'[u] = question[u]
                                     /\ arrived'[u] = arrived[u]
                                     /\ failed'[u] = failed[u]
<1>1. now \in Nat
  BY DEF VarTypes, CacheTypeOK
<1>2. <<>> \in Seq(1 .. Upstreams)
  OBVIOUS
<1>3. received' \in 0 .. MaxQueries
  BY ForwardingConstants DEF Arrive, VarTypes
<1> QED
  BY <1>1, <1>2, <1>3 DEF Arrive, VarTypes, Waiting

(* Nothing but what may be cached is put.                                  *)
LEMMA PutUncached ==
    ASSUME VarTypes, ErrorsUncached, NEW k \in Key, NEW rcode \in {"NOERROR", "NXDOMAIN"},
           NEW answers \in Seq(Record), NEW authorities \in Seq(Record),
           Put(k, rcode, answers, authorities)
    PROVE  ErrorsUncached'
<1> DEFINE ttl == ComputeTtl(rcode, answers, authorities)
           e == [rcode |-> rcode, answers |-> answers, authorities |-> authorities,
                 stored_at |-> now, ttl |-> ttl]
<1>1. store' = store \/ store' = [store EXCEPT ![k] = e]
  BY DEF Put
<1>2. store \in [Key -> Entry \cup {NoEntry}]
  BY DEF VarTypes, CacheTypeOK
<1> HIDE DEF ttl
<1> QED
  BY <1>1, <1>2 DEF ErrorsUncached

(* A task that a step leaves alone, with time standing still.              *)
LEMMA TaskKept ==
    ASSUME NEW u \in Task, TaskOK(u), now' = now,
           phase'[u] = phase[u], question'[u] = question[u], upstream'[u] = upstream[u],
           deadline'[u] = deadline[u], handled'[u] = handled[u],
           arrived'[u] = arrived[u], failed'[u] = failed[u]
    PROVE  TaskOK(u)'
BY DEF TaskOK, OnTime, FailedInOrder, Waiting

(* A task that has just been given its response.                           *)
LEMMA TaskDone ==
    ASSUME NEW t \in Task, phase'[t] = "idle", handled'[t] # Nothing,
           IF handled'[t].upstream # 0
           THEN failed'[t] = Tried(handled'[t].upstream - 1)
           ELSE failed'[t] = IF handled'[t].rcode = "SERVFAIL" THEN Tried(Upstreams)
                             ELSE <<>>
    PROVE  TaskOK(t)'
BY DEF TaskOK, OnTime, FailedInOrder, Waiting

-----------------------------------------------------------------------------
(* One lemma per action.                                                   *)

LEMMA RejectEmptyStep ==
    ASSUME IInv, NEW t \in Task, RejectEmpty(t)
    PROVE  IInv'
<1> DEFINE r == Response("FORMERR", <<>>, <<>>)
<1>1. VarTypes /\ CacheTypeOK /\ ErrorsUncached /\ \A u \in Task : TaskOK(u)
  BY DEF IInv, VarTypes
<1>2. <<>> \in Seq(Record) /\ "FORMERR" \in RCode /\ 0 \in 0 .. Upstreams
  BY ForwardingConstants DEF RCode
<1>3. r \in Handled /\ r.upstream = 0 /\ r.rcode = "FORMERR" /\ r # Nothing
  BY <1>2, ResponseType, ForwardingConstants
<1> HIDE DEF r
<1>4. Arrive(t, Nothing) /\ Respond(t, r) /\ UNCHANGED cacheVars
  BY DEF RejectEmpty, r
<1>5. CacheTypeOK' /\ ErrorsUncached' /\ now' = now
  BY <1>1, <1>4 DEF cacheVars, CacheTypeOK, ErrorsUncached
<1>6. VarTypes'
  BY <1>1, <1>3, <1>4, <1>5, ArriveStep, RespondStep DEF VarTypes
<1>7. TaskOK(t)'
  BY <1>1, <1>3, <1>4, ArriveStep, RespondStep, TaskDone
<1>8. \A u \in Task \ {t} : TaskOK(u)'
  BY <1>1, <1>3, <1>4, <1>5, ArriveStep, RespondStep, TaskKept
<1> QED
  BY <1>5, <1>6, <1>7, <1>8 DEF IInv

LEMMA AnswerFromCacheStep ==
    ASSUME IInv, NEW t \in Task, NEW q \in Question, AnswerFromCache(t, q)
    PROVE  IInv'
<1> DEFINE copy == FreshCopy(q)
           r == [Response(copy.rcode, copy.answers, copy.authorities)
                    EXCEPT !.cache_hit = TRUE]
<1>1. VarTypes /\ CacheTypeOK /\ ErrorsUncached /\ \A u \in Task : TaskOK(u)
  BY DEF IInv, VarTypes
<1>2. q \in Key /\ 0 \in 0 .. Upstreams
  BY ForwardingConstants
<1>3. GetHit(q) /\ IsLive(q)
  BY DEF AnswerFromCache, GetHit
<1>4. copy \in Entry
  BY <1>1, <1>2, <1>3, FreshCopyType
<1>5. copy.rcode \in {"NOERROR", "NXDOMAIN"}
  BY <1>1, <1>2, <1>3 DEF FreshCopy, ErrorsUncached, IsLive
<1>6. /\ copy.rcode \in RCode /\ copy.answers \in Seq(Record)
      /\ copy.authorities \in Seq(Record)
  BY <1>4 DEF Entry
<1>7. r \in Handled /\ r.upstream = 0 /\ r.rcode # "SERVFAIL" /\ r # Nothing
  <2> DEFINE plain == Response(copy.rcode, copy.answers, copy.authorities)
  <2>1. plain \in Handled /\ plain.upstream = 0 /\ plain.rcode = copy.rcode
    BY <1>6, ResponseType
  <2>2. r = [plain EXCEPT !.cache_hit = TRUE]
    OBVIOUS
  <2> HIDE DEF copy, r, plain
  <2> QED
    BY <1>2, <1>5, <2>1, <2>2, HandledExcept, ForwardingConstants
<1>8. Arrive(t, q) /\ Respond(t, r)
  BY DEF AnswerFromCache
<1> HIDE DEF r
<1>9. CacheTypeOK' /\ ErrorsUncached' /\ now' = now
  BY <1>1, <1>2, <1>3, GetHitType DEF GetHit, ErrorsUncached
<1>10. VarTypes'
  BY <1>1, <1>7, <1>8, <1>9, ArriveStep, RespondStep DEF VarTypes
<1>11. TaskOK(t)'
  BY <1>1, <1>7, <1>8, ArriveStep, RespondStep, TaskDone
<1>12. \A u \in Task \ {t} : TaskOK(u)'
  BY <1>1, <1>7, <1>8, <1>9, ArriveStep, RespondStep, TaskKept
<1> QED
  BY <1>9, <1>10, <1>11, <1>12 DEF IInv

LEMMA AskFirstStep ==
    ASSUME IInv, NEW t \in Task, NEW q \in Question, AskFirst(t, q)
    PROVE  IInv'
<1>1. VarTypes /\ CacheTypeOK /\ ErrorsUncached /\ \A u \in Task : TaskOK(u)
  BY DEF IInv, VarTypes
<1>2. q \in Key /\ 1 \in 1 .. Upstreams /\ Timeout \in Nat /\ now \in Nat
  BY <1>1, ForwardingConstants DEF CacheTypeOK
<1>3. Arrive(t, q) /\ GetMiss(q) /\ Await(t, "udp", 1)
  BY DEF AskFirst
<1>4. /\ handled' \in [Task -> Handled \cup {Nothing}]
      /\ \A u \in Task \ {t} : handled'[u] = handled[u]
  BY <1>1 DEF AskFirst, VarTypes
<1>5. CacheTypeOK' /\ ErrorsUncached' /\ now' = now
  BY <1>1, <1>2, <1>3, GetMissType DEF GetMiss, ErrorsUncached, CacheTypeOK
<1>6. VarTypes'
  BY <1>1, <1>2, <1>3, <1>4, <1>5, ArriveStep, AwaitStep DEF VarTypes
<1>7. TaskOK(t)'
  <2>1. /\ question'[t] = q /\ q # Nothing
        /\ failed'[t] = <<>> /\ arrived'[t] = now
        /\ phase'[t] = "udp" /\ upstream'[t] = 1 /\ deadline'[t] = now + Timeout
    BY <1>1, <1>2, <1>3, ArriveStep, AwaitStep, ForwardingConstants
  <2>2. Allowed("udp", 1) >= Timeout /\ Allowed("udp", 1) \in Nat
    BY AllowedProperties
  <2>3. Tried(0) = <<>> /\ 1 - 1 = 0
    BY TriedOneMore
  <2>4. OnTime(t)'
    BY <1>2, <1>5, <2>1, <2>2 DEF OnTime, Waiting, Allowed
  <2> QED
    BY <2>1, <2>3, <2>4 DEF TaskOK, FailedInOrder, Waiting
<1>8. \A u \in Task \ {t} : TaskOK(u)'
  BY <1>1, <1>2, <1>3, <1>4, <1>5, ArriveStep, AwaitStep, TaskKept
<1> QED
  BY <1>5, <1>6, <1>7, <1>8 DEF IInv

(* What a step of ask() leaves alone.                                      *)
LEMMA ClientKept ==
    ASSUME VarTypes, UNCHANGED clientVars
    PROVE  /\ question' = question /\ arrived' = arrived /\ received' = received
           /\ question' \in [Task -> Question \cup {Nothing}]
           /\ received' \in 0 .. MaxQueries /\ arrived' \in [Task -> Nat]
BY DEF VarTypes, clientVars

LEMMA TruncatedStep ==
    ASSUME IInv, NEW t \in Task, NEW m, Truncated(t, m)
    PROVE  IInv'
<1>1. VarTypes /\ CacheTypeOK /\ ErrorsUncached /\ \A u \in Task : TaskOK(u)
  BY DEF IInv, VarTypes
<1>2. upstream[t] \in 1 .. Upstreams /\ upstream[t] \in Nat \ {0} /\ now \in Nat
  BY <1>1 DEF VarTypes, CacheTypeOK
<1>3. /\ phase[t] = "udp" /\ Await(t, "tcp", upstream[t])
      /\ UNCHANGED <<now, store, hits, misses, handled, failed>> /\ UNCHANGED clientVars
  BY DEF Truncated
<1>4. CacheTypeOK' /\ ErrorsUncached' /\ now' = now
  BY <1>1, <1>3 DEF CacheTypeOK, ErrorsUncached
<1>5. VarTypes'
  BY <1>1, <1>2, <1>3, <1>4, AwaitStep, ClientKept DEF VarTypes
<1>6. TaskOK(t)'
  <2>1. /\ phase'[t] = "tcp" /\ upstream'[t] = upstream[t] /\ deadline'[t] = now + Timeout
        /\ question' = question /\ arrived' = arrived /\ failed' = failed
    BY <1>1, <1>2, <1>3, AwaitStep, ClientKept
  <2>2. /\ question[t] # Nothing /\ failed[t] = Tried(upstream[t] - 1)
        /\ now <= deadline[t] /\ deadline[t] <= arrived[t] + Allowed("udp", upstream[t])
    BY <1>1, <1>3 DEF TaskOK, FailedInOrder, OnTime, Waiting
  <2>3. now + Timeout <= arrived[t] + Allowed("tcp", upstream[t]) /\ now <= now + Timeout
    <3>1. /\ Allowed("udp", upstream[t]) \in Nat
          /\ Allowed("tcp", upstream[t]) = Allowed("udp", upstream[t]) + Timeout
      BY <1>2, AllowedProperties
    <3>2. deadline[t] \in Nat /\ arrived[t] \in Nat /\ Timeout \in Nat
      BY <1>1, ForwardingConstants DEF VarTypes
    <3> QED
      BY <1>2, <2>2, <3>1, <3>2
  <2>4. OnTime(t)'
    BY <1>4, <2>1, <2>3 DEF OnTime, Waiting, Allowed
  <2> QED
    BY <2>1, <2>2, <2>4 DEF TaskOK, FailedInOrder, Waiting
<1>7. \A u \in Task \ {t} : TaskOK(u)'
  BY <1>1, <1>2, <1>3, <1>4, AwaitStep, ClientKept, TaskKept
<1> QED
  BY <1>4, <1>5, <1>6, <1>7 DEF IInv

LEMMA AnswerStep ==
    ASSUME IInv, NEW t \in Task, Waiting(t), NEW m \in Incoming(t), Answer(t, m)
    PROVE  IInv'
<1> DEFINE answers == Stamp(m.answers)
           authorities == Stamp(m.authorities)
           plain == Response(m.rcode, answers, authorities)
           r == [plain EXCEPT !.upstream = upstream[t]]
<1>1. VarTypes /\ CacheTypeOK /\ ErrorsUncached /\ \A u \in Task : TaskOK(u)
  BY DEF IInv, VarTypes
<1>2. question[t] # Nothing /\ question[t] \in Key /\ Asked(t) \in Name \X RType
  BY <1>1, QuestionType DEF TaskOK
<1>3. m \in Message
  BY <1>2, ForwardingConstants DEF Incoming
<1>4. /\ m.rcode \in RCode /\ now \in Nat
      /\ answers \in Seq(Record) /\ authorities \in Seq(Record)
  <2>1. m.rcode \in RCode /\ m.answers \in Seq(Record) /\ m.authorities \in Seq(Record)
    BY <1>3 DEF Message
  <2>2. now \in Nat
    BY <1>1 DEF CacheTypeOK
  <2> QED
    BY <2>1, <2>2, StampKeeps
<1>5. /\ upstream[t] \in 1 .. Upstreams /\ upstream[t] \in 0 .. Upstreams
      /\ upstream[t] # 0
  BY <1>1 DEF VarTypes
<1>6. plain \in Handled
  BY <1>4, ResponseType
<1>7. r \in Handled /\ r.upstream = upstream[t] /\ r # Nothing
  <2> HIDE DEF plain
  <2> QED
    BY <1>5, <1>6, HandledExcept, ForwardingConstants
<1>8. /\ Respond(t, r) /\ failed' = failed /\ UNCHANGED clientVars
      /\ \/ /\ m.rcode \in {"NOERROR", "NXDOMAIN"}
            /\ Put(question[t], m.rcode, answers, authorities)
         \/ UNCHANGED cacheVars
  BY DEF Answer
<1> HIDE DEF r, answers, authorities
<1>9. CacheTypeOK' /\ ErrorsUncached' /\ now' = now
  <2>1. CASE UNCHANGED cacheVars
    BY <1>1, <2>1 DEF cacheVars, CacheTypeOK, ErrorsUncached
  <2>2. CASE m.rcode \in {"NOERROR", "NXDOMAIN"}
             /\ Put(question[t], m.rcode, answers, authorities)
    <3>1. CacheTypeOK'
      BY <1>1, <1>2, <1>4, <2>2, PutType
    <3>2. ErrorsUncached'
      BY <1>1, <1>2, <1>4, <2>2, PutUncached
    <3>3. now' = now
      BY <2>2 DEF Put
    <3> QED
      BY <3>1, <3>2, <3>3
  <2> QED
    BY <1>8, <2>1, <2>2
<1>10. VarTypes'
  BY <1>1, <1>7, <1>8, <1>9, RespondStep, ClientKept DEF VarTypes
<1>11. TaskOK(t)'
  <2>1. failed[t] = Tried(upstream[t] - 1)
    BY <1>1 DEF TaskOK, FailedInOrder
  <2> QED
    BY <1>1, <1>5, <1>7, <1>8, <2>1, RespondStep, TaskDone
<1>12. \A u \in Task \ {t} : TaskOK(u)'
  BY <1>1, <1>7, <1>8, <1>9, RespondStep, ClientKept, TaskKept
<1> QED
  BY <1>9, <1>10, <1>11, <1>12 DEF IInv

LEMMA AskFailsStep ==
    ASSUME IInv, NEW t \in Task, AskFails(t)
    PROVE  IInv'
<1> DEFINE u == upstream[t]
           r == Response("SERVFAIL", <<>>, <<>>)
<1>1. VarTypes /\ CacheTypeOK /\ ErrorsUncached /\ \A v \in Task : TaskOK(v)
  BY DEF IInv, VarTypes
<1>2. /\ u \in 1 .. Upstreams /\ u \in Nat \ {0} /\ Upstreams \in Nat \ {0}
      /\ phase[t] \in {"udp", "tcp"}
  BY <1>1, ForwardingConstants DEF VarTypes, AskFails
<1>3. /\ AskNext(t) /\ UNCHANGED cacheVars /\ UNCHANGED clientVars
      /\ failed' = [failed EXCEPT ![t] = Append(@, u)]
  BY DEF AskFails
<1>4. CacheTypeOK' /\ ErrorsUncached' /\ now' = now
  BY <1>1, <1>3 DEF cacheVars, CacheTypeOK, ErrorsUncached
<1>5. question[t] # Nothing /\ failed[t] = Tried(u - 1) /\ OnTime(t)
  BY <1>1, <1>2 DEF TaskOK, FailedInOrder, Waiting
<1>6. /\ failed' \in [Task -> Seq(1 .. Upstreams)] /\ failed'[t] = Tried(u)
      /\ \A v \in Task \ {t} : failed'[v] = failed[v]
  <2>1. Append(failed[t], u) = Tried(u)
    <3>1. u - 1 \in Nat /\ (u - 1) + 1 = u
      BY <1>2
    <3> HIDE DEF u
    <3> QED
      BY <1>5, <3>1, TriedOneMore
  <2>2. failed[t] \in Seq(1 .. Upstreams)
    BY <1>1 DEF VarTypes
  <2>3. Append(failed[t], u) \in Seq(1 .. Upstreams)
    BY <1>2, <2>2, AppendProperties
  <2> QED
    BY <1>1, <1>3, <2>1, <2>3 DEF VarTypes
<1>7. CASE u < Upstreams
  <2>1. Await(t, "udp", u + 1) /\ handled' = handled /\ u + 1 \in 1 .. Upstreams
    BY <1>2, <1>3, <1>7 DEF AskNext
  <2>2. VarTypes'
    BY <1>1, <1>3, <1>4, <1>6, <2>1, AwaitStep, ClientKept DEF VarTypes
  <2>3. /\ phase'[t] = "udp" /\ upstream'[t] = u + 1 /\ deadline'[t] = now + Timeout
        /\ question' = question /\ arrived' = arrived
    BY <1>1, <1>3, <2>1, AwaitStep, ClientKept
  <2>4. now + Timeout <= arrived[t] + Allowed("udp", u + 1) /\ now <= now + Timeout
    <3>1. /\ Allowed("udp", u) \in Nat /\ Allowed("tcp", u) \in Nat
          /\ Allowed("tcp", u) = Allowed("udp", u) + Timeout
          /\ Allowed("udp", u + 1) = Allowed("tcp", u) + Timeout
      BY <1>2, AllowedProperties
    <3>2. deadline[t] \in Nat /\ arrived[t] \in Nat /\ Timeout \in Nat /\ now \in Nat
      BY <1>1, ForwardingConstants DEF VarTypes, CacheTypeOK
    <3>3. /\ now <= deadline[t]
          /\ \/ deadline[t] <= arrived[t] + Allowed("udp", u)
             \/ deadline[t] <= arrived[t] + Allowed("tcp", u)
      BY <1>2, <1>5 DEF OnTime, Waiting
    <3> QED
      BY <3>1, <3>2, <3>3
  <2>5. OnTime(t)'
    BY <1>4, <2>3, <2>4 DEF OnTime, Waiting, Allowed
  <2>6. TaskOK(t)'
    <3>1. upstream'[t] - 1 = u
      BY <1>2, <2>3
    <3> QED
      BY <1>5, <1>6, <2>3, <2>5, <3>1 DEF TaskOK, FailedInOrder, Waiting
  <2>7. \A v \in Task \ {t} : TaskOK(v)'
    BY <1>1, <1>3, <1>4, <1>6, <2>1, AwaitStep, ClientKept, TaskKept
  <2> QED
    BY <1>4, <2>2, <2>6, <2>7 DEF IInv
<1>8. CASE u = Upstreams
  <2>1. Respond(t, r)
    BY <1>2, <1>3, <1>8 DEF AskNext
  <2>2. <<>> \in Seq(Record) /\ "SERVFAIL" \in RCode
    BY DEF RCode
  <2>3. r \in Handled /\ r.upstream = 0 /\ r.rcode = "SERVFAIL" /\ r # Nothing
    BY <2>2, ResponseType, ForwardingConstants
  <2> HIDE DEF r
  <2>4. VarTypes'
    BY <1>1, <1>3, <1>4, <1>6, <2>1, <2>3, RespondStep, ClientKept DEF VarTypes
  <2>5. TaskOK(t)'
    BY <1>1, <1>6, <1>8, <2>1, <2>3, RespondStep, TaskDone
  <2>6. \A v \in Task \ {t} : TaskOK(v)'
    BY <1>1, <1>3, <1>4, <1>6, <2>1, <2>3, RespondStep, ClientKept, TaskKept
  <2> QED
    BY <1>4, <2>4, <2>5, <2>6 DEF IInv
<1> QED
  BY <1>2, <1>7, <1>8

(* Time does not run past a deadline.                                      *)
LEMMA WaitStep ==
    ASSUME IInv, Wait
    PROVE  IInv'
<1>1. VarTypes /\ CacheTypeOK /\ ErrorsUncached /\ \A u \in Task : TaskOK(u)
  BY DEF IInv, VarTypes
<1>2. /\ Tick /\ now' = now + 1 /\ store' = store
      /\ UNCHANGED <<handled, failed>> /\ UNCHANGED askVars /\ UNCHANGED clientVars
  BY DEF Wait, Tick
<1>3. CacheTypeOK' /\ ErrorsUncached'
  BY <1>1, <1>2, TickType DEF ErrorsUncached
<1>4. VarTypes'
  BY <1>1, <1>2, <1>3, ClientKept DEF VarTypes, askVars
<1>5. \A u \in Task : TaskOK(u)'
  <2> SUFFICES ASSUME NEW u \in Task
               PROVE  TaskOK(u)'
    OBVIOUS
  <2>1. /\ phase' = phase /\ upstream' = upstream /\ deadline' = deadline
        /\ question' = question /\ arrived' = arrived
        /\ handled' = handled /\ failed' = failed
    BY <1>1, <1>2, ClientKept DEF askVars
  <2>2. Waiting(u) => now + 1 <= deadline[u]
    BY <1>1 DEF Wait, VarTypes, CacheTypeOK
  <2>3. OnTime(u)'
    BY <1>1, <1>2, <2>1, <2>2 DEF TaskOK, OnTime, Waiting, Allowed
  <2>4. FailedInOrder(u)' /\ (Waiting(u)' => question'[u] # Nothing)
    BY <1>1, <2>1 DEF TaskOK, FailedInOrder, Waiting
  <2> QED
    BY <2>3, <2>4 DEF TaskOK
<1> QED
  BY <1>3, <1>4, <1>5 DEF IInv

-----------------------------------------------------------------------------
(* The theorems.                                                           *)

LEMMA InvariantInit == Init => IInv
<1> SUFFICES ASSUME Init
             PROVE  IInv
  OBVIOUS
<1>1. CacheTypeOK /\ ErrorsUncached
  BY CacheConstants DEF Init, CacheInit, CacheTypeOK, ErrorsUncached
<1>2. 1 \in 1 .. Upstreams /\ <<>> \in Seq(1 .. Upstreams) /\ 0 \in 0 .. MaxQueries
  BY ForwardingConstants
<1>3. VarTypes
  BY <1>1, <1>2 DEF Init, VarTypes
<1>4. \A t \in Task : TaskOK(t)
  BY DEF Init, TaskOK, OnTime, FailedInOrder, Waiting
<1> QED
  BY <1>1, <1>3, <1>4 DEF IInv

LEMMA InvariantStep == IInv /\ [Next]_vars => IInv'
<1> SUFFICES ASSUME IInv, [Next]_vars
             PROVE  IInv'
  OBVIOUS
<1>1. ASSUME NEW t \in Task, RejectEmpty(t)
      PROVE  IInv'
  BY <1>1, RejectEmptyStep
<1>2. ASSUME NEW t \in Task, NEW q \in Question, Handle(t, q)
      PROVE  IInv'
  BY <1>2, AnswerFromCacheStep, AskFirstStep DEF Handle
<1>3. ASSUME NEW t \in Task, Progress(t)
      PROVE  IInv'
  BY <1>3, TruncatedStep, AnswerStep, AskFailsStep DEF Progress, Waiting
<1>4. CASE Wait
  BY <1>4, WaitStep
<1>5. CASE UNCHANGED vars
  BY <1>5 DEF vars, IInv, VarTypes, CacheTypeOK, ErrorsUncached, TaskOK, OnTime,
              FailedInOrder, Waiting
<1> QED
  BY <1>1, <1>2, <1>3, <1>4, <1>5 DEF Next, Quiesced

LEMMA InvariantHolds == Spec => []IInv
  BY InvariantInit, InvariantStep, PTL DEF Spec

(* The caching and forwarding resolvers stay well typed whatever upstreams *)
(* answer and whenever they fail.                                          *)
THEOREM TypeCorrect == Spec => []TypeOK
<1>1. IInv => TypeOK
  BY InvariantImplies
<1> QED
  BY <1>1, InvariantHolds, PTL

LEMMA BoundImplied == IInv => AnsweredInTime
<1> SUFFICES ASSUME IInv, NEW t \in Task, Waiting(t)
             PROVE  now - arrived[t] <= 2 * Timeout * Upstreams
  BY DEF AnsweredInTime
<1>1. /\ now <= deadline[t] /\ deadline[t] <= arrived[t] + Allowed(phase[t], upstream[t])
      /\ phase[t] \in {"udp", "tcp"} /\ upstream[t] \in 1 .. Upstreams
      /\ now \in Nat /\ deadline[t] \in Nat /\ arrived[t] \in Nat
  BY DEF IInv, VarTypes, CacheTypeOK, TaskOK, OnTime, Waiting
<1>2. /\ Allowed(phase[t], upstream[t]) \in Nat
      /\ Allowed(phase[t], upstream[t]) <= 2 * Timeout * Upstreams
  BY <1>1, AllowedAtMost
<1>3. 2 * Timeout * Upstreams \in Nat
  BY ForwardingConstants
<1> HIDE DEF Allowed
<1> QED
  BY <1>1, <1>2, <1>3

(* However the waits of ask() follow each other, over UDP and TCP and from *)
(* one upstream to the next, a client is answered within two timeouts for  *)
(* each upstream.                                                          *)
THEOREM WaitIsBounded == Spec => []AnsweredInTime
  BY BoundImplied, InvariantHolds, PTL

(* Upstreams are tried in order, each once, and a client is told SERVFAIL  *)
(* for want of an answer only when all of them have failed it.             *)
THEOREM FailOverInOrder == Spec => []TriedInOrder
<1>1. IInv => TriedInOrder
  BY InvariantImplies
<1> QED
  BY <1>1, InvariantHolds, PTL

-----------------------------------------------------------------------------
(* Answers and entries are what was sent.                                  *)

(* Neither the history nor the TTL of a record is part of what it says.    *)
LEMMA ContentsKept ==
    ASSUME NEW records \in Seq(Record), NEW ttl \in Nat
    PROVE  /\ Contents(Stamp(records)) = Contents(records)
           /\ Contents(CountDown(records, ttl)) = Contents(records)
<1>1. \A r \in Record, v \in Nat :
         /\ [r EXCEPT !.ttl = v].owner = r.owner
         /\ [r EXCEPT !.ttl = v].rtype = r.rtype
         /\ [r EXCEPT !.ttl = v].minimum = r.minimum
         /\ [r EXCEPT !.ttl = v].target = r.target
  BY DEF Record
<1>2. ASSUME NEW r \in Record, NEW h, NEW v
      PROVE  /\ [r EXCEPT !.heard = h, !.until = v].owner = r.owner
             /\ [r EXCEPT !.heard = h, !.until = v].rtype = r.rtype
             /\ [r EXCEPT !.heard = h, !.until = v].minimum = r.minimum
             /\ [r EXCEPT !.heard = h, !.until = v].target = r.target
  BY DEF Record
<1>3. \A i \in DOMAIN records : records[i] \in Record
  BY ElementOfSeq, LenProperties
<1>4. /\ DOMAIN Stamp(records) = DOMAIN records
      /\ DOMAIN CountDown(records, ttl) = DOMAIN records
  BY DEF Stamp, CountDown
<1>5. \A i \in DOMAIN records :
         /\ Stamp(records)[i].owner = records[i].owner
         /\ Stamp(records)[i].rtype = records[i].rtype
         /\ Stamp(records)[i].minimum = records[i].minimum
         /\ Stamp(records)[i].target = records[i].target
  <2> SUFFICES ASSUME NEW i \in DOMAIN records
               PROVE  /\ Stamp(records)[i].owner = records[i].owner
                      /\ Stamp(records)[i].rtype = records[i].rtype
                      /\ Stamp(records)[i].minimum = records[i].minimum
                      /\ Stamp(records)[i].target = records[i].target
    OBVIOUS
  <2> DEFINE u == now + records[i].ttl * TicksPerSecond
  <2>1. Stamp(records)[i] = [records[i] EXCEPT !.heard = now, !.until = u]
    BY DEF Stamp
  <2> HIDE DEF u
  <2> QED
    BY <1>2, <1>3, <2>1
<1>6. \A i \in DOMAIN records :
         /\ CountDown(records, ttl)[i].owner = records[i].owner
         /\ CountDown(records, ttl)[i].rtype = records[i].rtype
         /\ CountDown(records, ttl)[i].minimum = records[i].minimum
         /\ CountDown(records, ttl)[i].target = records[i].target
  BY <1>1, <1>3 DEF CountDown
<1>7. Contents(Stamp(records)) = Contents(records)
  BY <1>4, <1>5 DEF Contents
<1>8. Contents(CountDown(records, ttl)) = Contents(records)
  BY <1>4, <1>6 DEF Contents
<1> QED
  BY <1>7, <1>8

Sent(q) ==
    LET asked == <<q[1], q[2]>>
    IN  {m \in Replies[asked] : ~m.tc} \cup Streamed[asked]

EntryAsSent(k) ==
    store[k] # NoEntry =>
        \E m \in Sent(k) : Says(m, store[k].rcode, store[k].answers, store[k].authorities)

FromOthers(h) == h.upstream # 0 \/ h.cache_hit

TaskAsSent(t) ==
    (handled[t] # Nothing /\ FromOthers(handled[t])) =>
        \E m \in Sent(question[t]) :
            Says(m, handled[t].rcode, handled[t].answers, handled[t].authorities)

LEMMA AsSentParts ==
    AnswersAsSent <=> (\A k \in Key : EntryAsSent(k)) /\ (\A t \in Task : TaskAsSent(t))
BY DEF AnswersAsSent, EntryAsSent, TaskAsSent, Sent, FromOthers

(* The same of the next state.                                             *)
LEMMA AsSentTogether ==
    ASSUME \A k \in Key : EntryAsSent(k)', \A t \in Task : TaskAsSent(t)'
    PROVE  AnswersAsSent'
BY DEF AnswersAsSent, EntryAsSent, TaskAsSent, Sent, FromOthers, Says, Contents

(* A task that is answered by the resolver itself, or not yet.             *)
LEMMA OwnAnswer ==
    ASSUME NEW t \in Task, handled'[t] = Nothing \/ ~FromOthers(handled'[t])
    PROVE  TaskAsSent(t)'
BY DEF TaskAsSent, FromOthers

LEMMA OthersAsSent ==
    ASSUME NEW u \in Task, TaskAsSent(u), handled'[u] = handled[u],
           question'[u] = question[u]
    PROVE  TaskAsSent(u)'
BY DEF TaskAsSent, Sent, FromOthers, Says, Contents

LEMMA EntriesKept ==
    ASSUME \A k \in Key : EntryAsSent(k), \A k \in Key : store'[k] \in {store[k], NoEntry}
    PROVE  \A k \in Key : EntryAsSent(k)'
<1> SUFFICES ASSUME NEW k \in Key
             PROVE  EntryAsSent(k)'
  OBVIOUS
<1>1. CASE store'[k] = NoEntry
  BY <1>1 DEF EntryAsSent
<1>2. CASE store'[k] = store[k]
  <2>1. EntryAsSent(k)
    OBVIOUS
  <2> QED
    BY <1>2, <2>1 DEF EntryAsSent, Sent, Says, Contents
<1> QED
  BY <1>1, <1>2

LEMMA AsSentArrive ==
    ASSUME IInv, AnswersAsSent, NEW t \in Task,
           RejectEmpty(t) \/ \E q \in Question : Handle(t, q)
    PROVE  AnswersAsSent'
<1>1. /\ VarTypes /\ CacheTypeOK
      /\ \A k \in Key : EntryAsSent(k)
      /\ \A u \in Task : TaskAsSent(u)
  BY AsSentParts DEF IInv, VarTypes
<1>2. \A u \in Task \ {t} : handled'[u] = handled[u] /\ question'[u] = question[u]
  BY <1>1 DEF VarTypes, RejectEmpty, Handle, AnswerFromCache, AskFirst, Arrive, Respond
<1>3. \A u \in Task \ {t} : TaskAsSent(u)'
  BY <1>1, <1>2, OthersAsSent
<1>4. CASE RejectEmpty(t)
  <2>1. handled'[t] = Response("FORMERR", <<>>, <<>>) /\ store' = store
    BY <1>1, <1>4 DEF VarTypes, RejectEmpty, Respond, cacheVars
  <2>2. ~FromOthers(Response("FORMERR", <<>>, <<>>))
    BY DEF FromOthers, Response
  <2>3. TaskAsSent(t)'
    BY <2>1, <2>2, OwnAnswer
  <2>4. \A k \in Key : EntryAsSent(k)'
    BY <1>1, <2>1, EntriesKept
  <2> QED
    BY <1>3, <2>3, <2>4, AsSentTogether
<1>5. ASSUME NEW q \in Question, AskFirst(t, q)
      PROVE  AnswersAsSent'
  <2>1. handled'[t] = Nothing
    BY <1>1, <1>5 DEF VarTypes, AskFirst
  <2>2. store' = [store EXCEPT ![q] = NoEntry]
    BY <1>5 DEF AskFirst, GetMiss
  <2>3. \A k \in Key : EntryAsSent(k)'
    BY <1>1, <2>2, EntriesKept DEF CacheTypeOK
  <2>4. TaskAsSent(t)'
    BY <2>1, OwnAnswer
  <2> QED
    BY <1>3, <2>3, <2>4, AsSentTogether
<1>6. ASSUME NEW q \in Question, AnswerFromCache(t, q)
      PROVE  AnswersAsSent'
  <2> DEFINE e == store[q]
             copy == FreshCopy(q)
  <2>1. q \in Key /\ store' = store /\ e # NoEntry
    BY <1>6, ForwardingConstants DEF AnswerFromCache, GetHit, IsLive
  <2>2. e \in Entry
    BY <1>1, <2>1 DEF CacheTypeOK
  <2>3. Remaining(e) \in Nat
    <3>1. Remaining(e) > 0
      BY <1>6 DEF AnswerFromCache, GetHit, IsLive
    <3>2. Remaining(e) \in Int
      BY <1>1, <2>2, RemainingRounds DEF CacheTypeOK
    <3> QED
      BY <3>1, <3>2
  <2>4. e.answers \in Seq(Record) /\ e.authorities \in Seq(Record)
    BY <2>2 DEF Entry
  <2>5. /\ Contents(copy.answers) = Contents(e.answers)
        /\ Contents(copy.authorities) = Contents(e.authorities)
        /\ copy.rcode = e.rcode
    BY <2>3, <2>4, ContentsKept DEF FreshCopy
  <2>6. PICK m \in Sent(q) : Says(m, e.rcode, e.answers, e.authorities)
    BY <1>1, <2>1 DEF EntryAsSent
  <2>7. Says(m, copy.rcode, copy.answers, copy.authorities)
    BY <2>5, <2>6 DEF Says
  <2>8. /\ handled'[t].rcode = copy.rcode /\ handled'[t].answers = copy.answers
        /\ handled'[t].authorities = copy.authorities
        /\ question'[t] = q
    <3> HIDE DEF copy
    <3>1. /\ Respond(t, [Response(copy.rcode, copy.answers, copy.authorities)
                            EXCEPT !.cache_hit = TRUE])
          /\ Arrive(t, q)
      BY <1>6 DEF AnswerFromCache, copy
    <3> QED
      BY <1>1, <3>1 DEF VarTypes, Respond, Response, Arrive
  <2> HIDE DEF copy
  <2>9. TaskAsSent(t)'
    <3>1. PICK h : h = handled'[t]
      OBVIOUS
    <3>2. Says(m, h.rcode, h.answers, h.authorities) /\ m \in Sent(question'[t])
      BY <2>7, <2>8, <3>1
    <3>3. \E n \in Sent(question'[t]) : Says(n, h.rcode, h.answers, h.authorities)
      BY <3>2
    <3> QED
      BY <3>1, <3>3 DEF TaskAsSent, Sent, Says, Contents, FromOthers
  <2>10. \A k \in Key : EntryAsSent(k)'
    BY <1>1, <2>1, EntriesKept
  <2> QED
    BY <1>3, <2>9, <2>10, AsSentTogether
<1> QED
  BY <1>4, <1>5, <1>6 DEF Handle

LEMMA AsSentAnswer ==
    ASSUME IInv, AnswersAsSent, NEW t \in Task, Waiting(t), NEW m \in Incoming(t),
           Answer(t, m)
    PROVE  AnswersAsSent'
<1> DEFINE answers == Stamp(m.answers)
           authorities == Stamp(m.authorities)
           q == question[t]
<1>1. /\ VarTypes /\ CacheTypeOK
      /\ \A k \in Key : EntryAsSent(k)
      /\ \A u \in Task : TaskAsSent(u)
  BY AsSentParts DEF IInv, VarTypes
<1>2. q # Nothing /\ q \in Key /\ Asked(t) \in Name \X RType
  BY <1>1, QuestionType DEF IInv, TaskOK
<1>3. m \in Message
  BY <1>2, ForwardingConstants DEF Incoming
<1>4. m.rcode \in RCode /\ m.answers \in Seq(Record) /\ m.authorities \in Seq(Record)
  BY <1>3 DEF Message
<1>5. m \in Sent(q)
  BY DEF Answer, Whole, Incoming, Sent, Asked
<1>6. Says(m, m.rcode, answers, authorities)
  <2>1. 0 \in Nat
    OBVIOUS
  <2> QED
    BY <1>4, <2>1, ContentsKept DEF Says
<1>7. /\ question' = question
      /\ \/ /\ m.rcode \in {"NOERROR", "NXDOMAIN"}
            /\ Put(q, m.rcode, answers, authorities)
         \/ UNCHANGED cacheVars
  BY DEF Answer, clientVars
<1>8. /\ handled'[t].rcode = m.rcode /\ handled'[t].answers = answers
      /\ handled'[t].authorities = authorities
      /\ \A u \in Task \ {t} : handled'[u] = handled[u]
  <2> HIDE DEF answers, authorities
  <2>1. Respond(t, [Response(m.rcode, answers, authorities) EXCEPT !.upstream = upstream[t]])
    BY DEF Answer, answers, authorities
  <2> QED
    BY <1>1, <2>1 DEF VarTypes, Respond, Response
<1>9. TaskAsSent(t)'
  <2> HIDE DEF answers, authorities
  <2>1. PICK h : h = handled'[t]
    OBVIOUS
  <2>2. Says(m, h.rcode, h.answers, h.authorities) /\ m \in Sent(question'[t])
    BY <1>5, <1>6, <1>7, <1>8, <2>1
  <2>3. \E n \in Sent(question'[t]) : Says(n, h.rcode, h.answers, h.authorities)
    BY <2>2
  <2> QED
    BY <2>1, <2>3 DEF TaskAsSent, Sent, Says, Contents, FromOthers
<1>10. \A u \in Task \ {t} : TaskAsSent(u)'
  BY <1>1, <1>7, <1>8, OthersAsSent
<1>11. \A k \in Key : EntryAsSent(k)'
  <2>1. CASE UNCHANGED store
    BY <1>1, <2>1, EntriesKept
  <2>2. ASSUME NEW e \in Entry, store' = [store EXCEPT ![q] = e], e.rcode = m.rcode,
               e.answers = answers, e.authorities = authorities
        PROVE  \A k \in Key : EntryAsSent(k)'
    <3> SUFFICES ASSUME NEW k \in Key
                 PROVE  EntryAsSent(k)'
      OBVIOUS
    <3>1. CASE k = q
      <4>1. store'[k] = e
        BY <1>1, <1>2, <2>2, <3>1 DEF CacheTypeOK
      <4>2. \E n \in Sent(k) : Says(n, e.rcode, e.answers, e.authorities)
        BY <1>5, <1>6, <2>2, <3>1
      <4> QED
        BY <4>1, <4>2 DEF EntryAsSent, Sent, Says, Contents
    <3>2. CASE k # q
      <4>1. store'[k] = store[k] /\ EntryAsSent(k)
        BY <1>1, <2>2, <3>2 DEF CacheTypeOK
      <4> QED
        BY <4>1 DEF EntryAsSent, Sent, Says, Contents
    <3> QED
      BY <3>1, <3>2
  <2>3. CASE Put(q, m.rcode, answers, authorities)
    BY <1>1, <1>2, <1>4, <2>1, <2>2, <2>3, PutEffect
  <2> QED
    BY <1>7, <2>1, <2>3 DEF cacheVars
<1> QED
  BY <1>9, <1>10, <1>11, AsSentTogether

LEMMA AsSentStep == IInv /\ AnswersAsSent /\ [Next]_vars => AnswersAsSent'
<1> SUFFICES ASSUME IInv, AnswersAsSent, [Next]_vars
             PROVE  AnswersAsSent'
  OBVIOUS
<1>1. /\ VarTypes /\ CacheTypeOK
      /\ \A k \in Key : EntryAsSent(k)
      /\ \A u \in Task : TaskAsSent(u)
  BY AsSentParts DEF IInv, VarTypes
<1>2. ASSUME handled' = handled, question' = question, store' = store
      PROVE  AnswersAsSent'
  <2>1. \A k \in Key : EntryAsSent(k)'
    BY <1>1, <1>2, EntriesKept
  <2>2. \A u \in Task : TaskAsSent(u)'
    BY <1>1, <1>2, OthersAsSent
  <2> QED
    BY <2>1, <2>2, AsSentTogether
<1>3. ASSUME NEW t \in Task, NEW m, Truncated(t, m)
      PROVE  AnswersAsSent'
  BY <1>2, <1>3 DEF Truncated, clientVars
<1>4. ASSUME NEW t \in Task, AskFails(t)
      PROVE  AnswersAsSent'
  <2>1. question' = question /\ store' = store
    BY <1>4 DEF AskFails, clientVars, cacheVars
  <2>2. CASE handled' = handled
    BY <1>2, <2>1, <2>2
  <2>3. CASE Respond(t, Response("SERVFAIL", <<>>, <<>>))
    <3>1. /\ handled'[t] = Response("SERVFAIL", <<>>, <<>>)
          /\ \A u \in Task \ {t} : handled'[u] = handled[u]
      BY <1>1, <2>3 DEF VarTypes, Respond
    <3>2. ~FromOthers(Response("SERVFAIL", <<>>, <<>>))
      BY DEF FromOthers, Response
    <3>3. TaskAsSent(t)'
      BY <3>1, <3>2, OwnAnswer
    <3>4. \A u \in Task \ {t} : TaskAsSent(u)'
      BY <1>1, <2>1, <3>1, OthersAsSent
    <3>5. \A k \in Key : EntryAsSent(k)'
      BY <1>1, <2>1, EntriesKept
    <3> QED
      BY <3>3, <3>4, <3>5, AsSentTogether
  <2> QED
    BY <1>4, <2>2, <2>3 DEF AskFails, AskNext
<1>5. CASE Wait \/ UNCHANGED vars
  BY <1>2, <1>5 DEF Wait, Tick, clientVars, vars
<1> QED
  BY <1>3, <1>4, <1>5, AsSentArrive, AsSentAnswer DEF Next, Progress, Waiting, Quiesced

LEMMA AsSentInit == Init => AnswersAsSent
BY DEF Init, CacheInit, AnswersAsSent

(* What a client is given as an upstream's answer, and what the cache      *)
(* keeps, came for this very question, in a datagram without the TC flag   *)
(* or over TCP: no truncated datagram is taken for an answer.              *)
THEOREM AnswersFaithful == Spec => []AnswersAsSent
  BY AsSentInit, AsSentStep, InvariantHolds, PTL DEF Spec

-----------------------------------------------------------------------------
(* Refinement of LeaseTable, by all the queries together.                  *)

(* What the tasks do to the cache, one entry at a time.                    *)
LEMMA StoreSteps ==
    ASSUME IInv, [Next]_vars
    PROVE  \/ UNCHANGED <<now, store>>
           \/ Tick
           \/ \E k \in Key : GetMiss(k)
           \/ \E k \in Key, m \in Message : Put(k, m.rcode, Stamp(m.answers),
                                                  Stamp(m.authorities))
<1>1. ASSUME NEW t \in Task, RejectEmpty(t) \/ AskFails(t)
      PROVE  UNCHANGED <<now, store>>
  BY <1>1 DEF RejectEmpty, AskFails, cacheVars
<1>2. ASSUME NEW t \in Task, NEW m, Truncated(t, m)
      PROVE  UNCHANGED <<now, store>>
  BY <1>2 DEF Truncated
<1>3. ASSUME NEW t \in Task, NEW q \in Question, Handle(t, q)
      PROVE  UNCHANGED <<now, store>> \/ GetMiss(q)
  BY <1>3 DEF Handle, AnswerFromCache, AskFirst, GetHit
<1>4. ASSUME NEW t \in Task, Waiting(t), NEW m \in Incoming(t), Answer(t, m)
      PROVE  \/ UNCHANGED <<now, store>>
             \/ Put(question[t], m.rcode, Stamp(m.answers), Stamp(m.authorities))
  BY <1>4 DEF Answer, cacheVars
<1>5. ASSUME NEW t \in Task, Waiting(t)
      PROVE  question[t] \in Key /\ Incoming(t) \subseteq Message
  <2>1. question[t] \in Key /\ Asked(t) \in Name \X RType
    BY <1>5, QuestionType DEF IInv, TaskOK
  <2> QED
    BY <2>1, ForwardingConstants DEF Incoming
<1>6. Question \subseteq Key
  BY ForwardingConstants
<1>7. ASSUME Quiesced \/ UNCHANGED vars
      PROVE  UNCHANGED <<now, store>>
  BY <1>7 DEF Quiesced, vars
<1> QED
  BY <1>1, <1>2, <1>3, <1>4, <1>5, <1>6, <1>7 DEF Next, Progress, Waiting, Wait

LEMMA OriginalStep ==
    ASSUME IInv, StoreOriginal, [Next]_vars
    PROVE  StoreOriginal'
<1>1. CacheTypeOK
  BY DEF IInv, VarTypes
<1>2. CASE UNCHANGED <<now, store>> \/ Tick
  BY <1>2 DEF StoreOriginal, Tick
<1>3. CASE \E k \in Key : GetMiss(k)
  BY <1>1, <1>3 DEF GetMiss, StoreOriginal, CacheTypeOK
<1>4. CASE \E k \in Key, m \in Message : Put(k, m.rcode, Stamp(m.answers),
                                            Stamp(m.authorities))
  BY <1>1, <1>4, PutOriginal DEF Message
<1> QED
  BY <1>2, <1>3, <1>4, StoreSteps

LEMMA LeaseStep ==
    ASSUME IInv, StoreOriginal, [Next]_vars, MinTtl = 0
    PROVE  [Leases!Next]_(Leases!leaseVars)
<1>1. CacheTypeOK
  BY DEF IInv, VarTypes
<1>2. CASE UNCHANGED <<now, store>>
  BY <1>2 DEF Leases!leaseVars
<1>3. CASE Tick
  <2>1. now' > now /\ store' = store
    BY <1>1, <1>3 DEF Tick, CacheTypeOK
  <2> QED
    BY <2>1 DEF Leases!Next, Leases!Advance
<1>4. CASE \E k \in Key : GetMiss(k)
  BY <1>1, <1>4, GetMissRefines
<1>5. CASE \E k \in Key, m \in Message : Put(k, m.rcode, Stamp(m.answers),
                                            Stamp(m.authorities))
  BY <1>1, <1>5, PutRefines DEF Message
<1> QED
  BY <1>2, <1>3, <1>4, <1>5, StoreSteps

LEMMA LeaseInit == Init => StoreOriginal /\ Leases!Init
BY DEF Init, CacheInit, StoreOriginal, Leases!Init, LeaseOf

(* REFINEMENT: without a floor on lifetimes (main.py:47 sets none) the     *)
(* cache is a table of leases although queries in flight together for the  *)
(* same question each store what they got.                                 *)
THEOREM ForwardingKeepsLeases ==
    ASSUME MinTtl = 0
    PROVE  Spec => KeepsLeases
<1>1. IInv /\ StoreOriginal /\ [Next]_vars => StoreOriginal'
  BY OriginalStep
<1>2. IInv /\ StoreOriginal /\ [Next]_vars => [Leases!Next]_(Leases!leaseVars)
  BY LeaseStep
<1> QED
  BY <1>1, <1>2, LeaseInit, InvariantHolds, PTL DEF Spec, KeepsLeases, Leases!Spec

=============================================================================
