-------------------------- MODULE FilteringProofs ---------------------------
(***************************************************************************)
(* Proofs about the program in forward mode behind its blocklist           *)
(* (Filtering), for any list files, names, queries and upstreams: what     *)
(* holds of the resolvers holds of them behind the blocklist too, and a    *)
(* listed name, or one below it, never gets past it.                       *)
(***************************************************************************)
EXTENDS Filtering, ForwardingProofs

-----------------------------------------------------------------------------
(* Matching.                                                               *)

(* Looking up a name and its parent domains finds it covered by the list.  *)
LEMMA LookupCovers ==
    ASSUME NEW name \in Seq(STRING), blocked \subseteq Seq(STRING) \ {<<>>}
    PROVE  IsBlocked(name) <=> Covered(name, blocked)
<1> DEFINE n == Len(name)
<1>1. n \in Nat /\ \A i \in 1 .. n : name[i] \in STRING
  OBVIOUS
<1>2. \A i \in 1 .. n :
         /\ From(name, i) \in Seq(STRING)
         /\ Len(From(name, i)) = n - i + 1
         /\ \A j \in 1 .. n - i + 1 : From(name, i)[j] = name[i + j - 1]
  <2> SUFFICES ASSUME NEW i \in 1 .. n
               PROVE  /\ From(name, i) \in Seq(STRING)
                      /\ Len(From(name, i)) = n - i + 1
                      /\ \A j \in 1 .. n - i + 1 : From(name, i)[j] = name[i + j - 1]
    OBVIOUS
  <2>1. i \in Int /\ n \in Int /\ i <= n /\ \A j \in i .. n : name[j] \in STRING
    BY <1>1
  <2> HIDE DEF n
  <2>2. /\ SubSeq(name, i, n) \in Seq(STRING)
        /\ Len(SubSeq(name, i, n)) = n - i + 1
        /\ \A j \in 1 .. n - i + 1 : SubSeq(name, i, n)[j] = name[i + j - 1]
    BY <2>1, SubSeqProperties
  <2> QED
    BY <2>2 DEF From, n
<1>3. ASSUME NEW i \in 1 .. n, From(name, i) \in blocked
      PROVE  Covered(name, blocked)
  <2> DEFINE domain == From(name, i)
  <2>1. /\ Len(domain) = n - i + 1
        /\ \A j \in 1 .. Len(domain) : domain[j] = name[i + j - 1]
    BY <1>2
  <2>2. Len(domain) <= n /\ \A j \in Nat : n - Len(domain) + j = i + j - 1
    BY <1>1, <2>1
  <2>3. Below(name, domain)
    <3> HIDE DEF domain
    <3>1. \A j \in 1 .. Len(domain) : name[n - Len(domain) + j] = domain[j]
      BY <2>1, <2>2
    <3> QED
      BY <2>2, <3>1 DEF Below
  <2> QED
    BY <1>3, <2>3 DEF Covered
<1>4. ASSUME NEW domain \in blocked, Below(name, domain)
      PROVE  \E i \in 1 .. n : From(name, i) \in blocked
  <2> DEFINE i == n - Len(domain) + 1
  <2>1. domain \in Seq(STRING) /\ domain # <<>>
    BY <1>4
  <2>2. Len(domain) \in Nat \ {0}
    BY <2>1, EmptySeq, LenProperties
  <2>3. /\ Len(domain) <= n
        /\ \A j \in 1 .. Len(domain) : name[n - Len(domain) + j] = domain[j]
    BY <1>4 DEF Below
  <2>4. i \in 1 .. n /\ n - i + 1 = Len(domain)
        /\ \A j \in Nat : i + j - 1 = n - Len(domain) + j
    BY <1>1, <2>2, <2>3
  <2>5. From(name, i) = domain
    <3>1. /\ From(name, i) \in Seq(STRING)
          /\ Len(From(name, i)) = Len(domain)
          /\ \A j \in 1 .. Len(domain) : From(name, i)[j] = name[i + j - 1]
      BY <1>2, <2>4
    <3> HIDE DEF i
    <3>2. \A j \in 1 .. Len(domain) : From(name, i)[j] = domain[j]
      BY <2>3, <2>4, <3>1
    <3> QED
      BY <2>1, <3>1, <3>2, SeqEqual
  <2> QED
    BY <1>4, <2>4, <2>5
<1> QED
  BY <1>3, <1>4 DEF IsBlocked, Covered

(* What a file lists is names, and never the empty one.                    *)
LEMMA ListedType ==
    ASSUME NEW text \in Seq(Seq(Word))
    PROVE  Listed(text) \subseteq Seq(STRING) \ {<<>>}
<1>1. ASSUME NEW line \in Seq(Word)
      PROVE  Names(line) \subseteq Seq(STRING)
  <2>1. CASE line = <<>>
    BY <2>1 DEF Names
  <2>2. CASE line # <<>>
    <3>1. Len(line) \in Nat \ {0}
      BY <2>2, EmptySeq, LenProperties
    <3>2. \A i \in 1 .. Len(line) : line[i].name \in Seq(STRING)
      <4>1. \A i \in 1 .. Len(line) : line[i] \in Word
        BY ElementOfSeq
      <4> QED
        BY <4>1 DEF Word
    <3> QED
      BY <2>2, <3>1, <3>2 DEF Names, Hosts
  <2> QED
    BY <2>1, <2>2
<1>2. \A i \in DOMAIN text : text[i] \in Seq(Word)
  BY ElementOfSeq, LenProperties
<1>3. ASSUME NEW name \in Listed(text)
      PROVE  name \in Seq(STRING) \ {<<>>}
  <2>1. PICK i \in DOMAIN text : name \in Names(text[i])
    <3>1. name \in UNION {Names(text[i]) : i \in DOMAIN text}
      BY <1>3, Zenon DEF Listed
    <3> QED
      BY <3>1, Zenon
  <2>2. name # <<>>
    <3>1. name \notin Noise \cup {<<>>}
      BY <1>3, Zenon DEF Listed
    <3> QED
      BY <3>1
  <2> QED
    BY <1>1, <1>2, <2>1, <2>2
<1> QED
  BY <1>3

-----------------------------------------------------------------------------
(* The invariant of the resolvers, behind the blocklist.                   *)

(* A refusal is a response of the resolver's own, and no error.            *)
LEMMA RefusalType ==
    ASSUME NEW q \in Question, now \in Nat
    PROVE  /\ Refusal(q) \in Handled
           /\ Refusal(q).upstream = 0 /\ Refusal(q).rcode # "SERVFAIL"
           /\ ~Refusal(q).cache_hit /\ Refusal(q).blocked
           /\ Refusal(q) # Nothing
<1>1. q \in Key /\ 0 \in 0 .. Upstreams /\ Nothing \notin Handled
  BY ForwardingConstants
<1>2. q[1] \in Name /\ q[2] \in RType
  BY <1>1 DEF Key
<1>3. now + BlockTtl * TicksPerSecond \in Nat
  BY CacheConstants, FilteringConstants
<1>4. Sinkhole(q) \in Seq(Record)
  <2> DEFINE dead == [owner |-> q[1], rtype |-> q[2], ttl |-> BlockTtl, minimum |-> 0,
                      target |-> q[1], heard |-> now,
                      until |-> now + BlockTtl * TicksPerSecond]
  <2>1. dead \in Record
    <3>1. BlockTtl \in Nat /\ 0 \in Nat
      BY FilteringConstants
    <3> QED
      BY <1>2, <1>3, <3>1, Zenon DEF Record
  <2>2. Sinkhole(q) = <<dead>> \/ Sinkhole(q) = <<>>
    BY DEF Sinkhole
  <2>3. <<>> \in Seq(Record) /\ \A r \in Record : <<r>> \in Seq(Record)
    OBVIOUS
  <2>4. <<dead>> \in Seq(Record) /\ <<>> \in Seq(Record)
    BY <2>1, <2>3, Zenon
  <2> QED
    BY <2>2, <2>4, Zenon
<1> DEFINE rcode == IF BlockMode = "nxdomain" THEN "NXDOMAIN" ELSE "NOERROR"
           answers == IF BlockMode = "nxdomain" THEN <<>> ELSE Sinkhole(q)
<1>5. rcode \in RCode /\ rcode # "SERVFAIL" /\ answers \in Seq(Record)
  BY <1>4 DEF RCode
<1>6. Refusal(q) = [Response(rcode, answers, <<>>) EXCEPT !.blocked = TRUE]
  BY DEF Refusal
<1> HIDE DEF rcode, answers
<1>7. /\ Response(rcode, answers, <<>>) \in Handled
      /\ Response(rcode, answers, <<>>).upstream = 0
      /\ Response(rcode, answers, <<>>).rcode = rcode
      /\ ~Response(rcode, answers, <<>>).cache_hit
  <2>1. <<>> \in Seq(Record)
    OBVIOUS
  <2> QED
    BY <1>5, <2>1, ResponseType DEF Response
<1>8. \A h \in Handled : /\ [h EXCEPT !.blocked = TRUE] \in Handled
                         /\ [h EXCEPT !.blocked = TRUE].upstream = h.upstream
                         /\ [h EXCEPT !.blocked = TRUE].rcode = h.rcode
                         /\ [h EXCEPT !.blocked = TRUE].cache_hit = h.cache_hit
                         /\ [h EXCEPT !.blocked = TRUE].blocked
  BY DEF Handled
<1> QED
  BY <1>1, <1>5, <1>6, <1>7, <1>8

LEMMA RefuseStep ==
    ASSUME IInv, NEW t \in Task, NEW q \in Question, Refuse(t, q)
    PROVE  IInv'
<1> DEFINE r == Refusal(q)
<1>1. VarTypes /\ CacheTypeOK /\ ErrorsUncached /\ \A u \in Task : TaskOK(u)
  BY DEF IInv, VarTypes
<1>2. now \in Nat
  BY <1>1 DEF CacheTypeOK
<1>3. r \in Handled /\ r.upstream = 0 /\ r.rcode # "SERVFAIL" /\ r # Nothing
  BY <1>2, RefusalType
<1> HIDE DEF r
<1>4. Arrive(t, q) /\ Respond(t, r) /\ UNCHANGED cacheVars
  BY DEF Refuse, r
<1>5. CacheTypeOK' /\ ErrorsUncached' /\ now' = now
  BY <1>1, <1>4 DEF cacheVars, CacheTypeOK, ErrorsUncached
<1>6. VarTypes'
  BY <1>1, <1>3, <1>4, <1>5, ArriveStep, RespondStep DEF VarTypes
<1>7. TaskOK(t)'
  BY <1>1, <1>3, <1>4, ArriveStep, RespondStep, TaskDone
<1>8. \A u \in Task \ {t} : TaskOK(u)'
  BY <1>1, <1>3, <1>4, <1>5, ArriveStep, RespondStep, TaskKept
<1> QED
  BY <1>5, <1>6, <1>7, <1>8 DEF IInv

(* To the resolvers behind it, the blocklist only adds queries that never  *)
(* reach them.                                                             *)
LEMMA FilterStep ==
    ASSUME [FilterNext]_allVars
    PROVE  \/ [Next]_vars
           \/ \E t \in Task, q \in Question : Refuse(t, q)
BY DEF FilterNext, LoadFile, Start, Serve, Filter, Next, allVars, vars

LEMMA ResolversStep == IInv /\ [FilterNext]_allVars => IInv'
  BY FilterStep, RefuseStep, InvariantStep

LEMMA ResolversHold == FilterSpec => []IInv
  BY ResolversStep, InvariantInit, PTL DEF FilterSpec, FilterInit

-----------------------------------------------------------------------------
(* What holds of the resolvers holds of them behind the blocklist.         *)

ListsTyped ==
    /\ blocked \subseteq Seq(STRING) \ {<<>>}
    /\ serving \in BOOLEAN /\ meant \subseteq Seq(STRING)

LEMMA ListsTypedHolds == FilterSpec => []ListsTyped
<1>1. FilterInit => ListsTyped
  BY DEF FilterInit, BlocklistInit, ListsTyped
<1>2. ListsTyped /\ [FilterNext]_allVars => ListsTyped'
  <2> SUFFICES ASSUME ListsTyped, [FilterNext]_allVars
               PROVE  ListsTyped'
    OBVIOUS
  <2>1. ASSUME NEW file \in Files, LoadFile(file)
        PROVE  ListsTyped'
    <3>1. /\ Listed(file.text) \subseteq Seq(STRING) \ {<<>>}
          /\ file.domains \subseteq Seq(STRING)
      BY FilteringConstants, ListedType
    <3>2. /\ blocked' = blocked \cup Listed(file.text)
          /\ meant' = meant \cup file.domains /\ serving' = serving
      BY <2>1 DEF LoadFile, Load
    <3> QED
      BY <3>1, <3>2 DEF ListsTyped
  <2>2. CASE Start
    BY <2>2 DEF Start, ListsTyped
  <2>3. CASE Serve
    BY <2>3 DEF Serve, ListsTyped
  <2>4. CASE UNCHANGED allVars
    BY <2>4 DEF allVars, ListsTyped
  <2> QED
    BY <2>1, <2>2, <2>3, <2>4 DEF FilterNext
<1> QED
  BY <1>1, <1>2, PTL DEF FilterSpec

(* The whole program in forward mode stays well typed, with any list files *)
(* loaded in any order.                                                    *)
THEOREM FilterTypeCorrect == FilterSpec => []FilterTypeOK
<1>1. IInv /\ ListsTyped => FilterTypeOK
  BY InvariantImplies DEF ListsTyped, FilterTypeOK
<1> QED
  BY <1>1, ListsTypedHolds, ResolversHold, PTL

(* Behind the blocklist as without it, a client is answered within two     *)
(* timeouts for each upstream.                                             *)
THEOREM FilterWaitIsBounded == FilterSpec => []AnsweredInTime
  BY BoundImplied, ResolversHold, PTL

(* Behind the blocklist as without it, upstreams are tried in order, and a *)
(* refusal tries none.                                                     *)
THEOREM FilterFailOverInOrder == FilterSpec => []TriedInOrder
<1>1. IInv => TriedInOrder
  BY InvariantImplies
<1> QED
  BY <1>1, ResolversHold, PTL

LEMMA AsSentRefuse ==
    ASSUME IInv, AnswersAsSent, NEW t \in Task, NEW q \in Question, Refuse(t, q)
    PROVE  AnswersAsSent'
<1>1. /\ VarTypes /\ now \in Nat
      /\ \A k \in Key : EntryAsSent(k)
      /\ \A u \in Task : TaskAsSent(u)
  BY AsSentParts DEF IInv, VarTypes, CacheTypeOK
<1>2. Arrive(t, q) /\ Respond(t, Refusal(q)) /\ store' = store
  BY DEF Refuse, cacheVars
<1>3. Refusal(q) \in Handled /\ ~FromOthers(Refusal(q))
  BY <1>1, RefusalType DEF FromOthers
<1>4. /\ handled'[t] = Refusal(q)
      /\ \A u \in Task \ {t} : handled'[u] = handled[u] /\ question'[u] = question[u]
  BY <1>1, <1>2, <1>3, RespondStep, ArriveStep
<1>5. TaskAsSent(t)'
  BY <1>3, <1>4, OwnAnswer
<1>6. \A u \in Task \ {t} : TaskAsSent(u)'
  BY <1>1, <1>4, OthersAsSent
<1>7. \A k \in Key : EntryAsSent(k)'
  BY <1>1, <1>2, EntriesKept
<1> QED
  BY <1>5, <1>6, <1>7, AsSentTogether

(* Behind the blocklist as without it, answers and entries are what an     *)
(* upstream answered to the question, in a datagram without the TC flag or *)
(* over TCP: no refusal is ever cached.                                    *)
THEOREM FilterAnswersFaithful == FilterSpec => []AnswersAsSent
<1>1. IInv /\ AnswersAsSent /\ [FilterNext]_allVars => AnswersAsSent'
  BY FilterStep, AsSentStep, AsSentRefuse
<1> QED
  BY <1>1, AsSentInit, ResolversHold, PTL DEF FilterSpec, FilterInit

(* REFINEMENT: behind the blocklist as without it, the cache is a table of *)
(* leases.                                                                 *)
THEOREM FilterKeepsLeases ==
    ASSUME MinTtl = 0
    PROVE  FilterSpec => KeepsLeases
<1>1. ASSUME NEW t \in Task, NEW q \in Question, Refuse(t, q)
      PROVE  UNCHANGED <<now, store>>
  BY <1>1 DEF Refuse, cacheVars
<1>2. UNCHANGED <<now, store>> => (StoreOriginal => StoreOriginal')
                                  /\ [Leases!Next]_(Leases!leaseVars)
  BY DEF StoreOriginal, Leases!leaseVars
<1>3. IInv /\ StoreOriginal /\ [FilterNext]_allVars => StoreOriginal'
  BY <1>1, <1>2, FilterStep, OriginalStep
<1>4. IInv /\ StoreOriginal /\ [FilterNext]_allVars => [Leases!Next]_(Leases!leaseVars)
  BY <1>1, <1>2, FilterStep, LeaseStep
<1> QED
  BY <1>3, <1>4, LeaseInit, ResolversHold, PTL
  DEF FilterSpec, FilterInit, KeepsLeases, Leases!Spec

-----------------------------------------------------------------------------
(* Listed names get no further than the blocklist.                         *)

(* The server starts only when the lists are complete.                     *)
Unused ==
    ~serving => /\ \A t \in Task : ~Waiting(t) /\ handled[t] = Nothing
                /\ \A k \in Key : store[k] = NoEntry

(* Loading files keeps what is matched and what is meant the same.         *)
Matched == \A name \in Name : Covered(name, blocked) <=> Covered(name, meant)

(* A task that asks about a listed name has been refused already; one that *)
(* was refused asked about a listed name.                                  *)
TaskFiltered(t) ==
    /\ Waiting(t) => ~Covered(question[t][1], meant)
    /\ (handled[t] # Nothing /\ question[t] # Nothing) =>
          (handled[t].blocked <=> Covered(question[t][1], meant))

EntryFiltered(k) == Covered(k[1], meant) => store[k] = NoEntry

Filtered ==
    /\ \A t \in Task : TaskFiltered(t)
    /\ \A k \in Key : EntryFiltered(k)

FInv == IInv /\ ListsTyped /\ Unused /\ Matched /\ Filtered

LEMMA FilteredImplies == Filtered => BlockedNamesDieHere /\ BlocksExactlyTheListed
BY DEF Filtered, TaskFiltered, EntryFiltered, BlockedNamesDieHere, BlocksExactlyTheListed

(* A name is refused if and only if it is meant to be.                     *)
LEMMA RefusedAsMeant ==
    ASSUME ListsTyped, Matched, NEW q \in Question
    PROVE  IsBlocked(q[1]) <=> Covered(q[1], meant)
<1>1. q[1] \in Name
  BY ForwardingConstants DEF Key
<1>2. q[1] \in Seq(STRING)
  BY <1>1, FilteringConstants
<1> QED
  BY <1>1, <1>2, LookupCovers DEF ListsTyped, Matched

LEMMA LoadKeeps ==
    ASSUME FilesAsMeant, FInv, NEW file \in Files, LoadFile(file)
    PROVE  Unused' /\ Matched' /\ Filtered'
<1>1. /\ blocked' = blocked \cup Listed(file.text)
      /\ meant' = meant \cup file.domains /\ serving' = serving /\ ~serving
      /\ phase' = phase /\ handled' = handled /\ store' = store
  BY DEF LoadFile, Load, vars
<1>2. \A a, b : \A name \in Name :
         Covered(name, a \cup b) <=> Covered(name, a) \/ Covered(name, b)
  BY DEF Covered
<1>3. Matched'
  BY <1>1, <1>2 DEF FInv, Matched, FilesAsMeant
<1>4. Unused'
  BY <1>1 DEF FInv, Unused, Waiting
<1>5. Filtered'
  BY <1>1 DEF FInv, Unused, Filtered, TaskFiltered, EntryFiltered, Waiting
<1> QED
  BY <1>3, <1>4, <1>5

(* What a step leaves alone stays filtered.                                *)
LEMMA TasksKept ==
    ASSUME NEW u \in Task, TaskFiltered(u), phase'[u] = phase[u],
           question'[u] = question[u], handled'[u] = handled[u], meant' = meant
    PROVE  TaskFiltered(u)'
BY DEF TaskFiltered, Waiting

LEMMA EntriesFiltered ==
    ASSUME \A k \in Key : EntryFiltered(k), meant' = meant,
           \A k \in Key : store'[k] # store[k] =>
                              store'[k] = NoEntry \/ ~Covered(k[1], meant)
    PROVE  \A k \in Key : EntryFiltered(k)'
BY DEF EntryFiltered

(* A task that is no longer waiting.                                       *)
LEMMA TaskAnswered ==
    ASSUME NEW t \in Task, phase'[t] = "idle", meant' = meant,
           \/ question'[t] = Nothing
           \/ handled'[t].blocked <=> Covered(question'[t][1], meant)
    PROVE  TaskFiltered(t)'
BY DEF TaskFiltered, Waiting

LEMMA FilterArrive ==
    ASSUME IInv, ListsTyped, Matched, Filtered, meant' = meant, NEW t \in Task,
           RejectEmpty(t) \/ \E q \in Question : Filter(t, q)
    PROVE  Filtered'
<1>1. /\ VarTypes /\ CacheTypeOK /\ now \in Nat
      /\ \A u \in Task : TaskFiltered(u)
      /\ \A k \in Key : EntryFiltered(k)
  BY DEF IInv, VarTypes, CacheTypeOK, Filtered
<1>2. \A u \in Task \ {t} : /\ phase'[u] = phase[u] /\ question'[u] = question[u]
                             /\ handled'[u] = handled[u]
  BY <1>1 DEF VarTypes, RejectEmpty, Filter, Refuse, Handle, AnswerFromCache, AskFirst,
              Arrive, Respond, Await
<1>3. \A u \in Task \ {t} : TaskFiltered(u)'
  BY <1>1, <1>2, TasksKept
<1>4. CASE RejectEmpty(t)
  <2>1. phase'[t] = "idle" /\ question'[t] = Nothing /\ store' = store
    BY <1>1, <1>4 DEF VarTypes, RejectEmpty, Arrive, Respond, cacheVars
  <2> QED
    BY <1>1, <1>3, <2>1, TaskAnswered, EntriesFiltered DEF Filtered
<1>5. ASSUME NEW q \in Question, Refuse(t, q)
      PROVE  Filtered'
  <2>1. IsBlocked(q[1]) /\ Arrive(t, q) /\ Respond(t, Refusal(q)) /\ store' = store
    BY <1>5 DEF Refuse, cacheVars
  <2>2. Refusal(q) \in Handled /\ Refusal(q).blocked
    BY <1>1, RefusalType
  <2>3. phase'[t] = "idle" /\ question'[t] = q /\ handled'[t] = Refusal(q)
    BY <1>1, <2>1, <2>2, RespondStep, ArriveStep
  <2>4. Covered(q[1], meant)
    BY <2>1, RefusedAsMeant
  <2>5. TaskFiltered(t)'
    BY <2>2, <2>3, <2>4, TaskAnswered
  <2> QED
    BY <1>1, <1>3, <2>1, <2>5, EntriesFiltered DEF Filtered
<1>6. ASSUME NEW q \in Question, ~IsBlocked(q[1]), AnswerFromCache(t, q)
      PROVE  Filtered'
  <2> DEFINE copy == FreshCopy(q)
             r == [Response(copy.rcode, copy.answers, copy.authorities)
                      EXCEPT !.cache_hit = TRUE]
  <2>1. Arrive(t, q) /\ Respond(t, r) /\ store' = store
    BY <1>6 DEF AnswerFromCache, GetHit
  <2>2. ~r.blocked
    BY DEF Response
  <2> HIDE DEF r
  <2>3. phase'[t] = "idle" /\ question'[t] = q /\ handled'[t] = r
    BY <1>1, <2>1 DEF VarTypes, Arrive, Respond
  <2>4. ~Covered(q[1], meant)
    BY <1>6, RefusedAsMeant
  <2>5. TaskFiltered(t)'
    BY <2>2, <2>3, <2>4, TaskAnswered
  <2> QED
    BY <1>1, <1>3, <2>1, <2>5, EntriesFiltered DEF Filtered
<1>7. ASSUME NEW q \in Question, ~IsBlocked(q[1]), AskFirst(t, q)
      PROVE  Filtered'
  <2>1. /\ question'[t] = q /\ handled'[t] = Nothing
        /\ store' = [store EXCEPT ![q] = NoEntry]
    BY <1>1, <1>7 DEF VarTypes, AskFirst, Arrive, GetMiss
  <2>2. ~Covered(q[1], meant)
    BY <1>7, RefusedAsMeant
  <2>3. TaskFiltered(t)'
    BY <2>1, <2>2 DEF TaskFiltered
  <2>4. \A k \in Key : EntryFiltered(k)'
    BY <1>1, <2>1, EntriesFiltered DEF CacheTypeOK
  <2> QED
    BY <1>3, <2>3, <2>4 DEF Filtered
<1> QED
  BY <1>4, <1>5, <1>6, <1>7 DEF Filter, Handle

LEMMA FilterAnswer ==
    ASSUME IInv, Filtered, meant' = meant, NEW t \in Task, Waiting(t),
           NEW m \in Incoming(t), Answer(t, m)
    PROVE  Filtered'
<1> DEFINE plain == Response(m.rcode, Stamp(m.answers), Stamp(m.authorities))
           r == [plain EXCEPT !.upstream = upstream[t]]
<1>1. /\ VarTypes /\ CacheTypeOK
      /\ \A u \in Task : TaskFiltered(u)
      /\ \A k \in Key : EntryFiltered(k)
  BY DEF IInv, VarTypes, Filtered
<1>2. question[t] \in Key /\ m \in Message
  <2>1. question[t] \in Key /\ Asked(t) \in Name \X RType
    BY <1>1, QuestionType DEF IInv, TaskOK
  <2> QED
    BY <2>1, ForwardingConstants DEF Incoming
<1>3. Respond(t, r) /\ question' = question
  BY DEF Answer, clientVars
<1>4. ~r.blocked
  BY DEF Response
<1> HIDE DEF r
<1>5. /\ phase'[t] = "idle" /\ handled'[t] = r
      /\ \A u \in Task \ {t} : phase'[u] = phase[u] /\ handled'[u] = handled[u]
  BY <1>1, <1>3 DEF VarTypes, Respond
<1>6. ~Covered(question[t][1], meant)
  BY <1>1 DEF TaskFiltered
<1>7. TaskFiltered(t)'
  BY <1>3, <1>4, <1>5, <1>6, TaskAnswered
<1>8. \A u \in Task \ {t} : TaskFiltered(u)'
  BY <1>1, <1>3, <1>5, TasksKept
<1>9. \A k \in Key : store'[k] # store[k] => k = question[t]
  <2>1. CASE UNCHANGED cacheVars
    BY <2>1 DEF cacheVars
  <2>2. CASE Put(question[t], m.rcode, Stamp(m.answers), Stamp(m.authorities))
    <3>1. UNCHANGED store \/ \E e \in Entry : store' = [store EXCEPT ![question[t]] = e]
      BY <1>1, <1>2, <2>2, PutEffect DEF Message
    <3> QED
      BY <1>1, <3>1 DEF CacheTypeOK
  <2> QED
    BY <2>1, <2>2 DEF Answer
<1>10. \A k \in Key : EntryFiltered(k)'
  BY <1>1, <1>6, <1>9, EntriesFiltered
<1> QED
  BY <1>7, <1>8, <1>10 DEF Filtered

LEMMA FilterAskFails ==
    ASSUME IInv, Filtered, meant' = meant, NEW t \in Task, AskFails(t)
    PROVE  Filtered'
<1>1. /\ VarTypes
      /\ \A u \in Task : TaskFiltered(u)
      /\ \A k \in Key : EntryFiltered(k)
  BY DEF IInv, Filtered
<1>2. question' = question /\ store' = store /\ Waiting(t)
  BY DEF AskFails, clientVars, cacheVars, Waiting
<1>3. \A u \in Task \ {t} : phase'[u] = phase[u] /\ handled'[u] = handled[u]
  BY <1>1 DEF VarTypes, AskFails, AskNext, Await, Respond
<1>4. \A u \in Task \ {t} : TaskFiltered(u)'
  BY <1>1, <1>2, <1>3, TasksKept
<1>5. ~Covered(question[t][1], meant)
  BY <1>1, <1>2 DEF TaskFiltered
<1>6. TaskFiltered(t)'
  <2>1. CASE handled' = handled
    BY <1>1, <1>2, <1>5, <2>1 DEF TaskFiltered
  <2>2. CASE Respond(t, Response("SERVFAIL", <<>>, <<>>))
    <3>1. phase'[t] = "idle" /\ ~handled'[t].blocked
      BY <1>1, <2>2 DEF VarTypes, Respond, Response
    <3> QED
      BY <1>2, <1>5, <3>1, TaskAnswered
  <2> QED
    BY <2>1, <2>2 DEF AskFails, AskNext
<1>7. \A k \in Key : EntryFiltered(k)'
  BY <1>1, <1>2, EntriesFiltered
<1> QED
  BY <1>4, <1>6, <1>7 DEF Filtered

LEMMA FilterServe ==
    ASSUME FInv, Serve
    PROVE  Unused' /\ Matched' /\ Filtered'
<1>1. /\ serving /\ serving' = serving /\ blocked' = blocked /\ meant' = meant
      /\ IInv /\ ListsTyped /\ Matched /\ Filtered
  BY DEF FInv, Serve
<1>2. Unused' /\ Matched'
  BY <1>1 DEF Unused, Matched
<1>3. ASSUME \A t \in Task : Waiting(t)' => Waiting(t),
             question' = question, handled' = handled, store' = store
      PROVE  Filtered'
  BY <1>1, <1>3 DEF Filtered, TaskFiltered, EntryFiltered, Waiting
<1>4. ASSUME NEW t \in Task, Waiting(t), NEW m \in Incoming(t), Truncated(t, m)
      PROVE  Filtered'
  <2>1. \A u \in Task : Waiting(u)' => Waiting(u)
    BY <1>1, <1>4 DEF Truncated, Await, Waiting, IInv, VarTypes
  <2>2. question' = question /\ handled' = handled /\ store' = store
    BY <1>4 DEF Truncated, clientVars
  <2> QED
    BY <1>3, <2>1, <2>2
<1>5. CASE Wait \/ Quiesced
  <2>1. phase' = phase /\ question' = question /\ handled' = handled /\ store' = store
    BY <1>5 DEF Wait, Quiesced, Tick, askVars, clientVars, vars
  <2>2. \A t \in Task : Waiting(t)' => Waiting(t)
    BY <2>1 DEF Waiting
  <2> QED
    BY <1>2, <1>3, <2>1, <2>2
<1>6. ASSUME NEW t \in Task, Progress(t)
      PROVE  Filtered'
  BY <1>1, <1>4, <1>6, FilterAnswer, FilterAskFails DEF Progress, Waiting
<1>7. ASSUME NEW t \in Task, RejectEmpty(t) \/ \E q \in Question : Filter(t, q)
      PROVE  Filtered'
  BY <1>1, <1>7, FilterArrive
<1> QED
  BY <1>2, <1>5, <1>6, <1>7 DEF Serve

LEMMA FilteredInit == FilterInit => Unused /\ Matched /\ Filtered
BY DEF FilterInit, Init, CacheInit, BlocklistInit, Unused, Matched, Filtered, TaskFiltered,
       EntryFiltered, Waiting

LEMMA FilteredStep ==
    ASSUME FilesAsMeant, FInv, [FilterNext]_allVars
    PROVE  Unused' /\ Matched' /\ Filtered'
<1>1. CASE Start
  BY <1>1 DEF Start, vars, FInv, Unused, Matched, Filtered, TaskFiltered, EntryFiltered,
              Waiting
<1>2. CASE UNCHANGED allVars
  BY <1>2 DEF allVars, FInv, Unused, Matched, Filtered, TaskFiltered, EntryFiltered,
              Waiting
<1> QED
  BY <1>1, <1>2, LoadKeeps, FilterServe DEF FilterNext

LEMMA FilteredHolds ==
    ASSUME FilesAsMeant
    PROVE  FilterSpec => []Filtered
<1>1. IInv /\ ListsTyped /\ Unused /\ Matched /\ Filtered /\ [FilterNext]_allVars
         => Unused' /\ Matched' /\ Filtered'
  BY FilteredStep DEF FInv
<1> QED
  BY <1>1, FilteredInit, ListsTypedHolds, ResolversHold, PTL DEF FilterSpec

(* "ad/tracker names die here, before any network I/O" (main.py:9): of     *)
(* files in the formats that are known, no upstream is ever asked about a  *)
(* listed name or one below it, and nothing of it is ever in the cache.    *)
THEOREM ListedNamesDieHere ==
    ASSUME FilesAsMeant
    PROVE  FilterSpec => []BlockedNamesDieHere
  BY FilteredHolds, FilteredImplies, PTL

(* A refusal tells of a listed name, and of a listed name a client is told *)
(* nothing else, however many labels it has more than what is listed.      *)
THEOREM RefusesExactlyTheListed ==
    ASSUME FilesAsMeant
    PROVE  FilterSpec => []BlocksExactlyTheListed
  BY FilteredHolds, FilteredImplies, PTL

=============================================================================
