---------------------------- MODULE CacheLemmas -----------------------------
(***************************************************************************)
(* What the operations of the cache do, for every set of names and types,  *)
(* every clock resolution and every limit, and whoever calls them: the     *)
(* facts the proofs about CacheClient and Recursion rest on.               *)
(***************************************************************************)
EXTENDS Cache, TLAPS, WellFoundedInduction

-----------------------------------------------------------------------------
(* Records and lifetimes.                                                  *)

(* The TTLs of a sequence of records are naturals.                         *)
LEMMA RecordTtls ==
    ASSUME NEW records \in Seq(Record)
    PROVE  \A i \in DOMAIN records : /\ records[i] \in Record
                                     /\ records[i].ttl \in Nat
                                     /\ records[i].minimum \in Nat
                                     /\ records[i].until \in Nat
<1>1. \A i \in DOMAIN records : records[i] \in Record
  OBVIOUS
<1>2. \A r \in Record : r.ttl \in Nat /\ r.minimum \in Nat /\ r.until \in Nat
  BY DEF Record
<1> QED
  BY <1>1, <1>2

(* A set of naturals has a least element, and Min picks it.                *)
LEMMA MinNat ==
    ASSUME NEW S \in SUBSET Nat, S # {}
    PROVE  Min(S) \in S /\ \A y \in S : Min(S) <= y
<1>1. \E x \in S : \A y \in S : ~(<<y, x>> \in OpToRel(<, Nat))
  BY NatLessThanWellFounded, WFMin, Zenon
<1>2. \E x \in S : \A y \in S : ~(y < x)
  BY <1>1, Zenon DEF OpToRel
<1>3. \E x \in S : \A y \in S : x <= y
  BY <1>2
<1> QED
  BY <1>3 DEF Min

(* The lifetime of an entry that the shortest-lived answer decides.        *)
LEMMA ShortestTtlBounds ==
    ASSUME NEW answers \in Seq(Record), answers # <<>>
    PROVE  /\ ShortestTtl(answers) \in Nat
           /\ \A i \in DOMAIN answers : ShortestTtl(answers) <= answers[i].ttl
<1> DEFINE ttls == {answers[i].ttl : i \in DOMAIN answers}
<1>1. \A i \in DOMAIN answers : answers[i].ttl \in Nat
  BY RecordTtls
<1>2. 1 \in DOMAIN answers
  OBVIOUS
<1>3. answers[1].ttl \in ttls
  BY <1>2
<1>4. ttls \in SUBSET Nat /\ ttls # {}
  BY <1>1, <1>3
<1>5. Min(ttls) \in ttls /\ \A y \in ttls : Min(ttls) <= y
  BY <1>4, MinNat
<1> QED
  BY <1>1, <1>5 DEF ShortestTtl

(* The SOA a negative answer is justified by exists as soon as there is    *)
(* an SOA record at all.                                                   *)
LEMMA FirstSoaExists ==
    ASSUME NEW authorities \in Seq(Record), SoaPositions(authorities) # {}
    PROVE  /\ Min(SoaPositions(authorities)) \in DOMAIN authorities
           /\ FirstSoa(authorities).ttl \in Nat
           /\ FirstSoa(authorities).minimum \in Nat
<1>1. SoaPositions(authorities) \in SUBSET Nat
  BY DEF SoaPositions
<1>2. Min(SoaPositions(authorities)) \in SoaPositions(authorities)
  BY <1>1, MinNat
<1>3. Min(SoaPositions(authorities)) \in DOMAIN authorities
  BY <1>2 DEF SoaPositions
<1> QED
  BY <1>3, RecordTtls DEF FirstSoa

(* A lifetime is a natural number of seconds under the ceiling, whatever   *)
(* an upstream server sent.                                                *)
LEMMA ComputeTtlType ==
    ASSUME NEW rcode \in RCode, NEW answers \in Seq(Record),
           NEW authorities \in Seq(Record)
    PROVE  ComputeTtl(rcode, answers, authorities) \in 0 .. AtLeast(MinTtl, MaxTtl)
<1>1. CASE IsPositive(rcode, answers)
  <2>1. ShortestTtl(answers) \in Nat
    BY <1>1, ShortestTtlBounds DEF IsPositive
  <2> QED
    BY <1>1, <2>1, CacheConstants DEF ComputeTtl, AtLeast, AtMost
<1>2. CASE ~IsPositive(rcode, answers)
  <2>1. NegativeTtl(authorities) \in Nat
    <3>1. CASE SoaPositions(authorities) = {}
      BY <3>1 DEF NegativeTtl
    <3>2. CASE SoaPositions(authorities) # {}
      <4>1. FirstSoa(authorities).ttl \in Nat /\ FirstSoa(authorities).minimum \in Nat
        BY <3>2, FirstSoaExists
      <4> QED
        BY <3>2, <4>1 DEF NegativeTtl, AtMost
    <3> QED
      BY <3>1, <3>2
  <2> QED
    BY <1>2, <2>1, CacheConstants DEF ComputeTtl, AtLeast, AtMost
<1> QED
  BY <1>1, <1>2

(* Without a floor, no answer of a positive entry is kept longer than its  *)
(* TTL, and a negative entry with a lifetime no longer than its SOA's.     *)
LEMMA ComputeTtlWithin ==
    ASSUME NEW rcode \in RCode, NEW answers \in Seq(Record),
           NEW authorities \in Seq(Record), MinTtl = 0
    PROVE  LET ttl == ComputeTtl(rcode, answers, authorities)
           IN  IF IsPositive(rcode, answers)
               THEN \A i \in DOMAIN answers : ttl <= answers[i].ttl
               ELSE ttl > 0 => /\ SoaPositions(authorities) # {}
                               /\ ttl <= FirstSoa(authorities).ttl
<1>1. CASE IsPositive(rcode, answers)
  <2>1. /\ ShortestTtl(answers) \in Nat
        /\ \A i \in DOMAIN answers : ShortestTtl(answers) <= answers[i].ttl
    BY <1>1, ShortestTtlBounds DEF IsPositive
  <2>2. ComputeTtl(rcode, answers, authorities) \in Nat
    BY <1>1, <2>1, CacheConstants DEF ComputeTtl, AtLeast, AtMost
  <2>3. ComputeTtl(rcode, answers, authorities) <= ShortestTtl(answers)
    BY <1>1, <2>1, CacheConstants DEF ComputeTtl, AtLeast, AtMost
  <2>4. \A i \in DOMAIN answers : answers[i].ttl \in Nat
    BY RecordTtls
  <2> QED
    BY <1>1, <2>1, <2>2, <2>3, <2>4
<1>2. CASE ~IsPositive(rcode, answers)
  <2>1. CASE SoaPositions(authorities) = {}
    BY <1>2, <2>1, CacheConstants DEF ComputeTtl, NegativeTtl, AtLeast, AtMost
  <2>2. CASE SoaPositions(authorities) # {}
    <3>1. FirstSoa(authorities).ttl \in Nat /\ FirstSoa(authorities).minimum \in Nat
      BY <2>2, FirstSoaExists
    <3> QED
      BY <1>2, <2>2, <3>1, CacheConstants DEF ComputeTtl, NegativeTtl, AtLeast, AtMost
  <2> QED
    BY <2>1, <2>2
<1> QED
  BY <1>1, <1>2

-----------------------------------------------------------------------------
(* What the operations make of records and entries.                        *)

(* Stamping keeps everything but the history fields.                       *)
LEMMA StampKeeps ==
    ASSUME NEW records \in Seq(Record), now \in Nat
    PROVE  /\ Stamp(records) \in Seq(Record)
           /\ DOMAIN Stamp(records) = DOMAIN records
           /\ \A i \in DOMAIN records :
                 /\ Stamp(records)[i].heard = now
                 /\ Stamp(records)[i].until =
                        now + Stamp(records)[i].ttl * TicksPerSecond
                 /\ Stamp(records)[i].owner = records[i].owner
                 /\ Stamp(records)[i].rtype = records[i].rtype
                 /\ Stamp(records)[i].target = records[i].target
<1>1. PICK n \in Nat : records \in [1 .. n -> Record]
  OBVIOUS
<1>2. \A r \in Record : now + r.ttl * TicksPerSecond \in Nat
  <2>1. \A seconds \in Nat : now + seconds * TicksPerSecond \in Nat
    BY CacheConstants
  <2>2. \A r \in Record : r.ttl \in Nat
    BY DEF Record
  <2> QED
    BY <2>1, <2>2
<1>3. ASSUME NEW r \in Record, NEW u \in Nat
      PROVE  LET s == [r EXCEPT !.heard = now, !.until = u]
             IN  /\ s \in Record /\ s.heard = now /\ s.until = u /\ s.ttl = r.ttl
                 /\ s.owner = r.owner /\ s.rtype = r.rtype /\ s.target = r.target
  BY DEF Record
<1>4. \A i \in 1 .. n :
         /\ Stamp(records)[i] \in Record
         /\ Stamp(records)[i].heard = now
         /\ Stamp(records)[i].until = now + Stamp(records)[i].ttl * TicksPerSecond
         /\ Stamp(records)[i].owner = records[i].owner
         /\ Stamp(records)[i].rtype = records[i].rtype
         /\ Stamp(records)[i].target = records[i].target
  <2> SUFFICES ASSUME NEW i \in 1 .. n
               PROVE  LET s == Stamp(records)[i]
                      IN  /\ s \in Record /\ s.heard = now
                          /\ s.until = now + s.ttl * TicksPerSecond
                          /\ s.owner = records[i].owner
                          /\ s.rtype = records[i].rtype
                          /\ s.target = records[i].target
    OBVIOUS
  <2> DEFINE r == records[i]
             u == now + r.ttl * TicksPerSecond
  <2>1. r \in Record /\ u \in Nat
    BY <1>1, <1>2
  <2>2. Stamp(records)[i] = [r EXCEPT !.heard = now, !.until = u]
    BY <1>1 DEF Stamp
  <2>3. r = records[i] /\ u = now + r.ttl * TicksPerSecond
    OBVIOUS
  <2> HIDE DEF r, u
  <2>4. /\ [r EXCEPT !.heard = now, !.until = u] \in Record
        /\ [r EXCEPT !.heard = now, !.until = u].heard = now
        /\ [r EXCEPT !.heard = now, !.until = u].until = u
        /\ [r EXCEPT !.heard = now, !.until = u].ttl = r.ttl
        /\ [r EXCEPT !.heard = now, !.until = u].owner = r.owner
        /\ [r EXCEPT !.heard = now, !.until = u].rtype = r.rtype
        /\ [r EXCEPT !.heard = now, !.until = u].target = r.target
    BY <1>3, <2>1
  <2> QED
    BY <2>2, <2>3, <2>4
<1>5. Stamp(records) \in [1 .. n -> Record]
  BY <1>1, <1>4 DEF Stamp
<1> QED
  BY <1>1, <1>4, <1>5

(* Counting down keeps everything but the TTL.                             *)
LEMMA CountDownKeeps ==
    ASSUME NEW records \in Seq(Record), NEW ttl \in Nat
    PROVE  /\ CountDown(records, ttl) \in Seq(Record)
           /\ DOMAIN CountDown(records, ttl) = DOMAIN records
           /\ \A i \in DOMAIN records :
                 /\ CountDown(records, ttl)[i].ttl = ttl
                 /\ CountDown(records, ttl)[i].owner = records[i].owner
                 /\ CountDown(records, ttl)[i].rtype = records[i].rtype
                 /\ CountDown(records, ttl)[i].target = records[i].target
                 /\ CountDown(records, ttl)[i].heard = records[i].heard
                 /\ CountDown(records, ttl)[i].until = records[i].until
<1>1. PICK n \in Nat : records \in [1 .. n -> Record]
  OBVIOUS
<1>2. \A r \in Record :
         LET c == [r EXCEPT !.ttl = ttl]
         IN  /\ c \in Record /\ c.ttl = ttl /\ c.owner = r.owner /\ c.rtype = r.rtype
             /\ c.target = r.target /\ c.heard = r.heard /\ c.until = r.until
  BY DEF Record
<1>3. \A i \in 1 .. n :
         /\ CountDown(records, ttl)[i] \in Record
         /\ CountDown(records, ttl)[i].ttl = ttl
         /\ CountDown(records, ttl)[i].owner = records[i].owner
         /\ CountDown(records, ttl)[i].rtype = records[i].rtype
         /\ CountDown(records, ttl)[i].target = records[i].target
         /\ CountDown(records, ttl)[i].heard = records[i].heard
         /\ CountDown(records, ttl)[i].until = records[i].until
  BY <1>1, <1>2 DEF CountDown
<1>4. CountDown(records, ttl) \in [1 .. n -> Record]
  BY <1>1, <1>3 DEF CountDown
<1> QED
  BY <1>1, <1>3, <1>4

(* Rounding down never makes an entry live longer, and what is left under  *)
(* one second is exactly what get treats as expired.                       *)
LEMMA RemainingRounds ==
    ASSUME NEW e \in Entry, now \in Nat
    PROVE  /\ ExpiresAt(e) \in Nat
           /\ Remaining(e) \in Int
           /\ now + Remaining(e) * TicksPerSecond <= ExpiresAt(e)
           /\ Remaining(e) > 0 <=> ExpiresAt(e) - now >= TicksPerSecond
<1>1. e.stored_at \in Nat /\ e.ttl \in Nat
  BY DEF Entry
<1>2. ExpiresAt(e) \in Nat
  BY <1>1, CacheConstants DEF ExpiresAt
<1>3. \A a \in Int, n \in Nat \ {0} :
         /\ a \div n \in Int
         /\ (a \div n) * n <= a
         /\ a \div n > 0 <=> a >= n
  OBVIOUS
<1>4. ExpiresAt(e) - now \in Int /\ TicksPerSecond \in Nat \ {0}
  BY <1>2, CacheConstants
<1>5. /\ Remaining(e) \in Int
      /\ Remaining(e) * TicksPerSecond <= ExpiresAt(e) - now
      /\ Remaining(e) > 0 <=> ExpiresAt(e) - now >= TicksPerSecond
  BY <1>3, <1>4 DEF Remaining
<1>6. Remaining(e) * TicksPerSecond \in Int
  BY <1>5, CacheConstants
<1> QED
  BY <1>2, <1>5, <1>6

(* A copy of a live entry is an entry of its own, stored now.              *)
LEMMA FreshCopyType ==
    ASSUME NEW k \in Key, CacheTypeOK, IsLive(k)
    PROVE  /\ FreshCopy(k) \in Entry
           /\ FreshCopy(k).ttl >= 1
           /\ FreshCopy(k).ttl = Remaining(store[k])
           /\ FreshCopy(k).stored_at = now
<1> DEFINE e == store[k]
<1>1. e \in Entry /\ now \in Nat
  BY DEF CacheTypeOK, IsLive
<1>2. Remaining(e) \in Nat /\ Remaining(e) >= 1
  BY <1>1, RemainingRounds DEF IsLive
<1>3. e.rcode \in RCode /\ e.answers \in Seq(Record) /\ e.authorities \in Seq(Record)
  BY <1>1 DEF Entry
<1>4. /\ CountDown(e.answers, Remaining(e)) \in Seq(Record)
      /\ CountDown(e.authorities, Remaining(e)) \in Seq(Record)
  BY <1>2, <1>3, CountDownKeeps
<1> QED
  BY <1>1, <1>2, <1>3, <1>4 DEF FreshCopy, Entry

-----------------------------------------------------------------------------
(* Type correctness of the cache, operation by operation.                  *)

LEMMA GetHitType ==
    ASSUME CacheTypeOK, NEW k \in Key, GetHit(k)
    PROVE  CacheTypeOK'
BY DEF CacheTypeOK, GetHit

LEMMA GetMissType ==
    ASSUME CacheTypeOK, NEW k \in Key, GetMiss(k)
    PROVE  CacheTypeOK'
BY DEF CacheTypeOK, GetMiss

LEMMA PutType ==
    ASSUME CacheTypeOK, NEW k \in Key, NEW rcode \in RCode,
           NEW answers \in Seq(Record), NEW authorities \in Seq(Record),
           Put(k, rcode, answers, authorities)
    PROVE  CacheTypeOK'
<1> DEFINE ttl == ComputeTtl(rcode, answers, authorities)
           new == [rcode |-> rcode, answers |-> answers,
                   authorities |-> authorities, stored_at |-> now, ttl |-> ttl]
<1>1. ttl \in 0 .. AtLeast(MinTtl, MaxTtl) /\ AtLeast(MinTtl, MaxTtl) \in Nat
  BY ComputeTtlType, CacheConstants DEF AtLeast
<1>2. CASE ttl <= 0
  BY <1>2 DEF Put, CacheTypeOK
<1>3. CASE ttl > 0
  <2>1. store' = [store EXCEPT ![k] = new] /\ UNCHANGED <<now, hits, misses>>
    BY <1>1, <1>3 DEF Put
  <2>2. new \in Entry /\ new.stored_at = now /\ new.ttl = ttl
    BY <1>1 DEF Entry, CacheTypeOK
  <2> HIDE DEF new
  <2>3. store' \in [Key -> Entry \cup {NoEntry}]
    BY <2>1, <2>2 DEF CacheTypeOK
  <2>4. \A j \in Key : store'[j] # NoEntry =>
            /\ store'[j].ttl \in 1 .. AtLeast(MinTtl, MaxTtl)
            /\ store'[j].stored_at <= now
    BY <1>1, <1>3, <2>1, <2>2 DEF CacheTypeOK
  <2> QED
    BY <2>1, <2>3, <2>4 DEF CacheTypeOK
<1> QED
  BY <1>1, <1>2, <1>3

LEMMA TickType ==
    ASSUME CacheTypeOK, Tick
    PROVE  CacheTypeOK'
<1>1. \A k \in Key : store[k] # NoEntry => store[k].stored_at \in Nat
  BY DEF CacheTypeOK, Entry
<1> QED
  BY <1>1 DEF CacheTypeOK, Tick

-----------------------------------------------------------------------------
(* Where entries come from.                                                *)

(* The strengthening both remaining theorems rest on: an entry is exactly  *)
(* what its put computed, and its records were stamped at that instant.    *)
StampedAt(records, tick) ==
    \A i \in DOMAIN records :
        records[i].until = tick + records[i].ttl * TicksPerSecond

Original(e) ==
    /\ e.ttl = ComputeTtl(e.rcode, e.answers, e.authorities)
    /\ StampedAt(e.answers, e.stored_at)
    /\ StampedAt(e.authorities, e.stored_at)

StoreOriginal == \A k \in Key : store[k] # NoEntry => Original(store[k])

-----------------------------------------------------------------------------
(* Lifetimes.                                                              *)

(* What decides the lifetime of an original entry outlives it.             *)
LEMMA OriginalOutlives ==
    ASSUME NEW e \in Entry, e.ttl >= 1, Original(e), MinTtl = 0
    PROVE  RecordsOutlive(e)
<1>1. /\ e.rcode \in RCode
      /\ e.answers \in Seq(Record) /\ e.authorities \in Seq(Record)
      /\ e.stored_at \in Nat /\ e.ttl \in Nat
  BY DEF Entry
<1>2. \A a, b \in Nat : a <= b =>
         e.stored_at + a * TicksPerSecond <= e.stored_at + b * TicksPerSecond
  BY <1>1, CacheConstants
<1>3. CASE IsPositive(e.rcode, e.answers)
  <2> SUFFICES ASSUME NEW i \in DOMAIN e.answers
               PROVE  e.answers[i].until >= ExpiresAt(e)
    BY <1>3 DEF RecordsOutlive
  <2>1. e.ttl <= e.answers[i].ttl /\ e.answers[i].ttl \in Nat
    BY <1>1, <1>3, ComputeTtlWithin, RecordTtls DEF Original
  <2>2. e.answers[i].until = e.stored_at + e.answers[i].ttl * TicksPerSecond
    BY DEF Original, StampedAt
  <2> QED
    BY <1>1, <1>2, <2>1, <2>2 DEF ExpiresAt
<1>4. CASE ~IsPositive(e.rcode, e.answers)
  <2> DEFINE soa == FirstSoa(e.authorities)
  <2>1. SoaPositions(e.authorities) # {} /\ e.ttl <= soa.ttl
    BY <1>1, <1>4, ComputeTtlWithin DEF Original
  <2>2. Min(SoaPositions(e.authorities)) \in DOMAIN e.authorities /\ soa.ttl \in Nat
    BY <1>1, <2>1, FirstSoaExists
  <2>3. soa.until = e.stored_at + soa.ttl * TicksPerSecond
    BY <2>2 DEF Original, StampedAt, FirstSoa
  <2>4. soa.until >= ExpiresAt(e)
    BY <1>1, <1>2, <2>1, <2>2, <2>3 DEF ExpiresAt
  <2> QED
    BY <1>4, <2>1, <2>4 DEF RecordsOutlive
<1> QED
  BY <1>3, <1>4

(* The records of a copy outlive the copy, if those of the entry outlive   *)
(* the entry: counting down and rounding only take time away.              *)
LEMMA CopyOutlives ==
    ASSUME NEW k \in Key, CacheTypeOK, IsLive(k), RecordsOutlive(store[k])
    PROVE  RecordsOutlive(FreshCopy(k))
<1> DEFINE e == store[k]
           c == FreshCopy(k)
<1>1. e \in Entry /\ now \in Nat
  BY DEF CacheTypeOK, IsLive
<1>2. /\ e.answers \in Seq(Record) /\ e.authorities \in Seq(Record)
      /\ Remaining(e) \in Nat
  BY <1>1, RemainingRounds DEF Entry, IsLive
<1>3. /\ c.rcode = e.rcode
      /\ c.answers = CountDown(e.answers, Remaining(e))
      /\ c.authorities = CountDown(e.authorities, Remaining(e))
  BY DEF FreshCopy
<1>4. ExpiresAt(c) <= ExpiresAt(e) /\ ExpiresAt(c) \in Int /\ ExpiresAt(e) \in Int
  <2>1. ExpiresAt(c) = now + Remaining(e) * TicksPerSecond
    BY FreshCopyType DEF ExpiresAt
  <2>2. Remaining(e) * TicksPerSecond \in Int
    BY <1>2, CacheConstants
  <2> QED
    BY <1>1, <2>1, <2>2, RemainingRounds
<1>5. /\ DOMAIN c.answers = DOMAIN e.answers
      /\ \A i \in DOMAIN e.answers : c.answers[i].until = e.answers[i].until
      /\ DOMAIN c.authorities = DOMAIN e.authorities
      /\ \A i \in DOMAIN e.authorities :
            /\ c.authorities[i].until = e.authorities[i].until
            /\ c.authorities[i].rtype = e.authorities[i].rtype
  <2>1. ASSUME NEW records \in Seq(Record), NEW copies,
               copies = CountDown(records, Remaining(e))
        PROVE  /\ DOMAIN copies = DOMAIN records
               /\ \A i \in DOMAIN records :
                     /\ copies[i].until = records[i].until
                     /\ copies[i].rtype = records[i].rtype
    BY <1>2, <2>1, CountDownKeeps
  <2> HIDE DEF e, c
  <2> QED
    BY <1>2, <1>3, <2>1
<1>6. c.answers # <<>> <=> e.answers # <<>>
  <2>1. c.answers \in Seq(Record)
    BY <1>2, <1>3, CountDownKeeps
  <2> QED
    BY <1>2, <1>5, <2>1
<1>7. IsPositive(c.rcode, c.answers) <=> IsPositive(e.rcode, e.answers)
  BY <1>3, <1>6 DEF IsPositive
<1>8. CASE IsPositive(e.rcode, e.answers)
  <2>1. \A i \in DOMAIN e.answers : e.answers[i].until >= ExpiresAt(e)
    BY <1>8 DEF RecordsOutlive
  <2>2. \A i \in DOMAIN e.answers : e.answers[i].until \in Nat
    BY <1>2, RecordTtls
  <2>3. \A i \in DOMAIN c.answers : c.answers[i].until >= ExpiresAt(c)
    BY <1>4, <1>5, <2>1, <2>2
  <2> QED
    BY <1>7, <1>8, <2>3 DEF RecordsOutlive
<1>9. CASE ~IsPositive(e.rcode, e.answers)
  <2>1. SoaPositions(e.authorities) # {} /\ FirstSoa(e.authorities).until >= ExpiresAt(e)
    BY <1>9 DEF RecordsOutlive
  <2>2. SoaPositions(c.authorities) = SoaPositions(e.authorities)
    BY <1>5 DEF SoaPositions
  <2>3. Min(SoaPositions(e.authorities)) \in DOMAIN e.authorities
    BY <1>2, <2>1, FirstSoaExists
  <2>4. FirstSoa(c.authorities).until = FirstSoa(e.authorities).until
    BY <1>5, <2>2, <2>3 DEF FirstSoa
  <2>5. FirstSoa(e.authorities).until \in Nat
    BY <1>2, <2>3, RecordTtls DEF FirstSoa
  <2>6. FirstSoa(c.authorities).until >= ExpiresAt(c)
    BY <1>4, <2>1, <2>4, <2>5
  <2> QED
    BY <1>7, <1>9, <2>1, <2>2, <2>6 DEF RecordsOutlive
<1> QED
  BY <1>8, <1>9

-----------------------------------------------------------------------------
(* Refinement of LeaseTable.                                               *)

(* An entry is a lease that ends in the future of its start, within the    *)
(* limit LeaseTable allows.                                                *)
LEMMA LeaseLength ==
    ASSUME NEW e \in Entry, e.ttl \in 1 .. AtLeast(MinTtl, MaxTtl)
    PROVE  /\ ExpiresAt(e) \in Nat
           /\ ExpiresAt(e) > e.stored_at
           /\ ExpiresAt(e) <= e.stored_at + AtLeast(MinTtl, MaxTtl) * TicksPerSecond
<1>1. e.stored_at \in Nat /\ e.ttl \in Nat \ {0} /\ AtLeast(MinTtl, MaxTtl) \in Nat
  BY CacheConstants DEF Entry, AtLeast
<1>2. \A a, b \in Nat : a <= b => a * TicksPerSecond <= b * TicksPerSecond
  BY CacheConstants
<1>3. \A a \in Nat \ {0} : a * TicksPerSecond \in Nat \ {0}
  BY CacheConstants
<1>4. AtLeast(MinTtl, MaxTtl) * TicksPerSecond \in Nat
  BY <1>1, CacheConstants
<1> QED
  BY <1>1, <1>2, <1>3, <1>4 DEF ExpiresAt

(* Two original entries with the same records were stored at the same      *)
(* instant and are the same entry: a value is granted only once.           *)
LEMMA OriginalUnique ==
    ASSUME NEW d \in Entry, Original(d), d.ttl >= 1,
           NEW e \in Entry, Original(e), e.ttl >= 1,
           d.rcode = e.rcode, d.answers = e.answers, d.authorities = e.authorities,
           MinTtl = 0
    PROVE  d = e
<1>1. /\ e.rcode \in RCode
      /\ e.answers \in Seq(Record) /\ e.authorities \in Seq(Record)
      /\ d.stored_at \in Nat /\ e.stored_at \in Nat /\ e.ttl \in Nat
  BY DEF Entry
<1>2. d.ttl = e.ttl
  BY DEF Original
<1>3. ASSUME NEW records \in Seq(Record), NEW i \in DOMAIN records,
             StampedAt(records, d.stored_at), StampedAt(records, e.stored_at)
      PROVE  d.stored_at = e.stored_at
  <2>1. records[i].ttl * TicksPerSecond \in Int
    <3>1. records[i].ttl \in Nat
      BY RecordTtls
    <3> QED
      BY <3>1, CacheConstants
  <2> QED
    BY <1>1, <1>3, <2>1 DEF StampedAt
<1>4. d.stored_at = e.stored_at
  <2>1. CASE IsPositive(e.rcode, e.answers)
    <3>1. 1 \in DOMAIN e.answers
      BY <1>1, <2>1 DEF IsPositive
    <3> QED
      BY <1>1, <1>3, <3>1 DEF Original
  <2>2. CASE ~IsPositive(e.rcode, e.answers)
    <3>1. SoaPositions(e.authorities) # {}
      BY <1>1, <2>2, ComputeTtlWithin DEF Original
    <3>2. Min(SoaPositions(e.authorities)) \in DOMAIN e.authorities
      BY <1>1, <3>1, FirstSoaExists
    <3> QED
      BY <1>1, <1>3, <3>2 DEF Original
  <2> QED
    BY <2>1, <2>2
<1> QED
  BY <1>2, <1>4 DEF Entry

(* What changes one entry changes one lease.                               *)
LEMMA LeaseOfUpdate ==
    ASSUME store \in [Key -> Entry \cup {NoEntry}], NEW k \in Key,
           NEW e \in Entry \cup {NoEntry}, store' = [store EXCEPT ![k] = e]
    PROVE  [j \in Key |-> LeaseOf(store[j])]' =
               [[j \in Key |-> LeaseOf(store[j])] EXCEPT ![k] = LeaseOf(e)]
BY DEF LeaseOf

(* A get that misses withdraws at most a lease that has run out.           *)
LEMMA GetMissRefines ==
    ASSUME CacheTypeOK, NEW k \in Key, GetMiss(k)
    PROVE  [Leases!Next]_(Leases!leaseVars)
<1> DEFINE lease == [j \in Key |-> LeaseOf(store[j])]
<1>1. /\ store \in [Key -> Entry \cup {NoEntry}]
      /\ store' = [store EXCEPT ![k] = NoEntry]
      /\ now' = now /\ now \in Nat
  BY DEF GetMiss, CacheTypeOK
<1>2. CASE store[k] = NoEntry
  <2>1. store' = store
    BY <1>1, <1>2
  <2> QED
    BY <1>1, <2>1 DEF Leases!leaseVars
<1>3. CASE store[k] # NoEntry
  <2>1. store[k] \in Entry /\ store[k].ttl \in 1 .. AtLeast(MinTtl, MaxTtl)
    BY <1>1, <1>3 DEF CacheTypeOK
  <2>2. ~(ExpiresAt(store[k]) - now >= TicksPerSecond)
    BY <1>1, <1>3, <2>1, RemainingRounds DEF GetMiss, IsLive
  <2>3. /\ lease[k].end = ExpiresAt(store[k])
        /\ lease[k].start = store[k].stored_at
    BY <1>3 DEF LeaseOf
  <2>4. lease[k] # VoidLease
    BY <2>1, <2>3, LeaseLength DEF VoidLease, Entry
  <2>5. lease' = [lease EXCEPT ![k] = VoidLease]
    BY <1>1, LeaseOfUpdate DEF LeaseOf
  <2>6. ExpiresAt(store[k]) - now < TicksPerSecond
    BY <1>1, <2>1, <2>2, LeaseLength, CacheConstants
  <2>7. Leases!Withdraw(k)
    BY <1>1, <2>3, <2>4, <2>5, <2>6 DEF Leases!Withdraw
  <2> QED
    BY <2>7 DEF Leases!Next
<1> QED
  BY <1>2, <1>3

(* A put of freshly stamped records either changes nothing or stores the   *)
(* entry it computes.                                                      *)
LEMMA PutEffect ==
    ASSUME CacheTypeOK, NEW k \in Key, NEW rcode \in RCode,
           NEW sent \in Seq(Record), NEW proof \in Seq(Record),
           Put(k, rcode, Stamp(sent), Stamp(proof))
    PROVE  \/ UNCHANGED store
           \/ \E e \in Entry : /\ store' = [store EXCEPT ![k] = e]
                               /\ Original(e)
                               /\ e.rcode = rcode /\ e.answers = Stamp(sent)
                               /\ e.authorities = Stamp(proof)
                               /\ e.stored_at = now
                               /\ e.ttl \in 1 .. AtLeast(MinTtl, MaxTtl)
<1>1. now \in Nat
  BY DEF CacheTypeOK
<1> DEFINE answers == Stamp(sent)
           authorities == Stamp(proof)
           ttl == ComputeTtl(rcode, answers, authorities)
           new == [rcode |-> rcode, answers |-> answers,
                   authorities |-> authorities, stored_at |-> now, ttl |-> ttl]
<1>3. answers \in Seq(Record) /\ authorities \in Seq(Record)
  BY <1>1, StampKeeps
<1>4. StampedAt(answers, now) /\ StampedAt(authorities, now)
  BY <1>1, StampKeeps DEF StampedAt
<1>5. ttl \in 0 .. AtLeast(MinTtl, MaxTtl) /\ AtLeast(MinTtl, MaxTtl) \in Nat
  BY <1>3, ComputeTtlType, CacheConstants DEF AtLeast
<1>6. CASE ttl <= 0
  BY <1>6 DEF Put
<1>7. CASE ttl > 0
  <2>1. store' = [store EXCEPT ![k] = new]
    BY <1>5, <1>7 DEF Put
  <2>2. new \in Entry
    BY <1>1, <1>3, <1>5 DEF Entry
  <2>3. Original(new)
    BY <1>4 DEF Original
  <2>4. /\ new.rcode = rcode /\ new.answers = answers /\ new.authorities = authorities
        /\ new.stored_at = now /\ new.ttl \in 1 .. AtLeast(MinTtl, MaxTtl)
    BY <1>5, <1>7
  <2> QED
    BY <2>1, <2>2, <2>3, <2>4
<1> QED
  BY <1>5, <1>6, <1>7

(* A put keeps every entry original.                                       *)
LEMMA PutOriginal ==
    ASSUME CacheTypeOK, StoreOriginal, NEW k \in Key, NEW rcode \in RCode,
           NEW sent \in Seq(Record), NEW proof \in Seq(Record),
           Put(k, rcode, Stamp(sent), Stamp(proof))
    PROVE  StoreOriginal'
<1>1. CASE UNCHANGED store
  BY <1>1 DEF StoreOriginal
<1>2. ASSUME NEW e \in Entry, store' = [store EXCEPT ![k] = e], Original(e)
      PROVE  StoreOriginal'
  BY <1>2 DEF StoreOriginal, CacheTypeOK
<1> QED
  BY <1>1, <1>2, PutEffect

(* A put grants a lease, or stores what was there already.                 *)
LEMMA PutRefines ==
    ASSUME CacheTypeOK, StoreOriginal, NEW k \in Key, NEW rcode \in RCode,
           NEW sent \in Seq(Record), NEW proof \in Seq(Record),
           Put(k, rcode, Stamp(sent), Stamp(proof)), MinTtl = 0
    PROVE  [Leases!Next]_(Leases!leaseVars)
<1> DEFINE lease == [j \in Key |-> LeaseOf(store[j])]
<1>1. store \in [Key -> Entry \cup {NoEntry}] /\ now' = now /\ now \in Nat
  BY DEF Put, CacheTypeOK
<1>2. CASE UNCHANGED store
  BY <1>1, <1>2 DEF Leases!leaseVars
<1>3. ASSUME NEW e \in Entry, store' = [store EXCEPT ![k] = e], Original(e),
             e.stored_at = now, e.ttl \in 1 .. AtLeast(MinTtl, MaxTtl)
      PROVE  [Leases!Next]_(Leases!leaseVars)
  <2>1. lease' = [lease EXCEPT ![k] = LeaseOf(e)]
    BY <1>1, <1>3, LeaseOfUpdate
  <2>2. LeaseOf(e) = [value |-> <<e.rcode, e.answers, e.authorities>>,
                      start |-> e.stored_at, end |-> ExpiresAt(e)]
    BY CacheConstants DEF LeaseOf
  <2>3. lease'[k] = LeaseOf(e)
    BY <1>1, <2>1
  <2>4. /\ ExpiresAt(e) \in Nat
        /\ ExpiresAt(e) > now
        /\ ExpiresAt(e) <= now + AtLeast(MinTtl, MaxTtl) * TicksPerSecond
    BY <1>3, LeaseLength
  <2>5. LeaseOf(e) # VoidLease
    BY <1>1, <1>3, <2>2, <2>4 DEF VoidLease
  <2>6. CASE store[k] # NoEntry /\ LeaseOf(store[k]).value = LeaseOf(e).value
    <3> DEFINE d == store[k]
    <3>1. d \in Entry /\ Original(d) /\ d.ttl \in 1 .. AtLeast(MinTtl, MaxTtl)
      BY <1>1, <2>6 DEF StoreOriginal, CacheTypeOK
    <3>2. LeaseOf(d).value = <<d.rcode, d.answers, d.authorities>>
      BY <2>6 DEF LeaseOf
    <3>3. d.rcode = e.rcode /\ d.answers = e.answers /\ d.authorities = e.authorities
      BY <2>2, <2>6, <3>2
    <3>4. d.ttl >= 1 /\ e.ttl >= 1
      BY <1>3, <3>1
    <3>5. d = e
      BY <1>3, <3>1, <3>3, <3>4, OriginalUnique
    <3>6. store' = store
      BY <1>1, <1>3, <3>5
    <3> QED
      BY <1>1, <3>6 DEF Leases!leaseVars
  <2>7. CASE store[k] = NoEntry \/ LeaseOf(store[k]).value # LeaseOf(e).value
    <3>1. lease[k] # VoidLease => lease'[k].value # lease[k].value
      BY <1>1, <2>3, <2>7 DEF LeaseOf
    <3>2. lease'[k].start = now /\ lease'[k].end = ExpiresAt(e)
      BY <1>3, <2>2, <2>3
    <3>3. lease'[k] # VoidLease
      BY <2>3, <2>5
    <3>4. lease' = [lease EXCEPT ![k] = lease'[k]]
      BY <2>1, <2>3
    <3> HIDE DEF lease
    <3>5. /\ lease'[k].end > now
          /\ lease'[k].end <= now + AtLeast(MinTtl, MaxTtl) * TicksPerSecond
      BY <2>4, <3>2
    <3>6. Leases!Grant(k)
      BY <1>1, <3>1, <3>2, <3>3, <3>4, <3>5 DEF Leases!Grant, Leases!Begin, lease
    <3> QED
      BY <1>1, <3>6 DEF Leases!Next
  <2> QED
    BY <2>6, <2>7
<1> QED
  BY <1>2, <1>3, PutEffect

=============================================================================
