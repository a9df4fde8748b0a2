---------------------------- MODULE CacheProofs -----------------------------
(***************************************************************************)
(* Proofs about the cache with an arbitrary caller (CacheClient), for      *)
(* every set of names, types and payloads, every clock resolution and      *)
(* every limit: type correctness, that no copy handed out outlives what    *)
(* the authority vouched for, and that the cache implements LeaseTable.    *)
(***************************************************************************)
EXTENDS CacheClient, CacheLemmas

-----------------------------------------------------------------------------
(* THE TYPE INVARIANT: whatever is put, got and waited for, the store maps *)
(* keys to entries with a lifetime of at least a second and at most the    *)
(* ceiling, and the caller never holds a copy without life.                *)
THEOREM TypeCorrect == Spec => []TypeOK
<1>1. Init => TypeOK
  BY CacheConstants DEF Init, CacheInit, TypeOK, CacheTypeOK
<1>2. TypeOK /\ [Next]_vars => TypeOK'
  <2> SUFFICES ASSUME TypeOK, [Next]_vars
               PROVE  TypeOK'
    OBVIOUS
  <2> USE DEF TypeOK
  <2>1. ASSUME NEW k \in Asked, Hit(k)
        PROVE  TypeOK'
    <3>1. k \in Key
      BY ClientConstants
    <3>2. CacheTypeOK'
      BY <2>1, <3>1, GetHitType DEF Hit
    <3>3. reply' \in Copy /\ reply'.entry.ttl >= 1
      BY <2>1, <3>1, FreshCopyType DEF Hit, GetHit, Copy
    <3> QED
      BY <3>2, <3>3
  <2>2. ASSUME NEW k \in Asked, Miss(k)
        PROVE  TypeOK'
    BY <2>2, ClientConstants, GetMissType DEF Miss
  <2>3. ASSUME NEW k \in Asked, Store(k)
        PROVE  TypeOK'
    <3>1. PICK p \in Payload :
             Put(k, p.rcode, Stamp(p.answers), Stamp(p.authorities)) /\ UNCHANGED reply
      BY <2>3 DEF Store
    <3>2. /\ k \in Key
          /\ p.rcode \in RCode
          /\ p.answers \in Seq(Record) /\ p.authorities \in Seq(Record)
      BY ClientConstants
    <3>3. Stamp(p.answers) \in Seq(Record) /\ Stamp(p.authorities) \in Seq(Record)
      BY <3>2, StampKeeps DEF CacheTypeOK
    <3>4. CacheTypeOK'
      BY <3>1, <3>2, <3>3, PutType
    <3> QED
      BY <3>1, <3>4
  <2>4. ASSUME Wait
        PROVE  TypeOK'
    BY <2>4, TickType DEF Wait
  <2>5. ASSUME UNCHANGED vars
        PROVE  TypeOK'
    BY <2>5 DEF vars, CacheTypeOK
  <2> QED
    BY <2>1, <2>2, <2>3, <2>4, <2>5 DEF Next
<1> QED
  BY <1>1, <1>2, PTL DEF Spec

-----------------------------------------------------------------------------
LEMMA OriginalInit == Init => StoreOriginal
BY DEF Init, CacheInit, StoreOriginal

LEMMA OriginalStep ==
    ASSUME TypeOK, StoreOriginal, [Next]_vars
    PROVE  StoreOriginal'
<1>1. ASSUME NEW k \in Asked, Hit(k)
      PROVE  StoreOriginal'
  BY <1>1 DEF Hit, GetHit, StoreOriginal
<1>2. ASSUME NEW k \in Asked, Miss(k)
      PROVE  StoreOriginal'
  BY <1>2, ClientConstants DEF Miss, GetMiss, StoreOriginal, TypeOK, CacheTypeOK
<1>3. ASSUME NEW k \in Asked, Store(k)
      PROVE  StoreOriginal'
  BY <1>3, PutOriginal, ClientConstants DEF Store, TypeOK
<1>4. ASSUME Wait
      PROVE  StoreOriginal'
  BY <1>4 DEF Wait, Tick, StoreOriginal
<1>5. ASSUME UNCHANGED vars
      PROVE  StoreOriginal'
  BY <1>5 DEF vars, StoreOriginal
<1> QED
  BY <1>1, <1>2, <1>3, <1>4, <1>5 DEF Next

(* LIFETIMES: no copy the caller ever holds, of whatever it put and        *)
(* however long it waited, promises more life than the authority gave.     *)
THEOREM CopiesLiveNoLonger == Spec => []CopiesWithinLifetime
<1> DEFINE IInv == TypeOK /\ StoreOriginal /\ CopiesWithinLifetime
<1>1. Init => StoreOriginal /\ CopiesWithinLifetime
  BY OriginalInit DEF Init, CopiesWithinLifetime
<1>2. TypeOK /\ StoreOriginal /\ CopiesWithinLifetime /\ [Next]_vars
         => StoreOriginal' /\ CopiesWithinLifetime'
  <2> SUFFICES ASSUME TypeOK, StoreOriginal, CopiesWithinLifetime, [Next]_vars
               PROVE  CopiesWithinLifetime'
    BY OriginalStep
  <2>1. ASSUME NEW k \in Asked, Hit(k)
        PROVE  CopiesWithinLifetime'
    <3> SUFFICES ASSUME MinTtl = 0
                 PROVE  RecordsOutlive(FreshCopy(k))
      BY <2>1 DEF Hit, CopiesWithinLifetime
    <3>1. k \in Key /\ IsLive(k) /\ CacheTypeOK
      BY <2>1, ClientConstants DEF Hit, GetHit, TypeOK
    <3>2. store[k] \in Entry /\ store[k].ttl >= 1 /\ Original(store[k])
      BY <3>1 DEF IsLive, CacheTypeOK, StoreOriginal
    <3>3. RecordsOutlive(store[k])
      BY <3>2, OriginalOutlives
    <3> QED
      BY <3>1, <3>3, CopyOutlives
  <2>2. ASSUME NEW k \in Asked, Miss(k)
        PROVE  CopiesWithinLifetime'
    BY <2>2 DEF Miss, CopiesWithinLifetime
  <2>3. ASSUME NEW k \in Asked, Store(k)
        PROVE  CopiesWithinLifetime'
    BY <2>3 DEF Store, CopiesWithinLifetime
  <2>4. ASSUME Wait
        PROVE  CopiesWithinLifetime'
    BY <2>4 DEF Wait, CopiesWithinLifetime
  <2>5. ASSUME UNCHANGED vars
        PROVE  CopiesWithinLifetime'
    BY <2>5 DEF vars, CopiesWithinLifetime
  <2> QED
    BY <2>1, <2>2, <2>3, <2>4, <2>5 DEF Next
<1> QED
  BY <1>1, <1>2, TypeCorrect, PTL DEF Spec

-----------------------------------------------------------------------------
(* Refinement of LeaseTable.                                               *)

(* REFINEMENT: without a floor on lifetimes (main.py:47 sets none) the     *)
(* cache is a table of leases, for every caller.                           *)
THEOREM CacheKeepsLeases ==
    ASSUME MinTtl = 0
    PROVE  Spec => KeepsLeases
<1>1. Init => Leases!Init
  BY DEF Init, CacheInit, Leases!Init, LeaseOf
<1>2. TypeOK /\ StoreOriginal /\ [Next]_vars => [Leases!Next]_(Leases!leaseVars)
  <2> SUFFICES ASSUME TypeOK, StoreOriginal, [Next]_vars
               PROVE  [Leases!Next]_(Leases!leaseVars)
    OBVIOUS
  <2>1. ASSUME NEW k \in Asked, Hit(k)
        PROVE  [Leases!Next]_(Leases!leaseVars)
    BY <2>1 DEF Hit, GetHit, Leases!leaseVars
  <2>2. ASSUME NEW k \in Asked, Miss(k)
        PROVE  [Leases!Next]_(Leases!leaseVars)
    BY <2>2, ClientConstants, GetMissRefines DEF Miss, TypeOK
  <2>3. ASSUME NEW k \in Asked, Store(k)
        PROVE  [Leases!Next]_(Leases!leaseVars)
    BY <2>3, PutRefines, ClientConstants DEF Store, TypeOK
  <2>4. ASSUME Wait
        PROVE  [Leases!Next]_(Leases!leaseVars)
    <3>1. now' > now /\ store' = store
      BY <2>4 DEF Wait, Tick, TypeOK, CacheTypeOK
    <3> QED
      BY <3>1 DEF Leases!Next, Leases!Advance
  <2>5. ASSUME UNCHANGED vars
        PROVE  [Leases!Next]_(Leases!leaseVars)
    BY <2>5 DEF vars, Leases!leaseVars
  <2> QED
    BY <2>1, <2>2, <2>3, <2>4, <2>5 DEF Next
<1>3. Spec => []TypeOK /\ []StoreOriginal
  BY OriginalInit, OriginalStep, TypeCorrect, PTL DEF Spec
<1> QED
  BY <1>1, <1>2, <1>3, PTL DEF Spec, KeepsLeases, Leases!Spec

=============================================================================
