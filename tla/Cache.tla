------------------------------- MODULE Cache --------------------------------
(***************************************************************************)
(* The TTL cache of dns_server/cache.py: its state and its operations.     *)
(* CacheClient gives it an arbitrary caller, Recursion the real one.       *)
(*                                                                         *)
(* Time is time.monotonic() counted in ticks, TicksPerSecond of them to a  *)
(* second, so that int() in CacheEntry.remaining really rounds.  The code  *)
(* between two awaits takes no time.  Names are in the canonical form      *)
(* wire.Reader.read_name gives them, which _key's lower() leaves alone.    *)
(***************************************************************************)
EXTENDS Integers, Sequences, FiniteSetsExt

CONSTANTS
    Name,            \* canonical domain names
    RType,           \* record types
    RClass,          \* record classes
    NoEntry,         \* what _store.get returns for an absent key
    MinTtl,          \* Cache(min_ttl = ...), seconds
    MaxTtl,          \* Cache(max_ttl = ...), seconds
    TicksPerSecond,  \* resolution of the monotonic clock
    MaxTime          \* bound: the last tick of a behaviour

RCode == {"NOERROR", "FORMERR", "SERVFAIL", "NXDOMAIN", "NOTIMP", "REFUSED"}

(* A resource record.  `target' is the name an NS or CNAME record points   *)
(* to, `minimum' the last field of an SOA; records of other types carry    *)
(* them too and nothing reads them.  `heard' and `until' are HISTORY: the  *)
(* tick at which the record came from its authority, and the one at which  *)
(* the lifetime it was given there ends.  Only properties read them.       *)
Record == [owner : Name, rtype : RType, ttl : Nat, minimum : Nat,
           target : Name, heard : Nat, until : Nat]

Entry == [rcode : RCode, answers : Seq(Record), authorities : Seq(Record),
          stored_at : Nat, ttl : Nat]

Key == Name \X RType \X RClass

ASSUME CacheConstants ==
    /\ {"A", "NS", "CNAME", "SOA"} \subseteq RType
    /\ NoEntry \notin Entry
    /\ MinTtl \in Nat /\ MaxTtl \in Nat
    /\ TicksPerSecond \in Nat \ {0}
    /\ MaxTime \in Nat

VARIABLES
    now,     \* time.monotonic()
    store,   \* Cache._store
    hits,    \* Cache.hits
    misses   \* Cache.misses

cacheVars == <<now, store, hits, misses>>

(* Records as they arrive from their authority, which vouches for each for *)
(* ttl more seconds.                                                       *)
Stamp(records) ==
    [i \in DOMAIN records |->
        [records[i] EXCEPT !.heard = now,
                           !.until = now + records[i].ttl * TicksPerSecond]]

CacheInit ==
    /\ now = 0
    /\ store = [k \in Key |-> NoEntry]
    /\ hits = 0
    /\ misses = 0

-----------------------------------------------------------------------------
(* How long an entry lives.                                                *)

AtMost(a, b) == IF a <= b THEN a ELSE b

AtLeast(a, b) == IF a >= b THEN a ELSE b

ShortestTtl(records) == Min({records[i].ttl : i \in DOMAIN records})

(* The SOA record a negative answer is justified by: the first one.        *)
SoaPositions(authorities) ==
    {i \in DOMAIN authorities : authorities[i].rtype = "SOA"}

FirstSoa(authorities) == authorities[Min(SoaPositions(authorities))]

NegativeTtl(authorities) ==
    IF SoaPositions(authorities) = {} THEN 0
    ELSE AtMost(FirstSoa(authorities).ttl, FirstSoa(authorities).minimum)

IsPositive(rcode, answers) == rcode = "NOERROR" /\ answers # <<>>

(* Mutant of ComputeTtl: the TTL of the first answer, not of the shortest. *)
FirstAnswerTtl(rcode, answers, authorities) ==
    LET ttl == IF IsPositive(rcode, answers) THEN answers[1].ttl
               ELSE NegativeTtl(authorities)
    IN  AtLeast(MinTtl, AtMost(ttl, MaxTtl))

ComputeTtl(rcode, answers, authorities) ==
    LET ttl == IF IsPositive(rcode, answers) THEN ShortestTtl(answers)
               ELSE NegativeTtl(authorities)
    IN  AtLeast(MinTtl, AtMost(ttl, MaxTtl))

-----------------------------------------------------------------------------
(* Reading.                                                                *)

ExpiresAt(e) == e.stored_at + e.ttl * TicksPerSecond

(* Whole seconds left: int() drops the fraction.                           *)
Remaining(e) == (ExpiresAt(e) - now) \div TicksPerSecond

(* Mutant of IsLive: an entry counts as expired one second early.          *)
IsLiveEarly(k) == store[k] # NoEntry /\ Remaining(store[k]) > 1

IsLive(k) == store[k] # NoEntry /\ Remaining(store[k]) > 0

(* Mutant of CountDown: records are served with the TTL they came with.    *)
ServeOriginalTtl(records, ttl) == records

CountDown(records, ttl) ==
    [i \in DOMAIN records |-> [records[i] EXCEPT !.ttl = ttl]]

(* What get returns on a hit: copies whose TTL is the time the entry has   *)
(* left.                                                                   *)
FreshCopy(k) ==
    LET e == store[k]
    IN  [rcode       |-> e.rcode,
         answers     |-> CountDown(e.answers, Remaining(e)),
         authorities |-> CountDown(e.authorities, Remaining(e)),
         stored_at   |-> now,
         ttl         |-> Remaining(e)]

(* Mutant of GetHit: a hit renews the entry (sliding expiry).              *)
GetHitRenewing(k) ==
    /\ IsLive(k)
    /\ store' = [store EXCEPT ![k].stored_at = now]
    /\ hits' = hits + 1
    /\ UNCHANGED <<now, misses>>

GetHit(k) ==
    /\ IsLive(k)
    /\ hits' = hits + 1
    /\ UNCHANGED <<now, store, misses>>

(* A miss; an entry that has run out is evicted on the way.                *)
GetMiss(k) ==
    /\ ~IsLive(k)
    /\ store' = [store EXCEPT ![k] = NoEntry]
    /\ misses' = misses + 1
    /\ UNCHANGED <<now, hits>>

(* Mutant of Put: an entry without a lifetime is stored as well.           *)
PutAlways(k, rcode, answers, authorities) ==
    /\ store' = [store EXCEPT ![k] =
                    [rcode |-> rcode, answers |-> answers,
                     authorities |-> authorities, stored_at |-> now,
                     ttl |-> ComputeTtl(rcode, answers, authorities)]]
    /\ UNCHANGED <<now, hits, misses>>

(* Writing.  A lifetime of zero is not stored, and leaves an older entry   *)
(* where it is.                                                            *)
Put(k, rcode, answers, authorities) ==
    LET ttl == ComputeTtl(rcode, answers, authorities)
    IN  /\ store' = IF ttl <= 0 THEN store
                    ELSE [store EXCEPT ![k] =
                             [rcode |-> rcode, answers |-> answers,
                              authorities |-> authorities,
                              stored_at |-> now, ttl |-> ttl]]
        /\ UNCHANGED <<now, hits, misses>>

(* Time passes, up to the bound MaxTime.                                   *)
Tick ==
    /\ now < MaxTime
    /\ now' = now + 1
    /\ UNCHANGED <<store, hits, misses>>

-----------------------------------------------------------------------------
(* Type invariant: the counters are naturals and every stored entry has a  *)
(* positive lifetime within the ceiling and was stored no later than now   *)
(* (Cache.put never stores a zero lifetime, the clock never goes back).    *)
CacheTypeOK ==
    /\ now \in Nat /\ hits \in Nat /\ misses \in Nat
    /\ store \in [Key -> Entry \cup {NoEntry}]
    /\ \A k \in Key : store[k] # NoEntry =>
          /\ store[k].ttl \in 1 .. AtLeast(MinTtl, MaxTtl)
          /\ store[k].stored_at <= now

(* Every record that decides how long an entry lives is still vouched for  *)
(* by its authority when the entry ends.                                   *)
RecordsOutlive(e) ==
    LET end == ExpiresAt(e)
    IN  IF IsPositive(e.rcode, e.answers)
        THEN \A i \in DOMAIN e.answers : e.answers[i].until >= end
        ELSE SoaPositions(e.authorities) # {} /\ FirstSoa(e.authorities).until >= end

(* The refinement mapping onto LeaseTable: an entry is a lease on its      *)
(* contents from the put to its expiry, no entry one that ends where it    *)
(* starts.                                                                 *)
VoidLease == [value |-> <<>>, start |-> 0, end |-> 0]

LeaseOf(e) ==
    IF e = NoEntry THEN VoidLease
    ELSE [value |-> <<e.rcode, e.answers, e.authorities>>,
          start |-> e.stored_at, end |-> ExpiresAt(e)]

Leases == INSTANCE LeaseTable
    WITH Key     <- Key,
         NoLease <- VoidLease,
         Longest <- AtLeast(MinTtl, MaxTtl) * TicksPerSecond,
         Unit    <- TicksPerSecond,
         clock   <- now,
         lease   <- [k \in Key |-> LeaseOf(store[k])]

=============================================================================
