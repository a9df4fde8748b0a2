---------------------------- MODULE CacheClient -----------------------------
(***************************************************************************)
(* The cache of cache.py with an arbitrary caller: any sequence of gets,   *)
(* puts and waits.  The caller holds on to the last copy get returned, as  *)
(* the resolvers do while they build a response from it.                   *)
(***************************************************************************)
EXTENDS Cache

CONSTANTS
    Asked,     \* the keys the caller uses
    Payload,   \* what may be put: [rcode, answers, authorities] records
    NoReply,   \* the caller holds nothing: get returned None
    MaxCalls   \* bound: how many gets a behaviour makes

Copy == [key : Key, entry : Entry]

ASSUME ClientConstants ==
    /\ Asked \subseteq Key
    /\ \A p \in Payload : /\ p.rcode \in RCode
                          /\ p.answers \in Seq(Record)
                          /\ p.authorities \in Seq(Record)
    /\ NoReply \notin Copy
    /\ MaxCalls \in Nat

VARIABLE reply   \* NoReply or the copy the last get returned

vars == <<now, store, hits, misses, reply>>

Init ==
    /\ CacheInit
    /\ reply = NoReply

Hit(k) ==
    /\ hits + misses < MaxCalls
    /\ GetHit(k)
    /\ reply' = [key |-> k, entry |-> FreshCopy(k)]

Miss(k) ==
    /\ hits + misses < MaxCalls
    /\ GetMiss(k)
    /\ reply' = NoReply

Store(k) == \E p \in Payload :
    /\ Put(k, p.rcode, Stamp(p.answers), Stamp(p.authorities))
    /\ UNCHANGED reply

Wait ==
    /\ Tick
    /\ UNCHANGED reply

Next ==
    \/ \E k \in Asked : Hit(k) \/ Miss(k) \/ Store(k)
    \/ Wait

Spec == Init /\ [][Next]_vars

-----------------------------------------------------------------------------
(* Type invariant: the cache's, and the caller holds nothing or a copy     *)
(* with at least one second to live (get never returns a dead entry).      *)
TypeOK ==
    /\ CacheTypeOK
    /\ reply = NoReply \/ (reply \in Copy /\ reply.entry.ttl >= 1)

(* A copy the caller holds never promises more life than the authority     *)
(* gave: every answer of a positive copy, and the SOA of a negative one,   *)
(* still has the copy's TTL to live, counted from the moment of the get    *)
(* ("a record cached with TTL=300 and served 200 seconds later must be     *)
(* handed out with TTL 100", cache.py:13).  It holds when min_ttl is 0, as *)
(* in main.py:47; a floor would outlive short-lived records on purpose.    *)
CopiesWithinLifetime ==
    MinTtl = 0 /\ reply # NoReply => RecordsOutlive(reply.entry)

(* The inductive strengthening of CopiesWithinLifetime: it holds of every  *)
(* entry in the store as well.                                             *)
EntriesWithinLifetime ==
    MinTtl = 0 => \A k \in Key : store[k] # NoEntry => RecordsOutlive(store[k])

(* The cache keeps the promise of a table of leases: an entry appears only *)
(* by a put, never changes or is prolonged afterwards, and disappears only *)
(* when it has less than a second to live.                                 *)
KeepsLeases == Leases!Spec

=============================================================================
