---------------------------- MODULE MCCacheClient ---------------------------
(* A small caller for TLC: two keys and the kinds of answer that are       *)
(* treated differently by Cache._compute_ttl.                              *)
EXTENDS CacheClient

CONSTANTS www, zone, ns   \* the names

MCName == {www, zone, ns}
MCRType == {"A", "NS", "CNAME", "SOA"}
MCRClass == {"IN"}
MCAsked == {<<www, "A", "IN">>, <<zone, "NS", "IN">>}

Rec(owner, rtype, ttl, minimum, target) ==
    [owner |-> owner, rtype |-> rtype, ttl |-> ttl, minimum |-> minimum,
     target |-> target, heard |-> 0, until |-> 0]

A(ttl) == Rec(www, "A", ttl, 0, www)
Ns(ttl) == Rec(zone, "NS", ttl, 0, ns)
Soa(ttl, minimum) == Rec(zone, "SOA", ttl, minimum, ns)

Reply(rcode, answers, authorities) ==
    [rcode |-> rcode, answers |-> answers, authorities |-> authorities]

MCPayload ==
    { Reply("NOERROR",  <<A(3), A(1)>>, <<>>),             \* shortest record last
      Reply("NOERROR",  <<A(5)>>, <<Ns(1)>>),              \* over the ceiling
      Reply("NOERROR",  <<A(0)>>, <<>>),                   \* not stored
      Reply("NOERROR",  <<>>, <<Soa(1, 3)>>),              \* NODATA
      Reply("NXDOMAIN", <<>>, <<Ns(3), Soa(3, 2)>>),       \* SOA not first
      Reply("NXDOMAIN", <<>>, <<>>) }                      \* no SOA, not stored

=============================================================================
