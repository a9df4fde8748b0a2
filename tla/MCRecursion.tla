----------------------------- MODULE MCRecursion ----------------------------
(* A small delegation tree for TLC.  www is an alias for web, whose name   *)
(* server is ns; servers may answer a question in any of the listed ways,  *)
(* a different one each time, so they disagree, loop and contradict        *)
(* themselves as a hostile or a half-updated zone does.                    *)
EXTENDS Recursion

CONSTANTS www, web, ns   \* the names

MCName == {www, web, ns}
MCRType == {"A", "NS", "CNAME", "SOA"}
MCRClass == {"IN"}

Rec(owner, rtype, ttl, minimum, target) ==
    [owner |-> owner, rtype |-> rtype, ttl |-> ttl, minimum |-> minimum,
     target |-> target, heard |-> 0, until |-> 0]

A(owner, ttl) == Rec(owner, "A", ttl, 0, owner)
Alias(owner, target, ttl) == Rec(owner, "CNAME", ttl, 0, target)
Ns(target) == Rec(web, "NS", 2, 0, target)
Soa(ttl, minimum) == Rec(web, "SOA", ttl, minimum, ns)

Msg(rcode, answers, authorities, additionals) ==
    [rcode |-> rcode, answers |-> answers, authorities |-> authorities,
     additionals |-> additionals]

Says(answers) == Msg("NOERROR", answers, <<>>, <<>>)
Denies(soa) == Msg("NXDOMAIN", <<>>, <<soa>>, <<>>)
NoData(soa) == Msg("NOERROR", <<>>, <<soa>>, <<>>)
Refers(targets, additionals) ==
    Msg("NOERROR", <<>>, [i \in DOMAIN targets |-> Ns(targets[i])], additionals)

(* No servers answer questions that are not listed.                        *)
Answering(listed) ==
    [q \in MCName \X MCRType |-> IF q \in DOMAIN listed THEN listed[q] ELSE {}]

(* Every shape of message _recurse tells apart, with zones that loop: an   *)
(* alias back to www, and name servers whose addresses lie in the zone.    *)
WalkQuestion == {<<www, "A">>, <<www, "CNAME">>}

WalkReplies == Answering(
    <<www, "A">> :> { Says(<<Alias(www, web, 2)>>),
                      Says(<<Alias(www, web, 2), A(web, 1)>>),
                      Refers(<<web, ns>>, <<>>),
                      Refers(<<web, ns>>, <<A(ns, 2), A(web, 2), A(www, 2)>>) } @@
    <<web, "A">> :> { Says(<<A(web, 1)>>), Says(<<Alias(web, www, 2)>>),
                      Denies(Soa(2, 1)),
                      Msg("SERVFAIL", <<>>, <<>>, <<>>) } @@
    <<ns, "A">>  :> { Says(<<A(ns, 2), A(ns, 1)>>), Refers(<<ns>>, <<>>),
                      NoData(Soa(1, 2)) } @@
    <<www, "CNAME">> :> { Says(<<Alias(www, web, 2)>>) })

(* Two queries race for the same names while time passes.                  *)
RaceQuestion == {<<www, "A">>, <<web, "A">>}

RaceReplies == Answering(
    <<www, "A">> :> { Says(<<Alias(www, web, 2)>>) } @@
    <<web, "A">> :> { Says(<<A(web, 2), A(web, 1)>>), Refers(<<ns>>, <<>>),
                      Denies(Soa(1, 2)), Msg("REFUSED", <<>>, <<>>, <<>>) } @@
    <<ns, "A">>  :> { Says(<<A(ns, 2)>>) })

(* For the violation runs: one alias, and servers that refuse.             *)
AliasAgesReplies == Answering(
    <<www, "A">> :> { Says(<<Alias(www, web, 2)>>) } @@
    <<web, "A">> :> { Says(<<A(web, 2)>>) })

RefusedReplies == Answering(
    <<www, "A">> :> { Msg("REFUSED", <<>>, <<>>, <<>>),
                      Msg("SERVFAIL", <<>>, <<>>, <<>>) })

OneQuestion == {<<www, "A">>}

(* Tasks are told apart by nothing.                                        *)
TaskSymmetry == Permutations(Task)

=============================================================================
