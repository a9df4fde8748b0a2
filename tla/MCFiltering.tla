---------------------------- MODULE MCFiltering -----------------------------
(* A list file in each format, and upstreams that know a tracker, a name   *)
(* below it, an alias of it and a name that only looks like it.            *)
EXTENDS Filtering, TLC

tracker == <<"tracker", "net">>
ads == <<"ads", "tracker", "net">>
lookalike == <<"mytracker", "net">>
stats == <<"stats", "shop", "net">>
parent == <<"net">>

MCName == {tracker, ads, lookalike, stats, parent}
MCRType == {"A", "NS", "CNAME", "SOA"}
MCRClass == {"IN"}

MCNoise == {<<"localhost">>, <<"localhost", "localdomain">>, <<"local">>,
            <<"broadcasthost">>}

Address == [name |-> <<"0", "0", "0", "0">>, ip |-> TRUE]
Host(name) == [name |-> name, ip |-> FALSE]

(* A hosts file with noise, a lone dot and two names on a line; a plain    *)
(* list with a word too many.                                              *)
HostsFile == [text    |-> << <<Address, Host(<<"localhost">>), Host(<<>>)>>, <<>>,
                             <<Address, Host(lookalike), Host(tracker)>> >>,
              domains |-> {lookalike, tracker}]
PlainFile == [text    |-> << <<Host(tracker)>>, <<Host(stats), Host(parent)>> >>,
              domains |-> {tracker, stats}]

MCFiles == {HostsFile, PlainFile}

Rec(owner, rtype, ttl, target) ==
    [owner |-> owner, rtype |-> rtype, ttl |-> ttl, minimum |-> 0,
     target |-> target, heard |-> 0, until |-> 0]

Gives(tc, rcode, answers, authorities) ==
    [tc |-> tc, rcode |-> rcode, answers |-> answers, authorities |-> authorities]

Located(name) == Rec(name, "A", 1, name)

(* Two upstreams that disagree.  stats leads to the tracker by an alias,   *)
(* and its answer may come truncated after the alias; the others have an   *)
(* address, or not, or the upstream does not know.                         *)
MCReplies ==
    [q \in MCName \X MCRType |->
        IF q[2] # "A" THEN {}
        ELSE IF q[1] = stats
        THEN {Gives(TRUE, "NOERROR", <<Rec(stats, "CNAME", 2, ads)>>, <<>>),
              Gives(FALSE, "NOERROR", <<Rec(stats, "CNAME", 2, ads), Located(ads)>>, <<>>)}
        ELSE IF q[1] = parent
        THEN {Gives(FALSE, "NXDOMAIN", <<>>, <<Rec(parent, "SOA", 2, parent)>>),
              Gives(FALSE, "NOERROR", <<>>, <<>>),
              Gives(FALSE, "SERVFAIL", <<>>, <<>>)}
        ELSE {Gives(FALSE, "NOERROR", <<Located(q[1])>>, <<>>)}]

(* Only what was truncated is asked for over TCP.  One upstream truncates  *)
(* there as well, before the alias.                                        *)
MCStreamed ==
    [q \in MCName \X MCRType |->
        IF q # <<stats, "A">> THEN {}
        ELSE {Gives(FALSE, "NOERROR", <<Rec(stats, "CNAME", 2, ads), Located(ads)>>, <<>>),
              Gives(TRUE, "NOERROR", <<Located(ads)>>, <<>>)}]

MCQuestion == (MCName \X {"A"} \X {"IN"}) \cup {<<ads, "NS", "IN">>}

=============================================================================
