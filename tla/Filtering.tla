----------------------------- MODULE Filtering ------------------------------
(***************************************************************************)
(* The program in forward mode as main.py builds it: list files are loaded *)
(* before the server starts, and BlockingResolver (dns_server/             *)
(* blocklist.py) stands in front of the caching and forwarding resolvers.  *)
(* Names are sequences of labels.                                          *)
(***************************************************************************)
EXTENDS Forwarding, Blocklist

CONSTANTS
    Files,      \* what may be given with --blocklist: [text, domains] records,
                \* `domains' being those the author of the text meant to list
    BlockMode,  \* BlockingResolver.mode
    BlockTtl    \* BlockingResolver.ttl

ASSUME FilteringConstants ==
    /\ BlockMode \in {"sinkhole", "nxdomain"}
    /\ BlockTtl \in Nat
    /\ Name \subseteq Seq(STRING)
    /\ \A file \in Files : /\ file.text \in Seq(Seq(Word))
                           /\ file.domains \subseteq Seq(STRING)

(* Each file is in a format blocklist.py:11-18 knows: what is read off it  *)
(* covers the names its author meant.  It is no assumption of the model;   *)
(* what is proved about listed names has it as its hypothesis.             *)
FilesAsMeant ==
    \A file \in Files, name \in Name :
        Covered(name, Listed(file.text)) <=> Covered(name, file.domains)

VARIABLES
    serving,  \* main.run() has started the servers
    meant     \* HISTORY: the domains the files loaded so far are meant to list

allVars == <<now, store, hits, misses, phase, question, upstream, deadline, handled,
             received, arrived, failed, blocked, serving, meant>>

FilterInit == Init /\ BlocklistInit /\ serving = FALSE /\ meant = {}

(* A file of main.run()'s loop, and the start that ends it.                *)
LoadFile(file) ==
    /\ ~serving
    /\ Load(file.text)
    /\ meant' = meant \cup file.domains
    /\ UNCHANGED <<vars, serving>>

Start ==
    /\ ~serving
    /\ serving' = TRUE
    /\ UNCHANGED <<vars, blocked, meant>>

(* The dead address, as an answer to a question for an address.            *)
Sinkhole(q) ==
    IF q[2] \in {"A", "AAAA"}
    THEN <<[owner |-> q[1], rtype |-> q[2], ttl |-> BlockTtl, minimum |-> 0,
            target |-> q[1], heard |-> now,
            until |-> now + BlockTtl * TicksPerSecond]>>
    ELSE <<>>

Refusal(q) ==
    [Response(IF BlockMode = "nxdomain" THEN "NXDOMAIN" ELSE "NOERROR",
              IF BlockMode = "nxdomain" THEN <<>> ELSE Sinkhole(q), <<>>)
        EXCEPT !.blocked = TRUE]

Refuse(t, q) ==
    /\ IsBlocked(q[1])
    /\ Arrive(t, q)
    /\ Respond(t, Refusal(q))
    /\ UNCHANGED cacheVars

(* BlockingResolver.handle: what is not blocked passes untouched.          *)
Filter(t, q) ==
    \/ Refuse(t, q)
    \/ ~IsBlocked(q[1]) /\ Handle(t, q)

Serve ==
    /\ \/ \E t \in Task : \/ RejectEmpty(t)
                          \/ \E q \in Question : Filter(t, q)
                          \/ Progress(t)
       \/ Wait
       \/ Quiesced
    /\ serving
    /\ UNCHANGED <<blocked, serving, meant>>

FilterNext ==
    \/ \E file \in Files : LoadFile(file)
    \/ Start
    \/ Serve

FilterSpec == FilterInit /\ [][FilterNext]_allVars

-----------------------------------------------------------------------------
FilterTypeOK ==
    /\ TypeOK
    /\ blocked \subseteq Seq(STRING) \ {<<>>}
    /\ serving \in BOOLEAN /\ meant \subseteq Seq(STRING)

(* "ad/tracker names die here, before any network I/O" (main.py:9): no     *)
(* upstream is ever asked about a listed domain or one below it, and none  *)
(* is ever in the cache.                                                   *)
BlockedNamesDieHere ==
    /\ \A t \in Task : Waiting(t) => ~Covered(question[t][1], meant)
    /\ \A k \in Key : Covered(k[1], meant) => store[k] = NoEntry

(* However the files are written (blocklist.py:11-18), the refusal is for  *)
(* the domains they list and those below them, and for no other.           *)
BlocksExactlyTheListed ==
    \A t \in Task :
        (handled[t] # Nothing /\ question[t] # Nothing) =>
            (handled[t].blocked <=> Covered(question[t][1], meant))

-----------------------------------------------------------------------------
(* "your browser can't load an ad if it can't find the ad server's IP      *)
(* address ... if our resolver simply refuses to answer for those domains" *)
(* (blocklist.py:4-8): no client is given the address of a listed name.    *)
(* The code matches the name asked, not those an alias leads to.           *)
NoAddressOfBlockedNames ==
    \A t \in Task :
        handled[t] # Nothing /\ ~handled[t].blocked =>
            \A i \in DOMAIN handled[t].answers : ~Covered(handled[t].answers[i].owner, meant)

=============================================================================
