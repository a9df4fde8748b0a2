----------------------------- MODULE Forwarding -----------------------------
(***************************************************************************)
(* Forward mode: CachingResolver around ForwardingResolver                 *)
(* (dns_server/resolver.py).  A query that misses the cache is sent to the *)
(* upstream resolvers one after the other until one of them answers, to    *)
(* each as a datagram first and again over TCP if the answer comes back    *)
(* truncated.                                                              *)
(*                                                                         *)
(* Client queries are asyncio tasks on one event loop: they switch only    *)
(* where ask() awaits the network, so everything between two awaits is one *)
(* action.  The waits for an upstream are under asyncio.wait_for: when its *)
(* deadline is reached the timeout is raised before time goes on.  The     *)
(* awaits of sock_connect and sock_sendall in udp_query are not, but a     *)
(* datagram socket connects and sends without waiting for its peer: they   *)
(* are taken to end in the step they begin in.                             *)
(***************************************************************************)
EXTENDS Cache

CONSTANTS
    Task,        \* concurrent client queries
    Question,    \* <<name, type, class>> triples clients ask about
    Replies,     \* Replies[<<name, type>>]: what upstreams may answer by datagram
    Streamed,    \* Streamed[<<name, type>>]: what they may answer over TCP
    Upstreams,   \* how many addresses ForwardingResolver.upstreams has
    Timeout,     \* ForwardingResolver.timeout, in ticks
    MaxQueries,  \* bound: how many client queries arrive
    Nothing      \* no question, no response

Message == [tc : BOOLEAN, rcode : RCode, answers : Seq(Record),
            authorities : Seq(Record)]

(* A response and what Handled says of it; `upstream' is 0 if none gave it.*)
Handled == [rcode : RCode, answers : Seq(Record), authorities : Seq(Record),
            blocked : BOOLEAN, cache_hit : BOOLEAN, upstream : 0 .. Upstreams]

ASSUME ForwardingConstants ==
    /\ Question \subseteq Key
    /\ \A q \in Name \X RType : Replies[q] \cup Streamed[q] \subseteq Message
    /\ Upstreams \in Nat \ {0} /\ Timeout \in Nat \ {0} /\ MaxQueries \in Nat
    /\ Nothing \notin Handled /\ Nothing \notin Question

VARIABLES
    phase,     \* phase[t]: "idle", or what ask() awaits, "udp" or "tcp"
    question,  \* question[t]: what the client asked
    upstream,  \* upstream[t]: the upstream being asked
    deadline,  \* deadline[t]: when wait_for gives up
    handled,   \* handled[t]: the response to the client, or Nothing
    received,  \* how many queries have arrived
    arrived,   \* HISTORY arrived[t]: when the question arrived
    failed     \* HISTORY failed[t]: the upstreams that failed it, in order

askVars == <<phase, upstream, deadline>>

clientVars == <<question, received, arrived>>

vars == <<now, store, hits, misses, phase, question, upstream, deadline, handled,
          received, arrived, failed>>

Init ==
    /\ CacheInit
    /\ phase = [t \in Task |-> "idle"]
    /\ question = [t \in Task |-> Nothing]
    /\ upstream = [t \in Task |-> 1]
    /\ deadline = [t \in Task |-> 0]
    /\ handled = [t \in Task |-> Nothing]
    /\ received = 0
    /\ arrived = [t \in Task |-> 0]
    /\ failed = [t \in Task |-> <<>>]

-----------------------------------------------------------------------------
Response(rcode, answers, authorities) ==
    [rcode |-> rcode, answers |-> answers, authorities |-> authorities,
     blocked |-> FALSE, cache_hit |-> FALSE, upstream |-> 0]

Respond(t, response) ==
    /\ phase' = [phase EXCEPT ![t] = "idle"]
    /\ handled' = [handled EXCEPT ![t] = response]
    /\ UNCHANGED <<upstream, deadline>>

(* The task waits for upstream i, at most until the timeout.               *)
Await(t, transport, i) ==
    /\ phase' = [phase EXCEPT ![t] = transport]
    /\ upstream' = [upstream EXCEPT ![t] = i]
    /\ deadline' = [deadline EXCEPT ![t] = now + Timeout]

(* A task takes a query up; the rest of its first step is up to the        *)
(* resolver.                                                               *)
Arrive(t, q) ==
    /\ phase[t] = "idle" /\ received < MaxQueries
    /\ received' = received + 1
    /\ question' = [question EXCEPT ![t] = q]
    /\ arrived' = [arrived EXCEPT ![t] = now]
    /\ failed' = [failed EXCEPT ![t] = <<>>]

-----------------------------------------------------------------------------
(* CachingResolver.handle up to its first await.                           *)

RejectEmpty(t) ==
    /\ Arrive(t, Nothing)
    /\ Respond(t, Response("FORMERR", <<>>, <<>>))
    /\ UNCHANGED cacheVars

AnswerFromCache(t, q) ==
    /\ Arrive(t, q)
    /\ GetHit(q)
    /\ LET copy == FreshCopy(q)
       IN  Respond(t, [Response(copy.rcode, copy.answers, copy.authorities)
                          EXCEPT !.cache_hit = TRUE])

AskFirst(t, q) ==
    /\ Arrive(t, q)
    /\ GetMiss(q)
    /\ Await(t, "udp", 1)
    /\ handled' = [handled EXCEPT ![t] = Nothing]

Handle(t, q) == AnswerFromCache(t, q) \/ AskFirst(t, q)

-----------------------------------------------------------------------------
(* ask() and the loop of ForwardingResolver.handle.                        *)

Asked(t) == <<question[t][1], question[t][2]>>

(* What may come in over the transport the task listens to.                *)
Incoming(t) == IF phase[t] = "tcp" THEN Streamed[Asked(t)] ELSE Replies[Asked(t)]

(* Mutant of Truncated: the wait over TCP has no limit of its own.         *)
TruncatedUnhurried(t, m) ==
    /\ phase[t] = "udp" /\ m.tc
    /\ phase' = [phase EXCEPT ![t] = "tcp"]
    /\ deadline' = [deadline EXCEPT ![t] = now + Timeout + Timeout]
    /\ UNCHANGED <<now, store, hits, misses, upstream, handled, failed>>
    /\ UNCHANGED clientVars

(* The datagram says there is more: the same upstream is asked over TCP.   *)
Truncated(t, m) ==
    /\ phase[t] = "udp" /\ m.tc
    /\ Await(t, "tcp", upstream[t])
    /\ UNCHANGED <<now, store, hits, misses, handled, failed>>
    /\ UNCHANGED clientVars

(* Mutant of Whole: the TC flag is not looked at.                          *)
Received(t, m) == phase[t] # "idle"

(* The flag is only looked at in a datagram: over TCP whatever comes is    *)
(* the answer, be it marked as truncated or not.                           *)
Whole(t, m) == phase[t] = "tcp" \/ (phase[t] = "udp" /\ ~m.tc)

(* An upstream has answered, be it with an error: its answer goes out to   *)
(* the client, and into the cache if it is cacheable.                      *)
Answer(t, m) ==
    /\ Whole(t, m)
    /\ LET answers == Stamp(m.answers)
           authorities == Stamp(m.authorities)
       IN  /\ IF m.rcode \in {"NOERROR", "NXDOMAIN"}
              THEN Put(question[t], m.rcode, answers, authorities)
              ELSE UNCHANGED cacheVars
           /\ Respond(t, [Response(m.rcode, answers, authorities)
                             EXCEPT !.upstream = upstream[t]])
    /\ UNCHANGED failed
    /\ UNCHANGED clientVars

(* Mutant of AskNext: the first failure over TCP gives up.                 *)
AskNextUnlessTcp(t) ==
    IF upstream[t] < Upstreams /\ phase[t] = "udp"
    THEN Await(t, "udp", upstream[t] + 1) /\ UNCHANGED handled
    ELSE Respond(t, Response("SERVFAIL", <<>>, <<>>))

AskNext(t) ==
    IF upstream[t] < Upstreams
    THEN Await(t, "udp", upstream[t] + 1) /\ UNCHANGED handled
    ELSE Respond(t, Response("SERVFAIL", <<>>, <<>>))

(* ask() raises: refused, unreachable, closed early, unparseable, or, at   *)
(* the latest, timed out.                                                  *)
AskFails(t) ==
    /\ phase[t] # "idle"
    /\ AskNext(t)
    /\ failed' = [failed EXCEPT ![t] = Append(@, upstream[t])]
    /\ UNCHANGED cacheVars
    /\ UNCHANGED clientVars

-----------------------------------------------------------------------------
Progress(t) ==
    \/ phase[t] # "idle" /\ \E m \in Incoming(t) : Truncated(t, m) \/ Answer(t, m)
    \/ AskFails(t)

Waiting(t) == phase[t] # "idle"

(* Time does not go on while a timeout is due.                             *)
Wait ==
    /\ \A t \in Task : Waiting(t) => now < deadline[t]
    /\ Tick
    /\ UNCHANGED <<handled, failed>>
    /\ UNCHANGED askVars /\ UNCHANGED clientVars

(* All queries of the bound have been answered.                            *)
Quiesced ==
    /\ received = MaxQueries
    /\ \A t \in Task : ~Waiting(t)
    /\ UNCHANGED vars

Next ==
    \/ \E t \in Task : \/ RejectEmpty(t)
                       \/ \E q \in Question : Handle(t, q)
                       \/ Progress(t)
    \/ Wait
    \/ Quiesced

Spec == Init /\ [][Next]_vars

-----------------------------------------------------------------------------
TypeOK ==
    /\ CacheTypeOK
    /\ phase \in [Task -> {"idle", "udp", "tcp"}]
    /\ question \in [Task -> Question \cup {Nothing}]
    /\ \A t \in Task : Waiting(t) =>
          question[t] # Nothing
    /\ upstream \in [Task -> 1 .. Upstreams]
    /\ deadline \in [Task -> Nat] /\ arrived \in [Task -> Nat]
    /\ handled \in [Task -> Handled \cup {Nothing}]
    /\ received \in 0 .. MaxQueries
    /\ failed \in [Task -> Seq(1 .. Upstreams)]

(* However many upstreams stay silent or truncate, a client waits no       *)
(* longer than two timeouts for each of them: one for the datagram, one    *)
(* for TCP.                                                                *)
AnsweredInTime ==
    \A t \in Task : Waiting(t) => now - arrived[t] <= 2 * Timeout * Upstreams

(* "try them in order until one answers" (resolver.py:88): a client is     *)
(* told SERVFAIL for want of an answer only when every upstream has failed *)
(* it, and gets the answer of the first that did not; none is asked twice. *)
TriedInOrder ==
    \A t \in Task :
        LET tried(n) == [i \in 1 .. n |-> i]
        IN  IF Waiting(t) THEN failed[t] = tried(upstream[t] - 1)
            ELSE handled[t] # Nothing =>
                IF handled[t].upstream # 0
                THEN failed[t] = tried(handled[t].upstream - 1)
                ELSE failed[t] = IF handled[t].rcode = "SERVFAIL"
                                 THEN tried(Upstreams) ELSE <<>>

(* What a record says, whatever its lifetime.                              *)
Contents(records) ==
    [i \in DOMAIN records |-> <<records[i].owner, records[i].rtype,
                                records[i].minimum, records[i].target>>]

Says(m, rcode, answers, authorities) ==
    /\ m.rcode = rcode
    /\ Contents(m.answers) = Contents(answers)
    /\ Contents(m.authorities) = Contents(authorities)

(* What the cache holds for a question, and what a client that asked it is *)
(* given, is what an upstream answered to just this question, in a         *)
(* datagram without the TC flag or over TCP: nothing of a truncated        *)
(* datagram is ever kept or passed on, and queries in flight together are  *)
(* not mixed up.  An answer over TCP may itself have the flag: it is kept  *)
(* and passed on all the same (resolver.py:70-73).                         *)
AnswersAsSent ==
    LET asked(q) == <<q[1], q[2]>>
        sent(q) == {m \in Replies[asked(q)] : ~m.tc} \cup Streamed[asked(q)]
    IN  /\ \A k \in Key : store[k] # NoEntry =>
               \E m \in sent(k) :
                   Says(m, store[k].rcode, store[k].answers, store[k].authorities)
        /\ \A t \in Task :
               (handled[t] # Nothing /\ (handled[t].upstream # 0 \/ handled[t].cache_hit))
                   => \E m \in sent(question[t]) :
                          Says(m, handled[t].rcode, handled[t].answers,
                               handled[t].authorities)

(* The cache in front of the upstreams is a table of leases although the   *)
(* queries that missed it together all store what they got.                *)
KeepsLeases == Leases!Spec

=============================================================================
