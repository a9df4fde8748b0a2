----------------------------- MODULE Recursion ------------------------------
(***************************************************************************)
(* RecursiveResolver (dns_server/resolver.py) on its shared cache: every   *)
(* client query is an asyncio task that walks the delegation tree from the *)
(* root servers, following aliases and resolving the addresses of name     *)
(* servers that come without glue.                                         *)
(*                                                                         *)
(* The nested coroutines _lookup -> _recurse -> _lookup -> ... of a task   *)
(* are its `stack' of frames.  asyncio runs one task at a time and         *)
(* switches only where the code awaits the network, which is in _ask_any:  *)
(* `running' is the task that has the event loop and is Idle while every   *)
(* task waits for a server.  A frame that returns leaves its `result' to   *)
(* the frame below it.                                                     *)
(*                                                                         *)
(* The servers are the environment: asked about a name and a type they may *)
(* send any message of Replies for it, or none (timeout, refused           *)
(* connection, unparseable bytes).  One ask is the whole coroutine ask():  *)
(* the datagram and, if it comes back truncated, the retry over TCP.       *)
(***************************************************************************)
EXTENDS Cache, SequencesExt

CONSTANTS
    Task,            \* concurrent client queries
    Question,        \* <<name, type>> pairs clients ask about
    Replies,         \* Replies[<<name, type>>]: what servers may answer
    RootServers,     \* how many addresses ROOT_HINT_IPS has
    MaxDepth,        \* RecursiveResolver.MAX_DEPTH
    MaxDelegations,  \* RecursiveResolver.MAX_DELEGATIONS
    MaxQueries,      \* bound: how many client queries arrive
    Idle,            \* no task has the event loop
    Nothing          \* no result, no response

Message == [rcode : RCode, answers : Seq(Record), authorities : Seq(Record),
            additionals : Seq(Record)]

(* What _lookup returns, and handle puts into the response.                *)
Result == [rcode : RCode, answers : Seq(Record), authorities : Seq(Record),
           from_cache : BOOLEAN]

(* One activation of _lookup and the _recurse it calls.                    *)
(*   op "lookup": about to read the cache                                  *)
(*      "ask":    waiting for one of `left' servers not yet tried          *)
(*      "alias":  waiting for the lookup of the target of `cname'          *)
(*      "glue":   waiting for the lookup of an NS name of `referral'; the  *)
(*                names at the positions `todo' are still untried          *)
(*   hops: the iteration of the delegation loop                            *)
Frame == [op : {"lookup", "ask", "alias", "glue"}, name : Name, qtype : RType,
          hops : 0 .. MaxDelegations, left : Nat, cname : Seq(Record),
          referral : Seq(Name), todo : SUBSET Nat]

ASSUME RecursionConstants ==
    /\ RClass = {"IN"}
    /\ Question \subseteq Name \X RType
    /\ \A q \in Name \X RType : Replies[q] \subseteq Message
    /\ RootServers \in Nat \ {0}
    /\ MaxDepth \in Nat /\ MaxDelegations \in Nat \ {0} /\ MaxQueries \in Nat
    /\ Idle \notin Task
    /\ Nothing \notin Result /\ Nothing \notin Question

VARIABLES
    running,   \* the task that has the event loop, or Idle
    stack,     \* stack[t]: the frames of task t, the innermost last
    result,    \* what the frame just finished returned, or Nothing
    question,  \* question[t]: what the client asked
    handled,   \* handled[t]: the response to the client, or Nothing
    received   \* how many queries have arrived

walkVars == <<running, stack, result, question, handled, received>>

vars == <<now, store, hits, misses, running, stack, result, question, handled,
          received>>

Init ==
    /\ CacheInit
    /\ running = Idle
    /\ stack = [t \in Task |-> <<>>]
    /\ result = Nothing
    /\ question = [t \in Task |-> Nothing]
    /\ handled = [t \in Task |-> Nothing]
    /\ received = 0

-----------------------------------------------------------------------------
(* Frames.                                                                 *)

LookupFrame(name, qtype) ==
    [op |-> "lookup", name |-> name, qtype |-> qtype, hops |-> 0, left |-> 0,
     cname |-> <<>>, referral |-> <<>>, todo |-> {}]

Top(t) == Last(stack[t])

Depth(t) == Len(stack[t]) - 1

KeyOf(frame) == <<frame.name, frame.qtype, "IN">>

ReplaceTop(t, frame) == [stack EXCEPT ![t] = Append(Front(@), frame)]

Pop(t) == [stack EXCEPT ![t] = Front(@)]

(* The frame awaits _lookup(name, qtype), which starts at once.            *)
Call(t, frame, name, qtype) ==
    /\ stack' = [stack EXCEPT ![t] =
                    Append(Append(Front(@), frame), LookupFrame(name, qtype))]
    /\ running' = t
    /\ result' = Nothing
    /\ UNCHANGED cacheVars

(* _recurse returns to its _lookup, which caches what is cacheable and     *)
(* returns in turn.                                                        *)
Finish(t, rcode, answers, authorities) ==
    /\ IF rcode \in {"NOERROR", "NXDOMAIN"}
       THEN Put(KeyOf(Top(t)), rcode, answers, authorities)
       ELSE UNCHANGED cacheVars
    /\ result' = [rcode |-> rcode, answers |-> answers,
                  authorities |-> authorities, from_cache |-> FALSE]
    /\ stack' = Pop(t)
    /\ running' = t

Fail(t) == Finish(t, "SERVFAIL", <<>>, <<>>)

(* Mutant of Descend: a referral does not count as an iteration.           *)
DescendUncounted(t, servers) ==
    /\ stack' = ReplaceTop(t, [Top(t) EXCEPT !.op = "ask", !.left = servers,
                                    !.referral = <<>>, !.todo = {}])
    /\ running' = Idle
    /\ result' = Nothing
    /\ UNCHANGED cacheVars

(* The next iteration of the delegation loop, on `servers' addresses one   *)
(* level down; or too many delegations.                                    *)
Descend(t, servers) ==
    IF Top(t).hops < MaxDelegations
    THEN /\ stack' = ReplaceTop(t, [Top(t) EXCEPT !.op = "ask", !.left = servers,
                                        !.hops = @ + 1, !.referral = <<>>,
                                        !.todo = {}])
         /\ running' = Idle
         /\ result' = Nothing
         /\ UNCHANGED cacheVars
    ELSE Fail(t)

-----------------------------------------------------------------------------
(* What a message is, in the order _recurse asks.                          *)

PositionsOf(records, rtype) == {i \in DOMAIN records : records[i].rtype = rtype}

IsAnswer(m, frame) == PositionsOf(m.answers, frame.qtype) # {}

IsAlias(m, frame) ==
    /\ ~IsAnswer(m, frame)
    /\ PositionsOf(m.answers, "CNAME") # {}
    /\ frame.qtype # "CNAME"

IsDenial(m, frame) ==
    /\ ~IsAnswer(m, frame)
    /\ ~IsAlias(m, frame)
    /\ m.rcode = "NXDOMAIN"

Otherwise(m, frame) ==
    ~IsAnswer(m, frame) /\ ~IsAlias(m, frame) /\ ~IsDenial(m, frame)

NsPositions(m) == PositionsOf(m.authorities, "NS")

(* _glue_addresses: the A records of the additional section that belong to *)
(* a name server of the referral.                                          *)
Glue(m) ==
    {i \in PositionsOf(m.additionals, "A") :
        \E j \in NsPositions(m) : m.additionals[i].owner = m.authorities[j].target}

-----------------------------------------------------------------------------
(* Client queries.                                                         *)

Free(t) == running = Idle /\ stack[t] = <<>> /\ received < MaxQueries

Receive(t, q) ==
    /\ Free(t)
    /\ stack' = [stack EXCEPT ![t] = <<LookupFrame(q[1], q[2])>>]
    /\ running' = t
    /\ question' = [question EXCEPT ![t] = q]
    /\ handled' = [handled EXCEPT ![t] = Nothing]
    /\ received' = received + 1
    /\ UNCHANGED <<now, store, hits, misses, result>>

(* A query without a question is answered FORMERR at once.                 *)
RejectEmpty(t) ==
    /\ Free(t)
    /\ question' = [question EXCEPT ![t] = Nothing]
    /\ handled' = [handled EXCEPT ![t] =
                      [rcode |-> "FORMERR", answers |-> <<>>,
                       authorities |-> <<>>, from_cache |-> FALSE]]
    /\ received' = received + 1
    /\ UNCHANGED <<now, store, hits, misses, running, stack, result>>

Respond(t) ==
    /\ running = t /\ stack[t] = <<>> /\ result # Nothing
    /\ handled' = [handled EXCEPT ![t] = result]
    /\ running' = Idle
    /\ result' = Nothing
    /\ UNCHANGED <<now, store, hits, misses, stack, question, received>>

-----------------------------------------------------------------------------
(* _lookup.                                                                *)

LookingUp(t) ==
    running = t /\ stack[t] # <<>> /\ result = Nothing /\ Top(t).op = "lookup"

CacheHit(t) ==
    /\ LookingUp(t)
    /\ GetHit(KeyOf(Top(t)))
    /\ LET copy == FreshCopy(KeyOf(Top(t)))
       IN  result' = [rcode |-> copy.rcode, answers |-> copy.answers,
                      authorities |-> copy.authorities, from_cache |-> TRUE]
    /\ stack' = Pop(t)
    /\ UNCHANGED <<running, question, handled, received>>

(* Mutant of StartWalk: the depth guard is off by one.                     *)
StartWalkDeeper(t) ==
    /\ LookingUp(t)
    /\ Depth(t) <= MaxDepth + 1
    /\ GetMiss(KeyOf(Top(t)))
    /\ stack' = ReplaceTop(t, [Top(t) EXCEPT !.op = "ask", !.hops = 1,
                                             !.left = RootServers])
    /\ running' = Idle
    /\ UNCHANGED <<result, question, handled, received>>

(* A miss: start at the root, unless the lookup is nested too deeply.      *)
StartWalk(t) ==
    /\ LookingUp(t)
    /\ Depth(t) <= MaxDepth
    /\ GetMiss(KeyOf(Top(t)))
    /\ stack' = ReplaceTop(t, [Top(t) EXCEPT !.op = "ask", !.hops = 1,
                                             !.left = RootServers])
    /\ running' = Idle
    /\ UNCHANGED <<result, question, handled, received>>

TooDeep(t) ==
    /\ LookingUp(t)
    /\ Depth(t) > MaxDepth
    /\ GetMiss(KeyOf(Top(t)))
    /\ result' = [rcode |-> "SERVFAIL", answers |-> <<>>, authorities |-> <<>>,
                  from_cache |-> FALSE]
    /\ stack' = Pop(t)
    /\ UNCHANGED <<running, question, handled, received>>

-----------------------------------------------------------------------------
(* _recurse and _ask_any: the awaited server answers, or does not.         *)

Awaiting(t) == running = Idle /\ stack[t] # <<>> /\ Top(t).op = "ask"

RestKept == UNCHANGED <<question, handled, received>>

(* _ask_any swallows every failure and tries the next address.             *)
TryNextServer(t) ==
    /\ Awaiting(t) /\ Top(t).left > 1
    /\ stack' = ReplaceTop(t, [Top(t) EXCEPT !.left = @ - 1])
    /\ UNCHANGED <<now, store, hits, misses, running, result>>
    /\ RestKept

NoServerAnswers(t) ==
    /\ Awaiting(t) /\ Top(t).left <= 1
    /\ Fail(t)
    /\ RestKept

HearAnswer(t, m) ==
    /\ Awaiting(t) /\ IsAnswer(m, Top(t))
    /\ Finish(t, "NOERROR", Stamp(m.answers), Stamp(m.authorities))
    /\ RestKept

(* The first CNAME is kept, its target looked up for the original type.    *)
HearAlias(t, m) ==
    /\ Awaiting(t) /\ IsAlias(m, Top(t))
    /\ LET cname == Stamp(m.answers)[Min(PositionsOf(m.answers, "CNAME"))]
       IN  Call(t, [Top(t) EXCEPT !.op = "alias", !.cname = <<cname>>],
                cname.target, Top(t).qtype)
    /\ RestKept

HearDenial(t, m) ==
    /\ Awaiting(t) /\ IsDenial(m, Top(t))
    /\ Finish(t, "NXDOMAIN", <<>>, Stamp(m.authorities))
    /\ RestKept

HearNoData(t, m) ==
    /\ Awaiting(t) /\ Otherwise(m, Top(t)) /\ NsPositions(m) = {}
    /\ Finish(t, "NOERROR", <<>>, Stamp(m.authorities))
    /\ RestKept

HearReferral(t, m) ==
    /\ Awaiting(t) /\ Otherwise(m, Top(t)) /\ NsPositions(m) # {}
    /\ Glue(m) # {}
    /\ Descend(t, Cardinality(Glue(m)))
    /\ RestKept

(* No glue: look up the address of the first name server of the referral.  *)
HearGlueless(t, m) ==
    /\ Awaiting(t) /\ Otherwise(m, Top(t)) /\ NsPositions(m) # {}
    /\ Glue(m) = {}
    /\ LET first == Min(NsPositions(m))
       IN  Call(t, [Top(t) EXCEPT !.op = "glue",
                        !.referral = [i \in DOMAIN m.authorities |->
                                          m.authorities[i].target],
                        !.todo = NsPositions(m) \ {first}],
                m.authorities[first].target, "A")
    /\ RestKept

-----------------------------------------------------------------------------
(* A nested lookup returns to the frame that awaits it.                    *)

Returning(t, op) ==
    running = t /\ stack[t] # <<>> /\ result # Nothing /\ Top(t).op = op

(* Mutant of ReturnAlias: the alias is lost from the chain.                *)
ReturnTargetOnly(t) ==
    /\ Returning(t, "alias")
    /\ Finish(t, result.rcode, result.answers, result.authorities)
    /\ RestKept

(* The alias is put in front of what its target resolved to.               *)
ReturnAlias(t) ==
    /\ Returning(t, "alias")
    /\ Finish(t, result.rcode, Top(t).cname \o result.answers, result.authorities)
    /\ RestKept

(* _resolve_nameservers: the addresses found, else the next name server,   *)
(* else none.                                                              *)
Addresses == PositionsOf(result.answers, "A")

ReturnAddresses(t) ==
    /\ Returning(t, "glue") /\ Addresses # {}
    /\ Descend(t, Cardinality(Addresses))
    /\ RestKept

ReturnNextName(t) ==
    /\ Returning(t, "glue") /\ Addresses = {} /\ Top(t).todo # {}
    /\ LET next == Min(Top(t).todo)
       IN  Call(t, [Top(t) EXCEPT !.todo = @ \ {next}], Top(t).referral[next], "A")
    /\ RestKept

(* Mutant of ReturnNoAddress: the loop goes on without name servers.       *)
ReturnNoAddressUnchecked(t) ==
    /\ Returning(t, "glue") /\ Addresses = {} /\ Top(t).todo = {}
    /\ Descend(t, 0)
    /\ RestKept

ReturnNoAddress(t) ==
    /\ Returning(t, "glue") /\ Addresses = {} /\ Top(t).todo = {}
    /\ Fail(t)
    /\ RestKept

-----------------------------------------------------------------------------
Hear(t) ==
    \E m \in Replies[<<Top(t).name, Top(t).qtype>>] :
        \/ HearAnswer(t, m)
        \/ HearAlias(t, m)
        \/ HearDenial(t, m)
        \/ HearNoData(t, m)
        \/ HearReferral(t, m)
        \/ HearGlueless(t, m)

(* Everything the event loop does for a task once its query has arrived.   *)
Progress(t) ==
    \/ CacheHit(t) \/ StartWalk(t) \/ TooDeep(t)
    \/ Awaiting(t) /\ Hear(t)
    \/ TryNextServer(t) \/ NoServerAnswers(t)
    \/ ReturnAlias(t)
    \/ ReturnAddresses(t) \/ ReturnNextName(t) \/ ReturnNoAddress(t)
    \/ Respond(t)

Wait ==
    /\ running = Idle
    /\ Tick
    /\ UNCHANGED walkVars

(* All queries of the bound have been answered.                            *)
Quiesced ==
    /\ received = MaxQueries
    /\ \A t \in Task : stack[t] = <<>>
    /\ running = Idle
    /\ UNCHANGED vars

Next ==
    \/ \E t \in Task : \/ \E q \in Question : Receive(t, q)
                       \/ RejectEmpty(t)
                       \/ Progress(t)
    \/ Wait
    \/ Quiesced

Spec == Init /\ [][Next]_vars

(* asyncio.wait_for bounds every wait of _ask_any for a server             *)
(* (resolver.py:42 and 58), a datagram socket connects and sends without   *)
(* waiting, and the event loop runs every task that is ready: a query that *)
(* has arrived goes on.                                                    *)
FairSpec == Spec /\ \A t \in Task : WF_vars(Progress(t))

-----------------------------------------------------------------------------
(* Type invariant.                                                         *)
TypeOK ==
    /\ CacheTypeOK
    /\ running \in Task \cup {Idle}
    /\ stack \in [Task -> Seq(Frame)]
    /\ result \in Result \cup {Nothing}
    /\ question \in [Task -> Question \cup {Nothing}]
    /\ handled \in [Task -> Result \cup {Nothing}]
    /\ received \in 0 .. MaxQueries

(* The guards of _recurse hold for every task however the servers answer:  *)
(* no walk nests deeper than MAX_DEPTH lookups below its query, so at most *)
(* one more frame is ever on the stack, the one that is refused.           *)
NestingBounded ==
    \A t \in Task : /\ Len(stack[t]) <= MaxDepth + 2
                     /\ Len(stack[t]) = MaxDepth + 2 => Top(t).op = "lookup"

(* Control is where it belongs: only the innermost coroutine of a task     *)
(* waits for the network, the others wait for the coroutine above them,    *)
(* and when the event loop is idle no task is left behind, neither waiting *)
(* for a server that does not exist nor holding a result nobody takes.     *)
ControlReturns ==
    /\ \A t \in Task : \A i \in 1 .. Len(stack[t]) - 1 :
           stack[t][i].op \in {"alias", "glue"}
    /\ \A t \in Task : stack[t] # <<>> /\ running # t =>
           Top(t).op = "ask" /\ Top(t).left >= 1
    /\ running = Idle => result = Nothing

(* The authority of a record that is not an alias vouches for it so long.  *)
VouchedFor(r, seconds, since) ==
    r.rtype # "CNAME" => r.until >= since + seconds * TicksPerSecond

(* No TTL the resolver returns or stores promises a record more life than  *)
(* its authority gave it, however long the walk took and however often the *)
(* record was taken from the cache on the way ("handed out with TTL 100,   *)
(* not 300", cache.py:13).  It is stated for the records a lookup was made *)
(* for; AliasesReusedInTime is about the aliases in front of them.         *)
TargetsWithinLifetime ==
    MinTtl = 0 =>
        /\ \A k \in Key : store[k] # NoEntry =>
               \A r \in Range(store[k].answers) :
                   VouchedFor(r, store[k].ttl, store[k].stored_at)
        /\ result # Nothing =>
               \A r \in Range(result.answers) : VouchedFor(r, r.ttl, now)

(* What a client gets is the chain from the name it asked to the records   *)
(* it asked for: each answer is owned by the name the alias before it      *)
(* points to, whichever of the links came from the cache, and a positive   *)
(* chain that does not stop at an alias ends in a record of the type.      *)
(* (Servers answer with records of the name they are asked; _recurse does  *)
(* not compare owners.)                                                    *)
ChainLeadsFromQuestion ==
    \A t \in Task : handled[t] # Nothing /\ question[t] # Nothing =>
        LET chain == handled[t].answers
        IN  chain # <<>> =>
              /\ chain[1].owner = question[t][1]
              /\ \A i \in 1 .. Len(chain) - 1 :
                    chain[i].rtype = "CNAME" => chain[i + 1].owner = chain[i].target
              /\ Last(chain).rtype \in {question[t][2], "CNAME"}

(* Two walks wait with the same alias, and each hears of its target that   *)
(* there is nothing, without a record that says so (REFUSED, say): both    *)
(* put the bare alias, and the second put prolongs it.                     *)
RenewsBareAlias ==
    \E k \in Key :
        /\ Leases!Renew(k)
        /\ store'[k].answers # <<>> /\ store'[k].authorities = <<>>
        /\ \A r \in Range(store'[k].answers) : r.rtype = "CNAME"

(* The resolver's cache, written by several walks at once, is still a      *)
(* table of leases, whatever the servers send: no walk revives, alters or  *)
(* prolongs what it finds, but for the one hole AliasesReusedInTime is     *)
(* about.                                                                  *)
KeepsLeases ==
    Leases!Init /\ [][Leases!Next \/ RenewsBareAlias]_(Leases!leaseVars)

(* "loop/depth guards so a hostile zone can't spin us forever"             *)
(* (resolver.py:163): every query is answered, whatever the servers send.  *)
EveryQueryAnswered ==
    \A t \in Task : stack[t] # <<>> ~> (stack[t] = <<>> /\ handled[t] # Nothing)

-----------------------------------------------------------------------------
(* What comments of the code claim and the code does not do.               *)

(* cache.py:8: "you may reuse this answer for up to N seconds", from the  *)
(* moment the alias was received.  An alias ages while its target is       *)
(* looked up, and the cache starts its lifetime anew when the whole chain  *)
(* is put; in front of a negative answer it even lives as long as the SOA. *)
AliasesReusedInTime ==
    \A k \in Key : IsLive(k) =>
        \A r \in Range(store[k].answers) : r.rtype = "CNAME" => r.until > now

(* resolver.py:245: "NOERROR but no answer and no referral = NODATA".  The *)
(* code does not look at the response code any more at that point.         *)
NoDataOnlyIfAServerSaidSo ==
    \A t \in Task : handled[t] # Nothing /\ question[t] # Nothing =>
        (handled[t].rcode = "NOERROR" /\ handled[t].answers = <<>> =>
            \E m \in Replies[question[t]] : m.rcode = "NOERROR")

=============================================================================
