------------------------------- MODULE Server -------------------------------
(***************************************************************************)
(* DNSServer (dns_server/server.py): a task for every datagram, a loop of  *)
(* reads and writes for every TCP connection, and process() in both.  The  *)
(* resolver is any coroutine: it may return what it likes whenever it      *)
(* likes, and may raise.                                                   *)
(*                                                                         *)
(* A query is known by its serial number; its `form' says whether it is    *)
(*   "fine"        parsed, and its question can be written again;          *)
(*   "garbage"     refused by Message.parse;                               *)
(*   "unwritable"  parsed, but its question, which every response copies,  *)
(*                 is refused by Writer.write_name (a label with a byte    *)
(*                 outside ASCII).                                         *)
(* Message lengths matter only where they are compared: with 512 bytes on  *)
(* UDP, and with the two-byte length prefix on TCP.  The listeners open    *)
(* one after the other.                                                    *)
(***************************************************************************)
EXTENDS Naturals, Sequences, FiniteSets

CONSTANTS
    Conn,        \* TCP connections
    HighWater,   \* responses a writer buffers before drain() awaits
    MaxQueries,  \* bound: how many queries arrive, on all transports
    Nothing      \* no query

Form == {"fine", "garbage", "unwritable"}

Query == [serial : 1 .. MaxQueries, form : Form]

(* What comes of a query: a response, SERVFAIL if the resolver raised; one *)
(* longer than UDP_MAX_LEGACY; one too long for a TCP message as well; one *)
(* that cannot be written (a record with such a name).                     *)
Outcome == {"fits", "long", "huge", "unwritable"}

ASSUME ServerConstants ==
    /\ HighWater \in Nat \ {0} /\ MaxQueries \in Nat
    /\ Nothing \notin Query

VARIABLES
    listening,  \* which listeners start() has opened
    asked,      \* how many queries have arrived
    tasks,      \* the datagrams being handled
    datagrams,  \* the datagrams sent: [serial, tc] records
    failures,   \* HISTORY: the datagrams whose resolver came to no answer: it
                \* raised, or its answer is the question with SERVFAIL
    link,       \* link[c]: "new", "open", "reset" by the client, or ended by
                \* the server: "closed" after EOF, "failed" after an exception
    ended,      \* ended[c]: the client has shut its writing side
    inbox,      \* inbox[c]: what the server has not read yet
    current,    \* current[c]: the query being resolved, or Nothing
    outbox,     \* outbox[c]: what the client has not read yet
    draining,   \* draining[c]: _handle_tcp awaits drain()
    counted,    \* how often on_event was called
    parsed,     \* HISTORY: the queries Message.parse has accepted
    taken,      \* HISTORY taken[c]: the parsed queries read from c, in order
    written     \* HISTORY written[c]: the responses written to c, in order

udpVars == <<tasks, datagrams, failures>>

tcpVars == <<link, ended, inbox, current, outbox, draining, taken, written>>

vars == <<listening, asked, tasks, datagrams, failures, link, ended, inbox, current, outbox,
          draining, counted, parsed, taken, written>>

Init ==
    /\ listening = {} /\ asked = 0 /\ counted = 0 /\ parsed = {}
    /\ tasks = {} /\ datagrams = {} /\ failures = {}
    /\ link = [c \in Conn |-> "new"]
    /\ ended = [c \in Conn |-> FALSE]
    /\ current = [c \in Conn |-> Nothing]
    /\ draining = [c \in Conn |-> FALSE]
    /\ inbox = [c \in Conn |-> <<>>] /\ outbox = [c \in Conn |-> <<>>]
    /\ taken = [c \in Conn |-> <<>>] /\ written = [c \in Conn |-> <<>>]

-----------------------------------------------------------------------------
(* start(): there are datagrams before there are connections.              *)
Start ==
    /\ "tcp" \notin listening
    /\ listening' = IF listening = {} THEN {"udp"} ELSE {"udp", "tcp"}
    /\ UNCHANGED <<asked, counted, parsed>>
    /\ UNCHANGED udpVars
    /\ UNCHANGED tcpVars

-----------------------------------------------------------------------------
(* process(), once the resolver is done.                                   *)

(* to_bytes() raises, outside the try block.                      *)
Unwritable(q, outcome) == q.form = "unwritable" \/ outcome = "unwritable"

(* A response too long is cut down to the questions, and says so; it has   *)
(* been written before.                                                    *)
Datagrams(q, outcome) ==
    IF Unwritable(q, outcome) THEN {}
    ELSE {[serial |-> q.serial, tc |-> outcome \in {"long", "huge"}]}

(* Mutant of Report: the event is published after the response is written. *)
ReportIfWritten(q, outcome) ==
    counted' = IF Unwritable(q, outcome) THEN counted ELSE counted + 1

(* The resolver has failed or not; SERVFAIL carries no record, so that all *)
(* that can be unwritable in it is the question.                           *)
Fail(q, outcome) ==
    \/ UNCHANGED failures
    \/ outcome # "unwritable" /\ failures' = failures \cup {q}

(* on_event is called for every query, whatever comes of its response.     *)
Report(q, outcome) == counted' = counted + 1

-----------------------------------------------------------------------------
(* UDP.                                                                    *)

Ask ==
    /\ asked < MaxQueries
    /\ asked' = asked + 1

New(form) == [serial |-> asked + 1, form |-> form]

(* Garbage is dropped in the first step of its task.                       *)
DatagramReceived(form) ==
    /\ "udp" \in listening
    /\ Ask
    /\ LET accepted == IF form = "garbage" THEN {} ELSE {New(form)}
       IN  /\ tasks' = tasks \cup accepted
           /\ parsed' = parsed \cup accepted
    /\ UNCHANGED <<listening, datagrams, failures, counted>>
    /\ UNCHANGED tcpVars

(* Mutant of UdpDone: datagrams are handled one after the other.           *)
UdpDoneInTurn(q, outcome) ==
    /\ q \in tasks /\ \A r \in tasks : q.serial <= r.serial
    /\ tasks' = tasks \ {q}
    /\ Report(q, outcome)
    /\ Fail(q, outcome)
    /\ datagrams' = datagrams \cup Datagrams(q, outcome)
    /\ UNCHANGED <<listening, asked, parsed>>
    /\ UNCHANGED tcpVars

UdpDone(q, outcome) ==
    /\ q \in tasks
    /\ tasks' = tasks \ {q}
    /\ Report(q, outcome)
    /\ Fail(q, outcome)
    /\ datagrams' = datagrams \cup Datagrams(q, outcome)
    /\ UNCHANGED <<listening, asked, parsed>>
    /\ UNCHANGED tcpVars

-----------------------------------------------------------------------------
(* The client's end of a TCP connection.                                   *)

Connect(c) ==
    /\ link[c] = "new" /\ "tcp" \in listening
    /\ link' = [link EXCEPT ![c] = "open"]
    /\ UNCHANGED <<listening, asked, counted, parsed, ended, inbox, current,
                   outbox, draining, taken, written>>
    /\ UNCHANGED udpVars

Send(c, form) ==
    /\ link[c] = "open" /\ ~ended[c]
    /\ Ask
    /\ inbox' = [inbox EXCEPT ![c] = Append(@, New(form))]
    /\ UNCHANGED <<listening, counted, parsed, link, ended, current, outbox,
                   draining, taken, written>>
    /\ UNCHANGED udpVars

Collect(c) ==
    /\ link[c] # "reset" /\ outbox[c] # <<>>
    /\ outbox' = [outbox EXCEPT ![c] = Tail(@)]
    /\ UNCHANGED <<listening, asked, counted, parsed, link, ended, inbox,
                   current, draining, taken, written>>
    /\ UNCHANGED udpVars

(* It stops writing, perhaps in the middle of a message, and still reads.  *)
Finish(c) ==
    /\ link[c] = "open" /\ ~ended[c]
    /\ ended' = [ended EXCEPT ![c] = TRUE]
    /\ UNCHANGED <<listening, asked, counted, parsed, link, inbox, current,
                   outbox, draining, taken, written>>
    /\ UNCHANGED udpVars

(* It is gone: nothing unread on either side is read any more.             *)
Reset(c) ==
    /\ link[c] = "open"
    /\ link' = [link EXCEPT ![c] = "reset"]
    /\ inbox' = [inbox EXCEPT ![c] = <<>>]
    /\ outbox' = [outbox EXCEPT ![c] = <<>>]
    /\ UNCHANGED <<listening, asked, counted, parsed, ended, current,
                   draining, taken, written>>
    /\ UNCHANGED udpVars

-----------------------------------------------------------------------------
(* _handle_tcp.                                                            *)

Reading(c) == current[c] = Nothing /\ ~draining[c]

(* Mutant of Ready: the next query is read while one is being resolved.    *)
ReadyAhead(c) == link[c] = "open" /\ ~draining[c] /\ inbox[c] # <<>>

Ready(c) == link[c] = "open" /\ Reading(c) /\ inbox[c] # <<>>

Read(c) ==
    /\ Ready(c)
    /\ LET q == Head(inbox[c])
       IN  IF q.form = "garbage"
           THEN UNCHANGED <<parsed, current, taken>>
           ELSE /\ parsed' = parsed \cup {q}
                /\ current' = [current EXCEPT ![c] = q]
                /\ taken' = [taken EXCEPT ![c] = Append(@, q)]
    /\ inbox' = [inbox EXCEPT ![c] = Tail(@)]
    /\ UNCHANGED <<listening, asked, counted, link, ended, outbox, draining,
                   written>>
    /\ UNCHANGED udpVars

(* The loop is left and the writer closed.                                 *)
Leave(c, why) ==
    /\ link' = [link EXCEPT ![c] = why]
    /\ inbox' = [inbox EXCEPT ![c] = <<>>]
    /\ draining' = [draining EXCEPT ![c] = FALSE]

(* process() or to_bytes(2, "big") raises, or drain() does at once.        *)
TcpDoneLost(c, outcome) ==
    /\ \/ link[c] = "reset"
       \/ link[c] = "open" /\ (Unwritable(current[c], outcome) \/ outcome = "huge")
    /\ Leave(c, "failed")
    /\ UNCHANGED <<outbox, written>>

(* Mutant of TcpDoneWritten: drain() is not awaited.                       *)
TcpDoneUndrained(c, outcome) ==
    /\ link[c] = "open" /\ ~Unwritable(current[c], outcome) /\ outcome # "huge"
    /\ outbox' = [outbox EXCEPT ![c] = Append(@, current[c].serial)]
    /\ written' = [written EXCEPT ![c] = Append(@, current[c].serial)]
    /\ UNCHANGED <<link, inbox, draining>>

TcpDoneWritten(c, outcome) ==
    /\ link[c] = "open" /\ ~Unwritable(current[c], outcome) /\ outcome # "huge"
    /\ outbox' = [outbox EXCEPT ![c] = Append(@, current[c].serial)]
    /\ written' = [written EXCEPT ![c] = Append(@, current[c].serial)]
    /\ draining' = [draining EXCEPT ![c] = Len(outbox'[c]) >= HighWater]
    /\ UNCHANGED <<link, inbox>>

TcpDone(c, outcome) ==
    /\ current[c] # Nothing
    /\ Report(current[c], outcome)
    /\ current' = [current EXCEPT ![c] = Nothing]
    /\ TcpDoneLost(c, outcome) \/ TcpDoneWritten(c, outcome)
    /\ UNCHANGED <<listening, asked, parsed, ended, taken>>
    /\ UNCHANGED udpVars

Drained(c) ==
    /\ link[c] = "open" /\ draining[c] /\ Len(outbox[c]) < HighWater
    /\ draining' = [draining EXCEPT ![c] = FALSE]
    /\ UNCHANGED <<listening, asked, counted, parsed, link, ended, inbox,
                   current, outbox, taken, written>>
    /\ UNCHANGED udpVars

(* Mutant of AtEof: the end of the stream is looked at first.              *)
AtEofEarly(c) == link[c] = "open" /\ Reading(c) /\ ended[c]

AtEof(c) == link[c] = "open" /\ Reading(c) /\ ended[c] /\ inbox[c] = <<>>

(* readexactly() or drain() raises.                                        *)
Hangup(c) ==
    /\ \/ AtEof(c) /\ Leave(c, "closed")
       \/ link[c] = "reset" /\ current[c] = Nothing /\ Leave(c, "failed")
    /\ UNCHANGED <<listening, asked, counted, parsed, ended, current, outbox,
                   taken, written>>
    /\ UNCHANGED udpVars

HandleTcp(c) ==
    Read(c) \/ (\E outcome \in Outcome : TcpDone(c, outcome)) \/ Drained(c) \/ Hangup(c)

-----------------------------------------------------------------------------
(* All queries of the bound are done with and all connections ended.       *)
Quiesced ==
    /\ asked = MaxQueries /\ tasks = {}
    /\ \A c \in Conn : link[c] \in {"closed", "failed"} /\ outbox[c] = <<>>
    /\ UNCHANGED vars

Next ==
    \/ Start
    \/ \E form \in Form : DatagramReceived(form)
    \/ \E q \in tasks, outcome \in Outcome : UdpDone(q, outcome)
    \/ \E c \in Conn :
          \/ Connect(c) \/ Collect(c) \/ Finish(c) \/ Reset(c)
          \/ \E form \in Form : Send(c, form)
          \/ HandleTcp(c)
    \/ Quiesced

Spec == Init /\ [][Next]_vars

(* The resolver of query s comes to an end.                                *)
Resolved(s) ==
    \E q \in tasks, outcome \in Outcome : q.serial = s /\ UdpDone(q, outcome)

(* Resolvers end, except perhaps that of the first query; the event loop   *)
(* runs what is ready; clients read what they are sent.                    *)
FairSpec ==
    /\ Spec
    /\ \A s \in 2 .. MaxQueries : WF_vars(Resolved(s))
    /\ \A c \in Conn : WF_vars(HandleTcp(c)) /\ WF_vars(Collect(c))

-----------------------------------------------------------------------------
TypeOK ==
    /\ asked \in 0 .. MaxQueries /\ counted \in Nat
    /\ parsed \subseteq Query /\ tasks \subseteq parsed /\ failures \subseteq parsed
    /\ datagrams \subseteq [serial : 1 .. MaxQueries, tc : BOOLEAN]
    /\ listening \in {{}, {"udp"}, {"udp", "tcp"}}
    /\ link \in [Conn -> {"new", "open", "reset", "failed", "closed"}]
    /\ ended \in [Conn -> BOOLEAN] /\ draining \in [Conn -> BOOLEAN]
    /\ inbox \in [Conn -> Seq(Query)]
    /\ current \in [Conn -> Query \cup {Nothing}]
    /\ \A c \in Conn : current[c] # Nothing => ~draining[c] /\ link[c] \in {"open", "reset"}
    /\ outbox \in [Conn -> Seq(1 .. MaxQueries)]
    /\ \A c \in Conn : Len(outbox[c]) <= HighWater
    /\ taken \in [Conn -> Seq(Query)]
    /\ written \in [Conn -> Seq(1 .. MaxQueries)]

(* The queries of a connection are answered one after the other, each once *)
(* and in the order they were sent, skipping what cannot be parsed; only   *)
(* the last one can remain unanswered, and only if the connection broke.   *)
TcpInOrder ==
    \A c \in Conn :
        /\ Len(written[c]) <= Len(taken[c])
        /\ \A i \in DOMAIN written[c] : written[c][i] = taken[c][i].serial
        /\ Len(taken[c]) - Len(written[c]) <= 1
        /\ (current[c] = Nothing /\ link[c] \in {"open", "closed"}) =>
              Len(written[c]) = Len(taken[c])

(* on_event hears of every query that was parsed, once and as soon as the  *)
(* resolver is done with it: of those whose response cannot be written and *)
(* of those whose client is gone as well.                                  *)
EveryQueryCounted ==
    counted + Cardinality(tasks) + Cardinality({c \in Conn : current[c] # Nothing})
        = Cardinality(parsed)

(* "a slow upstream doesn't stall every other in-flight query"             *)
(* (server.py:92): datagrams are handled to the end while the first query  *)
(* may wait for ever.                                                      *)
SlowQueryStallsNoOther ==
    \A s \in 2 .. MaxQueries :
        (\E q \in tasks : q.serial = s) ~> (\A q \in tasks : q.serial # s)

(* Whatever a client sent before it shut its side down is answered, even   *)
(* if it does so at once, unless the connection breaks.                    *)
PipelinedIsAnswered ==
    \A c \in Conn, s \in 1 .. MaxQueries :
        (\E i \in DOMAIN inbox[c] : inbox[c][i].serial = s /\ inbox[c][i].form = "fine")
            ~> (\/ \E i \in DOMAIN written[c] : written[c][i] = s
                \/ link[c] \in {"reset", "failed"})

-----------------------------------------------------------------------------
(* "Any resolver failure becomes SERVFAIL rather than a dropped query, so  *)
(* the client gets a definite (if unhappy) answer" (server.py:136): every  *)
(* datagram whose resolver failed is answered.  The code writes SERVFAIL   *)
(* outside of the try block, and copies the question into it.              *)
FailureIsAnswered ==
    \A q \in failures : \E datagram \in datagrams : datagram.serial = q.serial

=============================================================================
