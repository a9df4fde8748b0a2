----------------------------- MODULE Dashboard ------------------------------
(***************************************************************************)
(* The live dashboard: the aggregates and the event bus of                 *)
(* dns_server/stats.py, the stream of dns_server/webserver.py and the      *)
(* script of web/static/index.html.                                        *)
(*                                                                         *)
(* A page first fetches a snapshot (init) and then opens an event stream   *)
(* (connect), on which the browser's EventSource reconnects for ever.  For *)
(* every stream the server runs a coroutine, _stream_events, which owns a  *)
(* bounded queue of the event bus; `phase' is the await it is at.  Only    *)
(* the query events travel on a wire: headers and comments carry nothing   *)
(* the page uses.  The server may be restarted: its statistics start from  *)
(* nothing, while open pages live on and reconnect.                        *)
(*                                                                         *)
(* Every five seconds a page fetches another snapshot, for its top lists;  *)
(* such fetches may overlap.  A list holds all names: there are not more   *)
(* than the ten of most_common.                                            *)
(*                                                                         *)
(* Left out: the size of the cache, latencies, and what a row shows of an  *)
(* event.                                                                  *)
(***************************************************************************)
EXTENDS Integers, SequencesExt

CONSTANTS
    Page,         \* browser tabs
    Conn,         \* connections for streams
    Name,         \* names queried (finitely many, of 255 octets at most)
    Kind,         \* what becomes of a query
    QueueSize,    \* maxsize of a subscriber's queue (100)
    HighWater,    \* events a wire holds before drain() blocks
    Ring,         \* Stats.recent keeps this many events (500)
    Shown,        \* and a snapshot shows the last so many of them (50)
    LogSize,      \* rows the page keeps (200)
    NoLink,       \* the page has no stream
    NoReply,      \* the page has no snapshot under way
    MaxFetches,   \* bound: how many refreshes of a page overlap
    MaxEvents,    \* bound: how many queries are processed
    MaxRestarts   \* bound: how often the server is restarted

(* `serial' numbers the events over all lives of the server; the code has  *)
(* no such number, only properties read it.                                *)
Event == [serial : Nat, name : Name, kind : Kind]

Counts == [total : Nat, blocked : Nat, cache_hits : Nat]

TopLists == [domains : [Name -> Nat], blocked : [Name -> Nat]]

Snapshots == [counts : Counts, recent : Seq(Event), lists : TopLists]

ASSUME DashboardConstants ==
    /\ QueueSize \in Nat \ {0} /\ HighWater \in Nat \ {0}
    /\ Ring \in Nat \ {0} /\ Shown \in Nat \ {0} /\ LogSize \in Nat \ {0}
    /\ Shown <= LogSize
    /\ IsFiniteSet(Name) /\ Kind \subseteq {"blocked", "hit", "resolved"}
    /\ NoLink \notin Conn /\ NoReply \notin Snapshots
    /\ MaxFetches \in Nat /\ MaxEvents \in Nat /\ MaxRestarts \in Nat

VARIABLES
    tally,          \* Stats.total, .blocked, .cache_hits
    domain_counts,  \* Stats.domain_counts
    blocked_counts, \* Stats.blocked_counts
    recent,         \* Stats.recent
    subscribers,    \* Stats._subscribers: the connections that own a queue
    queue,          \* queue[c]: the queue of connection c
    phase,          \* phase[c]: where the coroutine of c is
    peer,           \* peer[c]: the browser's end of c
    wire,           \* wire[c]: events sent on c and not yet received
    page,           \* page[p]: how far the script of p is
    reply,          \* reply[p]: the snapshot on its way to p
    link,           \* link[p]: the connection of p's EventSource
    counts,         \* counts[p]: the script's running counts
    rows,           \* rows[p]: the rows of the log, newest first
    lists,          \* lists[p]: the top lists it shows
    fetches,        \* fetches[p]: the lists in refreshes on their way to p
    processed,      \* HISTORY: queries processed in all lives of the server
    restarts        \* how often the server was restarted

statsVars == <<tally, domain_counts, blocked_counts, recent, processed>>

streamVars == <<subscribers, queue, phase, peer, wire>>

pageVars == <<page, reply, link, counts, rows, lists, fetches>>

panelVars == <<lists, fetches>>

vars == <<tally, domain_counts, blocked_counts, recent, processed, subscribers,
          queue, phase, peer, wire, page, reply, link, counts, rows, lists, fetches,
          restarts>>

Zero == [total |-> 0, blocked |-> 0, cache_hits |-> 0]

None == [n \in Name |-> 0]

Empty == [c \in Conn |-> <<>>]

NoLists == [domains |-> None, blocked |-> None]

Lists == [domains |-> domain_counts, blocked |-> blocked_counts]

Init ==
    /\ tally = Zero /\ domain_counts = None /\ blocked_counts = None
    /\ recent = <<>>
    /\ subscribers = {} /\ queue = Empty /\ wire = Empty
    /\ phase = [c \in Conn |-> "free"]
    /\ peer = [c \in Conn |-> "none"]
    /\ page = [p \in Page |-> "closed"]
    /\ reply = [p \in Page |-> NoReply]
    /\ link = [p \in Page |-> NoLink]
    /\ counts = [p \in Page |-> Zero]
    /\ rows = [p \in Page |-> <<>>]
    /\ lists = [p \in Page |-> NoLists]
    /\ fetches = [p \in Page |-> {}]
    /\ processed = 0
    /\ restarts = 0

-----------------------------------------------------------------------------
(* The statistics.                                                         *)

Count(c, kind) ==
    [total      |-> c.total + 1,
     blocked    |-> c.blocked + (IF kind = "blocked" THEN 1 ELSE 0),
     cache_hits |-> c.cache_hits + (IF kind = "hit" THEN 1 ELSE 0)]

LastN(s, n) == IF Len(s) <= n THEN s ELSE SubSeq(s, Len(s) - n + 1, Len(s))

(* Mutant of Publish: the queue is not bounded.                            *)
PublishAlways(e) ==
    queue' = [c \in Conn |->
                 IF c \in subscribers THEN Append(queue[c], e) ELSE queue[c]]

(* Mutant of Publish: a full queue drops its oldest event instead.         *)
PublishDropOldest(e) ==
    queue' = [c \in Conn |->
                 IF c \notin subscribers THEN queue[c]
                 ELSE IF Len(queue[c]) < QueueSize THEN Append(queue[c], e)
                 ELSE Append(Tail(queue[c]), e)]

(* A full queue drops the event, every other subscriber gets it.           *)
Publish(e) ==
    queue' = [c \in Conn |->
                 IF c \in subscribers /\ Len(queue[c]) < QueueSize
                 THEN Append(queue[c], e) ELSE queue[c]]

(* Mutant of OnEvent: a blocked name is counted in both lists.             *)
OnEventBothLists(name, kind) ==
    LET e == [serial |-> processed + 1, name |-> name, kind |-> kind]
    IN  /\ processed < MaxEvents
        /\ processed' = processed + 1
        /\ tally' = Count(tally, kind)
        /\ IF kind = "blocked"
           THEN blocked_counts' = [blocked_counts EXCEPT ![name] = @ + 1]
           ELSE UNCHANGED blocked_counts
        /\ domain_counts' = [domain_counts EXCEPT ![name] = @ + 1]
        /\ recent' = LastN(Append(recent, e), Ring)
        /\ Publish(e)
        /\ UNCHANGED <<subscribers, phase, peer, wire, pageVars, restarts>>

OnEvent(name, kind) ==
    LET e == [serial |-> processed + 1, name |-> name, kind |-> kind]
    IN  /\ processed < MaxEvents
        /\ processed' = processed + 1
        /\ tally' = Count(tally, kind)
        /\ IF kind = "blocked"
           THEN /\ blocked_counts' = [blocked_counts EXCEPT ![name] = @ + 1]
                /\ UNCHANGED domain_counts
           ELSE /\ domain_counts' = [domain_counts EXCEPT ![name] = @ + 1]
                /\ UNCHANGED blocked_counts
        /\ recent' = LastN(Append(recent, e), Ring)
        /\ Publish(e)
        /\ UNCHANGED <<subscribers, phase, peer, wire, pageVars, restarts>>

(* Mutant of Snapshot: the recent events in the order they happened.       *)
SnapshotOldestFirst ==
    [counts |-> tally, recent |-> LastN(recent, Shown), lists |-> Lists]

(* Newest first.                                                           *)
Snapshot ==
    [counts |-> tally, recent |-> Reverse(LastN(recent, Shown)), lists |-> Lists]

-----------------------------------------------------------------------------
(* The server's end of a stream.  drain() awaits only while the wire is    *)
(* full, so between two awaits the coroutine does the following.           *)

(* Headers, subscription, greeting: it waits for an event or the timeout.  *)
Subscribe(c) ==
    /\ phase[c] = "opening" /\ peer[c] # "reset"
    /\ phase' = [phase EXCEPT ![c] = "waiting"]
    /\ subscribers' = subscribers \cup {c}
    /\ queue' = [queue EXCEPT ![c] = <<>>]
    /\ UNCHANGED <<statsVars, peer, wire, pageVars, restarts>>

(* What is written to a peer that is gone is lost.                         *)
Send(c) ==
    /\ phase[c] = "waiting" /\ peer[c] # "reset" /\ queue[c] # <<>>
    /\ queue' = [queue EXCEPT ![c] = Tail(@)]
    /\ wire' = IF peer[c] = "open"
               THEN [wire EXCEPT ![c] = Append(@, Head(queue[c]))] ELSE wire
    /\ phase' = [phase EXCEPT ![c] =
                    IF Len(wire'[c]) < HighWater THEN "waiting" ELSE "draining"]
    /\ UNCHANGED <<statsVars, subscribers, peer, pageVars, restarts>>

(* The wire has room again, or nobody reads it any more.                   *)
Drained(c) ==
    /\ phase[c] = "draining" /\ peer[c] # "reset" /\ Len(wire[c]) < HighWater
    /\ phase' = [phase EXCEPT ![c] = "waiting"]
    /\ UNCHANGED <<statsVars, subscribers, queue, peer, wire, pageVars, restarts>>

(* Mutant of Raise: without the time-out a waiting stream never writes, so *)
(* it does not notice.                                                     *)
RaiseOnTraffic(c) ==
    /\ phase[c] # "free" /\ peer[c] = "reset"
    /\ phase[c] = "waiting" => queue[c] # <<>>
    /\ phase' = [phase EXCEPT ![c] = "free"]
    /\ peer' = [peer EXCEPT ![c] = "none"]
    /\ subscribers' = subscribers \ {c}
    /\ queue' = [queue EXCEPT ![c] = <<>>]
    /\ UNCHANGED <<statsVars, wire, pageVars, restarts>>

(* Mutant of Raise: without the finally clause the queue stays on the bus. *)
RaiseSubscribed(c) ==
    /\ phase[c] # "free" /\ peer[c] = "reset"
    /\ phase' = [phase EXCEPT ![c] = "free"]
    /\ peer' = [peer EXCEPT ![c] = "none"]
    /\ UNCHANGED <<statsVars, subscribers, queue, wire, pageVars, restarts>>

(* drain() raises: at once where it is blocked or on the next event, else  *)
(* on the keep-alive the coroutine writes after fifteen seconds (which has *)
(* no other effect).  The finally clause unsubscribes, _handle closes.     *)
Raise(c) ==
    /\ phase[c] # "free" /\ peer[c] = "reset"
    /\ phase' = [phase EXCEPT ![c] = "free"]
    /\ peer' = [peer EXCEPT ![c] = "none"]
    /\ subscribers' = subscribers \ {c}
    /\ queue' = [queue EXCEPT ![c] = <<>>]
    /\ UNCHANGED <<statsVars, wire, pageVars, restarts>>

(* TCP finds out that the peer is gone.                                    *)
Reset(c) ==
    /\ peer[c] = "gone"
    /\ peer' = [peer EXCEPT ![c] = "reset"]
    /\ UNCHANGED <<statsVars, subscribers, queue, phase, wire, pageVars, restarts>>

-----------------------------------------------------------------------------
(* The page.                                                               *)

Open(p) ==
    /\ page[p] = "closed"
    /\ page' = [page EXCEPT ![p] = "loading"]
    /\ UNCHANGED <<statsVars, streamVars, reply, link, counts, rows, panelVars, restarts>>

(* GET /api/stats                                                          *)
Serve(p) ==
    /\ page[p] = "loading" /\ reply[p] = NoReply
    /\ reply' = [reply EXCEPT ![p] = Snapshot]
    /\ UNCHANGED <<statsVars, streamVars, page, link, counts, rows, panelVars, restarts>>

(* fetch() rejects: init does too, and connect is never called.            *)
FetchFails(p) ==
    /\ page[p] = "loading"
    /\ page' = [page EXCEPT ![p] = "failed"]
    /\ reply' = [reply EXCEPT ![p] = NoReply]
    /\ UNCHANGED <<statsVars, streamVars, link, counts, rows, panelVars, restarts>>

(* init(), up to its return.                                               *)
Load(p) ==
    /\ page[p] = "loading" /\ reply[p] # NoReply
    /\ page' = [page EXCEPT ![p] = "live"]
    /\ counts' = [counts EXCEPT ![p] = reply[p].counts]
    /\ rows' = [rows EXCEPT ![p] = reply[p].recent]
    /\ lists' = [lists EXCEPT ![p] = reply[p].lists]
    /\ reply' = [reply EXCEPT ![p] = NoReply]
    /\ UNCHANGED <<statsVars, streamVars, link, fetches, restarts>>

(* Mutant of Connect: init(); connect() instead of init().then(connect).   *)
ConnectAtOnce(p, c) ==
    /\ page[p] \in {"loading", "live"} /\ link[p] = NoLink
    /\ phase[c] = "free"
    /\ link' = [link EXCEPT ![p] = c]
    /\ phase' = [phase EXCEPT ![c] = "opening"]
    /\ peer' = [peer EXCEPT ![c] = "open"]
    /\ UNCHANGED <<statsVars, subscribers, queue, wire, page, reply, counts, rows,
                   panelVars, restarts>>

(* new EventSource, and every reconnect.                                   *)
Connect(p, c) ==
    /\ page[p] = "live" /\ link[p] = NoLink
    /\ phase[c] = "free"
    /\ link' = [link EXCEPT ![p] = c]
    /\ phase' = [phase EXCEPT ![c] = "opening"]
    /\ peer' = [peer EXCEPT ![c] = "open"]
    /\ UNCHANGED <<statsVars, subscribers, queue, wire, page, reply, counts, rows,
                   panelVars, restarts>>

(* The new row on top, the lowest gone if there are too many.              *)
AddRow(log, e) ==
    SubSeq(<<e>> \o log, 1, IF Len(log) < LogSize THEN Len(log) + 1 ELSE LogSize)

(* onmessage                                                               *)
Receive(p) ==
    /\ link[p] # NoLink /\ wire[link[p]] # <<>>
    /\ LET c == link[p]
           e == Head(wire[c])
       IN  /\ counts' = [counts EXCEPT ![p] = Count(@, e.kind)]
           /\ rows' = [rows EXCEPT ![p] = AddRow(@, e)]
           /\ wire' = [wire EXCEPT ![c] = Tail(@)]
    /\ UNCHANGED <<statsVars, subscribers, queue, phase, peer, page, reply, link,
                   panelVars, restarts>>

(* The connection of p, if it has one, is gone with all that is on it.     *)
Hangup(p) ==
    /\ link' = [link EXCEPT ![p] = NoLink]
    /\ peer' = [c \in Conn |-> IF c = link[p] THEN "gone" ELSE peer[c]]
    /\ wire' = [c \in Conn |-> IF c = link[p] THEN <<>> ELSE wire[c]]

(* onerror: the stream breaks; EventSource will connect again.             *)
Break(p) ==
    /\ link[p] # NoLink
    /\ Hangup(p)
    /\ UNCHANGED <<statsVars, subscribers, queue, phase, page, reply, counts, rows,
                   panelVars, restarts>>

(* Mutant of Refresh: the timer lives no longer than the stream.           *)
RefreshConnected(p) ==
    /\ page[p] = "live" /\ link[p] # NoLink /\ Cardinality(fetches[p]) < MaxFetches
    /\ fetches' = [fetches EXCEPT ![p] = @ \cup {Lists}]
    /\ UNCHANGED <<statsVars, streamVars, page, reply, link, counts, rows, lists,
                   restarts>>

(* GET /api/stats, every five seconds, whatever became of the last one.    *)
(* Two replies that say the same are one.                                  *)
Refresh(p) ==
    /\ page[p] = "live" /\ Cardinality(fetches[p]) < MaxFetches
    /\ fetches' = [fetches EXCEPT ![p] = @ \cup {Lists}]
    /\ UNCHANGED <<statsVars, streamVars, page, reply, link, counts, rows, lists,
                   restarts>>

(* Each fetch has a connection of its own: the replies come in any order.  *)
Refreshed(p) ==
    \E f \in fetches[p] :
        /\ lists' = [lists EXCEPT ![p] = f]
        /\ fetches' = [fetches EXCEPT ![p] = @ \ {f}]
        /\ UNCHANGED <<statsVars, streamVars, page, reply, link, counts, rows, restarts>>

(* fetch() rejects, and the error is ignored.                              *)
RefreshFails(p) ==
    \E f \in fetches[p] :
        /\ fetches' = [fetches EXCEPT ![p] = @ \ {f}]
        /\ UNCHANGED <<statsVars, streamVars, page, reply, link, counts, rows, lists,
                       restarts>>

Close(p) ==
    /\ page[p] # "closed"
    /\ Hangup(p)
    /\ page' = [page EXCEPT ![p] = "closed"]
    /\ reply' = [reply EXCEPT ![p] = NoReply]
    /\ counts' = [counts EXCEPT ![p] = Zero]
    /\ rows' = [rows EXCEPT ![p] = <<>>]
    /\ lists' = [lists EXCEPT ![p] = NoLists]
    /\ fetches' = [fetches EXCEPT ![p] = {}]
    /\ UNCHANGED <<statsVars, subscribers, queue, phase, restarts>>

-----------------------------------------------------------------------------
(* The process ends and is started again: all its connections break.       *)
Restart ==
    /\ restarts < MaxRestarts
    /\ restarts' = restarts + 1
    /\ tally' = Zero /\ domain_counts' = None /\ blocked_counts' = None
    /\ recent' = <<>>
    /\ subscribers' = {} /\ queue' = Empty /\ wire' = Empty
    /\ phase' = [c \in Conn |-> "free"]
    /\ peer' = [c \in Conn |-> "none"]
    /\ link' = [p \in Page |-> NoLink]
    /\ UNCHANGED <<processed, page, reply, counts, rows, panelVars>>

Stream(c) ==
    Subscribe(c) \/ Send(c) \/ Drained(c) \/ Raise(c)

Browse(p) ==
    \/ Open(p) \/ Serve(p) \/ FetchFails(p) \/ Load(p)
    \/ \E c \in Conn : Connect(p, c)
    \/ Receive(p) \/ Break(p) \/ Close(p)
    \/ Refresh(p) \/ Refreshed(p) \/ RefreshFails(p)

Next ==
    \/ \E n \in Name, k \in Kind : OnEvent(n, k)
    \/ \E c \in Conn : Stream(c) \/ Reset(c)
    \/ \E p \in Page : Browse(p)
    \/ Restart

Spec == Init /\ [][Next]_vars

(* asyncio runs every coroutine that is ready, the timeout of wait_for     *)
(* makes a waiting one ready; TCP answers what is written to a dead peer;  *)
(* browsers read the streams of their pages and run their timers, and a    *)
(* page that asks again and again is answered now and then.                *)
FairSpec ==
    /\ Spec
    /\ \A c \in Conn : WF_vars(Stream(c)) /\ WF_vars(Reset(c))
    /\ \A p \in Page : WF_vars(Receive(p)) /\ WF_vars(Refresh(p)) /\ SF_vars(Refreshed(p))

-----------------------------------------------------------------------------
TypeOK ==
    /\ tally \in Counts /\ processed \in Nat
    /\ domain_counts \in [Name -> Nat] /\ blocked_counts \in [Name -> Nat]
    /\ recent \in Seq(Event) /\ Len(recent) <= Ring
    /\ subscribers \subseteq Conn
    /\ queue \in [Conn -> Seq(Event)]
    /\ \A c \in Conn : Len(queue[c]) <= QueueSize
    /\ phase \in [Conn -> {"free", "opening", "waiting", "draining"}]
    /\ peer \in [Conn -> {"none", "open", "gone", "reset"}]
    /\ wire \in [Conn -> Seq(Event)]
    /\ page \in [Page -> {"closed", "loading", "failed", "live"}]
    /\ reply \in [Page -> Snapshots \cup {NoReply}]
    /\ \A p \in Page : reply[p] # NoReply => Len(reply[p].recent) <= Shown
    /\ link \in [Page -> Conn \cup {NoLink}]
    /\ counts \in [Page -> Counts]
    /\ rows \in [Page -> Seq(Event)]
    /\ \A p \in Page : Len(rows[p]) <= LogSize
    /\ lists \in [Page -> TopLists]
    /\ fetches \in [Page -> SUBSET TopLists]
    /\ restarts \in Nat

(* Snapshot and stream do not overlap: whatever the order of fetches,      *)
(* reconnects and restarts, a page never counts a query twice, so what it  *)
(* counted and what is still on its way to it is never more than what the  *)
(* server has processed ("init().then(connect)", index.html:186).          *)
CountsNeverAhead ==
    \A p \in Page :
        LET pending == IF link[p] = NoLink THEN 0
                       ELSE Len(wire[link[p]]) + Len(queue[link[p]])
        IN  counts[p].total + pending <= processed

(* The log shows every query at most once and the newest on top, although  *)
(* it is put together from a snapshot and from several streams.            *)
RowsInOrder ==
    \A p \in Page : \A i, j \in 1 .. Len(rows[p]) :
        i < j => rows[p][i].serial > rows[p][j].serial

(* The event bus holds a queue for every stream that is being served and   *)
(* for no other: no queue is leaked by a connection that ended, and no two *)
(* pages share one.                                                        *)
QueuesBelongToStreams ==
    /\ subscribers = {c \in Conn : phase[c] \in {"waiting", "draining"}}
    /\ \A c \in Conn : phase[c] = "free" => queue[c] = <<>> /\ wire[c] = <<>>
    /\ \A p, q \in Page : p # q /\ link[p] # NoLink => link[p] # link[q]

(* sum(counter.values()) of a counter of names.                            *)
SumOf(counter) == FoldSet(LAMBDA n, s : counter[n] + s, 0, Name)

(* The top lists account for every query that was counted: the two lists   *)
(* the page shows are parts of the total it shows.                         *)
TalliesAgree ==
    /\ SumOf(blocked_counts) = tally.blocked
    /\ SumOf(domain_counts) = tally.total - tally.blocked
    /\ tally.cache_hits <= SumOf(domain_counts)
    /\ recent # <<>> => Last(recent).serial = processed

(* "this also lets us notice a dead connection" (webserver.py:107): a      *)
(* stream whose browser is gone is taken off the bus, traffic or not.      *)
DeadSubscribersLeave ==
    \A c \in Conn :
        (c \in subscribers /\ peer[c] # "open") ~> (c \notin subscribers)

(* What was put into the queue of a page is shown by it, unless its        *)
(* connection breaks first.                                                *)
QueuedIsShown ==
    \A p \in Page, s \in 1 .. MaxEvents :
        (link[p] # NoLink /\ \E i \in DOMAIN queue[link[p]] : queue[link[p]][i].serial = s)
            ~> (link[p] = NoLink \/ \E i \in DOMAIN rows[p] : rows[p][i].serial = s)

(* "Periodically refresh the aggregate panels" (index.html:174): although  *)
(* refreshes overlap, may fail, and an old reply may replace the lists of  *)
(* a newer one, a page that stays open shows the lists of the server in    *)
(* the end, once no more queries come, with its stream or without it.      *)
ListsSettle ==
    \A p \in Page : <>[](page[p] = "live") => <>[](lists[p] = Lists)

-----------------------------------------------------------------------------
(* "the live SSE stream of every query as it happens" (webserver.py:18)    *)
(* and a dashboard that "shows every query" (README.md:10): once a page    *)
(* has received all that was sent to it, it has counted every query.  The  *)
(* code fetches the snapshot before it subscribes and never again, so what *)
(* happens in between, or while it reconnects, is missing for good.        *)
SettledPageCountsAll ==
    \A p \in Page :
        (/\ link[p] # NoLink
         /\ phase[link[p]] = "waiting"
         /\ queue[link[p]] = <<>> /\ wire[link[p]] = <<>>) =>
            counts[p].total = processed

=============================================================================
