-------------------------- MODULE DashboardProofs --------------------------
(***************************************************************************)
(* Proofs about the dashboard (Dashboard), for any number of pages and     *)
(* connections, any sizes of queues, rings and logs, any traffic: type     *)
(* correctness, that the event bus holds no queue it should not, that no   *)
(* page ever counts more queries than were processed, that its log is in   *)
(* order, and that the counters add up.                                    *)
(***************************************************************************)
EXTENDS Dashboard, SequenceTheorems, FiniteSetTheorems, WellFoundedInduction, TLAPS

-----------------------------------------------------------------------------
(* Sequences.                                                              *)

(* The end of a sequence.                                                  *)
LEMMA LastNProperties ==
  ASSUME NEW S, NEW s \in Seq(S), NEW n \in Nat
  PROVE  /\ LastN(s, n) \in Seq(S)
         /\ Len(LastN(s, n)) <= n /\ Len(LastN(s, n)) <= Len(s)
         /\ \A i \in 1 .. Len(LastN(s, n)) :
                LastN(s, n)[i] = s[Len(s) - Len(LastN(s, n)) + i]
<1>1. CASE Len(s) <= n
  BY <1>1 DEF LastN
<1>2. CASE Len(s) > n
  <2>1. \A i \in Len(s) - n + 1 .. Len(s) : s[i] \in S
    BY <1>2, ElementOfSeq
  <2>2. LastN(s, n) = SubSeq(s, Len(s) - n + 1, Len(s))
    BY <1>2 DEF LastN
  <2> QED
    BY <1>2, <2>1, <2>2, SubSeqProperties, LenProperties
<1> QED
  BY <1>1, <1>2, LenProperties

(* A sequence read from its end.                                           *)
LEMMA ReverseProperties ==
  ASSUME NEW S, NEW s \in Seq(S)
  PROVE  /\ Reverse(s) \in Seq(S)
         /\ Len(Reverse(s)) = Len(s)
         /\ \A i \in 1 .. Len(s) : Reverse(s)[i] = s[Len(s) - i + 1]
<1>1. Len(s) \in Nat /\ \A i \in 1 .. Len(s) : s[Len(s) - i + 1] \in S
  BY LenProperties, ElementOfSeq
<1>2. Reverse(s) \in [1 .. Len(s) -> S]
  BY <1>1 DEF Reverse
<1>3. Reverse(s) \in Seq(S)
  BY <1>1, <1>2, SeqDef
<1>4. DOMAIN Reverse(s) = 1 .. Len(s)
  BY DEF Reverse
<1>5. Len(Reverse(s)) = Len(s)
  BY <1>1, <1>3, <1>4, LenProperties
<1> QED
  BY <1>3, <1>5 DEF Reverse

(* A row on top of the log.                                                *)
LEMMA AddRowProperties ==
  ASSUME NEW log \in Seq(Event), NEW e \in Event
  PROVE  /\ AddRow(log, e) \in Seq(Event)
         /\ Len(AddRow(log, e)) <= LogSize
         /\ Len(AddRow(log, e)) <= Len(log) + 1
         /\ \A i \in 1 .. Len(AddRow(log, e)) :
                AddRow(log, e)[i] = IF i = 1 THEN e ELSE log[i - 1]
<1> DEFINE all == <<e>> \o log
           size == IF Len(log) < LogSize THEN Len(log) + 1 ELSE LogSize
<1>1. /\ <<e>> \in Seq(Event) /\ Len(<<e>>) = 1 /\ <<e>>[1] = e
  OBVIOUS
<1>2. /\ all \in Seq(Event) /\ Len(all) = Len(log) + 1
      /\ \A i \in 1 .. Len(log) + 1 : all[i] = IF i <= 1 THEN <<e>>[i] ELSE log[i - 1]
  BY <1>1, ConcatProperties, LenProperties
<1>3. size \in Nat \ {0} /\ size <= LogSize /\ size <= Len(log) + 1
  BY DashboardConstants, LenProperties
<1>4. \A i \in 1 .. size : all[i] \in Event
  BY <1>2, <1>3, ElementOfSeq, LenProperties
<1>5. AddRow(log, e) = SubSeq(all, 1, size)
  BY DEF AddRow
<1> HIDE DEF all, size
<1>6. /\ SubSeq(all, 1, size) \in Seq(Event) /\ Len(SubSeq(all, 1, size)) = size
      /\ \A i \in 1 .. size : SubSeq(all, 1, size)[i] = all[i]
  <2>1. /\ SubSeq(all, 1, size) \in Seq(Event)
        /\ Len(SubSeq(all, 1, size)) = IF 1 <= size THEN size - 1 + 1 ELSE 0
        /\ \A i \in 1 .. size - 1 + 1 : SubSeq(all, 1, size)[i] = all[1 + i - 1]
    BY <1>3, <1>4, SubSeqProperties
  <2> QED
    BY <2>1, <1>3
<1>7. \A i \in 1 .. size : i \in 1 .. Len(log) + 1
  BY <1>3, LenProperties
<1>8. \A i \in 1 .. size : all[i] = IF i = 1 THEN e ELSE log[i - 1]
  BY <1>1, <1>2, <1>7, <1>3
<1> QED
  BY <1>3, <1>5, <1>6, <1>8

-----------------------------------------------------------------------------
(* Types.                                                                  *)

LEMMA CountType ==
  ASSUME NEW c \in Counts, NEW k \in Kind
  PROVE  Count(c, k) \in Counts /\ Count(c, k).total = c.total + 1
BY DEF Counts, Count

LEMMA NoListsType == NoLists \in TopLists
BY DEF NoLists, TopLists, None

LEMMA ListsType == TypeOK => Lists \in TopLists
BY DEF Lists, TopLists, TypeOK

LEMMA SnapshotType ==
  ASSUME TypeOK
  PROVE  /\ Snapshot \in Snapshots
         /\ Len(Snapshot.recent) <= Shown
<1>1. /\ LastN(recent, Shown) \in Seq(Event)
      /\ Len(LastN(recent, Shown)) <= Shown
  BY LastNProperties, DashboardConstants DEF TypeOK
<1>2. /\ Reverse(LastN(recent, Shown)) \in Seq(Event)
      /\ Len(Reverse(LastN(recent, Shown))) <= Shown
  BY <1>1, ReverseProperties
<1> QED
  BY <1>2, ListsType DEF Snapshot, Snapshots, TypeOK

(* Publishing lengthens a queue by at most one event, the new one.         *)
LEMMA PublishProperties ==
  ASSUME TypeOK, NEW e \in Event, Publish(e)
  PROVE  /\ queue' \in [Conn -> Seq(Event)]
         /\ \A c \in Conn : Len(queue'[c]) <= QueueSize
         /\ \A c \in Conn : queue'[c] = queue[c] \/
               (c \in subscribers /\ queue'[c] = Append(queue[c], e))
         /\ \A c \in Conn : Len(queue'[c]) <= Len(queue[c]) + 1
<1>1. ASSUME NEW c \in Conn
      PROVE  /\ queue[c] \in Seq(Event) /\ Len(queue[c]) \in Nat
             /\ Append(queue[c], e) \in Seq(Event)
             /\ Len(Append(queue[c], e)) = Len(queue[c]) + 1
             /\ Len(queue[c]) <= QueueSize
  BY DEF TypeOK
<1>2. ASSUME NEW c \in Conn
      PROVE  queue'[c] = IF c \in subscribers /\ Len(queue[c]) < QueueSize
                         THEN Append(queue[c], e) ELSE queue[c]
  BY DEF Publish
<1>3. ASSUME NEW c \in Conn
      PROVE  /\ queue'[c] \in Seq(Event) /\ Len(queue'[c]) <= QueueSize
             /\ Len(queue'[c]) <= Len(queue[c]) + 1
             /\ queue'[c] = queue[c] \/
                   (c \in subscribers /\ queue'[c] = Append(queue[c], e))
  <2>1. CASE c \in subscribers /\ Len(queue[c]) < QueueSize
    <3>1. queue'[c] = Append(queue[c], e)
      BY <1>2, <2>1
    <3> QED
      BY <1>1, <2>1, <3>1, DashboardConstants
  <2>2. CASE ~(c \in subscribers /\ Len(queue[c]) < QueueSize)
    <3>1. queue'[c] = queue[c]
      BY <1>2, <2>2
    <3> QED
      BY <1>1, <3>1
  <2> QED
    BY <2>1, <2>2
<1>4. queue' \in [Conn -> Seq(Event)]
  BY <1>3 DEF Publish
<1> QED
  BY <1>3, <1>4

LEMMA TypeInit == Init => TypeOK
<1> SUFFICES ASSUME Init PROVE TypeOK
  OBVIOUS
<1>1. <<>> \in Seq(Event) /\ Len(<<>>) = 0 /\ Zero \in Counts
  BY DEF Zero, Counts
<1> QED
  BY <1>1, NoListsType, DashboardConstants DEF Init, TypeOK, None, Empty

(* A refresh touches nothing but the panels of its page.                   *)
Refreshing(p) == Refresh(p) \/ Refreshed(p) \/ RefreshFails(p)

LEMMA RefreshLeaves ==
  ASSUME NEW p \in Page, Refreshing(p)
  PROVE  UNCHANGED <<statsVars, streamVars, page, reply, link, counts, rows, restarts>>
BY DEF Refreshing, Refresh, Refreshed, RefreshFails

LEMMA TypeStep == TypeOK /\ [Next]_vars => TypeOK'
<1> SUFFICES ASSUME TypeOK, [Next]_vars PROVE TypeOK'
  OBVIOUS
<1> USE DashboardConstants
<1>1. ASSUME NEW n \in Name, NEW k \in Kind, OnEvent(n, k)
      PROVE  TypeOK'
  <2> DEFINE e == [serial |-> processed + 1, name |-> n, kind |-> k]
  <2>1. e \in Event /\ processed' \in Nat
    BY <1>1 DEF Event, TypeOK, OnEvent
  <2>2. tally' \in Counts
    BY <1>1, CountType DEF OnEvent, TypeOK
  <2>3. domain_counts' \in [Name -> Nat] /\ blocked_counts' \in [Name -> Nat]
    <3>1. domain_counts \in [Name -> Nat] /\ blocked_counts \in [Name -> Nat]
      BY DEF TypeOK
    <3>2. CASE k = "blocked"
      BY <1>1, <3>1, <3>2 DEF OnEvent
    <3>3. CASE k # "blocked"
      BY <1>1, <3>1, <3>3 DEF OnEvent
    <3> QED
      BY <3>2, <3>3
  <2>4. recent' = LastN(Append(recent, e), Ring) /\ Publish(e)
    BY <1>1 DEF OnEvent
  <2>5. Append(recent, e) \in Seq(Event)
    BY <2>1 DEF TypeOK
  <2>6. recent' \in Seq(Event) /\ Len(recent') <= Ring
    BY <2>4, <2>5, LastNProperties
  <2>7. /\ queue' \in [Conn -> Seq(Event)]
        /\ \A c \in Conn : Len(queue'[c]) <= QueueSize
    BY <2>1, <2>4, PublishProperties
  <2> QED
    BY <1>1, <2>1, <2>2, <2>3, <2>6, <2>7 DEF OnEvent, TypeOK, pageVars
<1>2. ASSUME NEW c \in Conn, Subscribe(c)
      PROVE  TypeOK'
  BY <1>2 DEF Subscribe, TypeOK, pageVars, statsVars
<1>3. ASSUME NEW c \in Conn, Send(c)
      PROVE  TypeOK'
  <2>1. /\ queue[c] \in Seq(Event) /\ queue[c] # <<>>
        /\ Len(queue[c]) <= QueueSize /\ wire[c] \in Seq(Event)
    BY <1>3 DEF Send, TypeOK
  <2>2. /\ Tail(queue[c]) \in Seq(Event) /\ Len(Tail(queue[c])) <= QueueSize
        /\ Append(wire[c], Head(queue[c])) \in Seq(Event)
    BY <2>1, HeadTailProperties, LenProperties
  <2>3. /\ queue' \in [Conn -> Seq(Event)]
        /\ \A d \in Conn : Len(queue'[d]) <= QueueSize
    BY <1>3, <2>2 DEF Send, TypeOK
  <2>4. wire' \in [Conn -> Seq(Event)]
    BY <1>3, <2>2 DEF Send, TypeOK
  <2> QED
    BY <1>3, <2>3, <2>4 DEF Send, TypeOK, pageVars, statsVars
<1>4. ASSUME NEW c \in Conn, Drained(c)
      PROVE  TypeOK'
  BY <1>4 DEF Drained, TypeOK, pageVars, statsVars
<1>5. ASSUME NEW c \in Conn, Raise(c)
      PROVE  TypeOK'
  BY <1>5 DEF Raise, TypeOK, pageVars, statsVars
<1>6. ASSUME NEW c \in Conn, Reset(c)
      PROVE  TypeOK'
  BY <1>6 DEF Reset, TypeOK, pageVars, statsVars
<1>7. ASSUME NEW p \in Page, Open(p)
      PROVE  TypeOK'
  BY <1>7 DEF Open, TypeOK, streamVars, statsVars, panelVars
<1>8. ASSUME NEW p \in Page, Serve(p)
      PROVE  TypeOK'
  BY <1>8, SnapshotType DEF Serve, TypeOK, streamVars, statsVars, panelVars
<1>9. ASSUME NEW p \in Page, FetchFails(p)
      PROVE  TypeOK'
  BY <1>9 DEF FetchFails, TypeOK, streamVars, statsVars, panelVars
<1>10. ASSUME NEW p \in Page, Load(p)
      PROVE  TypeOK'
  <2>1. /\ reply[p] \in Snapshots /\ Len(reply[p].recent) <= Shown
    BY <1>10 DEF Load, TypeOK
  <2>2. /\ reply[p].counts \in Counts /\ reply[p].recent \in Seq(Event)
        /\ Len(reply[p].recent) <= LogSize /\ reply[p].lists \in TopLists
    BY <2>1, LenProperties DEF Snapshots
  <2> QED
    BY <1>10, <2>2 DEF Load, TypeOK, streamVars, statsVars
<1>11. ASSUME NEW p \in Page, NEW c \in Conn, Connect(p, c)
      PROVE  TypeOK'
  BY <1>11 DEF Connect, TypeOK, statsVars, panelVars
<1>12. ASSUME NEW p \in Page, Receive(p)
      PROVE  TypeOK'
  <2> DEFINE c == link[p]
             e == Head(wire[c])
  <2>1. c \in Conn /\ wire[c] \in Seq(Event) /\ wire[c] # <<>>
    BY <1>12 DEF Receive, TypeOK
  <2>2. e \in Event /\ Tail(wire[c]) \in Seq(Event) /\ e.kind \in Kind
    <3>1. e \in Event /\ Tail(wire[c]) \in Seq(Event)
      BY <2>1, HeadTailProperties
    <3> QED
      BY <3>1 DEF Event
  <2>3. counts[p] \in Counts /\ rows[p] \in Seq(Event)
    BY DEF TypeOK
  <2> HIDE DEF c, e
  <2>4. Count(counts[p], e.kind) \in Counts
    BY <2>2, <2>3, CountType
  <2>5. AddRow(rows[p], e) \in Seq(Event) /\ Len(AddRow(rows[p], e)) <= LogSize
    BY <2>2, <2>3, AddRowProperties
  <2>6. /\ counts' = [counts EXCEPT ![p] = Count(counts[p], e.kind)]
        /\ rows' = [rows EXCEPT ![p] = AddRow(rows[p], e)]
        /\ wire' = [wire EXCEPT ![c] = Tail(wire[c])]
    BY <1>12 DEF Receive, c, e
  <2>7. /\ counts' \in [Page -> Counts] /\ wire' \in [Conn -> Seq(Event)]
        /\ rows' \in [Page -> Seq(Event)]
        /\ \A q \in Page : Len(rows'[q]) <= LogSize
    BY <2>2, <2>4, <2>5, <2>6 DEF TypeOK
  <2> QED
    BY <1>12, <2>7 DEF Receive, TypeOK, statsVars, panelVars
<1>13. ASSUME NEW p \in Page, Break(p)
      PROVE  TypeOK'
  BY <1>13 DEF Break, Hangup, TypeOK, statsVars, panelVars
<1>14. ASSUME NEW p \in Page, Close(p)
      PROVE  TypeOK'
  <2>1. Zero \in Counts
    BY DEF Zero, Counts
  <2> QED
    BY <1>14, <2>1, NoListsType DEF Close, Hangup, TypeOK, statsVars
<1>15. CASE Restart
  <2>1. Zero \in Counts
    BY DEF Zero, Counts
  <2> QED
    BY <1>15, <2>1 DEF Restart, TypeOK, None, Empty, panelVars
<1>16. CASE UNCHANGED vars
  BY <1>16 DEF vars, TypeOK
<1>17. ASSUME NEW p \in Page, Refreshing(p)
      PROVE  TypeOK'
  <2>1. lists' \in [Page -> TopLists] /\ fetches' \in [Page -> SUBSET TopLists]
    <3>1. /\ lists \in [Page -> TopLists] /\ fetches \in [Page -> SUBSET TopLists]
          /\ Lists \in TopLists
      BY ListsType DEF TypeOK
    <3>2. CASE Refresh(p)
      BY <3>1, <3>2 DEF Refresh
    <3>3. CASE Refreshed(p)
      BY <3>1, <3>3 DEF Refreshed
    <3>4. CASE RefreshFails(p)
      BY <3>1, <3>4 DEF RefreshFails
    <3> QED
      BY <1>17, <3>2, <3>3, <3>4 DEF Refreshing
  <2> QED
    BY <1>17, <2>1, RefreshLeaves DEF TypeOK, statsVars, streamVars
<1> QED
  BY <1>1, <1>2, <1>3, <1>4, <1>5, <1>6, <1>7, <1>8, <1>9, <1>10, <1>11, <1>12,
     <1>13, <1>14, <1>15, <1>16, <1>17 DEF Next, Stream, Browse, Refreshing

(* The dashboard stays well typed: no queue outgrows its bound, no log its *)
(* 200 rows, whatever pages and connections do.                            *)
THEOREM TypeCorrect == Spec => []TypeOK
BY TypeInit, TypeStep, PTL DEF Spec

-----------------------------------------------------------------------------
(* Streams.                                                                *)

(* The state of a connection fits the coroutine that serves it: it is on   *)
(* the bus once it waits, nothing is queued for it before, nothing is on   *)
(* the wire to a browser that is gone, and a page is linked to an open     *)
(* connection of its own.                                                  *)
Linked ==
    /\ subscribers = {c \in Conn : phase[c] \in {"waiting", "draining"}}
    /\ \A c \in Conn : phase[c] \in {"free", "opening"} => queue[c] = <<>>
    /\ \A c \in Conn : phase[c] = "free" <=> peer[c] = "none"
    /\ \A c \in Conn : peer[c] # "open" => wire[c] = <<>>
    /\ \A p \in Page : link[p] # NoLink => peer[link[p]] = "open"
    /\ \A p \in Page : page[p] # "live" => link[p] = NoLink
    /\ \A p, q \in Page : p # q /\ link[p] # NoLink => link[p] # link[q]

LEMMA LinkedInit == Init => Linked
BY DashboardConstants DEF Init, Linked, Empty

LEMMA LinkedStep == TypeOK /\ Linked /\ [Next]_vars => Linked'
<1> SUFFICES ASSUME TypeOK, Linked, [Next]_vars PROVE Linked'
  OBVIOUS
<1> USE DashboardConstants
<1>1. ASSUME NEW n \in Name, NEW k \in Kind, OnEvent(n, k)
      PROVE  Linked'
  <2>1. \A c \in Conn : c \notin subscribers => queue'[c] = queue[c]
    BY <1>1 DEF OnEvent, Publish
  <2> QED
    BY <1>1, <2>1 DEF OnEvent, Linked, pageVars
<1>2. ASSUME NEW c \in Conn, Subscribe(c)
      PROVE  Linked'
  BY <1>2 DEF Subscribe, Linked, TypeOK, pageVars, statsVars
<1>3. ASSUME NEW c \in Conn, Send(c)
      PROVE  Linked'
  <2>1. /\ phase[c] = "waiting" /\ phase'[c] \in {"waiting", "draining"}
        /\ \A d \in Conn : d # c => /\ phase'[d] = phase[d] /\ wire'[d] = wire[d]
                                    /\ queue'[d] = queue[d]
        /\ wire'[c] = wire[c] \/ peer[c] = "open"
        /\ UNCHANGED <<subscribers, peer, link, page>>
    BY <1>3 DEF Send, TypeOK, pageVars
  <2> QED
    BY <2>1 DEF Linked, TypeOK
<1>4. ASSUME NEW c \in Conn, Drained(c)
      PROVE  Linked'
  BY <1>4 DEF Drained, Linked, TypeOK, pageVars, statsVars
<1>5. ASSUME NEW c \in Conn, Raise(c)
      PROVE  Linked'
  BY <1>5 DEF Raise, Linked, TypeOK, pageVars, statsVars
<1>6. ASSUME NEW c \in Conn, Reset(c)
      PROVE  Linked'
  BY <1>6 DEF Reset, Linked, TypeOK, pageVars, statsVars
<1>7. ASSUME NEW p \in Page, Open(p)
      PROVE  Linked'
  BY <1>7 DEF Open, Linked, TypeOK, streamVars, statsVars
<1>8. ASSUME NEW p \in Page, Serve(p)
      PROVE  Linked'
  BY <1>8 DEF Serve, Linked, TypeOK, streamVars, statsVars
<1>9. ASSUME NEW p \in Page, FetchFails(p)
      PROVE  Linked'
  BY <1>9 DEF FetchFails, Linked, TypeOK, streamVars, statsVars
<1>10. ASSUME NEW p \in Page, Load(p)
      PROVE  Linked'
  BY <1>10 DEF Load, Linked, TypeOK, streamVars, statsVars
<1>11. ASSUME NEW p \in Page, NEW c \in Conn, Connect(p, c)
      PROVE  Linked'
  BY <1>11 DEF Connect, Linked, TypeOK, statsVars
<1>12. ASSUME NEW p \in Page, Receive(p)
      PROVE  Linked'
  <2>1. /\ link[p] \in Conn /\ peer[link[p]] = "open"
        /\ \A d \in Conn : d # link[p] => wire'[d] = wire[d]
        /\ UNCHANGED <<subscribers, queue, phase, peer, page, link>>
    BY <1>12 DEF Receive, Linked, TypeOK
  <2> QED
    BY <2>1 DEF Linked, TypeOK
<1>13. ASSUME NEW p \in Page, Break(p)
      PROVE  Linked'
  BY <1>13 DEF Break, Hangup, Linked, TypeOK, statsVars
<1>14. ASSUME NEW p \in Page, Close(p)
      PROVE  Linked'
  BY <1>14 DEF Close, Hangup, Linked, TypeOK, statsVars
<1>15. CASE Restart
  BY <1>15 DEF Restart, Linked, TypeOK, Empty
<1>16. CASE UNCHANGED vars
  BY <1>16 DEF vars, Linked
<1>17. ASSUME NEW p \in Page, Refreshing(p)
      PROVE  Linked'
  BY <1>17, RefreshLeaves DEF Linked, statsVars, streamVars
<1> QED
  BY <1>1, <1>2, <1>3, <1>4, <1>5, <1>6, <1>7, <1>8, <1>9, <1>10, <1>11, <1>12,
     <1>13, <1>14, <1>15, <1>16, <1>17 DEF Next, Stream, Browse, Refreshing

(* The event bus leaks no queue: it holds those of the streams being       *)
(* served and no other, and no two pages share one.                        *)
THEOREM NoQueueLeaks == Spec => []QueuesBelongToStreams
<1>1. TypeOK /\ Linked => QueuesBelongToStreams
  BY DEF Linked, QueuesBelongToStreams, TypeOK
<1> QED
  BY <1>1, TypeInit, TypeStep, LinkedInit, LinkedStep, PTL DEF Spec

-----------------------------------------------------------------------------
(* Counts.                                                                 *)

(* What is still on its way on connection c, and to page p.                *)
Both(s, t) == Len(s) + Len(t)

OnTheWay(c) == Both(wire[c], queue[c])

Pending(p) == IF link[p] = NoLink THEN 0 ELSE OnTheWay(link[p])

(* The server's own total and the totals in snapshots on their way are     *)
(* not ahead either, so a page that loads one starts behind.               *)
Behind ==
    /\ CountsNeverAhead
    /\ tally.total <= processed
    /\ \A p \in Page : reply[p] # NoReply => reply[p].counts.total <= processed

LEMMA CountsMeaning ==
  CountsNeverAhead <=> \A p \in Page : counts[p].total + Pending(p) <= processed
BY DEF CountsNeverAhead, Pending, OnTheWay, Both

LEMMA BothType ==
  ASSUME NEW S, NEW s \in Seq(S), NEW t \in Seq(S)
  PROVE  Both(s, t) \in Nat
BY LenProperties DEF Both

LEMMA BothGrows ==
  ASSUME NEW S, NEW s \in Seq(S), NEW t \in Seq(S), NEW u \in Seq(S),
         NEW v \in Seq(S), NEW k \in Nat,
         Len(u) <= Len(s), Len(v) <= Len(t) + k
  PROVE  Both(u, v) <= Both(s, t) + k
BY LenProperties DEF Both

(* One element moves from t to s, or is lost on the way.                   *)
LEMMA BothMoves ==
  ASSUME NEW S, NEW s \in Seq(S), NEW t \in Seq(S), NEW u \in Seq(S),
         NEW v \in Seq(S), Len(u) <= Len(s) + 1, Len(v) = Len(t) - 1
  PROVE  Both(u, v) <= Both(s, t)
BY LenProperties DEF Both

LEMMA BothTakes ==
  ASSUME NEW S, NEW s \in Seq(S), NEW t \in Seq(S), NEW u \in Seq(S),
         Len(u) = Len(s) - 1
  PROVE  Both(u, t) = Both(s, t) - 1
BY LenProperties DEF Both

LEMMA OnTheWayType == ASSUME TypeOK, NEW c \in Conn PROVE OnTheWay(c) \in Nat
BY BothType DEF TypeOK, OnTheWay

(* A connection whose wire is no longer than before, and whose queue gains *)
(* at most k events.                                                       *)
LEMMA OnTheWayGrows ==
  ASSUME TypeOK, TypeOK', NEW c \in Conn, NEW k \in Nat,
         Len(wire'[c]) <= Len(wire[c]), Len(queue'[c]) <= Len(queue[c]) + k
  PROVE  OnTheWay(c)' <= OnTheWay(c) + k
BY BothGrows DEF TypeOK, OnTheWay

LEMMA OnTheWayShrinks ==
  ASSUME TypeOK, TypeOK', NEW c \in Conn,
         wire'[c] = wire[c] \/ wire'[c] = <<>>,
         queue'[c] = queue[c] \/ queue'[c] = <<>>
  PROVE  OnTheWay(c)' <= OnTheWay(c)
<1>1. Len(wire[c]) \in Nat /\ Len(queue[c]) \in Nat /\ Len(<<>>) = 0
  BY LenProperties DEF TypeOK
<1>2. Len(wire'[c]) <= Len(wire[c])
  BY <1>1
<1>3. Len(queue'[c]) <= Len(queue[c]) + 0
  BY <1>1
<1>4. OnTheWay(c)' <= OnTheWay(c) + 0
  BY <1>2, <1>3, OnTheWayGrows
<1> QED
  BY <1>4, OnTheWayType

LEMMA PendingType ==
  ASSUME TypeOK, NEW p \in Page
  PROVE  Pending(p) \in Nat /\ counts[p].total \in Nat /\ processed \in Nat
<1>1. link[p] # NoLink => OnTheWay(link[p]) \in Nat
  BY OnTheWayType DEF TypeOK
<1> QED
  BY <1>1 DEF Pending, TypeOK, Counts

(* If no connection gains more than k events and no page another link, no  *)
(* page has more than k more pending.                                      *)
LEMMA PendingGrows ==
  ASSUME TypeOK, TypeOK', NEW k \in Nat,
         \A p \in Page : link'[p] = link[p] \/ link'[p] = NoLink,
         \A c \in Conn : OnTheWay(c)' <= OnTheWay(c) + k
  PROVE  \A p \in Page : Pending(p)' \in Nat /\ Pending(p)' <= Pending(p) + k
<1> SUFFICES ASSUME NEW p \in Page
             PROVE  Pending(p)' \in Nat /\ Pending(p)' <= Pending(p) + k
  OBVIOUS
<1>1. Pending(p) \in Nat
  BY PendingType
<1>2. CASE link'[p] = NoLink
  <2>1. Pending(p)' = 0
    BY <1>2 DEF Pending
  <2> QED
    BY <1>1, <2>1
<1>3. CASE link'[p] # NoLink
  <2>1. PICK c \in Conn : link[p] = c /\ link'[p] = c /\ c # NoLink
    BY <1>3 DEF TypeOK
  <2>2. Pending(p) = OnTheWay(c) /\ Pending(p)' = OnTheWay(c)'
    BY <2>1 DEF Pending
  <2>3. OnTheWay(c) \in Nat /\ OnTheWay(c)' \in Nat
    BY BothType DEF TypeOK, OnTheWay
  <2>4. OnTheWay(c)' <= OnTheWay(c) + k
    OBVIOUS
  <2> QED
    BY <2>2, <2>3, <2>4
<1> QED
  BY <1>2, <1>3

LEMMA PendingShrinks ==
  ASSUME TypeOK, TypeOK',
         \A p \in Page : link'[p] = link[p] \/ link'[p] = NoLink,
         \A c \in Conn : OnTheWay(c)' <= OnTheWay(c)
  PROVE  \A p \in Page : Pending(p)' \in Nat /\ Pending(p)' <= Pending(p)
<1>1. \A c \in Conn : OnTheWay(c) \in Nat
  BY OnTheWayType
<1>2. \A c \in Conn : OnTheWay(c)' <= OnTheWay(c) + 0
  BY <1>1
<1>3. \A p \in Page : Pending(p)' \in Nat /\ Pending(p)' <= Pending(p) + 0
  BY <1>2, PendingGrows
<1> QED
  BY <1>3, PendingType

LEMMA BehindInit == Init => Behind
BY DashboardConstants DEF Init, Behind, CountsNeverAhead, Zero

(* A step that gives no page more than it takes away keeps it behind.      *)
LEMMA BehindKept ==
  ASSUME TypeOK, TypeOK', Behind, processed' = processed,
         tally'.total <= processed,
         \A p \in Page : reply'[p] # NoReply => reply'[p].counts.total <= processed,
         \A p \in Page : counts'[p].total + Pending(p)' <= processed
  PROVE  Behind'
BY CountsMeaning DEF Behind, CountsNeverAhead, Pending, OnTheWay, Both

LEMMA BehindStep == TypeOK /\ Linked /\ Behind /\ [Next]_vars => Behind'
<1> SUFFICES ASSUME TypeOK, Linked, Behind, [Next]_vars PROVE Behind'
  OBVIOUS
<1>a. TypeOK' /\ Linked'
  BY TypeStep, LinkedStep
<1>b. \A p \in Page : /\ Pending(p) \in Nat /\ counts[p].total \in Nat
                      /\ counts[p].total + Pending(p) <= processed
                      /\ link[p] # NoLink => link[p] \in Conn
  BY PendingType, CountsMeaning DEF Behind, TypeOK
<1>c. processed \in Nat /\ tally.total \in Nat /\ tally.total <= processed
  BY DEF TypeOK, Behind, Counts
<1>d. \A c \in Conn : Len(wire[c]) \in Nat /\ Len(queue[c]) \in Nat
  BY LenProperties DEF TypeOK
<1>e. \A p \in Page : reply[p] # NoReply => reply[p].counts.total <= processed
  BY DEF Behind
<1> USE DashboardConstants
<1>1. ASSUME NEW n \in Name, NEW k \in Kind, OnEvent(n, k)
      PROVE  Behind'
  <2> DEFINE e == [serial |-> processed + 1, name |-> n, kind |-> k]
  <2>1. e \in Event /\ Publish(e) /\ processed' = processed + 1
    BY <1>1, <1>c DEF OnEvent, Event
  <2>2. \A c \in Conn : Len(queue'[c]) <= Len(queue[c]) + 1 /\ Len(queue'[c]) \in Nat
    BY <2>1, <1>a, PublishProperties, LenProperties DEF TypeOK
  <2>3. UNCHANGED <<wire, link, counts, reply>>
    BY <1>1 DEF OnEvent, pageVars
  <2>4. tally'.total = tally.total + 1
    BY <1>1, CountType DEF OnEvent, TypeOK
  <2>5. ASSUME NEW p \in Page
        PROVE  counts'[p].total + Pending(p)' <= processed'
    <3>1. ASSUME NEW c \in Conn
          PROVE  OnTheWay(c)' <= OnTheWay(c) + 1
      <4>1. Len(wire'[c]) <= Len(wire[c]) /\ Len(queue'[c]) <= Len(queue[c]) + 1
        BY <2>2, <2>3, <1>d
      <4> QED
        BY <4>1, <1>a, OnTheWayGrows
    <3>2. Pending(p)' \in Nat /\ Pending(p)' <= Pending(p) + 1
      BY <3>1, <2>3, <1>a, PendingGrows
    <3> QED
      BY <3>2, <2>1, <2>3, <1>b, <1>c
  <2>6. CountsNeverAhead'
    BY <2>5 DEF CountsNeverAhead, Pending, OnTheWay, Both
  <2>7. \A p \in Page : reply'[p] # NoReply => reply'[p].counts.total <= processed'
    <3>1. ASSUME NEW p \in Page, reply[p] # NoReply
          PROVE  reply[p].counts.total \in Nat
      BY <3>1 DEF TypeOK, Snapshots, Counts
    <3> QED
      BY <3>1, <1>e, <1>c, <2>1, <2>3
  <2> QED
    BY <2>1, <2>4, <2>6, <2>7, <1>c DEF Behind
<1>2. ASSUME NEW c \in Conn, Subscribe(c)
      PROVE  Behind'
  <2>1. /\ UNCHANGED <<tally, processed, wire, link, counts, reply>>
        /\ \A d \in Conn : queue'[d] = queue[d] \/ queue'[d] = <<>>
    BY <1>2 DEF Subscribe, TypeOK, statsVars, pageVars
  <2>2. \A p \in Page : Pending(p)' \in Nat /\ Pending(p)' <= Pending(p)
    <3>1. \A d \in Conn : OnTheWay(d)' <= OnTheWay(d)
      BY <2>1, <1>a, OnTheWayShrinks
    <3> QED
      BY <3>1, <2>1, <1>a, PendingShrinks
  <2> QED
    BY <2>1, <2>2, <1>a, <1>b, <1>c, <1>e, BehindKept
<1>3. ASSUME NEW c \in Conn, Send(c)
      PROVE  Behind'
  <2>1. /\ queue[c] \in Seq(Event) /\ queue[c] # <<>> /\ wire[c] \in Seq(Event)
        /\ queue'[c] = Tail(queue[c])
        /\ wire'[c] = wire[c] \/ wire'[c] = Append(wire[c], Head(queue[c]))
        /\ \A d \in Conn : d # c => queue'[d] = queue[d] /\ wire'[d] = wire[d]
        /\ UNCHANGED <<tally, processed, link, counts, reply>>
    BY <1>3 DEF Send, TypeOK, statsVars, pageVars
  <2>2. Len(queue'[c]) = Len(queue[c]) - 1 /\ Len(wire'[c]) <= Len(wire[c]) + 1
    BY <2>1, HeadTailProperties, LenProperties
  <2>3. \A d \in Conn : Len(wire'[d]) \in Nat /\ Len(queue'[d]) \in Nat
    BY <1>a, LenProperties DEF TypeOK
  <2>4. \A p \in Page : Pending(p)' \in Nat /\ Pending(p)' <= Pending(p)
    <3>1. OnTheWay(c)' <= OnTheWay(c)
      BY <2>1, <2>2, <1>a, BothMoves DEF TypeOK, OnTheWay
    <3>2. \A d \in Conn : d # c => OnTheWay(d)' = OnTheWay(d)
      BY <2>1 DEF OnTheWay
    <3>3. \A d \in Conn : OnTheWay(d)' <= OnTheWay(d)
      BY <3>1, <3>2, OnTheWayType
    <3> QED
      BY <3>3, <2>1, <1>a, PendingShrinks
  <2> QED
    BY <2>1, <2>4, <1>a, <1>b, <1>c, <1>e, BehindKept
<1>4. ASSUME NEW c \in Conn, Drained(c)
      PROVE  Behind'
  BY <1>4 DEF Drained, Behind, CountsNeverAhead, pageVars, statsVars
<1>5. ASSUME NEW c \in Conn, Raise(c)
      PROVE  Behind'
  <2>1. /\ UNCHANGED <<tally, processed, wire, link, counts, reply>>
        /\ \A d \in Conn : queue'[d] = queue[d] \/ queue'[d] = <<>>
    BY <1>5 DEF Raise, TypeOK, statsVars, pageVars
  <2>2. \A p \in Page : Pending(p)' \in Nat /\ Pending(p)' <= Pending(p)
    <3>1. \A d \in Conn : OnTheWay(d)' <= OnTheWay(d)
      BY <2>1, <1>a, OnTheWayShrinks
    <3> QED
      BY <3>1, <2>1, <1>a, PendingShrinks
  <2> QED
    BY <2>1, <2>2, <1>a, <1>b, <1>c, <1>e, BehindKept
<1>6. ASSUME NEW c \in Conn, Reset(c)
      PROVE  Behind'
  BY <1>6 DEF Reset, Behind, CountsNeverAhead, pageVars, statsVars
<1>7. ASSUME NEW p \in Page, Open(p)
      PROVE  Behind'
  BY <1>7 DEF Open, Behind, CountsNeverAhead, streamVars, statsVars
<1>8. ASSUME NEW p \in Page, Serve(p)
      PROVE  Behind'
  <2>1. /\ UNCHANGED <<tally, processed, wire, queue, link, counts>>
        /\ reply' = [reply EXCEPT ![p] = Snapshot]
        /\ Snapshot.counts = tally
    BY <1>8 DEF Serve, Snapshot, streamVars, statsVars
  <2>2. \A q \in Page : reply'[q] # NoReply => reply'[q].counts.total <= processed
    BY <2>1, <1>c, <1>e DEF TypeOK
  <2> QED
    BY <2>1, <2>2 DEF Behind, CountsNeverAhead
<1>9. ASSUME NEW p \in Page, FetchFails(p)
      PROVE  Behind'
  BY <1>9 DEF FetchFails, Behind, CountsNeverAhead, TypeOK, streamVars, statsVars
<1>10. ASSUME NEW p \in Page, Load(p)
      PROVE  Behind'
  <2>1. /\ UNCHANGED <<tally, processed, wire, queue, link>>
        /\ reply' = [reply EXCEPT ![p] = NoReply]
        /\ counts' = [counts EXCEPT ![p] = reply[p].counts]
        /\ link[p] = NoLink /\ reply[p] # NoReply
    BY <1>10 DEF Load, Linked, streamVars, statsVars
  <2>2. reply[p].counts.total \in Nat /\ reply[p].counts.total <= processed
    BY <2>1, <1>e DEF TypeOK, Snapshots, Counts
  <2>3. \A q \in Page : Pending(q)' = Pending(q)
    BY <2>1 DEF Pending, OnTheWay
  <2>4. Pending(p) = 0
    BY <2>1 DEF Pending
  <2>5. \A q \in Page : counts'[q].total + Pending(q)' <= processed
    BY <2>1, <2>2, <2>3, <2>4, <1>b, <1>c DEF TypeOK
  <2>6. \A q \in Page : reply'[q] # NoReply => reply'[q].counts.total <= processed
    BY <2>1, <1>e DEF TypeOK
  <2> QED
    BY <2>1, <2>5, <2>6, <1>a, <1>c, BehindKept
<1>11. ASSUME NEW p \in Page, NEW c \in Conn, Connect(p, c)
      PROVE  Behind'
  <2>1. /\ UNCHANGED <<tally, processed, wire, queue, counts, reply>>
        /\ link' = [link EXCEPT ![p] = c]
        /\ wire[c] = <<>> /\ queue[c] = <<>>
    BY <1>11 DEF Connect, Linked, statsVars
  <2>2. \A q \in Page : q # p => Pending(q)' = Pending(q)
    BY <2>1 DEF Pending, OnTheWay, TypeOK
  <2>3. Pending(p)' = 0
    <3>1. link'[p] = c /\ c # NoLink /\ wire'[c] = <<>> /\ queue'[c] = <<>>
      BY <2>1 DEF TypeOK
    <3>2. Both(<<>>, <<>>) = 0
      BY DEF Both
    <3> QED
      BY <3>1, <3>2 DEF Pending, OnTheWay
  <2>4. \A q \in Page : Pending(q)' \in Nat /\ Pending(q)' <= Pending(q)
    BY <2>2, <2>3, <1>b
  <2> QED
    BY <2>1, <2>4, <1>a, <1>b, <1>c, <1>e, BehindKept
<1>12. ASSUME NEW p \in Page, Receive(p)
      PROVE  Behind'
  <2> DEFINE c == link[p]
             e == Head(wire[c])
  <2>1. c \in Conn /\ wire[c] \in Seq(Event) /\ wire[c] # <<>>
    BY <1>12 DEF Receive, TypeOK
  <2>2. e \in Event /\ e.kind \in Kind /\ Len(Tail(wire[c])) = Len(wire[c]) - 1
    <3>1. e \in Event /\ Len(Tail(wire[c])) = Len(wire[c]) - 1
      BY <2>1, HeadTailProperties
    <3> QED
      BY <3>1 DEF Event
  <2>3. counts[p] \in Counts
    BY DEF TypeOK
  <2> HIDE DEF e
  <2>4. Count(counts[p], e.kind).total = counts[p].total + 1
    BY <2>2, <2>3, CountType
  <2>5. /\ counts' = [counts EXCEPT ![p] = Count(counts[p], e.kind)]
        /\ wire' = [wire EXCEPT ![c] = Tail(wire[c])]
        /\ UNCHANGED <<tally, processed, queue, link, reply>>
    BY <1>12 DEF Receive, e, statsVars
  <2>6. /\ Len(wire'[c]) = Len(wire[c]) - 1 /\ Len(wire'[c]) \in Nat
        /\ \A d \in Conn : d # c => wire'[d] = wire[d]
    BY <2>1, <2>2, <2>5, <1>a, LenProperties DEF TypeOK
  <2>7. Pending(p)' = Pending(p) - 1
    <3>1. c # NoLink /\ Pending(p) = OnTheWay(c) /\ Pending(p)' = OnTheWay(c)'
      BY <2>1, <2>5 DEF Pending
    <3>2. OnTheWay(c)' = Both(wire'[c], queue[c])
      BY <2>5 DEF OnTheWay
    <3>3. /\ wire[c] \in Seq(Event) /\ wire'[c] \in Seq(Event)
          /\ queue[c] \in Seq(Event)
      BY <2>1, <1>a DEF TypeOK
    <3>4. Both(wire'[c], queue[c]) = OnTheWay(c) - 1
      BY <2>6, <3>3, BothTakes DEF OnTheWay
    <3> QED
      BY <3>1, <3>2, <3>4
  <2>8. \A q \in Page : q # p => Pending(q)' = Pending(q) /\ counts'[q] = counts[q]
    <3>1. \A q \in Page : q # p => link[q] # c
      BY <2>1 DEF Linked
    <3> QED
      BY <3>1, <2>5, <2>6, <1>b DEF Pending, OnTheWay, TypeOK
  <2>9. counts'[p].total = counts[p].total + 1
    BY <2>4, <2>5 DEF TypeOK
  <2>10. \A q \in Page : counts'[q].total + Pending(q)' <= processed
    BY <2>7, <2>8, <2>9, <1>b, <1>c
  <2> QED
    BY <2>5, <2>10, <1>a, <1>c, <1>e, BehindKept
<1>13. ASSUME NEW p \in Page, Break(p)
      PROVE  Behind'
  <2>1. /\ UNCHANGED <<tally, processed, queue, counts, reply>>
        /\ link' = [link EXCEPT ![p] = NoLink]
        /\ \A c \in Conn : wire'[c] = wire[c] \/ wire'[c] = <<>>
    BY <1>13 DEF Break, Hangup, statsVars
  <2>2. \A q \in Page : Pending(q)' \in Nat /\ Pending(q)' <= Pending(q)
    <3>1. \A d \in Conn : OnTheWay(d)' <= OnTheWay(d)
      BY <2>1, <1>a, OnTheWayShrinks
    <3>2. \A q \in Page : link'[q] = link[q] \/ link'[q] = NoLink
      BY <2>1 DEF TypeOK
    <3> QED
      BY <3>1, <3>2, <1>a, PendingShrinks
  <2> QED
    BY <2>1, <2>2, <1>a, <1>b, <1>c, <1>e, BehindKept
<1>14. ASSUME NEW p \in Page, Close(p)
      PROVE  Behind'
  <2>1. /\ UNCHANGED <<tally, processed, queue>>
        /\ link' = [link EXCEPT ![p] = NoLink]
        /\ counts' = [counts EXCEPT ![p] = Zero]
        /\ reply' = [reply EXCEPT ![p] = NoReply]
        /\ \A c \in Conn : wire'[c] = wire[c] \/ wire'[c] = <<>>
    BY <1>14 DEF Close, Hangup, statsVars
  <2>2. \A q \in Page : Pending(q)' \in Nat /\ Pending(q)' <= Pending(q)
    <3>1. \A d \in Conn : OnTheWay(d)' <= OnTheWay(d)
      BY <2>1, <1>a, OnTheWayShrinks
    <3>2. \A q \in Page : link'[q] = link[q] \/ link'[q] = NoLink
      BY <2>1 DEF TypeOK
    <3> QED
      BY <3>1, <3>2, <1>a, PendingShrinks
  <2>3. \A q \in Page : counts'[q].total \in Nat /\ counts'[q].total <= counts[q].total
    BY <2>1, <1>b DEF Zero, TypeOK
  <2>4. \A q \in Page : counts'[q].total + Pending(q)' <= processed
    BY <2>2, <2>3, <1>b, <1>c
  <2>5. \A q \in Page : reply'[q] # NoReply => reply'[q].counts.total <= processed
    BY <2>1, <1>e DEF TypeOK
  <2> QED
    BY <2>1, <2>4, <2>5, <1>a, <1>c, BehindKept
<1>15. CASE Restart
  <2>1. /\ tally' = Zero /\ UNCHANGED <<processed, counts, reply>>
        /\ link' = [p \in Page |-> NoLink]
    BY <1>15 DEF Restart
  <2>2. \A p \in Page : Pending(p)' = 0
    BY <2>1 DEF Pending
  <2>3. tally'.total <= processed
    BY <2>1, <1>c DEF Zero
  <2>4. \A p \in Page : counts'[p].total + Pending(p)' <= processed
    BY <2>1, <2>2, <1>b, <1>c
  <2> QED
    BY <2>1, <2>3, <2>4, <1>a, <1>e, BehindKept
<1>16. CASE UNCHANGED vars
  BY <1>16 DEF vars, Behind, CountsNeverAhead
<1>17. ASSUME NEW p \in Page, Refreshing(p)
      PROVE  Behind'
  BY <1>17, RefreshLeaves DEF Behind, CountsNeverAhead, statsVars, streamVars
<1> QED
  BY <1>1, <1>2, <1>3, <1>4, <1>5, <1>6, <1>7, <1>8, <1>9, <1>10, <1>11, <1>12,
     <1>13, <1>14, <1>15, <1>16, <1>17 DEF Next, Stream, Browse, Refreshing

(* No page ever counts a query twice: what it counted, with what is still  *)
(* on its way to it, is never more than the server has processed.          *)
THEOREM NeverAhead == Spec => []CountsNeverAhead
<1>1. Behind => CountsNeverAhead
  BY DEF Behind
<1> QED
  BY <1>1, TypeInit, TypeStep, LinkedInit, LinkedStep, BehindInit, BehindStep, PTL
     DEF Spec

-----------------------------------------------------------------------------
(* Order.                                                                  *)

Rising(s) == \A i, j \in 1 .. Len(s) : i < j => s[i].serial < s[j].serial

Falling(s) == \A i, j \in 1 .. Len(s) : i < j => s[i].serial > s[j].serial

UpTo(s, n) == \A i \in 1 .. Len(s) : s[i].serial <= n

Older(s, t) ==
    \A i \in 1 .. Len(s), j \in 1 .. Len(t) : s[i].serial < t[j].serial

(* Queues and wires rise, logs and snapshots fall, and what a page shows   *)
(* is older than what is on its wire, which is older than what is queued.  *)
Ordered ==
    /\ Rising(recent) /\ UpTo(recent, processed)
    /\ \A p \in Page : Falling(rows[p]) /\ UpTo(rows[p], processed)
    /\ \A p \in Page : reply[p] # NoReply =>
          Falling(reply[p].recent) /\ UpTo(reply[p].recent, processed)
    /\ \A c \in Conn : Rising(queue[c]) /\ UpTo(queue[c], processed)
    /\ \A c \in Conn : Rising(wire[c]) /\ UpTo(wire[c], processed)
    /\ \A c \in Conn : Older(wire[c], queue[c])
    /\ \A p \in Page : link[p] # NoLink =>
          Older(rows[p], wire[link[p]]) /\ Older(rows[p], queue[link[p]])

LEMMA SerialType ==
  ASSUME NEW s \in Seq(Event), NEW i \in 1 .. Len(s)
  PROVE  s[i] \in Event /\ s[i].serial \in Nat
<1>1. s[i] \in Event
  BY ElementOfSeq
<1> QED
  BY <1>1 DEF Event

LEMMA EmptyOrdered ==
  ASSUME NEW s, NEW n
  PROVE  /\ Rising(<<>>) /\ Falling(<<>>) /\ UpTo(<<>>, n)
         /\ Older(<<>>, s) /\ Older(s, <<>>)
<1>1. \A i \in 1 .. Len(<<>>) : FALSE
  OBVIOUS
<1> QED
  BY <1>1 DEF Rising, Falling, UpTo, Older

LEMMA TailOrdered ==
  ASSUME NEW s \in Seq(Event), s # <<>>, NEW n \in Nat, Rising(s), UpTo(s, n)
  PROVE  /\ Rising(Tail(s)) /\ UpTo(Tail(s), n)
         /\ Head(s) \in Event /\ Head(s).serial <= n
         /\ \A i \in 1 .. Len(Tail(s)) : Head(s).serial < Tail(s)[i].serial
         /\ \A r : Older(r, s) => Older(r, Tail(s))
         /\ \A r : Older(s, r) => Older(Tail(s), r)
         /\ \A r : Older(r, s) => \A i \in 1 .. Len(r) : r[i].serial < Head(s).serial
         /\ \A r : Older(s, r) => \A i \in 1 .. Len(r) : Head(s).serial < r[i].serial
<1>1. /\ Tail(s) \in Seq(Event) /\ Len(Tail(s)) = Len(s) - 1 /\ Len(s) \in Nat
      /\ \A i \in 1 .. Len(Tail(s)) : Tail(s)[i] = s[i + 1]
      /\ Head(s) = s[1] /\ Head(s) \in Event /\ 1 \in 1 .. Len(s)
  BY HeadTailProperties, LenProperties, EmptySeq
<1>2. \A i \in 1 .. Len(Tail(s)) : i + 1 \in 1 .. Len(s) /\ 1 < i + 1
  BY <1>1
<1>3. \A i, j \in 1 .. Len(Tail(s)) : i < j => i + 1 < j + 1
  BY <1>1
<1> QED
  BY <1>1, <1>2, <1>3 DEF Rising, UpTo, Older

LEMMA AppendOrdered ==
  ASSUME NEW s \in Seq(Event), NEW e \in Event, NEW n \in Nat,
         Rising(s), UpTo(s, n), e.serial <= n,
         \A i \in 1 .. Len(s) : s[i].serial < e.serial
  PROVE  Rising(Append(s, e)) /\ UpTo(Append(s, e), n)
<1>1. /\ Append(s, e) \in Seq(Event) /\ Len(Append(s, e)) = Len(s) + 1
      /\ Len(s) \in Nat
      /\ \A i \in 1 .. Len(s) : Append(s, e)[i] = s[i]
      /\ Append(s, e)[Len(s) + 1] = e
  BY LenProperties
<1>2. \A i \in 1 .. Len(Append(s, e)) : i \in 1 .. Len(s) \/ i = Len(s) + 1
  BY <1>1
<1>3. \A i, j \in 1 .. Len(Append(s, e)) : i < j => i \in 1 .. Len(s)
  BY <1>1
<1> HIDE DEF Rising
<1>4. Rising(Append(s, e))
  BY <1>1, <1>2, <1>3 DEF Rising
<1>5. UpTo(Append(s, e), n)
  BY <1>1, <1>2 DEF UpTo
<1> QED
  BY <1>4, <1>5

LEMMA AppendOlder ==
  ASSUME NEW s \in Seq(Event), NEW t \in Seq(Event), NEW e \in Event, Older(s, t),
         \A i \in 1 .. Len(s) : s[i].serial < e.serial
  PROVE  Older(s, Append(t, e))
<1>1. /\ Len(Append(t, e)) = Len(t) + 1 /\ Len(t) \in Nat
      /\ \A i \in 1 .. Len(t) : Append(t, e)[i] = t[i]
      /\ Append(t, e)[Len(t) + 1] = e
  BY LenProperties
<1>2. \A i \in 1 .. Len(Append(t, e)) : i \in 1 .. Len(t) \/ i = Len(t) + 1
  BY <1>1
<1> QED
  BY <1>1, <1>2 DEF Older

LEMMA PrependOlder ==
  ASSUME NEW s \in Seq(Event), NEW t \in Seq(Event), NEW e \in Event, Older(s, t),
         \A i \in 1 .. Len(t) : e.serial < t[i].serial
  PROVE  Older(Append(s, e), t)
<1>1. /\ Len(Append(s, e)) = Len(s) + 1 /\ Len(s) \in Nat
      /\ \A i \in 1 .. Len(s) : Append(s, e)[i] = s[i]
      /\ Append(s, e)[Len(s) + 1] = e
  BY LenProperties
<1>2. \A i \in 1 .. Len(Append(s, e)) : i \in 1 .. Len(s) \/ i = Len(s) + 1
  BY <1>1
<1> QED
  BY <1>1, <1>2 DEF Older

LEMMA LastNOrdered ==
  ASSUME NEW s \in Seq(Event), NEW k \in Nat, NEW n \in Nat, Rising(s), UpTo(s, n)
  PROVE  Rising(LastN(s, k)) /\ UpTo(LastN(s, k), n)
<1> DEFINE t == LastN(s, k)
<1>1. /\ t \in Seq(Event) /\ Len(t) <= Len(s) /\ Len(t) \in Nat /\ Len(s) \in Nat
      /\ \A i \in 1 .. Len(t) : t[i] = s[Len(s) - Len(t) + i]
  BY LastNProperties, LenProperties
<1> HIDE DEF t
<1>2. \A i \in 1 .. Len(t) : Len(s) - Len(t) + i \in 1 .. Len(s)
  BY <1>1
<1>3. \A i, j \in 1 .. Len(t) : i < j => Len(s) - Len(t) + i < Len(s) - Len(t) + j
  BY <1>1
<1>4. Rising(t) /\ UpTo(t, n)
  BY <1>1, <1>2, <1>3 DEF Rising, UpTo
<1> QED
  BY <1>4 DEF t

LEMMA ReverseOrdered ==
  ASSUME NEW s \in Seq(Event), NEW n \in Nat, Rising(s), UpTo(s, n)
  PROVE  Falling(Reverse(s)) /\ UpTo(Reverse(s), n)
<1> DEFINE t == Reverse(s)
<1>1. /\ t \in Seq(Event) /\ Len(t) = Len(s) /\ Len(s) \in Nat
      /\ \A i \in 1 .. Len(s) : t[i] = s[Len(s) - i + 1]
  BY ReverseProperties, LenProperties
<1> HIDE DEF t
<1>2. \A i \in 1 .. Len(s) : Len(s) - i + 1 \in 1 .. Len(s)
  BY <1>1
<1>3. \A i, j \in 1 .. Len(s) : i < j => Len(s) - j + 1 < Len(s) - i + 1
  BY <1>1
<1>4. \A i, j \in 1 .. Len(s) : i < j => t[i].serial > t[j].serial
  <2> SUFFICES ASSUME NEW i \in 1 .. Len(s), NEW j \in 1 .. Len(s), i < j
               PROVE  t[i].serial > t[j].serial
    OBVIOUS
  <2>1. s[Len(s) - j + 1].serial < s[Len(s) - i + 1].serial
    BY <1>2, <1>3 DEF Rising
  <2>2. s[Len(s) - j + 1].serial \in Nat /\ s[Len(s) - i + 1].serial \in Nat
    BY <1>2, SerialType
  <2> QED
    BY <2>1, <2>2, <1>1
<1>5. UpTo(t, n)
  BY <1>1, <1>2 DEF UpTo
<1> QED
  BY <1>1, <1>4, <1>5 DEF t, Falling

LEMMA AddRowOrdered ==
  ASSUME NEW log \in Seq(Event), NEW e \in Event, NEW n \in Nat,
         Falling(log), UpTo(log, n), e.serial <= n,
         \A i \in 1 .. Len(log) : log[i].serial < e.serial
  PROVE  /\ Falling(AddRow(log, e)) /\ UpTo(AddRow(log, e), n)
         /\ \A t : Older(log, t) /\ (\A i \in 1 .. Len(t) : e.serial < t[i].serial)
                     => Older(AddRow(log, e), t)
<1> DEFINE new == AddRow(log, e)
<1>1. /\ new \in Seq(Event) /\ Len(new) \in Nat /\ Len(log) \in Nat
      /\ Len(new) <= Len(log) + 1
      /\ \A i \in 1 .. Len(new) : new[i] = IF i = 1 THEN e ELSE log[i - 1]
  BY AddRowProperties, LenProperties
<1> HIDE DEF new
<1>2. \A i \in 1 .. Len(new) : i # 1 => i - 1 \in 1 .. Len(log)
  BY <1>1
<1>3. \A i \in 1 .. Len(new) : \/ i = 1 /\ new[i] = e
                               \/ i # 1 /\ new[i] = log[i - 1] /\ i - 1 \in 1 .. Len(log)
  BY <1>1, <1>2
<1>4. ASSUME NEW i \in 1 .. Len(new), NEW j \in 1 .. Len(new), i < j
      PROVE  new[i].serial > new[j].serial
  <2>1. new[j] = log[j - 1] /\ j - 1 \in 1 .. Len(log)
    BY <1>3, <1>4, <1>1
  <2>2. log[j - 1].serial \in Nat /\ e.serial \in Nat
    BY <2>1, SerialType DEF Event
  <2>3. CASE i = 1
    BY <2>1, <2>2, <2>3, <1>3
  <2>4. CASE i # 1
    <3>1. new[i] = log[i - 1] /\ i - 1 \in 1 .. Len(log) /\ i - 1 < j - 1
      BY <2>4, <1>3, <1>4
    <3> QED
      BY <2>1, <3>1 DEF Falling
  <2> QED
    BY <2>3, <2>4
<1>5. UpTo(new, n)
  BY <1>3 DEF UpTo
<1>6. ASSUME NEW t, Older(log, t), \A i \in 1 .. Len(t) : e.serial < t[i].serial
      PROVE  Older(new, t)
  BY <1>3, <1>6 DEF Older
<1>7. Falling(new)
  BY <1>4 DEF Falling
<1> QED
  BY <1>5, <1>6, <1>7 DEF new

LEMMA OrderedInit == Init => Ordered
BY EmptyOrdered, DashboardConstants DEF Init, Ordered, Empty

(* Raising the bound.                                                      *)
LEMMA UpToMore ==
  ASSUME NEW s \in Seq(Event), NEW n \in Nat, UpTo(s, n)
  PROVE  /\ UpTo(s, n + 1)
         /\ \A i \in 1 .. Len(s) : s[i].serial < n + 1
BY SerialType DEF UpTo

LEMMA OrderedStep == TypeOK /\ Linked /\ Ordered /\ [Next]_vars => Ordered'
<1> SUFFICES ASSUME TypeOK, Linked, Ordered, [Next]_vars PROVE Ordered'
  OBVIOUS
<1>a. /\ processed \in Nat /\ recent \in Seq(Event)
      /\ \A c \in Conn : queue[c] \in Seq(Event) /\ wire[c] \in Seq(Event)
      /\ \A p \in Page : /\ rows[p] \in Seq(Event)
                         /\ link[p] # NoLink => link[p] \in Conn
                         /\ reply[p] # NoReply => reply[p].recent \in Seq(Event)
  BY DEF TypeOK, Snapshots
<1> USE DashboardConstants
<1>1. ASSUME NEW n \in Name, NEW k \in Kind, OnEvent(n, k)
      PROVE  Ordered'
  <2> DEFINE e == [serial |-> processed + 1, name |-> n, kind |-> k]
  <2>1. /\ e \in Event /\ e.serial = processed + 1 /\ Publish(e)
        /\ processed' = processed + 1 /\ processed' \in Nat
        /\ recent' = LastN(Append(recent, e), Ring)
        /\ UNCHANGED <<wire, link, rows, reply>>
    BY <1>1, <1>a DEF OnEvent, Event, pageVars
  <2> HIDE DEF e
  <2>2. /\ UpTo(recent, processed + 1)
        /\ \A i \in 1 .. Len(recent) : recent[i].serial < processed + 1
    BY <1>a, UpToMore DEF Ordered
  <2>3. Rising(Append(recent, e)) /\ UpTo(Append(recent, e), processed + 1)
    BY <2>1, <2>2, <1>a, AppendOrdered DEF Ordered
  <2>4. Rising(recent') /\ UpTo(recent', processed')
    <3>1. Append(recent, e) \in Seq(Event) /\ Ring \in Nat /\ processed + 1 \in Nat
      BY <2>1, <1>a
    <3> QED
      BY <2>1, <2>3, <3>1, LastNOrdered
  <2>5. ASSUME NEW p \in Page
        PROVE  /\ Falling(rows'[p]) /\ UpTo(rows'[p], processed')
               /\ reply'[p] # NoReply =>
                     Falling(reply'[p].recent) /\ UpTo(reply'[p].recent, processed')
    BY <2>1, <1>a, UpToMore DEF Ordered
  <2>6. ASSUME NEW c \in Conn
        PROVE  Rising(wire'[c]) /\ UpTo(wire'[c], processed')
    BY <2>1, <1>a, UpToMore DEF Ordered
  <2>7. ASSUME NEW c \in Conn
        PROVE  /\ Rising(queue'[c]) /\ UpTo(queue'[c], processed')
               /\ Older(wire'[c], queue'[c])
               /\ \A p \in Page : Older(rows[p], queue[c]) => Older(rows[p], queue'[c])
    <3>1. /\ UpTo(queue[c], processed + 1)
          /\ \A i \in 1 .. Len(queue[c]) : queue[c][i].serial < e.serial
      BY <2>1, <1>a, UpToMore DEF Ordered
    <3>2. \A i \in 1 .. Len(wire[c]) : wire[c][i].serial < e.serial
      BY <2>1, <1>a, UpToMore DEF Ordered
    <3>3. \A p \in Page : \A i \in 1 .. Len(rows[p]) : rows[p][i].serial < e.serial
      BY <2>1, <1>a, UpToMore DEF Ordered
    <3>4. wire'[c] = wire[c]
      BY <2>1
    <3>5. CASE queue'[c] = queue[c]
      BY <3>1, <3>4, <3>5, <2>1 DEF Ordered
    <3>6. CASE queue'[c] = Append(queue[c], e)
      <4>1. Rising(Append(queue[c], e)) /\ UpTo(Append(queue[c], e), processed + 1)
        BY <2>1, <3>1, <1>a, AppendOrdered DEF Ordered
      <4>2. Older(wire[c], Append(queue[c], e))
        BY <2>1, <3>2, <1>a, AppendOlder DEF Ordered
      <4>3. \A p \in Page : Older(rows[p], queue[c])
                              => Older(rows[p], Append(queue[c], e))
        BY <2>1, <3>3, <1>a, AppendOlder
      <4> QED
        BY <4>1, <4>2, <4>3, <3>4, <3>6, <2>1
    <3> QED
      BY <3>5, <3>6, <2>1, PublishProperties
  <2>8. ASSUME NEW p \in Page, link'[p] # NoLink
        PROVE  Older(rows'[p], wire'[link'[p]]) /\ Older(rows'[p], queue'[link'[p]])
    BY <2>1, <2>7, <2>8, <1>a DEF Ordered
  <2> QED
    BY <2>4, <2>5, <2>6, <2>7, <2>8 DEF Ordered
<1>2. ASSUME NEW c \in Conn, Subscribe(c)
      PROVE  Ordered'
  <2>1. /\ UNCHANGED <<recent, processed, wire, link, rows, reply>>
        /\ \A d \in Conn : queue'[d] = queue[d] \/ queue'[d] = <<>>
    BY <1>2 DEF Subscribe, TypeOK, statsVars, pageVars
  <2> QED
    BY <2>1, <1>a, EmptyOrdered DEF Ordered
<1>3. ASSUME NEW c \in Conn, Send(c)
      PROVE  Ordered'
  <2> DEFINE e == Head(queue[c])
  <2>1. /\ queue[c] # <<>> /\ queue'[c] = Tail(queue[c])
        /\ wire'[c] = wire[c] \/ wire'[c] = Append(wire[c], e)
        /\ \A d \in Conn : d # c => queue'[d] = queue[d] /\ wire'[d] = wire[d]
        /\ UNCHANGED <<recent, processed, link, rows, reply>>
    BY <1>3 DEF Send, TypeOK, statsVars, pageVars
  <2>2. /\ Rising(Tail(queue[c])) /\ UpTo(Tail(queue[c]), processed)
        /\ e \in Event /\ e.serial <= processed
        /\ \A i \in 1 .. Len(Tail(queue[c])) : e.serial < Tail(queue[c])[i].serial
        /\ \A r : Older(r, queue[c]) => /\ Older(r, Tail(queue[c]))
                                        /\ \A i \in 1 .. Len(r) : r[i].serial < e.serial
    BY <2>1, <1>a, TailOrdered DEF Ordered
  <2>3. Tail(queue[c]) \in Seq(Event)
    BY <2>1, <1>a, HeadTailProperties
  <2> HIDE DEF e
  <2>4. Older(wire[c], queue[c]) /\ Rising(wire[c]) /\ UpTo(wire[c], processed)
    BY DEF Ordered
  <2>5. Rising(Append(wire[c], e)) /\ UpTo(Append(wire[c], e), processed)
    BY <2>2, <2>4, <1>a, AppendOrdered
  <2>6. Older(wire[c], Tail(queue[c])) /\ Older(Append(wire[c], e), Tail(queue[c]))
    BY <2>2, <2>3, <2>4, <1>a, PrependOlder
  <2>7. ASSUME NEW p \in Page, link[p] = c, link[p] # NoLink
        PROVE  /\ Older(rows[p], Tail(queue[c])) /\ Older(rows[p], wire[c])
               /\ Older(rows[p], Append(wire[c], e))
    <3>1. Older(rows[p], queue[c]) /\ Older(rows[p], wire[c])
      BY <2>7 DEF Ordered
    <3> QED
      BY <3>1, <2>2, <1>a, AppendOlder
  <2>8. ASSUME NEW d \in Conn
        PROVE  /\ Rising(queue'[d]) /\ UpTo(queue'[d], processed)
               /\ Rising(wire'[d]) /\ UpTo(wire'[d], processed)
               /\ Older(wire'[d], queue'[d])
    BY <2>1, <2>2, <2>4, <2>5, <2>6 DEF Ordered
  <2>9. ASSUME NEW p \in Page, link[p] # NoLink
        PROVE  Older(rows[p], wire'[link[p]]) /\ Older(rows[p], queue'[link[p]])
    <3>1. CASE link[p] = c
      BY <3>1, <2>1, <2>7, <2>9
    <3>2. CASE link[p] # c
      BY <3>2, <2>1, <2>9, <1>a DEF Ordered
    <3> QED
      BY <3>1, <3>2
  <2> QED
    BY <2>1, <2>8, <2>9 DEF Ordered
<1>4. ASSUME NEW c \in Conn, Drained(c)
      PROVE  Ordered'
  BY <1>4 DEF Drained, Ordered, pageVars, statsVars
<1>5. ASSUME NEW c \in Conn, Raise(c)
      PROVE  Ordered'
  <2>1. /\ UNCHANGED <<recent, processed, wire, link, rows, reply>>
        /\ \A d \in Conn : queue'[d] = queue[d] \/ queue'[d] = <<>>
    BY <1>5 DEF Raise, TypeOK, statsVars, pageVars
  <2> QED
    BY <2>1, <1>a, EmptyOrdered DEF Ordered
<1>6. ASSUME NEW c \in Conn, Reset(c)
      PROVE  Ordered'
  BY <1>6 DEF Reset, Ordered, pageVars, statsVars
<1>7. ASSUME NEW p \in Page, Open(p)
      PROVE  Ordered'
  BY <1>7 DEF Open, Ordered, streamVars, statsVars
<1>8. ASSUME NEW p \in Page, Serve(p)
      PROVE  Ordered'
  <2>1. /\ UNCHANGED <<recent, processed, wire, queue, link, rows>>
        /\ reply' = [reply EXCEPT ![p] = Snapshot]
    BY <1>8 DEF Serve, streamVars, statsVars
  <2>2. /\ LastN(recent, Shown) \in Seq(Event)
        /\ Rising(LastN(recent, Shown)) /\ UpTo(LastN(recent, Shown), processed)
    BY <1>a, LastNProperties, LastNOrdered DEF Ordered
  <2>3. Falling(Snapshot.recent) /\ UpTo(Snapshot.recent, processed)
    BY <2>2, <1>a, ReverseOrdered DEF Snapshot
  <2>4. \A q \in Page : reply'[q] = IF q = p THEN Snapshot ELSE reply[q]
    BY <2>1 DEF TypeOK
  <2>5. ASSUME NEW q \in Page, reply'[q] # NoReply
        PROVE  Falling(reply'[q].recent) /\ UpTo(reply'[q].recent, processed)
    BY <2>3, <2>4, <2>5 DEF Ordered
  <2> QED
    BY <2>1, <2>5 DEF Ordered
<1>9. ASSUME NEW p \in Page, FetchFails(p)
      PROVE  Ordered'
  BY <1>9 DEF FetchFails, Ordered, TypeOK, streamVars, statsVars
<1>10. ASSUME NEW p \in Page, Load(p)
      PROVE  Ordered'
  <2>1. /\ UNCHANGED <<recent, processed, wire, queue, link>>
        /\ \A q \in Page : reply'[q] = IF q = p THEN NoReply ELSE reply[q]
        /\ \A q \in Page : rows'[q] = IF q = p THEN reply[p].recent ELSE rows[q]
        /\ link[p] = NoLink /\ reply[p] # NoReply
    BY <1>10 DEF Load, Linked, TypeOK, streamVars, statsVars
  <2>2. Falling(reply[p].recent) /\ UpTo(reply[p].recent, processed)
    BY <2>1 DEF Ordered
  <2>3. ASSUME NEW q \in Page
        PROVE  /\ Falling(rows'[q]) /\ UpTo(rows'[q], processed)
               /\ reply'[q] # NoReply =>
                     Falling(reply'[q].recent) /\ UpTo(reply'[q].recent, processed)
               /\ link[q] # NoLink => rows'[q] = rows[q]
    BY <2>1, <2>2 DEF Ordered
  <2> QED
    BY <2>1, <2>3 DEF Ordered
<1>11. ASSUME NEW p \in Page, NEW c \in Conn, Connect(p, c)
      PROVE  Ordered'
  <2>1. /\ UNCHANGED <<recent, processed, wire, queue, rows, reply>>
        /\ \A q \in Page : link'[q] = IF q = p THEN c ELSE link[q]
        /\ wire[c] = <<>> /\ queue[c] = <<>>
    BY <1>11 DEF Connect, Linked, TypeOK, statsVars
  <2> QED
    BY <2>1, EmptyOrdered DEF Ordered
<1>12. ASSUME NEW p \in Page, Receive(p)
      PROVE  Ordered'
  <2> DEFINE e == Head(wire[link[p]])
  <2>1. PICK c \in Conn : c = link[p] /\ c # NoLink /\ wire[c] # <<>>
    BY <1>12 DEF Receive, TypeOK
  <2>2. /\ UNCHANGED <<recent, processed, queue, link, reply>>
        /\ \A q \in Page : rows'[q] = IF q = p THEN AddRow(rows[p], e) ELSE rows[q]
        /\ \A d \in Conn : wire'[d] = IF d = c THEN Tail(wire[c]) ELSE wire[d]
    BY <1>12, <2>1 DEF Receive, TypeOK, statsVars
  <2>3. /\ Rising(wire[c]) /\ UpTo(wire[c], processed) /\ Older(wire[c], queue[c])
        /\ Older(rows[p], wire[c]) /\ Older(rows[p], queue[c])
        /\ Falling(rows[p]) /\ UpTo(rows[p], processed)
    BY <2>1 DEF Ordered
  <2>4. e = Head(wire[c])
    BY <2>1
  <2> HIDE DEF e
  <2>5. /\ Rising(Tail(wire[c])) /\ UpTo(Tail(wire[c]), processed)
        /\ Older(Tail(wire[c]), queue[c]) /\ Older(rows[p], Tail(wire[c]))
        /\ e \in Event /\ e.serial <= processed
        /\ \A i \in 1 .. Len(Tail(wire[c])) : e.serial < Tail(wire[c])[i].serial
        /\ \A i \in 1 .. Len(rows[p]) : rows[p][i].serial < e.serial
        /\ \A i \in 1 .. Len(queue[c]) : e.serial < queue[c][i].serial
    BY <2>1, <2>3, <2>4, <1>a, TailOrdered
  <2>6. /\ Falling(AddRow(rows[p], e)) /\ UpTo(AddRow(rows[p], e), processed)
        /\ Older(AddRow(rows[p], e), Tail(wire[c]))
        /\ Older(AddRow(rows[p], e), queue[c])
    BY <2>3, <2>5, <1>a, AddRowOrdered
  <2>7. ASSUME NEW q \in Page
        PROVE  Falling(rows'[q]) /\ UpTo(rows'[q], processed)
    BY <2>2, <2>6 DEF Ordered
  <2>8. ASSUME NEW d \in Conn
        PROVE  /\ Rising(wire'[d]) /\ UpTo(wire'[d], processed)
               /\ Older(wire'[d], queue[d])
    BY <2>2, <2>5 DEF Ordered
  <2>9. ASSUME NEW q \in Page, link[q] # NoLink
        PROVE  Older(rows'[q], wire'[link[q]]) /\ Older(rows'[q], queue[link[q]])
    <3>1. CASE q = p
      BY <3>1, <2>1, <2>2, <2>6
    <3>2. CASE q # p
      <4>1. link[q] # c /\ link[q] \in Conn
        BY <3>2, <2>1, <2>9, <1>a DEF Linked
      <4> QED
        BY <4>1, <3>2, <2>2, <2>9 DEF Ordered
    <3> QED
      BY <3>1, <3>2
  <2> QED
    BY <2>2, <2>7, <2>8, <2>9 DEF Ordered
<1>13. ASSUME NEW p \in Page, Break(p)
      PROVE  Ordered'
  <2>1. /\ UNCHANGED <<recent, processed, queue, rows, reply>>
        /\ \A q \in Page : link'[q] = IF q = p THEN NoLink ELSE link[q]
        /\ \A c \in Conn : wire'[c] = wire[c] \/ wire'[c] = <<>>
    BY <1>13 DEF Break, Hangup, TypeOK, statsVars
  <2> QED
    BY <2>1, <1>a, EmptyOrdered DEF Ordered
<1>14. ASSUME NEW p \in Page, Close(p)
      PROVE  Ordered'
  <2>1. /\ UNCHANGED <<recent, processed, queue>>
        /\ \A q \in Page : link'[q] = IF q = p THEN NoLink ELSE link[q]
        /\ \A q \in Page : rows'[q] = IF q = p THEN <<>> ELSE rows[q]
        /\ \A q \in Page : reply'[q] = IF q = p THEN NoReply ELSE reply[q]
        /\ \A c \in Conn : wire'[c] = wire[c] \/ wire'[c] = <<>>
    BY <1>14 DEF Close, Hangup, TypeOK, statsVars
  <2> QED
    BY <2>1, <1>a, EmptyOrdered DEF Ordered
<1>15. CASE Restart
  BY <1>15, EmptyOrdered DEF Restart, Ordered, Empty
<1>16. CASE UNCHANGED vars
  BY <1>16 DEF vars, Ordered
<1>17. ASSUME NEW p \in Page, Refreshing(p)
      PROVE  Ordered'
  BY <1>17, RefreshLeaves DEF Ordered, statsVars, streamVars
<1> QED
  BY <1>1, <1>2, <1>3, <1>4, <1>5, <1>6, <1>7, <1>8, <1>9, <1>10, <1>11, <1>12,
     <1>13, <1>14, <1>15, <1>16, <1>17 DEF Next, Stream, Browse, Refreshing

(* The log of a page shows every query at most once and the newest on top, *)
(* across snapshot, reconnects and restarts of the server.                 *)
THEOREM RowsStayInOrder == Spec => []RowsInOrder
<1>1. Ordered => RowsInOrder
  BY DEF Ordered, Falling, RowsInOrder
<1> QED
  BY <1>1, TypeInit, TypeStep, LinkedInit, LinkedStep, OrderedInit, OrderedStep, PTL
     DEF Spec

-----------------------------------------------------------------------------
(* Sums.                                                                   *)

(* The element a fold takes next.                                          *)
Chosen(S) == CHOOSE n \in S : TRUE

(* What the fold of SumOf computes, set by set.                            *)
Sums(f, g) ==
    g = [S \in SUBSET Name |->
            IF S = {} THEN 0 ELSE f[Chosen(S)] + g[S \ {Chosen(S)}]]

LEMMA SumUnfolds ==
    \A f : SumOf(f) = (CHOOSE g : Sums(f, g))[Name]
BY DEF SumOf, FoldSet, MapThenFoldSet, Sums, Chosen

(* The least number with a property: how the lemmas on sums are proved, a  *)
(* smallest set that is a counterexample being none.                       *)
LEMMA LeastNumber ==
    ASSUME NEW B \in SUBSET Nat, B # {}
    PROVE  \E m \in B : \A n \in Nat : n < m => n \notin B
<1>1. \E x \in B : \A y \in B : ~(<<y, x>> \in OpToRel(<, Nat))
  BY NatLessThanWellFounded, WFMin, Zenon
<1>2. \E x \in B : \A y \in B : ~(y < x)
  BY <1>1, Zenon DEF OpToRel
<1> QED
  BY <1>2

(* A set without its chosen element is smaller by one.                     *)
LEMMA ChosenRemoved ==
    ASSUME NEW S \in SUBSET Name, S # {}
    PROVE  /\ Chosen(S) \in S /\ Chosen(S) \in Name
           /\ S \ {Chosen(S)} \in SUBSET Name
           /\ IsFiniteSet(S) /\ Cardinality(S) \in Nat \ {0}
           /\ Cardinality(S \ {Chosen(S)}) = Cardinality(S) - 1
<1>1. Chosen(S) \in S
  BY DEF Chosen
<1>2. IsFiniteSet(S)
  BY DashboardConstants, FS_Subset
<1>3. Cardinality(S) \in Nat /\ Cardinality(S) # 0
  BY <1>2, FS_CardinalityType, FS_EmptySet
<1>4. Cardinality(S \ {Chosen(S)}) = Cardinality(S) - 1
  BY <1>1, <1>2, FS_RemoveElement
<1> QED
  BY <1>1, <1>2, <1>3, <1>4

(* A smallest set that is not Good has an element without which it is; so  *)
(* there is none.  (Good is the set of the good sets.)                     *)
LEMMA SetInduction ==
    ASSUME NEW Good, {} \in Good,
           \A S \in SUBSET Name : S # {} /\ S \ {Chosen(S)} \in Good => S \in Good
    PROVE  \A S \in SUBSET Name : S \in Good
<1> SUFFICES ASSUME NEW T \in SUBSET Name, T \notin Good
             PROVE  FALSE
  OBVIOUS
<1> DEFINE B == {Cardinality(S) : S \in {R \in SUBSET Name : R \notin Good}}
<1>1. \A S \in SUBSET Name : Cardinality(S) \in Nat
  BY DashboardConstants, FS_Subset, FS_CardinalityType
<1>2. B \in SUBSET Nat /\ B # {}
  BY <1>1
<1>3. PICK m \in B : \A n \in Nat : n < m => n \notin B
  <2> HIDE DEF B
  <2> QED
    BY <1>2, LeastNumber
<1>4. PICK S \in SUBSET Name : S \notin Good /\ Cardinality(S) = m
  OBVIOUS
<1>5. S # {}
  BY <1>4
<1>6. /\ S \ {Chosen(S)} \in SUBSET Name
      /\ Cardinality(S) \in Nat \ {0}
      /\ Cardinality(S \ {Chosen(S)}) = Cardinality(S) - 1
  BY <1>5, ChosenRemoved
<1>7. S \ {Chosen(S)} \notin Good
  BY <1>4, <1>5
<1>8. m - 1 \in B
  BY <1>4, <1>6, <1>7
<1>9. m - 1 \in Nat /\ m - 1 < m
  BY <1>4, <1>6
<1> QED
  BY <1>3, <1>8, <1>9

(* The fold exists: functions that are right on ever larger sets, the last *)
(* of them on all.                                                         *)
LEMMA SumsExist ==
    ASSUME NEW f \in [Name -> Nat]
    PROVE  \E g \in [SUBSET Name -> Nat] : Sums(f, g)
<1> DEFINE Next1(g, S) == IF S = {} THEN 0 ELSE f[Chosen(S)] + g[S \ {Chosen(S)}]
           Upto(n) == \E g \in [SUBSET Name -> Nat] :
                         \A S \in SUBSET Name : Cardinality(S) <= n => g[S] = Next1(g, S)
           B == {n \in Nat : ~Upto(n)}
<1>1. \A S \in SUBSET Name : Cardinality(S) \in Nat /\ (Cardinality(S) = 0 <=> S = {})
  BY DashboardConstants, FS_Subset, FS_CardinalityType, FS_EmptySet
<1>2. ASSUME NEW g \in [SUBSET Name -> Nat], NEW S \in SUBSET Name
      PROVE  Next1(g, S) \in Nat
  <2>1. CASE S = {}
    BY <2>1
  <2>2. CASE S # {}
    <3>1. f[Chosen(S)] \in Nat /\ g[S \ {Chosen(S)}] \in Nat
      BY <2>2, ChosenRemoved
    <3> QED
      BY <2>2, <3>1
  <2> QED
    BY <2>1, <2>2
<1>3. Upto(0)
  <2> DEFINE g == [S \in SUBSET Name |-> 0]
  <2>1. g \in [SUBSET Name -> Nat]
    OBVIOUS
  <2>2. ASSUME NEW S \in SUBSET Name, Cardinality(S) <= 0
        PROVE  g[S] = Next1(g, S)
    BY <1>1, <2>2
  <2> QED
    BY <2>1, <2>2
<1>4. ASSUME NEW n \in Nat, Upto(n)
      PROVE  Upto(n + 1)
  <2>1. PICK g \in [SUBSET Name -> Nat] :
               \A S \in SUBSET Name : Cardinality(S) <= n => g[S] = Next1(g, S)
    BY <1>4
  <2> DEFINE h == [S \in SUBSET Name |-> Next1(g, S)]
  <2>2. h \in [SUBSET Name -> Nat]
    BY <1>2
  <2>3. \A S \in SUBSET Name : Cardinality(S) <= n => h[S] = g[S]
    BY <2>1
  <2>4. ASSUME NEW S \in SUBSET Name, Cardinality(S) <= n + 1
        PROVE  h[S] = Next1(h, S)
    <3>1. CASE S = {}
      BY <3>1
    <3>2. CASE S # {}
      <4>1. /\ S \ {Chosen(S)} \in SUBSET Name
            /\ Cardinality(S \ {Chosen(S)}) <= n
        BY <2>4, <3>2, ChosenRemoved
      <4>2. h[S \ {Chosen(S)}] = g[S \ {Chosen(S)}]
        BY <2>3, <4>1
      <4> QED
        BY <3>2, <4>2
    <3> QED
      BY <3>1, <3>2
  <2> HIDE DEF h
  <2> QED
    BY <2>2, <2>4
<1> HIDE DEF Upto
<1>5. \A n \in Nat : Upto(n)
  <2> SUFFICES ASSUME NEW n \in Nat, ~Upto(n)
               PROVE  FALSE
    OBVIOUS
  <2>1. B \in SUBSET Nat /\ B # {}
    OBVIOUS
  <2>2. PICK m \in B : \A k \in Nat : k < m => k \notin B
    <3> HIDE DEF B
    <3> QED
      BY <2>1, LeastNumber
  <2>3. m \in Nat /\ ~Upto(m) /\ m # 0
    BY <1>3
  <2>4. m - 1 \in Nat /\ Upto(m - 1) /\ (m - 1) + 1 = m
    BY <2>2, <2>3
  <2> QED
    BY <1>4, <2>3, <2>4
<1>6. PICK g \in [SUBSET Name -> Nat] :
         \A S \in SUBSET Name : Cardinality(S) <= Cardinality(Name) => g[S] = Next1(g, S)
  <2>1. Cardinality(Name) \in Nat
    BY DashboardConstants, FS_CardinalityType
  <2> QED
    BY <1>5, <2>1 DEF Upto
<1>7. \A S \in SUBSET Name : g[S] = Next1(g, S)
  BY <1>6, DashboardConstants, FS_Subset
<1>8. g = [S \in SUBSET Name |-> Next1(g, S)]
  BY <1>7
<1> QED
  BY <1>8 DEF Sums

(* The fold that SumOf chooses, and its values.                            *)
LEMMA SumChosen ==
    ASSUME NEW f \in [Name -> Nat]
    PROVE  \E g \in [SUBSET Name -> Nat] : Sums(f, g) /\ SumOf(f) = g[Name]
<1> DEFINE g == CHOOSE h : Sums(f, h)
           Good == {S \in SUBSET Name : g[S] \in Nat}
<1>1. Sums(f, g)
  BY SumsExist
<1> HIDE DEF g
<1>2. /\ DOMAIN g = SUBSET Name /\ g[{}] = 0
      /\ g = [S \in SUBSET Name |-> g[S]]
      /\ \A S \in SUBSET Name : S # {} => g[S] = f[Chosen(S)] + g[S \ {Chosen(S)}]
  BY <1>1 DEF Sums
<1>3. \A S \in SUBSET Name : S \in Good
  <2>1. {} \in Good
    BY <1>2
  <2>2. ASSUME NEW S \in SUBSET Name, S # {}, S \ {Chosen(S)} \in Good
        PROVE  S \in Good
    <3>1. f[Chosen(S)] \in Nat /\ g[S \ {Chosen(S)}] \in Nat
      BY <2>2, ChosenRemoved
    <3>2. g[S] = f[Chosen(S)] + g[S \ {Chosen(S)}]
      BY <1>2, <2>2
    <3>3. g[S] \in Nat
      BY <3>1, <3>2
    <3> QED
      BY <3>3
  <2> HIDE DEF Good
  <2> QED
    BY <2>1, <2>2, SetInduction
<1>4. g \in [SUBSET Name -> Nat]
  BY <1>2, <1>3
<1>5. SumOf(f) = g[Name]
  BY SumUnfolds DEF g
<1> QED
  BY <1>1, <1>4, <1>5

LEMMA SumNone == SumOf(None) = 0
<1>1. None \in [Name -> Nat]
  BY DEF None
<1>2. PICK g \in [SUBSET Name -> Nat] : Sums(None, g) /\ SumOf(None) = g[Name]
  BY <1>1, SumChosen
<1> DEFINE Good == {S \in SUBSET Name : g[S] = 0}
<1>3. /\ g[{}] = 0
      /\ \A S \in SUBSET Name : S # {} => g[S] = None[Chosen(S)] + g[S \ {Chosen(S)}]
  BY <1>2 DEF Sums
<1>4. \A S \in SUBSET Name : S \in Good
  <2>1. {} \in Good
    BY <1>3
  <2>2. ASSUME NEW S \in SUBSET Name, S # {}, S \ {Chosen(S)} \in Good
        PROVE  S \in Good
    <3>1. g[S] = None[Chosen(S)] + g[S \ {Chosen(S)}] /\ g[S \ {Chosen(S)}] = 0
      BY <1>3, <2>2
    <3>2. None[Chosen(S)] = 0
      BY <2>2, ChosenRemoved DEF None
    <3> QED
      BY <3>1, <3>2
  <2> HIDE DEF Good
  <2> QED
    BY <2>1, <2>2, SetInduction
<1> QED
  BY <1>2, <1>4

(* Counting one more name adds one to the sum.                             *)
LEMMA SumCountsOne ==
    ASSUME NEW f \in [Name -> Nat], NEW name \in Name
    PROVE  /\ SumOf(f) \in Nat
           /\ SumOf([f EXCEPT ![name] = @ + 1]) = SumOf(f) + 1
<1> DEFINE f1 == [f EXCEPT ![name] = @ + 1]
<1>1. /\ f1 \in [Name -> Nat] /\ f1[name] = f[name] + 1
      /\ \A n \in Name \ {name} : f1[n] = f[n]
  OBVIOUS
<1> HIDE DEF f1
<1>2. PICK g \in [SUBSET Name -> Nat] : Sums(f, g) /\ SumOf(f) = g[Name]
  BY SumChosen
<1>3. PICK h \in [SUBSET Name -> Nat] : Sums(f1, h) /\ SumOf(f1) = h[Name]
  BY <1>1, SumChosen
<1>4. /\ g[{}] = 0 /\ h[{}] = 0
      /\ \A S \in SUBSET Name : S # {} =>
            /\ g[S] = f[Chosen(S)] + g[S \ {Chosen(S)}]
            /\ h[S] = f1[Chosen(S)] + h[S \ {Chosen(S)}]
  BY <1>2, <1>3 DEF Sums
<1> DEFINE Good == {S \in SUBSET Name : h[S] = g[S] + (IF name \in S THEN 1 ELSE 0)}
<1>5. \A S \in SUBSET Name : S \in Good
  <2>1. {} \in Good
    BY <1>4
  <2>2. ASSUME NEW S \in SUBSET Name, S # {}, S \ {Chosen(S)} \in Good
        PROVE  S \in Good
    <3> DEFINE n == Chosen(S)
               R == S \ {n}
    <3>1. n \in S /\ n \in Name /\ R \in SUBSET Name
      BY <2>2, ChosenRemoved
    <3>2. g[S] = f[n] + g[R] /\ h[S] = f1[n] + h[R]
      BY <1>4, <2>2
    <3>3. h[R] = g[R] + (IF name \in R THEN 1 ELSE 0)
      BY <2>2
    <3>4. g[R] \in Nat /\ f[n] \in Nat
      BY <3>1
    <3>5. (name \in R <=> name \in S /\ name # n) /\ n \notin R
      OBVIOUS
    <3> HIDE DEF n, R
    <3>6. CASE n = name
      <4>1. f1[n] = f[n] + 1 /\ name \notin R /\ name \in S
        BY <1>1, <3>1, <3>5, <3>6
      <4>2. h[S] = g[S] + 1
        BY <3>2, <3>3, <3>4, <4>1
      <4> QED
        BY <4>1, <4>2
    <3>7. CASE n # name
      <4>1. f1[n] = f[n] /\ (name \in R <=> name \in S)
        BY <1>1, <3>1, <3>5, <3>7
      <4>2. h[S] = g[S] + (IF name \in S THEN 1 ELSE 0)
        BY <3>2, <3>3, <3>4, <4>1
      <4> QED
        BY <4>2
    <3> QED
      BY <3>6, <3>7
  <2> HIDE DEF Good
  <2> QED
    BY <2>1, <2>2, SetInduction
<1>6. h[Name] = g[Name] + 1 /\ g[Name] \in Nat
  BY <1>5
<1> QED
  BY <1>2, <1>3, <1>6 DEF f1

-----------------------------------------------------------------------------
(* Tallies.                                                                *)

LEMMA TalliesInit == Init => TalliesAgree
<1> SUFFICES ASSUME Init PROVE TalliesAgree
  OBVIOUS
<1>1. /\ SumOf(domain_counts) = 0 /\ SumOf(blocked_counts) = 0
      /\ tally.blocked = 0 /\ tally.total = 0 /\ tally.cache_hits = 0
  BY SumNone DEF Init, Zero
<1> QED
  BY <1>1 DEF Init, TalliesAgree

(* The recent events end with the one that was appended last.              *)
LEMMA RecentLast ==
  ASSUME TypeOK, NEW name \in Name, NEW kind \in Kind, OnEvent(name, kind)
  PROVE  recent' # <<>> => Last(recent').serial = processed'
<1> DEFINE e == [serial |-> processed + 1, name |-> name, kind |-> kind]
           all == Append(recent, e)
<1>1. e \in Event /\ e.serial = processed + 1 /\ recent \in Seq(Event)
  BY DEF TypeOK, Event
<1>2. recent' = LastN(all, Ring) /\ processed' = processed + 1
  BY DEF OnEvent
<1> HIDE DEF e
<1>3. /\ all \in Seq(Event) /\ Len(all) \in Nat \ {0} /\ all[Len(all)] = e
  BY <1>1, AppendProperties
<1> HIDE DEF all
<1>4. /\ recent' \in Seq(Event)
      /\ \A i \in 1 .. Len(recent') : recent'[i] = all[Len(all) - Len(recent') + i]
  BY <1>2, <1>3, LastNProperties, DashboardConstants
<1>5. recent' # <<>> => Last(recent') = e
  <2>1. recent' # <<>> => Len(recent') \in 1 .. Len(recent') /\ Len(recent') \in Nat
    BY <1>4
  <2>2. recent' # <<>> => recent'[Len(recent')] = all[Len(all)]
    BY <1>3, <1>4, <2>1
  <2> QED
    BY <1>3, <2>2 DEF Last
<1> QED
  BY <1>1, <1>2, <1>5

(* A query is counted in one list, and is the last of the recent ones.     *)
LEMMA TalliesCount ==
  ASSUME TypeOK, TalliesAgree, NEW name \in Name, NEW kind \in Kind, OnEvent(name, kind)
  PROVE  TalliesAgree'
<1> DEFINE e == [serial |-> processed + 1, name |-> name, kind |-> kind]
<1>1. /\ domain_counts \in [Name -> Nat] /\ blocked_counts \in [Name -> Nat]
      /\ tally.total \in Nat /\ tally.blocked \in Nat /\ tally.cache_hits \in Nat
      /\ recent \in Seq(Event) /\ processed \in Nat
  BY DEF TypeOK, Counts
<1>2. /\ tally' = Count(tally, kind) /\ processed' = processed + 1
      /\ recent' = LastN(Append(recent, e), Ring)
  BY DEF OnEvent
<1>3. /\ SumOf(domain_counts) \in Nat /\ SumOf(blocked_counts) \in Nat
      /\ SumOf([domain_counts EXCEPT ![name] = @ + 1]) = SumOf(domain_counts) + 1
      /\ SumOf([blocked_counts EXCEPT ![name] = @ + 1]) = SumOf(blocked_counts) + 1
  BY <1>1, SumCountsOne
<1>4. /\ SumOf(blocked_counts) = tally.blocked
      /\ SumOf(domain_counts) = tally.total - tally.blocked
      /\ tally.cache_hits <= SumOf(domain_counts)
  BY DEF TalliesAgree
<1>5. /\ tally'.total = tally.total + 1
      /\ tally'.blocked = tally.blocked + (IF kind = "blocked" THEN 1 ELSE 0)
      /\ tally'.cache_hits = tally.cache_hits + (IF kind = "hit" THEN 1 ELSE 0)
  BY <1>2 DEF Count
<1>6. CASE kind = "blocked"
  <2>1. /\ SumOf(blocked_counts)' = SumOf(blocked_counts) + 1
        /\ SumOf(domain_counts)' = SumOf(domain_counts)
    <3>1. /\ blocked_counts' = [blocked_counts EXCEPT ![name] = @ + 1]
          /\ domain_counts' = domain_counts
      BY <1>6 DEF OnEvent
    <3> QED
      BY <1>3, <3>1
  <2>2. tally'.blocked = tally.blocked + 1 /\ tally'.cache_hits = tally.cache_hits
    BY <1>1, <1>5, <1>6
  <2> QED
    BY <1>1, <1>3, <1>4, <1>5, <2>1, <2>2, RecentLast DEF TalliesAgree
<1>7. CASE kind # "blocked"
  <2>1. /\ SumOf(domain_counts)' = SumOf(domain_counts) + 1
        /\ SumOf(blocked_counts)' = SumOf(blocked_counts)
    <3>1. /\ domain_counts' = [domain_counts EXCEPT ![name] = @ + 1]
          /\ blocked_counts' = blocked_counts
      BY <1>7 DEF OnEvent
    <3> QED
      BY <1>3, <3>1
  <2>2. tally'.blocked = tally.blocked /\ tally'.cache_hits <= tally.cache_hits + 1
    BY <1>1, <1>5, <1>7
  <2>3. tally'.cache_hits \in Nat
    BY <1>1, <1>5
  <2> QED
    <3>1. SumOf(domain_counts)' = tally'.total - tally'.blocked
      BY <1>1, <1>3, <1>4, <1>5, <2>1, <2>2
    <3>2. tally'.cache_hits <= SumOf(domain_counts)'
      BY <1>1, <1>3, <1>4, <2>1, <2>2, <2>3
    <3> QED
      BY <1>4, <2>1, <2>2, <3>1, <3>2, RecentLast DEF TalliesAgree
<1> QED
  BY <1>6, <1>7

LEMMA TalliesStep == TypeOK /\ TalliesAgree /\ [Next]_vars => TalliesAgree'
<1> SUFFICES ASSUME TypeOK, TalliesAgree, [Next]_vars PROVE TalliesAgree'
  OBVIOUS
<1>1. ASSUME NEW n \in Name, NEW k \in Kind, OnEvent(n, k)
      PROVE  TalliesAgree'
  BY <1>1, TalliesCount
<1>2. CASE Restart
  <2>1. /\ SumOf(domain_counts)' = 0 /\ SumOf(blocked_counts)' = 0 /\ recent' = <<>>
        /\ tally'.blocked = 0 /\ tally'.total = 0 /\ tally'.cache_hits = 0
    BY <1>2, SumNone DEF Restart, Zero
  <2> QED
    BY <2>1 DEF TalliesAgree
<1>3. ASSUME UNCHANGED statsVars
      PROVE  TalliesAgree'
  BY <1>3 DEF statsVars, TalliesAgree
<1>4. ASSUME NEW c \in Conn, Stream(c) \/ Reset(c)
      PROVE  TalliesAgree'
  BY <1>3, <1>4 DEF Stream, Subscribe, Send, Drained, Raise, Reset
<1>5. ASSUME NEW p \in Page, Browse(p)
      PROVE  TalliesAgree'
  BY <1>3, <1>5, RefreshLeaves
  DEF Browse, Open, Serve, FetchFails, Load, Connect, Receive, Break, Close, Refreshing
<1>6. ASSUME UNCHANGED vars
      PROVE  TalliesAgree'
  BY <1>3, <1>6 DEF vars, statsVars
<1> QED
  BY <1>1, <1>2, <1>4, <1>5, <1>6 DEF Next

(* COUNTERS: the two lists are the total split in two, and the recent      *)
(* events end with the query processed last, whatever was queried and      *)
(* however often the server was restarted.                                 *)
THEOREM CountersAddUp == Spec => []TalliesAgree
BY TypeInit, TypeStep, TalliesInit, TalliesStep, PTL DEF Spec

=============================================================================
